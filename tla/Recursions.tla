------------------------------ MODULE Recursions ------------------------------
(***************************************************************************)
(* Definitions by recursion, and what the loops of Listing and UnionFind   *)
(* compute.  Least counterexamples stand for induction: if some argument   *)
(* had not the value it should have, a smallest one would not either.      *)
(***************************************************************************)
EXTENDS Listing, UnionFind, FiniteSets, FiniteSetTheorems, WellFoundedInduction, TLAPS

(* A set of numbers that is not empty has a least one. *)
LEMMA LeastNat ==
  ASSUME NEW T \in SUBSET Nat, T # {}
  PROVE  \E x \in T : \A y \in T : x <= y
<1>1. PICK x \in T : \A y \in T : <<y, x>> \notin OpToRel(<, Nat)
  BY NatLessThanWellFounded, WFMin
<1>2. \A y \in T : ~(y < x)
  BY <1>1 DEF OpToRel
<1> QED
  BY <1>2

(* The values of a function on a finite set are finitely many. *)
LEMMA FiniteImage ==
  ASSUME NEW S, IsFiniteSet(S), NEW f
  PROVE  IsFiniteSet({f[x] : x \in S})
<1> DEFINE g == [x \in S |-> f[x]]
           T == {f[x] : x \in S}
<1>1. g \in [S -> T] /\ \A t \in T : \E s \in S : g[s] = t
  OBVIOUS
<1>2. g \in Surjection(S, T)
  BY <1>1 DEF Surjection
<1> HIDE DEF g, T
<1>3. IsFiniteSet(T)
  BY <1>2, FS_Surjection
<1> QED
  BY <1>3 DEF T

(* Among finite sets there is one of the least size. *)
LEMMA SmallestSet ==
  ASSUME NEW S, S # {}, \A T \in S : IsFiniteSet(T)
  PROVE  \E T \in S : \A U \in S : Cardinality(T) <= Cardinality(U)
<1> DEFINE sizes == {Cardinality(T) : T \in S}
<1>1. sizes \in SUBSET Nat /\ sizes # {}
  BY FS_CardinalityType
<1>2. PICK n \in sizes : \A m \in sizes : n <= m
  <2> HIDE DEF sizes
  <2> QED
    BY <1>1, LeastNat
<1> QED
  BY <1>2

(* A set without one of its elements is smaller. *)
LEMMA SmallerWithout ==
  ASSUME NEW S, IsFiniteSet(S), NEW T \in SUBSET S, T # S
  PROVE  /\ IsFiniteSet(T)
         /\ Cardinality(T) \in Nat /\ Cardinality(S) \in Nat
         /\ Cardinality(T) < Cardinality(S)
<1>1. IsFiniteSet(T) /\ Cardinality(T) <= Cardinality(S)
      /\ (Cardinality(T) = Cardinality(S) => T = S)
  BY FS_Subset
<1>2. Cardinality(T) \in Nat /\ Cardinality(S) \in Nat
  BY <1>1, FS_CardinalityType
<1> QED
  BY <1>1, <1>2

(***************************************************************************)
(* A recursion that goes down from n to 0 defines a function.              *)
(***************************************************************************)
Counts(n, V, a, step) == n \in Nat /\ a \in V /\ \A i \in 1 .. n, x \in V : step[i][x] \in V
Counted(g, n, V, a, step) ==
  g \in [0 .. n -> V] /\ g[0] = a /\ \A i \in 1 .. n : g[i] = step[i][g[i - 1]]

LEMMA RecursionOnNumbers ==
  ASSUME NEW n, NEW V, NEW a, NEW step, Counts(n, V, a, step)
  PROVE  \E g : Counted(g, n, V, a, step)
<1> USE DEF Counts, Counted
<1> DEFINE Rec(g, m) == /\ g \in [0 .. m -> V]
                        /\ g[0] = a
                        /\ \A i \in 1 .. m : g[i] = step[i][g[i - 1]]
           none == {m \in 0 .. n : \A g : ~Rec(g, m)}
<1>1. ASSUME NEW m \in 0 .. n PROVE \E g : Rec(g, m)
  <2> SUFFICES ASSUME none # {} PROVE FALSE
    <3> HIDE DEF Rec
    <3> QED
      OBVIOUS
  <2>1. PICK k \in none : \A j \in none : k <= j
    <3>1. none \in SUBSET Nat
      OBVIOUS
    <3> HIDE DEF none
    <3> QED
      BY <3>1, LeastNat
  <2>2. k \in 0 .. n /\ \A g : ~Rec(g, k)
    <3> HIDE DEF Rec
    <3> QED
      BY <2>1
  <2>3. CASE k = 0
    <3>1. Rec([i \in 0 .. 0 |-> a], 0)
      OBVIOUS
    <3> HIDE DEF Rec
    <3> QED
      BY <2>2, <2>3, <3>1
  <2>4. CASE k # 0
    <3>1. k - 1 \in 0 .. n /\ k - 1 \notin none
      BY <2>1, <2>4
    <3>2. PICK g : Rec(g, k - 1)
      <4> HIDE DEF Rec
      <4> QED
        BY <3>1
    <3> DEFINE h == [i \in 0 .. k |-> IF i < k THEN g[i] ELSE step[k][g[k - 1]]]
    <3>3. k \in 1 .. n
      BY <2>2, <2>4
    <3>4. step[k][g[k - 1]] \in V
      BY <3>2, <3>3
    <3>5. h \in [0 .. k -> V] /\ h[0] = a
      BY <3>2, <3>3, <3>4
    <3>6. \A i \in 1 .. k : h[i] = step[i][h[i - 1]]
      BY <3>2, <3>3
    <3>7. Rec(h, k)
      <4> HIDE DEF h
      <4> QED
        BY <3>5, <3>6
    <3> HIDE DEF Rec
    <3> QED
      BY <2>2, <3>7
  <2> QED
    BY <2>3, <2>4
<1>2. PICK g : Rec(g, n)
  <2> HIDE DEF Rec
  <2> QED
    BY <1>1
<1> QED
  BY <1>2

(***************************************************************************)
(* So does one that takes the elements of a finite set one by one.         *)
(***************************************************************************)
TakesApart(S, V, a, pick, step) ==
  /\ IsFiniteSet(S) /\ a \in V
  /\ \A E \in SUBSET S : E # {} => pick[E] \in E
  /\ \A E \in SUBSET S, x \in V : E # {} => step[E][x] \in V
TakenApart(g, S, V, a, pick, step) ==
  /\ g \in [SUBSET S -> V] /\ g[{}] = a
  /\ \A E \in SUBSET S : E # {} => g[E] = step[E][g[E \ {pick[E]}]]

LEMMA RecursionOnSets ==
  ASSUME NEW S, NEW V, NEW a, NEW pick, NEW step, TakesApart(S, V, a, pick, step)
  PROVE  \E g : TakenApart(g, S, V, a, pick, step)
<1> USE DEF TakesApart, TakenApart
<1> DEFINE Sized(n) == {E \in SUBSET S : Cardinality(E) <= n}
           Upto(g, n) == /\ g \in [Sized(n) -> V]
                         /\ g[{}] = a
                         /\ \A E \in Sized(n) : E # {} => g[E] = step[E][g[E \ {pick[E]}]]
           none == {n \in Nat : \A g : ~Upto(g, n)}
<1>1. \A E \in SUBSET S : IsFiniteSet(E) /\ Cardinality(E) \in Nat
  BY FS_Subset, FS_CardinalityType
<1>2. ASSUME NEW E \in SUBSET S, E # {}
      PROVE  /\ E \ {pick[E]} \in SUBSET S
             /\ Cardinality(E \ {pick[E]}) < Cardinality(E)
  <2>1. E \ {pick[E]} \in SUBSET E /\ E \ {pick[E]} # E
    BY <1>2
  <2> QED
    BY <1>1, <2>1, SmallerWithout
<1>3. \A E \in SUBSET S : Cardinality(E) <= 0 <=> E = {}
  BY <1>1, FS_EmptySet
<1>4. ASSUME NEW n \in Nat PROVE \E g : Upto(g, n)
  <2> SUFFICES ASSUME none # {} PROVE FALSE
    <3> HIDE DEF Upto
    <3> QED
      OBVIOUS
  <2>1. PICK k \in none : \A j \in none : k <= j
    <3>1. none \in SUBSET Nat
      OBVIOUS
    <3> HIDE DEF none
    <3> QED
      BY <3>1, LeastNat
  <2>2. k \in Nat /\ \A g : ~Upto(g, k)
    <3> HIDE DEF Upto
    <3> QED
      BY <2>1
  <2>3. CASE k = 0
    <3>1. Sized(0) = {{}}
      BY <1>3
    <3>2. Upto([E \in {{}} |-> a], 0)
      BY <3>1
    <3> HIDE DEF Upto
    <3> QED
      BY <2>2, <2>3, <3>2
  <2>4. CASE k # 0
    <3>1. k - 1 \in Nat /\ k - 1 \notin none
      <4>1. k \in Nat
        BY <2>2
      <4> HIDE DEF none
      <4> QED
        BY <2>1, <2>4, <4>1
    <3>2. PICK g : Upto(g, k - 1)
      <4> HIDE DEF Upto
      <4> QED
        BY <3>1
    <3> DEFINE h == [E \in Sized(k) |-> IF E \in Sized(k - 1) THEN g[E] ELSE step[E][g[E \ {pick[E]}]]]
    <3>3. {} \in Sized(k - 1) /\ Sized(k - 1) \subseteq Sized(k) /\ Sized(k) \subseteq SUBSET S
      BY <1>1, <1>3, <2>2, <3>1
    <3>4. \A E \in Sized(k) : E # {} => E \ {pick[E]} \in Sized(k - 1)
      BY <1>1, <1>2, <2>2, <3>1
    <3> HIDE DEF Sized
    <3>5. h \in [Sized(k) -> V] /\ h[{}] = a
      <4>1. g \in [Sized(k - 1) -> V] /\ g[{}] = a
        BY <3>2
      <4>2. ASSUME NEW E \in Sized(k), E \notin Sized(k - 1)
            PROVE  step[E][g[E \ {pick[E]}]] \in V
        <5>1. E # {} /\ E \in SUBSET S /\ E \ {pick[E]} \in Sized(k - 1)
          BY <3>3, <3>4, <4>2
        <5> QED
          BY <1>1, <4>1, <5>1
      <4>3. \A E \in Sized(k) : h[E] \in V
        BY <4>1, <4>2
      <4> QED
        BY <3>3, <4>1, <4>3
    <3>6. \A E \in Sized(k) : E # {} => h[E] = step[E][h[E \ {pick[E]}]]
      BY <3>2, <3>3, <3>4
    <3>7. Upto(h, k)
      <4> HIDE DEF h
      <4> QED
        BY <3>5, <3>6
    <3> HIDE DEF Upto
    <3> QED
      BY <2>2, <3>7
  <2> QED
    BY <2>3, <2>4
<1>5. PICK g : Upto(g, Cardinality(S))
  <2> HIDE DEF Upto
  <2>1. Cardinality(S) \in Nat
    BY FS_CardinalityType
  <2> QED
    BY <1>4, <2>1
<1>6. Sized(Cardinality(S)) = SUBSET S
  BY FS_Subset
<1> HIDE DEF Sized
<1> QED
  BY <1>5, <1>6

-----------------------------------------------------------------------------
(* Sequences. *)

(* Everything in the parts up to i is in s, before the place k. *)
Holds(s, k, seqs, i) ==
  \A m \in 1 .. i : \A j \in DOMAIN seqs[m] : \E k2 \in 1 .. k : s[k2] = seqs[m][j]

(* The place k of s holds an element of one of seqs, and those before it   *)
(* are before k.                                                           *)
ComesFrom(s, k, seqs) ==
  \E i \in DOMAIN seqs : \E j \in DOMAIN seqs[i] :
    /\ s[k] = seqs[i][j]
    /\ \A j2 \in 1 .. j - 1 : \E k2 \in 1 .. k - 1 : s[k2] = seqs[i][j2]
    /\ Holds(s, k - 1, seqs, i - 1)

LEMMA ConcatOneMore ==
  ASSUME NEW V, NEW seqs \in Seq(Seq(V)), NEW s \in Seq(V), NEW i \in DOMAIN seqs,
         \A k \in DOMAIN s : ComesFrom(s, k, seqs), Holds(s, Len(s), seqs, i - 1)
  PROVE  /\ s \o seqs[i] \in Seq(V)
         /\ \A k \in DOMAIN (s \o seqs[i]) : ComesFrom(s \o seqs[i], k, seqs)
         /\ Holds(s \o seqs[i], Len(s \o seqs[i]), seqs, i)
<1> DEFINE t == s \o seqs[i]
<1>1. seqs[i] \in Seq(V)
  OBVIOUS
<1>2. t \in Seq(V) /\ Len(t) = Len(s) + Len(seqs[i])
  BY <1>1
<1>3. \A k \in 1 .. Len(s) : t[k] = s[k]
  BY <1>1
<1>4. \A j \in 1 .. Len(seqs[i]) : t[Len(s) + j] = seqs[i][j]
  BY <1>1
<1> HIDE DEF t
<1>5. Len(s) \in Nat /\ Len(seqs[i]) \in Nat /\ DOMAIN s = 1 .. Len(s) /\ i \in Nat \ {0}
      /\ DOMAIN t = 1 .. Len(s) + Len(seqs[i]) /\ DOMAIN seqs[i] = 1 .. Len(seqs[i])
  BY <1>1, <1>2
<1>6. ASSUME NEW k \in 0 .. Len(s), NEW m, Holds(s, k, seqs, m) PROVE Holds(t, k, seqs, m)
  <2>1. \A k2 \in 1 .. k : t[k2] = s[k2]
    BY <1>3, <1>5
  <2> QED
    BY <1>6, <2>1 DEF Holds
<1>7. ASSUME NEW k \in DOMAIN t PROVE ComesFrom(t, k, seqs)
  <2>1. CASE k \in 1 .. Len(s)
    <3>1. PICK m \in DOMAIN seqs : \E j \in DOMAIN seqs[m] :
             /\ s[k] = seqs[m][j]
             /\ \A j2 \in 1 .. j - 1 : \E k2 \in 1 .. k - 1 : s[k2] = seqs[m][j2]
             /\ Holds(s, k - 1, seqs, m - 1)
      <4>1. ComesFrom(s, k, seqs)
        BY <1>5, <2>1
      <4> QED
        BY <4>1 DEF ComesFrom
    <3>2. PICK j \in DOMAIN seqs[m] :
             /\ s[k] = seqs[m][j]
             /\ \A j2 \in 1 .. j - 1 : \E k2 \in 1 .. k - 1 : s[k2] = seqs[m][j2]
             /\ Holds(s, k - 1, seqs, m - 1)
      BY <3>1
    <3>3. t[k] = s[k] /\ \A k2 \in 1 .. k - 1 : t[k2] = s[k2]
      BY <1>3, <1>5, <2>1
    <3>4. t[k] = seqs[m][j]
      BY <3>2, <3>3
    <3>5. ASSUME NEW j2 \in 1 .. j - 1 PROVE \E k2 \in 1 .. k - 1 : t[k2] = seqs[m][j2]
      <4>1. PICK k2 \in 1 .. k - 1 : s[k2] = seqs[m][j2]
        BY <3>2
      <4> QED
        BY <3>3, <4>1
    <3>6. k - 1 \in 0 .. Len(s)
      BY <1>5, <2>1
    <3> QED
      BY <1>6, <3>2, <3>4, <3>5, <3>6 DEF ComesFrom
  <2>2. CASE k \notin 1 .. Len(s)
    <3>1. PICK j \in 1 .. Len(seqs[i]) : k = Len(s) + j
      <4>1. k - Len(s) \in 1 .. Len(seqs[i]) /\ k = Len(s) + (k - Len(s))
        BY <1>5, <2>2
      <4> QED
        BY <4>1
    <3>2. t[k] = seqs[i][j]
      BY <1>4, <3>1
    <3>3. ASSUME NEW j2 \in 1 .. j - 1 PROVE \E k2 \in 1 .. k - 1 : t[k2] = seqs[i][j2]
      <4>1. Len(s) + j2 \in 1 .. k - 1 /\ j2 \in 1 .. Len(seqs[i])
        BY <1>5, <3>1
      <4> QED
        BY <1>4, <4>1
    <3>4. Holds(t, k - 1, seqs, i - 1)
      <4>1. Holds(t, Len(s), seqs, i - 1)
        BY <1>5, <1>6
      <4>2. \A k2 \in 1 .. Len(s) : k2 \in 1 .. k - 1
        BY <1>5, <3>1
      <4> QED
        BY <4>1, <4>2 DEF Holds
    <3> QED
      BY <1>5, <3>2, <3>3, <3>4 DEF ComesFrom
  <2> QED
    BY <2>1, <2>2
<1>8. Holds(t, Len(t), seqs, i)
  <2> SUFFICES ASSUME NEW m \in 1 .. i, NEW j \in DOMAIN seqs[m]
               PROVE  \E k2 \in 1 .. Len(t) : t[k2] = seqs[m][j]
    BY DEF Holds
  <2>1. CASE m = i
    <3>1. Len(s) + j \in 1 .. Len(t)
      BY <1>2, <1>5, <2>1
    <3> QED
      BY <1>4, <1>5, <2>1, <3>1
  <2>2. CASE m # i
    <3>1. m \in 1 .. i - 1
      BY <1>5, <2>2
    <3>2. PICK k2 \in 1 .. Len(s) : s[k2] = seqs[m][j]
      BY <3>1 DEF Holds
    <3>3. k2 \in 1 .. Len(t) /\ t[k2] = s[k2]
      BY <1>2, <1>3, <1>5
    <3> QED
      BY <3>2, <3>3
  <2> QED
    BY <2>1, <2>2
<1> QED
  BY <1>2, <1>7, <1>8 DEF t

(* The loop of Concat: one more part at a time. *)
ConcatLoop(g, V, seqs) ==
  /\ g \in [0 .. Len(seqs) -> Seq(V)] /\ g[0] = << >>
  /\ \A i \in 1 .. Len(seqs) : g[i] = g[i - 1] \o seqs[i]

LEMMA ConcatLoops ==
  ASSUME NEW V, NEW seqs \in Seq(Seq(V))
  PROVE  \E g : ConcatLoop(g, V, seqs) /\ Concat(seqs) = g[Len(seqs)]
<1> DEFINE n == Len(seqs)
           Loop(g) == g = [i \in 0 .. n |-> IF i = 0 THEN << >> ELSE g[i - 1] \o seqs[i]]
           step == [i \in 1 .. n |-> [x \in Seq(V) |-> x \o seqs[i]]]
<1>1. n \in Nat /\ DOMAIN seqs = 1 .. n /\ \A i \in 1 .. n : seqs[i] \in Seq(V)
  OBVIOUS
<1>2. PICK g : ConcatLoop(g, V, seqs)
  <2>1. Counts(n, Seq(V), << >>, step)
    <3>1. << >> \in Seq(V)
      OBVIOUS
    <3>2. \A i \in 1 .. n, x \in Seq(V) : step[i][x] \in Seq(V)
      BY <1>1
    <3> QED
      BY <1>1, <3>1, <3>2 DEF Counts
  <2>2. PICK g : Counted(g, n, Seq(V), << >>, step)
    <3> HIDE DEF n, step
    <3> QED
      BY <2>1, RecursionOnNumbers
  <2>3. g \in [0 .. n -> Seq(V)] /\ g[0] = << >> /\ \A i \in 1 .. n : g[i] = step[i][g[i - 1]]
    BY <2>2 DEF Counted
  <2>4. \A i \in 1 .. n : g[i] = g[i - 1] \o seqs[i]
    <3> SUFFICES ASSUME NEW i \in 1 .. n PROVE g[i] = g[i - 1] \o seqs[i]
      OBVIOUS
    <3>1. i - 1 \in 0 .. n
      BY <1>1
    <3>2. g[i - 1] \in Seq(V)
      BY <2>3, <3>1
    <3> QED
      BY <2>3, <3>2
  <2> QED
    BY <2>3, <2>4 DEF ConcatLoop
<1>3. ASSUME NEW h, Loop(h), NEW i \in 0 .. n
      PROVE  h[i] = IF i = 0 THEN << >> ELSE h[i - 1] \o seqs[i]
  <2> HIDE DEF n
  <2> QED
    BY <1>3
<1>4. Loop(g)
  <2>1. ASSUME NEW i \in 0 .. n PROVE g[i] = IF i = 0 THEN << >> ELSE g[i - 1] \o seqs[i]
    <3>1. CASE i = 0
      BY <1>2, <3>1 DEF ConcatLoop
    <3>2. CASE i # 0
      <4>1. i \in 1 .. n
        BY <1>1, <3>2
      <4> QED
        BY <1>2, <3>2, <4>1 DEF ConcatLoop
    <3> QED
      BY <3>1, <3>2
  <2>2. g = [i \in 0 .. n |-> g[i]]
    BY <1>2 DEF ConcatLoop
  <2> HIDE DEF n
  <2> QED
    BY <2>1, <2>2
<1>5. PICK h : Loop(h) /\ Concat(seqs) = h[n]
  <2>1. Concat(seqs) = (CHOOSE h : Loop(h))[n]
    BY DEF Concat
  <2> QED
    BY <1>4, <2>1
<1> DEFINE wrong == {i \in 0 .. n : h[i] # g[i]}
<1>6. SUFFICES ASSUME wrong # {} PROVE FALSE
  <2>1. n \in 0 .. n
    BY <1>1
  <2> QED
    BY <1>2, <1>5, <2>1
<1>7. PICK i \in wrong : \A j \in wrong : i <= j
  <2>1. wrong \in SUBSET Nat
    OBVIOUS
  <2> HIDE DEF wrong
  <2> QED
    BY <1>6, <2>1, LeastNat
<1>8. i \in 1 .. n
  <2>1. h[0] = g[0]
    <3>1. 0 \in 0 .. n
      BY <1>1
    <3> HIDE DEF Loop, n
    <3>2. h[0] = << >>
      BY <1>3, <1>5, <3>1
    <3> QED
      BY <1>2, <3>2 DEF ConcatLoop
  <2> QED
    BY <1>1, <1>7, <2>1
<1>9. h[i - 1] = g[i - 1]
  BY <1>1, <1>7, <1>8
<1>10. h[i] = h[i - 1] \o seqs[i]
  <2>1. i \in 0 .. n /\ i # 0
    BY <1>1, <1>8
  <2> HIDE DEF Loop, n
  <2> QED
    BY <1>3, <1>5, <2>1
<1> QED
  BY <1>2, <1>7, <1>8, <1>9, <1>10 DEF ConcatLoop

(* What stands in a concatenation comes from one of its parts, in order. *)
LEMMA ConcatParts ==
  ASSUME NEW V, NEW seqs \in Seq(Seq(V))
  PROVE  /\ Concat(seqs) \in Seq(V)
         /\ \A k \in DOMAIN Concat(seqs) : ComesFrom(Concat(seqs), k, seqs)
         /\ Holds(Concat(seqs), Len(Concat(seqs)), seqs, Len(seqs))
<1> DEFINE n == Len(seqs)
           Right(s, i) == /\ s \in Seq(V) /\ Holds(s, Len(s), seqs, i)
                          /\ \A k \in DOMAIN s : ComesFrom(s, k, seqs)
<1>1. n \in Nat /\ DOMAIN seqs = 1 .. n /\ \A i \in 1 .. n : seqs[i] \in Seq(V)
  OBVIOUS
<1>2. PICK g : ConcatLoop(g, V, seqs) /\ Concat(seqs) = g[n]
  BY ConcatLoops
<1> DEFINE wrong == {i \in 0 .. n : ~Right(g[i], i)}
<1>4. SUFFICES ASSUME wrong # {} PROVE FALSE
  <2>1. n \in 0 .. n
    BY <1>1
  <2>2. Right(g[n], n) => Right(Concat(seqs), n)
    BY <1>2
  <2>3. Right(Concat(seqs), n)
    <3> HIDE DEF n
    <3> QED
      BY <2>1, <2>2
  <2> QED
    BY <2>3
<1>5. PICK i \in wrong : \A j \in wrong : i <= j
  <2>1. wrong \in SUBSET Nat
    OBVIOUS
  <2> HIDE DEF wrong
  <2> QED
    BY <1>4, <2>1, LeastNat
<1>6. i # 0
  <2>1. g[0] = << >>
    BY <1>2 DEF ConcatLoop
  <2>2. Right(<< >>, 0)
    BY DEF Holds
  <2> HIDE DEF Right
  <2> QED
    BY <1>5, <2>1, <2>2
<1>7. i \in 1 .. n /\ i - 1 \in 0 .. n /\ i - 1 \notin wrong
  <2>1. i \in 0 .. n
    BY <1>5
  <2> HIDE DEF wrong
  <2> QED
    BY <1>1, <1>5, <1>6, <2>1
<1>8. Right(g[i - 1], i - 1)
  <2> HIDE DEF Right
  <2> QED
    BY <1>7
<1>9. g[i] = g[i - 1] \o seqs[i]
  BY <1>2, <1>7 DEF ConcatLoop
<1>10. Right(g[i], i)
  BY <1>1, <1>7, <1>8, <1>9, ConcatOneMore
<1> HIDE DEF Right
<1> QED
  BY <1>5, <1>10

(* A filter keeps the elements at some places, each once and in order. *)
Places(s, seq, at, m) ==
  /\ m \in [DOMAIN s -> at] /\ \A k \in DOMAIN s : s[k] = seq[m[k]]
  /\ \A i \in at : \E k \in DOMAIN s : m[k] = i
  /\ \A j, k \in DOMAIN s : j < k => m[j] < m[k]

LEMMA PlacesOneMore ==
  ASSUME NEW V, NEW seq \in Seq(V), NEW i \in DOMAIN seq, NEW at \in SUBSET (1 .. i - 1),
         NEW s \in Seq(V), NEW m, Places(s, seq, at, m)
  PROVE  \E m2 : Places(Append(s, seq[i]), seq, at \cup {i}, m2)
<1> DEFINE n == Len(s)
           t == Append(s, seq[i])
           m2 == [k \in 1 .. n + 1 |-> IF k = n + 1 THEN i ELSE m[k]]
<1>1. n \in Nat /\ DOMAIN s = 1 .. n /\ i \in Nat /\ i > 0
  OBVIOUS
<1>2. DOMAIN t = 1 .. n + 1 /\ t[n + 1] = seq[i] /\ \A k \in 1 .. n : t[k] = s[k]
  OBVIOUS
<1> HIDE DEF n, t
<1>3. m2[n + 1] = i /\ \A k \in 1 .. n : m2[k] = m[k]
  BY <1>1
<1>4. m \in [1 .. n -> at]
  BY <1>1 DEF Places
<1>5. m2 \in [1 .. n + 1 -> at \cup {i}]
  BY <1>1, <1>4
<1> HIDE DEF m2
<1>6. \A k \in 1 .. n + 1 : k = n + 1 \/ k \in 1 .. n
  BY <1>1
<1>7. \A k \in DOMAIN t : t[k] = seq[m2[k]]
  BY <1>1, <1>2, <1>3, <1>6 DEF Places
<1>8. \A j \in at \cup {i} : \E k \in DOMAIN t : m2[k] = j
  <2> TAKE j \in at \cup {i}
  <2>1. CASE j = i
    BY <1>1, <1>2, <1>3, <2>1
  <2>2. CASE j \in at
    <3>1. PICK k \in 1 .. n : m[k] = j
      BY <1>1, <2>2 DEF Places
    <3>2. k \in DOMAIN t
      BY <1>1, <1>2
    <3> QED
      BY <1>3, <3>1, <3>2
  <2> QED
    BY <2>1, <2>2
<1>9. ASSUME NEW j \in DOMAIN t, NEW k \in DOMAIN t, j < k PROVE m2[j] < m2[k]
  <2>1. j \in 1 .. n
    BY <1>1, <1>2, <1>9
  <2>2. CASE k = n + 1
    <3>1. m[j] \in 1 .. i - 1
      BY <1>4, <2>1
    <3> QED
      BY <1>1, <1>3, <2>1, <2>2, <3>1
  <2>3. CASE k \in 1 .. n
    BY <1>1, <1>3, <1>9, <2>1, <2>3 DEF Places
  <2> QED
    BY <1>2, <1>6, <2>2, <2>3
<1>10. Places(t, seq, at \cup {i}, m2)
  BY <1>2, <1>5, <1>7, <1>8, <1>9 DEF Places
<1> QED
  BY <1>10 DEF t

FilterParts(seq, at) == [i \in DOMAIN seq |-> IF i \in at THEN <<seq[i]>> ELSE << >>]

LEMMA FilterPlaces ==
  ASSUME NEW V, NEW seq \in Seq(V), NEW at \in SUBSET DOMAIN seq
  PROVE  LET s == Concat(FilterParts(seq, at)) IN s \in Seq(V) /\ \E m : Places(s, seq, at, m)
<1> DEFINE parts == FilterParts(seq, at)
           n == Len(seq)
           upTo(i) == at \cap (1 .. i)
           Right(s, i) == s \in Seq(V) /\ \E m : Places(s, seq, upTo(i), m)
<1>1. n \in Nat /\ DOMAIN seq = 1 .. n
  OBVIOUS
<1>2. parts \in Seq(Seq(V)) /\ Len(parts) = n
  <2>1. \A i \in DOMAIN seq : parts[i] \in Seq(V)
    BY DEF FilterParts
  <2>2. parts = [i \in 1 .. n |-> parts[i]]
    BY <1>1 DEF FilterParts
  <2> HIDE DEF parts, n
  <2> QED
    BY <1>1, <2>1, <2>2
<1> HIDE DEF parts
<1>3. PICK g : ConcatLoop(g, V, parts) /\ Concat(parts) = g[n]
  BY <1>2, ConcatLoops
<1> DEFINE wrong == {i \in 0 .. n : ~Right(g[i], i)}
<1>4. SUFFICES ASSUME wrong # {} PROVE FALSE
  <2>1. upTo(n) = at
    BY <1>1
  <2>2. wrong = {} => Right(g[n], n)
    <3>1. n \in 0 .. n
      BY <1>1
    <3> HIDE DEF Right, n
    <3> QED
      BY <3>1
  <2> HIDE DEF wrong
  <2> QED
    BY <1>3, <2>1, <2>2 DEF parts
<1>5. PICK i \in wrong : \A j \in wrong : i <= j
  <2>1. wrong \in SUBSET Nat
    OBVIOUS
  <2> HIDE DEF wrong
  <2> QED
    BY <1>4, <2>1, LeastNat
<1>6. i # 0
  <2>1. g[0] = << >>
    BY <1>3 DEF ConcatLoop
  <2>2. upTo(0) = {}
    OBVIOUS
  <2>3. << >> \in Seq(V) /\ Places(<< >>, seq, {}, << >>)
    BY DEF Places
  <2>4. Right(<< >>, 0)
    <3> HIDE DEF upTo
    <3> QED
      BY <2>2, <2>3
  <2> HIDE DEF Right
  <2> QED
    BY <1>5, <2>1, <2>4
<1>7. i \in 1 .. n /\ i - 1 \in 0 .. n /\ i - 1 \notin wrong
  <2>1. i \in 0 .. n
    BY <1>5
  <2> HIDE DEF wrong
  <2> QED
    BY <1>1, <1>5, <1>6, <2>1
<1>8. PICK m : g[i - 1] \in Seq(V) /\ Places(g[i - 1], seq, upTo(i - 1), m)
  <2>1. Right(g[i - 1], i - 1)
    <3> HIDE DEF Right
    <3> QED
      BY <1>7
  <2> QED
    BY <2>1
<1>9. g[i] = g[i - 1] \o parts[i]
  BY <1>2, <1>3, <1>7 DEF ConcatLoop
<1>10. CASE i \in at
  <2>1. parts[i] = <<seq[i]>> /\ seq[i] \in V
    BY <1>1, <1>7, <1>10 DEF parts, FilterParts
  <2>2. g[i] = Append(g[i - 1], seq[i]) /\ g[i] \in Seq(V)
    BY <1>8, <1>9, <2>1
  <2>3. upTo(i) = upTo(i - 1) \cup {i} /\ upTo(i - 1) \in SUBSET (1 .. i - 1)
    BY <1>1, <1>7, <1>10
  <2>4. i \in DOMAIN seq
    BY <1>1, <1>7
  <2> HIDE DEF upTo, wrong
  <2>5. \E m2 : Places(Append(g[i - 1], seq[i]), seq, upTo(i - 1) \cup {i}, m2)
    BY <1>8, <2>3, <2>4, PlacesOneMore
  <2> QED
    BY <1>5, <2>2, <2>3, <2>5 DEF wrong
<1>11. CASE i \notin at
  <2>1. parts[i] = << >>
    BY <1>1, <1>7, <1>11 DEF parts, FilterParts
  <2>2. g[i] = g[i - 1]
    BY <1>8, <1>9, <2>1
  <2>3. upTo(i) = upTo(i - 1)
    BY <1>1, <1>7, <1>11
  <2> HIDE DEF upTo
  <2> QED
    BY <1>5, <1>8, <2>2, <2>3
<1> QED
  BY <1>10, <1>11

-----------------------------------------------------------------------------
(* Union-find. *)

(* The classes C of a union-find part its nodes. *)
Parts(C, nodes) ==
  UNION C = nodes /\ \A c, d \in C : c = d \/ c \cap d = {}

(* The union that an edge asks for, of two nodes, is made. *)
Together(C, nodes, e) ==
  e[1] \in nodes /\ e[2] \in nodes => \E c \in C : e[1] \in c /\ e[2] \in c

(* No edge of E leads out of the nodes S, or into them. *)
ClosedUnder(S, nodes, E) ==
  \A e \in E : e[1] \in nodes /\ e[2] \in nodes => (e[1] \in S <=> e[2] \in S)

(* Each class lies in S or outside it. *)
Respects(C, S) == \A c \in C : c \subseteq S \/ c \cap S = {}

(* One union. *)
LEMMA UnionJoins ==
  ASSUME NEW C, NEW nodes, NEW e, Parts(C, nodes)
  PROVE  /\ Parts(Union(C, e), nodes)
         /\ Together(Union(C, e), nodes, e)
         /\ \A x : Together(C, nodes, x) => Together(Union(C, e), nodes, x)
         /\ \A S : Respects(C, S) /\ ClosedUnder(S, nodes, {e}) => Respects(Union(C, e), S)
         /\ {} \in Union(C, e) => {} \in C \/ e[1] \notin nodes
<1> DEFINE meet == {c \in C : e[1] \in c \/ e[2] \in c}
<1>1. Union(C, e) = (C \ meet) \cup {UNION meet}
  BY DEF Union
<1>2. \A c \in C : \E d \in Union(C, e) : c \subseteq d
  BY <1>1
<1>3. Parts(Union(C, e), nodes)
  <2>1. UNION Union(C, e) = nodes
    <3>1. UNION Union(C, e) \subseteq nodes
      BY <1>1 DEF Parts
    <3> QED
      BY <1>2, <3>1 DEF Parts
  <2>2. \A c \in C \ meet : c \cap (UNION meet) = {}
    BY DEF Parts
  <2> QED
    BY <1>1, <2>1, <2>2 DEF Parts
<1>4. Together(Union(C, e), nodes, e)
  <2>1. \A c \in C : e[1] \in c \/ e[2] \in c => c \subseteq UNION meet
    OBVIOUS
  <2>2. UNION C = nodes
    BY DEF Parts
  <2>3. ASSUME e[1] \in nodes, e[2] \in nodes PROVE {e[1], e[2]} \subseteq UNION meet
    BY <2>1, <2>2, <2>3
  <2>4. meet # {} => UNION meet \in Union(C, e)
    BY <1>1
  <2> QED
    BY <1>1, <2>3 DEF Together
<1>5. \A x : Together(C, nodes, x) => Together(Union(C, e), nodes, x)
  BY <1>2 DEF Together
<1>6. ASSUME NEW S, Respects(C, S), ClosedUnder(S, nodes, {e})
      PROVE  Respects(Union(C, e), S)
  <2>1. e[1] \in nodes /\ e[2] \in nodes => (e[1] \in S <=> e[2] \in S)
    BY <1>6 DEF ClosedUnder
  <2>2. UNION meet \subseteq S \/ (UNION meet) \cap S = {}
    <3>1. ASSUME NEW c \in meet, NEW d \in meet, c \subseteq S PROVE d \subseteq S
      <4>1. PICK x \in {e[1], e[2]} : x \in c
        OBVIOUS
      <4>2. PICK y \in {e[1], e[2]} : y \in d
        OBVIOUS
      <4>3. CASE x = y
        BY <3>1, <4>1, <4>2, <4>3 DEF Parts
      <4>4. CASE x # y
        <5>1. x \in nodes /\ y \in nodes
          BY <4>1, <4>2 DEF Parts
        <5>2. y \in S
          BY <2>1, <3>1, <4>1, <4>4, <5>1
        <5> QED
          BY <1>6, <4>2, <5>2 DEF Respects
      <4> QED
        BY <4>3, <4>4
    <3> QED
      BY <1>6, <3>1 DEF Respects
  <2> QED
    BY <1>1, <1>6, <2>2 DEF Respects
<1>7. {} \in Union(C, e) => {} \in C \/ e[1] \notin nodes
  <2>1. e[1] \in nodes => e[1] \in UNION meet
    BY DEF Parts
  <2> QED
    BY <1>1, <2>1
<1> QED
  BY <1>3, <1>4, <1>5, <1>6, <1>7

(* The recursion of Classes: one more edge, one more union. *)
OneMore(nodes, g, E) ==
  IF E = {} THEN {{x} : x \in nodes}
  ELSE Union(g[E \ {CHOOSE x \in E : TRUE}], CHOOSE x \in E : TRUE)

ClassLoop(nodes, edges, g) == g = [E \in SUBSET edges |-> OneMore(nodes, g, E)]

(* It ends: a function satisfies it. *)
LEMMA ClassesDefined ==
  ASSUME NEW nodes, NEW edges, IsFiniteSet(edges)
  PROVE  \E g : ClassLoop(nodes, edges, g)
<1> DEFINE V == SUBSET SUBSET nodes
           pick == [E \in SUBSET edges |-> CHOOSE x \in E : TRUE]
           step == [E \in SUBSET edges |-> [C \in V |-> Union(C, pick[E])]]
           single == {{x} : x \in nodes}
<1>1. single \in V
  OBVIOUS
<1>2. \A E \in SUBSET edges : E # {} => pick[E] \in E
  OBVIOUS
<1>3. \A E \in SUBSET edges, C \in V : step[E][C] \in V
  BY DEF Union
<1>4. PICK g : TakenApart(g, edges, V, single, pick, step)
  <2> HIDE DEF V, pick, step, single
  <2>1. TakesApart(edges, V, single, pick, step)
    BY <1>1, <1>2, <1>3 DEF TakesApart
  <2> QED
    BY <2>1, RecursionOnSets
<1>5. ASSUME NEW E \in SUBSET edges PROVE g[E] = OneMore(nodes, g, E)
  <2>1. E # {} => g[E \ {pick[E]}] \in V
    BY <1>4 DEF TakenApart
  <2> QED
    BY <1>4, <2>1 DEF OneMore, TakenApart
<1>6. g = [E \in SUBSET edges |-> g[E]]
  BY <1>4 DEF TakenApart
<1> QED
  BY <1>5, <1>6 DEF ClassLoop

(***************************************************************************)
(* Union-find parts the nodes into the connected ones: every edge between  *)
(* two nodes lies in a class, a class is never larger than edges make it,  *)
(* and none is empty.                                                      *)
(***************************************************************************)
LEMMA ClassesConnect ==
  ASSUME NEW nodes, NEW edges, IsFiniteSet(edges)
  PROVE  /\ Parts(Classes(nodes, edges), nodes)
         /\ \A e \in edges : Together(Classes(nodes, edges), nodes, e)
         /\ \A S : ClosedUnder(S, nodes, edges) => Respects(Classes(nodes, edges), S)
         /\ (\A e \in edges : e[1] \in nodes) => {} \notin Classes(nodes, edges)
<1> DEFINE Right(C, E) == /\ Parts(C, nodes)
                          /\ \A e \in E : Together(C, nodes, e)
                          /\ \A S : ClosedUnder(S, nodes, E) => Respects(C, S)
                          /\ (\A e \in E : e[1] \in nodes) => {} \notin C
<1>1. PICK g : Classes(nodes, edges) = g[edges] /\ ClassLoop(nodes, edges, g)
  <2>1. Classes(nodes, edges) = (CHOOSE g : ClassLoop(nodes, edges, g))[edges]
    BY DEF Classes, ClassLoop, OneMore
  <2>2. ClassLoop(nodes, edges, CHOOSE g : ClassLoop(nodes, edges, g))
    BY ClassesDefined
  <2> QED
    BY <2>1, <2>2
<1> DEFINE wrong == {E \in SUBSET edges : ~Right(g[E], E)}
<1>2. SUFFICES ASSUME wrong # {} PROVE FALSE
  BY <1>1
<1>3. \A E \in wrong : IsFiniteSet(E)
  BY FS_Subset
<1>4. PICK E \in wrong : \A D \in wrong : Cardinality(E) <= Cardinality(D)
  <2> HIDE DEF wrong
  <2> QED
    BY <1>2, <1>3, SmallestSet
<1>5. CASE E = {}
  <2>1. g[E] = {{x} : x \in nodes}
    BY <1>1, <1>5 DEF ClassLoop, OneMore
  <2>2. Right({{x} : x \in nodes}, {})
    BY DEF Parts, Respects
  <2> QED
    BY <1>4, <1>5, <2>1, <2>2
<1>6. CASE E # {}
  <2> DEFINE e == CHOOSE x \in E : TRUE
             D == E \ {e}
  <2>1. e \in E
    BY <1>6
  <2>2. D \in SUBSET E /\ D # E
    BY <2>1
  <2> HIDE DEF e
  <2>3. D \notin wrong
    BY <1>3, <1>4, <2>2, SmallerWithout
  <2>4. Right(g[D], D)
    BY <1>4, <2>3
  <2>5. g[E] = Union(g[D], e)
    BY <1>1, <1>4, <1>6 DEF e, ClassLoop, OneMore
  <2>6. Right(g[E], E)
    <3>1. /\ Parts(g[E], nodes)
          /\ Together(g[E], nodes, e)
          /\ \A x : Together(g[D], nodes, x) => Together(g[E], nodes, x)
          /\ \A S : Respects(g[D], S) /\ ClosedUnder(S, nodes, {e}) => Respects(g[E], S)
          /\ {} \in g[E] => {} \in g[D] \/ e[1] \notin nodes
      BY <2>4, <2>5, UnionJoins
    <3>2. \A x \in E : x \in D \/ x = e
      OBVIOUS
    <3>3. \A S : ClosedUnder(S, nodes, E) => ClosedUnder(S, nodes, D) /\ ClosedUnder(S, nodes, {e})
      BY <2>1 DEF ClosedUnder
    <3> QED
      BY <2>4, <3>1, <3>2, <3>3
  <2> QED
    BY <1>4, <2>6
<1> QED
  BY <1>5, <1>6
=============================================================================
