---------------------------- MODULE CodeStepsProofs ----------------------------
(***************************************************************************)
(* For every program, which handles can have a sibling (components.go) and *)
(* what is in a plan (steps.go); and for every program that is well formed *)
(* and migrated step by step, what threadability allows, that plans stay   *)
(* on code that is there, and that siblings hold what handles do.          *)
(***************************************************************************)
EXTENDS CodeSteps, Recursions

-----------------------------------------------------------------------------
(* Threadability. *)

(* The handles of T that can have siblings when those outside T cannot. *)
Sustained(p, T) == UNION {X \in SUBSET T : Pass(p, X) = X}

(* A pass only drops handles, and more of them the fewer it starts from. *)
LEMMA PassMonotone ==
  ASSUME NEW p, NEW T, NEW X \in SUBSET T
  PROVE  Pass(p, T) \subseteq T /\ Pass(p, X) \subseteq Pass(p, T)
BY DEF Pass

(* It drops none that can have a sibling. *)
LEMMA PassSustains ==
  ASSUME NEW p, NEW T
  PROVE  /\ Sustained(p, Pass(p, T)) = Sustained(p, T)
         /\ Pass(p, T) = T => Sustained(p, T) = T
<1>1. \A X \in SUBSET T : Pass(p, X) = X => X \subseteq Pass(p, T)
  BY PassMonotone
<1>2. Pass(p, T) \subseteq T
  BY DEF Pass
<1> QED
  BY <1>1, <1>2 DEF Sustained

(***************************************************************************)
(* The loop of threadability ends with the largest set of handles that     *)
(* allow a sibling and get all they hold from each other: each pass is a   *)
(* smaller set, and the last one is its own.                               *)
(***************************************************************************)
LEMMA ThreadableSustained ==
  ASSUME NEW p, IsFiniteSet(HandlesOf(p))
  PROVE  Threadable(p) = Sustained(p, {h \in HandlesOf(p) : ~Refuses(p, h)})
<1> DEFINE All == SUBSET HandlesOf(p)
           Loop(g) == g = [T \in All |-> IF Pass(p, T) = T THEN T ELSE g[Pass(p, T)]]
           f == [T \in All |-> Sustained(p, T)]
<1>1. \A T \in All : Pass(p, T) \in All
  BY DEF Pass
<1>2. Loop(f)
  <2> SUFFICES ASSUME NEW T \in All
               PROVE  Sustained(p, T) = IF Pass(p, T) = T THEN T ELSE Sustained(p, Pass(p, T))
    BY <1>1
  <2> QED
    BY PassSustains
<1>3. ASSUME NEW g, Loop(g), NEW T \in All
      PROVE  g[T] = Sustained(p, T)
  <2> DEFINE wrong == {X \in All : g[X] # Sustained(p, X)}
  <2>1. SUFFICES ASSUME wrong # {} PROVE FALSE
    OBVIOUS
  <2>2. \A X \in wrong : IsFiniteSet(X)
    BY FS_Subset
  <2>3. PICK X \in wrong : \A Y \in wrong : Cardinality(X) <= Cardinality(Y)
    <3> HIDE DEF wrong
    <3> QED
      BY <2>1, <2>2, SmallestSet
  <2>4. Pass(p, X) # X
    BY <1>3, <2>3, PassSustains
  <2>5. g[X] = g[Pass(p, X)]
    BY <1>3, <2>3, <2>4
  <2>6. Pass(p, X) \in wrong
    BY <1>1, <2>3, <2>5, PassSustains
  <2>7. Pass(p, X) \in SUBSET X
    BY DEF Pass
  <2> QED
    BY <2>2, <2>3, <2>4, <2>6, <2>7, SmallerWithout
<1>4. Loop(CHOOSE g : Loop(g))
  BY <1>2
<1>5. Threadable(p) = (CHOOSE g : Loop(g))[{h \in HandlesOf(p) : ~Refuses(p, h)}]
  BY DEF Threadable
<1> QED
  BY <1>3, <1>4, <1>5

(* What threadability leaves allows a sibling, and gets what it holds from *)
(* what it leaves.                                                         *)
LEMMA ThreadableFixed ==
  ASSUME NEW p, IsFiniteSet(HandlesOf(p))
  PROVE  /\ Threadable(p) \subseteq HandlesOf(p)
         /\ \A h \in Threadable(p) : ~Refuses(p, h) /\ Sources(p, h) \subseteq Threadable(p)
<1>1. Threadable(p) = Sustained(p, {h \in HandlesOf(p) : ~Refuses(p, h)})
  BY ThreadableSustained
<1> QED
  BY <1>1 DEF Sustained, Pass

LEMMA FirstOfIn ==
  ASSUME NEW S \in SUBSET Nat, S # {}
  PROVE  FirstOf(S) \in S
BY LeastNat DEF FirstOf

-----------------------------------------------------------------------------
(* What is put in order are the elements of the set. *)
LEMMA OrderedFrom ==
  ASSUME NEW S, IsFiniteSet(S), NEW key, \A x \in S : key[x] \in Nat
  PROVE  OrderedBy(S, key) \in Seq(S)
<1> DEFINE least(R) == CHOOSE y \in R : \A z \in R : key[y] <= key[z]
           Loop(g) == g = [R \in SUBSET S |->
                             IF R = {} THEN << >> ELSE <<least(R)>> \o g[R \ {least(R)}]]
           pick == [R \in SUBSET S |-> least(R)]
           step == [R \in SUBSET S |-> [q \in Seq(S) |-> <<pick[R]>> \o q]]
<1>1. ASSUME NEW R \in SUBSET S, R # {} PROVE least(R) \in R
  <2> DEFINE keys == {key[x] : x \in R}
  <2>1. keys \in SUBSET Nat /\ keys # {}
    BY <1>1
  <2>2. PICK k \in keys : \A m \in keys : k <= m
    <3> HIDE DEF keys
    <3> QED
      BY <2>1, LeastNat
  <2>3. \E y \in R : \A z \in R : key[y] <= key[z]
    BY <2>2
  <2> QED
    BY <2>3
<1> HIDE DEF least
<1>2. TakesApart(S, Seq(S), << >>, pick, step)
  <2>1. \A R \in SUBSET S : R # {} => pick[R] \in R
    BY <1>1
  <2>2. ASSUME NEW R \in SUBSET S, R # {}, NEW q \in Seq(S) PROVE step[R][q] \in Seq(S)
    <3>1. pick[R] \in S
      BY <2>1, <2>2
    <3>2. <<pick[R]>> \in Seq(S)
      BY <3>1
    <3> HIDE DEF pick
    <3> QED
      BY <3>2
  <2>3. << >> \in Seq(S)
    OBVIOUS
  <2> QED
    BY <2>1, <2>2, <2>3 DEF TakesApart
<1>3. PICK d : TakenApart(d, S, Seq(S), << >>, pick, step)
  <2> HIDE DEF pick, step
  <2> QED
    BY <1>2, RecursionOnSets
<1>4. Loop(d)
  <2>1. d \in [SUBSET S -> Seq(S)] /\ d[{}] = << >>
    BY <1>3 DEF TakenApart
  <2>2. ASSUME NEW R \in SUBSET S, R # {} PROVE d[R] = <<least(R)>> \o d[R \ {least(R)}]
    <3>1. d[R] = step[R][d[R \ {pick[R]}]]
      BY <1>3, <2>2 DEF TakenApart
    <3>2. d[R \ {pick[R]}] \in Seq(S)
      BY <2>1
    <3> QED
      BY <3>1, <3>2
  <2> QED
    BY <2>1, <2>2
<1>5. PICK g : OrderedBy(S, key) = g[S] /\ Loop(g)
  <2>1. OrderedBy(S, key) = (CHOOSE g : Loop(g))[S]
    BY DEF OrderedBy, least
  <2> QED
    BY <1>4, <2>1
<1> DEFINE wrong == {R \in SUBSET S : g[R] \notin Seq(S)}
<1>6. SUFFICES ASSUME wrong # {} PROVE FALSE
  BY <1>5
<1>7. \A R \in wrong : IsFiniteSet(R)
  BY FS_Subset
<1>8. PICK R \in wrong : \A Q \in wrong : Cardinality(R) <= Cardinality(Q)
  <2> HIDE DEF wrong
  <2> QED
    BY <1>6, <1>7, SmallestSet
<1>9. R \in SUBSET S /\ g[R] \notin Seq(S)
  BY <1>8
<1>10. R # {}
  <2>1. g[{}] = << >>
    BY <1>5
  <2>2. << >> \in Seq(S)
    OBVIOUS
  <2>3. g[{}] \in Seq(S)
    BY <2>1, <2>2
  <2> QED
    BY <1>9, <2>3
<1>11. g[R] = <<least(R)>> \o g[R \ {least(R)}] /\ least(R) \in R
  BY <1>1, <1>5, <1>9, <1>10
<1>12. R \ {least(R)} \in SUBSET R /\ R \ {least(R)} # R
  BY <1>11
<1>13. R \ {least(R)} \notin wrong
  BY <1>7, <1>8, <1>12, SmallerWithout
<1>14. g[R \ {least(R)}] \in Seq(S)
  BY <1>9, <1>13
<1>15. <<least(R)>> \in Seq(S)
  <2>1. least(R) \in S
    BY <1>9, <1>11
  <2> QED
    BY <2>1
<1>16. \A q, r \in Seq(S) : q \o r \in Seq(S)
  OBVIOUS
<1>17. g[R] \in Seq(S)
  BY <1>11, <1>14, <1>15, <1>16
<1> QED
  BY <1>9, <1>17

(* A filter keeps the order. *)
LEMMA FilteredParts ==
  ASSUME NEW V, NEW seq \in Seq(V)
  PROVE  /\ Filtered(seq) \in Seq(V)
         /\ \A k \in DOMAIN Filtered(seq) : \E i \in DOMAIN seq :
              /\ Filtered(seq)[k] = seq[i] /\ seq[i].kind # "none"
              /\ \A i2 \in 1 .. i - 1 : seq[i2].kind # "none" =>
                   \E k2 \in 1 .. k - 1 : Filtered(seq)[k2] = seq[i2]
         /\ \A i \in DOMAIN seq : seq[i].kind # "none" =>
              \E k \in DOMAIN Filtered(seq) : Filtered(seq)[k] = seq[i]
<1> DEFINE parts == [i \in DOMAIN seq |-> IF seq[i].kind = "none" THEN << >> ELSE <<seq[i]>>]
           s == Filtered(seq)
<1>1. /\ parts \in Seq(Seq(V)) /\ DOMAIN parts = DOMAIN seq
      /\ DOMAIN seq = 1 .. Len(seq) /\ Len(seq) \in Nat
  <2>1. \A i \in DOMAIN seq : parts[i] \in Seq(V)
    OBVIOUS
  <2>2. DOMAIN seq = 1 .. Len(seq) /\ Len(seq) \in Nat
    OBVIOUS
  <2> QED
    BY <2>1, <2>2
<1>2. s = Concat(parts)
  BY DEF Filtered, Filter
<1>3. /\ s \in Seq(V) /\ \A k \in DOMAIN s : ComesFrom(s, k, parts)
      /\ Holds(s, Len(s), parts, Len(seq))
  <2>1. Len(parts) = Len(seq)
    BY <1>1
  <2> HIDE DEF parts, s
  <2> QED
    BY <1>1, <1>2, <2>1, ConcatParts
<1>4. \A i \in DOMAIN seq :
        IF seq[i].kind = "none" THEN DOMAIN parts[i] = {}
        ELSE 1 \in DOMAIN parts[i] /\ DOMAIN parts[i] = {1} /\ parts[i][1] = seq[i]
  OBVIOUS
<1>5. ASSUME NEW k \in DOMAIN s
      PROVE  \E i \in DOMAIN seq :
               /\ s[k] = seq[i] /\ seq[i].kind # "none"
               /\ \A i2 \in 1 .. i - 1 : seq[i2].kind # "none" => \E k2 \in 1 .. k - 1 : s[k2] = seq[i2]
  <2> HIDE DEF parts, s
  <2>1. PICK i \in DOMAIN seq : \E j \in DOMAIN parts[i] :
           s[k] = parts[i][j] /\ Holds(s, k - 1, parts, i - 1)
    <3>1. ComesFrom(s, k, parts)
      BY <1>3, <1>5
    <3> QED
      BY <1>1, <3>1 DEF ComesFrom
  <2>2. s[k] = seq[i] /\ seq[i].kind # "none" /\ Holds(s, k - 1, parts, i - 1)
    BY <1>4, <2>1
  <2>3. ASSUME NEW i2 \in 1 .. i - 1, seq[i2].kind # "none"
        PROVE  \E k2 \in 1 .. k - 1 : s[k2] = seq[i2]
    <3>1. i2 \in DOMAIN seq
      BY <1>1
    <3>2. 1 \in DOMAIN parts[i2] /\ parts[i2][1] = seq[i2]
      BY <1>4, <2>3, <3>1
    <3> QED
      BY <2>2, <3>2 DEF Holds
  <2> QED
    BY <2>2, <2>3
<1>6. ASSUME NEW i \in DOMAIN seq, seq[i].kind # "none"
      PROVE  \E k \in DOMAIN s : s[k] = seq[i]
  <2>1. 1 \in DOMAIN parts[i] /\ parts[i][1] = seq[i]
    BY <1>4, <1>6
  <2>2. i \in 1 .. Len(seq)
    BY <1>1
  <2> HIDE DEF parts, s
  <2>3. PICK k \in 1 .. Len(s) : s[k] = seq[i]
    BY <1>3, <2>1, <2>2 DEF Holds
  <2>4. k \in DOMAIN s
    BY <1>3
  <2> QED
    BY <2>3, <2>4
<1> QED
  BY <1>3, <1>5, <1>6

-----------------------------------------------------------------------------
(* Steps. *)

(* The step that migrates a component at once, and what a plan has it for. *)
OneStepFor(st, p, v, C, gs) ==
  LET unit(g) == UnitStep(p, v, C, g, Blocking(p, v, C)) IN
    /\ st.kind = "component" /\ st.comp = C /\ st.machine /\ st.waits = {}
    /\ FinishStep(p, v, C, gs, Blocking(p, v, C)).machine
    /\ AddStep(p, v, C).kind = "add" => AddStep(p, v, C).machine
    /\ \E G \in SUBSET gs :
         /\ \A g \in G : unit(g).kind = "site" /\ unit(g).machine
         /\ st.sites = RootAndDeclItems(p, C) \cup UNION {unit(g).sites : g \in G}

(* The step k of the plan pl is one of component C, with the units gs. *)
ComponentStepAt(pl, k, p, v, C, gs) ==
  LET wait   == Blocking(p, v, C)
      add    == AddStep(p, v, C)
      finish == FinishStep(p, v, C, gs, wait) IN
    \/ pl[k] = add /\ add.kind = "add"
    \/ \E g \in gs : pl[k] = UnitStep(p, v, C, g, wait) /\ pl[k].kind = "site"
    \/ /\ pl[k] = finish /\ finish.kind = "finish"
       /\ add.kind = "add" => \E k2 \in 1 .. k - 1 : pl[k2] = add
    \/ OneStepFor(pl[k], p, v, C, gs)

IsSeq(s) == s \in Seq({s[k] : k \in DOMAIN s})

LEMMA SeqIsSeq ==
  ASSUME NEW V, NEW s \in Seq(V)
  PROVE  IsSeq(s)
BY DEF IsSeq

LEMMA FirstAndLast ==
  ASSUME NEW V, NEW a \in V, NEW m \in Seq(V), NEW b \in V
  PROVE  /\ <<a>> \o m \o <<b>> \in Seq(V)
         /\ Len(<<a>> \o m \o <<b>>) = Len(m) + 2
         /\ (<<a>> \o m \o <<b>>)[1] = a
         /\ (<<a>> \o m \o <<b>>)[Len(m) + 2] = b
         /\ \A i \in 2 .. Len(m) + 1 : (<<a>> \o m \o <<b>>)[i] = m[i - 1]
<1> DEFINE s == <<a>> \o m
           t == s \o <<b>>
<1>1. <<a>> \in Seq(V) /\ <<b>> \in Seq(V) /\ Len(<<a>>) = 1 /\ Len(<<b>>) = 1
      /\ <<a>>[1] = a /\ <<b>>[1] = b
  OBVIOUS
<1>2. s \in Seq(V) /\ Len(s) = Len(m) + 1 /\ s[1] = a /\ \A i \in 2 .. Len(m) + 1 : s[i] = m[i - 1]
  BY <1>1
<1> HIDE DEF s
<1>3. t \in Seq(V) /\ Len(t) = Len(m) + 2 /\ t[Len(m) + 2] = b /\ \A i \in 1 .. Len(m) + 1 : t[i] = s[i]
  BY <1>1, <1>2
<1>4. 1 \in 1 .. Len(m) + 1 /\ \A i \in 2 .. Len(m) + 1 : i \in 1 .. Len(m) + 1
  OBVIOUS
<1>5. t[1] = a /\ \A i \in 2 .. Len(m) + 1 : t[i] = m[i - 1]
  BY <1>2, <1>3, <1>4
<1> QED
  BY <1>3, <1>5 DEF s

LEMMA PlanComponentSteps ==
  ASSUME NEW p, NEW v, NEW C, NEW gs, OrderedUnits(p, v, gs) \in Seq(gs)
  PROVE  /\ IsSeq(PlanComponent(p, v, C, gs))
         /\ \A k \in DOMAIN PlanComponent(p, v, C, gs) :
              ComponentStepAt(PlanComponent(p, v, C, gs), k, p, v, C, gs)
<1> DEFINE add    == AddStep(p, v, C)
           wait   == Blocking(p, v, C)
           units  == OrderedUnits(p, v, gs)
           unit(g) == UnitStep(p, v, C, g, wait)
           finish == FinishStep(p, v, C, gs, wait)
           middle == [i \in DOMAIN units |-> UnitStep(p, v, C, units[i], wait)]
           all    == <<add>> \o middle \o <<finish>>
           V      == {add, finish} \cup {unit(g) : g \in gs}
           steps  == Filtered(all)
           one == /\ finish.machine /\ OnePackage(p, C, gs)
                  /\ \A i \in DOMAIN steps : steps[i].machine
           whole == [kind |-> "component", comp |-> C, machine |-> TRUE, waits |-> {},
                     sites |-> UNION {steps[i].sites : i \in DOMAIN steps}]
<1>1. PlanComponent(p, v, C, gs) = IF ~one THEN steps ELSE <<whole>>
  BY DEF PlanComponent
<1>2. units \in Seq(gs) /\ DOMAIN units = 1 .. Len(units) /\ Len(units) \in Nat
  OBVIOUS
<1>3. middle \in Seq(V) /\ Len(middle) = Len(units)
      /\ \A i \in 1 .. Len(units) : \E g \in gs : middle[i] = unit(g)
  <2> HIDE DEF units
  <2> QED
    BY <1>2
<1>4. all \in Seq(V) /\ Len(all) = Len(units) + 2 /\ all[1] = add /\ all[Len(all)] = finish
      /\ \A i \in DOMAIN all \ {1} : all[i] = finish \/ \E g \in gs : all[i] = unit(g)
  <2> HIDE DEF middle, add, finish, V, units, unit
  <2>1. add \in V /\ finish \in V
    BY DEF V
  <2>2. /\ all \in Seq(V) /\ Len(all) = Len(middle) + 2 /\ all[1] = add
        /\ all[Len(middle) + 2] = finish /\ \A i \in 2 .. Len(middle) + 1 : all[i] = middle[i - 1]
    BY <1>3, <2>1, FirstAndLast
  <2> HIDE DEF all
  <2>3. ASSUME NEW i \in DOMAIN all, i # 1, i # Len(units) + 2
        PROVE  \E g \in gs : all[i] = unit(g)
    <3>1. i \in 2 .. Len(units) + 1 /\ i - 1 \in 1 .. Len(units)
      BY <1>2, <1>3, <2>2, <2>3
    <3> QED
      BY <1>3, <2>2, <3>1
  <2> QED
    BY <1>3, <2>2, <2>3
<1>5. /\ steps \in Seq(V)
      /\ \A k \in DOMAIN steps : \E i \in DOMAIN all :
           /\ steps[k] = all[i] /\ all[i].kind # "none"
           /\ \A i2 \in 1 .. i - 1 : all[i2].kind # "none" => \E k2 \in 1 .. k - 1 : steps[k2] = all[i2]
      /\ \A i \in DOMAIN all : all[i].kind # "none" => \E k \in DOMAIN steps : steps[k] = all[i]
  <2> HIDE DEF all, V
  <2> QED
    BY <1>4, FilteredParts
<1>6. add.kind \in {"none", "add"} /\ add.comp = C
      /\ finish.kind \in {"none", "finish"}
      /\ \A g \in gs : unit(g).kind \in {"none", "site"}
  BY DEF AddStep, FinishStep, UnitStep, NoStep
<1>7. add.sites = RootAndDeclItems(p, C)
      /\ (finish.kind = "finish" => finish.sites = RootAndDeclItems(p, C))
      /\ (finish.machine => finish.kind = "finish")
  BY DEF AddStep, FinishStep, NoStep
<1>8. CASE ~one
  <2>1. PlanComponent(p, v, C, gs) = steps
    BY <1>1, <1>8
  <2>2. ASSUME NEW k \in DOMAIN steps PROVE ComponentStepAt(steps, k, p, v, C, gs)
    <3>1. PICK i \in DOMAIN all :
           /\ steps[k] = all[i] /\ all[i].kind # "none"
           /\ \A i2 \in 1 .. i - 1 : all[i2].kind # "none" => \E k2 \in 1 .. k - 1 : steps[k2] = all[i2]
      BY <1>5
    <3> HIDE DEF steps, all, add, finish, unit
    <3>2. CASE i = 1
      <4>1. steps[k] = add /\ add.kind = "add"
        BY <1>4, <1>6, <3>1, <3>2
      <4> QED
        BY <4>1 DEF ComponentStepAt, add
    <3>3. CASE \E g \in gs : all[i] = unit(g)
      <4>1. PICK g \in gs : steps[k] = unit(g)
        BY <3>1, <3>3
      <4>2. steps[k].kind = "site"
        BY <1>6, <3>1, <4>1
      <4> QED
        BY <4>1, <4>2 DEF ComponentStepAt, unit
    <3>4. CASE i # 1 /\ all[i] = finish
      <4>1. steps[k] = finish /\ finish.kind = "finish"
        BY <1>6, <3>1, <3>4
      <4>2. 1 \in 1 .. i - 1
        BY <1>4, <3>4
      <4>3. add.kind = "add" => \E k2 \in 1 .. k - 1 : steps[k2] = add
        BY <1>4, <3>1, <4>2
      <4> QED
        BY <4>1, <4>3 DEF ComponentStepAt, add, finish
    <3> QED
      BY <1>4, <3>2, <3>3, <3>4
  <2> HIDE DEF steps, V
  <2> QED
    BY <1>5, <2>1, <2>2, SeqIsSeq
<1>9. CASE one
  <2>1. PlanComponent(p, v, C, gs) = <<whole>>
    BY <1>1, <1>9
  <2>2. OneStepFor(whole, p, v, C, gs)
    <3>1. finish.machine /\ \A i \in DOMAIN steps : steps[i].machine
      BY <1>9
    <3>2. whole.kind = "component" /\ whole.comp = C /\ whole.machine /\ whole.waits = {}
          /\ whole.sites = UNION {steps[i].sites : i \in DOMAIN steps}
      OBVIOUS
    <3> DEFINE G == {g \in gs : unit(g).kind = "site" /\ \E k \in DOMAIN steps : steps[k] = unit(g)}
    <3> HIDE DEF steps, all, add, finish, unit, one, whole
    <3>3. add.kind = "add" => add.machine
      <4>1. 1 \in DOMAIN all /\ all[1] = add
        BY <1>2, <1>4
      <4> QED
        BY <1>5, <3>1, <4>1
    <3>4. \A g \in G : unit(g).kind = "site" /\ unit(g).machine
      BY <3>1
    <3>5. \E k \in DOMAIN steps : steps[k] = finish
      <4>1. Len(all) \in DOMAIN all /\ all[Len(all)] = finish
        BY <1>2, <1>4
      <4> QED
        BY <1>5, <1>7, <3>1, <4>1
    <3>6. \A k \in DOMAIN steps : steps[k].sites = RootAndDeclItems(p, C)
                                   \/ \E g \in G : steps[k] = unit(g)
      <4> SUFFICES ASSUME NEW k \in DOMAIN steps
                   PROVE  \/ steps[k].sites = RootAndDeclItems(p, C)
                          \/ \E g \in G : steps[k] = unit(g)
        OBVIOUS
      <4>1. steps[k].kind # "none" /\ (steps[k] \in {add, finish} \/ \E g \in gs : steps[k] = unit(g))
        BY <1>4, <1>5
      <4> QED
        BY <1>6, <1>7, <3>1, <4>1
    <3>7. whole.sites = RootAndDeclItems(p, C) \cup UNION {unit(g).sites : g \in G}
      BY <1>7, <3>1, <3>2, <3>5, <3>6
    <3>8. G \in SUBSET gs
      OBVIOUS
    <3> HIDE DEF G
    <3> QED
      BY <3>1, <3>2, <3>3, <3>4, <3>7, <3>8 DEF OneStepFor, finish, add, unit
  <2>3. ComponentStepAt(<<whole>>, 1, p, v, C, gs)
    <3> HIDE DEF whole
    <3>1. <<whole>>[1] = whole
      OBVIOUS
    <3> QED
      BY <2>2, <3>1 DEF ComponentStepAt
  <2> HIDE DEF whole
  <2>4. DOMAIN <<whole>> = {1} /\ <<whole>> \in Seq({whole})
    OBVIOUS
  <2> QED
    BY <2>1, <2>3, <2>4, SeqIsSeq
<1> QED
  BY <1>8, <1>9

(* The units that PlanOf plans with a component. *)
Mine(p, v, K) == {g \in v.groups : SitesOn(p, UNION K) \cap g # {}}

(* The step k of a plan is one of a component that is not skipped, or a    *)
(* unit outside the components.                                            *)
StepAt(pl, k, p, v, given) ==
  \/ \E K \in v.comps : /\ Answer(given, IDOf(p, K)) # "skip"
                        /\ ComponentStepAt(pl, k, p, v, UNION K, Mine(p, v, K))
  \/ \E g \in v.groups : /\ \A K \in v.comps : g \notin Mine(p, v, K)
                         /\ pl[k] = UnitStep(p, v, {}, g, {}) /\ pl[k].kind = "site"

(* A plan can be put in order: everything in it has a place. *)
Placed(p, v) ==
  /\ \A gs \in SUBSET v.groups : OrderedUnits(p, v, gs) \in Seq(gs)
  /\ \A kept \in SUBSET v.comps :
       OrderedBy(kept, [K \in kept |-> FirstPos(p, FirstPart(p, K))]) \in Seq(kept)

(* What holds at a place of a part holds where the part stands.            *)
LEMMA StepInPart ==
  ASSUME NEW p, NEW v, NEW C, NEW gs, NEW s, NEW j, NEW t, NEW k,
         ComponentStepAt(s, j, p, v, C, gs), t[k] = s[j],
         \A j2 \in 1 .. j - 1 : \E k2 \in 1 .. k - 1 : t[k2] = s[j2]
  PROVE  ComponentStepAt(t, k, p, v, C, gs)
<1>1. CASE s[j] = AddStep(p, v, C) /\ AddStep(p, v, C).kind = "add"
  BY <1>1 DEF ComponentStepAt
<1>2. CASE \E g \in gs : s[j] = UnitStep(p, v, C, g, Blocking(p, v, C)) /\ s[j].kind = "site"
  BY <1>2 DEF ComponentStepAt
<1>3. CASE /\ s[j] = FinishStep(p, v, C, gs, Blocking(p, v, C))
           /\ FinishStep(p, v, C, gs, Blocking(p, v, C)).kind = "finish"
           /\ AddStep(p, v, C).kind = "add" => \E j2 \in 1 .. j - 1 : s[j2] = AddStep(p, v, C)
  <2>1. AddStep(p, v, C).kind = "add" => \E k2 \in 1 .. k - 1 : t[k2] = AddStep(p, v, C)
    BY <1>3
  <2> QED
    BY <1>3, <2>1 DEF ComponentStepAt
<1>4. CASE OneStepFor(s[j], p, v, C, gs)
  BY <1>4 DEF ComponentStepAt
<1> QED
  BY <1>1, <1>2, <1>3, <1>4 DEF ComponentStepAt

LEMMA SeqOver ==
  ASSUME NEW s, IsSeq(s), NEW W, \A k \in DOMAIN s : s[k] \in W
  PROVE  s \in Seq(W)
BY DEF IsSeq

(* Of two sequences one after the other. *)
LEMMA OneAfterOther ==
  ASSUME NEW V, NEW a \in Seq(V), NEW b \in Seq(V)
  PROVE  /\ \A k \in DOMAIN a : (a \o b)[k] = a[k] /\ \A k2 \in 1 .. k - 1 : (a \o b)[k2] = a[k2]
         /\ \A k \in DOMAIN (a \o b) \ DOMAIN a :
              k - Len(a) \in DOMAIN b /\ (a \o b)[k] = b[k - Len(a)]
<1>1. /\ Len(a) \in Nat /\ Len(b) \in Nat /\ DOMAIN a = 1 .. Len(a) /\ DOMAIN b = 1 .. Len(b)
      /\ DOMAIN (a \o b) = 1 .. Len(a) + Len(b)
  OBVIOUS
<1>2. \A k \in DOMAIN a : (a \o b)[k] = a[k]
  OBVIOUS
<1>3. \A k \in DOMAIN a : \A k2 \in 1 .. k - 1 : k2 \in DOMAIN a
  BY <1>1
<1>4. ASSUME NEW k \in DOMAIN (a \o b) \ DOMAIN a
      PROVE  k - Len(a) \in DOMAIN b /\ (a \o b)[k] = b[k - Len(a)]
  <2>1. k - Len(a) \in DOMAIN b
    BY <1>1
  <2>2. \A j \in DOMAIN b : (a \o b)[Len(a) + j] = b[j]
    OBVIOUS
  <2>3. k = Len(a) + (k - Len(a))
    BY <1>1
  <2> QED
    BY <2>1, <2>2, <2>3
<1> QED
  BY <1>2, <1>3, <1>4

(* Every step of a plan is what planComponent or unitStep makes. *)
LEMMA PlanSteps ==
  ASSUME NEW p, NEW v, NEW given, Placed(p, v)
  PROVE  \A k \in DOMAIN PlanOf(p, v, given) : StepAt(PlanOf(p, v, given), k, p, v, given)
<1> DEFINE kept  == {K \in v.comps : Answer(given, IDOf(p, K)) # "skip"}
           order == OrderedBy(kept, [K \in kept |-> FirstPos(p, FirstPart(p, K))])
           loose == v.groups \ UNION {Mine(p, v, K) : K \in v.comps}
           units == OrderedUnits(p, v, loose)
           part(K) == PlanComponent(p, v, UNION K, Mine(p, v, K))
           parts == [i \in DOMAIN order |-> part(order[i])]
           single == [i \in DOMAIN units |-> UnitStep(p, v, {}, units[i], {})]
           W == UNION {{part(K)[k] : k \in DOMAIN part(K)} : K \in kept}
           U == {UnitStep(p, v, {}, g, {}) : g \in loose}
           pl == Concat(parts) \o Filtered(single)
<1>1. PlanOf(p, v, given) = pl
  BY DEF PlanOf, Mine
<1>2. order \in Seq(kept) /\ units \in Seq(loose)
  BY DEF Placed
<1>3. ASSUME NEW K \in kept
      PROVE  /\ part(K) \in Seq(W)
             /\ \A j \in DOMAIN part(K) : ComponentStepAt(part(K), j, p, v, UNION K, Mine(p, v, K))
  <2>1. OrderedUnits(p, v, Mine(p, v, K)) \in Seq(Mine(p, v, K))
    BY DEF Placed, Mine
  <2>2. /\ IsSeq(part(K))
        /\ \A j \in DOMAIN part(K) : ComponentStepAt(part(K), j, p, v, UNION K, Mine(p, v, K))
    BY <2>1, PlanComponentSteps
  <2>3. \A k \in DOMAIN part(K) : part(K)[k] \in W
    <3> HIDE DEF part, kept
    <3> QED
      OBVIOUS
  <2> HIDE DEF part, W
  <2> QED
    BY <2>2, <2>3, SeqOver
<1>4. parts \in Seq(Seq(W)) /\ DOMAIN parts = DOMAIN order
      /\ \A i \in DOMAIN parts : order[i] \in kept /\ parts[i] = part(order[i])
  <2> HIDE DEF order, part, W, kept
  <2>1. Len(order) \in Nat /\ DOMAIN order = 1 .. Len(order)
    BY <1>2
  <2>2. \A i \in 1 .. Len(order) : order[i] \in kept
    BY <1>2
  <2>3. parts = [i \in 1 .. Len(order) |-> part(order[i])]
    BY <2>1
  <2>4. \A i \in 1 .. Len(order) : part(order[i]) \in Seq(W)
    BY <1>3, <2>2
  <2>5. parts \in [1 .. Len(order) -> Seq(W)]
    BY <2>3, <2>4
  <2>6. DOMAIN parts = DOMAIN order /\ \A i \in DOMAIN parts : parts[i] = part(order[i])
    BY <2>1, <2>3
  <2> HIDE DEF parts
  <2>7. parts \in Seq(Seq(W))
    BY <2>1, <2>5
  <2> QED
    BY <2>1, <2>2, <2>6, <2>7
<1>5. single \in Seq(U) /\ DOMAIN single = DOMAIN units
      /\ \A i \in DOMAIN single : units[i] \in loose /\ single[i] = UnitStep(p, v, {}, units[i], {})
  <2> HIDE DEF units, loose
  <2> QED
    BY <1>2
<1> DEFINE a == Concat(parts)
           b == Filtered(single)
<1>6. a \in Seq(W) /\ \A k \in DOMAIN a : ComesFrom(a, k, parts)
  <2> HIDE DEF parts, W
  <2> QED
    BY <1>4, ConcatParts
<1>7. b \in Seq(U) /\ \A k \in DOMAIN b : \E i \in DOMAIN single : b[k] = single[i] /\ single[i].kind # "none"
  <2> HIDE DEF single, U
  <2>1. single \in Seq(U)
    BY <1>5
  <2> QED
    BY <2>1, FilteredParts
<1>8. a \in Seq(W \cup U) /\ b \in Seq(W \cup U) /\ pl = a \o b
  <2> HIDE DEF a, b, W, U
  <2>1. \A S, T : \A s \in Seq(S) : s \in Seq(S \cup T) /\ s \in Seq(T \cup S)
    OBVIOUS
  <2>2. a \in Seq(W \cup U) /\ b \in Seq(W \cup U)
    BY <1>6, <1>7, <2>1
  <2>3. pl = a \o b
    BY DEF a, b
  <2> QED
    BY <2>2, <2>3
<1>9. ASSUME NEW k \in DOMAIN a PROVE StepAt(pl, k, p, v, given)
  <2>1. PICK i \in DOMAIN parts : \E j \in DOMAIN parts[i] :
          /\ a[k] = parts[i][j]
          /\ \A j2 \in 1 .. j - 1 : \E k2 \in 1 .. k - 1 : a[k2] = parts[i][j2]
    <3> HIDE DEF a, parts
    <3>1. ComesFrom(a, k, parts)
      BY <1>6, <1>9
    <3> QED
      BY <3>1 DEF ComesFrom
  <2>2. PICK j \in DOMAIN parts[i] :
          /\ a[k] = parts[i][j]
          /\ \A j2 \in 1 .. j - 1 : \E k2 \in 1 .. k - 1 : a[k2] = parts[i][j2]
    <3> HIDE DEF a, parts
    <3> QED
      BY <2>1
  <2>3. pl[k] = a[k] /\ \A k2 \in 1 .. k - 1 : pl[k2] = a[k2]
    <3> HIDE DEF a, b, W, U, pl
    <3> QED
      BY <1>8, <1>9, OneAfterOther
  <2>4. order[i] \in kept /\ parts[i] = part(order[i])
    <3> HIDE DEF parts, order, kept, part
    <3> QED
      BY <1>4, <2>1
  <2>5. ComponentStepAt(parts[i], j, p, v, UNION order[i], Mine(p, v, order[i]))
    <3> HIDE DEF parts, order, kept, part
    <3> QED
      BY <1>3, <2>2, <2>4
  <2>6. ComponentStepAt(pl, k, p, v, UNION order[i], Mine(p, v, order[i]))
    <3>1. pl[k] = parts[i][j] /\ \A j2 \in 1 .. j - 1 : \E k2 \in 1 .. k - 1 : pl[k2] = parts[i][j2]
      <4> HIDE DEF parts, a, pl
      <4> QED
        BY <2>2, <2>3
    <3> HIDE DEF parts, pl, order
    <3> QED
      BY <2>5, <3>1, StepInPart
  <2> HIDE DEF pl, order
  <2> QED
    BY <2>4, <2>6 DEF StepAt
<1>10. ASSUME NEW k \in DOMAIN pl, k \notin DOMAIN a PROVE StepAt(pl, k, p, v, given)
  <2>1. k - Len(a) \in DOMAIN b /\ pl[k] = b[k - Len(a)]
    <3> HIDE DEF a, b, W, U, pl
    <3>1. k \in DOMAIN (a \o b) \ DOMAIN a
      BY <1>8, <1>10
    <3> QED
      BY <1>8, <3>1, OneAfterOther
  <2>2. PICK i \in DOMAIN single : pl[k] = single[i] /\ single[i].kind # "none"
    <3> HIDE DEF pl, b, single, a
    <3> QED
      BY <1>7, <2>1
  <2>3. units[i] \in loose /\ single[i] = UnitStep(p, v, {}, units[i], {})
    <3> HIDE DEF single, units, loose
    <3> QED
      BY <1>5, <2>2
  <2>4. single[i].kind \in {"none", "site"}
    BY <2>3 DEF UnitStep, NoStep
  <2>5. units[i] \in v.groups /\ \A K \in v.comps : units[i] \notin Mine(p, v, K)
    <3> HIDE DEF units
    <3> QED
      BY <2>3
  <2> HIDE DEF pl, single, units
  <2> QED
    BY <2>2, <2>3, <2>4, <2>5 DEF StepAt
<1> HIDE DEF a, pl
<1> QED
  BY <1>1, <1>9, <1>10

-----------------------------------------------------------------------------
(* Programs under migration. *)

(* The code p after some steps on the code m.                              *)
Within(p, m) ==
  LET H == HandlesOf(m)
      N == DOMAIN m.sites \cup DOMAIN m.vars IN
    /\ DOMAIN p = DOMAIN m
    /\ HandlesOf(p) \subseteq H /\ \A h \in HandlesOf(p) : p.handles[h] = m.handles[h]
    /\ p.roots \subseteq m.roots /\ p.moves \subseteq m.moves /\ p.names = m.names
    /\ DOMAIN p.sites \subseteq DOMAIN m.sites /\ DOMAIN p.vars \subseteq DOMAIN m.vars
    /\ \A s \in DOMAIN p.sites : p.sites[s] \in SiteType(H, N)
    /\ p.uses \subseteq UseType(N)

-----------------------------------------------------------------------------
(* The graphs of such code are finite. *)

(* What a use links is among what it goes into or is used with. *)
LEMMA ContextLinks ==
  ASSUME NEW N, NEW u \in UseType(N)
  PROVE  UseContext(u).links \subseteq N /\ ValueContext(u).links \subseteq N
<1>1. u.into \subseteq N /\ u.with \subseteq N /\ u.target \in Targets(u.how)
      /\ u.how \in {"nil", "len", "alone", "lhs", "select", "assign", "literal", "compare",
                    "case", "arg", "return", "range", "modify", "other"}
  BY DEF UseType
<1>2. Fine.links = {} /\ Review.links = {}
  BY DEF Fine, Review, Context
<1>3. u.target \in {"legacy", "interface", "other"} => AddLink(u).links \subseteq N
  BY <1>1, <1>2 DEF AddLink, Context
<1>4. LinkOperand(u).links \subseteq N /\ Context(u.into, {}).links \subseteq N
  BY <1>1 DEF LinkOperand, Context
<1>5. u.how = "assign" => LinkLHS(u).links \subseteq N
  BY <1>1, <1>2, <1>3 DEF LinkLHS, Targets
<1>6. u.how = "arg" => ArgContext(u).links \subseteq N
  BY <1>1, <1>2, <1>3, <1>4 DEF ArgContext, Targets
<1>7. u.how = "return" => ResultContext(u).links \subseteq N
  BY <1>1, <1>2, <1>3 DEF ResultContext, Targets
<1>8. FieldSelection(u).links \subseteq N
  BY <1>2 DEF FieldSelection
<1>9. ValueContext(u).links \subseteq N
  BY <1>1, <1>2, <1>4, <1>5, <1>6, <1>7, <1>8 DEF ValueContext
<1> QED
  BY <1>4, <1>9 DEF UseContext

LEMMA SiteTypeFields ==
  ASSUME NEW H, NEW N, NEW s \in SiteType(H, N)
  PROVE  /\ s.mentions \subseteq N /\ s.owner \in N \cup {None} /\ s.on \in H \cup {None}
         /\ s.fit \in {"same", "different", "retyped"} /\ s.pos \in Nat
BY DEF SiteType

(* Links are among the sites and variables of the program. *)
LEMMA LinksWithin ==
  ASSUME NEW m, WellFormed(m), NEW p, Within(p, m)
  PROVE  LET N == DOMAIN m.sites \cup DOMAIN m.vars IN Links(p) \subseteq N \X N
<1> DEFINE H == HandlesOf(m)
           N == DOMAIN m.sites \cup DOMAIN m.vars
<1>1. DOMAIN p.sites \subseteq N /\ DOMAIN p.vars \subseteq N
  BY DEF WellFormed, Within
<1>2. (\A s \in DOMAIN p.sites : p.sites[s] \in SiteType(H, N)) /\ p.uses \subseteq UseType(N)
  BY DEF Within
<1> HIDE DEF H, N
<1>3. ASSUME NEW s \in DOMAIN p.sites PROVE SiteLinks(p, s) \subseteq N
  <2>1. p.sites[s].mentions \subseteq N /\ p.sites[s].owner \in N \cup {None}
    BY <1>2, SiteTypeFields
  <2>2. ASSUME NEW u \in UsesOf(p, s) PROVE SiteContext(p, u).links \subseteq N
    <3>1. u \in UseType(N) /\ u.of = s
      BY <1>2 DEF UsesOf
    <3>2. p.sites[u.of].fit \in {"same", "different", "retyped"}
      BY <1>2, <3>1, SiteTypeFields
    <3>3. Fine.links = {} /\ Review.links = {}
      BY DEF Fine, Review, Context
    <3>4. ValueContext(u).links \subseteq N
      BY <3>1, ContextLinks
    <3> QED
      BY <3>2, <3>3, <3>4 DEF SiteContext
  <2> QED
    BY <2>1, <2>2 DEF SiteLinks
<1>4. ASSUME NEW v \in DOMAIN p.vars PROVE VarLinks(p, v) \subseteq N
  BY <1>2, ContextLinks DEF VarLinks, UsesOf
<1>5. Links(p) \subseteq N \X N
  BY <1>1, <1>3, <1>4 DEF Links
<1> QED
  BY <1>5 DEF N

LEMMA LinksFinite ==
  ASSUME NEW m, WellFormed(m), NEW p, Within(p, m)
  PROVE  IsFiniteSet(Links(p))
<1> DEFINE N == DOMAIN m.sites \cup DOMAIN m.vars
<1>1. IsFiniteSet(N)
  BY DEF WellFormed
<1>2. Links(p) \in SUBSET (N \X N)
  BY LinksWithin
<1> HIDE DEF N
<1> QED
  BY <1>1, <1>2, FS_Product, FS_Subset

LEMMA GraphFinite ==
  ASSUME NEW m, WellFormed(m), NEW p, Within(p, m)
  PROVE  /\ IsFiniteSet(HandlesOf(p)) /\ IsFiniteSet(Joins(p)) /\ None \notin HandlesOf(p)
         /\ IsFiniteSet(DOMAIN p.sites \cup DOMAIN p.vars)
<1> DEFINE flow == [f \in p.moves |-> <<f.from, f.to>>]
           derive == [r \in p.roots |-> <<r.recv, r.to>>]
<1>1. IsFiniteSet(p.moves) /\ IsFiniteSet(p.roots)
  BY FS_Subset DEF WellFormed, Within
<1>2. IsFiniteSet({flow[f] : f \in p.moves}) /\ IsFiniteSet({derive[r] : r \in p.roots})
  <2> HIDE DEF flow, derive
  <2> QED
    BY <1>1, FiniteImage
<1>3. Joins(p) \in SUBSET ({flow[f] : f \in p.moves} \cup {derive[r] : r \in p.roots})
  BY DEF Joins, FlowJoins, Flows
<1>4. IsFiniteSet(Joins(p))
  <2> HIDE DEF flow, derive
  <2> QED
    BY <1>2, <1>3, FS_Union, FS_Subset
<1>5. IsFiniteSet(HandlesOf(p)) /\ None \notin HandlesOf(p)
  BY FS_Subset DEF WellFormed, Within
<1>6. IsFiniteSet(DOMAIN p.sites \cup DOMAIN p.vars)
  <2>1. DOMAIN p.sites \cup DOMAIN p.vars \in SUBSET (DOMAIN m.sites \cup DOMAIN m.vars)
    BY DEF Within
  <2> QED
    BY <2>1, FS_Subset DEF WellFormed
<1> QED
  BY <1>4, <1>5, <1>6

(* There are finitely many classes of finitely many nodes. *)
LEMMA PartsFinite ==
  ASSUME NEW nodes, IsFiniteSet(nodes), NEW C, Parts(C, nodes)
  PROVE  IsFiniteSet(C) /\ \A c \in C : c \subseteq nodes
<1>1. C \in SUBSET SUBSET nodes
  BY DEF Parts
<1> QED
  BY <1>1, FS_SUBSET, FS_Subset

LEMMA ComponentClasses ==
  ASSUME NEW p, IsFiniteSet(HandlesOf(p)), IsFiniteSet(Joins(p)), NEW groups
  PROVE  LET comps == Merged(p, Components(p), groups) IN
         /\ IsFiniteSet(Components(p)) /\ IsFiniteSet(comps)
         /\ \A C \in Components(p) : C # {} /\ C \subseteq HandlesOf(p)
         /\ \A K \in comps : K # {} /\ K \subseteq Components(p)
<1> DEFINE classes == Classes(HandlesOf(p), Joins(p))
           all == Components(p)
           in(g, C) == SitesOn(p, C) \cap g # {}
           joins == {e \in all \X all : \E g \in groups : in(g, e[1]) /\ in(g, e[2])}
<1>1. Parts(classes, HandlesOf(p))
  BY ClassesConnect
<1>2. IsFiniteSet(classes) /\ \A C \in classes : C \subseteq HandlesOf(p)
  <2> HIDE DEF classes
  <2> QED
    BY <1>1, PartsFinite
<1>3. all \in SUBSET classes
  BY DEF Components
<1>4. IsFiniteSet(all) /\ \A C \in all : C \subseteq HandlesOf(p)
  <2> HIDE DEF all, classes
  <2> QED
    BY <1>2, <1>3, FS_Subset
<1>5. \A C \in all : C # {}
  BY DEF Components, RootsOf, DeclsOf, SitesOn
<1>6. joins \in SUBSET (all \X all) /\ \A e \in joins : e[1] \in all
  OBVIOUS
<1>7. Merged(p, all, groups) = Classes(all, joins)
  BY DEF Merged
<1> HIDE DEF all, joins
<1>8. IsFiniteSet(joins)
  BY <1>4, <1>6, FS_Product, FS_Subset
<1>9. Parts(Classes(all, joins), all) /\ {} \notin Classes(all, joins)
  BY <1>6, <1>8, ClassesConnect
<1>10. IsFiniteSet(Classes(all, joins)) /\ \A K \in Classes(all, joins) : K \subseteq all
  BY <1>4, <1>9, PartsFinite
<1> QED
  BY <1>4, <1>5, <1>7, <1>9, <1>10 DEF all

(* A flow does not leave a component of the plan. *)
LEMMA FlowsStay ==
  ASSUME NEW p, IsFiniteSet(HandlesOf(p)), IsFiniteSet(Joins(p)), None \notin HandlesOf(p),
         NEW groups, NEW K \in Merged(p, Components(p), groups),
         NEW f \in Flows(p), f.from \in HandlesOf(p), f.to \in HandlesOf(p)
  PROVE  f.from \in UNION K <=> f.to \in UNION K
<1> DEFINE classes == Classes(HandlesOf(p), Joins(p))
<1>1. Parts(classes, HandlesOf(p)) /\ Together(classes, HandlesOf(p), <<f.from, f.to>>)
  <2>1. <<f.from, f.to>> \in Joins(p)
    BY DEF Joins, FlowJoins
  <2> QED
    BY <2>1, ClassesConnect
<1>2. PICK c \in classes : f.from \in c /\ f.to \in c
  BY <1>1 DEF Together
<1>3. K \subseteq classes
  BY ComponentClasses DEF Components
<1> QED
  BY <1>1, <1>2, <1>3 DEF Parts

-----------------------------------------------------------------------------
(* A plan can be put in order. *)

LEMMA RankType == ASSUME NEW p, NEW v, NEW g PROVE Rank(p, v, g) \in Nat
BY DEF Rank

LEMMA UnitPosType ==
  ASSUME NEW m, WellFormed(m), NEW p, Within(p, m), NEW g, SitesIn(p, g) # {}
  PROVE  UnitPos(p, g) \in Nat
<1> DEFINE places == {p.sites[s].pos : s \in SitesIn(p, g)}
<1>1. \A s \in DOMAIN p.sites : p.sites[s].pos \in Nat
  BY SiteTypeFields DEF Within
<1>2. places \in SUBSET Nat /\ places # {}
  BY <1>1 DEF SitesIn
<1>3. FirstOf(places) \in places
  <2> HIDE DEF places
  <2> QED
    BY <1>2, FirstOfIn
<1> QED
  BY <1>2, <1>3 DEF UnitPos

LEMMA FirstPosType ==
  ASSUME NEW m, WellFormed(m), NEW p, Within(p, m), NEW C \in SUBSET HandlesOf(p), C # {}
  PROVE  FirstPos(p, C) \in Nat
<1> DEFINE roots == {r.pos : r \in RootsOf(p, C)}
           decls == {p.handles[h].pos : h \in C}
<1>1. (\A r \in p.roots : r.pos \in Nat) /\ \A h \in HandlesOf(p) : p.handles[h].pos \in Nat
  BY DEF WellFormed, Within, RootType, HandleType
<1>2. roots \in SUBSET Nat /\ decls \in SUBSET Nat /\ decls # {}
      /\ (RootsOf(p, C) # {} => roots # {})
  BY <1>1 DEF RootsOf
<1>3. FirstOf(decls) \in Nat /\ (RootsOf(p, C) # {} => FirstOf(roots) \in Nat)
  <2> HIDE DEF roots, decls
  <2> QED
    BY <1>2, FirstOfIn
<1> QED
  BY <1>3 DEF FirstPos

LEMMA PlacedView ==
  ASSUME NEW m, WellFormed(m), NEW p, Within(p, m), NEW ans
  PROVE  Placed(p, View(p, ans))
<1> DEFINE v == View(p, ans)
<1>1. /\ v.groups = Groups(p) /\ v.comps = Merged(p, Components(p), Groups(p))
  BY DEF View
<1> HIDE DEF v
<1>2. IsFiniteSet(Groups(p)) /\ \A g \in Groups(p) : SitesIn(p, g) # {}
  <2> DEFINE nodes == DOMAIN p.sites \cup DOMAIN p.vars
             classes == Classes(nodes, Links(p))
  <2>1. IsFiniteSet(classes)
    <3>1. IsFiniteSet(nodes) /\ IsFiniteSet(Links(p))
      BY GraphFinite, LinksFinite
    <3> HIDE DEF nodes
    <3> QED
      BY <3>1, ClassesConnect, PartsFinite
  <2>2. Groups(p) \in SUBSET classes /\ \A g \in Groups(p) : SitesIn(p, g) # {}
    BY DEF Groups, SitesIn
  <2> HIDE DEF classes
  <2> QED
    BY <2>1, <2>2, FS_Subset
<1>3. ASSUME NEW gs \in SUBSET v.groups PROVE OrderedUnits(p, v, gs) \in Seq(gs)
  <2> DEFINE key == [g \in gs |-> 1000 * Rank(p, v, g) + UnitPos(p, g)]
  <2>1. IsFiniteSet(gs)
    BY <1>1, <1>2, FS_Subset
  <2>2. \A g \in gs : key[g] \in Nat
    <3> SUFFICES ASSUME NEW g \in gs PROVE 1000 * Rank(p, v, g) + UnitPos(p, g) \in Nat
      OBVIOUS
    <3>1. Rank(p, v, g) \in Nat /\ UnitPos(p, g) \in Nat
      BY <1>1, <1>2, RankType, UnitPosType
    <3> QED
      BY <3>1
  <2>3. OrderedUnits(p, v, gs) = OrderedBy(gs, key)
    BY DEF OrderedUnits
  <2> HIDE DEF key
  <2> QED
    BY <2>1, <2>2, <2>3, OrderedFrom
<1>4. ASSUME NEW kept \in SUBSET v.comps
      PROVE  OrderedBy(kept, [K \in kept |-> FirstPos(p, FirstPart(p, K))]) \in Seq(kept)
  <2> DEFINE key == [K \in kept |-> FirstPos(p, FirstPart(p, K))]
  <2>1. /\ IsFiniteSet(Components(p)) /\ IsFiniteSet(v.comps)
        /\ \A C \in Components(p) : C # {} /\ C \subseteq HandlesOf(p)
        /\ \A K \in v.comps : K # {} /\ K \subseteq Components(p)
    <3> HIDE DEF key
    <3>1. IsFiniteSet(HandlesOf(p)) /\ IsFiniteSet(Joins(p))
      BY GraphFinite
    <3> QED
      BY <1>1, <3>1, ComponentClasses
  <2>2. \A C \in Components(p) : FirstPos(p, C) \in Nat
    BY <2>1, FirstPosType
  <2>3. ASSUME NEW K \in kept PROVE FirstPart(p, K) \in K
    <3> DEFINE places == {FirstPos(p, C) : C \in K}
    <3>1. places \in SUBSET Nat /\ places # {}
      BY <2>1, <2>2
    <3>2. PICK x \in places : \A y \in places : x <= y
      <4> HIDE DEF places
      <4> QED
        BY <3>1, LeastNat
    <3>3. \E C \in K : \A D \in K : FirstPos(p, C) <= FirstPos(p, D)
      BY <3>2
    <3> QED
      BY <3>3 DEF FirstPart
  <2>4. \A K \in kept : key[K] \in Nat
    BY <2>1, <2>2, <2>3
  <2>5. IsFiniteSet(kept)
    BY <2>1, FS_Subset
  <2> HIDE DEF key
  <2>6. OrderedBy(kept, key) \in Seq(kept)
    BY <2>4, <2>5, OrderedFrom
  <2> QED
    BY <2>6 DEF key
<1> QED
  BY <1>3, <1>4 DEF Placed, v

-----------------------------------------------------------------------------
(* The inductive invariant. *)

(* What makes a handle that has no sibling yet, or is copied to it, stands *)
(* as long as the handle does.                                             *)
Uncut(p, m) ==
  \A h \in HandlesOf(p) \ DOMAIN p.sibs :
    /\ \A r \in m.roots : r.to = h => r \in p.roots
    /\ \A f \in Flows(m) : f.to = h => f \in p.moves

SibsNamed(p, m) ==
  /\ DOMAIN p.sibs \subseteq Named(m)
  /\ \A h \in DOMAIN p.sibs :
       /\ p.sibs[h] \in Declaration /\ p.sibs[h].name[1] = m.handles[h].base
       /\ p.sibs[h].scope = m.handles[h].scope
       /\ p.sibs[h].field = (m.handles[h].kind = "field")

Fed(p, m) ==
  \A h \in DOMAIN p.sibs :
    /\ \A r \in m.roots : r.to = h => r \in p.sroots
    /\ \A f \in Flows(m) : f.to = h => f \in p.stwins /\ f.from \in DOMAIN p.sibs

Kept(p, m) ==
  /\ p.sroots \subseteq m.roots /\ p.stwins \subseteq Flows(m)
  /\ p.freed \subseteq p.moved /\ p.moved \subseteq DOMAIN m.sites
  /\ p.keeps \subseteq HandlesOf(m) \X {"old", "new"}

Migrating(p, m) == Within(p, m) /\ Uncut(p, m) /\ SibsNamed(p, m) /\ Fed(p, m) /\ Kept(p, m)

CodeInv == WellFormed(made) /\ Migrating(code, made)
PlanInv == view = View(code, answers) /\ plan \in {<< >>, PlanOf(code, view, answers)}
IInv == CodeInv /\ PlanInv

-----------------------------------------------------------------------------
(* Siblings. *)

(* A handle is only taken to have a sibling when it was given one. *)
LEMMA PresentDeclared ==
  ASSUME NEW m, WellFormed(m), NEW p, Within(p, m), SibsNamed(p, m),
         NEW T \in SUBSET HandlesOf(p), \A h \in T : ~Refuses(p, h)
  PROVE  Present(p, T) \subseteq DOMAIN p.sibs
<1> SUFFICES ASSUME NEW h \in Present(p, T) PROVE h \in DOMAIN p.sibs
  OBVIOUS
<1>1. h \in T /\ h \in Named(m) /\ p.handles[h] = m.handles[h]
  BY DEF Present, Refuses, Within, Named
<1>2. PICK i : Candidate(p, h, <<p.handles[h].base, i>>)
  BY DEF Present, Known
<1>3. PICK g \in DOMAIN p.sibs :
         /\ p.sibs[g].name = <<m.handles[h].base, i>>
         /\ p.sibs[g].scope = m.handles[h].scope
         /\ p.sibs[g].field = (m.handles[h].kind = "field")
  BY <1>1, <1>2 DEF Candidate
<1>4. g \in Named(m) /\ NamesOf(m, g) = NamesOf(m, h)
  BY <1>3 DEF SibsNamed, NamesOf
<1> QED
  BY <1>1, <1>3, <1>4 DEF WellFormed

LEMMA DeclaredFinite ==
  ASSUME NEW m, WellFormed(m), NEW p, Within(p, m), SibsNamed(p, m)
  PROVE  IsFiniteSet(Declared(p))
<1> DEFINE legacy == [h \in HandlesOf(p) |->
                        [name |-> <<p.handles[h].base, 0>>, scope |-> p.handles[h].scope,
                         vis |-> p.handles[h].vis, field |-> p.handles[h].kind = "field"]]
<1>1. IsFiniteSet(p.names) /\ IsFiniteSet(HandlesOf(p)) /\ IsFiniteSet(DOMAIN p.sibs)
  BY FS_Subset DEF WellFormed, Within, SibsNamed, Named
<1>2. IsFiniteSet({legacy[h] : h \in HandlesOf(p)}) /\ IsFiniteSet({p.sibs[h] : h \in DOMAIN p.sibs})
  <2> HIDE DEF legacy
  <2> QED
    BY <1>1, FiniteImage
<1>3. Declared(p) = p.names \cup {legacy[h] : h \in HandlesOf(p)} \cup {p.sibs[h] : h \in DOMAIN p.sibs}
  BY DEF Declared
<1>4. \A A, B, C : IsFiniteSet(A) /\ IsFiniteSet(B) /\ IsFiniteSet(C) => IsFiniteSet(A \cup B \cup C)
  BY FS_Union
<1> HIDE DEF legacy
<1> QED
  BY <1>1, <1>2, <1>3, <1>4

(* One of the numbers up to one more than there are names is not taken. *)
LEMMA FreeNumber ==
  ASSUME NEW p, IsFiniteSet(Declared(p)), NEW h
  PROVE  FirstOf({i \in 1 .. 1 + Cardinality(Declared(p)) :
                    ~Taken(p, h, <<p.handles[h].base, i>>)}) \in Nat
<1> DEFINE n == Cardinality(Declared(p))
           base == p.handles[h].base
           free == {i \in 1 .. 1 + n : ~Taken(p, h, <<base, i>>)}
<1>1. n \in Nat
  BY FS_CardinalityType
<1>2. ASSUME free = {} PROVE FALSE
  <2> DEFINE f == [i \in 1 .. 1 + n |-> CHOOSE d \in Declared(p) : d.name = <<base, i>>]
  <2>1. \A i \in 1 .. 1 + n : \E d \in Declared(p) : d.name = <<base, i>>
    BY <1>2 DEF Taken
  <2>2. \A i \in 1 .. 1 + n : f[i] \in Declared(p) /\ f[i].name = <<base, i>>
    BY <2>1
  <2>3. f \in [1 .. 1 + n -> Declared(p)]
    BY <2>2
  <2>4. IsFiniteSet(1 .. 1 + n) /\ Cardinality(1 .. 1 + n) = 1 + n
    <3> HIDE DEF n
    <3> QED
      BY <1>1, FS_Interval
  <2> HIDE DEF f
  <2>5. n < Cardinality(1 .. 1 + n)
    BY <1>1, <2>4
  <2>6. \E x, y \in 1 .. 1 + n : x # y /\ f[x] = f[y]
    BY <2>3, <2>4, <2>5, FS_PigeonHole
  <2>7. PICK x \in 1 .. 1 + n, y \in 1 .. 1 + n : x # y /\ f[x] = f[y]
    BY <2>6
  <2>8. <<base, x>> = <<base, y>>
    BY <2>2, <2>7
  <2> QED
    BY <2>7, <2>8
<1>3. free \in SUBSET Nat
  BY <1>1
<1> HIDE DEF free
<1>4. FirstOf(free) \in Nat
  BY <1>2, <1>3, FirstOfIn
<1> QED
  BY <1>4 DEF free

(* A sibling is declared where its handle is. *)
LEMMA SiblingDeclared ==
  ASSUME NEW m, WellFormed(m), NEW p, Within(p, m), SibsNamed(p, m),
         NEW v, NEW h \in HandlesOf(p)
  PROVE  /\ SiblingOf(p, v, h) \in Declaration
         /\ SiblingOf(p, v, h).name[1] = m.handles[h].base
         /\ SiblingOf(p, v, h).scope = m.handles[h].scope
         /\ SiblingOf(p, v, h).field = (m.handles[h].kind = "field")
<1>1. p.handles[h] = m.handles[h] /\ p.handles[h] \in HandleType
  BY DEF WellFormed, Within
<1>2. \E i \in Nat : Sibling(p, h, v.T) = <<p.handles[h].base, i>>
  <2>1. CASE h \in Present(p, v.T)
    <3>1. Known(p, h) \in SUBSET Nat /\ Known(p, h) # {}
      <4>1. Known(p, h) # {}
        BY <2>1 DEF Present
      <4>2. Known(p, h) \in SUBSET (1 .. 9)
        BY DEF Known
      <4> QED
        BY <4>1, <4>2
    <3>2. FirstOf(Known(p, h)) \in Nat
      BY <3>1, FirstOfIn
    <3> QED
      BY <2>1, <3>2 DEF Sibling
  <2>2. CASE h \notin Present(p, v.T)
    BY <2>2, DeclaredFinite, FreeNumber DEF Sibling, SiblingName
  <2> QED
    BY <2>1, <2>2
<1>3. PICK i \in Nat : Sibling(p, h, v.T) = <<p.handles[h].base, i>>
  BY <1>2
<1>4. /\ p.handles[h].base \in STRING /\ p.handles[h].scope \in Seq(STRING)
      /\ p.handles[h].vis + 1 \in Nat
  BY <1>1 DEF HandleType
<1>5. SiblingOf(p, v, h) =
        [name |-> <<p.handles[h].base, i>>, scope |-> p.handles[h].scope,
         vis |-> p.handles[h].vis + 1, field |-> p.handles[h].kind = "field"]
  BY <1>3 DEF SiblingOf
<1> QED
  BY <1>1, <1>4, <1>5 DEF Declaration

-----------------------------------------------------------------------------
(* The edits of a step keep it. *)

LEMMA ViewFacts ==
  ASSUME NEW m, WellFormed(m), NEW p, Within(p, m), SibsNamed(p, m), NEW ans
  PROVE  LET v == View(p, ans) IN
         /\ v.T = Threadable(p) /\ v.T \subseteq HandlesOf(p)
         /\ \A h \in v.T : ~Refuses(p, h) /\ Sources(p, h) \subseteq v.T
         /\ v.present \subseteq DOMAIN p.sibs
         /\ \A K \in v.comps : UNION K \subseteq HandlesOf(p)
         /\ \A K \in v.comps : \A f \in Flows(p) :
              f.from \in HandlesOf(p) /\ f.to \in HandlesOf(p) => (f.from \in UNION K <=> f.to \in UNION K)
<1> DEFINE v == View(p, ans)
<1>1. /\ v.T = Threadable(p) /\ v.present = Present(p, Threadable(p))
      /\ v.comps = Merged(p, Components(p), Groups(p))
  BY DEF View
<1> HIDE DEF v
<1>2. IsFiniteSet(HandlesOf(p)) /\ IsFiniteSet(Joins(p)) /\ None \notin HandlesOf(p)
  BY GraphFinite
<1>3. /\ Threadable(p) \subseteq HandlesOf(p)
      /\ \A h \in Threadable(p) : ~Refuses(p, h) /\ Sources(p, h) \subseteq Threadable(p)
  BY <1>2, ThreadableFixed
<1>4. Present(p, Threadable(p)) \subseteq DOMAIN p.sibs
  BY <1>3, PresentDeclared
<1>5. \A K \in v.comps : UNION K \subseteq HandlesOf(p)
  BY <1>1, <1>2, ComponentClasses
<1>6. \A K \in v.comps : \A f \in Flows(p) :
        f.from \in HandlesOf(p) /\ f.to \in HandlesOf(p) => (f.from \in UNION K <=> f.to \in UNION K)
  BY <1>1, <1>2, FlowsStay
<1> QED
  BY <1>1, <1>3, <1>4, <1>5, <1>6 DEF v

(* What AddHandles changes. *)
Added(q, p, v, C, byHand) ==
  LET missing == (C \cap v.T) \ v.present IN
    /\ DOMAIN q = DOMAIN p
    /\ q.handles = p.handles /\ q.roots = p.roots /\ q.moves = p.moves /\ q.names = p.names
    /\ q.sites = p.sites /\ q.vars = p.vars /\ q.uses = p.uses
    /\ q.moved = p.moved /\ q.freed = p.freed
    /\ DOMAIN q.sibs = DOMAIN p.sibs \cup missing
    /\ \A h \in missing : q.sibs[h] = SiblingOf(p, v, h)
    /\ \A h \in DOMAIN p.sibs \ missing : q.sibs[h] = p.sibs[h]
    /\ q.sroots = p.sroots \cup NewRoots(p, v, C, byHand)
    /\ q.stwins = p.stwins \cup FlowsIn(p, v, C)
    /\ \A k \in q.keeps : k \in p.keeps \/ (k[1] \in missing /\ k \in {k[1]} \X {"old", "new"})

LEMMA AddChanges ==
  ASSUME NEW m, WellFormed(m), NEW p, Within(p, m), NEW v, NEW C, NEW byHand
  PROVE  Added(AddHandles(p, v, C, byHand), p, v, C, byHand)
<1> DEFINE missing == (C \cap v.T) \ v.present
           keeping == {r.to : r \in NewRoots(p, v, C, byHand)}
                        \cup {f.to : f \in {x \in FlowsIn(p, v, C) : byHand \/ x.how = "define"}}
           sibs == [h \in DOMAIN p.sibs \cup missing |->
                      IF h \in missing THEN SiblingOf(p, v, h) ELSE p.sibs[h]]
           keeps == p.keeps \cup UNION {Placeholders(p, v, C, h) : h \in keeping \cap missing}
           sroots == p.sroots \cup NewRoots(p, v, C, byHand)
           stwins == p.stwins \cup FlowsIn(p, v, C)
           q == AddHandles(p, v, C, byHand)
<1>1. DOMAIN p = {"handles", "roots", "moves", "sites", "names", "vars", "uses", "sibs",
                   "sroots", "stwins", "keeps", "moved", "freed", "renamed", "checked"}
  BY DEF WellFormed, Within
<1>2. q = [p EXCEPT !.sibs = sibs, !.sroots = sroots, !.stwins = stwins, !.keeps = keeps]
  BY DEF AddHandles
<1>3. \A k \in keeps : k \in p.keeps \/ (k[1] \in missing /\ k \in {k[1]} \X {"old", "new"})
  BY DEF Placeholders
<1>4. /\ DOMAIN sibs = DOMAIN p.sibs \cup missing
      /\ \A h \in missing : sibs[h] = SiblingOf(p, v, h)
      /\ \A h \in DOMAIN p.sibs \ missing : sibs[h] = p.sibs[h]
  OBVIOUS
<1> HIDE DEF missing, sibs, keeps
<1> QED
  BY <1>1, <1>2, <1>3, <1>4 DEF Added, missing

(* A component's siblings may be added by hand, or when all its roots can  *)
(* be made again; or it has them.                                          *)
CanThread(p, v, C, byHand) ==
  byHand \/ C \cap v.T \subseteq v.present \/ Unready(p, v, C, TRUE) = {}

LEMMA AddKeeps ==
  ASSUME NEW m, WellFormed(m), NEW p, Migrating(p, m), NEW ans,
         NEW K \in View(p, ans).comps, NEW byHand,
         CanThread(p, View(p, ans), UNION K, byHand)
  PROVE  /\ Migrating(AddHandles(p, View(p, ans), UNION K, byHand), m)
         /\ (UNION K) \cap View(p, ans).T \subseteq DOMAIN AddHandles(p, View(p, ans), UNION K, byHand).sibs
<1> DEFINE v == View(p, ans)
           C == UNION K
           missing == (C \cap v.T) \ v.present
           q == AddHandles(p, v, C, byHand)
<1>1. /\ v.T \subseteq HandlesOf(p) /\ \A h \in v.T : ~Refuses(p, h) /\ Sources(p, h) \subseteq v.T
      /\ v.present \subseteq DOMAIN p.sibs /\ C \subseteq HandlesOf(p)
      /\ \A f \in Flows(p) :
           f.from \in HandlesOf(p) /\ f.to \in HandlesOf(p) => (f.from \in C <=> f.to \in C)
  BY ViewFacts DEF Migrating
<1>2. Added(q, p, v, C, byHand)
  BY AddChanges DEF Migrating
<1>3. CanThread(p, v, C, byHand)
  OBVIOUS
<1> HIDE DEF v, C, q
<1>4. Within(q, m)
  BY <1>2 DEF Migrating, Within, Added, HandlesOf
<1>5. Uncut(q, m)
  BY <1>2 DEF Migrating, Uncut, Added, HandlesOf
<1>6. SibsNamed(q, m)
  <2>1. \A h \in missing : h \in Named(m)
    BY <1>1 DEF Refuses, Migrating, Within, Named
  <2>2. \A h \in missing :
          /\ q.sibs[h] \in Declaration /\ q.sibs[h].name[1] = m.handles[h].base
          /\ q.sibs[h].scope = m.handles[h].scope
          /\ q.sibs[h].field = (m.handles[h].kind = "field")
    BY <1>1, <1>2, SiblingDeclared DEF Migrating, Added
  <2>3. /\ DOMAIN q.sibs = DOMAIN p.sibs \cup missing
        /\ \A h \in DOMAIN p.sibs \ missing : q.sibs[h] = p.sibs[h]
    BY <1>2 DEF Added
  <2> HIDE DEF missing
  <2> QED
    BY <2>1, <2>2, <2>3 DEF Migrating, SibsNamed
<1>7. Fed(q, m)
  <2> SUFFICES ASSUME NEW h \in DOMAIN q.sibs
               PROVE  /\ \A r \in m.roots : r.to = h => r \in q.sroots
                      /\ \A f \in Flows(m) : f.to = h => f \in q.stwins /\ f.from \in DOMAIN q.sibs
    BY DEF Fed
  <2>1. CASE h \in DOMAIN p.sibs
    BY <1>2, <2>1 DEF Added, Migrating, Fed
  <2>2. CASE h \notin DOMAIN p.sibs
    <3>1. h \in missing /\ h \in C /\ h \in v.T /\ h \in HandlesOf(p) \ DOMAIN p.sibs
      BY <1>1, <1>2, <2>2 DEF Added
    <3>2. ASSUME NEW r \in m.roots, r.to = h PROVE r \in q.sroots
      <4>1. r \in RootsOf(p, C)
        BY <3>1, <3>2 DEF Migrating, Uncut, RootsOf
      <4>2. byHand \/ RootClass(p, v.T, r) = "mechanical"
        BY <1>3, <3>1, <3>2, <4>1 DEF CanThread, Unready
      <4>3. r \in NewRoots(p, v, C, byHand)
        BY <3>1, <3>2, <4>1, <4>2 DEF NewRoots
      <4> QED
        BY <1>2, <4>3 DEF Added
    <3>3. ASSUME NEW f \in Flows(m), f.to = h PROVE f \in q.stwins /\ f.from \in DOMAIN q.sibs
      <4>1. f \in Flows(p)
        BY <3>1, <3>3 DEF Migrating, Uncut, Flows
      <4>2. f.from \in v.T
        BY <1>1, <3>1, <3>3, <4>1 DEF Sources
      <4>3. f.from \in C /\ f.to \in C
        BY <1>1, <3>1, <3>3, <4>1, <4>2
      <4>4. f \in FlowsIn(p, v, C)
        BY <3>1, <3>3, <4>1, <4>2, <4>3 DEF FlowsIn, Threaded
      <4> QED
        BY <1>1, <1>2, <4>2, <4>3, <4>4 DEF Added
    <3> QED
      BY <3>2, <3>3
  <2> QED
    BY <2>1, <2>2
<1>8. Kept(q, m)
  <2>1. NewRoots(p, v, C, byHand) \subseteq m.roots /\ FlowsIn(p, v, C) \subseteq Flows(m)
    BY DEF NewRoots, RootsOf, FlowsIn, Flows, Migrating, Within
  <2>2. q.keeps \subseteq HandlesOf(m) \X {"old", "new"}
    <3>1. missing \subseteq HandlesOf(m)
      BY <1>1 DEF Migrating, Within
    <3> QED
      BY <1>2, <3>1 DEF Added, Migrating, Kept
  <2> QED
    BY <1>2, <2>1, <2>2 DEF Added, Migrating, Kept
<1>9. C \cap v.T \subseteq DOMAIN q.sibs
  BY <1>1, <1>2 DEF Added
<1> QED
  BY <1>4, <1>5, <1>6, <1>7, <1>8, <1>9 DEF Migrating, v, C, q

(* A root is only mechanical when its handle can have a sibling. *)
LEMMA RootMechanical ==
  ASSUME NEW p, NEW T, NEW H, NEW r \in RootType(H), RootClass(p, T, r) = "mechanical"
  PROVE  r.to \in T
<1> DEFINE problems == RootProblems(p, T, r)
<1>1. SUFFICES ASSUME r.to \notin T PROVE FALSE
  OBVIOUS
<1>2. "guided" \in problems
  BY <1>1 DEF RootProblems, When, Guided
<1>3. problems \subseteq {"guided", "unmapped"}
  <2>1. \A o \in OptionKinds : MapOption(o) \subseteq {"guided", "unmapped"}
    BY DEF OptionKinds, MapOption, Guided, Unmapped
  <2>2. r.opts \subseteq RootOptionKinds
    BY DEF RootType
  <2>3. RootOptions(r) \subseteq {"guided", "unmapped"}
    BY <2>1, <2>2 DEF RootOptions, Options, When, Guided, RootOptionKinds
  <2> QED
    BY <2>3 DEF RootProblems, When, Guided
<1>4. RootClass(p, T, r) = Settled(problems, FALSE)
  BY DEF RootClass
<1> HIDE DEF problems
<1>5. "unmapped" \in problems \/ problems = Guided
  BY <1>2, <1>3 DEF Guided
<1> QED
  BY <1>2, <1>4, <1>5 DEF Settled, Guided

(* What Finish changes. *)
Finished(q, p, v, C) ==
  /\ DOMAIN q = DOMAIN p
  /\ HandlesOf(q) \subseteq HandlesOf(p) /\ \A h \in HandlesOf(q) : q.handles[h] = p.handles[h]
  /\ q.roots = p.roots \ {r \in RootsOf(p, C) : RootClass(p, v.T, r) = "mechanical"}
  /\ q.moves = p.moves \ FlowsIn(p, v, C)
  /\ q.names = p.names /\ q.sites = p.sites /\ q.vars = p.vars /\ q.uses = p.uses
  /\ q.moved = p.moved /\ q.freed = p.freed /\ q.sroots = p.sroots /\ q.stwins = p.stwins
  /\ q.keeps \subseteq p.keeps /\ DOMAIN q.sibs = DOMAIN p.sibs
  /\ \A h \in DOMAIN p.sibs :
       \/ q.sibs[h] = p.sibs[h]
       \/ q.sibs[h] = [p.sibs[h] EXCEPT !.name = <<@[1], 0>>]

LEMMA FinishChanges ==
  ASSUME NEW m, WellFormed(m), NEW p, Within(p, m), NEW v, NEW C
  PROVE  Finished(Finish(p, v, C), p, v, C)
<1> DEFINE roots == {r \in RootsOf(p, C) : RootClass(p, v.T, r) = "mechanical"}
           flows == FlowsIn(p, v, C)
           gone  == {h \in C : IF p.handles[h].decl = "inferred"
                               THEN h \in {r.to : r \in roots} \cup {f.to : f \in flows}
                               ELSE DeclClass(p, v.T, h) = "mechanical"}
           handles == [h \in DOMAIN p.handles \ gone |-> p.handles[h]]
           keeps == {k \in p.keeps : k[1] \notin C}
           sibs == [h \in DOMAIN p.sibs |->
                      IF h \in C THEN [p.sibs[h] EXCEPT !.name = <<@[1], 0>>] ELSE p.sibs[h]]
           left == p.roots \ roots
           still == p.moves \ flows
           q == Finish(p, v, C)
<1>1. DOMAIN p = {"handles", "roots", "moves", "sites", "names", "vars", "uses", "sibs",
                   "sroots", "stwins", "keeps", "moved", "freed", "renamed", "checked"}
  BY DEF WellFormed, Within
<1>2. q = [p EXCEPT !.handles = handles, !.roots = left, !.moves = still, !.keeps = keeps, !.sibs = sibs]
  BY DEF Finish
<1>3. keeps \subseteq p.keeps
  OBVIOUS
<1>4. /\ DOMAIN sibs = DOMAIN p.sibs
      /\ \A h \in DOMAIN p.sibs :
           sibs[h] = p.sibs[h] \/ sibs[h] = [p.sibs[h] EXCEPT !.name = <<@[1], 0>>]
  OBVIOUS
<1>5. DOMAIN handles \subseteq DOMAIN p.handles /\ \A h \in DOMAIN handles : handles[h] = p.handles[h]
  OBVIOUS
<1> HIDE DEF sibs, keeps, handles
<1> QED
  BY <1>1, <1>2, <1>3, <1>4, <1>5 DEF Finished, HandlesOf

LEMMA FinishKeeps ==
  ASSUME NEW m, WellFormed(m), NEW p, Migrating(p, m), NEW v, NEW C,
         C \cap v.T \subseteq DOMAIN p.sibs
  PROVE  Migrating(Finish(p, v, C), m)
<1> DEFINE q == Finish(p, v, C)
<1>1. Finished(q, p, v, C)
  BY FinishChanges DEF Migrating
<1> HIDE DEF q
<1>2. Within(q, m)
  BY <1>1 DEF Migrating, Within, Finished, HandlesOf
<1>3. Uncut(q, m)
  <2> SUFFICES ASSUME NEW h \in HandlesOf(q) \ DOMAIN q.sibs
               PROVE  /\ \A r \in m.roots : r.to = h => r \in q.roots
                      /\ \A f \in Flows(m) : f.to = h => f \in q.moves
    BY DEF Uncut
  <2>1. h \in HandlesOf(p) \ DOMAIN p.sibs
    BY <1>1 DEF Finished
  <2>2. ASSUME NEW r \in m.roots, r.to = h PROVE r \in q.roots
    <3>1. r \in p.roots /\ r \in RootType(HandlesOf(m))
      BY <2>1, <2>2 DEF Migrating, Uncut, WellFormed
    <3>2. ASSUME r \in RootsOf(p, C), RootClass(p, v.T, r) = "mechanical" PROVE FALSE
      <4>1. r.to \in v.T /\ r.to \in C
        BY <3>1, <3>2, RootMechanical DEF RootsOf
      <4> QED
        BY <2>1, <2>2, <4>1
    <3> QED
      BY <1>1, <3>1, <3>2 DEF Finished
  <2>3. ASSUME NEW f \in Flows(m), f.to = h PROVE f \in q.moves
    <3>1. f \in p.moves
      BY <2>1, <2>3 DEF Migrating, Uncut
    <3>2. f \notin FlowsIn(p, v, C)
      BY <2>1, <2>3 DEF FlowsIn, Threaded
    <3> QED
      BY <1>1, <3>1, <3>2 DEF Finished
  <2> QED
    BY <2>2, <2>3
<1>4. SibsNamed(q, m)
  <2>1. ASSUME NEW h \in DOMAIN p.sibs
        PROVE  /\ q.sibs[h] \in Declaration /\ q.sibs[h].name[1] = p.sibs[h].name[1]
               /\ q.sibs[h].scope = p.sibs[h].scope /\ q.sibs[h].field = p.sibs[h].field
    <3>1. p.sibs[h] \in Declaration
      BY DEF Migrating, SibsNamed
    <3> DEFINE d == p.sibs[h]
               e == [d EXCEPT !.name = <<@[1], 0>>]
    <3>2. e \in Declaration /\ e.name[1] = d.name[1] /\ e.scope = d.scope /\ e.field = d.field
      <4> HIDE DEF d
      <4>1. d \in Declaration
        BY <3>1 DEF d
      <4>2. d.name[1] \in STRING
        BY <4>1 DEF Declaration
      <4>3. <<d.name[1], 0>> \in STRING \X Nat /\ <<d.name[1], 0>>[1] = d.name[1]
        BY <4>2
      <4> QED
        BY <4>1, <4>3 DEF Declaration
    <3>3. q.sibs[h] = d \/ q.sibs[h] = e
      BY <1>1 DEF Finished
    <3> HIDE DEF e
    <3> QED
      BY <3>1, <3>2, <3>3
  <2>2. DOMAIN q.sibs = DOMAIN p.sibs
    BY <1>1 DEF Finished
  <2> QED
    BY <2>1, <2>2 DEF Migrating, SibsNamed
<1>5. Fed(q, m)
  BY <1>1 DEF Finished, Migrating, Fed
<1>6. Kept(q, m)
  BY <1>1 DEF Finished, Migrating, Kept
<1> QED
  BY <1>2, <1>3, <1>4, <1>5, <1>6 DEF Migrating, q

(* Code with the same handles, siblings and uses. *)
Alike(q, p) ==
  /\ DOMAIN q = DOMAIN p /\ q.handles = p.handles /\ q.roots = p.roots /\ q.moves = p.moves
  /\ q.names = p.names /\ q.sites = p.sites /\ q.vars = p.vars /\ q.uses = p.uses
  /\ q.sibs = p.sibs /\ q.sroots = p.sroots /\ q.stwins = p.stwins

LEMMA AlikeKeeps ==
  ASSUME NEW m, NEW p, Migrating(p, m), NEW q, Alike(q, p), Kept(q, m)
  PROVE  Migrating(q, m)
<1>1. Within(q, m)
  BY DEF Alike, Migrating, Within, HandlesOf
<1>2. Uncut(q, m) /\ SibsNamed(q, m) /\ Fed(q, m)
  BY DEF Alike, Migrating, Uncut, SibsNamed, Fed, HandlesOf
<1> QED
  BY <1>1, <1>2 DEF Migrating

LEMMA MoveChanges ==
  ASSUME NEW m, WellFormed(m), NEW p, Within(p, m), NEW S, NEW g
  PROVE  /\ Alike(MoveSites(p, S, g), p)
         /\ MoveSites(p, S, g).moved = p.moved \cup S
         /\ MoveSites(p, S, g).freed = p.freed /\ MoveSites(p, S, g).keeps = p.keeps
<1> DEFINE moved == p.moved \cup S
           renamed == p.renamed \cup RenamedIn(p, g)
<1>1. DOMAIN p = {"handles", "roots", "moves", "sites", "names", "vars", "uses", "sibs",
                   "sroots", "stwins", "keeps", "moved", "freed", "renamed", "checked"}
  BY DEF WellFormed, Within
<1>2. MoveSites(p, S, g) = [p EXCEPT !.moved = moved, !.renamed = renamed]
  BY DEF MoveSites
<1> QED
  BY <1>1, <1>2 DEF Alike

LEMMA MoveKeeps ==
  ASSUME NEW m, WellFormed(m), NEW p, Migrating(p, m), NEW g, NEW S \in SUBSET DOMAIN m.sites
  PROVE  Migrating(MoveSites(p, S, g), m)
<1>1. /\ Alike(MoveSites(p, S, g), p)
      /\ MoveSites(p, S, g).moved = p.moved \cup S
      /\ MoveSites(p, S, g).freed = p.freed /\ MoveSites(p, S, g).keeps = p.keeps
  BY MoveChanges DEF Migrating
<1>2. Kept(MoveSites(p, S, g), m)
  BY <1>1 DEF Alike, Migrating, Kept
<1> QED
  BY <1>1, <1>2, AlikeKeeps

(* The next plan is made from what is left of the sites, variables and     *)
(* uses of the program as it was.                                          *)
LEMMA LoadedKeeps ==
  ASSUME WellFormed(made), NEW p, Migrating(p, made)
  PROVE  Migrating(Loaded(p), made)
<1> DEFINE new == Retyped(p)
           H == HandlesOf(made)
           N == DOMAIN made.sites \cup DOMAIN made.vars
           sites == [s \in AllSites \ new |-> [made.sites[s] EXCEPT
                       !.mentions = @ \ new, !.owner = IF @ \in new THEN None ELSE @]]
           typed == [x \in DOMAIN made.vars \ new |-> made.vars[x]]
           uses == {[u EXCEPT !.into = @ \ new, !.with = @ \ new] :
                      u \in {x \in made.uses : x.of \notin new}}
           q == Loaded(p)
<1>1. DOMAIN p = {"handles", "roots", "moves", "sites", "names", "vars", "uses", "sibs",
                   "sroots", "stwins", "keeps", "moved", "freed", "renamed", "checked"}
  BY DEF WellFormed, Within, Migrating
<1>2. q = [p EXCEPT !.sites = sites, !.vars = typed, !.uses = uses]
  BY DEF Loaded
<1>3. \A s \in DOMAIN made.sites : made.sites[s] \in SiteType(H, N)
  BY DEF WellFormed
<1>4. made.uses \subseteq UseType(N)
  BY DEF WellFormed
<1> HIDE DEF new, H, N
<1>5. \A s \in DOMAIN sites : sites[s] \in SiteType(H, N)
  <2> SUFFICES ASSUME NEW s \in AllSites \ new
               PROVE  [made.sites[s] EXCEPT !.mentions = @ \ new, !.owner = IF @ \in new THEN None ELSE @]
                        \in SiteType(H, N)
    OBVIOUS
  <2> DEFINE c == made.sites[s]
  <2>1. c \in SiteType(H, N)
    BY <1>3 DEF AllSites
  <2> HIDE DEF c
  <2>2. c.mentions \ new \in SUBSET N /\ (IF c.owner \in new THEN None ELSE c.owner) \in N \cup {None}
    BY <2>1, SiteTypeFields
  <2>3. [c EXCEPT !.mentions = c.mentions \ new, !.owner = IF c.owner \in new THEN None ELSE c.owner]
          \in SiteType(H, N)
    BY <2>1, <2>2 DEF SiteType
  <2> QED
    BY <2>3 DEF c
<1>6. uses \subseteq UseType(N)
  <2> SUFFICES ASSUME NEW u \in made.uses
               PROVE  [u EXCEPT !.into = @ \ new, !.with = @ \ new] \in UseType(N)
    OBVIOUS
  <2>1. u \in UseType(N)
    BY <1>4
  <2> QED
    BY <2>1 DEF UseType
<1>7. DOMAIN sites \subseteq DOMAIN made.sites /\ DOMAIN typed \subseteq DOMAIN made.vars
  BY DEF AllSites
<1> HIDE DEF sites, typed, uses, q
<1>8. /\ DOMAIN q = DOMAIN p /\ q.handles = p.handles /\ q.roots = p.roots /\ q.moves = p.moves
      /\ q.names = p.names /\ q.sites = sites /\ q.vars = typed /\ q.uses = uses
      /\ q.sibs = p.sibs /\ q.sroots = p.sroots /\ q.stwins = p.stwins
      /\ q.keeps = p.keeps /\ q.moved = p.moved /\ q.freed = p.freed
  BY <1>1, <1>2
<1>9. Within(q, made)
  BY <1>5, <1>6, <1>7, <1>8 DEF Migrating, Within, HandlesOf, H, N
<1>10. Uncut(q, made) /\ SibsNamed(q, made) /\ Fed(q, made) /\ Kept(q, made)
  BY <1>8 DEF Migrating, Uncut, SibsNamed, Fed, Kept, HandlesOf
<1> QED
  BY <1>9, <1>10 DEF Migrating, q

-----------------------------------------------------------------------------
(* The steps of the specification keep it. *)

LEMMA InitInv == Init => IInv
<1> SUFFICES ASSUME Init PROVE IInv
  OBVIOUS
<1>1. WellFormed(made) /\ code = made
  BY CodeStepsAssumption DEF Init
<1>2. Within(made, made)
  BY <1>1 DEF WellFormed, Within
<1>3. Prepared(made)
  BY <1>1 DEF WellFormed
<1>4. Uncut(made, made)
  BY DEF Uncut, Flows
<1>5. SibsNamed(made, made) /\ Fed(made, made)
  BY <1>3 DEF Prepared, SibsNamed, Fed
<1>6. Kept(made, made)
  BY <1>1, <1>3 DEF WellFormed, Prepared, Kept
<1> QED
  BY <1>1, <1>2, <1>4, <1>5, <1>6 DEF Init, IInv, CodeInv, PlanInv, Migrating

(* Every step of the plan is one that the planner makes of the code. *)
LEMMA PlanHasSteps ==
  ASSUME IInv, NEW i \in DOMAIN plan
  PROVE  StepAt(plan, i, code, view, answers)
<1>1. Placed(code, view)
  BY PlacedView DEF IInv, CodeInv, PlanInv, Migrating
<1>2. plan = PlanOf(code, view, answers)
  BY DEF IInv, PlanInv
<1> QED
  BY <1>1, <1>2, PlanSteps

(* The components of the plan, and what they are. *)
LEMMA ViewInv ==
  ASSUME IInv
  PROVE  /\ view.T = Threadable(code) /\ view.present \subseteq DOMAIN code.sibs
         /\ \A K \in view.comps : UNION K \subseteq HandlesOf(code)
         /\ \A K \in view.comps : \A f \in Flows(code) :
              f.from \in HandlesOf(code) /\ f.to \in HandlesOf(code) =>
                (f.from \in UNION K <=> f.to \in UNION K)
<1>1. WellFormed(made) /\ Within(code, made) /\ SibsNamed(code, made) /\ view = View(code, answers)
  BY DEF IInv, CodeInv, PlanInv, Migrating
<1> QED
  BY <1>1, ViewFacts

(* A step that is not a unit is the planner's for a component. *)
LEMMA StepsOfComponents ==
  ASSUME IInv, NEW i \in DOMAIN plan, plan[i].kind # "site"
  PROVE  \E K \in view.comps :
           /\ plan[i].comp = UNION K /\ plan[i].kind \in Kinds
           /\ ComponentStepAt(plan, i, code, view, UNION K, Mine(code, view, K))
<1>1. PICK K \in view.comps : ComponentStepAt(plan, i, code, view, UNION K, Mine(code, view, K))
  BY PlanHasSteps DEF StepAt
<1> DEFINE C == UNION K
           gs == Mine(code, view, K)
           wait == Blocking(code, view, C)
<1>2. AddStep(code, view, C).comp = C
  BY DEF AddStep
<1>3. FinishStep(code, view, C, gs, wait).kind = "finish" => FinishStep(code, view, C, gs, wait).comp = C
  BY DEF FinishStep, NoStep
<1>4. OneStepFor(plan[i], code, view, C, gs) => plan[i].comp = C /\ plan[i].kind = "component"
  BY DEF OneStepFor
<1>5. /\ plan[i].comp = C /\ plan[i].kind \in Kinds
  <2> HIDE DEF C, gs, wait
  <2>1. CASE plan[i] = AddStep(code, view, C) /\ AddStep(code, view, C).kind = "add"
    BY <1>2, <2>1 DEF Kinds
  <2>2. CASE \E g \in gs : plan[i] = UnitStep(code, view, C, g, wait) /\ plan[i].kind = "site"
    BY <2>2
  <2>3. CASE plan[i] = FinishStep(code, view, C, gs, wait) /\ FinishStep(code, view, C, gs, wait).kind = "finish"
    BY <1>3, <2>3 DEF Kinds
  <2>4. CASE OneStepFor(plan[i], code, view, C, gs)
    BY <1>4, <2>4 DEF Kinds
  <2>5. ComponentStepAt(plan, i, code, view, C, gs)
    BY <1>1 DEF C, gs
  <2> QED
    BY <2>1, <2>2, <2>3, <2>4, <2>5 DEF ComponentStepAt, wait
<1> QED
  BY <1>1, <1>5

(* A component waits on what its siblings wait on. *)
LEMMA BlockersWait ==
  ASSUME NEW p, NEW v, NEW C, NEW gs, NEW wait
  PROVE  wait \subseteq Blockers(p, v, C, gs, wait)
BY DEF Blockers

(* A machine step is applied when its component's siblings are there or    *)
(* can be added, and a finish step only after them.                        *)
LEMMA PerformedKeeps ==
  ASSUME IInv, NEW i \in DOMAIN plan, CanApply(i)
  PROVE  Migrating(Performed(code, view, plan[i]), made)
<1> DEFINE S == ListedSites(code, plan[i])
           units == UNION {g \in view.groups : g \cap S # {}}
<1>1. /\ WellFormed(made) /\ Migrating(code, made) /\ Within(code, made)
      /\ view = View(code, answers) /\ S \subseteq DOMAIN made.sites
  BY DEF IInv, CodeInv, PlanInv, Migrating, Within, ListedSites
<1>2. plan[i].machine
  BY DEF CanApply, FirstMachine, FirstOfComp
<1>3. CASE plan[i].kind = "site"
  <2>1. Performed(code, view, plan[i]) = MoveSites(code, S, units)
    BY <1>3 DEF Performed
  <2> HIDE DEF S, units
  <2> QED
    BY <1>1, <2>1, MoveKeeps
<1>4. CASE plan[i].kind # "site"
  <2>1. PICK K \in view.comps :
          /\ plan[i].comp = UNION K /\ plan[i].kind \in Kinds
          /\ ComponentStepAt(plan, i, code, view, UNION K, Mine(code, view, K))
    BY <1>4, StepsOfComponents
  <2> DEFINE C == UNION K
             gs == Mine(code, view, K)
             add == AddStep(code, view, C)
             wait == Blocking(code, view, C)
             finish == FinishStep(code, view, C, gs, wait)
  <2>2. /\ add.comp = C /\ add.kind = (IF Resumed(view, C) THEN "none" ELSE "add")
        /\ (add.machine => Unready(code, view, C, TRUE) = {})
    BY DEF AddStep
  <2>3. Resumed(view, C) => C \cap view.T \subseteq view.present
    BY DEF Resumed
  <2>4. finish.kind = "finish" => (finish.machine => wait = {})
    <3> HIDE DEF wait, gs, C
    <3>1. wait \subseteq Blockers(code, view, C, gs, wait)
      BY BlockersWait
    <3> QED
      BY <3>1 DEF FinishStep, NoStep
  <2>5. wait = {} => Resumed(view, C) \/ add.machine
    BY DEF Blocking
  <2>6. view.present \subseteq DOMAIN code.sibs
    BY ViewInv
  <2>7. ComponentStepAt(plan, i, code, view, C, gs)
    BY <2>1
  <2>8. C \in {UNION K2 : K2 \in View(code, answers).comps}
    BY <1>1
  <2> HIDE DEF add, finish, wait, gs
  <2>9. CASE plan[i] = add /\ add.kind = "add"
    <3>1. Performed(code, view, plan[i]) = AddHandles(code, view, C, FALSE)
      BY <2>2, <2>9 DEF Performed
    <3>2. CanThread(code, view, C, FALSE)
      BY <1>2, <2>2, <2>9 DEF CanThread
    <3> QED
      BY <1>1, <3>1, <3>2, AddKeeps
  <2>10. CASE /\ plan[i] = finish /\ finish.kind = "finish"
              /\ add.kind = "add" => \E j \in 1 .. i - 1 : plan[j] = add
    <3>1. Resumed(view, C)
      <4> SUFFICES ASSUME ~Resumed(view, C) PROVE FALSE
        OBVIOUS
      <4>1. add.machine /\ add.kind = "add"
        BY <1>2, <2>2, <2>4, <2>5, <2>10
      <4>2. PICK j \in 1 .. i - 1 : plan[j].machine /\ plan[j].comp = plan[i].comp
        BY <2>1, <2>2, <2>10, <4>1
      <4> QED
        BY <4>2 DEF CanApply, FirstMachine, FirstOfComp
    <3>2. Performed(code, view, plan[i]) = Finish(code, view, C)
      BY <2>1, <2>10 DEF Performed
    <3>3. C \cap view.T \subseteq DOMAIN code.sibs
      BY <2>3, <2>6, <3>1
    <3> HIDE DEF C
    <3> QED
      BY <1>1, <3>2, <3>3, FinishKeeps
  <2>11. CASE OneStepFor(plan[i], code, view, C, gs)
    <3> DEFINE added == AddHandles(code, view, C, FALSE)
               moved == MoveSites(added, S, units)
    <3>1. plan[i].kind = "component" /\ (add.kind = "add" => add.machine)
      BY <2>11 DEF OneStepFor, add
    <3>2. CanThread(code, view, C, FALSE)
      BY <2>2, <2>3, <3>1 DEF CanThread
    <3>3. Migrating(added, made) /\ C \cap view.T \subseteq DOMAIN added.sibs
      BY <1>1, <3>2, AddKeeps
    <3>4. Performed(code, view, plan[i]) = Finish(moved, view, C)
      BY <2>1, <3>1 DEF Performed, MigrateComponent
    <3> HIDE DEF added, S, units, C
    <3>5. Migrating(moved, made) /\ moved.sibs = added.sibs
      BY <1>1, <3>3, MoveKeeps, MoveChanges DEF Migrating, Alike
    <3> HIDE DEF moved
    <3> QED
      BY <1>1, <3>3, <3>4, <3>5, FinishKeeps
  <2> QED
    BY <1>4, <2>7, <2>9, <2>10, <2>11 DEF ComponentStepAt, add, finish, wait
<1> QED
  BY <1>3, <1>4

LEMMA BecomesKeeps ==
  ASSUME IInv, NEW q, Migrating(q, made), Becomes(q)
  PROVE  IInv'
<1>1. WellFormed(made) /\ made' = made /\ code' = Loaded(q)
  BY DEF IInv, CodeInv, Becomes
<1>2. Migrating(Loaded(q), made)
  BY <1>1, LoadedKeeps
<1>3. CodeInv'
  BY <1>1, <1>2 DEF CodeInv
<1>4. PlanInv'
  BY DEF Becomes, Planned, PlanInv
<1> QED
  BY <1>3, <1>4 DEF IInv

LEMMA HandAddKeeps ==
  ASSUME IInv, NEW i \in DOMAIN plan, CanAdd(i)
  PROVE  Migrating(AddHandles(code, view, plan[i].comp, TRUE), made)
<1>1. PICK K \in view.comps : plan[i].comp = UNION K
  BY StepsOfComponents DEF CanAdd
<1>2. WellFormed(made) /\ Migrating(code, made) /\ view = View(code, answers)
  BY DEF IInv, CodeInv, PlanInv
<1>3. CanThread(code, View(code, answers), UNION K, TRUE)
  BY DEF CanThread
<1> QED
  BY <1>1, <1>2, <1>3, AddKeeps

(* The code after a person migrated the unit g. *)
UnitDone(g) ==
  LET S == SitesIn(code, g)
      without == {s \in S : code.sites[s].on \notin DOMAIN code.sibs}
  IN  [MoveSites(code, S, g) EXCEPT
         !.freed = @ \cup without,
         !.keeps = @ \cup {<<code.sites[s].on, "old">> :
                             s \in {x \in without : code.sites[x].on # None}},
         !.checked = @ \cup {u \in made.uses : u.of \in g}]

LEMMA HandUnitKeeps ==
  ASSUME IInv, NEW g
  PROVE  Migrating(UnitDone(g), made)
<1> DEFINE S == SitesIn(code, g)
           without == {s \in S : code.sites[s].on \notin DOMAIN code.sibs}
           kept == {<<code.sites[s].on, "old">> : s \in {x \in without : code.sites[x].on # None}}
           read == {u \in made.uses : u.of \in g}
           p == MoveSites(code, S, g)
           q == UnitDone(g)
<1>1. WellFormed(made) /\ Migrating(code, made) /\ Within(code, made)
  BY DEF IInv, CodeInv, Migrating
<1>2. S \subseteq DOMAIN made.sites /\ without \subseteq S
  BY <1>1 DEF SitesIn, Within
<1>3. kept \subseteq HandlesOf(made) \X {"old", "new"}
  <2>1. \A s \in DOMAIN code.sites : code.sites[s].on \in HandlesOf(made) \cup {None}
    BY <1>1, SiteTypeFields DEF Within
  <2>2. without \subseteq DOMAIN code.sites
    BY DEF SitesIn
  <2> HIDE DEF without
  <2> QED
    BY <2>1, <2>2
<1>4. /\ Alike(p, code) /\ p.moved = code.moved \cup S
      /\ p.freed = code.freed /\ p.keeps = code.keeps
  BY <1>1, MoveChanges
<1>5. q = [p EXCEPT !.freed = p.freed \cup without, !.keeps = p.keeps \cup kept,
                    !.checked = p.checked \cup read]
  BY DEF UnitDone
<1>6. DOMAIN p = {"handles", "roots", "moves", "sites", "names", "vars", "uses", "sibs",
                   "sroots", "stwins", "keeps", "moved", "freed", "renamed", "checked"}
  BY <1>1, <1>4 DEF WellFormed, Within, Alike
<1> HIDE DEF p, q, S, without, kept, read
<1>7. /\ Alike(q, code) /\ q.moved = code.moved \cup S
      /\ q.freed = code.freed \cup without /\ q.keeps = code.keeps \cup kept
  BY <1>4, <1>5, <1>6 DEF Alike
<1>8. Kept(q, made)
  BY <1>1, <1>2, <1>3, <1>7 DEF Alike, Migrating, Kept
<1>9. Migrating(q, made)
  BY <1>1, <1>7, <1>8, AlikeKeeps
<1> QED
  BY <1>9 DEF q

(* The code after a person removed the handles C, with the units G.        *)
Removed(C, G) ==
  LET S == SitesIn(code, G) IN
  [code EXCEPT
     !.handles = [h \in DOMAIN @ \ C |-> @[h]],
     !.roots = {r \in @ : r.to \notin C},
     !.moves = {m \in @ : m.from \notin C /\ m.to \notin C},
     !.keeps = {k \in @ : k[1] \notin C},
     !.moved = @ \cup S, !.freed = @ \cup S,
     !.checked = @ \cup {u \in made.uses : u.of \in G}]

LEMMA RemovedKeeps ==
  ASSUME IInv, NEW K \in view.comps, NEW G
  PROVE  Migrating(Removed(UNION K, G), made)
<1> DEFINE C == UNION K
           S == SitesIn(code, G)
           handles == [h \in DOMAIN code.handles \ C |-> code.handles[h]]
           roots == {r \in code.roots : r.to \notin C}
           moves == {f \in code.moves : f.from \notin C /\ f.to \notin C}
           keeps == {k \in code.keeps : k[1] \notin C}
           read == {u \in made.uses : u.of \in G}
           q == Removed(C, G)
<1>1. WellFormed(made) /\ Migrating(code, made) /\ Within(code, made)
  BY DEF IInv, CodeInv, Migrating
<1>2. DOMAIN code = {"handles", "roots", "moves", "sites", "names", "vars", "uses", "sibs",
                      "sroots", "stwins", "keeps", "moved", "freed", "renamed", "checked"}
  BY <1>1 DEF WellFormed, Within
<1>3. q = [code EXCEPT !.handles = handles, !.roots = roots, !.moves = moves, !.keeps = keeps,
                       !.moved = code.moved \cup S, !.freed = code.freed \cup S,
                       !.checked = code.checked \cup read]
  BY DEF Removed
<1>4. /\ DOMAIN handles = HandlesOf(code) \ C /\ \A h \in DOMAIN handles : handles[h] = code.handles[h]
      /\ keeps \subseteq code.keeps /\ S \subseteq DOMAIN made.sites
  BY <1>1 DEF HandlesOf, Within, SitesIn
<1>5. \A f \in Flows(code) :
        f.from \in HandlesOf(code) /\ f.to \in HandlesOf(code) => (f.from \in C <=> f.to \in C)
  BY ViewInv
<1>6. C \subseteq HandlesOf(code)
  BY ViewInv
<1> HIDE DEF handles, keeps, read, q, C, S
<1>7. /\ DOMAIN q = DOMAIN code /\ q.handles = handles /\ q.roots = roots /\ q.moves = moves
      /\ q.names = code.names /\ q.sites = code.sites /\ q.vars = code.vars /\ q.uses = code.uses
      /\ q.sibs = code.sibs /\ q.sroots = code.sroots /\ q.stwins = code.stwins
      /\ q.keeps = keeps /\ q.moved = code.moved \cup S /\ q.freed = code.freed \cup S
  BY <1>2, <1>3
<1>8. Within(q, made)
  BY <1>1, <1>4, <1>7 DEF Within, HandlesOf
<1>9. Uncut(q, made)
  <2> SUFFICES ASSUME NEW h \in HandlesOf(q) \ DOMAIN q.sibs
               PROVE  /\ \A r \in made.roots : r.to = h => r \in q.roots
                      /\ \A f \in Flows(made) : f.to = h => f \in q.moves
    BY DEF Uncut
  <2>1. h \in HandlesOf(code) \ DOMAIN code.sibs /\ h \notin C
    BY <1>4, <1>7 DEF HandlesOf
  <2>2. \A r \in made.roots : r.to = h => r \in q.roots
    BY <1>1, <1>7, <2>1 DEF Migrating, Uncut
  <2>3. ASSUME NEW f \in Flows(made), f.to = h PROVE f \in q.moves
    <3>1. f \in code.moves /\ f \in Flows(code)
      BY <1>1, <2>1, <2>3 DEF Migrating, Uncut, Flows
    <3>2. f.from \notin C
      BY <1>5, <1>6, <2>1, <2>3, <3>1
    <3> QED
      BY <1>7, <2>1, <2>3, <3>1, <3>2
  <2> QED
    BY <2>2, <2>3
<1>10. SibsNamed(q, made) /\ Fed(q, made)
  BY <1>1, <1>7 DEF Migrating, SibsNamed, Fed
<1>11. Kept(q, made)
  BY <1>1, <1>4, <1>7 DEF Migrating, Kept
<1> QED
  BY <1>8, <1>9, <1>10, <1>11 DEF Migrating, q, C

LEMMA NextInv == IInv /\ [Next]_vars => IInv'
<1> SUFFICES ASSUME IInv, [Next]_vars PROVE IInv'
  OBVIOUS
<1>1. ASSUME NEW i \in DOMAIN plan, Apply(i) PROVE IInv'
  <2>1. CanApply(i) /\ Becomes(Performed(code, view, plan[i]))
    BY <1>1 DEF Apply
  <2> QED
    BY <2>1, PerformedKeeps, BecomesKeeps
<1>2. ASSUME NEW i \in DOMAIN plan, HandAdd(i) PROVE IInv'
  <2>1. CanAdd(i) /\ Becomes(AddHandles(code, view, plan[i].comp, TRUE))
    BY <1>2 DEF HandAdd
  <2> QED
    BY <2>1, HandAddKeeps, BecomesKeeps
<1>3. ASSUME NEW i \in DOMAIN plan, HandUnit(i) PROVE IInv'
  <2> DEFINE g == UNION {x \in view.groups : x \cap ListedSites(code, plan[i]) # {}}
  <2>1. Becomes(UnitDone(g))
    BY <1>3 DEF HandUnit, UnitDone
  <2> QED
    BY <2>1, HandUnitKeeps, BecomesKeeps
<1>4. ASSUME NEW i \in DOMAIN plan, HandFinish(i) PROVE IInv'
  <2> DEFINE G == UNION {g \in view.groups : g \cap SitesOn(code, plan[i].comp) # {}}
  <2>1. plan[i].kind # "site" /\ Becomes(Removed(plan[i].comp, G))
    BY <1>4 DEF HandFinish, CanFinish, Removed
  <2> HIDE DEF G
  <2>2. PICK K \in view.comps : plan[i].comp = UNION K
    BY <2>1, StepsOfComponents
  <2> QED
    BY <2>1, <2>2, RemovedKeeps, BecomesKeeps
<1>5. ASSUME UNCHANGED <<code, made>>, Planned PROVE IInv'
  <2>1. CodeInv'
    BY <1>5 DEF IInv, CodeInv
  <2>2. PlanInv'
    BY <1>5 DEF Planned, PlanInv
  <2> QED
    BY <2>1, <2>2 DEF IInv
<1>6. CASE Answering
  <2>1. UNCHANGED <<code, made>> /\ Planned
    BY <1>6 DEF Answering, AnswerSite, AnswerAgain, AnswerComponent, Answered
  <2> QED
    BY <1>5, <2>1
<1>7. CASE UNCHANGED vars
  BY <1>7 DEF vars, IInv, CodeInv, PlanInv
<1> QED
  BY <1>1, <1>2, <1>3, <1>4, <1>6, <1>7 DEF Next, ByHand

LEMMA AlwaysInv == Spec => []IInv
BY InitInv, NextInv, PTL DEF Spec

-----------------------------------------------------------------------------
(* What follows from it. *)

(* The loop of threadability leaves no handle out that could have a        *)
(* sibling, whatever the handles and flows and in whatever order they are  *)
(* visited (threadability, components.go).                                 *)
THEOREM SiblingsForAll == Spec => []ThreadableIsLargest
<1>1. IInv => ThreadableIsLargest
  <2> SUFFICES ASSUME IInv PROVE ThreadableIsLargest
    OBVIOUS
  <2>1. IsFiniteSet(HandlesOf(code))
    BY GraphFinite DEF IInv, CodeInv, Migrating
  <2> QED
    BY <2>1, ThreadableSustained DEF ThreadableIsLargest, Sustained
<1> QED
  BY <1>1, AlwaysInv, PTL

(* A sibling holds what its handle holds, for every program: whatever      *)
(* steps were applied or done by hand, in whatever order (planComponent,   *)
(* addIntents, threadability, componentStep).                              *)
THEOREM SiblingsAlwaysFed == Spec => []SiblingsFed
<1>1. IInv => SiblingsFed
  BY DEF IInv, CodeInv, Migrating, Fed, SiblingsFed
<1> QED
  BY <1>1, AlwaysInv, PTL

(* The plan is about code that is there, and a step with edits waits on    *)
(* nothing; siblings are named, and what is noted of them is of the        *)
(* program as it was (planComponent, unitStep, siblingName).               *)
THEOREM PlanTypeCorrect == Spec => []TypeOK
<1>1. ASSUME IInv PROVE TypeOK
  <2>1. WellFormed(made) /\ Within(code, made) /\ SibsNamed(code, made) /\ Kept(code, made)
    BY <1>1 DEF IInv, CodeInv, Migrating
  <2>2. /\ HandlesOf(code) \subseteq AllHandles /\ DOMAIN code.sibs \subseteq AllHandles
        /\ code.roots \subseteq made.roots /\ code.sroots \subseteq made.roots
        /\ code.moves \subseteq made.moves /\ code.stwins \subseteq Flows(made)
        /\ code.freed \subseteq code.moved /\ code.moved \subseteq AllSites
        /\ code.keeps \subseteq AllHandles \X {"old", "new"}
    BY <2>1 DEF Within, SibsNamed, Named, Kept, AllHandles, AllSites
  <2>3. Declared(code) \subseteq Declaration
    <3>1. code.names \subseteq Declaration /\ \A h \in DOMAIN code.sibs : code.sibs[h] \in Declaration
      BY <2>1 DEF WellFormed, Within, SibsNamed
    <3>2. ASSUME NEW h \in HandlesOf(code)
          PROVE  [name |-> <<code.handles[h].base, 0>>, scope |-> code.handles[h].scope,
                  vis |-> code.handles[h].vis, field |-> code.handles[h].kind = "field"] \in Declaration
      <4>1. code.handles[h] \in HandleType
        BY <2>1 DEF WellFormed, Within
      <4> QED
        BY <4>1 DEF HandleType, Declaration
    <3> QED
      BY <3>1, <3>2 DEF Declared
  <2>4. ASSUME NEW i \in DOMAIN plan
        PROVE  /\ plan[i].kind \in Kinds /\ plan[i].comp \subseteq HandlesOf(code)
               /\ plan[i].machine => plan[i].waits = {}
    <3>1. ASSUME NEW C, NEW g, NEW wait, plan[i] = UnitStep(code, view, C, g, wait), plan[i].kind = "site"
          PROVE  plan[i].comp = C /\ (plan[i].machine => plan[i].waits = {})
      BY <3>1 DEF UnitStep, NoStep
    <3>2. StepAt(plan, i, code, view, answers)
      BY <1>1, PlanHasSteps
    <3>3. CASE \E g \in view.groups : plan[i] = UnitStep(code, view, {}, g, {}) /\ plan[i].kind = "site"
      BY <3>1, <3>3 DEF Kinds
    <3>4. ASSUME NEW K \in view.comps,
                 ComponentStepAt(plan, i, code, view, UNION K, Mine(code, view, K))
          PROVE  /\ plan[i].kind \in Kinds /\ plan[i].comp \subseteq HandlesOf(code)
                 /\ plan[i].machine => plan[i].waits = {}
      <4> DEFINE C == UNION K
                 gs == Mine(code, view, K)
                 wait == Blocking(code, view, C)
      <4>1. C \subseteq HandlesOf(code)
        BY <1>1, ViewInv
      <4>2. ComponentStepAt(plan, i, code, view, C, gs)
        BY <3>4
      <4> HIDE DEF C, gs
      <4>3. CASE plan[i] = AddStep(code, view, C) /\ AddStep(code, view, C).kind = "add"
        <5>1. AddStep(code, view, C).comp = C /\ AddStep(code, view, C).waits = {}
          BY DEF AddStep
        <5> QED
          BY <4>1, <4>3, <5>1 DEF Kinds
      <4>4. CASE \E g \in gs : plan[i] = UnitStep(code, view, C, g, wait) /\ plan[i].kind = "site"
        BY <3>1, <4>1, <4>4 DEF Kinds
      <4>5. CASE /\ plan[i] = FinishStep(code, view, C, gs, wait)
                 /\ FinishStep(code, view, C, gs, wait).kind = "finish"
        <5>1. LET finish == FinishStep(code, view, C, gs, wait) IN
              finish.kind = "finish" => finish.comp = C /\ (finish.machine => finish.waits = {})
          BY DEF FinishStep, NoStep
        <5> QED
          BY <4>1, <4>5, <5>1 DEF Kinds
      <4>6. CASE OneStepFor(plan[i], code, view, C, gs)
        BY <4>1, <4>6 DEF OneStepFor, Kinds
      <4> QED
        BY <4>2, <4>3, <4>4, <4>5, <4>6 DEF ComponentStepAt
    <3> QED
      BY <3>2, <3>3, <3>4 DEF StepAt
  <2> QED
    BY <2>2, <2>3, <2>4 DEF TypeOK
<1> QED
  BY <1>1, AlwaysInv, PTL

-----------------------------------------------------------------------------
(* Which variables have changed type. *)

(* The sites and the variables, which have their type from one of them.    *)
Nodes == AllSites \cup DOMAIN made.vars

(* A variable changes type with what it has its type from: the sets that   *)
(* hold the migrated sites and are closed under this have a smallest one.  *)
LEMMA RetypedAlong ==
  ASSUME WellFormed(made), NEW p
  PROVE  /\ Retyped(p) \subseteq Nodes
         /\ \A s \in AllSites : s \in Retyped(p) <=> s \in p.moved
         /\ \A v \in DOMAIN made.vars : v \in Retyped(p) <=> made.vars[v] \in Retyped(p)
<1> DEFINE Loop(g) == g = [x \in Nodes |-> IF x \in AllSites THEN x \in p.moved ELSE g[made.vars[x]]]
           Grown(X) == /\ \A s \in AllSites : s \in p.moved => s \in X
                       /\ \A v \in DOMAIN made.vars : made.vars[v] \in X => v \in X
           R == {x \in Nodes : \A X \in SUBSET Nodes : Grown(X) => x \in X}
           f == [x \in Nodes |-> x \in R]
<1>1. AllSites \cap DOMAIN made.vars = {} /\ \A v \in DOMAIN made.vars : made.vars[v] \in Nodes
  BY DEF WellFormed, Typed, Nodes, AllSites
<1>2. Grown(R)
  BY DEF Nodes
<1>4. \A s \in AllSites : s \in R <=> s \in p.moved
  <2> SUFFICES ASSUME NEW s \in AllSites, s \in R, s \notin p.moved PROVE FALSE
    BY <1>2
  <2>1. Grown(R \ {s})
    BY <1>1, <1>2
  <2>2. R \ {s} \in SUBSET Nodes
    OBVIOUS
  <2> QED
    BY <2>1, <2>2
<1>5. \A v \in DOMAIN made.vars : v \in R <=> made.vars[v] \in R
  <2> SUFFICES ASSUME NEW v \in DOMAIN made.vars, v \in R, made.vars[v] \notin R PROVE FALSE
    BY <1>2
  <2>1. Grown(R \ {v})
    BY <1>1, <1>2
  <2>2. R \ {v} \in SUBSET Nodes
    OBVIOUS
  <2> QED
    BY <2>1, <2>2
<1> HIDE DEF R
<1>6. Loop(f)
  <2> SUFFICES ASSUME NEW x \in Nodes
               PROVE  (x \in R) = (IF x \in AllSites THEN x \in p.moved ELSE f[made.vars[x]])
    OBVIOUS
  <2>1. CASE x \in AllSites
    BY <1>4, <2>1
  <2>2. CASE x \notin AllSites
    <3>1. x \in DOMAIN made.vars
      BY <2>2 DEF Nodes
    <3>2. f[made.vars[x]] = (made.vars[x] \in R)
      BY <1>1, <3>1
    <3> HIDE DEF f
    <3> QED
      BY <1>5, <2>2, <3>1, <3>2
  <2> QED
    BY <2>1, <2>2
<1>7. PICK g : Retyped(p) = {x \in Nodes : g[x]} /\ Loop(g)
  <2>1. Retyped(p) = {x \in Nodes : (CHOOSE g : Loop(g))[x]}
    BY DEF Retyped, Nodes
  <2> HIDE DEF f
  <2>2. Loop(CHOOSE g : Loop(g))
    BY <1>6
  <2> HIDE DEF Loop
  <2> QED
    BY <2>1, <2>2
<1>8. \A s \in AllSites : g[s] = (s \in p.moved)
  BY <1>7 DEF Nodes
<1>9. \A v \in DOMAIN made.vars : g[v] = g[made.vars[v]]
  BY <1>1, <1>7 DEF Nodes
<1> HIDE DEF Loop, f
<1> QED
  BY <1>1, <1>7, <1>8, <1>9 DEF Nodes

(* Every variable has its type from a site in the end, so the migrated     *)
(* sites say which variables have changed.                                 *)
LEMMA RetypedIs ==
  ASSUME WellFormed(made), NEW p, NEW R \in SUBSET Nodes,
         \A s \in AllSites : s \in R <=> s \in p.moved,
         \A v \in DOMAIN made.vars : v \in R <=> made.vars[v] \in R
  PROVE  Retyped(p) = R
<1> DEFINE V == {v \in DOMAIN made.vars : ~(v \in R <=> v \in Retyped(p))}
<1>1. SUFFICES V = {}
  BY RetypedAlong DEF Nodes
<1>2. ASSUME V # {} PROVE FALSE
  <2>1. PICK x \in V : made.vars[x] \notin V
    <3>1. V \in SUBSET DOMAIN made.vars
      OBVIOUS
    <3> HIDE DEF V
    <3> QED
      BY <1>2, <3>1 DEF WellFormed, Typed
  <2>2. made.vars[x] \in AllSites \cup DOMAIN made.vars
    BY DEF WellFormed, AllSites
  <2>3. made.vars[x] \in R <=> made.vars[x] \in Retyped(p)
    BY <2>1, <2>2, RetypedAlong
  <2> QED
    BY <2>3, RetypedAlong
<1> QED
  BY <1>2

-----------------------------------------------------------------------------
(* The invariant. *)

(* The variables that are adrift hold those they are copied to; the others *)
(* are linked with what gives them their type.                             *)
LEMMA AdriftClosed ==
  ASSUME WellFormed(made)
  PROVE  /\ Adrift \subseteq DOMAIN made.vars /\ AllSites \cap Adrift = {}
         /\ \A v \in DOMAIN made.vars \ Adrift : Follows(made.vars[v], v) /\ made.vars[v] \notin Adrift
<1> DEFINE Closed(V) == \A v \in DOMAIN made.vars :
             made.vars[v] \in V \/ ~Follows(made.vars[v], v) => v \in V
<1>1. Adrift = {v \in DOMAIN made.vars : \A V \in SUBSET DOMAIN made.vars : Closed(V) => v \in V}
  BY DEF Adrift
<1>2. Adrift \subseteq DOMAIN made.vars
  BY <1>1
<1>3. AllSites \cap Adrift = {}
  BY <1>2 DEF WellFormed, Typed, AllSites
<1>4. ASSUME NEW v \in DOMAIN made.vars, v \notin Adrift
      PROVE  Follows(made.vars[v], v) /\ made.vars[v] \notin Adrift
  <2>1. PICK V \in SUBSET DOMAIN made.vars : Closed(V) /\ v \notin V
    BY <1>1, <1>4
  <2>2. Follows(made.vars[v], v) /\ made.vars[v] \notin V
    BY <2>1
  <2> HIDE DEF Closed
  <2> QED
    BY <1>1, <2>1, <2>2
<1> QED
  BY <1>2, <1>3, <1>4

(* No link leads from what has changed type to what has not, but for the   *)
(* variables that are adrift.                                              *)
Apart(R) ==
  \A e \in Links(made) : e[1] \notin Adrift /\ e[2] \notin Adrift => (e[1] \in R <=> e[2] \in R)

(* What the planner sees is the program as it was without what has changed. *)
Bare(c, R) == [c EXCEPT !.mentions = @ \ R]
Stripped(u, R) == [u EXCEPT !.into = @ \ R, !.with = @ \ R]

Left(p, R) ==
  /\ DOMAIN p.sites = AllSites \ R /\ \A s \in AllSites \ R : p.sites[s] = Bare(made.sites[s], R)
  /\ DOMAIN p.vars = DOMAIN made.vars \ R
  /\ p.uses = {Stripped(u, R) : u \in {x \in made.uses : x.of \notin R}}

Reviewed(p, R) ==
  \A u \in made.uses : u.of \notin Adrift =>
    (u.of \in R => Agrees(p, u, R)) /\ (u \in p.renamed => u.of \in R)

ValuesInv(p) ==
  LET R == Retyped(p) IN Apart(R) /\ Left(p, R) /\ Reviewed(p, R)

LEMMA BareSite ==
  ASSUME NEW H, NEW N, NEW c \in SiteType(H, N), NEW R
  PROVE  LET b == Bare(c, R) IN
           /\ b.mentions = c.mentions \ R /\ b.owner = c.owner /\ b.fit = c.fit
           /\ b.form = c.form /\ b.asks = c.asks /\ b.pos = c.pos
BY DEF SiteType, Bare

(* A use has the problems that it had, and the links to what is left.      *)
LEMMA StrippedUse ==
  ASSUME NEW N, NEW u \in UseType(N), NEW R
  PROVE  LET w == Stripped(u, R) IN
           /\ w.of = u.of /\ w.how = u.how /\ w.target = u.target
           /\ ValueContext(w).problems = ValueContext(u).problems
           /\ UseContext(w).problems = UseContext(u).problems
           /\ ValueContext(w).links = ValueContext(u).links \ R
           /\ UseContext(w).links = UseContext(u).links \ R
           /\ u.into \cup u.with = {} => w = u
<1> DEFINE w == Stripped(u, R)
<1>1. /\ w.of = u.of /\ w.how = u.how /\ w.target = u.target
      /\ w.into = u.into \ R /\ w.with = u.with \ R
  BY DEF UseType, Stripped
<1>2. ASSUME u.into \cup u.with = {} PROVE w = u
  <2>1. u.into \ R = u.into /\ u.with \ R = u.with
    BY <1>2
  <2>2. w = [u EXCEPT !.into = u.into, !.with = u.with]
    BY <2>1 DEF Stripped
  <2> QED
    BY <2>2 DEF UseType
<1>3. /\ Fine.links = {} /\ Review.links = {} /\ Fine.links = Fine.links \ R /\ Review.links = Review.links \ R
      /\ \A L, P : Context(L, P).links = L /\ Context(L, P).problems = P
  BY DEF Fine, Review, Context
<1> HIDE DEF w
<1>5. /\ LinkOperand(w).problems = LinkOperand(u).problems
      /\ LinkOperand(w).links = LinkOperand(u).links \ R
  BY <1>1, <1>3 DEF LinkOperand
<1>6. u.target \in {"legacy", "interface", "other"} =>
        AddLink(w).problems = AddLink(u).problems /\ AddLink(w).links = AddLink(u).links \ R
  BY <1>1, <1>3 DEF AddLink
<1>7. u.target \in Targets(u.how)
      /\ u.how \in {"nil", "len", "alone", "lhs", "select", "assign", "literal", "compare",
                    "case", "arg", "return", "range", "modify", "other"}
  BY DEF UseType
<1>8. u.how = "select" =>
        ValueContext(w).problems = ValueContext(u).problems /\ ValueContext(w).links = ValueContext(u).links \ R
  BY <1>1, <1>3 DEF ValueContext, FieldSelection
<1>9. u.how = "assign" =>
        ValueContext(w).problems = ValueContext(u).problems /\ ValueContext(w).links = ValueContext(u).links \ R
  BY <1>1, <1>3, <1>6, <1>7 DEF ValueContext, LinkLHS, Targets
<1>10. u.how = "arg" =>
        ValueContext(w).problems = ValueContext(u).problems /\ ValueContext(w).links = ValueContext(u).links \ R
  BY <1>1, <1>3, <1>5, <1>6, <1>7 DEF ValueContext, ArgContext, Targets
<1>11. u.how = "return" =>
        ValueContext(w).problems = ValueContext(u).problems /\ ValueContext(w).links = ValueContext(u).links \ R
  BY <1>1, <1>3, <1>6, <1>7 DEF ValueContext, ResultContext, Targets
<1>12. u.how \in {"compare", "case"} =>
        ValueContext(w).problems = ValueContext(u).problems /\ ValueContext(w).links = ValueContext(u).links \ R
  BY <1>1, <1>5 DEF ValueContext
<1>13. u.how \in {"nil", "len", "alone", "lhs", "literal", "other", "modify", "range"} =>
        ValueContext(w).problems = ValueContext(u).problems /\ ValueContext(w).links = ValueContext(u).links \ R
  BY <1>1, <1>3 DEF ValueContext
<1>14. ValueContext(w).problems = ValueContext(u).problems /\ ValueContext(w).links = ValueContext(u).links \ R
  BY <1>7, <1>8, <1>9, <1>10, <1>11, <1>12, <1>13
<1>15. UseContext(w).problems = UseContext(u).problems /\ UseContext(w).links = UseContext(u).links \ R
  BY <1>1, <1>3, <1>14 DEF UseContext
<1> QED
  BY <1>1, <1>2, <1>14, <1>15 DEF w

(* What a site of the program has when the planner sees it.                *)
LEMMA SiteLeft ==
  ASSUME WellFormed(made), NEW p, NEW R, Left(p, R), NEW s \in DOMAIN p.sites
  PROVE  /\ s \in AllSites \ R /\ p.sites[s].mentions = made.sites[s].mentions \ R
         /\ p.sites[s].owner = made.sites[s].owner /\ p.sites[s].fit = made.sites[s].fit
         /\ p.sites[s].form = made.sites[s].form
<1>1. s \in AllSites \ R /\ p.sites[s] = Bare(made.sites[s], R)
  BY DEF Left
<1>2. made.sites[s] \in SiteType(HandlesOf(made), Nodes)
  BY <1>1 DEF WellFormed, Nodes, AllSites
<1> QED
  BY <1>1, <1>2, BareSite

LEMMA UseLeft ==
  ASSUME WellFormed(made), NEW p, NEW R, Left(p, R), NEW u \in made.uses, u.of \notin R
  PROVE  Stripped(u, R) \in UsesOf(p, u.of) /\ u \in UseType(Nodes)
<1>1. u \in UseType(Nodes)
  BY DEF WellFormed, Nodes, AllSites
<1>2. Stripped(u, R).of = u.of
  BY <1>1, StrippedUse
<1> QED
  BY <1>1, <1>2 DEF Left, UsesOf

(* Links go to sites and variables. *)
LEMMA LinksAmong ==
  ASSUME WellFormed(made)
  PROVE  /\ \A e \in Links(made) : e[1] \in Nodes /\ e[2] \in Nodes
         /\ \A s \in AllSites : \A x \in made.sites[s].mentions : <<s, x>> \in Links(made)
         /\ \A s \in AllSites : made.sites[s].owner # None => <<s, made.sites[s].owner>> \in Links(made)
<1>1. Within(made, made)
  BY DEF WellFormed, Within
<1>2. Links(made) \subseteq Nodes \X Nodes
  BY <1>1, LinksWithin DEF Nodes, AllSites
<1>3. \A s \in AllSites : \A x \in SiteLinks(made, s) : <<s, x>> \in Links(made)
  BY DEF Links, AllSites
<1> QED
  BY <1>2, <1>3 DEF SiteLinks

(* The links of what the planner sees are those of the program there.      *)
LEMMA LinksLeft ==
  ASSUME WellFormed(made), NEW p, NEW R, Left(p, R),
         NEW e \in Links(made), e[1] \notin R, e[2] \notin R
  PROVE  e \in Links(p)
<1>1. CASE \E s \in AllSites : \E x \in SiteLinks(made, s) : e = <<s, x>>
  <2>1. PICK s \in AllSites : \E x \in SiteLinks(made, s) : e = <<s, x>>
    BY <1>1
  <2>2. PICK x \in SiteLinks(made, s) : e = <<s, x>>
    BY <2>1
  <2>3. s \in DOMAIN p.sites /\ s \notin R /\ x \notin R
    BY <2>2 DEF Left
  <2>4. /\ p.sites[s].mentions = made.sites[s].mentions \ R
        /\ p.sites[s].owner = made.sites[s].owner /\ p.sites[s].fit = made.sites[s].fit
    BY <2>3, SiteLeft
  <2>5. ASSUME NEW u \in UsesOf(made, s), x \in SiteContext(made, u).links
        PROVE  \E w \in UsesOf(p, s) : x \in SiteContext(p, w).links
    <3>1. u \in made.uses /\ u.of = s
      BY DEF UsesOf
    <3>2. Stripped(u, R) \in UsesOf(p, s) /\ u \in UseType(Nodes)
      BY <2>3, <3>1, UseLeft
    <3> DEFINE w == Stripped(u, R)
    <3>3. w.of = s /\ ValueContext(w).links = ValueContext(u).links \ R
      BY <3>1, <3>2, StrippedUse
    <3> HIDE DEF w
    <3>4. made.sites[s].fit \in {"same", "different", "retyped"}
      BY SiteTypeFields DEF WellFormed, AllSites
    <3>5. Fine.links = {} /\ Review.links = {}
      BY DEF Fine, Review, Context
    <3>6. made.sites[s].fit = "retyped" /\ x \in ValueContext(u).links
      BY <2>5, <3>1, <3>4, <3>5 DEF SiteContext
    <3>7. x \in SiteContext(p, w).links
      BY <2>3, <2>4, <3>3, <3>6 DEF SiteContext
    <3> QED
      BY <3>2, <3>7 DEF w
  <2>6. x \in SiteLinks(p, s)
    BY <2>3, <2>4, <2>5 DEF SiteLinks
  <2> QED
    BY <2>2, <2>3, <2>6 DEF Links
<1>2. CASE \E v \in DOMAIN made.vars : \E x \in VarLinks(made, v) : e = <<v, x>>
  <2>1. PICK v \in DOMAIN made.vars : \E x \in VarLinks(made, v) : e = <<v, x>>
    BY <1>2
  <2>2. PICK x \in VarLinks(made, v) : e = <<v, x>>
    BY <2>1
  <2>3. v \in DOMAIN p.vars /\ v \notin R /\ x \notin R
    BY <2>2 DEF Left
  <2>4. PICK u \in UsesOf(made, v) : x \in UseContext(u).links
    BY DEF VarLinks
  <2>5. Stripped(u, R) \in UsesOf(p, v) /\ u \in UseType(Nodes)
    BY <2>3, UseLeft DEF UsesOf
  <2>6. x \in UseContext(Stripped(u, R)).links
    BY <2>3, <2>4, <2>5, StrippedUse
  <2>7. x \in VarLinks(p, v)
    BY <2>5, <2>6 DEF VarLinks
  <2> QED
    BY <2>2, <2>3, <2>7 DEF Links
<1> QED
  BY <1>1, <1>2 DEF Links, AllSites

(* A step on whole units leaves no link between what has changed type and  *)
(* what has not.                                                           *)
LEMMA UnitsApart ==
  ASSUME WellFormed(made), NEW p, Within(p, made), NEW R, Apart(R), Left(p, R),
         NEW gs \in SUBSET Groups(p)
  PROVE  /\ UNION gs \subseteq Nodes \ R /\ Apart(R \cup UNION gs)
         /\ \A g \in Groups(p) : g \cap UNION gs # {} => g \in gs
<1> DEFINE nodes == DOMAIN p.sites \cup DOMAIN p.vars
           classes == Classes(nodes, Links(p))
<1>1. Parts(classes, nodes) /\ \A e \in Links(p) : Together(classes, nodes, e)
  <2>1. IsFiniteSet(Links(p))
    BY LinksFinite
  <2> HIDE DEF nodes
  <2> QED
    BY <2>1, ClassesConnect
<1>2. gs \subseteq classes /\ Groups(p) \subseteq classes
  BY DEF Groups
<1>3. nodes = Nodes \ R
  BY DEF Left, Nodes
<1> HIDE DEF classes, nodes
<1>4. UNION gs \subseteq Nodes \ R /\ \A g \in Groups(p) : g \cap UNION gs # {} => g \in gs
  BY <1>1, <1>2, <1>3 DEF Parts
<1>5. ASSUME NEW e \in Links(made), e[1] \notin Adrift, e[2] \notin Adrift
      PROVE  e[1] \in R \cup UNION gs <=> e[2] \in R \cup UNION gs
  <2>1. e[1] \in Nodes /\ e[2] \in Nodes /\ (e[1] \in R <=> e[2] \in R)
    BY <1>5, LinksAmong DEF Apart
  <2>2. CASE e[1] \notin R
    <3>1. PICK c \in classes : e[1] \in c /\ e[2] \in c
      BY <1>1, <1>3, <2>1, <2>2, LinksLeft DEF Together
    <3> QED
      BY <1>1, <1>2, <2>1, <2>2, <3>1 DEF Parts
  <2> QED
    BY <2>1, <2>2
<1> QED
  BY <1>4, <1>5 DEF Apart

(* The variables of the units change type with their sites, but for those  *)
(* that are adrift.                                                        *)
LEMMA RetypedMore ==
  ASSUME WellFormed(made), NEW p, NEW q, NEW G \in SUBSET Nodes,
         Apart(Retyped(p) \cup G), \A s \in AllSites : s \in q.moved <=> s \in p.moved \/ s \in G
  PROVE  \A x \in Nodes \ Adrift : x \in Retyped(q) <=> x \in Retyped(p) \cup G
<1> DEFINE R == Retyped(p) \cup G
           V == {v \in DOMAIN made.vars \ Adrift : ~(v \in R <=> v \in Retyped(q))}
<1>1. \A s \in AllSites : s \in R <=> s \in Retyped(q)
  BY RetypedAlong
<1>2. ASSUME V # {} PROVE FALSE
  <2>1. PICK x \in V : made.vars[x] \notin V
    <3>1. V \in SUBSET DOMAIN made.vars
      OBVIOUS
    <3> HIDE DEF V
    <3> QED
      BY <1>2, <3>1 DEF WellFormed, Typed
  <2> DEFINE y == made.vars[x]
  <2>2. x \in DOMAIN made.vars /\ x \notin Adrift /\ ~(x \in R <=> x \in Retyped(q))
    OBVIOUS
  <2>3. y \in AllSites \cup DOMAIN made.vars /\ y \notin Adrift /\ <<y, x>> \in Links(made)
    BY <2>2, AdriftClosed DEF WellFormed, AllSites, Follows
  <2> HIDE DEF R
  <2>4. y \in R <=> y \in Retyped(q)
    BY <1>1, <2>1, <2>3
  <2>5. x \in Retyped(q) <=> y \in Retyped(q)
    BY <2>2, RetypedAlong
  <2>6. y \in R <=> x \in R
    <3>1. <<y, x>>[1] = y /\ <<y, x>>[2] = x
      OBVIOUS
    <3> HIDE DEF y
    <3> QED
      BY <2>2, <2>3, <3>1 DEF Apart, R
  <2> QED
    BY <2>2, <2>4, <2>5, <2>6
<1> HIDE DEF R
<1>3. ASSUME NEW x \in Nodes, x \notin Adrift PROVE x \in R <=> x \in Retyped(q)
  BY <1>1, <1>2, <1>3 DEF Nodes
<1> QED
  BY <1>3 DEF R

(* The planner sees what is left of the program as it was.               *)
LEMMA LoadedLeft ==
  ASSUME WellFormed(made), NEW p, DOMAIN p = DOMAIN made, Apart(Retyped(p))
  PROVE  /\ Left(Loaded(p), Retyped(p)) /\ Retyped(Loaded(p)) = Retyped(p)
         /\ Loaded(p).renamed = p.renamed /\ Loaded(p).checked = p.checked
<1> DEFINE R == Retyped(p)
           sites == [s \in AllSites \ R |-> [made.sites[s] EXCEPT
                       !.mentions = @ \ R, !.owner = IF @ \in R THEN None ELSE @]]
           typed == [x \in DOMAIN made.vars \ R |-> made.vars[x]]
           uses == {[u EXCEPT !.into = @ \ R, !.with = @ \ R] :
                      u \in {x \in made.uses : x.of \notin R}}
           q == Loaded(p)
<1>1. DOMAIN p = {"handles", "roots", "moves", "sites", "names", "vars", "uses", "sibs",
                   "sroots", "stwins", "keeps", "moved", "freed", "renamed", "checked"}
  BY DEF WellFormed
<1>2. q = [p EXCEPT !.sites = sites, !.vars = typed, !.uses = uses]
  BY DEF Loaded
<1>3. Apart(R) /\ R \subseteq Nodes
  BY RetypedAlong
<1> HIDE DEF R
<1>4. ASSUME NEW s \in AllSites \ R PROVE sites[s] = Bare(made.sites[s], R)
  <2> DEFINE c == made.sites[s]
  <2>1. c \in SiteType(HandlesOf(made), Nodes)
    BY DEF WellFormed, Nodes, AllSites
  <2>2. ASSUME c.owner # None PROVE c.owner \notin R
    <3>1. <<s, c.owner>> \in Links(made) /\ c.owner \in AllSites
      BY <2>2, LinksAmong DEF WellFormed, Typed, AllSites
    <3>2. <<s, c.owner>>[1] = s /\ <<s, c.owner>>[2] = c.owner
      OBVIOUS
    <3>3. s \notin Adrift /\ c.owner \notin Adrift
      BY <3>1, AdriftClosed
    <3> HIDE DEF c
    <3> QED
      BY <1>3, <3>1, <3>2, <3>3 DEF Apart
  <2>3. None \notin R
    BY <1>3 DEF WellFormed, Nodes, AllSites
  <2>4. c.owner \notin R
    BY <2>2, <2>3
  <2>5. sites[s] = [c EXCEPT !.mentions = c.mentions \ R, !.owner = IF c.owner \in R THEN None ELSE c.owner]
    OBVIOUS
  <2> HIDE DEF c, sites
  <2>6. sites[s] = [c EXCEPT !.mentions = c.mentions \ R, !.owner = c.owner]
    BY <2>4, <2>5
  <2>7. sites[s] = Bare(c, R)
    BY <2>1, <2>6 DEF SiteType, Bare
  <2> QED
    BY <2>7 DEF c
<1>5. uses = {Stripped(u, R) : u \in {x \in made.uses : x.of \notin R}}
  BY DEF Stripped
<1>6. DOMAIN sites = AllSites \ R /\ DOMAIN typed = DOMAIN made.vars \ R
  OBVIOUS
<1> HIDE DEF sites, typed, uses, q
<1>7. /\ q.sites = sites /\ q.vars = typed /\ q.uses = uses
      /\ q.moved = p.moved /\ q.renamed = p.renamed /\ q.checked = p.checked
  BY <1>1, <1>2
<1>8. Left(q, R)
  BY <1>4, <1>5, <1>6, <1>7 DEF Left
<1>9. Retyped(q) = R
  <2>1. \A s \in AllSites : s \in R <=> s \in q.moved
    BY <1>7, RetypedAlong DEF R
  <2>2. \A v \in DOMAIN made.vars : v \in R <=> made.vars[v] \in R
    BY RetypedAlong DEF R
  <2> QED
    BY <1>3, <2>1, <2>2, RetypedIs
<1> QED
  BY <1>7, <1>8, <1>9 DEF q, R

(* What agrees does so when more has changed type or was reviewed.       *)
LEMMA AgreesMore ==
  ASSUME NEW p, NEW q, NEW u, NEW R, NEW R2, R \subseteq R2 \cup Adrift,
         p.checked \subseteq q.checked, p.renamed \subseteq q.renamed, Agrees(p, u, R)
  PROVE  Agrees(q, u, R2)
BY DEF Agrees

(* A step that moves whole units and leaves their uses in agreement. *)
LEMMA UnitsMove ==
  ASSUME WellFormed(made), Within(code, made), ValuesInv(code),
         NEW gs \in SUBSET Groups(code), NEW q, DOMAIN q = DOMAIN made,
         q.moved = code.moved \cup SitesIn(code, UNION gs),
         code.renamed \subseteq q.renamed, code.checked \subseteq q.checked,
         q.renamed \subseteq code.renamed \cup {u \in code.uses : u.of \in UNION gs},
         \A u \in made.uses : u.of \in UNION gs /\ u.of \notin Adrift =>
           Agrees(q, u, Retyped(code) \cup UNION gs)
  PROVE  ValuesInv(Loaded(q))
<1> DEFINE G == UNION gs
           R == Retyped(code)
           R2 == Retyped(q)
<1>1. Apart(R) /\ Left(code, R) /\ Reviewed(code, R)
  BY DEF ValuesInv
<1>2. G \subseteq Nodes \ R /\ Apart(R \cup G)
  <2> HIDE DEF R
  <2> QED
    BY <1>1, UnitsApart
<1>3. R \subseteq Nodes /\ R2 \subseteq Nodes
  BY RetypedAlong
<1>4. \A x \in Nodes \ Adrift : x \in R2 <=> x \in R \cup G
  <2>1. \A s \in AllSites : s \in q.moved <=> s \in code.moved \/ s \in G
    BY <1>1, <1>2, RetypedAlong DEF SitesIn, Left
  <2> HIDE DEF G
  <2> QED
    BY <1>2, <2>1, RetypedMore
<1> HIDE DEF R, G
<1>5. Apart(R2)
  BY <1>2, <1>4, LinksAmong DEF Apart
<1>6. /\ Left(Loaded(q), R2) /\ Retyped(Loaded(q)) = R2
      /\ Loaded(q).renamed = q.renamed /\ Loaded(q).checked = q.checked
  BY <1>5, LoadedLeft
<1> HIDE DEF R2
<1>7. ASSUME NEW u \in made.uses, u.of \notin Adrift
      PROVE  /\ u.of \in R2 => Agrees(Loaded(q), u, R2)
             /\ u \in Loaded(q).renamed => u.of \in R2
  <2>1. u.of \in Nodes
    BY DEF WellFormed, UseType, Nodes, AllSites
  <2>2. u.of \in R2 <=> u.of \in R \cup G
    BY <1>4, <1>7, <2>1
  <2>3. CASE u.of \in R
    <3>1. Agrees(code, u, R)
      BY <1>1, <1>7, <2>3 DEF Reviewed
    <3>2. R \subseteq R2 \cup Adrift
      BY <1>3, <1>4
    <3>3. Agrees(Loaded(q), u, R2)
      BY <1>6, <3>1, <3>2, AgreesMore
    <3> QED
      BY <2>2, <2>3, <3>3
  <2>4. CASE u.of \in G
    <3>1. Agrees(q, u, R \cup G)
      BY <1>7, <2>4 DEF R, G
    <3>2. R \cup G \subseteq R2 \cup Adrift
      BY <1>2, <1>3, <1>4
    <3>3. Agrees(Loaded(q), u, R2)
      BY <1>6, <3>1, <3>2, AgreesMore
    <3> QED
      BY <2>2, <2>4, <3>3
  <2>5. u \in Loaded(q).renamed => u.of \in R \cup G
    BY <1>1, <1>6, <1>7 DEF Reviewed, G
  <2> QED
    BY <2>2, <2>3, <2>4, <2>5
<1> QED
  BY <1>5, <1>6, <1>7 DEF ValuesInv, Reviewed

-----------------------------------------------------------------------------
(* What a machine step's sites are. *)

(* A use of a value without problems is of a place that holds either type. *)
LEMMA ValueFits ==
  ASSUME NEW N, NEW u \in UseType(N)
  PROVE  /\ ValueContext(u).problems \subseteq Guided /\ UseContext(u).problems \subseteq Guided
         /\ ValueContext(u).problems = {} =>
              /\ u.how = "select" => u.target \in {"same", "renamed"}
              /\ u.how \in {"assign", "arg", "return"} => u.target \in {"legacy", "interface"}
              /\ u.how \notin {"modify", "other", "range"}
<1>1. /\ u.target \in Targets(u.how)
      /\ u.how \in {"nil", "len", "alone", "lhs", "select", "assign", "literal", "compare",
                    "case", "arg", "return", "range", "modify", "other"}
  BY DEF UseType
<1>2. Fine.problems = {} /\ Review.problems = Guided /\ Guided # {}
      /\ Context(u.into, {}).problems = {} /\ LinkOperand(u).problems = {}
  BY DEF Fine, Review, Context, LinkOperand, Guided
<1>3. /\ u.target \in {"legacy", "interface"} => AddLink(u).problems = {}
      /\ u.target = "other" => AddLink(u).problems = Guided
  BY <1>2 DEF AddLink
<1>4. u.how = "select" => /\ u.target \in {"same", "renamed", "missing"}
                          /\ ValueContext(u).problems = IF u.target = "missing" THEN Guided ELSE {}
  BY <1>1, <1>2 DEF Targets, ValueContext, FieldSelection
<1>5. u.how = "assign" =>
        /\ u.target \in {"legacy", "interface", "other", "call"}
        /\ ValueContext(u).problems = IF u.target \in {"legacy", "interface"} THEN {} ELSE Guided
  BY <1>1, <1>2, <1>3 DEF Targets, ValueContext, LinkLHS
<1>6. u.how = "arg" =>
        /\ u.target \in {"legacy", "interface", "other"}
        /\ ValueContext(u).problems = IF u.target \in {"legacy", "interface"} THEN {} ELSE Guided
  BY <1>1, <1>2, <1>3 DEF Targets, ValueContext, ArgContext
<1>7. u.how = "return" =>
        /\ u.target \in {"legacy", "interface", "other", "none"}
        /\ ValueContext(u).problems = IF u.target \in {"legacy", "interface"} THEN {} ELSE Guided
  BY <1>1, <1>2, <1>3 DEF Targets, ValueContext, ResultContext
<1>8. u.how \in {"other", "modify", "range"} => ValueContext(u).problems = Guided
  BY <1>2 DEF ValueContext
<1>9. u.how \in {"nil", "len", "alone", "lhs", "literal", "compare", "case"} => ValueContext(u).problems = {}
  BY <1>2 DEF ValueContext
<1> QED
  BY <1>1, <1>2, <1>4, <1>5, <1>6, <1>7, <1>8, <1>9 DEF UseContext

(* A class is "mechanical" only without problems. *)
LEMMA MechanicalIs ==
  ASSUME NEW P, P \subseteq {"guided", "unmapped"}, NEW asks, Settled(P, asks) = "mechanical"
  PROVE  P = {}
<1>1. "unmapped" \notin P
  BY DEF Settled
<1>2. P = {} \/ P = {"guided"}
  BY <1>1
<1> QED
  BY <1>1, <1>2 DEF Settled, Guided

(* The problems of a site, and what a site without any is.               *)
LEMMA ProblemsKnown ==
  ASSUME NEW H, NEW N, NEW p, NEW T, NEW s \in DOMAIN p.sites,
         p.sites[s] \in SiteType(H, N), p.uses \subseteq UseType(N)
  PROVE  /\ ContextProblems(p, s) \subseteq Guided
         /\ Problems(p, T, s) \subseteq {"guided", "unmapped"}
         /\ Problems(p, T, s) = {} =>
              /\ p.sites[s].form \in {"call", "literal", "ref", "decl"}
              /\ p.sites[s].form # "decl" => ContextProblems(p, s) = {}
<1> DEFINE c == p.sites[s]
<1>1. /\ c.form \in {"call", "message", "literal", "decl", "ref"}
      /\ c.entry \in {"call", "unmapped", "guided", "outside"}
      /\ c.opts \subseteq OptionKinds
      /\ c.deps \subseteq {"call", "same", "unmapped", "guided", "outside"}
      /\ c.fit \in {"same", "different", "retyped"}
  BY DEF SiteType
<1>2. ContextProblems(p, s) \subseteq Guided
  <2> SUFFICES ASSUME NEW u \in p.uses, u.of = s PROVE SiteContext(p, u).problems \subseteq Guided
    BY DEF ContextProblems, UsesOf
  <2>1. ValueContext(u).problems \subseteq Guided
    BY ValueFits
  <2>2. Fine.problems = {} /\ Review.problems = Guided
    BY DEF Fine, Review, Context
  <2> QED
    BY <1>1, <2>1, <2>2 DEF SiteContext
<1> HIDE DEF c
<1>3. /\ Options(c.opts) \subseteq {"guided", "unmapped"}
      /\ (UNION {Dependent(e) : e \in c.deps}) \subseteq {"guided", "unmapped"}
  BY <1>1 DEF Options, OptionKinds, MapOption, Dependent, Guided, Unmapped
<1>4. /\ CallProblems(p, T, s) \subseteq {"guided", "unmapped"}
      /\ CallProblems(p, T, s) = {} => ContextProblems(p, s) = {}
  BY <1>2, <1>3 DEF CallProblems, RecvProblems, When, Guided, c
<1>5. /\ MessageProblems(p, s) \subseteq {"guided", "unmapped"} /\ MessageProblems(p, s) # {}
      /\ DeclProblems(p, s) \subseteq {"guided", "unmapped"}
  BY DEF MessageProblems, DeclProblems, When, Guided, Unmapped
<1>6. /\ LiteralProblems(p, s) \cup RefProblems(p, s) \subseteq {"guided", "unmapped"}
      /\ LiteralProblems(p, s) = {} => ContextProblems(p, s) = {}
      /\ RefProblems(p, s) = {} => ContextProblems(p, s) = {}
  BY <1>2 DEF LiteralProblems, RefProblems, When, Guided
<1>7. CASE c.entry # "call"
  BY <1>1, <1>2, <1>7 DEF Problems, Guided, Unmapped, c
<1>8. CASE c.entry = "call"
  <2>1. c.form = "call" => Problems(p, T, s) = CallProblems(p, T, s)
    BY <1>8 DEF Problems, c
  <2>2. c.form = "message" => Problems(p, T, s) = MessageProblems(p, s)
    BY <1>8 DEF Problems, c
  <2>3. c.form = "literal" => Problems(p, T, s) = LiteralProblems(p, s)
    BY <1>8 DEF Problems, c
  <2>4. c.form = "decl" => Problems(p, T, s) = DeclProblems(p, s)
    BY <1>8 DEF Problems, c
  <2>5. c.form = "ref" => Problems(p, T, s) = RefProblems(p, s)
    BY <1>8 DEF Problems, c
  <2> QED
    BY <1>1, <1>2, <1>4, <1>5, <1>6, <2>1, <2>2, <2>3, <2>4, <2>5 DEF c
<1> QED
  BY <1>2, <1>7, <1>8

(* The values of the site are of the same type, or all it needs is linked. *)
Smooth(s) ==
  made.sites[s].fit = "same" \/ \A u \in UsesOf(code, s) : SiteContext(code, u).problems = {}

(* What a unit's step says when it carries edits. *)
Ready(g) ==
  /\ \A s \in {x \in SitesIn(code, g) : code.sites[x].owner = None} : view.class[s] = "mechanical"
  /\ Facts(code, g) = {}

VInv == IInv /\ ValuesInv(code)

(* A site is rewritten by itself only when nothing stands in the way.    *)
LEMMA NoProblems ==
  ASSUME VInv, NEW s \in DOMAIN code.sites, NEW T, Problems(code, T, s) = {}
  PROVE  Smooth(s)
<1>1. WellFormed(made) /\ Within(code, made) /\ Left(code, Retyped(code))
  BY DEF VInv, IInv, CodeInv, Migrating, ValuesInv
<1>2. /\ code.sites[s].form = made.sites[s].form /\ code.sites[s].fit = made.sites[s].fit
      /\ s \in DOMAIN made.sites
  BY <1>1, SiteLeft DEF AllSites
<1>3. code.sites[s].form = "decl" => made.sites[s].fit = "same"
  BY <1>1, <1>2 DEF WellFormed, Typed
<1>4. code.sites[s].form # "decl" => ContextProblems(code, s) = {}
  <2>1. code.sites[s] \in SiteType(HandlesOf(made), Nodes) /\ code.uses \subseteq UseType(Nodes)
    BY <1>1 DEF Within, Nodes, AllSites
  <2> QED
    BY <2>1, ProblemsKnown
<1> QED
  BY <1>3, <1>4 DEF Smooth, ContextProblems

(* The sites of a unit that carries edits are all mechanical. *)
LEMMA ReadySites ==
  ASSUME VInv, NEW g \in view.groups, Ready(g)
  PROVE  \A s \in SitesIn(code, g) : view.class[s] = "mechanical" /\ Smooth(s)
<1>1. /\ WellFormed(made) /\ Within(code, made)
      /\ Left(code, Retyped(code)) /\ Apart(Retyped(code))
      /\ view.class = ClassOf(code, Threadable(code), answers) /\ view.groups = Groups(code)
  BY DEF VInv, IInv, CodeInv, PlanInv, Migrating, ValuesInv, View
<1> DEFINE R == Retyped(code)
           T == Threadable(code)
           problems(s) == Problems(code, T, s) \cup HandlerProblems(code, T, answers, s)
           own(s) == Settled(problems(s), Asks(code, answers, s))
<1>2. \A s \in DOMAIN code.sites : code.sites[s].owner = made.sites[s].owner /\ s \in AllSites \ R
  <2> HIDE DEF R
  <2> QED
    BY <1>1, SiteLeft DEF R
<1>3. \A s \in DOMAIN code.sites :
        /\ code.sites[s] \in SiteType(HandlesOf(made), Nodes)
        /\ Problems(code, T, s) \subseteq {"guided", "unmapped"}
        /\ HandlerProblems(code, T, answers, s) \subseteq {"guided", "unmapped"}
  <2>1. (\A s \in DOMAIN code.sites : code.sites[s] \in SiteType(HandlesOf(made), Nodes))
        /\ code.uses \subseteq UseType(Nodes)
    BY <1>1 DEF Within, Nodes, AllSites
  <2>2. \A s \in DOMAIN code.sites : Problems(code, T, s) \subseteq {"guided", "unmapped"}
    BY <2>1, ProblemsKnown
  <2> QED
    BY <2>1, <2>2 DEF HandlerProblems, When, Guided
<1>4. \A s \in DOMAIN code.sites :
        view.class[s] = IF code.sites[s].owner = None THEN own(s) ELSE own(code.sites[s].owner)
  BY <1>1 DEF ClassOf
<1>5. ASSUME NEW s \in DOMAIN code.sites, own(s) = "mechanical"
      PROVE  Problems(code, T, s) = {} /\ HandlerProblems(code, T, answers, s) = {}
  <2>1. Problems(code, T, s) \cup HandlerProblems(code, T, answers, s) = {}
    BY <1>3, <1>5, MechanicalIs
  <2> QED
    BY <2>1
<1> HIDE DEF own, R, T
<1>6. ASSUME NEW s \in SitesIn(code, g), code.sites[s].owner = None
      PROVE  view.class[s] = "mechanical" /\ own(s) = "mechanical" /\ Smooth(s)
  <2>1. view.class[s] = "mechanical" /\ s \in DOMAIN code.sites
    BY <1>6 DEF Ready, SitesIn
  <2> QED
    BY <1>4, <1>5, <1>6, <2>1, NoProblems
<1>7. ASSUME NEW s \in SitesIn(code, g), code.sites[s].owner # None
      PROVE  view.class[s] = "mechanical" /\ Smooth(s)
  <2> DEFINE o == code.sites[s].owner
  <2>1. s \in DOMAIN code.sites /\ o = made.sites[s].owner /\ s \in AllSites \ R /\ s \in g
    BY <1>2 DEF SitesIn
  <2>2. o \in AllSites /\ made.sites[o].owner = None
    BY <1>1, <1>7, <2>1 DEF WellFormed, Typed, AllSites
  <2>3. <<s, o>> \in Links(made)
    BY <1>1, <1>7, <2>1, LinksAmong
  <2>4. <<s, o>> \in Links(code) /\ o \notin R
    <3>1. <<s, o>>[1] = s /\ <<s, o>>[2] = o
      OBVIOUS
    <3>2. s \notin Adrift /\ o \notin Adrift
      BY <1>1, <2>1, <2>2, AdriftClosed
    <3> HIDE DEF o
    <3>3. o \notin R /\ s \notin R
      BY <1>1, <2>1, <2>3, <3>1, <3>2 DEF Apart, R
    <3> QED
      BY <1>1, <2>3, <3>1, <3>3, LinksLeft DEF R
  <2>5. o \in DOMAIN code.sites
    BY <1>1, <2>2, <2>4 DEF Left, R
  <2> HIDE DEF o
  <2>6. o \in g
    <3> DEFINE nodes == DOMAIN code.sites \cup DOMAIN code.vars
               classes == Classes(nodes, Links(code))
    <3>1. IsFiniteSet(Links(code))
      BY <1>1, LinksFinite
    <3> HIDE DEF nodes
    <3>2. Parts(classes, nodes) /\ Together(classes, nodes, <<s, o>>)
      BY <2>4, <3>1, ClassesConnect
    <3>3. s \in nodes /\ o \in nodes
      BY <2>1, <2>5 DEF nodes
    <3>4. g \in classes
      BY <1>1 DEF Groups, nodes
    <3> HIDE DEF classes
    <3>5. PICK c \in classes : s \in c /\ o \in c
      BY <3>2, <3>3 DEF Together
    <3> QED
      BY <2>1, <3>2, <3>4, <3>5 DEF Parts
  <2>7. own(o) = "mechanical" /\ code.sites[o].owner = None
    BY <1>2, <1>6, <2>2, <2>5, <2>6 DEF SitesIn
  <2>8. view.class[s] = "mechanical"
    BY <1>4, <1>7, <2>1, <2>7 DEF o
  <2>9. FitsIn(code, T, answers, s, o)
    <3>1. HandlerProblems(code, T, answers, o) = {}
      BY <1>5, <2>5, <2>7
    <3> QED
      BY <2>1, <3>1 DEF HandlerProblems, When, Guided, o
  <2>10. CASE code.sites[s].form = "message"
    <3>1. \A u \in UsesOf(code, s) : SiteContext(code, u) = Fine
      BY <2>9, <2>10 DEF FitsIn
    <3>2. Fine.problems = {}
      BY DEF Fine, Context
    <3> QED
      BY <2>8, <3>1, <3>2 DEF Smooth
  <2>11. CASE code.sites[s].form # "message"
    <3>1. Settled(Problems(code, T, s), Asks(code, answers, s)) = "mechanical"
      BY <2>9, <2>11 DEF FitsIn
    <3>2. Problems(code, T, s) = {}
      BY <1>3, <2>1, <3>1, MechanicalIs
    <3> QED
      BY <2>1, <2>8, <3>2, NoProblems
  <2> QED
    BY <2>10, <2>11
<1> QED
  BY <1>6, <1>7

(* A value that goes somewhere without problems is linked with where it    *)
(* goes and what it is used with.                                          *)
LEMMA AllLinked ==
  ASSUME NEW N, NEW u \in UseType(N), Located(u)
  PROVE  /\ ValueContext(u).problems = {} => ValueContext(u).links = u.into \cup u.with
         /\ u.how = "range" => UseContext(u).links = u.into
<1>1. /\ u.target \in Targets(u.how) /\ u.into \cup {} = u.into /\ {} \cup u.with = u.with
      /\ u.how \in {"nil", "len", "alone", "lhs", "select", "assign", "literal", "compare",
                    "case", "arg", "return", "range", "modify", "other"}
  BY DEF UseType
<1>2. /\ Fine.links = {} /\ Review.problems = Guided /\ Guided # {}
      /\ \A L, P : Context(L, P).links = L /\ Context(L, P).problems = P
  BY DEF Fine, Review, Context, Guided
<1>3. u.how = "range" => UseContext(u).links = u.into
  BY <1>2 DEF UseContext
<1>4. CASE u.how \in {"nil", "len", "alone", "lhs", "select"}
  <2>1. u.into \cup u.with = {}
    BY <1>4 DEF Located
  <2>2. ValueContext(u).problems = {} => ValueContext(u).links = {}
    BY <1>2, <1>4 DEF ValueContext, FieldSelection
  <2> QED
    BY <1>3, <2>1, <2>2
<1>5. CASE u.how \in {"literal", "compare", "case"}
  BY <1>1, <1>2, <1>3, <1>5 DEF ValueContext, LinkOperand, Located
<1>6. CASE u.how \in {"assign", "arg", "return"}
  <2>1. u.target \in {"legacy", "interface", "other", "none", "call"}
    BY <1>1, <1>6 DEF Targets
  <2>2. CASE u.target = "legacy"
    BY <1>1, <1>2, <1>3, <1>6, <2>2 DEF ValueContext, LinkLHS, ArgContext, ResultContext, AddLink, Located
  <2>3. CASE u.target = "interface"
    <3>1. u.into = {} /\ (u.how # "arg" => u.with = {})
      BY <1>6, <2>3 DEF Located
    <3> QED
      BY <1>1, <1>2, <1>3, <1>6, <2>3, <3>1
      DEF ValueContext, LinkLHS, ArgContext, ResultContext, AddLink, LinkOperand
  <2>4. CASE u.target \in {"other", "none", "call"}
    BY <1>1, <1>2, <1>3, <1>6, <2>4 DEF ValueContext, LinkLHS, ArgContext, ResultContext, AddLink, Targets
  <2> QED
    BY <2>1, <2>2, <2>3, <2>4
<1>7. CASE u.how \in {"range", "modify", "other"}
  BY <1>2, <1>3, <1>7 DEF ValueContext
<1> QED
  BY <1>1, <1>4, <1>5, <1>6, <1>7

(* The uses of the values of such units agree once they are migrated.      *)
LEMMA ReadyAgrees ==
  ASSUME VInv, NEW gs \in SUBSET view.groups, \A g \in gs : Ready(g),
         NEW q, RenamedIn(code, UNION gs) \subseteq q.renamed,
         NEW u \in made.uses, u.of \in UNION gs, u.of \notin Adrift
  PROVE  Agrees(q, u, Retyped(code) \cup UNION gs)
<1> DEFINE R == Retyped(code)
           G == UNION gs
           w == Stripped(u, R)
<1>1. /\ WellFormed(made) /\ Within(code, made)
      /\ Left(code, R) /\ Apart(R) /\ view.groups = Groups(code)
  BY DEF VInv, IInv, CodeInv, PlanInv, Migrating, ValuesInv, View
<1>2. G \subseteq Nodes \ R /\ Apart(R \cup G)
  <2>1. gs \in SUBSET Groups(code)
    BY <1>1
  <2> HIDE DEF R
  <2> QED
    BY <1>1, <2>1, UnitsApart
<1>3. u \in UseType(Nodes) /\ u.of \in Nodes \ R /\ Located(u)
  BY <1>1, <1>2 DEF WellFormed, Typed, Nodes, AllSites
<1>4. w \in code.uses /\ w \in UsesOf(code, u.of)
  <2> HIDE DEF R
  <2> QED
    BY <1>1, <1>3, UseLeft DEF UsesOf, R
<1>5. /\ w.of = u.of /\ w.how = u.how /\ w.target = u.target
      /\ ValueContext(w).problems = ValueContext(u).problems
      /\ UseContext(w).problems = UseContext(u).problems
      /\ u.into \cup u.with = {} => w = u
  BY <1>3, StrippedUse
<1>6. u.how = "select" /\ u.target = "renamed" => u \in q.renamed
  <2>1. u.how = "select" => w = u
    BY <1>3, <1>5 DEF Located
  <2> QED
    BY <1>4, <2>1 DEF RenamedIn
<1>7. PICK g \in gs : u.of \in g
  OBVIOUS
<1>0. SUFFICES Agrees(q, u, R \cup G)
  OBVIOUS
<1> HIDE DEF R, G, w
<1>8. ASSUME NEW x \in u.into \cup u.with, <<u.of, x>> \in Links(made)
      PROVE  x \in R \cup G \cup Adrift
  <2>1. <<u.of, x>>[1] = u.of /\ <<u.of, x>>[2] = x /\ u.of \in R \cup G
    BY DEF G
  <2> QED
    BY <1>2, <1>8, <2>1 DEF Apart
<1>9. ASSUME ValueContext(u).problems = {}, u.of \notin AllSites \/ made.sites[u.of].fit = "retyped"
      PROVE  Agrees(q, u, R \cup G)
  <2>1. /\ ~(u.of \in AllSites /\ made.sites[u.of].fit = "different")
        /\ u.how = "select" => u.target = "same" \/ (u.target = "renamed" /\ u \in q.renamed)
        /\ u.how \in {"assign", "arg", "return"} => u.target \in {"legacy", "interface"}
        /\ u.how \notin {"modify", "other", "range"}
    BY <1>3, <1>6, <1>9, ValueFits
  <2>2. ASSUME NEW x \in u.into \cup u.with PROVE <<u.of, x>> \in Links(made)
    <3>1. x \in ValueContext(u).links /\ u \in UsesOf(made, u.of)
      BY <1>3, <1>9, AllLinked DEF UsesOf
    <3>2. CASE u.of \in AllSites
      <4>1. x \in SiteContext(made, u).links
        BY <1>9, <3>1, <3>2 DEF SiteContext
      <4> QED
        BY <3>1, <3>2, <4>1 DEF Links, SiteLinks, AllSites
    <3>3. CASE u.of \notin AllSites
      <4>1. x \in UseContext(u).links /\ u.of \in DOMAIN made.vars
        BY <1>3, <2>1, <3>1, <3>3 DEF UseContext, Nodes
      <4> QED
        BY <3>1, <4>1 DEF Links, VarLinks
    <3> QED
      BY <3>2, <3>3
  <2>3. u.into \cup u.with \subseteq R \cup G \cup Adrift
    BY <1>8, <2>2
  <2> QED
    BY <2>1, <2>3 DEF Agrees
<1>10. CASE u.of \in AllSites
  <2>1. u.of \in DOMAIN code.sites /\ code.sites[u.of].fit = made.sites[u.of].fit
    <3>1. u.of \in DOMAIN code.sites
      BY <1>1, <1>3, <1>10 DEF Left
    <3> QED
      BY <1>1, <3>1, SiteLeft
  <2>2. Smooth(u.of)
    BY <1>7, <2>1, ReadySites DEF SitesIn
  <2>3. CASE made.sites[u.of].fit = "same"
    BY <1>10, <2>3 DEF Agrees
  <2>4. CASE made.sites[u.of].fit # "same"
    <3>1. SiteContext(code, w).problems = {}
      BY <1>4, <2>2, <2>4 DEF Smooth
    <3>2. made.sites[u.of].fit \in {"different", "retyped"}
      BY <1>1, <1>10, <2>4, SiteTypeFields DEF WellFormed, AllSites
    <3>3. CASE made.sites[u.of].fit = "different"
      <4>1. u.how = "alone"
        <5>1. Review.problems = Guided /\ Guided # {}
          BY DEF Review, Context, Guided
        <5> QED
          BY <1>5, <2>1, <3>1, <3>3, <5>1 DEF SiteContext
      <4> QED
        BY <4>1 DEF Agrees
    <3>4. CASE made.sites[u.of].fit = "retyped"
      <4>1. ValueContext(u).problems = {}
        BY <1>5, <2>1, <3>1, <3>4 DEF SiteContext
      <4> QED
        BY <1>9, <3>4, <4>1
    <3> QED
      BY <3>2, <3>3, <3>4
  <2> QED
    BY <2>3, <2>4
<1>11. CASE u.of \notin AllSites
  <2>1. u.of \in DOMAIN code.vars /\ u.of \in DOMAIN made.vars
    BY <1>1, <1>3, <1>11 DEF Left, Nodes
  <2>2. UseContext(u).problems = {}
    BY <1>4, <1>5, <1>7, <2>1 DEF Ready, Facts
  <2>3. CASE u.how # "range"
    BY <1>9, <1>11, <2>2, <2>3 DEF UseContext
  <2>4. CASE u.how = "range"
    <3>1. UseContext(u).links = u.into /\ u \in UsesOf(made, u.of)
      BY <1>3, <2>4, AllLinked DEF UsesOf
    <3>2. \A x \in u.into : <<u.of, x>> \in Links(made)
      BY <2>1, <3>1 DEF Links, VarLinks
    <3>3. u.with = {}
      BY <1>3, <2>4 DEF Located
    <3>4. u.into \cup u.with \subseteq R \cup G \cup Adrift
      BY <1>8, <3>2, <3>3
    <3> QED
      BY <1>11, <2>4, <3>4 DEF Agrees
  <2> QED
    BY <2>3, <2>4
<1> QED
  BY <1>10, <1>11

-----------------------------------------------------------------------------
(* The steps of the specification keep it. *)

(* The units that hold a unit's sites are that unit. *)
LEMMA UnitsOfSites ==
  ASSUME VInv, NEW gs \in SUBSET view.groups
  PROVE  UNION {g \in view.groups : g \cap SitesIn(code, UNION gs) # {}} = UNION gs
<1>1. /\ WellFormed(made) /\ Within(code, made)
      /\ Left(code, Retyped(code)) /\ Apart(Retyped(code)) /\ view.groups = Groups(code)
  BY DEF VInv, IInv, CodeInv, PlanInv, Migrating, ValuesInv, View
<1>2. \A g \in view.groups : g \cap UNION gs # {} => g \in gs
  <2>1. gs \in SUBSET Groups(code)
    BY <1>1
  <2>2. \A g \in Groups(code) : g \cap UNION gs # {} => g \in gs
    BY <1>1, <2>1, UnitsApart
  <2> QED
    BY <1>1, <2>2
<1>3. \A g \in view.groups : g \cap DOMAIN code.sites # {}
  BY <1>1 DEF Groups
<1>4. ASSUME NEW g \in view.groups PROVE g \cap SitesIn(code, UNION gs) # {} <=> g \in gs
  <2>1. CASE g \in gs
    BY <1>3, <2>1 DEF SitesIn
  <2>2. CASE g \notin gs
    BY <1>2, <2>2 DEF SitesIn
  <2> QED
    BY <2>1, <2>2
<1> QED
  BY <1>4

(* What is noted of the uses of values, of which the edits of siblings and *)
(* handles change nothing.                                                 *)
Noted(q, p) == q.moved = p.moved /\ q.renamed = p.renamed /\ q.checked = p.checked

LEMMA AddNoted ==
  ASSUME WellFormed(made), NEW p, Within(p, made), NEW v, NEW C, NEW byHand
  PROVE  Noted(AddHandles(p, v, C, byHand), p) /\ DOMAIN AddHandles(p, v, C, byHand) = DOMAIN made
BY DEF WellFormed, Within, AddHandles, Noted

LEMMA FinishNoted ==
  ASSUME WellFormed(made), NEW p, Within(p, made), NEW v, NEW C
  PROVE  Noted(Finish(p, v, C), p) /\ DOMAIN Finish(p, v, C) = DOMAIN made
BY DEF WellFormed, Within, Finish, Noted

LEMMA MoveNoted ==
  ASSUME WellFormed(made), NEW p, Within(p, made), NEW S, NEW g
  PROVE  /\ MoveSites(p, S, g).moved = p.moved \cup S
         /\ MoveSites(p, S, g).renamed = p.renamed \cup RenamedIn(p, g)
         /\ MoveSites(p, S, g).checked = p.checked /\ DOMAIN MoveSites(p, S, g) = DOMAIN made
<1> DEFINE moved == p.moved \cup S
           renamed == p.renamed \cup RenamedIn(p, g)
<1>1. MoveSites(p, S, g) = [p EXCEPT !.moved = moved, !.renamed = renamed]
  BY DEF MoveSites
<1> HIDE DEF moved, renamed
<1>2. /\ MoveSites(p, S, g).moved = moved /\ MoveSites(p, S, g).renamed = renamed
      /\ MoveSites(p, S, g).checked = p.checked /\ DOMAIN MoveSites(p, S, g) = DOMAIN made
  BY <1>1 DEF WellFormed, Within
<1> QED
  BY <1>2 DEF moved, renamed

(* A step that migrates nothing. *)
LEMMA NotedKeeps ==
  ASSUME VInv, NEW q, DOMAIN q = DOMAIN made, Noted(q, code)
  PROVE  ValuesInv(Loaded(q))
<1> DEFINE none == {}
<1>1. WellFormed(made) /\ Within(code, made) /\ ValuesInv(code)
  BY DEF VInv, IInv, CodeInv, Migrating
<1>2. none \in SUBSET Groups(code) /\ UNION none = {}
  OBVIOUS
<1>3. q.moved = code.moved \cup SitesIn(code, UNION none)
  BY <1>2 DEF Noted, SitesIn
<1>4. code.renamed \subseteq q.renamed /\ code.checked \subseteq q.checked /\ q.renamed \subseteq code.renamed
  BY DEF Noted
<1> HIDE DEF none
<1>5. \A u \in made.uses : u.of \in UNION none => Agrees(q, u, Retyped(code) \cup UNION none)
  BY <1>2
<1> QED
  BY <1>1, <1>2, <1>3, <1>4, <1>5, UnitsMove

(* A step that rewrites units that carry edits. *)
LEMMA ReadyMove ==
  ASSUME VInv, NEW gs \in SUBSET view.groups, \A g \in gs : Ready(g), NEW q, DOMAIN q = DOMAIN made,
         q.moved = code.moved \cup SitesIn(code, UNION gs), q.checked = code.checked,
         q.renamed = code.renamed \cup RenamedIn(code, UNION gs)
  PROVE  ValuesInv(Loaded(q))
<1>1. /\ WellFormed(made) /\ Within(code, made) /\ ValuesInv(code)
      /\ gs \in SUBSET Groups(code)
  BY DEF VInv, IInv, CodeInv, PlanInv, Migrating, View
<1>2. \A u \in made.uses : u.of \in UNION gs /\ u.of \notin Adrift =>
        Agrees(q, u, Retyped(code) \cup UNION gs)
  BY ReadyAgrees
<1>3. RenamedIn(code, UNION gs) \subseteq {u \in code.uses : u.of \in UNION gs}
  BY DEF RenamedIn
<1> QED
  BY <1>1, <1>2, <1>3, UnitsMove

(* A unit's step with edits lists its sites. *)
LEMMA ReadyStep ==
  ASSUME VInv, NEW g \in view.groups, NEW C, NEW wait,
         UnitStep(code, view, C, g, wait).kind = "site", UnitStep(code, view, C, g, wait).machine
  PROVE  Ready(g) /\ UnitStep(code, view, C, g, wait).sites = {SiteItem(s) : s \in SitesIn(code, g)}
<1>1. Listed(code, view, g) # {}
  BY DEF UnitStep, NoStep
<1>2. /\ UnitStep(code, view, C, g, wait).sites = {SiteItem(s) : s \in Listed(code, view, g)}
      /\ Ready(g)
  BY <1>1 DEF UnitStep, Ready
<1>3. Listed(code, view, g) = SitesIn(code, g)
  BY <1>2, ReadySites DEF Listed
<1> QED
  BY <1>2, <1>3

(* What a step with edits lists is whole units that are ready for it. *)
LEMMA PlannedUnits ==
  ASSUME VInv, NEW i \in DOMAIN plan, plan[i].machine, plan[i].kind \in {"site", "component"}
  PROVE  \E gs \in SUBSET view.groups :
           (\A g \in gs : Ready(g)) /\ ListedSites(code, plan[i]) = SitesIn(code, UNION gs)
<1>1. StepAt(plan, i, code, view, answers)
  BY PlanHasSteps DEF VInv
<1>2. \A s, t : SiteItem(s) = SiteItem(t) => s = t
  <2>1. \A s, t : <<"site", s, 0>> = <<"site", t, 0>> => s = t
    OBVIOUS
  <2> QED
    BY <2>1 DEF SiteItem
<1>3. \A C, s : SiteItem(s) \notin RootAndDeclItems(code, C)
  <2>1. \A r, s : RootItem(r) # SiteItem(s)
    <3>1. \A a, b, c : <<"root", a, b>> # <<"site", c, 0>>
      OBVIOUS
    <3> QED
      BY <3>1 DEF RootItem, SiteItem
  <2>2. \A h, s : DeclItem(h) # SiteItem(s)
    <3>1. \A a, b : <<"decl", a, 0>> # <<"site", b, 0>>
      OBVIOUS
    <3> QED
      BY <3>1 DEF DeclItem, SiteItem
  <2> QED
    BY <2>1, <2>2 DEF RootAndDeclItems
<1>4. ASSUME NEW g \in view.groups, NEW C, NEW wait, plan[i] = UnitStep(code, view, C, g, wait),
             plan[i].kind = "site"
      PROVE  \E gs \in SUBSET view.groups :
               (\A h \in gs : Ready(h)) /\ ListedSites(code, plan[i]) = SitesIn(code, UNION gs)
  <2>1. Ready(g) /\ plan[i].sites = {SiteItem(s) : s \in SitesIn(code, g)}
    BY <1>4, ReadyStep
  <2>2. ListedSites(code, plan[i]) = SitesIn(code, UNION {g})
    BY <1>2, <2>1 DEF ListedSites, SitesIn
  <2> QED
    BY <2>1, <2>2
<1>5. ASSUME NEW K \in view.comps, NEW C, OneStepFor(plan[i], code, view, C, Mine(code, view, K))
      PROVE  \E gs \in SUBSET view.groups :
               (\A g \in gs : Ready(g)) /\ ListedSites(code, plan[i]) = SitesIn(code, UNION gs)
  <2> DEFINE unit(g) == UnitStep(code, view, C, g, Blocking(code, view, C))
  <2>1. PICK gs \in SUBSET Mine(code, view, K) :
          /\ \A g \in gs : unit(g).kind = "site" /\ unit(g).machine
          /\ plan[i].sites = RootAndDeclItems(code, C) \cup UNION {unit(g).sites : g \in gs}
    BY <1>5 DEF OneStepFor
  <2>2. gs \in SUBSET view.groups
    BY DEF Mine
  <2>3. \A g \in gs : Ready(g) /\ unit(g).sites = {SiteItem(s) : s \in SitesIn(code, g)}
    BY <2>1, <2>2, ReadyStep
  <2> HIDE DEF unit
  <2>4. ListedSites(code, plan[i]) = SitesIn(code, UNION gs)
    <3>1. ASSUME NEW s \in DOMAIN code.sites
          PROVE  SiteItem(s) \in plan[i].sites <=> \E g \in gs : s \in g
      <4>1. SiteItem(s) \in plan[i].sites <=> \E g \in gs : SiteItem(s) \in unit(g).sites
        BY <1>3, <2>1
      <4>2. \A g \in gs : SiteItem(s) \in unit(g).sites <=> s \in SitesIn(code, g)
        BY <1>2, <2>3
      <4> QED
        BY <4>1, <4>2 DEF SitesIn
    <3> QED
      BY <3>1 DEF ListedSites, SitesIn
  <2> QED
    BY <2>2, <2>3, <2>4
<1>6. CASE \E g \in view.groups : plan[i] = UnitStep(code, view, {}, g, {}) /\ plan[i].kind = "site"
  BY <1>4, <1>6
<1>7. ASSUME NEW K \in view.comps,
             ComponentStepAt(plan, i, code, view, UNION K, Mine(code, view, K))
      PROVE  \E gs \in SUBSET view.groups :
               (\A g \in gs : Ready(g)) /\ ListedSites(code, plan[i]) = SitesIn(code, UNION gs)
  <2> DEFINE C == UNION K
             wait == Blocking(code, view, C)
  <2>1. ComponentStepAt(plan, i, code, view, C, Mine(code, view, K))
    BY <1>7
  <2> HIDE DEF C
  <2>2. \/ \E g \in Mine(code, view, K) : plan[i] = UnitStep(code, view, C, g, wait) /\ plan[i].kind = "site"
        \/ OneStepFor(plan[i], code, view, C, Mine(code, view, K))
    BY <2>1 DEF ComponentStepAt
  <2>3. Mine(code, view, K) \subseteq view.groups
    BY DEF Mine
  <2> HIDE DEF wait
  <2> QED
    BY <1>4, <1>5, <2>2, <2>3
<1> QED
  BY <1>1, <1>6, <1>7 DEF StepAt

(* A step of the planner keeps the invariant.                            *)
LEMMA PerformedValues ==
  ASSUME VInv, NEW i \in DOMAIN plan, CanApply(i)
  PROVE  ValuesInv(Loaded(Performed(code, view, plan[i])))
<1> DEFINE S == ListedSites(code, plan[i])
           units == UNION {g \in view.groups : g \cap S # {}}
           C == plan[i].comp
<1>1. WellFormed(made) /\ Within(code, made) /\ plan[i].machine
  BY DEF VInv, IInv, CodeInv, Migrating, CanApply, FirstMachine, FirstOfComp
<1>2. plan[i].kind \in {"add", "site", "finish", "component"}
  <2>1. CASE plan[i].kind # "site"
    BY <2>1, StepsOfComponents DEF VInv, Kinds
  <2> QED
    BY <2>1
<1>3. CASE plan[i].kind = "add"
  <2>1. Performed(code, view, plan[i]) = AddHandles(code, view, C, FALSE)
    BY <1>3 DEF Performed
  <2> HIDE DEF C
  <2>2. Noted(AddHandles(code, view, C, FALSE), code) /\ DOMAIN AddHandles(code, view, C, FALSE) = DOMAIN made
    BY <1>1, AddNoted
  <2> QED
    BY <2>1, <2>2, NotedKeeps
<1>4. CASE plan[i].kind = "finish"
  <2>1. Performed(code, view, plan[i]) = Finish(code, view, C)
    BY <1>4 DEF Performed
  <2> HIDE DEF C
  <2>2. Noted(Finish(code, view, C), code) /\ DOMAIN Finish(code, view, C) = DOMAIN made
    BY <1>1, FinishNoted
  <2> QED
    BY <2>1, <2>2, NotedKeeps
<1>5. ASSUME plan[i].kind \in {"site", "component"}
      PROVE  \E gs \in SUBSET view.groups :
               (\A g \in gs : Ready(g)) /\ S = SitesIn(code, UNION gs) /\ units = UNION gs
  <2>1. PICK gs \in SUBSET view.groups : (\A g \in gs : Ready(g)) /\ S = SitesIn(code, UNION gs)
    BY <1>1, <1>5, PlannedUnits
  <2>2. units = UNION gs
    BY <2>1, UnitsOfSites
  <2> QED
    BY <2>1, <2>2
<1>6. CASE plan[i].kind = "site"
  <2>1. PICK gs \in SUBSET view.groups :
          (\A g \in gs : Ready(g)) /\ S = SitesIn(code, UNION gs) /\ units = UNION gs
    BY <1>5, <1>6
  <2>2. Performed(code, view, plan[i]) = MoveSites(code, S, units)
    BY <1>6 DEF Performed
  <2> DEFINE q == MoveSites(code, S, units)
  <2> HIDE DEF S, units
  <2>3. /\ q.moved = code.moved \cup S /\ q.renamed = code.renamed \cup RenamedIn(code, units)
        /\ q.checked = code.checked /\ DOMAIN q = DOMAIN made
    BY <1>1, MoveNoted
  <2> HIDE DEF q
  <2>4. ValuesInv(Loaded(q))
    BY <2>1, <2>3, ReadyMove
  <2> QED
    BY <2>2, <2>4 DEF q
<1>7. CASE plan[i].kind = "component"
  <2>1. PICK gs \in SUBSET view.groups :
          (\A g \in gs : Ready(g)) /\ S = SitesIn(code, UNION gs) /\ units = UNION gs
    BY <1>5, <1>7
  <2> DEFINE added == AddHandles(code, view, C, FALSE)
             moved == MoveSites(added, S, units)
             q == Finish(moved, view, C)
  <2>2. Performed(code, view, plan[i]) = q
    BY <1>7 DEF Performed, MigrateComponent
  <2> HIDE DEF S, units, C
  <2>3. Noted(added, code) /\ Within(added, made) /\ added.uses = code.uses
    <3>1. Added(added, code, view, C, FALSE)
      BY <1>1, AddChanges
    <3>2. Noted(added, code)
      BY <1>1, AddNoted
    <3> HIDE DEF added
    <3> QED
      BY <1>1, <3>1, <3>2 DEF Added, Within, HandlesOf
  <2> HIDE DEF added
  <2>4. /\ moved.moved = added.moved \cup S /\ moved.renamed = added.renamed \cup RenamedIn(added, units)
        /\ moved.checked = added.checked
    BY <1>1, <2>3, MoveNoted
  <2>5. Within(moved, made)
    <3>1. Alike(moved, added)
      BY <1>1, <2>3, MoveChanges
    <3> HIDE DEF moved
    <3> QED
      BY <2>3, <3>1 DEF Alike, Within, HandlesOf
  <2> HIDE DEF moved
  <2>6. Noted(q, moved) /\ DOMAIN q = DOMAIN made
    BY <1>1, <2>5, FinishNoted
  <2> HIDE DEF q
  <2>7. /\ q.moved = code.moved \cup S /\ q.renamed = code.renamed \cup RenamedIn(code, units)
        /\ q.checked = code.checked
    BY <2>3, <2>4, <2>6 DEF Noted, RenamedIn
  <2>8. ValuesInv(Loaded(q))
    BY <2>1, <2>6, <2>7, ReadyMove
  <2> QED
    BY <2>2, <2>8
<1> QED
  BY <1>2, <1>3, <1>4, <1>6, <1>7

(* A person reviews what becomes of the values of the units in G. *)
LEMMA ReviewedMove ==
  ASSUME VInv, NEW gs \in SUBSET view.groups, NEW q, DOMAIN q = DOMAIN made,
         q.moved = code.moved \cup SitesIn(code, UNION gs),
         code.renamed \subseteq q.renamed,
         q.renamed \subseteq code.renamed \cup {u \in code.uses : u.of \in UNION gs},
         q.checked = code.checked \cup {u \in made.uses : u.of \in UNION gs}
  PROVE  ValuesInv(Loaded(q))
<1>1. /\ WellFormed(made) /\ Within(code, made) /\ ValuesInv(code)
      /\ gs \in SUBSET Groups(code)
  BY DEF VInv, IInv, CodeInv, PlanInv, Migrating, View
<1>2. \A u \in made.uses : u.of \in UNION gs => Agrees(q, u, Retyped(code) \cup UNION gs)
  BY DEF Agrees
<1> QED
  BY <1>1, <1>2, UnitsMove

(* So does a unit that a person migrates, and what one removes.          *)
LEMMA HandUnitValues ==
  ASSUME VInv, NEW i \in DOMAIN plan
  PROVE  ValuesInv(Loaded(UnitDone(UNION {g \in view.groups : g \cap ListedSites(code, plan[i]) # {}})))
<1> DEFINE gs == {g \in view.groups : g \cap ListedSites(code, plan[i]) # {}}
           G == UNION gs
           S == SitesIn(code, G)
           without == {s \in S : code.sites[s].on \notin DOMAIN code.sibs}
           kept == {<<code.sites[s].on, "old">> : s \in {x \in without : code.sites[x].on # None}}
           read == {u \in made.uses : u.of \in G}
           p == MoveSites(code, S, G)
           q == UnitDone(G)
<1>1. WellFormed(made) /\ Within(code, made) /\ gs \in SUBSET view.groups
  BY DEF VInv, IInv, CodeInv, Migrating
<1>2. q = [p EXCEPT !.freed = p.freed \cup without, !.keeps = p.keeps \cup kept,
                    !.checked = p.checked \cup read]
  BY DEF UnitDone
<1>3. RenamedIn(code, G) \subseteq {u \in code.uses : u.of \in G}
  BY DEF RenamedIn
<1>4. G = UNION gs /\ S = SitesIn(code, G) /\ read = {u \in made.uses : u.of \in G}
  OBVIOUS
<1>0. SUFFICES ValuesInv(Loaded(q))
  OBVIOUS
<1> HIDE DEF gs, G, S, without, kept, read
<1>5. /\ p.moved = code.moved \cup S /\ p.renamed = code.renamed \cup RenamedIn(code, G)
      /\ p.checked = code.checked /\ DOMAIN p = DOMAIN made
  BY <1>1, MoveNoted
<1>6. DOMAIN p = {"handles", "roots", "moves", "sites", "names", "vars", "uses", "sibs",
                   "sroots", "stwins", "keeps", "moved", "freed", "renamed", "checked"}
  BY <1>1, <1>5 DEF WellFormed
<1> HIDE DEF p, q
<1>7. /\ q.moved = p.moved /\ q.renamed = p.renamed /\ q.checked = p.checked \cup read
      /\ DOMAIN q = DOMAIN made
  BY <1>2, <1>5, <1>6
<1> QED
  BY <1>1, <1>3, <1>4, <1>5, <1>7, ReviewedMove

LEMMA HandFinishValues ==
  ASSUME VInv, NEW C
  PROVE  ValuesInv(Loaded(Removed(C, UNION {g \in view.groups : g \cap SitesOn(code, C) # {}})))
<1> DEFINE gs == {g \in view.groups : g \cap SitesOn(code, C) # {}}
           G == UNION gs
           S == SitesIn(code, G)
           handles == [h \in DOMAIN code.handles \ C |-> code.handles[h]]
           roots == {r \in code.roots : r.to \notin C}
           moves == {f \in code.moves : f.from \notin C /\ f.to \notin C}
           keeps == {k \in code.keeps : k[1] \notin C}
           read == {u \in made.uses : u.of \in G}
           q == Removed(C, G)
<1>1. WellFormed(made) /\ Within(code, made) /\ gs \in SUBSET view.groups
  BY DEF VInv, IInv, CodeInv, Migrating
<1>2. q = [code EXCEPT !.handles = handles, !.roots = roots, !.moves = moves, !.keeps = keeps,
                       !.moved = code.moved \cup S, !.freed = code.freed \cup S,
                       !.checked = code.checked \cup read]
  BY DEF Removed
<1>3. G = UNION gs /\ S = SitesIn(code, G) /\ read = {u \in made.uses : u.of \in G}
  OBVIOUS
<1>0. SUFFICES ValuesInv(Loaded(q))
  OBVIOUS
<1> HIDE DEF gs, G, S, handles, roots, moves, keeps, read, q
<1>4. DOMAIN code = {"handles", "roots", "moves", "sites", "names", "vars", "uses", "sibs",
                      "sroots", "stwins", "keeps", "moved", "freed", "renamed", "checked"}
      /\ DOMAIN code = DOMAIN made
  BY <1>1 DEF WellFormed, Within
<1>5. /\ q.moved = code.moved \cup S /\ q.renamed = code.renamed /\ q.checked = code.checked \cup read
      /\ DOMAIN q = DOMAIN made
  BY <1>2, <1>4
<1> QED
  BY <1>1, <1>3, <1>5, ReviewedMove

(* The invariant is about the code p and the program m that it was. *)
RetypedOf(m, p) ==
  LET new[x \in DOMAIN m.sites \cup DOMAIN m.vars] ==
        IF x \in DOMAIN m.sites THEN x \in p.moved ELSE new[m.vars[x]]
  IN  {x \in DOMAIN m.sites \cup DOMAIN m.vars : new[x]}

AdriftOf(m) ==
  LET Closed(V) == \A v \in DOMAIN m.vars :
        m.vars[v] \in V \/ <<m.vars[v], v>> \notin Links(m) => v \in V
  IN  {v \in DOMAIN m.vars : \A V \in SUBSET DOMAIN m.vars : Closed(V) => v \in V}

LEMMA ValuesNow ==
  ASSUME NEW q, code' = q, made' = made, ValuesInv(q)
  PROVE  ValuesInv(code)'
<1> DEFINE R == Retyped(q)
           A == Adrift
<1>1. Apart(R) /\ Left(q, R) /\ Reviewed(q, R)
  BY DEF ValuesInv
<1>2. Retyped(code)' = R
  <2>1. Retyped(code)' = RetypedOf(made', code')
    BY DEF Retyped, RetypedOf, AllSites
  <2>2. Retyped(q) = RetypedOf(made, q)
    BY DEF Retyped, RetypedOf, AllSites
  <2>3. RetypedOf(made', code') = RetypedOf(made, q)
    OBVIOUS
  <2> QED
    BY <2>1, <2>2, <2>3
<1>3. Adrift' = A
  <2>1. Adrift' = AdriftOf(made')
    BY DEF Adrift, AdriftOf, Follows
  <2>2. Adrift = AdriftOf(made)
    BY DEF Adrift, AdriftOf, Follows
  <2>3. AdriftOf(made') = AdriftOf(made)
    OBVIOUS
  <2> QED
    BY <2>1, <2>2, <2>3
<1> HIDE DEF R
<1>4. Apart(Retyped(code))'
  BY <1>1, <1>2, <1>3 DEF Apart
<1>5. Left(code, Retyped(code))'
  BY <1>1, <1>2 DEF Left, AllSites
<1>6. Reviewed(code, Retyped(code))'
  BY <1>1, <1>2, <1>3 DEF Reviewed, Agrees, AllSites
<1> QED
  BY <1>4, <1>5, <1>6 DEF ValuesInv

(* A step keeps the invariant when the code that it leaves has it.       *)
LEMMA BecomesValues ==
  ASSUME VInv, IInv', NEW q, Becomes(q), ValuesInv(Loaded(q))
  PROVE  VInv'
<1>1. code' = Loaded(q) /\ made' = made
  BY DEF Becomes
<1>2. ValuesInv(code)'
  BY <1>1, ValuesNow
<1> QED
  BY <1>2 DEF VInv

(* At first nothing has changed type.                                    *)
LEMMA InitValues ==
  ASSUME Init
  PROVE  VInv
<1>1. WellFormed(made) /\ code = made
  BY CodeStepsAssumption DEF Init
<1>2. code.moved = {} /\ code.renamed = {}
  BY <1>1 DEF WellFormed
<1>3. Retyped(code) = {}
  <2> DEFINE R == {}
  <2>1. R \in SUBSET Nodes /\ (\A s \in AllSites : s \in R <=> s \in code.moved)
        /\ \A v \in DOMAIN made.vars : v \in R <=> made.vars[v] \in R
    BY <1>2
  <2> HIDE DEF R
  <2>2. Retyped(code) = R
    BY <1>1, <2>1, RetypedIs
  <2> QED
    BY <2>2 DEF R
<1>4. Left(code, {})
  <2>1. ASSUME NEW s \in AllSites PROVE Bare(made.sites[s], {}) = made.sites[s]
    <3>1. made.sites[s] \in SiteType(HandlesOf(made), Nodes)
      BY <1>1 DEF WellFormed, Nodes, AllSites
    <3>2. made.sites[s].mentions \ {} = made.sites[s].mentions
      OBVIOUS
    <3>3. Bare(made.sites[s], {}) = [made.sites[s] EXCEPT !.mentions = made.sites[s].mentions]
      BY <3>2 DEF Bare
    <3> QED
      BY <3>1, <3>3 DEF SiteType
  <2>2. ASSUME NEW u \in made.uses PROVE Stripped(u, {}) = u
    <3>1. u \in UseType(Nodes)
      BY <1>1 DEF WellFormed, Nodes, AllSites
    <3>2. u.into \ {} = u.into /\ u.with \ {} = u.with
      OBVIOUS
    <3>3. Stripped(u, {}) = [u EXCEPT !.into = u.into, !.with = u.with]
      BY <3>2 DEF Stripped
    <3> QED
      BY <3>1, <3>3 DEF UseType
  <2>3. made.uses = {Stripped(u, {}) : u \in {x \in made.uses : x.of \notin {}}}
    BY <2>2
  <2> QED
    BY <1>1, <2>1, <2>3 DEF Left, AllSites
<1>5. ValuesInv(code)
  BY <1>2, <1>3, <1>4 DEF ValuesInv, Apart, Reviewed
<1> QED
  BY <1>5, InitInv DEF VInv

LEMMA NextValues == VInv /\ [Next]_vars => VInv'
<1> SUFFICES ASSUME VInv, [Next]_vars PROVE VInv'
  OBVIOUS
<1>0. IInv /\ IInv' /\ WellFormed(made) /\ Within(code, made)
  BY NextInv DEF VInv, IInv, CodeInv, Migrating
<1>1. ASSUME NEW i \in DOMAIN plan, Apply(i) PROVE VInv'
  <2>1. CanApply(i) /\ Becomes(Performed(code, view, plan[i]))
    BY <1>1 DEF Apply
  <2> QED
    BY <1>0, <2>1, PerformedValues, BecomesValues
<1>2. ASSUME NEW i \in DOMAIN plan, HandAdd(i) PROVE VInv'
  <2> DEFINE q == AddHandles(code, view, plan[i].comp, TRUE)
  <2>1. Becomes(q)
    BY <1>2 DEF HandAdd
  <2>2. Noted(q, code) /\ DOMAIN q = DOMAIN made
    BY <1>0, AddNoted
  <2> HIDE DEF q
  <2> QED
    BY <1>0, <2>1, <2>2, NotedKeeps, BecomesValues
<1>3. ASSUME NEW i \in DOMAIN plan, HandUnit(i) PROVE VInv'
  <2> DEFINE g == UNION {x \in view.groups : x \cap ListedSites(code, plan[i]) # {}}
  <2>1. Becomes(UnitDone(g))
    BY <1>3 DEF HandUnit, UnitDone
  <2>2. ValuesInv(Loaded(UnitDone(g)))
    BY HandUnitValues
  <2> HIDE DEF g
  <2> QED
    BY <1>0, <2>1, <2>2, BecomesValues
<1>4. ASSUME NEW i \in DOMAIN plan, HandFinish(i) PROVE VInv'
  <2> DEFINE G == UNION {g \in view.groups : g \cap SitesOn(code, plan[i].comp) # {}}
  <2>1. Becomes(Removed(plan[i].comp, G))
    BY <1>4 DEF HandFinish, Removed
  <2>2. ValuesInv(Loaded(Removed(plan[i].comp, G)))
    BY HandFinishValues
  <2> HIDE DEF G
  <2> QED
    BY <1>0, <2>1, <2>2, BecomesValues
<1>5. ASSUME UNCHANGED <<code, made>> PROVE VInv'
  <2>1. ValuesInv(code)'
    BY <1>5, ValuesNow DEF VInv
  <2> QED
    BY <1>0, <2>1 DEF VInv
<1>6. CASE Answering
  <2>1. UNCHANGED <<code, made>>
    BY <1>6 DEF Answering, AnswerSite, AnswerAgain, AnswerComponent, Answered
  <2> QED
    BY <1>5, <2>1
<1>7. CASE UNCHANGED vars
  BY <1>5, <1>7 DEF vars
<1> QED
  BY <1>1, <1>2, <1>3, <1>4, <1>6, <1>7 DEF Next, ByHand

-----------------------------------------------------------------------------
(* Between any two steps the values agree, whatever steps are applied or   *)
(* done by hand and in whatever order: what a migrated call gives reaches  *)
(* only what changed type with it, or a place that holds either type or    *)
(* that a person reviewed, and what is not migrated reaches no migrated    *)
(* value (buildUnits, useContext, classifyValue, unitStep).  Of all        *)
(* programs; what may differ is a variable over which the planner does not *)
(* follow the value, and its copies, by name.                              *)
THEOREM ValuesAlwaysAgree == Spec => []ValuesAgree
<1>1. VInv => ValuesAgree
  <2> SUFFICES ASSUME VInv PROVE ValuesAgree
    OBVIOUS
  <2> DEFINE new == Retyped(code)
             adrift == Adrift
  <2>1. /\ WellFormed(made) /\ AllSites \cap Adrift = {}
        /\ Apart(new) /\ Left(code, new) /\ Reviewed(code, new) /\ new \subseteq Nodes
    BY RetypedAlong, AdriftClosed DEF VInv, IInv, CodeInv, ValuesInv
  <2>2. None \notin new
    BY <2>1 DEF WellFormed, Nodes, AllSites
  <2> HIDE DEF new, adrift
  <2>3. ASSUME NEW x, NEW y, <<x, y>> \in Links(made), x \notin adrift, y \notin adrift
        PROVE  x \in new <=> y \in new
    BY <2>1, <2>3 DEF Apart, adrift
  <2>4. ASSUME NEW s \in AllSites
        PROVE  /\ s \in new => /\ made.sites[s].mentions \subseteq new \cup adrift
                               /\ made.sites[s].owner \in new \cup {None}
               /\ s \notin new => /\ made.sites[s].mentions \cap new \subseteq adrift
                                  /\ made.sites[s].owner \notin new
    <3>1. ASSUME NEW x \in made.sites[s].mentions, x \notin adrift PROVE s \in new <=> x \in new
      BY <2>1, <2>3, <3>1, LinksAmong DEF adrift
    <3>2. ASSUME made.sites[s].owner # None PROVE s \in new <=> made.sites[s].owner \in new
      <4>1. <<s, made.sites[s].owner>> \in Links(made) /\ made.sites[s].owner \in AllSites
        BY <2>1, <3>2, LinksAmong DEF WellFormed, Typed, AllSites
      <4> QED
        BY <2>1, <2>3, <4>1 DEF adrift
    <3> QED
      BY <2>2, <3>1, <3>2
  <2>5. ASSUME NEW u \in made.uses, u.of \notin adrift
        PROVE  IF u.of \in new THEN Agrees(code, u, new)
               ELSE /\ \A x \in (u.into \cup u.with) \cap new : Follows(u.of, x) => x \in adrift
                    /\ u \notin code.renamed
    <3>1. ASSUME NEW x \in new, u.of \notin new, Follows(u.of, x) PROVE x \in adrift
      BY <2>3, <2>5, <3>1 DEF Follows
    <3> QED
      BY <2>1, <2>5, <3>1 DEF Reviewed, adrift
  <2> QED
    BY <2>4, <2>5 DEF ValuesAgree, new, adrift
<1>2. Init => VInv
  BY InitValues
<1> QED
  BY <1>1, <1>2, NextValues, PTL DEF Spec

=============================================================================
