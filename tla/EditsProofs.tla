------------------------------ MODULE EditsProofs ------------------------------
(***************************************************************************)
(* What edits of a text do to it, for every text and every list of edits.  *)
(***************************************************************************)
EXTENDS Edits, Recursions, SequenceTheorems

-----------------------------------------------------------------------------
(* Counting up. *)

(* The number after one below n.                                           *)
LEMMA NextNumber ==
  ASSUME NEW n \in Nat, NEW i \in 0 .. n - 1
  PROVE  i + 1 \in 1 .. n /\ (i + 1) - 1 = i /\ i + 1 \in 0 .. n
  OBVIOUS

(* A set of numbers that has 0 and the successor of each of its elements   *)
(* below n has every number up to n.                                       *)
LEMMA CountUp ==
  ASSUME NEW n \in Nat, NEW T, 0 \in T, \A i \in 0 .. n - 1 : i \in T => i + 1 \in T
  PROVE  \A i \in 0 .. n : i \in T
<1> DEFINE wrong == {i \in 0 .. n : i \notin T}
<1>1. SUFFICES ASSUME wrong # {} PROVE FALSE
  OBVIOUS
<1>2. PICK k \in wrong : \A i \in wrong : k <= i
  <2>1. wrong \in SUBSET Nat
    OBVIOUS
  <2> HIDE DEF wrong
  <2> QED
    BY <1>1, <2>1, LeastNat
<1>3. k \in 0 .. n /\ k # 0 /\ k \notin T
  BY <1>2
<1>4. k - 1 \in 0 .. n - 1 /\ k - 1 \in 0 .. n /\ (k - 1) + 1 = k /\ ~(k <= k - 1)
  BY <1>3
<1>5. k - 1 \in T
  BY <1>2, <1>4
<1> QED
  BY <1>3, <1>4, <1>5

(* Two loops of the same steps agree. *)
LEMMA SameLoop ==
  ASSUME NEW n \in Nat, NEW g, NEW h, g[0] = h[0],
         \A i \in 1 .. n : g[i - 1] = h[i - 1] => g[i] = h[i]
  PROVE  \A i \in 0 .. n : g[i] = h[i]
<1> DEFINE T == {i \in 0 .. n : g[i] = h[i]}
<1>1. 0 \in T
  OBVIOUS
<1>2. ASSUME NEW i \in 0 .. n - 1, i \in T PROVE i + 1 \in T
  <2>1. i + 1 \in 1 .. n /\ i + 1 \in 0 .. n /\ (i + 1) - 1 = i
    OBVIOUS
  <2>2. g[i + 1] = h[i + 1]
    BY <1>2, <2>1
  <2> QED
    BY <2>1, <2>2
<1> HIDE DEF T
<1>3. \A i \in 0 .. n : i \in T
  BY <1>1, <1>2, CountUp
<1> QED
  BY <1>3 DEF T

-----------------------------------------------------------------------------
(* How far a batch moves the text. *)

LoggedEdit(e) ==
  /\ e.start \in Nat /\ e.end \in Nat /\ e.n \in Nat /\ e.start <= e.end

LoggedEdits(batch) == batch \in Seq(Range(batch)) /\ \A i \in 1 .. Len(batch) : LoggedEdit(batch[i])

(* The growth of a batch, edit by edit.                                    *)
LEMMA GrowthSteps ==
  ASSUME NEW batch, LoggedEdits(batch)
  PROVE  /\ Growth(batch, 0) = 0
         /\ \A i \in 1 .. Len(batch) : Growth(batch, i) = Growth(batch, i - 1) + Grows(batch[i])
         /\ \A i \in 0 .. Len(batch) : Growth(batch, i) \in Int
<1> DEFINE n == Len(batch)
           Loop(g) == g = [i \in 0 .. n |-> IF i = 0 THEN 0 ELSE g[i - 1] + Grows(batch[i])]
           step == [i \in 1 .. n |-> [x \in Int |-> x + Grows(batch[i])]]
<1>1. n \in Nat /\ \A i \in 1 .. n : Grows(batch[i]) \in Int
  BY DEF LoggedEdits, LoggedEdit, Grows
<1>2. PICK g : Counted(g, n, Int, 0, step)
  <2>1. Counts(n, Int, 0, step)
    BY <1>1 DEF Counts
  <2> HIDE DEF n, step
  <2> QED
    BY <2>1, RecursionOnNumbers
<1>3. g \in [0 .. n -> Int] /\ g[0] = 0 /\ \A i \in 1 .. n : g[i] = g[i - 1] + Grows(batch[i])
  <2>1. g \in [0 .. n -> Int] /\ g[0] = 0 /\ \A i \in 1 .. n : g[i] = step[i][g[i - 1]]
    BY <1>2 DEF Counted
  <2>2. \A i \in 1 .. n : i - 1 \in 0 .. n /\ g[i - 1] \in Int
    BY <1>1, <2>1
  <2> QED
    BY <2>1, <2>2
<1>4. Loop(g)
  <2>1. \A i \in 0 .. n : g[i] = IF i = 0 THEN 0 ELSE g[i - 1] + Grows(batch[i])
    BY <1>1, <1>3
  <2>2. g = [i \in 0 .. n |-> g[i]]
    BY <1>3
  <2> HIDE DEF n
  <2> QED
    BY <2>1, <2>2
<1>5. PICK h : Loop(h) /\ \A k : Growth(batch, k) = h[k]
  <2>1. \A k : Growth(batch, k) = (CHOOSE h : Loop(h))[k]
    BY DEF Growth
  <2> QED
    BY <1>4, <2>1
<1>6. \A i \in 0 .. n : h[i] = IF i = 0 THEN 0 ELSE h[i - 1] + Grows(batch[i])
  <2> HIDE DEF n
  <2> QED
    BY <1>5
<1>7. \A i \in 0 .. n : g[i] = h[i]
  <2> HIDE DEF n, Loop
  <2>1. g[0] = h[0]
    BY <1>1, <1>3, <1>6
  <2>2. \A i \in 1 .. n : g[i - 1] = h[i - 1] => g[i] = h[i]
    BY <1>1, <1>3, <1>6
  <2> QED
    BY <1>1, <2>1, <2>2, SameLoop
<1> HIDE DEF n, Loop, step
<1>8. \A i \in 0 .. n : Growth(batch, i) = g[i]
  BY <1>5, <1>7
<1>9. \A i \in 1 .. n : i \in 0 .. n /\ i - 1 \in 0 .. n
  BY <1>1
<1>10. 0 \in 0 .. n
  BY <1>1
<1> QED
  BY <1>3, <1>8, <1>9, <1>10 DEF n

(* The edits of a batch that count, one by one. *)
GrowthLoop(d, batch, S) ==
  /\ d \in [0 .. Len(batch) -> Int] /\ d[0] = 0
  /\ \A i \in 1 .. Len(batch) : d[i] = d[i - 1] + (IF i \in S THEN Grows(batch[i]) ELSE 0)

(* The edits that move an offset, one by one. *)
ShiftLoop(d, batch, p, after) ==
  /\ d \in [0 .. Len(batch) -> Int] /\ d[0] = 0
  /\ \A i \in 1 .. Len(batch) :
       d[i] = d[i - 1] + (IF Moves(batch[i], p, after) THEN Grows(batch[i]) ELSE 0)

(* GrowthOf is what the loop over the edits of a batch adds up.            *)
LEMMA GrowthOfSteps ==
  ASSUME NEW batch, LoggedEdits(batch), NEW S
  PROVE  \E d : GrowthLoop(d, batch, S) /\ GrowthOf(batch, S) = d[Len(batch)]
<1> DEFINE n == Len(batch)
           More(i) == IF i \in S THEN Grows(batch[i]) ELSE 0
           Loop(g) == g = [i \in 0 .. n |-> IF i = 0 THEN 0 ELSE g[i - 1] + More(i)]
           step == [i \in 1 .. n |-> [x \in Int |-> x + More(i)]]
<1>1. n \in Nat /\ \A i \in 1 .. n : More(i) \in Int
  BY DEF LoggedEdits, LoggedEdit, Grows
<1>2. PICK g : Counted(g, n, Int, 0, step)
  <2> HIDE DEF More
  <2>1. Counts(n, Int, 0, step)
    BY <1>1 DEF Counts
  <2> HIDE DEF n, step
  <2> QED
    BY <2>1, RecursionOnNumbers
<1>3. g \in [0 .. n -> Int] /\ g[0] = 0 /\ \A i \in 1 .. n : g[i] = g[i - 1] + More(i)
  <2> HIDE DEF More
  <2>1. g \in [0 .. n -> Int] /\ g[0] = 0 /\ \A i \in 1 .. n : g[i] = step[i][g[i - 1]]
    BY <1>2 DEF Counted
  <2>2. \A i \in 1 .. n : i - 1 \in 0 .. n /\ g[i - 1] \in Int
    BY <1>1, <2>1
  <2> QED
    BY <2>1, <2>2
<1>4. Loop(g)
  <2> HIDE DEF More
  <2>1. \A i \in 0 .. n : g[i] = IF i = 0 THEN 0 ELSE g[i - 1] + More(i)
    BY <1>1, <1>3
  <2>2. g = [i \in 0 .. n |-> g[i]]
    BY <1>3
  <2> HIDE DEF n
  <2> QED
    BY <2>1, <2>2
<1>5. PICK h : Loop(h) /\ GrowthOf(batch, S) = h[n]
  <2>1. GrowthOf(batch, S) = (CHOOSE h : Loop(h))[n]
    BY DEF GrowthOf
  <2> HIDE DEF Loop
  <2> QED
    BY <1>4, <2>1
<1>6. \A i \in 0 .. n : h[i] = IF i = 0 THEN 0 ELSE h[i - 1] + More(i)
  <2> HIDE DEF n, More
  <2> QED
    BY <1>5
<1>7. \A i \in 0 .. n : g[i] = h[i]
  <2> HIDE DEF n, Loop, More
  <2>1. g[0] = h[0]
    BY <1>1, <1>3, <1>6
  <2>2. \A i \in 1 .. n : g[i - 1] = h[i - 1] => g[i] = h[i]
    BY <1>1, <1>3, <1>6
  <2> QED
    BY <1>1, <2>1, <2>2, SameLoop
<1>8. GrowthLoop(g, batch, S) /\ GrowthOf(batch, S) = g[n]
  BY <1>1, <1>3, <1>5, <1>7 DEF GrowthLoop
<1> QED
  BY <1>8

(* So is Shift, of the edits that move an offset.                          *)
LEMMA ShiftSteps ==
  ASSUME NEW batch, LoggedEdits(batch), NEW p, NEW after
  PROVE  \E d : ShiftLoop(d, batch, p, after) /\ Shift(batch, p, after) = d[Len(batch)]
<1> DEFINE S == {i \in DOMAIN batch : Moves(batch[i], p, after)}
<1>1. DOMAIN batch = 1 .. Len(batch)
  BY DEF LoggedEdits
<1>2. Shift(batch, p, after) = GrowthOf(batch, S)
  BY DEF Shift
<1>3. \A i \in 1 .. Len(batch) : i \in S <=> Moves(batch[i], p, after)
  BY <1>1
<1> HIDE DEF S
<1>4. PICK d : GrowthLoop(d, batch, S) /\ GrowthOf(batch, S) = d[Len(batch)]
  BY GrowthOfSteps
<1> QED
  BY <1>2, <1>3, <1>4 DEF GrowthLoop, ShiftLoop

(* A set of the first numbers up to n. *)
LEMMA FirstOnes ==
  ASSUME NEW n \in Nat, NEW S, \A i \in 1 .. n - 1 : i + 1 \in S => i \in S
  PROVE  \E k \in 0 .. n : \A i \in 1 .. n : i \in S <=> i <= k
<1> DEFINE missing == {i \in 1 .. n : i \notin S}
<1>1. CASE missing = {}
  BY <1>1
<1>2. CASE missing # {}
  <2>1. PICK m \in missing : \A i \in missing : m <= i
    <3>1. missing \in SUBSET Nat
      OBVIOUS
    <3> HIDE DEF missing
    <3> QED
      BY <1>2, <3>1, LeastNat
  <2> DEFINE T == {j \in 0 .. n - m : m + j \notin S}
  <2>2. m \in 1 .. n /\ m \notin S
    BY <2>1
  <2>3. 0 \in T
    BY <2>2
  <2>4. ASSUME NEW j \in 0 .. (n - m) - 1, j \in T PROVE j + 1 \in T
    <3>1. m + j \in 1 .. n - 1 /\ (m + j) + 1 = m + (j + 1) /\ j + 1 \in 0 .. n - m
      BY <2>2
    <3>2. m + j \notin S
      BY <2>4
    <3> QED
      BY <3>1, <3>2
  <2>5. \A j \in 0 .. n - m : j \in T
    <3> HIDE DEF T
    <3>1. n - m \in Nat
      BY <2>2
    <3> QED
      BY <2>3, <2>4, <3>1, CountUp
  <2>6. ASSUME NEW i \in 1 .. n PROVE i \in S <=> i <= m - 1
    <3>1. CASE i < m
      BY <2>1, <2>2, <3>1
    <3>2. CASE ~(i < m)
      <4>1. i - m \in 0 .. n - m /\ m + (i - m) = i
        BY <2>2, <3>2
      <4>2. i - m \in T
        BY <2>5, <4>1
      <4>3. i \notin S
        BY <4>1, <4>2
      <4> QED
        BY <2>2, <3>2, <4>3
    <3> QED
      BY <3>1, <3>2
  <2>7. m - 1 \in 0 .. n
    BY <2>2
  <2> QED
    BY <2>6, <2>7
<1> QED
  BY <1>1, <1>2

(* Ranges one after the other: each ends before all later ones start. *)
LEMMA OneAfterTheOther ==
  ASSUME NEW n \in Nat, NEW from \in [1 .. n -> Int], NEW to \in [1 .. n -> Int],
         \A i \in 1 .. n : from[i] <= to[i], \A i \in 2 .. n : to[i - 1] <= from[i],
         NEW i \in 1 .. n, NEW j \in 1 .. n, i < j
  PROVE  to[i] <= from[j]
<1> DEFINE m == j - (i + 1)
           T == {k \in 0 .. m : to[i] <= from[i + 1 + k]}
<1>1. m \in Nat /\ i + 1 \in 2 .. n /\ i + 1 + m = j
  OBVIOUS
<1>2. 0 \in T
  BY <1>1
<1>3. ASSUME NEW k \in 0 .. m - 1, k \in T PROVE k + 1 \in T
  <2>1. i + 1 + k \in 1 .. n /\ i + 1 + (k + 1) \in 2 .. n /\ i + 1 + (k + 1) - 1 = i + 1 + k
    BY <1>1
  <2>2. to[i] <= from[i + 1 + k] /\ from[i + 1 + k] <= to[i + 1 + k]
        /\ to[i + 1 + k] <= from[i + 1 + (k + 1)]
    BY <1>3, <2>1
  <2>3. to[i] \in Int /\ from[i + 1 + k] \in Int /\ to[i + 1 + k] \in Int /\ from[i + 1 + (k + 1)] \in Int
    BY <2>1
  <2>4. k + 1 \in 0 .. m
    BY <1>1
  <2>5. to[i] <= from[i + 1 + (k + 1)]
    BY <2>2, <2>3
  <2> QED
    BY <2>4, <2>5
<1>4. \A k \in 0 .. m : k \in T
  <2> HIDE DEF T, m
  <2> QED
    BY <1>1, <1>2, <1>3, CountUp
<1>5. m \in 0 .. m
  BY <1>1
<1>6. m \in T
  BY <1>4, <1>5
<1> QED
  BY <1>1, <1>6

-----------------------------------------------------------------------------
(* A batch in the text before it and in the text after it. *)

(* Edits one after the other. *)
InLine(batch) ==
  LoggedEdits(batch) /\ \A i \in 2 .. Len(batch) : batch[i - 1].end <= batch[i].start

(* Where the text of an edit starts and ends in the text after the batch. *)
Lands(batch, i) == batch[i].start + Growth(batch, i - 1)
Ends(batch, i) == batch[i].end + Growth(batch, i)

(* What an edit takes away and puts in its place, in numbers.              *)
LEMMA BatchNumbers ==
  ASSUME NEW batch, LoggedEdits(batch)
  PROVE  /\ Len(batch) \in Nat
         /\ \A i \in 1 .. Len(batch) :
              /\ batch[i].start \in Nat /\ batch[i].end \in Nat /\ batch[i].n \in Nat
              /\ batch[i].start <= batch[i].end
              /\ Growth(batch, i - 1) \in Int /\ Growth(batch, i) \in Int
              /\ Growth(batch, i) = Growth(batch, i - 1) + batch[i].n - (batch[i].end - batch[i].start)
              /\ Lands(batch, i) \in Int /\ Ends(batch, i) \in Int
              /\ Ends(batch, i) = Lands(batch, i) + batch[i].n
<1>1. Len(batch) \in Nat
  BY DEF LoggedEdits
<1>2. ASSUME NEW i \in 1 .. Len(batch)
      PROVE  /\ batch[i].start \in Nat /\ batch[i].end \in Nat /\ batch[i].n \in Nat
             /\ batch[i].start <= batch[i].end
             /\ Growth(batch, i - 1) \in Int /\ Growth(batch, i) \in Int
             /\ Growth(batch, i) = Growth(batch, i - 1) + batch[i].n - (batch[i].end - batch[i].start)
  <2>1. batch[i].start \in Nat /\ batch[i].end \in Nat /\ batch[i].n \in Nat
        /\ batch[i].start <= batch[i].end
    BY DEF LoggedEdits, LoggedEdit
  <2>2. i - 1 \in 0 .. Len(batch) /\ i \in 0 .. Len(batch)
    BY <1>1
  <2>3. Growth(batch, i - 1) \in Int /\ Growth(batch, i) \in Int
        /\ Growth(batch, i) = Growth(batch, i - 1) + Grows(batch[i])
    BY <2>2, GrowthSteps
  <2> QED
    BY <2>1, <2>3 DEF Grows
<1>3. ASSUME NEW i \in 1 .. Len(batch)
      PROVE  /\ Lands(batch, i) \in Int /\ Ends(batch, i) \in Int
             /\ Ends(batch, i) = Lands(batch, i) + batch[i].n
  <2>1. /\ batch[i].start \in Nat /\ batch[i].end \in Nat /\ batch[i].n \in Nat
        /\ Growth(batch, i - 1) \in Int /\ Growth(batch, i) \in Int
        /\ Growth(batch, i) = Growth(batch, i - 1) + batch[i].n - (batch[i].end - batch[i].start)
    BY <1>2
  <2> QED
    BY SMTT(30), <2>1 DEF Lands, Ends
<1> QED
  BY <1>1, <1>2, <1>3

(* The edits of a batch are in order in both texts.                        *)
LEMMA BatchOrder ==
  ASSUME NEW batch, InLine(batch), NEW i \in 1 .. Len(batch), NEW j \in 1 .. Len(batch), i < j
  PROVE  batch[i].end <= batch[j].start /\ Ends(batch, i) <= Lands(batch, j)
<1> DEFINE n == Len(batch)
<1>1. LoggedEdits(batch) /\ \A k \in 2 .. n : batch[k - 1].end <= batch[k].start
  BY DEF InLine
<1>2. n \in Nat
  BY <1>1, BatchNumbers
<1>3. batch[i].end <= batch[j].start
  <2> DEFINE from == [k \in 1 .. n |-> batch[k].start]
             to == [k \in 1 .. n |-> batch[k].end]
  <2>1. from \in [1 .. n -> Int] /\ to \in [1 .. n -> Int] /\ \A k \in 1 .. n : from[k] <= to[k]
    <3>1. ASSUME NEW k \in 1 .. n
          PROVE  batch[k].start \in Int /\ batch[k].end \in Int /\ batch[k].start <= batch[k].end
      <4>1. batch[k].start \in Nat /\ batch[k].end \in Nat /\ batch[k].start <= batch[k].end
        BY <1>1, BatchNumbers
      <4> QED
        BY <4>1
    <3> HIDE DEF n
    <3> QED
      BY <3>1
  <2>2. \A k \in 2 .. n : to[k - 1] <= from[k]
    <3>1. \A k \in 2 .. n : k - 1 \in 1 .. n /\ k \in 1 .. n
      BY <1>2
    <3> QED
      BY <1>1, <3>1
  <2> HIDE DEF from, to, n
  <2>3. to[i] <= from[j]
    BY <1>2, <2>1, <2>2, OneAfterTheOther DEF n
  <2> QED
    BY <2>3 DEF from, to, n
<1>4. Ends(batch, i) <= Lands(batch, j)
  <2> DEFINE from == [k \in 1 .. n |-> Lands(batch, k)]
             to == [k \in 1 .. n |-> Ends(batch, k)]
  <2>1. from \in [1 .. n -> Int] /\ to \in [1 .. n -> Int] /\ \A k \in 1 .. n : from[k] <= to[k]
    <3>1. ASSUME NEW k \in 1 .. n
          PROVE  Lands(batch, k) \in Int /\ Ends(batch, k) \in Int /\ Lands(batch, k) <= Ends(batch, k)
      <4>1. Lands(batch, k) \in Int /\ Ends(batch, k) \in Int
            /\ Ends(batch, k) = Lands(batch, k) + batch[k].n /\ batch[k].n \in Nat
        BY <1>1, BatchNumbers
      <4> QED
        BY <4>1
    <3> HIDE DEF n
    <3> QED
      BY <3>1
  <2>2. \A k \in 2 .. n : to[k - 1] <= from[k]
    <3>1. \A k \in 2 .. n : k - 1 \in 1 .. n /\ k \in 1 .. n
      BY <1>2
    <3>2. ASSUME NEW k \in 2 .. n PROVE Ends(batch, k - 1) <= Lands(batch, k)
      <4>1. batch[k - 1].end <= batch[k].start /\ Growth(batch, k - 1) \in Int
            /\ batch[k - 1].end \in Nat /\ batch[k].start \in Nat
        BY <1>1, <3>1, BatchNumbers
      <4> QED
        BY <4>1 DEF Ends, Lands
    <3> QED
      BY <3>1, <3>2
  <2> HIDE DEF from, to, n
  <2>3. to[i] <= from[j]
    BY <1>2, <2>1, <2>2, OneAfterTheOther DEF n
  <2> QED
    BY <2>3 DEF from, to, n
<1> QED
  BY <1>3, <1>4

(* The texts of the edits of a batch are in order in the text after it.    *)
LEMMA BatchGrows ==
  ASSUME NEW batch, InLine(batch), NEW i \in 1 .. Len(batch), NEW j \in 1 .. Len(batch), i <= j
  PROVE  /\ Lands(batch, i) <= Lands(batch, j) /\ Lands(batch, i) <= Ends(batch, j)
         /\ Ends(batch, i) <= Ends(batch, j)
<1>1. LoggedEdits(batch)
  BY DEF InLine
<1>2. /\ Lands(batch, i) \in Int /\ Ends(batch, i) \in Int
      /\ Ends(batch, i) = Lands(batch, i) + batch[i].n /\ batch[i].n \in Nat
  BY <1>1, BatchNumbers
<1>3. /\ Lands(batch, j) \in Int /\ Ends(batch, j) \in Int
      /\ Ends(batch, j) = Lands(batch, j) + batch[j].n /\ batch[j].n \in Nat
  BY <1>1, BatchNumbers
<1>4. Lands(batch, i) <= Ends(batch, i) /\ Lands(batch, j) <= Ends(batch, j)
  BY SMTT(30), <1>2, <1>3
<1>5. CASE i = j
  BY <1>2, <1>4, <1>5
<1>6. CASE i # j
  <2>1. i < j
    BY <1>6
  <2>2. Ends(batch, i) <= Lands(batch, j)
    BY <2>1, BatchOrder
  <2> QED
    BY SMTT(30), <1>2, <1>3, <1>4, <2>2
<1> QED
  BY <1>5, <1>6

(* The edits that move an offset are the first ones. *)
MovedBy(batch, p, after, k) ==
  /\ k \in 0 .. Len(batch) /\ \A i \in 1 .. Len(batch) : Moves(batch[i], p, after) <=> i <= k
  /\ Shift(batch, p, after) = Growth(batch, k)

(* Where the first k edits of a batch are those that move an offset, they  *)
(* shift it by what they grow.                                             *)
LEMMA ShiftOfFirst ==
  ASSUME NEW batch, LoggedEdits(batch), NEW p, NEW after, NEW k \in 0 .. Len(batch),
         \A i \in 1 .. Len(batch) : Moves(batch[i], p, after) <=> i <= k
  PROVE  MovedBy(batch, p, after, k)
<1> DEFINE n == Len(batch)
           Least(i) == IF i <= k THEN i ELSE k
           g == [i \in 0 .. n |-> Growth(batch, Least(i))]
<1>1. PICK d : ShiftLoop(d, batch, p, after) /\ Shift(batch, p, after) = d[n]
  BY ShiftSteps
<1>2. n \in Nat /\ 0 \in 0 .. n /\ n \in 0 .. n /\ Least(0) = 0 /\ Least(n) = k
  BY BatchNumbers
<1>3. d[0] = g[0]
  BY <1>1, <1>2, GrowthSteps DEF ShiftLoop
<1>4. ASSUME NEW i \in 1 .. n, d[i - 1] = g[i - 1] PROVE d[i] = g[i]
  <2>1. i - 1 \in 0 .. n /\ i \in 0 .. n
    BY <1>2
  <2>2. d[i] = d[i - 1] + (IF i <= k THEN Grows(batch[i]) ELSE 0) /\ d[i - 1] \in Int
    BY <1>1, <2>1 DEF ShiftLoop
  <2>3. CASE i <= k
    <3>1. Least(i) = i /\ Least(i - 1) = i - 1
      BY <2>3
    <3>2. g[i] = Growth(batch, i) /\ g[i - 1] = Growth(batch, i - 1)
      BY <2>1, <3>1
    <3> QED
      BY <1>4, <2>2, <2>3, <3>2, GrowthSteps
  <2>4. CASE ~(i <= k)
    <3>1. Least(i) = k /\ Least(i - 1) = k
      BY <2>4
    <3>2. g[i] = g[i - 1]
      BY <2>1, <3>1
    <3> QED
      BY <1>4, <2>2, <2>4, <3>2
  <2> QED
    BY <2>3, <2>4
<1>5. \A i \in 0 .. n : d[i] = g[i]
  <2> DEFINE T == {i \in 0 .. n : d[i] = g[i]}
  <2> HIDE DEF n, g
  <2>1. 0 \in T
    BY <1>2, <1>3
  <2>2. ASSUME NEW i \in 0 .. n - 1, i \in T PROVE i + 1 \in T
    <3>1. i + 1 \in 1 .. n /\ (i + 1) - 1 = i /\ i + 1 \in 0 .. n
      BY <1>2, NextNumber
    <3>2. d[i + 1] = g[i + 1]
      BY <1>4, <2>2, <3>1
    <3> QED
      BY <3>1, <3>2
  <2> HIDE DEF T
  <2>3. \A i \in 0 .. n : i \in T
    BY <1>2, <2>1, <2>2, CountUp
  <2> QED
    BY <2>3 DEF T
<1>6. d[n] = Growth(batch, k)
  BY <1>2, <1>5
<1> QED
  BY <1>1, <1>6 DEF MovedBy

(* The edits of a batch that move an offset are its first ones.            *)
LEMMA MovedByFirst ==
  ASSUME NEW batch, InLine(batch), NEW p \in Int, NEW after \in BOOLEAN
  PROVE  \E k : MovedBy(batch, p, after, k)
<1> DEFINE n == Len(batch)
           S == {i \in 1 .. n : Moves(batch[i], p, after)}
<1>1. LoggedEdits(batch) /\ n \in Nat
  BY BatchNumbers DEF InLine
<1>2. ASSUME NEW i \in 1 .. n - 1, i + 1 \in S PROVE i \in S
  <2>1. i \in 1 .. n /\ i + 1 \in 1 .. n /\ i < i + 1
    BY <1>1
  <2>2. batch[i].end <= batch[i + 1].start
    BY <2>1, BatchOrder
  <2>3. /\ batch[i].start \in Nat /\ batch[i].end \in Nat /\ batch[i].start <= batch[i].end
        /\ batch[i + 1].start \in Nat /\ batch[i + 1].end \in Nat
        /\ batch[i + 1].start <= batch[i + 1].end
    BY <1>1, <2>1, BatchNumbers
  <2>4. Moves(batch[i + 1], p, after)
    BY <1>2
  <2>5. Moves(batch[i], p, after)
    BY <2>2, <2>3, <2>4 DEF Moves, Inserts
  <2> QED
    BY <2>1, <2>5
<1>3. PICK k \in 0 .. n : \A i \in 1 .. n : i \in S <=> i <= k
  <2> HIDE DEF S, n
  <2> QED
    BY <1>1, <1>2, FirstOnes
<1> QED
  BY <1>1, <1>3, ShiftOfFirst

(* The first edit whose text does not end before an offset, or one past    *)
(* the last edit.                                                          *)
FirstReached(batch, p, f) ==
  /\ f \in 1 .. Len(batch) + 1
  /\ \A i \in 1 .. Len(batch) : i < f => p > Ends(batch, i)
  /\ f <= Len(batch) => p <= Ends(batch, f)

BackFrom(batch, p, lo, f) ==
  IF f > Len(batch) THEN p - Growth(batch, Len(batch))
  ELSE IF p < Lands(batch, f) THEN p - Growth(batch, f - 1)
  ELSE IF lo THEN batch[f].start ELSE batch[f].end

(* backPos stops at the first edit whose text does not end before the      *)
(* offset.                                                                 *)
LEMMA BackOverFirst ==
  ASSUME NEW batch, LoggedEdits(batch), NEW p \in Int, NEW lo
  PROVE  \E f : FirstReached(batch, p, f) /\ BackPos(batch, p, lo) = BackFrom(batch, p, lo, f)
<1> DEFINE n == Len(batch)
           reached == {i \in DOMAIN batch : p <= batch[i].start + Growth(batch, i - 1) + batch[i].n}
           first == CHOOSE i \in reached : \A j \in reached : i <= j
<1>1. n \in Nat /\ DOMAIN batch = 1 .. n
  BY BatchNumbers DEF LoggedEdits
<1>2. ASSUME NEW i \in 1 .. n PROVE i \in reached <=> p <= Ends(batch, i)
  <2>1. Ends(batch, i) = Lands(batch, i) + batch[i].n
    BY BatchNumbers
  <2> QED
    BY <1>1, <2>1 DEF Lands
<1>3. BackPos(batch, p, lo) =
        IF reached = {} THEN p - Growth(batch, n)
        ELSE IF p < Lands(batch, first) THEN p - Growth(batch, first - 1)
        ELSE IF lo THEN batch[first].start ELSE batch[first].end
  BY Zenon DEF BackPos, Lands
<1>4. CASE reached = {}
  <2>1. FirstReached(batch, p, n + 1)
    <3>1. ASSUME NEW i \in 1 .. n PROVE p > Ends(batch, i)
      <4>1. ~(p <= Ends(batch, i)) /\ Ends(batch, i) \in Int
        BY <1>2, <1>4, BatchNumbers
      <4> QED
        BY <4>1
    <3> QED
      BY <1>1, <3>1 DEF FirstReached
  <2>2. BackFrom(batch, p, lo, n + 1) = p - Growth(batch, n)
    BY <1>1 DEF BackFrom
  <2> QED
    BY <1>3, <1>4, <2>1, <2>2
<1>5. CASE reached # {}
  <2>1. first \in reached /\ \A j \in reached : first <= j
    <3>1. reached \in SUBSET Nat
      BY <1>1
    <3>2. \E i \in reached : \A j \in reached : i <= j
      <4> HIDE DEF reached
      <4> QED
        BY <1>5, <3>1, LeastNat
    <3> HIDE DEF reached
    <3> QED
      BY <3>2
  <2>2. PICK f : f = first
    OBVIOUS
  <2>3. f \in 1 .. n /\ f \in reached /\ \A j \in reached : f <= j
    <3>1. first \in 1 .. n
      BY <1>1, <2>1
    <3> HIDE DEF reached
    <3> QED
      BY <2>1, <2>2, <3>1
  <2>4. FirstReached(batch, p, f)
    <3>1. ASSUME NEW i \in 1 .. n, i < f PROVE p > Ends(batch, i)
      <4>1. i \notin reached
        BY <2>3, <3>1
      <4>2. ~(p <= Ends(batch, i)) /\ Ends(batch, i) \in Int
        BY <1>2, <4>1, BatchNumbers
      <4> QED
        BY <4>2
    <3>2. p <= Ends(batch, f)
      BY <1>2, <2>3
    <3>3. f \in 1 .. n + 1
      BY <1>1, <2>3
    <3> QED
      BY <3>1, <3>2, <3>3 DEF FirstReached
  <2>5. BackPos(batch, p, lo) = BackFrom(batch, p, lo, f)
    <3>1. ~(f > n)
      BY <1>1, <2>3
    <3> HIDE DEF reached, first
    <3> QED
      BY <1>3, <1>5, <2>2, <3>1 DEF BackFrom
  <2> QED
    BY <2>4, <2>5
<1> QED
  BY <1>4, <1>5

(* What a batch moves back to at most a was at most where a has moved to.  *)
LEMMA BackBelow ==
  ASSUME NEW batch, InLine(batch), NEW p \in Int, NEW a \in Int, ~Rewrites(batch, a),
         NEW lo, lo = FALSE, BackPos(batch, p, lo) <= a, NEW after, after = TRUE
  PROVE  p <= a + Shift(batch, a, after)
<1> DEFINE n == Len(batch)
<1>1. LoggedEdits(batch) /\ n \in Nat /\ DOMAIN batch = 1 .. n
  BY BatchNumbers DEF InLine, LoggedEdits
<1>2. PICK k : MovedBy(batch, a, after, k)
  BY MovedByFirst
<1>3. k \in 0 .. n /\ Shift(batch, a, after) = Growth(batch, k) /\ Growth(batch, k) \in Int
  BY <1>1, <1>2, GrowthSteps DEF MovedBy
<1>4. ASSUME NEW i \in 1 .. n PROVE IF i <= k THEN batch[i].end <= a ELSE a <= batch[i].start /\ a < batch[i].end
  <2>1. Moves(batch[i], a, after) <=> i <= k
    BY <1>2 DEF MovedBy
  <2>2. ~(batch[i].start < a /\ a < batch[i].end)
    BY <1>1 DEF Rewrites
  <2>3. batch[i].start \in Nat /\ batch[i].end \in Nat /\ batch[i].start <= batch[i].end
    BY <1>1, BatchNumbers
  <2> QED
    BY <2>1, <2>2, <2>3 DEF Moves, Inserts
<1>5. SUFFICES ASSUME p > a + Growth(batch, k) PROVE FALSE
  <2>1. PICK g : g = Growth(batch, k) /\ Shift(batch, a, after) = g
    BY Zenon, <1>3
  <2>2. g \in Int
    BY <1>3, <2>1
  <2>3. p <= a + g
    BY <1>5, <2>1, <2>2
  <2> QED
    BY Zenon, <2>1, <2>3
<1>6. PICK f : FirstReached(batch, p, f) /\ BackPos(batch, p, lo) = BackFrom(batch, p, lo, f)
  BY <1>1, BackOverFirst
<1>7. f \in 1 .. n + 1 /\ (\A i \in 1 .. n : i < f => p > Ends(batch, i)) /\ (f <= n => p <= Ends(batch, f))
  BY <1>6 DEF FirstReached
<1>8. ASSUME NEW i \in 1 .. n, i <= k PROVE Ends(batch, i) < p
  <2>1. Ends(batch, k) <= a + Growth(batch, k) /\ k \in 1 .. n
    <3>1. k \in 1 .. n
      BY <1>3, <1>8
    <3>2. batch[k].end <= a /\ batch[k].end \in Nat
      BY SMTT(30), <1>1, <1>3, <1>4, <3>1, BatchNumbers
    <3> QED
      BY <1>3, <3>1, <3>2 DEF Ends
  <2>2. Ends(batch, i) <= Ends(batch, k)
    <3>1. CASE i = k
      <4>1. Ends(batch, k) \in Int
        BY <1>1, <2>1, BatchNumbers
      <4> QED
        BY <3>1, <4>1
    <3>2. CASE i # k
      <4>1. i < k
        BY <1>3, <1>8, <3>2
      <4>2. Ends(batch, i) <= Lands(batch, k)
        BY <2>1, <4>1, BatchOrder
      <4>3. Ends(batch, k) = Lands(batch, k) + batch[k].n /\ batch[k].n \in Nat
            /\ Lands(batch, k) \in Int /\ Ends(batch, i) \in Int
        BY <1>1, <2>1, BatchNumbers
      <4> QED
        BY <4>2, <4>3
    <3> QED
      BY <3>1, <3>2
  <2>3. Ends(batch, i) \in Int /\ Ends(batch, k) \in Int
    BY <1>1, <2>1, BatchNumbers
  <2> QED
    BY <1>3, <1>5, <2>1, <2>2, <2>3
<1>9. f > k
  <2>1. CASE f \in 1 .. n /\ f <= k
    <3>1. Ends(batch, f) < p /\ p <= Ends(batch, f) /\ Ends(batch, f) \in Int
      BY <1>1, <1>7, <1>8, <2>1, BatchNumbers
    <3> QED
      BY <3>1
  <2> QED
    BY <1>1, <1>3, <1>7, <2>1
(* Between k and f the text only moves further. *)
<1>10. ASSUME NEW i \in 1 .. n, i = f - 1, i > k PROVE p - Growth(batch, i) > a
  <2>1. p > Ends(batch, i)
    BY <1>7, <1>10
  <2>2. a <= batch[i].start /\ batch[i].start <= batch[i].end /\ batch[i].start \in Nat
        /\ batch[i].end \in Nat /\ Growth(batch, i) \in Int
    BY <1>1, <1>3, <1>4, <1>10, BatchNumbers
  <2> QED
    BY <2>1, <2>2 DEF Ends
<1>11. ~(BackFrom(batch, p, lo, f) <= a)
  <2>1. f - 1 \in 0 .. n /\ f - 1 >= k
    BY <1>1, <1>3, <1>7, <1>9
  <2>2. p - Growth(batch, f - 1) > a /\ Growth(batch, f - 1) \in Int
    <3>1. CASE f - 1 = k
      BY <1>3, <1>5, <3>1
    <3>2. CASE f - 1 # k
      <4>1. f - 1 \in 1 .. n /\ f - 1 > k
        BY <1>1, <1>3, <2>1, <3>2
      <4> QED
        BY <1>1, <1>10, <2>1, <4>1, GrowthSteps
    <3> QED
      BY <3>1, <3>2
  <2>3. CASE f > n
    <3>1. f - 1 = n
      BY <1>1, <1>7, <2>3
    <3> QED
      BY <2>2, <2>3, <3>1 DEF BackFrom
  <2>4. CASE ~(f > n) /\ p < Lands(batch, f)
    BY <2>2, <2>4 DEF BackFrom
  <2>5. CASE ~(f > n) /\ ~(p < Lands(batch, f))
    <3>1. f \in 1 .. n /\ ~(f <= k)
      BY <1>1, <1>3, <1>7, <1>9, <2>5
    <3>2. a < batch[f].end
      BY <1>4, <3>1
    <3>3. batch[f].end \in Nat
      BY <1>1, <3>1, BatchNumbers
    <3> QED
      BY <2>5, <3>2, <3>3 DEF BackFrom
  <2> QED
    BY <2>3, <2>4, <2>5
<1> QED
  BY Zenon, <1>6, <1>11

(* The edits around an offset that none of them rewrites.                  *)
LEMMA MovedAround ==
  ASSUME NEW batch, InLine(batch), NEW a \in Int, ~Rewrites(batch, a), NEW after \in BOOLEAN
  PROVE  \E k \in 0 .. Len(batch) :
           /\ MovedBy(batch, a, after, k) /\ Shift(batch, a, after) = Growth(batch, k)
           /\ Growth(batch, k) \in Int
           /\ \A i \in 1 .. Len(batch) : i <= k => batch[i].end <= a /\ (~after => batch[i].start < a)
           /\ \A i \in 1 .. Len(batch) : i > k => a <= batch[i].start /\ (after => a < batch[i].end)
<1>1. LoggedEdits(batch) /\ Len(batch) \in Nat /\ DOMAIN batch = 1 .. Len(batch)
  BY BatchNumbers DEF InLine, LoggedEdits
<1>2. PICK k : MovedBy(batch, a, after, k)
  BY MovedByFirst
<1>3. k \in 0 .. Len(batch) /\ Shift(batch, a, after) = Growth(batch, k) /\ Growth(batch, k) \in Int
  BY <1>1, <1>2, GrowthSteps DEF MovedBy
<1>4. ASSUME NEW i \in 1 .. Len(batch)
      PROVE  IF i <= k THEN batch[i].end <= a /\ (~after => batch[i].start < a)
             ELSE a <= batch[i].start /\ (after => a < batch[i].end)
  <2>1. Moves(batch[i], a, after) <=> i <= k
    BY <1>2 DEF MovedBy
  <2>2. ~(batch[i].start < a /\ a < batch[i].end)
    BY <1>1 DEF Rewrites
  <2>3. batch[i].start \in Nat /\ batch[i].end \in Nat /\ batch[i].start <= batch[i].end
    BY <1>1, BatchNumbers
  <2> QED
    BY <2>1, <2>2, <2>3 DEF Moves, Inserts
<1>5. \A i \in 1 .. Len(batch) : i > k => ~(i <= k)
  BY <1>1, <1>3
<1> QED
  BY <1>2, <1>3, <1>4, <1>5

(* What a batch moves back to b or more was at least where b has moved to. *)
LEMMA BackAbove ==
  ASSUME NEW batch, InLine(batch), NEW p \in Int, NEW b \in Int, ~Rewrites(batch, b),
         NEW lo, lo = TRUE, b <= BackPos(batch, p, lo), NEW after, after = FALSE
  PROVE  b + Shift(batch, b, after) <= p
<1> DEFINE n == Len(batch)
<1>1. LoggedEdits(batch) /\ n \in Nat /\ DOMAIN batch = 1 .. n
  BY BatchNumbers DEF InLine, LoggedEdits
<1>2. PICK k \in 0 .. n :
           /\ Shift(batch, b, after) = Growth(batch, k) /\ Growth(batch, k) \in Int
           /\ \A i \in 1 .. n : i <= k => batch[i].end <= b /\ batch[i].start < b
           /\ \A i \in 1 .. n : i > k => b <= batch[i].start
  BY MovedAround
<1>3. SUFFICES ASSUME p < b + Growth(batch, k) PROVE FALSE
  <2>1. PICK g : g = Growth(batch, k) /\ Shift(batch, b, after) = g
    BY Zenon, <1>2
  <2>2. g \in Int
    BY <1>2, <2>1
  <2>3. b + g <= p
    BY <1>3, <2>1, <2>2
  <2> QED
    BY Zenon, <2>1, <2>3
<1>4. PICK f : FirstReached(batch, p, f) /\ BackPos(batch, p, lo) = BackFrom(batch, p, lo, f)
  BY <1>1, BackOverFirst
<1>5. f \in 1 .. n + 1 /\ (\A i \in 1 .. n : i < f => p > Ends(batch, i)) /\ (f <= n => p <= Ends(batch, f))
  BY <1>4 DEF FirstReached
<1>6. ASSUME NEW i \in 1 .. n, i > k PROVE p < Lands(batch, i)
  <2>1. k + 1 \in 1 .. n /\ k + 1 > k /\ (k + 1) - 1 = k
    BY <1>1, <1>2, <1>6
  <2>2. b <= batch[k + 1].start /\ batch[k + 1].start \in Nat
    BY <1>1, <1>2, <2>1, BatchNumbers
  <2>3. Lands(batch, k + 1) = batch[k + 1].start + Growth(batch, k)
    BY <2>1 DEF Lands
  <2>4. p < Lands(batch, k + 1) /\ Lands(batch, k + 1) \in Int
    BY <1>2, <1>3, <2>2, <2>3
  <2>5. Lands(batch, k + 1) <= Lands(batch, i)
    <3>1. k + 1 <= i
      BY <1>2, <1>6
    <3> QED
      BY <2>1, <3>1, BatchGrows
  <2>6. Lands(batch, i) \in Int
    BY <1>1, BatchNumbers
  <2> QED
    BY <2>4, <2>5, <2>6
<1>7. f <= k + 1
  <2>1. CASE k + 1 \in 1 .. n /\ k + 1 < f
    <3>1. p > Ends(batch, k + 1) /\ p < Lands(batch, k + 1)
      BY <1>2, <1>5, <1>6, <2>1
    <3>2. Ends(batch, k + 1) = Lands(batch, k + 1) + batch[k + 1].n /\ batch[k + 1].n \in Nat
          /\ Lands(batch, k + 1) \in Int
      BY <1>1, <2>1, BatchNumbers
    <3> QED
      BY <3>1, <3>2
  <2> QED
    BY <1>1, <1>2, <1>5, <2>1
<1>8. ~(b <= BackFrom(batch, p, lo, f))
  <2>1. CASE f > n
    <3>1. n \in Nat /\ k \in 0 .. n /\ f \in 1 .. n + 1 /\ f <= k + 1
      BY <1>1, <1>2, <1>5, <1>7
    <3>2. f = n + 1 /\ k = n
      <4> HIDE DEF n
      <4> QED
        BY <2>1, <3>1
    <3>3. ~(b <= p - Growth(batch, n))
      BY <1>2, <1>3, <3>2
    <3> QED
      BY <2>1, <3>3 DEF BackFrom
  <2>2. CASE f <= n /\ p < Lands(batch, f)
    <3>1. f \in 1 .. n /\ ~(f > n)
      BY <1>1, <1>5, <2>2
    <3>2. f - 1 \in 0 .. n
      BY <1>1, <3>1
    <3>3. Growth(batch, f - 1) \in Int /\ batch[f].start \in Nat
      BY <1>1, <3>1, <3>2, GrowthSteps, BatchNumbers
    <3>4. ~(b <= p - Growth(batch, f - 1))
      <4>1. CASE f = k + 1
        <5>1. f - 1 = k
          BY <1>2, <4>1
        <5> QED
          BY <1>2, <1>3, <5>1
      <4>2. CASE f # k + 1
        <5>1. f <= k
          BY <1>2, <1>5, <1>7, <4>2
        <5>2. batch[f].start < b
          BY <1>2, <3>1, <5>1
        <5>3. p < batch[f].start + Growth(batch, f - 1)
          BY <2>2 DEF Lands
        <5> QED
          BY <3>3, <5>2, <5>3
      <4> QED
        BY <4>1, <4>2
    <3> QED
      BY <2>2, <3>1, <3>4 DEF BackFrom
  <2>3. CASE f <= n /\ ~(p < Lands(batch, f))
    <3>1. f \in 1 .. n /\ ~(f > n)
      BY <1>1, <1>5, <2>3
    <3>2. ~(f > k)
      BY <1>6, <2>3, <3>1
    <3>3. batch[f].start < b
      BY <1>2, <3>1, <3>2
    <3>4. batch[f].start \in Nat
      BY <1>1, <3>1, BatchNumbers
    <3> QED
      BY <2>3, <3>1, <3>3, <3>4 DEF BackFrom
  <2>4. f > n \/ f <= n
    <3>1. n \in Nat /\ f \in 1 .. n + 1
      BY <1>1, <1>5
    <3> HIDE DEF n
    <3> QED
      BY <3>1
  <2> QED
    BY Zenon, <2>1, <2>2, <2>3, <2>4
<1> QED
  BY Zenon, <1>4, <1>8

(* Offsets that no edit rewrites keep their order.                         *)
LEMMA ShiftOrder ==
  ASSUME NEW batch, InLine(batch), NEW p \in Int, NEW q \in Int, p <= q,
         NEW u \in BOOLEAN, NEW v \in BOOLEAN,
         \A i \in 1 .. Len(batch) : Moves(batch[i], p, u) => Moves(batch[i], q, v),
         ~Rewrites(batch, p), ~Rewrites(batch, q)
  PROVE  p + Shift(batch, p, u) <= q + Shift(batch, q, v)
<1> DEFINE n == Len(batch)
<1>1. LoggedEdits(batch) /\ n \in Nat
  BY BatchNumbers DEF InLine
<1>2. PICK k \in 0 .. n :
           /\ MovedBy(batch, p, u, k) /\ Shift(batch, p, u) = Growth(batch, k) /\ Growth(batch, k) \in Int
           /\ \A i \in 1 .. n : i <= k => batch[i].end <= p /\ (~u => batch[i].start < p)
           /\ \A i \in 1 .. n : i > k => p <= batch[i].start /\ (u => p < batch[i].end)
  BY MovedAround
<1>3. PICK m \in 0 .. n :
           /\ MovedBy(batch, q, v, m) /\ Shift(batch, q, v) = Growth(batch, m) /\ Growth(batch, m) \in Int
           /\ \A i \in 1 .. n : i <= m => batch[i].end <= q /\ (~v => batch[i].start < q)
           /\ \A i \in 1 .. n : i > m => q <= batch[i].start /\ (v => q < batch[i].end)
  BY MovedAround
<1>4. k <= m
  <2>1. CASE k \in 1 .. n
    <3>1. k <= k
      BY <2>1
    <3>2. Moves(batch[k], p, u)
      BY <1>2, <2>1, <3>1 DEF MovedBy
    <3>3. Moves(batch[k], q, v)
      BY <2>1, <3>2
    <3> QED
      BY <1>3, <2>1, <3>3 DEF MovedBy
  <2> QED
    BY <1>1, <1>2, <1>3, <2>1
<1>5. p + Growth(batch, k) <= q + Growth(batch, m)
  <2>1. CASE k = m
    BY <1>2, <2>1
  <2>2. CASE k # m
    <3>1. k + 1 \in 1 .. n /\ m \in 1 .. n /\ k + 1 <= m /\ k + 1 > k /\ m <= m /\ (k + 1) - 1 = k
      BY <1>1, <1>2, <1>3, <1>4, <2>2
    <3>2. p <= batch[k + 1].start /\ batch[m].end <= q
      BY <1>2, <1>3, <3>1
    <3>3. batch[k + 1].start \in Nat /\ batch[m].end \in Nat /\ Lands(batch, k + 1) \in Int
          /\ Lands(batch, m) \in Int /\ Ends(batch, k + 1) \in Int /\ Ends(batch, m) \in Int
      BY <1>1, <3>1, BatchNumbers
    <3>4. Lands(batch, k + 1) <= Ends(batch, m)
      BY <3>1, BatchGrows
    <3>5. Lands(batch, k + 1) = batch[k + 1].start + Growth(batch, k) /\ Ends(batch, m) = batch[m].end + Growth(batch, m)
      BY <3>1 DEF Lands, Ends
    <3>6. Growth(batch, k) \in Int /\ Growth(batch, m) \in Int
      BY <1>2, <1>3
    <3>7. PICK g, h, s, e : g = Growth(batch, k) /\ h = Growth(batch, m) /\ s = batch[k + 1].start /\ e = batch[m].end
      OBVIOUS
    <3>8. s + g <= e + h /\ p <= s /\ e <= q
      BY <3>2, <3>4, <3>5, <3>7
    <3>9. g \in Int /\ h \in Int /\ s \in Int /\ e \in Int
      BY SMTT(30), <3>3, <3>6, <3>7
    <3>10. p + g <= q + h
      BY <3>8, <3>9
    <3> QED
      BY <3>7, <3>10
  <2> QED
    BY <2>1, <2>2
<1> QED
  BY <1>2, <1>3, <1>5

(* Moving an offset back keeps it in the text and keeps the order.         *)
LEMMA BackInText ==
  ASSUME NEW batch, InLine(batch), NEW len \in Nat,
         \A i \in 1 .. Len(batch) : batch[i].end <= len,
         NEW p \in Int, 0 <= p, p <= len + Growth(batch, Len(batch)), NEW lo
  PROVE  BackPos(batch, p, lo) \in 0 .. len
<1> DEFINE n == Len(batch)
<1>1. LoggedEdits(batch) /\ n \in Nat
  BY BatchNumbers DEF InLine
<1>2. PICK f : FirstReached(batch, p, f) /\ BackPos(batch, p, lo) = BackFrom(batch, p, lo, f)
  BY <1>1, BackOverFirst
<1>3. f \in 1 .. n + 1 /\ (\A i \in 1 .. n : i < f => p > Ends(batch, i)) /\ (f <= n => p <= Ends(batch, f))
  BY <1>2 DEF FirstReached
<1>4. f - 1 \in 0 .. n /\ Growth(batch, f - 1) \in Int /\ 0 <= p - Growth(batch, f - 1)
  <2>1. f - 1 \in 0 .. n
    BY <1>1, <1>3
  <2>2. Growth(batch, f - 1) \in Int /\ Growth(batch, 0) = 0
    BY <1>1, <2>1, GrowthSteps
  <2>3. CASE f = 1
    <3>1. Growth(batch, f - 1) = 0
      BY <2>2, <2>3
    <3> QED
      BY <2>1, <2>2, <3>1
  <2>4. CASE f # 1
    <3>1. f - 1 \in 1 .. n /\ f - 1 < f
      BY <1>1, <1>3, <2>4
    <3>2. p > Ends(batch, f - 1) /\ batch[f - 1].end \in Nat
      BY <1>1, <1>3, <3>1, BatchNumbers
    <3> QED
      BY <2>1, <2>2, <3>2 DEF Ends
  <2> QED
    BY <2>3, <2>4
<1>5. CASE f > n
  <2>1. f - 1 = n
    BY <1>1, <1>3, <1>5
  <2>2. p - Growth(batch, n) \in 0 .. len
    BY <1>4, <2>1
  <2> QED
    BY <1>2, <1>5, <2>2 DEF BackFrom
<1>6. CASE f <= n
  <2>1. f \in 1 .. n /\ ~(f > n)
    BY <1>1, <1>3, <1>6
  <2>2. /\ batch[f].start \in Nat /\ batch[f].end \in Nat /\ batch[f].start <= batch[f].end
        /\ batch[f].end <= len
    BY <1>1, <2>1, BatchNumbers
  <2>3. ASSUME p < Lands(batch, f) PROVE p - Growth(batch, f - 1) \in 0 .. len
    BY <1>4, <2>2, <2>3 DEF Lands
  <2>4. batch[f].start \in 0 .. len /\ batch[f].end \in 0 .. len
    BY <2>2
  <2> QED
    BY <1>2, <2>1, <2>3, <2>4 DEF BackFrom
<1>7. f > n \/ f <= n
  BY <1>1, <1>3
<1> QED
  BY <1>5, <1>6, <1>7

(* Going back over a batch keeps offsets in order.                         *)
LEMMA BackOrder ==
  ASSUME NEW batch, InLine(batch), NEW p \in Int, NEW q \in Int, p <= q,
         NEW lo, lo = TRUE, NEW hi, hi = FALSE
  PROVE  BackPos(batch, p, lo) <= BackPos(batch, q, hi)
<1> DEFINE n == Len(batch)
<1>1. LoggedEdits(batch) /\ n \in Nat
  BY BatchNumbers DEF InLine
<1>2. PICK f : FirstReached(batch, p, f) /\ BackPos(batch, p, lo) = BackFrom(batch, p, lo, f)
  BY <1>1, BackOverFirst
<1>3. f \in 1 .. n + 1 /\ (\A i \in 1 .. n : i < f => p > Ends(batch, i)) /\ (f <= n => p <= Ends(batch, f))
  BY <1>2 DEF FirstReached
<1>4. PICK g : FirstReached(batch, q, g) /\ BackPos(batch, q, hi) = BackFrom(batch, q, hi, g)
  BY <1>1, BackOverFirst
<1>5. g \in 1 .. n + 1 /\ (\A i \in 1 .. n : i < g => q > Ends(batch, i)) /\ (g <= n => q <= Ends(batch, g))
  BY <1>4 DEF FirstReached
<1>6. f <= g
  <2>1. ASSUME g < f PROVE FALSE
    <3>1. g \in 1 .. n
      BY <1>1, <1>3, <1>5, <2>1
    <3>2. p > Ends(batch, g) /\ q <= Ends(batch, g) /\ Ends(batch, g) \in Int
      BY <1>1, <1>3, <1>5, <2>1, <3>1, BatchNumbers
    <3> QED
      BY <3>2
  <2> QED
    BY <1>3, <1>5, <2>1
<1>7. f - 1 \in 0 .. n /\ g - 1 \in 0 .. n
  BY <1>1, <1>3, <1>5
<1>8. Growth(batch, f - 1) \in Int /\ Growth(batch, g - 1) \in Int
  BY <1>1, <1>7, GrowthSteps
<1>9. ASSUME NEW i \in 1 .. n
      PROVE  batch[i].start \in Nat /\ batch[i].end \in Nat /\ batch[i].start <= batch[i].end
             /\ Lands(batch, i) = batch[i].start + Growth(batch, i - 1)
  BY <1>1, BatchNumbers DEF Lands
<1>10. CASE f = g
  <2>1. CASE f > n
    <3>1. f - 1 = n
      BY <1>1, <1>3, <2>1
    <3>2. BackFrom(batch, p, lo, f) = p - Growth(batch, n) /\ BackFrom(batch, q, hi, g) = q - Growth(batch, n)
      BY <1>10, <2>1 DEF BackFrom
    <3> QED
      BY <1>2, <1>4, <1>8, <3>1, <3>2
  <2>2. CASE f <= n
    <3>1. f \in 1 .. n /\ ~(f > n)
      BY <1>1, <1>3, <2>2
    <3>2. /\ batch[f].start \in Nat /\ batch[f].end \in Nat /\ batch[f].start <= batch[f].end
          /\ Lands(batch, f) = batch[f].start + Growth(batch, f - 1)
      BY <1>9, <3>1
    <3>3. BackFrom(batch, p, lo, f) = IF p < Lands(batch, f) THEN p - Growth(batch, f - 1) ELSE batch[f].start
      BY <3>1 DEF BackFrom
    <3>4. BackFrom(batch, q, hi, f) = IF q < Lands(batch, f) THEN q - Growth(batch, f - 1) ELSE batch[f].end
      BY <3>1 DEF BackFrom
    <3>5. BackFrom(batch, p, lo, f) <= BackFrom(batch, q, hi, f)
      BY <1>8, <3>2, <3>3, <3>4
    <3> QED
      BY <1>2, <1>4, <1>10, <3>5
  <2>3. f > n \/ f <= n
    BY <1>1, <1>3
  <2> QED
    BY Zenon, <2>1, <2>2, <2>3
<1>11. CASE f # g
  <2>1. f \in 1 .. n /\ ~(f > n) /\ g - 1 \in 1 .. n /\ f <= g - 1 /\ g - 1 < g
    BY <1>1, <1>3, <1>5, <1>6, <1>11
  <2>2. BackFrom(batch, p, lo, f) <= batch[f].start
    <3>1. /\ batch[f].start \in Nat /\ Lands(batch, f) = batch[f].start + Growth(batch, f - 1)
      BY <1>9, <2>1
    <3>2. BackFrom(batch, p, lo, f) = IF p < Lands(batch, f) THEN p - Growth(batch, f - 1) ELSE batch[f].start
      BY <2>1 DEF BackFrom
    <3> QED
      BY <1>8, <3>1, <3>2
  <2>3. BackFrom(batch, p, lo, f) \in Int
    <3>1. /\ batch[f].start \in Nat
      BY <1>9, <2>1
    <3>2. BackFrom(batch, p, lo, f) = IF p < Lands(batch, f) THEN p - Growth(batch, f - 1) ELSE batch[f].start
      BY <2>1 DEF BackFrom
    <3> QED
      BY <1>8, <3>1, <3>2
  <2>4. batch[f].end <= batch[g - 1].end
    <3>1. CASE f = g - 1
      BY <1>9, <2>1, <3>1
    <3>2. CASE f # g - 1
      <4>1. f < g - 1
        BY <1>3, <1>5, <2>1, <3>2
      <4>2. batch[f].end <= batch[g - 1].start
        BY <2>1, <4>1, BatchOrder
      <4>3. batch[g - 1].start <= batch[g - 1].end /\ batch[g - 1].start \in Nat /\ batch[g - 1].end \in Nat
        BY <1>9, <2>1
      <4>4. batch[f].end \in Nat
        BY <1>9, <2>1
      <4> QED
        BY <4>2, <4>3, <4>4
    <3> QED
      BY <3>1, <3>2
  <2>5. batch[g - 1].end <= q - Growth(batch, g - 1)
    <3>1. q > Ends(batch, g - 1) /\ batch[g - 1].end \in Nat
      BY <1>5, <1>9, <2>1
    <3> QED
      BY <1>8, <3>1 DEF Ends
  <2>6. batch[g - 1].end <= BackFrom(batch, q, hi, g) /\ BackFrom(batch, q, hi, g) \in Int
    <3>1. CASE g > n
      <4>1. g - 1 = n
        BY <1>1, <1>5, <3>1
      <4>2. BackFrom(batch, q, hi, g) = q - Growth(batch, g - 1)
        BY <3>1, <4>1 DEF BackFrom
      <4> QED
        BY <1>8, <2>5, <4>2
    <3>2. CASE g <= n
      <4>1. g \in 1 .. n /\ ~(g > n) /\ g - 1 < g
        BY <1>1, <1>5, <3>2
      <4>2. BackFrom(batch, q, hi, g) = IF q < Lands(batch, g) THEN q - Growth(batch, g - 1) ELSE batch[g].end
        BY <4>1 DEF BackFrom
      <4>3. batch[g - 1].end <= batch[g].start
        BY <2>1, <4>1, BatchOrder
      <4>4. batch[g - 1].end \in Nat /\ batch[g].start \in Nat /\ batch[g].end \in Nat /\ batch[g].start <= batch[g].end
        BY <1>9, <2>1, <4>1
      <4>5. batch[g - 1].end <= batch[g].end
        BY <4>3, <4>4
      <4> QED
        BY <1>8, <2>5, <4>2, <4>4, <4>5
    <3> QED
      BY <1>1, <1>5, <3>1, <3>2
  <2>7. batch[f].start \in Nat /\ batch[f].end \in Nat /\ batch[f].start <= batch[f].end /\ batch[g - 1].end \in Nat
    BY <1>9, <2>1
  <2>8. BackFrom(batch, p, lo, f) <= BackFrom(batch, q, hi, g)
    <3>1. PICK x, y, s, e, d : /\ x = BackFrom(batch, p, lo, f) /\ y = BackFrom(batch, q, hi, g)
                               /\ s = batch[f].start /\ e = batch[f].end /\ d = batch[g - 1].end
      OBVIOUS
    <3>2. x \in Int /\ y \in Int /\ s \in Nat /\ e \in Nat /\ d \in Nat
      BY <2>3, <2>6, <2>7, <3>1
    <3>3. x <= s /\ s <= e /\ e <= d /\ d <= y
      BY <2>2, <2>4, <2>6, <2>7, <3>1
    <3>4. x <= y
      BY <3>2, <3>3
    <3> QED
      BY <3>1, <3>4
  <2> QED
    BY <1>2, <1>4, <2>8
<1> QED
  BY <1>10, <1>11

(* A loop whose steps stay among some values computes what it says.        *)
LEMMA LoopCounts ==
  ASSUME NEW n, NEW V, NEW a, NEW step, Counts(n, V, a, step),
         NEW h, h \in [0 .. n -> {h[i] : i \in 0 .. n}], h[0] = a,
         \A i \in 1 .. n : h[i - 1] \in V => h[i] = step[i][h[i - 1]]
  PROVE  Counted(h, n, V, a, step)
<1>1. n \in Nat /\ a \in V /\ \A i \in 1 .. n, x \in V : step[i][x] \in V
  BY DEF Counts
<1> DEFINE T == {i \in 0 .. n : h[i] \in V}
<1>2. 0 \in T
  BY <1>1
<1>3. ASSUME NEW i \in 0 .. n - 1, i \in T PROVE i + 1 \in T
  <2>1. i + 1 \in 1 .. n /\ (i + 1) - 1 = i /\ i + 1 \in 0 .. n /\ h[i] \in V
    <3>1. i + 1 \in 1 .. n /\ (i + 1) - 1 = i /\ i + 1 \in 0 .. n
      BY <1>1, NextNumber
    <3>2. h[i] \in V
      BY <1>3
    <3> QED
      BY <3>1, <3>2
  <2>2. h[i + 1] = step[i + 1][h[i]]
    BY <2>1
  <2> QED
    BY <1>1, <2>1, <2>2
<1>4. \A i \in 0 .. n : i \in T
  <2> HIDE DEF T
  <2> QED
    BY <1>1, <1>2, <1>3, CountUp
<1>5. \A i \in 1 .. n : i - 1 \in 0 .. n
  BY <1>1
<1>6. \A i \in 0 .. n : h[i] \in V
  BY <1>4
<1>7. h \in [0 .. n -> V]
  BY <1>6
<1>8. \A i \in 1 .. n : h[i] = step[i][h[i - 1]]
  BY <1>5, <1>6
<1> QED
  BY <1>7, <1>8 DEF Counted

(* How far an offset moves is a number.                                    *)
LEMMA ShiftNumber ==
  ASSUME NEW batch, LoggedEdits(batch), NEW p, NEW after
  PROVE  Shift(batch, p, after) \in Int
<1>1. PICK d : ShiftLoop(d, batch, p, after) /\ Shift(batch, p, after) = d[Len(batch)]
  BY ShiftSteps
<1>2. Len(batch) \in 0 .. Len(batch)
  BY BatchNumbers
<1> QED
  BY <1>1, <1>2 DEF ShiftLoop

(* Going back over a batch gives an offset.                                *)
LEMMA BackNumber ==
  ASSUME NEW batch, LoggedEdits(batch), NEW p \in Int, NEW lo
  PROVE  BackPos(batch, p, lo) \in Int
<1> DEFINE n == Len(batch)
<1>1. n \in Nat
  BY BatchNumbers
<1>2. PICK f : FirstReached(batch, p, f) /\ BackPos(batch, p, lo) = BackFrom(batch, p, lo, f)
  BY BackOverFirst
<1>3. f \in 1 .. n + 1
  BY <1>2 DEF FirstReached
<1>4. f - 1 \in 0 .. n /\ n \in 0 .. n
  BY <1>1, <1>3
<1>5. Growth(batch, f - 1) \in Int /\ Growth(batch, n) \in Int
  BY <1>4, GrowthSteps
<1>6. ASSUME ~(f > n) PROVE batch[f].start \in Nat /\ batch[f].end \in Nat
  <2>1. f \in 1 .. n
    BY <1>1, <1>3, <1>6
  <2> QED
    BY <2>1, BatchNumbers
<1>7. BackFrom(batch, p, lo, f) \in Int
  BY <1>5, <1>6 DEF BackFrom
<1> QED
  BY <1>2, <1>7

(* An offset batch by batch.                                               *)
FwdLoop(at, batches, p, after) ==
  /\ at \in [0 .. Len(batches) -> Int] /\ at[0] = p
  /\ \A c \in 1 .. Len(batches) : at[c] = at[c - 1] + Shift(batches[c], at[c - 1], after)

(* Fwd goes from batch to batch.                                           *)
LEMMA FwdSteps ==
  ASSUME NEW batches, Len(batches) \in Nat, \A c \in 1 .. Len(batches) : LoggedEdits(batches[c]),
         NEW p \in Int, NEW after
  PROVE  \E at : FwdLoop(at, batches, p, after) /\ Fwd(batches, p, after) = at[Len(batches)]
<1> DEFINE n == Len(batches)
           One(i, x) == x + Shift(batches[i], x, after)
           Loop(g) == g = [i \in 0 .. n |-> IF i = 0 THEN p ELSE One(i, g[i - 1])]
           step == [i \in 1 .. n |-> [x \in Int |-> One(i, x)]]
<1>1. \A i \in 1 .. n, x \in Int : One(i, x) \in Int
  BY ShiftNumber
<1>2. \A i \in 1 .. n, x \in Int : step[i][x] = One(i, x)
  <2> HIDE DEF One
  <2> QED
    OBVIOUS
<1>3. Counts(n, Int, p, step)
  <2> HIDE DEF step, One
  <2> QED
    BY <1>1, <1>2 DEF Counts
<1>4. PICK g : Counted(g, n, Int, p, step)
  <2> HIDE DEF n, step
  <2> QED
    BY <1>3, RecursionOnNumbers
<1>5. n \in Nat /\ \A i \in 1 .. n : i \in 0 .. n /\ i - 1 \in 0 .. n /\ i # 0
  OBVIOUS
<1> HIDE DEF n, step, One
<1>6. g \in [0 .. n -> Int] /\ g[0] = p /\ \A i \in 1 .. n : g[i] = One(i, g[i - 1])
  BY <1>2, <1>4, <1>5 DEF Counted
<1>7. Loop(g)
  <2>1. \A i \in 0 .. n : g[i] = IF i = 0 THEN p ELSE One(i, g[i - 1])
    BY <1>5, <1>6
  <2>2. g = [i \in 0 .. n |-> g[i]]
    BY <1>6
  <2> QED
    BY <2>1, <2>2
<1>8. PICK h : Loop(h) /\ Fwd(batches, p, after) = h[n]
  <2>1. Fwd(batches, p, after) = (CHOOSE h : Loop(h))[n]
    BY DEF Fwd, One, n
  <2> HIDE DEF Loop
  <2> QED
    BY <1>7, <2>1
<1>9. h[0] = p /\ \A i \in 1 .. n : h[i] = One(i, h[i - 1])
  <2>1. \A i \in 0 .. n : h[i] = IF i = 0 THEN p ELSE One(i, h[i - 1])
    BY <1>8
  <2> QED
    BY <1>5, <2>1
<1>10. h \in [0 .. n -> {h[i] : i \in 0 .. n}]
  <2>1. h = [i \in 0 .. n |-> h[i]]
    <3>1. DOMAIN h = 0 .. n /\ h = [i \in DOMAIN h |-> h[i]]
      BY <1>8
    <3> QED
      BY <3>1
  <2> QED
    BY <2>1
<1>11. Counted(h, n, Int, p, step)
  <2> HIDE DEF Loop
  <2>1. \A i \in 1 .. n : h[i - 1] \in Int => h[i] = step[i][h[i - 1]]
    BY <1>2, <1>9
  <2> QED
    BY <1>3, <1>9, <1>10, <2>1, LoopCounts
<1>12. h \in [0 .. n -> Int]
  BY <1>11 DEF Counted
<1>13. FwdLoop(h, batches, p, after)
  BY <1>9, <1>12 DEF FwdLoop, One, n
<1> QED
  BY <1>8, <1>13 DEF n

(* An offset of the text before batch n + 1, back batch by batch.          *)
BackLoop(pos, batches, n, p, lo) ==
  /\ pos \in [0 .. n -> Int] /\ pos[n] = p
  /\ \A c \in 1 .. n : pos[c - 1] = BackPos(batches[c], pos[c], lo)

(* Back goes from batch to batch, from the last to the first.              *)
LEMMA BackSteps ==
  ASSUME NEW batches, Len(batches) \in Nat, \A c \in 1 .. Len(batches) : LoggedEdits(batches[c]),
         NEW n \in 0 .. Len(batches), NEW p \in Int, NEW lo
  PROVE  \E pos : BackLoop(pos, batches, n, p, lo) /\ Back(batches, n, p, lo) = pos[0]
<1> DEFINE One(i, x) == BackPos(batches[n + 1 - i], x, lo)
           Loop(g) == g = [i \in 0 .. n |-> IF i = 0 THEN p ELSE One(i, g[i - 1])]
           step == [i \in 1 .. n |-> [x \in Int |-> One(i, x)]]
<1>1. \A i \in 1 .. n, x \in Int : One(i, x) \in Int
  <2>1. ASSUME NEW i \in 1 .. n PROVE n + 1 - i \in 1 .. Len(batches)
    OBVIOUS
  <2> QED
    BY <2>1, BackNumber
<1>2. \A i \in 1 .. n, x \in Int : step[i][x] = One(i, x)
  <2> HIDE DEF One
  <2> QED
    OBVIOUS
<1>5. n \in Nat /\ \A i \in 1 .. n : i \in 0 .. n /\ i - 1 \in 0 .. n /\ i # 0
  OBVIOUS
<1>3. Counts(n, Int, p, step)
  <2> HIDE DEF step, One
  <2> QED
    BY <1>1, <1>2, <1>5 DEF Counts
<1>4. PICK g : Counted(g, n, Int, p, step)
  <2> HIDE DEF step
  <2> QED
    BY <1>3, RecursionOnNumbers
<1> HIDE DEF step, One
<1>6. g \in [0 .. n -> Int] /\ g[0] = p /\ \A i \in 1 .. n : g[i] = One(i, g[i - 1])
  BY <1>2, <1>4, <1>5 DEF Counted
<1>7. Loop(g)
  <2>1. \A i \in 0 .. n : g[i] = IF i = 0 THEN p ELSE One(i, g[i - 1])
    BY <1>5, <1>6
  <2>2. g = [i \in 0 .. n |-> g[i]]
    BY <1>6
  <2> QED
    BY <2>1, <2>2
<1>8. PICK h : Loop(h) /\ Back(batches, n, p, lo) = h[n]
  <2>1. Back(batches, n, p, lo) = (CHOOSE h : Loop(h))[n]
    BY DEF Back, One
  <2> HIDE DEF Loop
  <2> QED
    BY <1>7, <2>1
<1>9. h[0] = p /\ \A i \in 1 .. n : h[i] = One(i, h[i - 1])
  <2>1. \A i \in 0 .. n : h[i] = IF i = 0 THEN p ELSE One(i, h[i - 1])
    BY <1>8
  <2> QED
    BY <1>5, <2>1
<1>10. h \in [0 .. n -> {h[i] : i \in 0 .. n}]
  <2>1. h = [i \in 0 .. n |-> h[i]]
    <3>1. DOMAIN h = 0 .. n /\ h = [i \in DOMAIN h |-> h[i]]
      BY <1>8
    <3> QED
      BY <3>1
  <2> QED
    BY <2>1
<1>11. Counted(h, n, Int, p, step)
  <2> HIDE DEF Loop
  <2>1. \A i \in 1 .. n : h[i - 1] \in Int => h[i] = step[i][h[i - 1]]
    BY <1>2, <1>9
  <2> QED
    BY <1>3, <1>9, <1>10, <2>1, LoopCounts
<1>12. h \in [0 .. n -> Int]
  BY <1>11 DEF Counted
<1> DEFINE pos == [c \in 0 .. n |-> h[n - c]]
<1>13. BackLoop(pos, batches, n, p, lo)
  <2>1. \A c \in 0 .. n : n - c \in 0 .. n
    OBVIOUS
  <2>2. pos \in [0 .. n -> Int] /\ pos[n] = p
    <3>1. n \in 0 .. n /\ n - n = 0
      OBVIOUS
    <3> QED
      BY <1>9, <1>12, <2>1, <3>1
  <2>3. ASSUME NEW c \in 1 .. n PROVE pos[c - 1] = BackPos(batches[c], pos[c], lo)
    <3>1. /\ c \in 0 .. n /\ c - 1 \in 0 .. n /\ n - (c - 1) \in 1 .. n /\ n - (c - 1) - 1 = n - c
          /\ n + 1 - (n - (c - 1)) = c
      OBVIOUS
    <3>2. h[n - (c - 1)] = One(n - (c - 1), h[n - c])
      BY <1>9, <3>1
    <3>3. h[n - (c - 1)] = BackPos(batches[c], h[n - c], lo)
      BY <3>1, <3>2 DEF One
    <3> QED
      BY <3>1, <3>3
  <2> QED
    BY <2>2, <2>3 DEF BackLoop
<1>14. pos[0] = h[n]
  <2>1. 0 \in 0 .. n /\ n - 0 = n
    OBVIOUS
  <2> QED
    BY <2>1
<1> QED
  BY <1>8, <1>13, <1>14

(* Every edit of the batch is before a or after b.                         *)
Outside(batch, a, b) ==
  \A i \in 1 .. Len(batch) : batch[i].end <= a \/ b <= batch[i].start

(* a and b move alike, with the first k edits.                             *)
GapMoves(batch, a, b, after, before, k) ==
  /\ k \in 0 .. Len(batch)
  /\ Shift(batch, a, after) = Growth(batch, k) /\ Shift(batch, b, before) = Growth(batch, k)
  /\ Growth(batch, k) \in Int
  /\ \A i \in 1 .. Len(batch) : i <= k => batch[i].end <= a
  /\ \A i \in 1 .. Len(batch) : i > k => b <= batch[i].start

(* The ends of a range that every edit is outside of move alike.           *)
LEMMA GapStep ==
  ASSUME NEW batch, InLine(batch), NEW a \in Int, NEW b \in Int, a < b, Outside(batch, a, b),
         NEW after, after = TRUE, NEW before, before = FALSE
  PROVE  /\ ~Rewrites(batch, a) /\ ~Rewrites(batch, b)
         /\ \E k : GapMoves(batch, a, b, after, before, k)
<1> DEFINE n == Len(batch)
<1>1. LoggedEdits(batch) /\ n \in Nat /\ DOMAIN batch = 1 .. n
  BY BatchNumbers DEF InLine, LoggedEdits
<1>2. PICK k : MovedBy(batch, a, after, k)
  BY MovedByFirst
<1>3. k \in 0 .. n /\ Shift(batch, a, after) = Growth(batch, k) /\ Growth(batch, k) \in Int
  BY <1>1, <1>2, GrowthSteps DEF MovedBy
<1>4. ASSUME NEW i \in 1 .. n
      PROVE  /\ ~(batch[i].start < a /\ a < batch[i].end) /\ ~(batch[i].start < b /\ b < batch[i].end)
             /\ i <= k => batch[i].end <= a
             /\ ~(i <= k) => b <= batch[i].start
             /\ Moves(batch[i], b, before) <=> i <= k
  <2>1. Moves(batch[i], a, after) <=> i <= k
    BY <1>2 DEF MovedBy
  <2>2. batch[i].start \in Nat /\ batch[i].end \in Nat /\ batch[i].start <= batch[i].end
    BY <1>1, BatchNumbers
  <2>3. batch[i].end <= a \/ b <= batch[i].start
    BY DEF Outside
  <2>4. Moves(batch[i], a, after) <=> batch[i].end <= a
    BY <2>2, <2>3 DEF Moves, Inserts
  <2>5. Moves(batch[i], b, before) <=> batch[i].end <= a
    BY <2>2, <2>3 DEF Moves, Inserts
  <2>6. ~(batch[i].start < a /\ a < batch[i].end) /\ ~(batch[i].start < b /\ b < batch[i].end)
    BY <2>2, <2>3
  <2> QED
    BY Zenon, <2>1, <2>3, <2>4, <2>5, <2>6
<1>5. MovedBy(batch, b, before, k)
  BY <1>1, <1>3, <1>4, ShiftOfFirst
<1>6. Shift(batch, b, before) = Growth(batch, k)
  BY <1>5 DEF MovedBy
<1>7. \A i \in 1 .. n : i > k => ~(i <= k)
  BY <1>1, <1>3
<1>8. ~Rewrites(batch, a) /\ ~Rewrites(batch, b)
  BY <1>1, <1>4 DEF Rewrites
<1> QED
  BY <1>3, <1>4, <1>6, <1>7, <1>8 DEF GapMoves

(* Batches, each of a text of the length that the one before it left.      *)
Layers(batches, len) ==
  /\ Len(batches) \in Nat /\ DOMAIN batches = 1 .. Len(batches) /\ len \in [0 .. Len(batches) -> Nat]
  /\ \A c \in 1 .. Len(batches) :
       /\ InLine(batches[c]) /\ \A i \in 1 .. Len(batches[c]) : batches[c][i].end <= len[c - 1]
       /\ len[c] = len[c - 1] + Growth(batches[c], Len(batches[c]))

(* In the text before the batches, every edit is before x or after y.      *)
SpansOutside(batches, x, y, lo, hi) ==
  \A c \in 1 .. Len(batches) : \A i \in 1 .. Len(batches[c]) :
    Back(batches, c - 1, batches[c][i].end, hi) <= x \/ y <= Back(batches, c - 1, batches[c][i].start, lo)

(* x and y in the text after each batch.                                   *)
GapLoops(batches, x, y, A, B, after, before) ==
  /\ FwdLoop(A, batches, x, after) /\ FwdLoop(B, batches, y, before)
  /\ \A c \in 0 .. Len(batches) : B[c] - A[c] = y - x
  /\ \A c \in 1 .. Len(batches) : Outside(batches[c], A[c - 1], B[c - 1])

(* The same, and where they are in the last text.                          *)
GapPair(batches, x, y, A, B, lo, hi) ==
  /\ GapLoops(batches, x, y, A, B, lo, hi)
  /\ Fwd(batches, x, lo) = A[Len(batches)] /\ Fwd(batches, y, hi) = B[Len(batches)]

(* The ends of a gap between all edits stay as far apart as they are.      *)
LEMMA GapOffsets ==
  ASSUME NEW batches, NEW len, Layers(batches, len), NEW x \in Int, NEW y \in Int, x < y,
         NEW lo, lo = TRUE, NEW hi, hi = FALSE, SpansOutside(batches, x, y, lo, hi)
  PROVE  \E A, B : GapPair(batches, x, y, A, B, lo, hi)
<1> DEFINE K == Len(batches)
<1>1. K \in Nat /\ \A c \in 1 .. K : InLine(batches[c]) /\ LoggedEdits(batches[c])
  BY DEF Layers, InLine
<1>2. PICK A : FwdLoop(A, batches, x, lo) /\ Fwd(batches, x, lo) = A[K]
  BY <1>1, FwdSteps
<1>3. PICK B : FwdLoop(B, batches, y, hi) /\ Fwd(batches, y, hi) = B[K]
  BY <1>1, FwdSteps
<1>4. /\ A \in [0 .. K -> Int] /\ A[0] = x
      /\ \A c \in 1 .. K : A[c] = A[c - 1] + Shift(batches[c], A[c - 1], lo)
  BY <1>2 DEF FwdLoop
<1>5. /\ B \in [0 .. K -> Int] /\ B[0] = y
      /\ \A c \in 1 .. K : B[c] = B[c - 1] + Shift(batches[c], B[c - 1], hi)
  BY <1>3 DEF FwdLoop
<1>b. ASSUME NEW c \in 0 .. K, NEW p \in Int, NEW w
      PROVE  \E pos : BackLoop(pos, batches, c, p, w) /\ Back(batches, c, p, w) = pos[0]
  BY <1>1, BackSteps
<1> DEFINE Apart(c) == B[c] - A[c] = y - x
           Out(c) == Outside(batches[c], A[c - 1], B[c - 1])
           T == {c \in 0 .. K : (\A d \in 0 .. c : Apart(d)) /\ \A d \in 1 .. c : Out(d)}
<1>6. 0 \in T
  <2>1. Apart(0)
    BY <1>4, <1>5
  <2> QED
    BY <1>1, <2>1
<1>7. ASSUME NEW c \in 0 .. K - 1, c \in T PROVE c + 1 \in T
  <2>1. c + 1 \in 1 .. K /\ (c + 1) - 1 = c /\ c + 1 \in 0 .. K /\ c \in 0 .. K /\ c \in 0 .. c
        /\ c \in Nat /\ \A d \in 0 .. c + 1 : d \in 0 .. c \/ d = c + 1
    BY <1>1
  <2>2. (\A d \in 0 .. c : Apart(d)) /\ \A d \in 1 .. c : Out(d)
    BY <1>7
  <2> HIDE DEF T
  <2>3. ASSUME NEW d \in 0 .. c PROVE A[d] \in Int /\ B[d] \in Int /\ A[d] < B[d]
    <3>1. A[d] \in Int /\ B[d] \in Int
      <4>1. d \in 0 .. K
        BY <2>1
      <4> QED
        BY <1>4, <1>5, <4>1
    <3>2. B[d] - A[d] = y - x
      BY <2>2
    <3> QED
      BY <3>1, <3>2
  <2>4. ASSUME NEW d \in 0 .. c - 1
        PROVE  /\ d + 1 \in 1 .. K /\ (d + 1) - 1 = d /\ d \in 0 .. c /\ d + 1 \in 0 .. c
               /\ ~Rewrites(batches[d + 1], A[d]) /\ ~Rewrites(batches[d + 1], B[d])
               /\ InLine(batches[d + 1])
    <3>1. d + 1 \in 1 .. K /\ d + 1 \in 1 .. c /\ (d + 1) - 1 = d /\ d \in 0 .. c /\ d + 1 \in 0 .. c
      BY <2>1
    <3>2. Out(d + 1)
      BY <2>2, <3>1
    <3>3. Outside(batches[d + 1], A[d], B[d])
      BY <3>1, <3>2
    <3>4. A[d] \in Int /\ B[d] \in Int /\ A[d] < B[d]
      BY <2>3, <3>1
    <3>5. InLine(batches[d + 1])
      BY <1>1, <3>1
    <3> HIDE DEF Out
    <3>6. ~Rewrites(batches[d + 1], A[d]) /\ ~Rewrites(batches[d + 1], B[d])
      BY <3>3, <3>4, <3>5, GapStep
    <3> QED
      BY <3>1, <3>5, <3>6
  <2> HIDE DEF Out, Apart, K
  <2>5. ASSUME NEW i \in 1 .. Len(batches[c + 1])
        PROVE  batches[c + 1][i].end <= A[c] \/ B[c] <= batches[c + 1][i].start
    <3>0. PICK from, to : from = batches[c + 1][i].start /\ to = batches[c + 1][i].end
      OBVIOUS
    <3>1. Back(batches, c, to, hi) <= x \/ y <= Back(batches, c, from, lo)
      BY <2>1, <3>0 DEF SpansOutside, K
    <3>2. from \in Int /\ to \in Int
      <4>1. batches[c + 1][i].start \in Nat /\ batches[c + 1][i].end \in Nat
        BY <1>1, <2>1, BatchNumbers
      <4> QED
        BY <3>0, <4>1
    <3>3. CASE Back(batches, c, to, hi) <= x
      <4>0. \A w : \E pos : BackLoop(pos, batches, c, to, w) /\ Back(batches, c, to, w) = pos[0]
        BY <1>b, <2>1, <3>2
      <4>1. PICK pos : BackLoop(pos, batches, c, to, hi) /\ Back(batches, c, to, hi) = pos[0]
        BY Zenon, <4>0
      <4>2. /\ pos \in [0 .. c -> Int] /\ pos[c] = to
            /\ \A d \in 1 .. c : pos[d - 1] = BackPos(batches[d], pos[d], hi)
        BY <4>1 DEF BackLoop
      <4> DEFINE U == {d \in 0 .. c : pos[d] <= A[d]}
      <4>3. 0 \in U
        BY <1>4, <2>1, <3>3, <4>1
      <4>4. ASSUME NEW d \in 0 .. c - 1, d \in U PROVE d + 1 \in U
        <5>1. d + 1 \in 1 .. K /\ (d + 1) - 1 = d /\ d \in 0 .. c /\ d + 1 \in 0 .. c /\ d + 1 \in 1 .. c
          BY <2>1, <2>4, NextNumber
        <5>2. pos[d] <= A[d] /\ pos[d + 1] \in Int /\ A[d] \in Int
          BY <2>3, <4>2, <4>4, <5>1
        <5>3. pos[d] = BackPos(batches[d + 1], pos[d + 1], hi)
          BY <4>2, <5>1
        <5>4. InLine(batches[d + 1]) /\ ~Rewrites(batches[d + 1], A[d])
          BY <2>4
        <5>5. pos[d + 1] <= A[d] + Shift(batches[d + 1], A[d], lo)
          BY <5>2, <5>3, <5>4, BackBelow
        <5>6. A[d + 1] = A[d] + Shift(batches[d + 1], A[d], lo)
          BY <1>4, <5>1
        <5> QED
          BY <5>1, <5>5, <5>6
      <4> HIDE DEF U
      <4>5. \A d \in 0 .. c : d \in U
        BY <2>1, <4>3, <4>4, CountUp
      <4>6. pos[c] <= A[c]
        BY <2>1, <4>5 DEF U
      <4> QED
        BY <3>0, <4>2, <4>6
    <3>4. CASE y <= Back(batches, c, from, lo)
      <4>0. \A w : \E pos : BackLoop(pos, batches, c, from, w) /\ Back(batches, c, from, w) = pos[0]
        BY <1>b, <2>1, <3>2
      <4>1. PICK pos : BackLoop(pos, batches, c, from, lo) /\ Back(batches, c, from, lo) = pos[0]
        BY Zenon, <4>0
      <4>2. /\ pos \in [0 .. c -> Int] /\ pos[c] = from
            /\ \A d \in 1 .. c : pos[d - 1] = BackPos(batches[d], pos[d], lo)
        BY <4>1 DEF BackLoop
      <4> DEFINE U == {d \in 0 .. c : B[d] <= pos[d]}
      <4>3. 0 \in U
        BY <1>5, <2>1, <3>4, <4>1
      <4>4. ASSUME NEW d \in 0 .. c - 1, d \in U PROVE d + 1 \in U
        <5>1. d + 1 \in 1 .. K /\ (d + 1) - 1 = d /\ d \in 0 .. c /\ d + 1 \in 0 .. c /\ d + 1 \in 1 .. c
          BY <2>1, <2>4, NextNumber
        <5>2. B[d] <= pos[d] /\ pos[d + 1] \in Int /\ B[d] \in Int
          BY <2>3, <4>2, <4>4, <5>1
        <5>3. pos[d] = BackPos(batches[d + 1], pos[d + 1], lo)
          BY <4>2, <5>1
        <5>4. InLine(batches[d + 1]) /\ ~Rewrites(batches[d + 1], B[d])
          BY <2>4
        <5>5. B[d] + Shift(batches[d + 1], B[d], hi) <= pos[d + 1]
          BY <5>2, <5>3, <5>4, BackAbove
        <5>6. B[d + 1] = B[d] + Shift(batches[d + 1], B[d], hi)
          BY <1>5, <5>1
        <5> QED
          BY <5>1, <5>5, <5>6
      <4> HIDE DEF U
      <4>5. \A d \in 0 .. c : d \in U
        BY <2>1, <4>3, <4>4, CountUp
      <4>6. B[c] <= pos[c]
        BY <2>1, <4>5 DEF U
      <4> QED
        BY <3>0, <4>2, <4>6
    <3> QED
      BY <3>0, <3>1, <3>3, <3>4
  <2>6. Outside(batches[c + 1], A[c], B[c])
    BY <2>5 DEF Outside
  <2>7. Out(c + 1)
    BY <2>1, <2>6 DEF Out
  <2>8. Apart(c + 1)
    <3>1. A[c] \in Int /\ B[c] \in Int /\ A[c] < B[c]
      BY <2>1, <2>3
    <3>2. InLine(batches[c + 1])
      BY <1>1, <2>1
    <3>3. PICK k : GapMoves(batches[c + 1], A[c], B[c], lo, hi, k)
      BY <2>6, <3>1, <3>2, GapStep
    <3>4. A[c + 1] = A[c] + Shift(batches[c + 1], A[c], lo) /\ B[c + 1] = B[c] + Shift(batches[c + 1], B[c], hi)
      BY <1>4, <1>5, <2>1
    <3>5. B[c] - A[c] = y - x
      BY <2>1, <2>2 DEF Apart
    <3> QED
      BY <3>1, <3>3, <3>4, <3>5 DEF Apart, GapMoves
  <2>9. \A d \in 0 .. c + 1 : Apart(d)
    BY <2>1, <2>2, <2>8
  <2>10. \A d \in 1 .. c + 1 : Out(d)
    <3>1. \A d \in 1 .. c + 1 : d \in 1 .. c \/ d = c + 1
      BY <2>1
    <3> QED
      BY <2>2, <2>7, <3>1
  <2> QED
    BY <2>1, <2>9, <2>10 DEF T
<1>8. \A c \in 0 .. K : c \in T
  <2> HIDE DEF T, K
  <2> QED
    BY <1>1, <1>6, <1>7, CountUp
<1>9. (\A d \in 0 .. K : Apart(d)) /\ \A d \in 1 .. K : Out(d)
  <2>1. K \in 0 .. K
    BY <1>1
  <2>2. K \in T
    BY <1>8, <2>1
  <2> QED
    BY <2>2
<1>10. GapLoops(batches, x, y, A, B, lo, hi)
  BY <1>2, <1>3, <1>9 DEF GapLoops
<1>11. GapPair(batches, x, y, A, B, lo, hi)
  BY <1>2, <1>3, <1>10 DEF GapPair
<1> QED
  BY <1>11

(* The atoms of a text between two offsets. *)
Part(s, a, b) == SubSeq(s, a + 1, b)

(* A part of a text, atom by atom.                                         *)
LEMMA PartOf ==
  ASSUME NEW S, NEW s \in Seq(S), NEW a \in Nat, NEW b \in Nat, a <= b, b <= Len(s)
  PROVE  /\ Part(s, a, b) \in Seq(S) /\ Len(Part(s, a, b)) = b - a
         /\ \A i \in 1 .. b - a : Part(s, a, b)[i] = s[a + i]
<1>1. a + 1 \in Int /\ b \in Int /\ \A i \in a + 1 .. b : s[i] \in S
  <2>1. \A i \in a + 1 .. b : i \in 1 .. Len(s)
    OBVIOUS
  <2> QED
    BY <2>1
<1>2. /\ SubSeq(s, a + 1, b) \in Seq(S)
      /\ Len(SubSeq(s, a + 1, b)) = IF a + 1 <= b THEN b - (a + 1) + 1 ELSE 0
      /\ \A i \in 1 .. b - (a + 1) + 1 : SubSeq(s, a + 1, b)[i] = s[a + 1 + i - 1]
  BY <1>1, SubSeqProperties
<1>3. b - (a + 1) + 1 = b - a /\ \A i \in 1 .. b - a : a + 1 + i - 1 = a + i
  OBVIOUS
<1>4. Len(SubSeq(s, a + 1, b)) = b - a
  BY <1>2
<1>5. ASSUME NEW i \in 1 .. b - a PROVE SubSeq(s, a + 1, b)[i] = s[a + i]
  BY <1>2, <1>3
<1> QED
  BY <1>2, <1>4, <1>5 DEF Part

(* Two parts that hold the same are the same.                              *)
Agree(s, a, t, c, m) == \A i \in 1 .. m : s[a + i] = t[c + i]

(* Parts that hold the same atoms are the same.                            *)
LEMMA SamePart ==
  ASSUME NEW S, NEW s \in Seq(S), NEW t \in Seq(S), NEW a \in Nat, NEW b \in Nat, a <= b, b <= Len(s),
         NEW c \in Nat, NEW d \in Nat, d <= Len(t),
         NEW m, b - a = m, d - c = m, Agree(s, a, t, c, m)
  PROVE  Part(s, a, b) = Part(t, c, d)
<1>1. Part(s, a, b) \in Seq(S) /\ Len(Part(s, a, b)) = b - a
      /\ \A i \in 1 .. b - a : Part(s, a, b)[i] = s[a + i]
  BY PartOf
<1>2. Part(t, c, d) \in Seq(S) /\ Len(Part(t, c, d)) = d - c
      /\ \A i \in 1 .. d - c : Part(t, c, d)[i] = t[c + i]
  <2>1. c <= d
    OBVIOUS
  <2> QED
    BY <2>1, PartOf
<1>3. Len(Part(s, a, b)) = Len(Part(t, c, d))
      /\ \A i \in 1 .. Len(Part(s, a, b)) : Part(s, a, b)[i] = Part(t, c, d)[i]
  BY <1>1, <1>2 DEF Agree
<1> QED
  BY <1>1, <1>2, <1>3, SeqEqual

(* A text and its parts from end to end.                                   *)
LEMMA PartJoin ==
  ASSUME NEW S, NEW s \in Seq(S), NEW a \in Nat, NEW b \in Nat, NEW c \in Nat,
         a <= b, b <= c, c <= Len(s)
  PROVE  Part(s, a, b) \o Part(s, b, c) = Part(s, a, c)
<1>1. a + 1 \in 1 .. Len(s) + 1 /\ b \in (a + 1) - 1 .. Len(s) /\ c \in b .. Len(s)
  OBVIOUS
<1>2. SubSeq(s, a + 1, b) \o SubSeq(s, b + 1, c) = SubSeq(s, a + 1, c)
  BY <1>1, ConcatAdjacentSubSeq
<1> QED
  BY <1>2 DEF Part

(* A text is the whole of itself.                                          *)
LEMMA PartWhole ==
  ASSUME NEW S, NEW s \in Seq(S)
  PROVE  Part(s, 0, Len(s)) = s
<1>1. 0 + 1 = 1
  OBVIOUS
<1> QED
  BY <1>1, SubSeqFull DEF Part

(* Nothing is between an offset and itself.                                *)
LEMMA PartNone ==
  ASSUME NEW s, NEW a \in Nat
  PROVE  Part(s, a, a) = << >>
<1>1. a + 1 \in Int /\ a \in Int /\ a < a + 1
  OBVIOUS
<1> QED
  BY <1>1, SubSeqEmpty DEF Part

(* A part of a part is a part of the text.                                 *)
LEMMA PartOfPart ==
  ASSUME NEW S, NEW s \in Seq(S), NEW a \in Nat, NEW b \in Nat, a <= b, b <= Len(s),
         NEW c \in Nat, NEW d \in Nat, c <= d, d <= b - a
  PROVE  Part(Part(s, a, b), c, d) = Part(s, a + c, a + d)
<1>1. PICK u : u = Part(s, a, b)
  OBVIOUS
<1>2. u \in Seq(S) /\ Len(u) = b - a /\ \A i \in 1 .. b - a : u[i] = s[a + i]
  BY <1>1, PartOf
<1>3. PICK m, k, n : m = a + c /\ k = a + d /\ n = d - c
  OBVIOUS
<1>4. m \in Nat /\ k \in Nat /\ d - c = n /\ k - m = n /\ k <= Len(s) /\ d <= Len(u)
  BY <1>2, <1>3
<1>5. \A i \in 1 .. n : c + i \in 1 .. b - a /\ a + (c + i) = m + i
  BY <1>3
<1>6. Agree(u, c, s, m, n)
  BY <1>2, <1>5 DEF Agree
<1>7. u \in Seq(S)
  BY <1>2
<1>8. Part(u, c, d) = Part(s, m, k)
  BY <1>4, <1>6, <1>7, SamePart
<1> QED
  BY <1>1, <1>3, <1>8

(* Parts of a text put together of two. *)
LEMMA PartFront ==
  ASSUME NEW S, NEW s \in Seq(S), NEW t \in Seq(S), NEW a \in Nat, NEW b \in Nat, a <= b, b <= Len(s)
  PROVE  Part(s \o t, a, b) = Part(s, a, b)
<1>1. PICK u : u = s \o t
  OBVIOUS
<1>2. u \in Seq(S) /\ Len(u) = Len(s) + Len(t)
      /\ \A i \in 1 .. Len(s) + Len(t) : u[i] = IF i <= Len(s) THEN s[i] ELSE t[i - Len(s)]
  BY <1>1, ConcatProperties
<1>3. Len(s) \in Nat /\ Len(t) \in Nat
  OBVIOUS
<1>4. \A i \in 1 .. b - a : a + i \in 1 .. Len(s) + Len(t) /\ a + i <= Len(s)
  BY <1>3
<1>5. PICK n : n = b - a
  OBVIOUS
<1>7. Agree(u, a, s, a, n) /\ b <= Len(u) /\ b - a = n /\ u \in Seq(S)
  BY <1>2, <1>3, <1>4, <1>5 DEF Agree
<1>6. Part(u, a, b) = Part(s, a, b)
  BY <1>7, SamePart
<1> QED
  BY <1>1, <1>6

(* A part of what is put behind a text, found again in the whole.          *)
FoundBack(s, t, a, b) == Part(s \o t, Len(s) + a, Len(s) + b) = Part(t, a, b)

(* A part of a text that stands behind another.                            *)
LEMMA PartBack ==
  ASSUME NEW S, NEW s \in Seq(S), NEW t \in Seq(S), NEW a \in Nat, NEW b \in Nat, a <= b, b <= Len(t)
  PROVE  FoundBack(s, t, a, b)
<1>1. PICK u, c, d, n : u = s \o t /\ c = Len(s) + a /\ d = Len(s) + b /\ n = b - a
  OBVIOUS
<1>2. u \in Seq(S) /\ Len(u) = Len(s) + Len(t)
      /\ \A i \in 1 .. Len(s) + Len(t) : u[i] = IF i <= Len(s) THEN s[i] ELSE t[i - Len(s)]
  BY <1>1, ConcatProperties
<1>3. Len(s) \in Nat /\ Len(t) \in Nat
  OBVIOUS
<1>4. c \in Nat /\ d \in Nat /\ c <= d /\ d - c = n /\ b - a = n /\ d <= Len(u)
  BY <1>1, <1>2, <1>3
<1>5. \A i \in 1 .. n : c + i \in 1 .. Len(s) + Len(t) /\ ~(c + i <= Len(s)) /\ (c + i) - Len(s) = a + i
  BY <1>1, <1>3
<1>6. Agree(u, c, t, a, n)
  BY <1>2, <1>5 DEF Agree
<1>7. u \in Seq(S)
  BY <1>2
<1>8. Part(u, c, d) = Part(t, a, b)
  BY <1>4, <1>6, <1>7, SamePart
<1> QED
  BY <1>1, <1>8 DEF FoundBack

(* Edits of a text of length len, with texts over S, and such edits in     *)
(* order.  An edit may have more to it than its range and its text.        *)
EditsOver(S, len) == {e \in [start : 0 .. len, end : 0 .. len, text : Seq(S)] : e.start <= e.end}
IsEdit(S, len, e) ==
  /\ e.start \in Nat /\ e.end \in Nat /\ e.text \in Seq(S)
  /\ e.start <= e.end /\ e.end <= len
EditsIn(S, len, its) ==
  /\ \E V : its \in Seq(V)
  /\ \A i \in 1 .. Len(its) : IsEdit(S, len, its[i])
  /\ \A i \in 2 .. Len(its) : its[i - 1].end <= its[i].start

(* The edits of a text over S are such edits.                              *)
LEMMA EditsOverAre ==
  ASSUME NEW S, NEW len \in Nat, NEW e \in EditsOver(S, len)
  PROVE  IsEdit(S, len, e)
  BY DEF EditsOver, IsEdit

EndOf(its, i) == IF i = 0 THEN 0 ELSE its[i].end

(* Edits in order of a text, in numbers.                                   *)
LEMMA EditsNumbers ==
  ASSUME NEW S, NEW len \in Nat, NEW its, EditsIn(S, len, its)
  PROVE  /\ Len(its) \in Nat /\ EndOf(its, 0) = 0
         /\ \A i \in 1 .. Len(its) :
              /\ its[i].start \in Nat /\ its[i].end \in Nat /\ its[i].text \in Seq(S)
              /\ its[i].start <= its[i].end /\ its[i].end <= len /\ its[i].start <= len
              /\ EndOf(its, i) = its[i].end /\ EndOf(its, i - 1) <= its[i].start
              /\ i - 1 \in 0 .. Len(its) /\ i \in 0 .. Len(its)
         /\ \A i \in 0 .. Len(its) : EndOf(its, i) \in Nat /\ EndOf(its, i) <= len
<1>1. Len(its) \in Nat /\ \A i \in 2 .. Len(its) : its[i - 1].end <= its[i].start
  BY DEF EditsIn
<1>2. ASSUME NEW i \in 1 .. Len(its)
      PROVE  /\ its[i].start \in Nat /\ its[i].end \in Nat /\ its[i].text \in Seq(S)
             /\ its[i].start <= its[i].end /\ its[i].end <= len /\ its[i].start <= len
  <2>1. IsEdit(S, len, its[i])
    BY DEF EditsIn
  <2> QED
    BY <2>1 DEF IsEdit
<1>3. ASSUME NEW i \in 1 .. Len(its) PROVE EndOf(its, i) = its[i].end /\ EndOf(its, i - 1) <= its[i].start
  <2>1. EndOf(its, i) = its[i].end
    BY DEF EndOf
  <2>2. CASE i = 1
    <3>1. EndOf(its, i - 1) = 0
      BY <2>2 DEF EndOf
    <3> QED
      BY <1>2, <2>1, <3>1
  <2>3. CASE i # 1
    <3>1. i \in 2 .. Len(its) /\ i - 1 # 0
      BY <1>1, <2>3
    <3>2. EndOf(its, i - 1) = its[i - 1].end /\ its[i - 1].end <= its[i].start
      BY <1>1, <3>1 DEF EndOf
    <3> QED
      BY <2>1, <3>2
  <2> QED
    BY <2>2, <2>3
<1>4. EndOf(its, 0) = 0
  BY DEF EndOf
<1>5. ASSUME NEW i \in 0 .. Len(its) PROVE EndOf(its, i) \in Nat /\ EndOf(its, i) <= len
  <2>1. CASE i = 0
    BY <1>4, <2>1
  <2>2. CASE i # 0
    <3>1. i \in 1 .. Len(its)
      BY <1>1, <2>2
    <3> QED
      BY <1>2, <1>3, <3>1
  <2> QED
    BY <2>1, <2>2
<1>6. \A i \in 1 .. Len(its) : i - 1 \in 0 .. Len(its) /\ i \in 0 .. Len(its)
  BY <1>1
<1> QED
  BY <1>1, <1>2, <1>3, <1>4, <1>5, <1>6

(* A text put together edit by edit. *)
FrontLoop(b, S, t, its) ==
  /\ b \in [0 .. Len(its) -> Seq(S)] /\ b[0] = << >>
  /\ \A i \in 1 .. Len(its) : b[i] = (b[i - 1] \o Part(t, EndOf(its, i - 1), its[i].start)) \o its[i].text

(* applyText puts the text after the edits together edit by edit.          *)
LEMMA ApplySteps ==
  ASSUME NEW S, NEW t \in Seq(S), NEW its, EditsIn(S, Len(t), its)
  PROVE  \E b : /\ FrontLoop(b, S, t, its)
                /\ ApplyText(t, its) = b[Len(its)] \o Part(t, EndOf(its, Len(its)), Len(t))
<1> DEFINE n == Len(its)
           One(i, x) == (x \o Part(t, EndOf(its, i - 1), its[i].start)) \o its[i].text
           Loop(g) == g = [i \in 0 .. n |-> IF i = 0 THEN << >> ELSE One(i, g[i - 1])]
           step == [i \in 1 .. n |-> [x \in Seq(S) |-> One(i, x)]]
<1>0. Len(t) \in Nat
  OBVIOUS
<1>1. \A i \in 1 .. n, x \in Seq(S) : One(i, x) \in Seq(S)
  <2>1. ASSUME NEW i \in 1 .. n
        PROVE  Part(t, EndOf(its, i - 1), its[i].start) \in Seq(S) /\ its[i].text \in Seq(S)
    <3>1. /\ EndOf(its, i - 1) \in Nat /\ its[i].start \in Nat /\ its[i].text \in Seq(S)
          /\ EndOf(its, i - 1) <= its[i].start /\ its[i].start <= Len(t)
      BY <1>0, EditsNumbers
    <3> QED
      BY <3>1, PartOf
  <2> QED
    BY <2>1
<1>2. \A i \in 1 .. n, x \in Seq(S) : step[i][x] = One(i, x)
  <2> HIDE DEF One
  <2> QED
    OBVIOUS
<1>5. n \in Nat /\ \A i \in 1 .. n : i \in 0 .. n /\ i - 1 \in 0 .. n /\ i # 0
  BY <1>0, EditsNumbers
<1>3. Counts(n, Seq(S), << >>, step)
  <2> HIDE DEF step, One
  <2> QED
    BY <1>1, <1>2, <1>5 DEF Counts
<1>4. PICK g : Counted(g, n, Seq(S), << >>, step)
  <2> HIDE DEF n, step
  <2> QED
    BY <1>3, RecursionOnNumbers
<1> HIDE DEF n, step, One
<1>6. g \in [0 .. n -> Seq(S)] /\ g[0] = << >> /\ \A i \in 1 .. n : g[i] = One(i, g[i - 1])
  BY <1>2, <1>4, <1>5 DEF Counted
<1>7. Loop(g)
  <2>1. \A i \in 0 .. n : g[i] = IF i = 0 THEN << >> ELSE One(i, g[i - 1])
    BY <1>5, <1>6
  <2>2. g = [i \in 0 .. n |-> g[i]]
    BY <1>6
  <2> QED
    BY <2>1, <2>2
<1>8. PICK h : Loop(h) /\ ApplyText(t, its) = h[n] \o Part(t, EndOf(its, n), Len(t))
  <2>1. ApplyText(t, its) = (CHOOSE h : Loop(h))[n] \o Part(t, EndOf(its, n), Len(t))
    BY DEF ApplyText, One, n, Part, EndOf, Drop
  <2> HIDE DEF Loop
  <2> QED
    BY <1>7, <2>1
<1>9. h[0] = << >> /\ \A i \in 1 .. n : h[i] = One(i, h[i - 1])
  <2>1. \A i \in 0 .. n : h[i] = IF i = 0 THEN << >> ELSE One(i, h[i - 1])
    BY <1>8
  <2> QED
    BY <1>5, <2>1
<1>10. h \in [0 .. n -> {h[i] : i \in 0 .. n}]
  <2>1. h = [i \in 0 .. n |-> h[i]]
    <3>1. DOMAIN h = 0 .. n /\ h = [i \in DOMAIN h |-> h[i]]
      BY <1>8
    <3> QED
      BY <3>1
  <2> QED
    BY <2>1
<1>11. Counted(h, n, Seq(S), << >>, step)
  <2> HIDE DEF Loop
  <2>1. \A i \in 1 .. n : h[i - 1] \in Seq(S) => h[i] = step[i][h[i - 1]]
    BY <1>2, <1>9
  <2> QED
    BY <1>3, <1>9, <1>10, <2>1, LoopCounts
<1>12. h \in [0 .. n -> Seq(S)]
  BY <1>11 DEF Counted
<1>13. FrontLoop(h, S, t, its)
  BY <1>9, <1>12 DEF FrontLoop, One, n
<1> QED
  BY <1>8, <1>13 DEF n

(* Text put together from the same first edits is the same.                *)
LEMMA SameFront ==
  ASSUME NEW S, NEW t, NEW its, NEW more, NEW b, NEW c, FrontLoop(b, S, t, its), FrontLoop(c, S, t, more),
         NEW n \in Nat, n <= Len(its), n <= Len(more), Len(its) \in Nat, Len(more) \in Nat,
         \A i \in 1 .. n : its[i] = more[i]
  PROVE  \A i \in 0 .. n : b[i] = c[i]
<1>1. \A i \in 1 .. n : i \in 1 .. Len(its) /\ i \in 1 .. Len(more)
  OBVIOUS
<1>2. ASSUME NEW i \in 1 .. n PROVE EndOf(its, i - 1) = EndOf(more, i - 1)
  <2>1. CASE i = 1
    BY <2>1 DEF EndOf
  <2>2. CASE i # 1
    <3>1. i - 1 \in 1 .. n
      BY <2>2
    <3> QED
      BY <3>1 DEF EndOf
  <2> QED
    BY <2>1, <2>2
<1>3. ASSUME NEW i \in 1 .. n, b[i - 1] = c[i - 1] PROVE b[i] = c[i]
  <2>1. b[i] = (b[i - 1] \o Part(t, EndOf(its, i - 1), its[i].start)) \o its[i].text
    BY <1>1 DEF FrontLoop
  <2>2. c[i] = (c[i - 1] \o Part(t, EndOf(more, i - 1), more[i].start)) \o more[i].text
    BY <1>1 DEF FrontLoop
  <2>3. its[i] = more[i] /\ EndOf(its, i - 1) = EndOf(more, i - 1)
    BY <1>2
  <2> QED
    BY Zenon, <1>3, <2>1, <2>2, <2>3
<1>4. b[0] = c[0]
  BY DEF FrontLoop
<1> QED
  BY <1>3, <1>4, SameLoop

(* The log of edits in order is a batch in order, with their offsets and   *)
(* the lengths of their texts.                                             *)
LEMMA LoggedInLine ==
  ASSUME NEW S, NEW len \in Nat, NEW its, EditsIn(S, len, its)
  PROVE  /\ InLine(Logged(its)) /\ LoggedEdits(Logged(its)) /\ Len(Logged(its)) = Len(its)
         /\ \A i \in 1 .. Len(its) :
              /\ Logged(its)[i].start = its[i].start /\ Logged(its)[i].end = its[i].end
              /\ Logged(its)[i].n = Len(its[i].text)
<1> DEFINE log == Logged(its)
           n == Len(its)
<1>1. n \in Nat /\ DOMAIN its = 1 .. n
  BY DEF EditsIn
<1>2. log = [i \in 1 .. n |-> [start |-> its[i].start, end |-> its[i].end, n |-> Len(its[i].text)]]
  BY <1>1 DEF Logged
<1>3. \A i \in 1 .. n : log[i] = [start |-> its[i].start, end |-> its[i].end, n |-> Len(its[i].text)]
  BY <1>2
<1>4. log \in Seq(Range(log)) /\ Len(log) = n
  <2>1. DOMAIN log = 1 .. n
    BY <1>2
  <2>2. Range(log) = {log[i] : i \in 1 .. n}
    BY <2>1 DEF Range
  <2>3. log \in [1 .. n -> Range(log)]
    <3>1. log = [i \in 1 .. n |-> log[i]]
      BY <1>2, <1>3
    <3> HIDE DEF log, n
    <3> QED
      BY <2>2, <3>1
  <2> HIDE DEF log, n
  <2> QED
    BY <1>1, <2>3
<1>a. ASSUME NEW i \in 1 .. n
      PROVE  log[i].start = its[i].start /\ log[i].end = its[i].end /\ log[i].n = Len(its[i].text)
  <2>1. PICK r, x, y, z : r = log[i] /\ x = its[i].start /\ y = its[i].end /\ z = Len(its[i].text)
    OBVIOUS
  <2> HIDE DEF log, n
  <2>2. r = [start |-> x, end |-> y, n |-> z]
    BY Zenon, <1>3, <2>1
  <2>3. r.start = x /\ r.end = y /\ r.n = z
    BY <2>2
  <2> QED
    BY <2>1, <2>3
<1> HIDE DEF log, n
<1>5. ASSUME NEW i \in 1 .. n PROVE LoggedEdit(log[i])
  <2>1. its[i].start \in Nat /\ its[i].end \in Nat /\ its[i].text \in Seq(S) /\ its[i].start <= its[i].end
    BY EditsNumbers DEF n
  <2>2. Len(its[i].text) \in Nat
    BY <2>1
  <2> QED
    BY <1>a, <2>1, <2>2 DEF LoggedEdit
<1>6. LoggedEdits(log)
  BY <1>4, <1>5 DEF LoggedEdits
<1>7. ASSUME NEW i \in 2 .. n PROVE log[i - 1].end <= log[i].start
  <2>1. i - 1 \in 1 .. n /\ i \in 1 .. n
    BY <1>1
  <2>2. its[i - 1].end <= its[i].start
    BY DEF EditsIn, n
  <2> QED
    BY <1>a, <2>1, <2>2
<1>8. InLine(log)
  BY <1>4, <1>6, <1>7 DEF InLine
<1> QED
  BY <1>a, <1>4, <1>6, <1>8 DEF log, n

(* A text put behind another one. *)
PutAfter(u, s, t) ==
  /\ Len(u) = Len(s) + Len(t)
  /\ \A i \in 1 .. Len(s) : u[i] = s[i]
  /\ \A i \in 1 .. Len(t) : u[Len(s) + i] = t[i]

(* A text put behind another, atom by atom.                                *)
LEMMA PutBehind ==
  ASSUME NEW S, NEW s \in Seq(S), NEW t \in Seq(S)
  PROVE  s \o t \in Seq(S) /\ Len(s) \in Nat /\ Len(t) \in Nat /\ PutAfter(s \o t, s, t)
<1>1. s \o t \in Seq(S) /\ Len(s \o t) = Len(s) + Len(t)
      /\ \A i \in 1 .. Len(s) + Len(t) : (s \o t)[i] = IF i <= Len(s) THEN s[i] ELSE t[i - Len(s)]
  BY ConcatProperties
<1>2. Len(s) \in Nat /\ Len(t) \in Nat
  OBVIOUS
<1>3. PICK u, m, n : u = s \o t /\ m = Len(s) /\ n = Len(t)
  OBVIOUS
<1>4. \A i \in 1 .. m + n : u[i] = IF i <= m THEN s[i] ELSE t[i - m]
  BY Zenon, <1>1, <1>3
<1>5. m \in Nat /\ n \in Nat
  BY <1>2, <1>3
<1>6. \A i \in 1 .. m : u[i] = s[i]
  BY <1>4, <1>5
<1>7. ASSUME NEW i \in 1 .. n PROVE u[m + i] = t[i]
  <2>1. m + i \in 1 .. m + n /\ ~(m + i <= m) /\ (m + i) - m = i
    BY <1>5
  <2>2. u[m + i] = t[(m + i) - m]
    BY <1>4, <2>1
  <2> QED
    BY <2>1, <2>2
<1>8. PutAfter(u, s, t)
  BY Zenon, <1>1, <1>3, <1>6, <1>7 DEF PutAfter
<1> QED
  BY <1>1, <1>2, <1>3, <1>8

(* A part of t put behind s makes u: the atoms of the part are g further   *)
(* on than in t.                                                           *)
Moved(u, s, t, a, b, g) ==
  /\ Len(u) = b + g
  /\ \A i \in 1 .. Len(s) : u[i] = s[i]
  /\ \A j \in 1 .. Len(t) : a < j /\ j <= b => j + g \in 1 .. Len(u) /\ u[j + g] = t[j]

(* A part of a text put behind another is only moved.                      *)
LEMMA PartBehind ==
  ASSUME NEW S, NEW s \in Seq(S), NEW t \in Seq(S), NEW a \in Nat, NEW b \in Nat, a <= b, b <= Len(t),
         NEW g \in Int, Len(s) = a + g
  PROVE  s \o Part(t, a, b) \in Seq(S) /\ Moved(s \o Part(t, a, b), s, t, a, b, g)
<1>1. PICK p : p = Part(t, a, b)
  OBVIOUS
<1>2. p \in Seq(S) /\ Len(p) = b - a /\ \A i \in 1 .. b - a : p[i] = t[a + i]
  BY <1>1, PartOf
<1>3. PICK u : u = s \o p
  OBVIOUS
<1>7. u \in Seq(S) /\ Len(s) \in Nat /\ PutAfter(u, s, p)
  BY <1>2, <1>3, PutBehind
<1>4. /\ Len(u) = Len(s) + Len(p)
      /\ \A i \in 1 .. Len(s) : u[i] = s[i]
      /\ \A i \in 1 .. Len(p) : u[Len(s) + i] = p[i]
  BY <1>7 DEF PutAfter
<1>8. Len(u) = Len(s) + Len(p) /\ Len(p) = b - a
  BY <1>2, <1>4
<1>5. Len(u) = b + g
  BY <1>8
<1>6. ASSUME NEW j \in 1 .. Len(t), a < j, j <= b PROVE j + g \in 1 .. Len(u) /\ u[j + g] = t[j]
  <2>1. j - a \in 1 .. b - a /\ a + (j - a) = j
    BY <1>6
  <2>2. Len(s) + (j - a) = j + g /\ j + g \in 1 .. Len(u)
    BY <1>5, <1>6
  <2>3. p[j - a] = t[j]
    BY <1>2, <2>1
  <2>4. u[Len(s) + (j - a)] = p[j - a]
    BY <1>2, <1>4, <2>1
  <2> QED
    BY <2>2, <2>3, <2>4
<1>9. Moved(u, s, t, a, b, g)
  BY <1>4, <1>5, <1>6 DEF Moved
<1> QED
  BY <1>1, <1>3, <1>7, <1>9

(* What no edit of a batch touches stands in the text after it, as far     *)
(* away as the edits before it have moved it.                              *)
Between(batch, k, j) ==
  /\ \A i \in 1 .. Len(batch) : i <= k => batch[i].end < j
  /\ \A i \in 1 .. Len(batch) : i > k => j <= batch[i].start

Carries(t, batch, after) ==
  /\ Len(after) = Len(t) + Growth(batch, Len(batch))
  /\ \A k \in 0 .. Len(batch), j \in 1 .. Len(t) :
       Between(batch, k, j) =>
         j + Growth(batch, k) \in 1 .. Len(after) /\ after[j + Growth(batch, k)] = t[j]

(* Applying edits carries what none of them touches.                       *)
LEMMA ApplyCarries ==
  ASSUME NEW S, NEW t \in Seq(S), NEW its, EditsIn(S, Len(t), its)
  PROVE  ApplyText(t, its) \in Seq(S) /\ Carries(t, Logged(its), ApplyText(t, its))
<1> DEFINE n == Len(its)
           log == Logged(its)
           g(i) == Growth(log, i)
<1>1. PICK b : FrontLoop(b, S, t, its) /\ ApplyText(t, its) = b[n] \o Part(t, EndOf(its, n), Len(t))
  BY ApplySteps
<1>2. Len(t) \in Nat
  OBVIOUS
<1>3. /\ n \in Nat /\ EndOf(its, 0) = 0
      /\ \A i \in 1 .. n :
           /\ its[i].start \in Nat /\ its[i].end \in Nat /\ its[i].text \in Seq(S)
           /\ its[i].start <= its[i].end /\ its[i].end <= Len(t) /\ its[i].start <= Len(t)
           /\ EndOf(its, i) = its[i].end /\ EndOf(its, i - 1) <= its[i].start
           /\ i - 1 \in 0 .. n /\ i \in 0 .. n
      /\ \A i \in 0 .. n : EndOf(its, i) \in Nat /\ EndOf(its, i) <= Len(t)
  BY <1>2, EditsNumbers
<1>4. /\ LoggedEdits(log) /\ Len(log) = n
      /\ \A i \in 1 .. n :
           log[i].start = its[i].start /\ log[i].end = its[i].end /\ log[i].n = Len(its[i].text)
  BY <1>2, LoggedInLine
<1>5. g(0) = 0 /\ \A i \in 0 .. n : g(i) \in Int
  BY <1>4, GrowthSteps
<1>6. ASSUME NEW i \in 1 .. n
      PROVE  g(i) = g(i - 1) + Len(its[i].text) - (its[i].end - its[i].start)
  BY <1>4, BatchNumbers
<1>7. /\ b \in [0 .. n -> Seq(S)] /\ b[0] = << >>
      /\ \A i \in 1 .. n : b[i] = (b[i - 1] \o Part(t, EndOf(its, i - 1), its[i].start)) \o its[i].text
  BY <1>1 DEF FrontLoop
<1> HIDE DEF n, log, g
<1> DEFINE Kept(u, k) ==
             \A j \in 1 .. Len(t) : EndOf(its, k) < j /\ j <= its[k + 1].start =>
                 j + g(k) \in 1 .. Len(u) /\ u[j + g(k)] = t[j]
           Right(i) == Len(b[i]) = EndOf(its, i) + g(i) /\ \A k \in 0 .. i - 1 : Kept(b[i], k)
           T == {i \in 0 .. n : Right(i)}
<1>8. 0 \in T
  <2>1. Len(b[0]) = EndOf(its, 0) + g(0)
    BY <1>3, <1>5, <1>7
  <2> QED
    BY <1>3, <2>1
<1>9. ASSUME NEW i \in 0 .. n - 1, i \in T PROVE i + 1 \in T
  <2>1. i + 1 \in 1 .. n /\ (i + 1) - 1 = i /\ i + 1 \in 0 .. n /\ i \in 0 .. n /\ i \in Nat
    BY <1>3, NextNumber
  <2>2. Len(b[i]) = EndOf(its, i) + g(i) /\ \A k \in 0 .. i - 1 : Kept(b[i], k)
    BY <1>9
  <2> HIDE DEF Kept, T
  <2>3. /\ EndOf(its, i) \in Nat /\ its[i + 1].start \in Nat /\ EndOf(its, i) <= its[i + 1].start
        /\ its[i + 1].start <= Len(t) /\ its[i + 1].end \in Nat /\ its[i + 1].text \in Seq(S)
        /\ EndOf(its, i + 1) = its[i + 1].end
    BY <1>3, <2>1
  <2>4. b[i] \in Seq(S) /\ g(i) \in Int
    BY <1>5, <1>7, <2>1
  <2>a. PICK from, to, d, more, u :
          /\ from = EndOf(its, i) /\ to = its[i + 1].start /\ d = g(i) /\ more = its[i + 1].text
          /\ u = b[i] \o Part(t, from, to)
    OBVIOUS
  <2>b. /\ from \in Nat /\ to \in Nat /\ from <= to /\ to <= Len(t) /\ d \in Int /\ b[i] \in Seq(S)
        /\ Len(b[i]) = from + d /\ more \in Seq(S)
    BY <2>2, <2>3, <2>4, <2>a
  <2>c. u \in Seq(S) /\ Moved(u, b[i], t, from, to, d)
    BY <2>a, <2>b, PartBehind
  <2>5. /\ Len(u) = its[i + 1].start + g(i)
        /\ \A m \in 1 .. Len(b[i]) : u[m] = b[i][m]
        /\ \A j \in 1 .. Len(t) : EndOf(its, i) < j /\ j <= its[i + 1].start =>
             j + g(i) \in 1 .. Len(u) /\ u[j + g(i)] = t[j]
    BY Zenon, <2>a, <2>c DEF Moved
  <2>6. b[i + 1] = u \o more
    BY <1>7, <2>1, <2>a
  <2>d. Len(u) \in Nat /\ Len(more) \in Nat /\ PutAfter(b[i + 1], u, more)
    BY <2>b, <2>c, <2>6, PutBehind
  <2>7. /\ Len(u) \in Nat /\ Len(its[i + 1].text) \in Nat
        /\ Len(b[i + 1]) = Len(u) + Len(its[i + 1].text)
        /\ \A m \in 1 .. Len(u) : b[i + 1][m] = u[m]
    BY Zenon, <2>a, <2>d DEF PutAfter
  <2>8. Len(b[i + 1]) = EndOf(its, i + 1) + g(i + 1)
    <3>1. g(i + 1) = g(i) + Len(its[i + 1].text) - (its[i + 1].end - its[i + 1].start)
      BY <1>6, <2>1
    <3>2. PICK x, y, s, e, d2, l : /\ x = g(i + 1) /\ y = Len(b[i + 1]) /\ s = its[i + 1].start
                                   /\ e = its[i + 1].end /\ d2 = g(i) /\ l = Len(its[i + 1].text)
      OBVIOUS
    <3>3. x = d2 + l - (e - s) /\ y = (s + d2) + l /\ s \in Nat /\ e \in Nat /\ d2 \in Int /\ l \in Nat
      BY <2>3, <2>4, <2>5, <2>7, <3>1, <3>2
    <3>4. y = e + x
      BY <3>3
    <3> QED
      BY <2>3, <3>2, <3>4
  <2>9. ASSUME NEW k \in 0 .. i PROVE Kept(b[i + 1], k)
    <3>1. CASE k = i
      <4>1. \A m \in 1 .. Len(u) : m \in 1 .. Len(b[i + 1])
        BY <2>7
      <4>2. Kept(b[i + 1], i)
        BY <2>1, <2>5, <2>7, <4>1 DEF Kept
      <4> QED
        BY <3>1, <4>2
    <3>2. CASE k # i
      <4>1. k \in 0 .. i - 1
        BY <2>1, <3>2
      <4>2. Kept(b[i], k)
        BY <2>2, <4>1
      <4>3. Len(b[i]) \in Nat /\ Len(b[i]) <= Len(u)
        <5>1. Len(b[i]) \in Nat
          BY <2>4
        <5>2. Len(b[i]) = from + d /\ Len(u) = to + d /\ from <= to
          BY <2>a, <2>b, <2>5
        <5> QED
          BY <2>b, <5>1, <5>2
      <4>4. \A m \in 1 .. Len(b[i]) : m \in 1 .. Len(u) /\ m \in 1 .. Len(b[i + 1])
        BY <2>7, <4>3
      <4>5. \A m \in 1 .. Len(b[i]) : b[i + 1][m] = b[i][m]
        BY <2>5, <2>7, <4>4
      <4> QED
        BY <4>2, <4>4, <4>5 DEF Kept
    <3> QED
      BY <3>1, <3>2
  <2>10. \A k \in 0 .. (i + 1) - 1 : Kept(b[i + 1], k)
    BY <2>1, <2>9
  <2> QED
    BY <2>1, <2>8, <2>10 DEF T
<1>10. \A i \in 0 .. n : i \in T
  <2> HIDE DEF T
  <2> QED
    BY <1>3, <1>8, <1>9, CountUp
<1>11. Right(n) /\ n \in 0 .. n
  <2>1. n \in 0 .. n
    BY <1>3
  <2>2. n \in T
    BY <1>10, <2>1
  <2> QED
    BY <2>1, <2>2
<1> HIDE DEF T, Kept
<1>12. EndOf(its, n) \in Nat /\ EndOf(its, n) <= Len(t) /\ g(n) \in Int /\ b[n] \in Seq(S)
  BY <1>3, <1>5, <1>7, <1>11
<1>a. PICK from, to, d, u : /\ from = EndOf(its, n) /\ to = Len(t) /\ d = g(n)
                            /\ u = b[n] \o Part(t, from, to)
  OBVIOUS
<1>b. /\ from \in Nat /\ to \in Nat /\ from <= to /\ to <= Len(t) /\ d \in Int /\ b[n] \in Seq(S)
      /\ Len(b[n]) = from + d
  BY <1>2, <1>11, <1>12, <1>a
<1>c. u \in Seq(S) /\ Moved(u, b[n], t, from, to, d)
  BY <1>a, <1>b, PartBehind
<1>13. /\ Len(u) = Len(t) + g(n)
       /\ \A m \in 1 .. Len(b[n]) : u[m] = b[n][m]
       /\ \A j \in 1 .. Len(t) : EndOf(its, n) < j /\ j <= Len(t) =>
            j + g(n) \in 1 .. Len(u) /\ u[j + g(n)] = t[j]
  BY Zenon, <1>a, <1>c DEF Moved
<1>14. ASSUME NEW k \in 0 .. n, NEW j \in 1 .. Len(t), Between(log, k, j)
       PROVE  j + g(k) \in 1 .. Len(u) /\ u[j + g(k)] = t[j]
  <2>1. (\A i \in 1 .. n : i <= k => its[i].end < j) /\ \A i \in 1 .. n : i > k => j <= its[i].start
    BY <1>4, <1>14 DEF Between
  <2>2. EndOf(its, k) < j
    <3>1. CASE k = 0
      BY <1>3, <3>1
    <3>2. CASE k # 0
      <4>1. k \in 1 .. n /\ k <= k
        BY <1>3, <3>2
      <4> QED
        BY <1>3, <2>1, <4>1
    <3> QED
      BY <3>1, <3>2
  <2>3. CASE k = n
    <3>1. j <= Len(t)
      BY <1>2
    <3> QED
      BY <1>13, <2>2, <2>3, <3>1
  <2>4. CASE k # n
    <3>1. k \in 0 .. n - 1 /\ k + 1 \in 1 .. n /\ k + 1 > k
      BY <1>3, <2>4
    <3>2. j <= its[k + 1].start
      BY <2>1, <3>1
    <3>3. j + g(k) \in 1 .. Len(b[n]) /\ b[n][j + g(k)] = t[j]
      BY <1>11, <2>2, <3>1, <3>2 DEF Kept
    <3>4. Len(b[n]) \in Nat /\ Len(b[n]) <= Len(u)
      <4>1. Len(b[n]) \in Nat
        BY <1>12
      <4>2. Len(b[n]) = from + d /\ Len(u) = to + d /\ from <= to
        BY <1>a, <1>b, <1>13
      <4> QED
        BY <1>b, <4>1, <4>2
    <3>5. j + g(k) \in 1 .. Len(u)
      BY <3>3, <3>4
    <3> QED
      BY <1>13, <3>3, <3>5
  <2> QED
    BY <2>3, <2>4
<1>15. Carries(t, log, u)
  BY <1>4, <1>13, <1>14 DEF Carries, g
<1>16. ApplyText(t, its) = u
  BY <1>1, <1>a DEF n
<1> QED
  BY <1>c, <1>15, <1>16 DEF log

(* Texts, each made of the one before it by a batch. *)
TextChain(S, batches, texts) ==
  /\ Len(batches) \in Nat /\ DOMAIN batches = 1 .. Len(batches)
  /\ texts \in [0 .. Len(batches) -> Seq(S)]
  /\ \A c \in 1 .. Len(batches) :
       /\ InLine(batches[c]) /\ \A i \in 1 .. Len(batches[c]) : batches[c][i].end <= Len(texts[c - 1])
       /\ Carries(texts[c - 1], batches[c], texts[c])

(* The lengths of the texts of a chain are the layers of its batches.      *)
LEMMA ChainLayers ==
  ASSUME NEW S, NEW batches, NEW texts, TextChain(S, batches, texts)
  PROVE  \E len : /\ Layers(batches, len) /\ \A c \in 0 .. Len(batches) : len[c] = Len(texts[c])
<1> DEFINE K == Len(batches)
           len == [c \in 0 .. K |-> Len(texts[c])]
<1>1. K \in Nat /\ texts \in [0 .. K -> Seq(S)]
  BY DEF TextChain
<1>2. \A c \in 1 .. K : c \in 0 .. K /\ c - 1 \in 0 .. K
  BY <1>1
<1>3. \A c \in 0 .. K : len[c] = Len(texts[c])
  OBVIOUS
<1>4. len \in [0 .. K -> Nat]
  <2>1. \A c \in 0 .. K : Len(texts[c]) \in Nat
    BY <1>1
  <2> HIDE DEF K
  <2> QED
    BY <2>1
<1> HIDE DEF len
<1>5. ASSUME NEW c \in 1 .. K
      PROVE  /\ InLine(batches[c]) /\ \A i \in 1 .. Len(batches[c]) : batches[c][i].end <= len[c - 1]
             /\ len[c] = len[c - 1] + Growth(batches[c], Len(batches[c]))
  <2>1. /\ InLine(batches[c]) /\ \A i \in 1 .. Len(batches[c]) : batches[c][i].end <= Len(texts[c - 1])
        /\ Carries(texts[c - 1], batches[c], texts[c])
    BY DEF TextChain
  <2>2. Len(texts[c]) = Len(texts[c - 1]) + Growth(batches[c], Len(batches[c]))
    BY <2>1 DEF Carries
  <2>3. len[c] = Len(texts[c]) /\ len[c - 1] = Len(texts[c - 1])
    BY <1>2, <1>3
  <2> QED
    BY <2>1, <2>2, <2>3
<1>6. Layers(batches, len)
  BY <1>1, <1>4, <1>5 DEF Layers
<1> QED
  BY <1>3, <1>6

(* Atom j, as far from the start of a gap in each text as in the first.    *)
Kept(texts, A, x, j, n) ==
  \A c \in 0 .. n : j + (A[c] - x) \in 1 .. Len(texts[c]) /\ texts[c][j + (A[c] - x)] = texts[0][j]

(* Text that every edit is outside of is only moved.                       *)
LEMMA GapText ==
  ASSUME NEW S, NEW batches, NEW texts, TextChain(S, batches, texts),
         NEW x \in Int, NEW y \in Int, x < y, NEW A, NEW B,
         NEW lo, lo = TRUE, NEW hi, hi = FALSE, GapLoops(batches, x, y, A, B, lo, hi),
         NEW j \in 1 .. Len(texts[0]), x < j, j <= y
  PROVE  Kept(texts, A, x, j, Len(batches))
<1> USE DEF Kept
<1> DEFINE K == Len(batches)
           At(c) == j + (A[c] - x)
           T == {c \in 0 .. K : At(c) \in 1 .. Len(texts[c]) /\ texts[c][At(c)] = texts[0][j]}
<1>1. K \in Nat /\ \A c \in 1 .. K : InLine(batches[c]) /\ Carries(texts[c - 1], batches[c], texts[c])
  BY DEF TextChain
<1>2. /\ A \in [0 .. K -> Int] /\ A[0] = x
      /\ \A c \in 1 .. K : A[c] = A[c - 1] + Shift(batches[c], A[c - 1], lo)
  BY DEF GapLoops, FwdLoop
<1>3. B \in [0 .. K -> Int] /\ \A c \in 0 .. K : B[c] - A[c] = y - x
  BY DEF GapLoops, FwdLoop
<1>4. \A c \in 1 .. K : Outside(batches[c], A[c - 1], B[c - 1])
  BY DEF GapLoops
<1>5. 0 \in T
  <2>1. At(0) = j
    BY <1>2
  <2> QED
    BY <1>1, <2>1
<1>6. ASSUME NEW c \in 0 .. K - 1, c \in T PROVE c + 1 \in T
  <2>1. c + 1 \in 1 .. K /\ (c + 1) - 1 = c /\ c + 1 \in 0 .. K /\ c \in 0 .. K
    BY <1>1
  <2>2. PICK batch, a, b, t, u, a2, p :
          /\ batch = batches[c + 1] /\ a = A[c] /\ b = B[c] /\ t = texts[c] /\ u = texts[c + 1]
          /\ a2 = A[c + 1] /\ p = At(c)
    OBVIOUS
  <2>3. a \in Int /\ b \in Int /\ b - a = y - x /\ a < b /\ p = j + (a - x) /\ a < p /\ p <= b
    BY SMTT(30), <1>2, <1>3, <2>1, <2>2
  <2>4. InLine(batch) /\ Carries(t, batch, u) /\ Outside(batch, a, b)
    BY <1>1, <1>4, <2>1, <2>2
  <2>5. a2 = a + Shift(batch, a, lo)
    BY <1>2, <2>1, <2>2
  <2>6. p \in 1 .. Len(t) /\ t[p] = texts[0][j]
    BY <1>6, <2>2
  <2> HIDE DEF T, At
  <2>7. PICK k : GapMoves(batch, a, b, lo, hi, k)
    BY <2>3, <2>4, GapStep
  <2>8. k \in 0 .. Len(batch) /\ a2 = a + Growth(batch, k) /\ Growth(batch, k) \in Int
        /\ (\A i \in 1 .. Len(batch) : i <= k => batch[i].end <= a)
        /\ \A i \in 1 .. Len(batch) : i > k => b <= batch[i].start
    BY <2>5, <2>7 DEF GapMoves
  <2>9. Between(batch, k, p)
    <3>1. \A i \in 1 .. Len(batch) : batch[i].start \in Nat /\ batch[i].end \in Nat
      BY <2>4, BatchNumbers DEF InLine
    <3> QED
      BY SMTT(30), <2>3, <2>8, <3>1 DEF Between
  <2>10. p + Growth(batch, k) \in 1 .. Len(u) /\ u[p + Growth(batch, k)] = t[p]
    BY <2>4, <2>6, <2>8, <2>9 DEF Carries
  <2>11. At(c + 1) = p + Growth(batch, k)
    <3>1. At(c + 1) = j + (a2 - x)
      BY <2>2 DEF At
    <3> QED
      BY <2>3, <2>8, <3>1
  <2>12. At(c + 1) \in 1 .. Len(texts[c + 1]) /\ texts[c + 1][At(c + 1)] = texts[0][j]
    BY Zenon, <2>2, <2>6, <2>10, <2>11
  <2> QED
    BY <2>1, <2>12 DEF T
<1>7. \A c \in 0 .. K : c \in T
  <2> HIDE DEF T, K
  <2> QED
    BY <1>1, <1>5, <1>6, CountUp
<1> QED
  BY <1>7

(* What stands before the text stays there, and what stands after it moves *)
(* with its end.                                                           *)
LEMMA FwdFront ==
  ASSUME NEW batches, NEW len, Layers(batches, len), NEW p \in Int, p < 0, NEW after \in BOOLEAN
  PROVE  Fwd(batches, p, after) = p
<1> DEFINE K == Len(batches)
<1>1. K \in Nat /\ \A c \in 1 .. K : InLine(batches[c]) /\ LoggedEdits(batches[c])
  BY DEF Layers, InLine
<1>2. PICK at : FwdLoop(at, batches, p, after) /\ Fwd(batches, p, after) = at[K]
  BY <1>1, FwdSteps
<1>3. /\ at \in [0 .. K -> Int] /\ at[0] = p
      /\ \A c \in 1 .. K : at[c] = at[c - 1] + Shift(batches[c], at[c - 1], after)
  BY <1>2 DEF FwdLoop
<1> DEFINE T == {c \in 0 .. K : at[c] = p}
<1>4. 0 \in T
  BY <1>1, <1>3
<1>5. ASSUME NEW c \in 0 .. K - 1, c \in T PROVE c + 1 \in T
  <2>1. c + 1 \in 1 .. K /\ (c + 1) - 1 = c /\ c + 1 \in 0 .. K /\ at[c] = p
    BY <1>1, <1>5
  <2>2. LoggedEdits(batches[c + 1])
    BY <1>1, <2>1
  <2>3. ASSUME NEW i \in 1 .. Len(batches[c + 1]) PROVE Moves(batches[c + 1][i], p, after) <=> i <= 0
    <3>1. batches[c + 1][i].start \in Nat /\ batches[c + 1][i].end \in Nat
      BY <2>2, BatchNumbers
    <3> QED
      BY <3>1 DEF Moves, Inserts
  <2>4. 0 \in 0 .. Len(batches[c + 1])
    BY <2>2, BatchNumbers
  <2>5. MovedBy(batches[c + 1], p, after, 0)
    BY <2>2, <2>3, <2>4, ShiftOfFirst
  <2>6. Shift(batches[c + 1], p, after) = 0
    BY <2>2, <2>5, GrowthSteps DEF MovedBy
  <2>7. at[c + 1] = at[c] + Shift(batches[c + 1], at[c], after)
    BY <1>3, <2>1
  <2>8. at[c + 1] = p
    BY <2>1, <2>6, <2>7
  <2> QED
    BY <2>1, <2>8
<1>6. \A c \in 0 .. K : c \in T
  <2> HIDE DEF T, K
  <2> QED
    BY <1>1, <1>4, <1>5, CountUp
<1>7. K \in 0 .. K
  BY <1>1
<1> QED
  BY <1>2, <1>6, <1>7

(* What is behind the end of the text stays as far behind it.              *)
LEMMA FwdEnd ==
  ASSUME NEW batches, NEW len, Layers(batches, len), NEW d \in Nat, NEW after \in BOOLEAN, d = 0 => after
  PROVE  Fwd(batches, len[0] + d, after) = len[Len(batches)] + d
<1> DEFINE K == Len(batches)
<1>1. K \in Nat /\ \A c \in 1 .. K : InLine(batches[c]) /\ LoggedEdits(batches[c])
  BY DEF Layers, InLine
<1>2. /\ len \in [0 .. K -> Nat]
      /\ \A c \in 1 .. K : /\ \A i \in 1 .. Len(batches[c]) : batches[c][i].end <= len[c - 1]
                           /\ len[c] = len[c - 1] + Growth(batches[c], Len(batches[c]))
  BY DEF Layers
<1>3. PICK p : p = len[0] + d
  OBVIOUS
<1>4. p \in Int
  <2>1. len[0] \in Nat
    BY <1>1, <1>2
  <2> QED
    BY <1>3, <2>1
<1>5. PICK at : FwdLoop(at, batches, p, after) /\ Fwd(batches, p, after) = at[K]
  BY <1>1, <1>4, FwdSteps
<1>6. /\ at \in [0 .. K -> Int] /\ at[0] = p
      /\ \A c \in 1 .. K : at[c] = at[c - 1] + Shift(batches[c], at[c - 1], after)
  BY <1>5 DEF FwdLoop
<1> DEFINE T == {c \in 0 .. K : at[c] = len[c] + d}
<1>7. 0 \in T
  BY <1>1, <1>3, <1>6
<1>8. ASSUME NEW c \in 0 .. K - 1, c \in T PROVE c + 1 \in T
  <2>1. c + 1 \in 1 .. K /\ (c + 1) - 1 = c /\ c + 1 \in 0 .. K /\ c \in 0 .. K /\ at[c] = len[c] + d
    BY <1>1, <1>8
  <2>2. PICK batch, q, l : batch = batches[c + 1] /\ q = at[c] /\ l = len[c]
    OBVIOUS
  <2>3. LoggedEdits(batch) /\ l \in Nat /\ q = l + d /\ \A i \in 1 .. Len(batch) : batch[i].end <= l
    BY <1>1, <1>2, <2>1, <2>2
  <2>4. ASSUME NEW i \in 1 .. Len(batch) PROVE Moves(batch[i], q, after) <=> i <= Len(batch)
    <3>1. batch[i].start \in Nat /\ batch[i].end \in Nat /\ batch[i].start <= batch[i].end /\ batch[i].end <= l
      BY <2>3, BatchNumbers
    <3>2. Moves(batch[i], q, after)
      <4>1. CASE d = 0
        BY <2>3, <3>1, <4>1 DEF Moves, Inserts
      <4>2. CASE d # 0
        BY <2>3, <3>1, <4>2 DEF Moves, Inserts
      <4> QED
        BY <4>1, <4>2
    <3>3. i <= Len(batch)
      BY <2>3, BatchNumbers
    <3> QED
      BY <3>2, <3>3
  <2>5. Len(batch) \in 0 .. Len(batch)
    BY <2>3, BatchNumbers
  <2>6. MovedBy(batch, q, after, Len(batch))
    BY <2>3, <2>4, <2>5, ShiftOfFirst
  <2>7. Shift(batch, q, after) = Growth(batch, Len(batch)) /\ Growth(batch, Len(batch)) \in Int
    BY <2>3, <2>5, <2>6, GrowthSteps DEF MovedBy
  <2>8. at[c + 1] = q + Shift(batch, q, after)
    BY <1>6, <2>1, <2>2
  <2>9. len[c + 1] = l + Growth(batch, Len(batch))
    BY <1>2, <2>1, <2>2
  <2>10. at[c + 1] = len[c + 1] + d
    BY <2>3, <2>7, <2>8, <2>9
  <2> QED
    BY <2>1, <2>10
<1>9. \A c \in 0 .. K : c \in T
  <2> HIDE DEF T, K
  <2> QED
    BY <1>1, <1>7, <1>8, CountUp
<1>10. K \in 0 .. K
  BY <1>1
<1> QED
  BY <1>3, <1>5, <1>9, <1>10

(* Offsets that no edit rewrites keep their order, batch by batch.         *)
LEMMA FwdOrder ==
  ASSUME NEW batches, NEW len, Layers(batches, len), NEW p \in Int, NEW q \in Int, p <= q,
         NEW lo, lo = TRUE, NEW hi, hi = FALSE, NEW P, NEW Q,
         FwdLoop(P, batches, p, hi), FwdLoop(Q, batches, q, lo),
         \A c \in 1 .. Len(batches) : ~Rewrites(batches[c], P[c - 1]) /\ ~Rewrites(batches[c], Q[c - 1])
  PROVE  P[Len(batches)] <= Q[Len(batches)]
<1> DEFINE K == Len(batches)
           T == {c \in 0 .. K : P[c] <= Q[c]}
<1>1. K \in Nat /\ \A c \in 1 .. K : InLine(batches[c]) /\ LoggedEdits(batches[c])
  BY DEF Layers, InLine
<1>2. /\ P \in [0 .. K -> Int] /\ P[0] = p
      /\ \A c \in 1 .. K : P[c] = P[c - 1] + Shift(batches[c], P[c - 1], hi)
  BY DEF FwdLoop
<1>3. /\ Q \in [0 .. K -> Int] /\ Q[0] = q
      /\ \A c \in 1 .. K : Q[c] = Q[c - 1] + Shift(batches[c], Q[c - 1], lo)
  BY DEF FwdLoop
<1>4. 0 \in T
  BY <1>1, <1>2, <1>3
<1>5. ASSUME NEW c \in 0 .. K - 1, c \in T PROVE c + 1 \in T
  <2>1. c + 1 \in 1 .. K /\ (c + 1) - 1 = c /\ c + 1 \in 0 .. K /\ c \in 0 .. K /\ P[c] <= Q[c]
    BY <1>1, <1>5
  <2>2. PICK batch, a, b : batch = batches[c + 1] /\ a = P[c] /\ b = Q[c]
    OBVIOUS
  <2>3. /\ InLine(batch) /\ LoggedEdits(batch) /\ a \in Int /\ b \in Int /\ a <= b
        /\ ~Rewrites(batch, a) /\ ~Rewrites(batch, b)
    BY <1>1, <1>2, <1>3, <2>1, <2>2
  <2>4. \A i \in 1 .. Len(batch) : Moves(batch[i], a, hi) => Moves(batch[i], b, lo)
    <3>1. ASSUME NEW i \in 1 .. Len(batch), Moves(batch[i], a, hi) PROVE Moves(batch[i], b, lo)
      <4>1. batch[i].start \in Nat /\ batch[i].end \in Nat
        BY <2>3, BatchNumbers
      <4> QED
        BY <2>3, <3>1, <4>1 DEF Moves, Inserts
    <3> QED
      BY <3>1
  <2>5. a + Shift(batch, a, hi) <= b + Shift(batch, b, lo)
    BY <2>3, <2>4, ShiftOrder
  <2>6. P[c + 1] = a + Shift(batch, a, hi) /\ Q[c + 1] = b + Shift(batch, b, lo)
    BY <1>2, <1>3, <2>1, <2>2
  <2> QED
    BY <2>1, <2>5, <2>6
<1>6. \A c \in 0 .. K : c \in T
  <2> HIDE DEF T, K
  <2> QED
    BY <1>1, <1>4, <1>5, CountUp
<1>7. K \in 0 .. K
  BY <1>1
<1> QED
  BY <1>6, <1>7

(* Offsets taken back to the text before all batches are in it, and in     *)
(* order.                                                                  *)
LEMMA BackInFirst ==
  ASSUME NEW batches, NEW len, Layers(batches, len), NEW n \in 0 .. Len(batches),
         NEW p \in 0 .. len[n], NEW q \in 0 .. len[n], p <= q, NEW lo, lo = TRUE, NEW hi, hi = FALSE
  PROVE  /\ Back(batches, n, p, lo) \in 0 .. len[0] /\ Back(batches, n, q, hi) \in 0 .. len[0]
         /\ Back(batches, n, p, lo) <= Back(batches, n, q, hi)
<1>1. Len(batches) \in Nat /\ \A c \in 1 .. Len(batches) : InLine(batches[c]) /\ LoggedEdits(batches[c])
  BY DEF Layers, InLine
<1>2. /\ len \in [0 .. Len(batches) -> Nat]
      /\ \A c \in 1 .. Len(batches) : /\ \A i \in 1 .. Len(batches[c]) : batches[c][i].end <= len[c - 1]
                                      /\ len[c] = len[c - 1] + Growth(batches[c], Len(batches[c]))
  BY DEF Layers
<1>3. p \in Int /\ q \in Int /\ n \in Nat
  BY <1>1
<1>4. \A x \in Int : \A w : \E pos : BackLoop(pos, batches, n, x, w) /\ Back(batches, n, x, w) = pos[0]
  BY <1>1, BackSteps
<1>5. PICK P : BackLoop(P, batches, n, p, lo) /\ Back(batches, n, p, lo) = P[0]
  BY Zenon, <1>3, <1>4
<1>6. PICK Q : BackLoop(Q, batches, n, q, hi) /\ Back(batches, n, q, hi) = Q[0]
  BY Zenon, <1>3, <1>4
<1>7. /\ P \in [0 .. n -> Int] /\ P[n] = p
      /\ \A c \in 1 .. n : P[c - 1] = BackPos(batches[c], P[c], lo)
  BY <1>5 DEF BackLoop
<1>8. /\ Q \in [0 .. n -> Int] /\ Q[n] = q
      /\ \A c \in 1 .. n : Q[c - 1] = BackPos(batches[c], Q[c], hi)
  BY <1>6 DEF BackLoop
<1> DEFINE Right(c) == P[c] \in 0 .. len[c] /\ Q[c] \in 0 .. len[c] /\ P[c] <= Q[c]
           T == {e \in 0 .. n : Right(n - e)}
<1>9. 0 \in T
  <2>1. n - 0 = n
    BY <1>3
  <2> QED
    BY <1>3, <1>7, <1>8, <2>1
<1>10. ASSUME NEW e \in 0 .. n - 1, e \in T PROVE e + 1 \in T
  <2>1. PICK c : c = n - e
    OBVIOUS
  <2>2. /\ c \in 1 .. n /\ c \in 1 .. Len(batches) /\ c - 1 \in 0 .. Len(batches) /\ c \in 0 .. Len(batches)
        /\ n - (e + 1) = c - 1 /\ e + 1 \in 0 .. n
    BY <1>1, <1>3, <2>1
  <2>3. Right(c)
    BY <1>10, <2>1
  <2> HIDE DEF T
  <2>4. PICK batch, a, b, l : batch = batches[c] /\ a = P[c] /\ b = Q[c] /\ l = len[c - 1]
    OBVIOUS
  <2>5. /\ InLine(batch) /\ l \in Nat /\ (\A i \in 1 .. Len(batch) : batch[i].end <= l)
        /\ len[c] = l + Growth(batch, Len(batch))
    BY <1>1, <1>2, <2>2, <2>4
  <2>6. Growth(batch, Len(batch)) \in Int
    <3>1. LoggedEdits(batch) /\ Len(batch) \in 0 .. Len(batch)
      BY <2>5, BatchNumbers DEF InLine
    <3> QED
      BY <3>1, GrowthSteps
  <2>7. /\ a \in Int /\ b \in Int /\ 0 <= a /\ 0 <= b /\ a <= b
        /\ a <= l + Growth(batch, Len(batch)) /\ b <= l + Growth(batch, Len(batch))
    <3>1. a \in 0 .. len[c] /\ b \in 0 .. len[c] /\ a <= b /\ len[c] \in Nat
      BY <1>2, <2>2, <2>3, <2>4
    <3> QED
      BY <2>5, <3>1
  <2>8. P[c - 1] = BackPos(batch, a, lo) /\ Q[c - 1] = BackPos(batch, b, hi)
    BY <1>7, <1>8, <2>2, <2>4
  <2>9. BackPos(batch, a, lo) \in 0 .. l
    BY <2>5, <2>7, BackInText
  <2>10. BackPos(batch, b, hi) \in 0 .. l
    BY <2>5, <2>7, BackInText
  <2>11. BackPos(batch, a, lo) <= BackPos(batch, b, hi)
    BY <2>5, <2>7, BackOrder
  <2>12. Right(c - 1)
    BY <2>4, <2>8, <2>9, <2>10, <2>11
  <2>13. Right(n - (e + 1))
    BY <2>2, <2>12
  <2> QED
    BY <2>2, <2>13 DEF T
<1>11. \A e \in 0 .. n : e \in T
  <2> HIDE DEF T
  <2> QED
    BY <1>3, <1>9, <1>10, CountUp
<1>12. Right(0)
  <2>1. n \in 0 .. n /\ n - n = 0
    BY <1>3
  <2>2. n \in T
    BY <1>11, <2>1
  <2> QED
    BY <2>1, <2>2
<1> QED
  BY <1>5, <1>6, <1>12

(* A set of numbers up to n that is not empty has a greatest one.          *)
LEMMA Greatest ==
  ASSUME NEW n \in Nat, NEW T \in SUBSET (0 .. n), T # {}
  PROVE  Max(T) \in T /\ \A x \in T : x <= Max(T)
<1> DEFINE U == {n - x : x \in T}
<1>0. T \subseteq 0 .. n /\ \A x \in T : x \in Nat /\ n - x \in Nat
  OBVIOUS
<1>1. U \in SUBSET Nat /\ U # {}
  BY <1>0
<1>2. PICK u \in U : \A v \in U : u <= v
  <2> HIDE DEF U
  <2> QED
    BY <1>1, LeastNat
<1>3. PICK m \in T : u = n - m
  BY <1>2
<1>4. ASSUME NEW x \in T PROVE m >= x
  <2>1. n - x \in U /\ x \in Nat /\ m \in Nat
    BY <1>0
  <2>2. u <= n - x
    BY <1>2, <2>1
  <2> QED
    BY <1>3, <2>1, <2>2
<1>5. \E x \in T : \A y \in T : x >= y
  BY <1>4
<1>6. PICK k : k = Max(T) /\ k \in T /\ \A y \in T : k >= y
  <2>1. PICK k : k = CHOOSE x \in T : \A y \in T : x >= y
    OBVIOUS
  <2>2. k \in T /\ \A y \in T : k >= y
    BY Zenon, <1>5, <2>1
  <2> QED
    BY Zenon, <2>1, <2>2 DEF Max
<1>7. \A x \in T : x <= k
  BY <1>6
<1> QED
  BY Zenon, <1>6, <1>7

(* Ranges of a text of length len. *)
Ranges(len) == {s \in [start : 0 .. len, end : 0 .. len] : s.start <= s.end}

(* Ranges apart and in order, so that each of some spans is in one.        *)
Joins(ms, spans, len) ==
  /\ ms \in Seq(Ranges(len))
  /\ \A i, j \in 1 .. Len(ms) : i < j => ms[i].end < ms[j].start
  /\ \A s \in spans : \E i \in 1 .. Len(ms) : ms[i].start <= s.start /\ s.end <= ms[i].end

(* The offsets at which a merged span starts, and the spans merged into    *)
(* the one that starts at o.                                               *)
StartsOf(spans) == {s.start : s \in {t \in spans : \A u \in spans : u.start < t.start => u.end < t.start}}
SpansIn(spans, o) == {s \in spans : o <= s.start /\ \A p \in StartsOf(spans) : p <= s.start => p <= o}

(* Merged spans are apart and in order, and each span is in one of them    *)
(* (the loop of composeBatches that joins spans).                          *)
LEMMA MergedJoins ==
  ASSUME NEW len \in Nat, NEW spans \in SUBSET Ranges(len)
  PROVE  Joins(Merged(spans), spans, len)
<1> DEFINE starts == StartsOf(spans)
           Of(o) == SpansIn(spans, o)
           Furthest(o) == Max({s.end : s \in Of(o)})
           N == Max(starts \cup {0}) + 1
           at == {i \in 1 .. N : i - 1 \in starts}
           seq == [i \in 1 .. N |-> [start |-> i - 1, end |-> IF i \in at THEN Furthest(i - 1) ELSE 0]]
           V == [start : Nat, end : 0 .. len]
<1>1. \A s \in spans : s.start \in 0 .. len /\ s.end \in 0 .. len /\ s.start <= s.end
                       /\ s.start \in Nat /\ s.end \in Nat
  BY DEF Ranges
<1>2. \A o \in starts : \E s \in spans : s.start = o /\ \A u \in spans : u.start < o => u.end < o
  BY DEF StartsOf
<1>3. \A s \in spans : (\A u \in spans : u.start < s.start => u.end < s.start) => s.start \in starts
  BY DEF StartsOf
<1>4. starts \in SUBSET (0 .. len)
  <2> HIDE DEF starts
  <2> QED
    BY <1>1, <1>2
<1>5. \A o \in Nat : \A s \in Of(o) : s \in spans /\ o <= s.start /\ \A p \in starts : p <= s.start => p <= o
  BY DEF SpansIn
<1>6. \A o \in Nat : \A s \in spans : o <= s.start /\ (\A p \in starts : p <= s.start => p <= o) => s \in Of(o)
  BY DEF SpansIn
<1>7. N \in Nat /\ \A o \in starts : o + 1 \in 1 .. N
  <2> HIDE DEF starts
  <2>1. starts \cup {0} \in SUBSET (0 .. len) /\ starts \cup {0} # {}
    BY <1>4
  <2>2. PICK m : m = Max(starts \cup {0})
    OBVIOUS
  <2>3. m \in starts \cup {0} /\ \A x \in starts \cup {0} : x <= m
    BY <2>1, <2>2, Greatest
  <2>4. m \in Nat
    BY <2>1, <2>3
  <2>5. \A o \in starts : o \in Nat /\ o <= m
    BY <2>1, <2>3
  <2> QED
    BY <2>2, <2>4, <2>5
<1>8. Merged(spans) = Concat(FilterParts(seq, at))
  <2> DEFINE From(o) == IF o \in starts THEN <<[start |-> o, end |-> Furthest(o)]>> ELSE << >>
  <2>1. Merged(spans) = Concat([i \in 1 .. N |-> From(i - 1)])
    BY DEF Merged, StartsOf, SpansIn
  <2>2. DOMAIN seq = 1 .. N
    OBVIOUS
  <2>3. ASSUME NEW i \in 1 .. N PROVE From(i - 1) = IF i \in at THEN <<seq[i]>> ELSE << >>
    <3>1. i \in at <=> i - 1 \in starts
      OBVIOUS
    <3>2. CASE i \in at
      <4>1. seq[i] = [start |-> i - 1, end |-> Furthest(i - 1)]
        <5> HIDE DEF at, Furthest, N
        <5> QED
          BY <3>2
      <4> HIDE DEF at, seq, N, Furthest, starts
      <4> QED
        BY <3>1, <3>2, <4>1
    <3>3. CASE i \notin at
      <4> HIDE DEF at, seq, N, Furthest, starts
      <4> QED
        BY <3>1, <3>3
    <3> QED
      BY <3>2, <3>3
  <2>4. FilterParts(seq, at) = [i \in 1 .. N |-> IF i \in at THEN <<seq[i]>> ELSE << >>]
    <3> HIDE DEF seq, at, N
    <3> QED
      BY <2>2 DEF FilterParts
  <2> HIDE DEF From, seq, at, N, starts
  <2>5. [i \in 1 .. N |-> From(i - 1)] = FilterParts(seq, at)
    BY <2>3, <2>4
  <2> QED
    BY <2>1, <2>5
<1> HIDE DEF Of, starts
<1>9. ASSUME NEW o \in starts
      PROVE  /\ o \in 0 .. len /\ Furthest(o) \in 0 .. len /\ o <= Furthest(o)
             /\ \A s \in Of(o) : s.end <= Furthest(o)
             /\ \A p \in starts : o < p => Furthest(o) < p
  <2> DEFINE ends == {s.end : s \in Of(o)}
  <2>1. o \in 0 .. len /\ o \in Nat
    BY <1>4
  <2>2. PICK s \in spans : s.start = o
    BY <1>2
  <2>3. s \in Of(o)
    BY <1>6, <2>1, <2>2
  <2>4. ends \in SUBSET (0 .. len) /\ ends # {} /\ s.end \in ends
    BY <1>1, <1>5, <2>1, <2>3
  <2>5. PICK e : e = Furthest(o)
    OBVIOUS
  <2>6. e \in ends /\ \A x \in ends : x <= e
    <3>1. e = Max(ends)
      BY <2>5
    <3> HIDE DEF ends
    <3> QED
      BY <2>4, <3>1, Greatest
  <2>7. e \in 0 .. len
    BY <2>4, <2>6
  <2>8. o <= e
    <3>1. s.end <= e /\ s.start <= s.end /\ s.end \in Nat
      BY <1>1, <2>4, <2>6
    <3> QED
      BY <2>1, <2>2, <2>7, <3>1
  <2>9. \A t \in Of(o) : t.end <= e
    BY <2>6
  <2>10. ASSUME NEW p \in starts, o < p PROVE e < p
    <3>1. PICK t \in Of(o) : t.end = e
      BY <2>6
    <3>2. t \in spans /\ t.start \in Nat /\ p \in Nat
      BY <1>1, <1>4, <1>5, <2>1, <3>1
    <3>3. t.start < p
      <4>1. ~(p <= o)
        BY <2>1, <2>10, <3>2
      <4>2. ~(p <= t.start)
        BY <1>5, <2>1, <3>1, <4>1
      <4> QED
        BY <3>2, <4>2
    <3>4. PICK u \in spans : u.start = p /\ \A w \in spans : w.start < p => w.end < p
      BY <1>2
    <3> QED
      BY <3>1, <3>2, <3>3, <3>4
  <2> QED
    BY <2>1, <2>5, <2>7, <2>8, <2>9, <2>10
<1>10. ASSUME NEW s \in spans PROVE \E o \in starts : s \in Of(o)
  <2> DEFINE below == {o \in starts : o <= s.start}
             firsts == {u.start : u \in spans}
  <2>1. s.start \in 0 .. len /\ s.start \in Nat
    BY <1>1
  <2>2. below # {}
    <3>1. firsts \in SUBSET Nat /\ s.start \in firsts
      BY <1>1
    <3>2. PICK m \in firsts : \A x \in firsts : m <= x
      <4> HIDE DEF firsts
      <4> QED
        BY <3>1, LeastNat
    <3>3. PICK u \in spans : u.start = m
      BY <3>2
    <3>4. \A w \in spans : w.start \in Nat /\ m <= w.start
      BY <1>1, <3>2
    <3>5. m \in Nat /\ m <= s.start
      BY <3>1, <3>2
    <3>6. \A w \in spans : ~(w.start < u.start)
      BY <3>3, <3>4, <3>5
    <3>7. m \in starts
      BY <1>3, <3>3, <3>6
    <3> QED
      BY <3>5, <3>7
  <2>3. below \in SUBSET (0 .. len)
    BY <1>4
  <2>4. PICK o : o = Max(below)
    OBVIOUS
  <2>5. o \in below /\ \A x \in below : x <= o
    <3> HIDE DEF below
    <3> QED
      BY <2>2, <2>3, <2>4, Greatest
  <2>6. o \in starts /\ o \in Nat /\ o <= s.start /\ \A p \in starts : p <= s.start => p <= o
    BY <2>3, <2>5
  <2> QED
    BY <1>6, <2>6
<1>11. seq \in Seq(V) /\ at \in SUBSET DOMAIN seq
  <2>1. ASSUME NEW i \in 1 .. N PROVE [start |-> i - 1, end |-> IF i \in at THEN Furthest(i - 1) ELSE 0] \in V
    <3>1. (IF i \in at THEN Furthest(i - 1) ELSE 0) \in 0 .. len
      <4>1. CASE i \in at
        <5>1. i - 1 \in starts
          BY <4>1
        <5>2. Furthest(i - 1) \in 0 .. len
          BY <1>9, <5>1
        <5> QED
          BY <4>1, <5>2
      <4>2. CASE i \notin at
        BY <4>2
      <4> QED
        BY <4>1, <4>2
    <3>2. i - 1 \in Nat
      BY <1>7
    <3> HIDE DEF at, Furthest
    <3> QED
      BY <3>1, <3>2
  <2>2. at \in SUBSET (1 .. N)
    OBVIOUS
  <2> HIDE DEF at, N, Furthest
  <2>3. \A i \in 1 .. N : seq[i] = [start |-> i - 1, end |-> IF i \in at THEN Furthest(i - 1) ELSE 0]
    OBVIOUS
  <2>4. seq \in [1 .. N -> V]
    BY <2>1, <2>3
  <2>5. DOMAIN seq = 1 .. N
    OBVIOUS
  <2>6. PICK n, f : n = N /\ f = seq
    OBVIOUS
  <2> HIDE DEF seq, V
  <2>7. n \in Nat /\ f \in [1 .. n -> V]
    BY <1>7, <2>4, <2>6
  <2>8. f \in Seq(V)
    BY <2>7
  <2> QED
    BY <2>2, <2>5, <2>6, <2>8
<1>12. ASSUME NEW i \in at
       PROVE  i \in Nat /\ i - 1 \in starts /\ seq[i].start = i - 1 /\ seq[i].end = Furthest(i - 1)
  <2>1. i \in 1 .. N /\ i - 1 \in starts
    OBVIOUS
  <2>2. PICK e, n : e = Furthest(i - 1) /\ n = N
    OBVIOUS
  <2>3. seq[i] = [start |-> i - 1, end |-> e]
    <3> HIDE DEF at, Furthest, N
    <3> QED
      BY <1>12, <2>1, <2>2
  <2> HIDE DEF seq, at, Furthest, N
  <2>4. seq[i].start = i - 1 /\ seq[i].end = e
    BY <2>3
  <2> QED
    BY <1>7, <2>1, <2>2, <2>4
<1> HIDE DEF seq, V, Furthest, at
<1>13. PICK ms, m : /\ ms = Merged(spans) /\ ms \in Seq(V) /\ Places(ms, seq, at, m)
  BY <1>8, <1>11, FilterPlaces
<1>14. /\ DOMAIN ms = 1 .. Len(ms) /\ Len(ms) \in Nat
       /\ m \in [1 .. Len(ms) -> at] /\ (\A k \in 1 .. Len(ms) : ms[k] = seq[m[k]])
       /\ (\A i \in at : \E k \in 1 .. Len(ms) : m[k] = i)
       /\ \A j, k \in 1 .. Len(ms) : j < k => m[j] < m[k]
  BY <1>13 DEF Places
<1>15. ASSUME NEW k \in 1 .. Len(ms)
       PROVE  /\ m[k] \in Nat /\ m[k] - 1 \in starts /\ ms[k].start = m[k] - 1
              /\ ms[k].end = Furthest(m[k] - 1) /\ ms[k] \in Ranges(len)
  <2>1. m[k] \in at /\ ms[k] = seq[m[k]]
    BY <1>14
  <2>2. m[k] \in Nat /\ m[k] - 1 \in starts /\ ms[k].start = m[k] - 1 /\ ms[k].end = Furthest(m[k] - 1)
    BY <1>12, <2>1
  <2>3. ms[k].start \in 0 .. len /\ ms[k].end \in 0 .. len /\ ms[k].start <= ms[k].end
    BY <1>9, <2>2
  <2>4. ms[k] \in V
    BY <1>13, <1>14
  <2>5. ms[k] \in [start : 0 .. len, end : 0 .. len]
    BY <2>3, <2>4 DEF V
  <2> QED
    BY <2>2, <2>3, <2>5 DEF Ranges
<1>16. ms \in Seq(Ranges(len))
  <2>1. ms = [k \in 1 .. Len(ms) |-> ms[k]]
    BY <1>13, <1>14
  <2>2. ms \in [1 .. Len(ms) -> Ranges(len)]
    BY <1>15, <2>1
  <2> QED
    BY <1>14, <2>2
<1>17. ASSUME NEW j \in 1 .. Len(ms), NEW k \in 1 .. Len(ms), j < k PROVE ms[j].end < ms[k].start
  <2>1. m[j] < m[k] /\ m[j] \in Nat /\ m[k] \in Nat
    BY <1>14, <1>15, <1>17
  <2>2. PICK o, p : o = m[j] - 1 /\ p = m[k] - 1
    OBVIOUS
  <2>3. o < p /\ o \in starts /\ p \in starts
    BY <1>15, <2>1, <2>2
  <2>4. Furthest(o) < p
    BY <1>9, <2>3
  <2> QED
    BY <1>15, <2>2, <2>4
<1>18. ASSUME NEW s \in spans PROVE \E k \in 1 .. Len(ms) : ms[k].start <= s.start /\ s.end <= ms[k].end
  <2>1. PICK o \in starts : s \in Of(o)
    BY <1>10
  <2>2. o \in Nat
    BY <1>4
  <2>3. o + 1 \in at
    <3>1. o + 1 \in 1 .. N /\ (o + 1) - 1 = o
      BY <1>7, <2>2
    <3> HIDE DEF N
    <3> QED
      BY <2>1, <3>1 DEF at
  <2>4. PICK k \in 1 .. Len(ms) : m[k] = o + 1
    BY <1>14, <2>3
  <2>5. m[k] - 1 = o
    BY <2>2, <2>4
  <2>6. ms[k].start = o /\ ms[k].end = Furthest(o)
    BY <1>15, <2>5
  <2>7. o <= s.start /\ s.end <= Furthest(o)
    BY <1>5, <1>9, <2>1, <2>2
  <2> QED
    BY <2>6, <2>7
<1>19. Joins(ms, spans, len)
  BY <1>16, <1>17, <1>18 DEF Joins
<1> QED
  BY <1>13, <1>19

(* Take and Drop give parts.                                               *)
LEMMA TakeDrop ==
  ASSUME NEW s, NEW n
  PROVE  Take(s, n) = Part(s, 0, n) /\ Drop(s, n) = Part(s, n, Len(s))
<1>1. 0 + 1 = 1
  OBVIOUS
<1> QED
  BY <1>1 DEF Take, Drop, Part

(* What two texts share at the front, and at the back.                     *)
LEMMA SharedFrontIs ==
  ASSUME NEW S, NEW a \in Seq(S), NEW b \in Seq(S)
  PROVE  /\ SharedFront(a, b) \in Nat /\ SharedFront(a, b) <= Len(a) /\ SharedFront(a, b) <= Len(b)
         /\ \A i \in 1 .. SharedFront(a, b) : a[i] = b[i]
<1> DEFINE lens == {Len(a), Len(b)}
           T == {n \in 0 .. Min(lens) : Take(a, n) = Take(b, n)}
<1>1. Len(a) \in Nat /\ Len(b) \in Nat
  OBVIOUS
<1>2. PICK m : m = Min(lens)
  OBVIOUS
<1>3. m \in Nat /\ m <= Len(a) /\ m <= Len(b)
  <2>1. \E x \in lens : \A y \in lens : x <= y
    <3>1. CASE Len(a) <= Len(b)
      BY <1>1, <3>1
    <3>2. CASE ~(Len(a) <= Len(b))
      <4>1. Len(b) <= Len(a) /\ Len(b) <= Len(b)
        BY <1>1, <3>2
      <4> QED
        BY <4>1
    <3> QED
      BY <3>1, <3>2
  <2>2. m \in lens /\ \A y \in lens : m <= y
    <3> HIDE DEF lens
    <3> QED
      BY <1>2, <2>1 DEF Min
  <2> QED
    BY <1>1, <2>2
<1>4. PICK k : k = Max(T) /\ SharedFront(a, b) = k
  BY DEF SharedFront
<1>5. T \in SUBSET (0 .. m) /\ 0 \in T
  <2>1. SubSeq(a, 1, 0) = SubSeq(b, 1, 0)
    <3>1. SubSeq(a, 1, 0) = << >> /\ SubSeq(b, 1, 0) = << >>
      BY SubSeqEmpty
    <3> QED
      BY <3>1
  <2> QED
    BY <1>2, <1>3, <2>1 DEF Take
<1>6. k \in T
  <2> HIDE DEF T
  <2>1. T # {}
    BY <1>5
  <2> QED
    BY <1>3, <1>4, <1>5, <2>1, Greatest
<1>7. k \in 0 .. m /\ Take(a, k) = Take(b, k)
  BY <1>2, <1>6
<1>8. k \in Nat /\ k <= Len(a) /\ k <= Len(b)
  BY <1>1, <1>3, <1>7
<1>9. ASSUME NEW i \in 1 .. k PROVE a[i] = b[i]
  <2>1. Part(a, 0, k) = Part(b, 0, k)
    BY <1>7, TakeDrop
  <2>2. 0 \in Nat /\ 0 <= k /\ i \in 1 .. k - 0 /\ 0 + i = i
    BY <1>8
  <2>3. Part(a, 0, k)[i] = a[0 + i] /\ Part(b, 0, k)[i] = b[0 + i]
    BY <1>8, <2>2, PartOf
  <2> QED
    BY <2>1, <2>2, <2>3
<1> QED
  BY Zenon, <1>4, <1>8, <1>9

(* The last q atoms of a and b are the same.                               *)
SameBack(q, a, b) ==
  /\ q \in Nat /\ q <= Len(a) /\ q <= Len(b)
  /\ \A i \in 1 .. q : a[(Len(a) - i) + 1] = b[(Len(b) - i) + 1]

(* SharedBack counts atoms that two texts share at the end.                *)
LEMMA SharedBackIs ==
  ASSUME NEW S, NEW a \in Seq(S), NEW b \in Seq(S)
  PROVE  SameBack(SharedBack(a, b), a, b)
<1> DEFINE x == Reverse(a)
           y == Reverse(b)
<1>1. Len(a) \in Nat /\ Len(b) \in Nat
  OBVIOUS
<1>2. /\ x \in Seq(S) /\ Len(x) = Len(a) /\ \A i \in 1 .. Len(a) : x[i] = a[(Len(a) - i) + 1]
  <2>1. \A i \in 1 .. Len(a) : (Len(a) - i) + 1 \in 1 .. Len(a)
    BY <1>1
  <2>2. \A i \in 1 .. Len(a) : a[(Len(a) - i) + 1] \in S
    BY <2>1
  <2> QED
    BY <1>1, <2>2 DEF Reverse
<1>3. /\ y \in Seq(S) /\ Len(y) = Len(b) /\ \A i \in 1 .. Len(b) : y[i] = b[(Len(b) - i) + 1]
  <2>1. \A i \in 1 .. Len(b) : (Len(b) - i) + 1 \in 1 .. Len(b)
    BY <1>1
  <2>2. \A i \in 1 .. Len(b) : b[(Len(b) - i) + 1] \in S
    BY <2>1
  <2> QED
    BY <1>1, <2>2 DEF Reverse
<1>4. PICK k : k = SharedFront(x, y) /\ SharedBack(a, b) = k
  BY DEF SharedBack
<1> HIDE DEF x, y
<1>5. k \in Nat /\ k <= Len(x) /\ k <= Len(y) /\ \A i \in 1 .. k : x[i] = y[i]
  BY <1>2, <1>3, <1>4, SharedFrontIs
<1>6. ASSUME NEW i \in 1 .. k PROVE a[(Len(a) - i) + 1] = b[(Len(b) - i) + 1]
  <2>1. i \in 1 .. Len(a) /\ i \in 1 .. Len(b)
    BY <1>1, <1>2, <1>3, <1>5
  <2> QED
    BY <1>2, <1>3, <1>5, <2>1
<1>7. SameBack(k, a, b)
  BY Zenon, <1>2, <1>3, <1>5, <1>6 DEF SameBack
<1> QED
  BY <1>4, <1>7

(* The edit e replaces the atoms [p, t) of old, at offset at, so that old  *)
(* becomes text.                                                           *)
Trims(e, S, at, old, text, p, t) ==
  /\ p \in Nat /\ t \in Nat /\ p <= t /\ t <= Len(old)
  /\ e.start = at + p /\ e.end = at + t /\ e.text \in Seq(S)
  /\ e = [start |-> at + p, end |-> at + t, text |-> e.text]
  /\ (Part(old, 0, p) \o e.text) \o Part(old, t, Len(old)) = text

(* The trimmed edit still turns the old text into the new one.             *)
LEMMA TrimmedTrims ==
  ASSUME NEW S, NEW old \in Seq(S), NEW text \in Seq(S), NEW at \in Nat
  PROVE  \E p, t : Trims(Trimmed(at, old, text), S, at, old, text, p, t)
<1>1. PICK m, n : m = Len(old) /\ n = Len(text)
  OBVIOUS
<1>2. m \in Nat /\ n \in Nat
  BY <1>1
<1>3. PICK same : same = SharedFront(old, text)
  OBVIOUS
<1>4. same \in Nat /\ same <= m /\ same <= n /\ \A i \in 1 .. same : old[i] = text[i]
  BY <1>1, <1>3, SharedFrontIs
<1> DEFINE cuts == {i \in 1 .. same : old[i] \in LineEnds} \cup {0}
<1>5. PICK p : p = Max(cuts)
  OBVIOUS
<1>6. p \in Nat /\ p <= same
  <2>1. cuts \in SUBSET (0 .. same) /\ cuts # {}
    BY <1>4
  <2> HIDE DEF cuts
  <2>2. p \in cuts
    BY <1>4, <1>5, <2>1, Greatest
  <2> QED
    BY <2>1, <2>2
<1>7. PICK a, b, q : a = Drop(old, p) /\ b = Drop(text, p) /\ q = SharedBack(a, b)
  OBVIOUS
<1>8. a = Part(old, p, m) /\ b = Part(text, p, n)
  BY <1>1, <1>7, TakeDrop
<1>9. /\ a \in Seq(S) /\ Len(a) = m - p /\ \A i \in 1 .. m - p : a[i] = old[p + i]
  <2>1. p <= m /\ m <= Len(old)
    BY <1>1, <1>2, <1>4, <1>6
  <2> QED
    BY <1>2, <1>6, <1>8, <2>1, PartOf
<1>10. /\ b \in Seq(S) /\ Len(b) = n - p /\ \A i \in 1 .. n - p : b[i] = text[p + i]
  <2>1. p <= n /\ n <= Len(text)
    BY <1>1, <1>2, <1>4, <1>6
  <2> QED
    BY <1>2, <1>6, <1>8, <2>1, PartOf
<1>11. /\ q \in Nat /\ q <= Len(a) /\ q <= Len(b)
       /\ \A i \in 1 .. q : a[(Len(a) - i) + 1] = b[(Len(b) - i) + 1]
  <2>1. a \in Seq(S) /\ b \in Seq(S)
    BY <1>9, <1>10
  <2>2. SameBack(q, a, b)
    BY <1>7, <2>1, SharedBackIs
  <2> QED
    BY <2>2 DEF SameBack
<1>12. q <= m - p /\ q <= n - p
  BY <1>9, <1>10, <1>11
<1> DEFINE stops == {i \in (m - q) .. m : i = m \/ (i > 0 /\ old[i] \in LineEnds)}
<1>13. PICK t : t = Min(stops)
  OBVIOUS
<1>14. t \in Nat /\ m - q <= t /\ t <= m
  <2>1. stops \in SUBSET Nat /\ stops # {}
    <3>1. m - q \in Nat /\ m \in (m - q) .. m
      BY <1>2, <1>6, <1>11, <1>12
    <3>2. \A i \in (m - q) .. m : i \in Nat
      BY <1>2, <3>1
    <3> QED
      BY <3>1, <3>2
  <2>2. \E x \in stops : \A y \in stops : x <= y
    <3> HIDE DEF stops
    <3> QED
      BY <2>1, LeastNat
  <2>3. t \in stops
    <3> HIDE DEF stops
    <3> QED
      BY <1>13, <2>2 DEF Min
  <2>4. t \in (m - q) .. m
    BY <2>3
  <2> QED
    BY <1>2, <1>6, <1>11, <1>12, <2>4
<1>15. PICK r, e, mid : r = m - t /\ e = Trimmed(at, old, text) /\ mid = Part(text, p, n - r)
  OBVIOUS
<1>16. e = [start |-> at + p, end |-> at + t, text |-> mid]
  BY <1>1, <1>3, <1>5, <1>7, <1>13, <1>15 DEF Trimmed, Part
<1>17. r \in Nat /\ r <= q /\ n - r \in Nat /\ p <= n - r /\ n - r <= n /\ p <= t
  BY <1>2, <1>6, <1>11, <1>12, <1>14, <1>15
<1>18. mid \in Seq(S)
  <2>1. n - r <= Len(text)
    BY <1>1, <1>17
  <2> QED
    BY <1>6, <1>15, <1>17, <2>1, PartOf
<1>19. Part(old, 0, p) = Part(text, 0, p)
  <2>1. Agree(old, 0, text, 0, p)
    <3>1. \A i \in 1 .. p : i \in 1 .. same /\ 0 + i = i
      BY <1>4, <1>6
    <3> QED
      BY <1>4, <3>1 DEF Agree
  <2>2. 0 \in Nat /\ 0 <= p /\ p <= Len(old) /\ p <= Len(text) /\ p - 0 = p
    BY <1>1, <1>2, <1>4, <1>6
  <2> QED
    BY <1>6, <2>1, <2>2, SamePart
<1>20. Part(old, t, m) = Part(text, n - r, n)
  <2>1. PICK u : u = n - r
    OBVIOUS
  <2>2. Agree(old, t, text, u, r)
    <3>1. ASSUME NEW i \in 1 .. r PROVE old[t + i] = text[u + i]
      <4>1. PICK j : j = r - i + 1
        OBVIOUS
      <4>2. /\ j \in 1 .. q /\ (Len(a) - j) + 1 \in 1 .. m - p /\ (Len(b) - j) + 1 \in 1 .. n - p
            /\ p + ((Len(a) - j) + 1) = t + i /\ p + ((Len(b) - j) + 1) = u + i
        BY <1>2, <1>6, <1>9, <1>10, <1>11, <1>12, <1>14, <1>15, <1>17, <2>1, <4>1
      <4>3. a[(Len(a) - j) + 1] = old[t + i]
        BY <1>9, <4>2
      <4>4. b[(Len(b) - j) + 1] = text[u + i]
        BY <1>10, <4>2
      <4> QED
        BY <1>11, <4>2, <4>3, <4>4
    <3> QED
      BY <3>1 DEF Agree
  <2>3. u \in Nat /\ t <= m /\ m <= Len(old) /\ n <= Len(text) /\ m - t = r /\ n - u = r
    BY <1>1, <1>2, <1>14, <1>15, <1>17, <2>1
  <2>4. Part(old, t, m) = Part(text, u, n)
    BY <1>2, <1>14, <2>2, <2>3, SamePart
  <2> QED
    BY <2>1, <2>4
<1>21. (Part(text, 0, p) \o Part(text, p, n - r)) \o Part(text, n - r, n) = text
  <2>1. PICK u : u = n - r
    OBVIOUS
  <2>2. u \in Nat /\ p <= u /\ u <= n /\ n <= Len(text) /\ u <= Len(text) /\ 0 \in Nat /\ 0 <= p /\ 0 <= u
    BY <1>1, <1>2, <1>6, <1>17, <2>1
  <2>3. Part(text, 0, p) \o Part(text, p, u) = Part(text, 0, u)
    BY <1>6, <2>2, PartJoin
  <2>4. Part(text, 0, u) \o Part(text, u, n) = Part(text, 0, n)
    BY <1>2, <2>2, PartJoin
  <2>5. Part(text, 0, n) = text
    BY <1>1, PartWhole
  <2> QED
    BY Zenon, <2>1, <2>3, <2>4, <2>5
<1>22. /\ e.start = at + p /\ e.end = at + t /\ e.text = mid
  BY <1>16
<1>23. (Part(old, 0, p) \o mid) \o Part(old, t, Len(old)) = text
  BY Zenon, <1>1, <1>15, <1>19, <1>20, <1>21
<1>24. t <= Len(old)
  BY <1>1, <1>14
<1>25. Trims(e, S, at, old, text, p, t)
  BY Zenon, <1>6, <1>14, <1>16, <1>17, <1>18, <1>22, <1>23, <1>24 DEF Trims
<1> QED
  BY <1>15, <1>25

(* The edits its, applied to the first p atoms of t, give u.               *)
Reaches(S, t, its, p, u) ==
  /\ EditsIn(S, Len(t), its) /\ p \in Nat /\ EndOf(its, Len(its)) <= p /\ p <= Len(t)
  /\ \E b : FrontLoop(b, S, t, its) /\ u = b[Len(its)] \o Part(t, EndOf(its, Len(its)), p)

(* No edits give no text.                                                  *)
LEMMA ReachNone ==
  ASSUME NEW S, NEW t \in Seq(S)
  PROVE  Reaches(S, t, << >>, 0, << >>)
<1> DEFINE none == << >>
           b == [i \in 0 .. 0 |-> none]
<1>1. Len(none) = 0 /\ none \in Seq(S) /\ none \in Seq(EditsOver(S, Len(t))) /\ none \o none = none
  OBVIOUS
<1>2. EditsIn(S, Len(t), none)
  BY <1>1 DEF EditsIn
<1>3. EndOf(none, Len(none)) = 0 /\ Part(t, 0, 0) = none /\ Len(t) \in Nat
  BY <1>1, PartNone DEF EndOf
<1>4. FrontLoop(b, S, t, none)
  BY <1>1 DEF FrontLoop
<1>5. b[Len(none)] = none
  BY <1>1
<1>6. none = b[Len(none)] \o Part(t, EndOf(none, Len(none)), 0)
  BY Zenon, <1>1, <1>3, <1>5
<1> HIDE DEF none, b
<1>7. Reaches(S, t, none, 0, none)
  BY <1>2, <1>3, <1>4, <1>6 DEF Reaches
<1> QED
  BY <1>7 DEF none

(* What the text put together so far is.                                   *)
LEMMA ReachText ==
  ASSUME NEW S, NEW t \in Seq(S), NEW its, NEW p, NEW u, Reaches(S, t, its, p, u)
  PROVE  u \in Seq(S)
<1>1. PICK b : FrontLoop(b, S, t, its) /\ u = b[Len(its)] \o Part(t, EndOf(its, Len(its)), p)
  BY DEF Reaches
<1>2. EditsIn(S, Len(t), its) /\ p \in Nat /\ EndOf(its, Len(its)) <= p /\ p <= Len(t)
  BY DEF Reaches
<1>3. Len(its) \in Nat /\ EndOf(its, Len(its)) \in Nat
  BY <1>2, EditsNumbers
<1>4. Part(t, EndOf(its, Len(its)), p) \in Seq(S)
  BY <1>2, <1>3, PartOf
<1>5. b[Len(its)] \in Seq(S)
  BY <1>1, <1>3 DEF FrontLoop
<1> QED
  BY <1>1, <1>4, <1>5

(* The text up to the next edit is put behind it.                          *)
LEMMA ReachFurther ==
  ASSUME NEW S, NEW t \in Seq(S), NEW its, NEW p, NEW u, Reaches(S, t, its, p, u),
         NEW q \in Nat, p <= q, q <= Len(t)
  PROVE  Reaches(S, t, its, q, u \o Part(t, p, q))
<1>1. PICK b : FrontLoop(b, S, t, its) /\ u = b[Len(its)] \o Part(t, EndOf(its, Len(its)), p)
  BY DEF Reaches
<1>2. EditsIn(S, Len(t), its) /\ p \in Nat /\ EndOf(its, Len(its)) <= p /\ p <= Len(t)
  BY DEF Reaches
<1>3. PICK n, e : n = Len(its) /\ e = EndOf(its, n)
  OBVIOUS
<1>4. n \in Nat /\ e \in Nat /\ e <= p
  BY <1>2, <1>3, EditsNumbers
<1>5. b[n] \in Seq(S)
  <2>1. n \in 0 .. Len(its)
    BY <1>3, <1>4
  <2> QED
    BY <1>1, <2>1 DEF FrontLoop
<1>6. Part(t, e, p) \in Seq(S) /\ Part(t, p, q) \in Seq(S)
  BY <1>2, <1>4, PartOf
<1>7. Part(t, e, p) \o Part(t, p, q) = Part(t, e, q)
  BY <1>2, <1>4, PartJoin
<1>8. (b[n] \o Part(t, e, p)) \o Part(t, p, q) = b[n] \o (Part(t, e, p) \o Part(t, p, q))
  <2>1. \A x, y, z \in Seq(S) : (x \o y) \o z = x \o (y \o z)
    BY ConcatAssociative
  <2> QED
    BY Zenon, <1>5, <1>6, <2>1
<1>9. u = b[n] \o Part(t, e, p)
  BY Zenon, <1>1, <1>3
<1>10. u \o Part(t, p, q) = b[n] \o Part(t, e, q)
  BY Zenon, <1>7, <1>8, <1>9
<1>11. EndOf(its, Len(its)) <= q
  BY <1>2, <1>3, <1>4
<1> QED
  BY <1>1, <1>2, <1>3, <1>10, <1>11 DEF Reaches

(* The next edit puts its text behind it, and what it replaces is passed.  *)
LEMMA ReachEdit ==
  ASSUME NEW S, NEW t \in Seq(S), NEW its, NEW e, IsEdit(S, Len(t), e), NEW u,
         Reaches(S, t, its, e.start, u)
  PROVE  Reaches(S, t, Append(its, e), e.end, u \o e.text)
<1>1. PICK b : FrontLoop(b, S, t, its) /\ u = b[Len(its)] \o Part(t, EndOf(its, Len(its)), e.start)
  BY DEF Reaches
<1>2. EditsIn(S, Len(t), its) /\ EndOf(its, Len(its)) <= e.start
  BY DEF Reaches
<1>3. PICK n, more : n = Len(its) /\ more = Append(its, e)
  OBVIOUS
<1>4. /\ e.start \in Nat /\ e.end \in Nat /\ e.text \in Seq(S) /\ e.start <= e.end /\ e.end <= Len(t)
  BY DEF IsEdit
<1>5. PICK V : its \in Seq(V)
  BY <1>2 DEF EditsIn
<1>6. /\ n \in Nat /\ more \in Seq(V \cup {e}) /\ Len(more) = n + 1 /\ more[n + 1] = e
      /\ \A i \in 1 .. n : more[i] = its[i]
  <2>1. its \in Seq(V \cup {e}) /\ e \in V \cup {e}
    BY <1>5
  <2> QED
    BY <1>3, <2>1
<1>7. \A i \in 0 .. n : EndOf(more, i) = EndOf(its, i)
  <2>1. \A i \in 0 .. n : i = 0 \/ i \in 1 .. n
    BY <1>6
  <2> QED
    BY <1>6, <2>1 DEF EndOf
<1>8. EndOf(more, Len(more)) = e.end
  BY <1>6 DEF EndOf
<1>9. EditsIn(S, Len(t), more)
  <2>1. ASSUME NEW i \in 2 .. Len(more) PROVE more[i - 1].end <= more[i].start
    <3>1. CASE i = n + 1
      <4>1. n \in 1 .. n /\ i - 1 = n /\ n # 0
        BY <1>6, <3>1
      <4>2. its[n].end <= e.start
        BY <1>2, <1>3, <4>1 DEF EndOf
      <4> QED
        BY <1>6, <3>1, <4>1, <4>2
    <3>2. CASE i # n + 1
      <4>1. i \in 2 .. n /\ i \in 1 .. n /\ i - 1 \in 1 .. n
        BY <1>6, <3>2
      <4>2. its[i - 1].end <= its[i].start
        BY <1>2, <1>3, <4>1 DEF EditsIn
      <4> QED
        BY <1>6, <4>1, <4>2
    <3> QED
      BY <3>1, <3>2
  <2>2. ASSUME NEW i \in 1 .. Len(more) PROVE IsEdit(S, Len(t), more[i])
    <3>1. i = n + 1 \/ i \in 1 .. n
      BY <1>6
    <3> QED
      BY <1>2, <1>3, <1>6, <3>1 DEF EditsIn
  <2> QED
    BY <1>6, <2>1, <2>2 DEF EditsIn
<1> DEFINE c == [i \in 0 .. n + 1 |-> IF i = n + 1 THEN u \o e.text ELSE b[i]]
<1>10. b \in [0 .. n -> Seq(S)] /\ b[0] = << >>
       /\ \A i \in 1 .. n : b[i] = (b[i - 1] \o Part(t, EndOf(its, i - 1), its[i].start)) \o its[i].text
  BY <1>1, <1>3 DEF FrontLoop
<1>11. u \in Seq(S) /\ u \o e.text \in Seq(S)
  BY <1>4, ReachText
<1>12. c[n + 1] = u \o e.text /\ \A i \in 0 .. n : c[i] = b[i]
  BY <1>6
<1>13. c \in [0 .. Len(more) -> Seq(S)]
  BY <1>6, <1>10, <1>11
<1> HIDE DEF c
<1>14. ASSUME NEW i \in 1 .. Len(more)
       PROVE  c[i] = (c[i - 1] \o Part(t, EndOf(more, i - 1), more[i].start)) \o more[i].text
  <2>1. CASE i = n + 1
    <3>1. i - 1 = n /\ n \in 0 .. n
      BY <1>6, <2>1
    <3>2. c[n] = b[n] /\ EndOf(more, n) = EndOf(its, n) /\ more[i] = e /\ c[i] = u \o e.text
      BY <1>6, <1>7, <1>12, <2>1, <3>1
    <3> QED
      BY Zenon, <1>1, <1>3, <3>1, <3>2
  <2>2. CASE i # n + 1
    <3>1. i \in 1 .. n /\ i \in 0 .. n /\ i - 1 \in 0 .. n
      BY <1>6, <2>2
    <3>2. c[i] = b[i] /\ c[i - 1] = b[i - 1] /\ EndOf(more, i - 1) = EndOf(its, i - 1) /\ more[i] = its[i]
      BY <1>6, <1>7, <1>12, <3>1
    <3>3. b[i] = (b[i - 1] \o Part(t, EndOf(its, i - 1), its[i].start)) \o its[i].text
      BY <1>10, <3>1
    <3> QED
      BY Zenon, <3>2, <3>3
  <2> QED
    BY <2>1, <2>2
<1>15. c[0] = << >>
  BY <1>6, <1>10, <1>12
<1>16. FrontLoop(c, S, t, more)
  BY <1>13, <1>14, <1>15 DEF FrontLoop
<1>17. u \o e.text = c[Len(more)] \o Part(t, EndOf(more, Len(more)), e.end)
  <2>1. Part(t, e.end, e.end) = << >>
    BY <1>4, PartNone
  <2>2. (u \o e.text) \o << >> = u \o e.text
    BY <1>11, ConcatEmptySeq
  <2> QED
    BY Zenon, <1>6, <1>8, <1>12, <2>1, <2>2
<1>18. EndOf(more, Len(more)) <= e.end
  BY <1>4, <1>8
<1> QED
  BY <1>3, <1>4, <1>9, <1>16, <1>17, <1>18 DEF Reaches

(* At the end of the text it is what the edits make of it.                 *)
LEMMA ReachAll ==
  ASSUME NEW S, NEW t \in Seq(S), NEW its, NEW u, Reaches(S, t, its, Len(t), u)
  PROVE  EditsIn(S, Len(t), its) /\ ApplyText(t, its) = u
<1>1. PICK b : FrontLoop(b, S, t, its) /\ u = b[Len(its)] \o Part(t, EndOf(its, Len(its)), Len(t))
  BY DEF Reaches
<1>2. EditsIn(S, Len(t), its)
  BY DEF Reaches
<1>3. PICK c : /\ FrontLoop(c, S, t, its)
               /\ ApplyText(t, its) = c[Len(its)] \o Part(t, EndOf(its, Len(its)), Len(t))
  BY <1>2, ApplySteps
<1>4. PICK n : n = Len(its)
  OBVIOUS
<1>5. n \in Nat
  BY <1>2, <1>4, EditsNumbers
<1>6. n <= Len(its) /\ Len(its) \in Nat /\ n \in 0 .. n
  BY <1>4, <1>5
<1>7. b[n] = c[n]
  BY <1>1, <1>3, <1>5, <1>6, SameFront
<1> QED
  BY Zenon, <1>1, <1>2, <1>3, <1>4, <1>7

(* The atoms of s after offset x and up to y stand in t, g further on.     *)
Stands(s, t, x, y, g) ==
  g \in Int /\ \A j \in 1 .. Len(s) : x < j /\ j <= y => j + g \in 1 .. Len(t) /\ t[j + g] = s[j]

(* A part of what stands in another text is a part of that text.           *)
LEMMA PartStands ==
  ASSUME NEW S, NEW s \in Seq(S), NEW t \in Seq(S), NEW x \in Int, NEW y \in Int, NEW g \in Int,
         Stands(s, t, x, y, g),
         NEW a \in Nat, NEW b \in Nat, x <= a, a <= b, b <= y, b <= Len(s),
         NEW c \in Int, c = a + g, NEW d \in Int, d = b + g
  PROVE  /\ a < b => c \in Nat /\ d \in Nat /\ d <= Len(t)
         /\ c \in Nat => Part(t, c, d) = Part(s, a, b)
<1>1. Len(s) \in Nat /\ Len(t) \in Nat
  OBVIOUS
<1>2. ASSUME NEW j \in 1 .. Len(s), x < j, j <= y PROVE j + g \in 1 .. Len(t) /\ t[j + g] = s[j]
  BY <1>2 DEF Stands
<1>3. ASSUME a < b PROVE c \in Nat /\ d \in Nat /\ d <= Len(t)
  <2>1. a + 1 \in 1 .. Len(s) /\ x < a + 1 /\ a + 1 <= y /\ b \in 1 .. Len(s) /\ x < b /\ b <= y
    BY <1>1, <1>3
  <2>2. a + 1 + g \in 1 .. Len(t) /\ b + g \in 1 .. Len(t)
    BY <1>2, <2>1
  <2> QED
    BY <1>1, <2>2
<1>4. ASSUME c \in Nat PROVE Part(t, c, d) = Part(s, a, b)
  <2>1. CASE a = b
    <3>1. c = d
      BY <2>1
    <3>2. Part(t, c, c) = << >> /\ Part(s, a, a) = << >>
      BY <1>4, PartNone
    <3> QED
      BY Zenon, <2>1, <3>1, <3>2
  <2>2. CASE a < b
    <3>1. PICK m : m = b - a
      OBVIOUS
    <3>2. Agree(s, a, t, c, m)
      <4>1. ASSUME NEW i \in 1 .. m PROVE s[a + i] = t[c + i]
        <5>1. PICK j : j = a + i
          OBVIOUS
        <5>2. j \in 1 .. Len(s) /\ x < j /\ j <= y
          BY <1>1, <3>1, <5>1
        <5>3. t[j + g] = s[j]
          BY <1>2, <5>2
        <5>4. j + g = c + i
          BY <3>1, <5>1
        <5> QED
          BY <5>1, <5>3, <5>4
      <4> QED
        BY <4>1 DEF Agree
    <3>3. d \in Nat /\ d <= Len(t) /\ d - c = m
      BY <1>3, <2>2, <3>1
    <3>4. Part(s, a, b) = Part(t, c, d)
      BY <1>4, <3>1, <3>2, <3>3, SamePart
    <3> QED
      BY <3>4
  <2> QED
    BY <2>1, <2>2
<1> QED
  BY <1>3, <1>4

(* The ends of a gap and the text in it move together, and no edit         *)
(* rewrites the text.                                                      *)
GapStands(batches, x, y, lo, hi, s, t, g) ==
  Stands(s, t, x, y, g) /\ Fwd(batches, x, lo) = x + g /\ Fwd(batches, y, hi) = y + g

(* A gap between the spans of all edits stands in the last text.           *)
LEMMA GapPart ==
  ASSUME NEW S, NEW batches, NEW texts, TextChain(S, batches, texts),
         NEW x \in Int, NEW y \in Int, x < y, NEW lo, lo = TRUE, NEW hi, hi = FALSE,
         SpansOutside(batches, x, y, lo, hi)
  PROVE  \E g : GapStands(batches, x, y, lo, hi, texts[0], texts[Len(batches)], g)
<1>1. PICK len : Layers(batches, len)
  BY ChainLayers
<1>2. PICK A, B : GapPair(batches, x, y, A, B, lo, hi)
  BY <1>1, GapOffsets
<1>3. PICK K : K = Len(batches)
  OBVIOUS
<1>4. K \in Nat /\ K \in 0 .. K /\ texts[K] \in Seq(S) /\ texts[0] \in Seq(S)
  BY <1>3 DEF TextChain
<1>5. GapLoops(batches, x, y, A, B, lo, hi) /\ Fwd(batches, x, lo) = A[K] /\ Fwd(batches, y, hi) = B[K]
  BY Zenon, <1>2, <1>3 DEF GapPair
<1>6. PICK a, b, g : a = A[K] /\ b = B[K] /\ g = a - x
  OBVIOUS
<1>7. a \in Int /\ b \in Int /\ b - a = y - x
  BY <1>3, <1>4, <1>5, <1>6 DEF GapLoops, FwdLoop
<1>8. g \in Int /\ a = x + g /\ b = y + g
  BY <1>6, <1>7
<1>9. ASSUME NEW j \in 1 .. Len(texts[0]), x < j, j <= y
      PROVE  j + g \in 1 .. Len(texts[K]) /\ texts[K][j + g] = texts[0][j]
  <2>1. Kept(texts, A, x, j, Len(batches))
    BY <1>5, <1>9, GapText
  <2> QED
    BY <1>3, <1>4, <1>6, <2>1 DEF Kept
<1>10. Stands(texts[0], texts[K], x, y, g)
  BY <1>8, <1>9 DEF Stands
<1>11. GapStands(batches, x, y, lo, hi, texts[0], texts[K], g)
  BY Zenon, <1>5, <1>6, <1>8, <1>10 DEF GapStands
<1> QED
  BY <1>3, <1>11

(* The ends of a gap, batch by batch: no edit rewrites them.               *)
GapKept(batches, x, y, A, B, lo, hi) ==
  /\ FwdLoop(A, batches, x, lo) /\ FwdLoop(B, batches, y, hi)
  /\ Fwd(batches, x, lo) = A[Len(batches)] /\ Fwd(batches, y, hi) = B[Len(batches)]
  /\ \A c \in 1 .. Len(batches) : ~Rewrites(batches[c], A[c - 1]) /\ ~Rewrites(batches[c], B[c - 1])

(* No edit rewrites the ends of a gap between the spans of all edits.      *)
LEMMA GapEnds ==
  ASSUME NEW batches, NEW len, Layers(batches, len), NEW x \in Int, NEW y \in Int, x < y,
         NEW lo, lo = TRUE, NEW hi, hi = FALSE, SpansOutside(batches, x, y, lo, hi)
  PROVE  \E A, B : GapKept(batches, x, y, A, B, lo, hi)
<1>1. PICK A, B : GapPair(batches, x, y, A, B, lo, hi)
  BY GapOffsets
<1>2. FwdLoop(A, batches, x, lo) /\ FwdLoop(B, batches, y, hi)
  BY <1>1 DEF GapPair, GapLoops
<1>3. ASSUME NEW c \in 1 .. Len(batches)
      PROVE  ~Rewrites(batches[c], A[c - 1]) /\ ~Rewrites(batches[c], B[c - 1])
  <2>1. c - 1 \in 0 .. Len(batches)
    BY DEF Layers
  <2>2. PICK a, b : a = A[c - 1] /\ b = B[c - 1]
    OBVIOUS
  <2>3. a \in Int /\ b \in Int /\ b - a = y - x /\ Outside(batches[c], a, b) /\ InLine(batches[c])
    BY <1>1, <2>1, <2>2 DEF GapPair, GapLoops, FwdLoop, Layers
  <2>4. a < b
    BY <2>3
  <2> QED
    BY <2>2, <2>3, <2>4, GapStep
<1> QED
  BY <1>1, <1>2, <1>3 DEF GapPair, GapKept

(* What lies between two gaps keeps its order.                             *)
LEMMA SpanOrder ==
  ASSUME NEW batches, NEW len, Layers(batches, len), NEW lo, lo = TRUE, NEW hi, hi = FALSE,
         NEW x \in Int, NEW p \in Int, NEW q \in Int, NEW y \in Int, x < p, p <= q, q < y,
         SpansOutside(batches, x, p, lo, hi), SpansOutside(batches, q, y, lo, hi)
  PROVE  Fwd(batches, p, hi) <= Fwd(batches, q, lo)
<1>1. PICK A, P : GapKept(batches, x, p, A, P, lo, hi)
  BY GapEnds
<1>2. PICK Q, B : GapKept(batches, q, y, Q, B, lo, hi)
  BY GapEnds
<1>3. FwdLoop(P, batches, p, hi) /\ Fwd(batches, p, hi) = P[Len(batches)]
      /\ \A c \in 1 .. Len(batches) : ~Rewrites(batches[c], P[c - 1])
  BY <1>1 DEF GapKept
<1>4. FwdLoop(Q, batches, q, lo) /\ Fwd(batches, q, lo) = Q[Len(batches)]
      /\ \A c \in 1 .. Len(batches) : ~Rewrites(batches[c], Q[c - 1])
  BY <1>2 DEF GapKept
<1>5. P[Len(batches)] <= Q[Len(batches)]
  BY <1>3, <1>4, FwdOrder
<1> QED
  BY Zenon, <1>3, <1>4, <1>5

(* What edit i of batch c covers in the text before all of them.           *)
SpanAt(batches, c, i, lo, hi) ==
  [start |-> Back(batches, c - 1, batches[c][i].start, lo),
   end   |-> Back(batches, c - 1, batches[c][i].end, hi)]
SpansBy(batches, lo, hi) ==
  UNION {{SpanAt(batches, b, i, lo, hi) : i \in DOMAIN batches[b]} : b \in DOMAIN batches}

(* Each edit has its span.                                                 *)
LEMMA SpansOfEdits ==
  ASSUME NEW batches, NEW lo, NEW hi
  PROVE  \A c \in DOMAIN batches : \A i \in DOMAIN batches[c] :
           SpanAt(batches, c, i, lo, hi) \in SpansBy(batches, lo, hi)
  BY DEF SpansBy

(* Each span is the span of an edit.                                       *)
LEMMA SpanOfEdit ==
  ASSUME NEW batches, NEW lo, NEW hi, NEW s \in SpansBy(batches, lo, hi)
  PROVE  \E c \in DOMAIN batches : \E i \in DOMAIN batches[c] : s = SpanAt(batches, c, i, lo, hi)
  BY DEF SpansBy

(* The spans with the sides of the offsets named.                          *)
LEMMA SpansAre ==
  ASSUME NEW batches, NEW lo, lo = TRUE, NEW hi, hi = FALSE
  PROVE  Spans(batches) = SpansBy(batches, lo, hi)
<1>1. Spans(batches) = SpansBy(batches, TRUE, FALSE)
  BY DEF Spans, SpansBy, SpanAt
<1> QED
  BY Zenon, <1>1

(* The spans of the edits are ranges of the first text.                    *)
LEMMA SpansInText ==
  ASSUME NEW batches, NEW len, Layers(batches, len)
  PROVE  Spans(batches) \in SUBSET Ranges(len[0])
<1>1. PICK lo, hi : lo = TRUE /\ hi = FALSE
  BY Zenon
<1>2. Spans(batches) = SpansBy(batches, lo, hi)
  BY <1>1, SpansAre
<1>3. Len(batches) \in Nat /\ DOMAIN batches = 1 .. Len(batches) /\ len \in [0 .. Len(batches) -> Nat]
  BY DEF Layers
<1>4. ASSUME NEW c \in DOMAIN batches, NEW i \in DOMAIN batches[c]
      PROVE  SpanAt(batches, c, i, lo, hi) \in Ranges(len[0])
  <2>1. /\ c \in 1 .. Len(batches) /\ c - 1 \in 0 .. Len(batches) /\ InLine(batches[c])
        /\ \A k \in 1 .. Len(batches[c]) : batches[c][k].end <= len[c - 1]
    BY <1>3 DEF Layers
  <2>2. PICK batch, n, p, q : batch = batches[c] /\ n = c - 1 /\ p = batches[c][i].start /\ q = batches[c][i].end
    OBVIOUS
  <2>3. i \in 1 .. Len(batch)
    <3>1. LoggedEdits(batch)
      BY <2>1, <2>2 DEF InLine
    <3> QED
      BY <2>2, <3>1 DEF LoggedEdits
  <2>4. p \in Nat /\ q \in Nat /\ p <= q
    <3>1. LoggedEdits(batch)
      BY <2>1, <2>2 DEF InLine
    <3>2. LoggedEdit(batch[i])
      BY <2>3, <3>1 DEF LoggedEdits
    <3> QED
      BY <2>2, <3>2 DEF LoggedEdit
  <2>5. n \in 0 .. Len(batches) /\ len[n] \in Nat /\ q <= len[n]
    BY <1>3, <2>1, <2>2, <2>3
  <2>6. p \in 0 .. len[n] /\ q \in 0 .. len[n]
    BY <2>4, <2>5
  <2>7. PICK a, b : a = Back(batches, n, p, lo) /\ b = Back(batches, n, q, hi)
    OBVIOUS
  <2>8. a \in 0 .. len[0] /\ b \in 0 .. len[0] /\ a <= b
    BY <1>1, <2>4, <2>5, <2>6, <2>7, BackInFirst
  <2>9. SpanAt(batches, c, i, lo, hi) = [start |-> a, end |-> b]
    BY Zenon, <2>2, <2>7 DEF SpanAt
  <2>10. [start |-> a, end |-> b] \in Ranges(len[0])
    BY <2>8 DEF Ranges
  <2> QED
    BY Zenon, <2>9, <2>10
<1> QED
  <2>1. \A s \in SpansBy(batches, lo, hi) : s \in Ranges(len[0])
    <3>1. ASSUME NEW s \in SpansBy(batches, lo, hi) PROVE s \in Ranges(len[0])
      <4>1. PICK c \in DOMAIN batches : \E i \in DOMAIN batches[c] : s = SpanAt(batches, c, i, lo, hi)
        BY SpanOfEdit
      <4>2. PICK i \in DOMAIN batches[c] : s = SpanAt(batches, c, i, lo, hi)
        BY Zenon, <4>1
      <4> QED
        BY Zenon, <1>4, <4>2
    <3> QED
      BY Zenon, <3>1
  <2> QED
    BY Zenon, <1>2, <2>1

(* The gaps between ranges ms of a text of length len: gap 0 ends at the   *)
(* first range, gap Len(ms) begins at the last one.                        *)
GapFrom(ms, i) == IF i = 0 THEN -1 ELSE ms[i].end
GapTo(ms, i, len) == IF i = Len(ms) THEN len + 1 ELSE ms[i + 1].start

(* The gaps between ranges that are apart, in numbers.                     *)
LEMMA GapNumbers ==
  ASSUME NEW len \in Nat, NEW spans, NEW ms, Joins(ms, spans, len)
  PROVE  /\ Len(ms) \in Nat
         /\ \A i \in 1 .. Len(ms) : /\ ms[i].start \in Nat /\ ms[i].end \in Nat /\ ms[i].start <= ms[i].end
                                    /\ ms[i].end <= len
         /\ \A i \in 0 .. Len(ms) : /\ GapFrom(ms, i) \in Int /\ GapTo(ms, i, len) \in Int
                                    /\ GapFrom(ms, i) < GapTo(ms, i, len)
<1>1. ms \in Seq(Ranges(len)) /\ Len(ms) \in Nat /\ \A i, j \in 1 .. Len(ms) : i < j => ms[i].end < ms[j].start
  BY DEF Joins
<1>2. ASSUME NEW i \in 1 .. Len(ms)
      PROVE  /\ ms[i].start \in Nat /\ ms[i].end \in Nat /\ ms[i].start <= ms[i].end /\ ms[i].end <= len
  <2>1. ms[i] \in Ranges(len)
    BY <1>1
  <2> QED
    BY <2>1 DEF Ranges
<1>3. ASSUME NEW i \in 0 .. Len(ms)
      PROVE  /\ GapFrom(ms, i) \in Int /\ GapTo(ms, i, len) \in Int /\ GapFrom(ms, i) < GapTo(ms, i, len)
  <2>1. PICK n : n = Len(ms)
    OBVIOUS
  <2>2. n \in Nat /\ i \in 0 .. n
    BY <1>1, <2>1
  <2>3. CASE i = 0
    <3>1. GapFrom(ms, i) = -1
      BY <2>3 DEF GapFrom
    <3>2. GapTo(ms, i, len) \in Nat
      <4>1. CASE i = n
        BY <2>1, <4>1 DEF GapTo
      <4>2. CASE i # n
        <5>1. i + 1 \in 1 .. Len(ms)
          BY <2>1, <2>2, <4>2
        <5> QED
          BY <1>2, <2>1, <4>2, <5>1 DEF GapTo
      <4> QED
        BY <4>1, <4>2
    <3> QED
      BY <3>1, <3>2
  <2>4. CASE i # 0
    <3>1. i \in 1 .. Len(ms) /\ GapFrom(ms, i) = ms[i].end
      BY <2>1, <2>2, <2>4 DEF GapFrom
    <3>2. ms[i].end \in Nat /\ ms[i].end <= len
      BY <1>2, <3>1
    <3>3. CASE i = n
      <4>1. GapTo(ms, i, len) = len + 1
        BY <2>1, <3>3 DEF GapTo
      <4> QED
        BY <3>1, <3>2, <4>1
    <3>4. CASE i # n
      <4>1. i + 1 \in 1 .. Len(ms) /\ i < i + 1 /\ GapTo(ms, i, len) = ms[i + 1].start
        BY <2>1, <2>2, <3>4 DEF GapTo
      <4>2. ms[i].end < ms[i + 1].start /\ ms[i + 1].start \in Nat
        BY <1>1, <1>2, <3>1, <4>1
      <4> QED
        BY <3>1, <3>2, <4>1, <4>2
    <3> QED
      BY <3>3, <3>4
  <2> QED
    BY <2>3, <2>4
<1> QED
  BY <1>1, <1>2, <1>3

(* No edit of any batch is in a gap between the ranges that join all.      *)
LEMMA GapsOutside ==
  ASSUME NEW batches, NEW len, Layers(batches, len), NEW ms, Joins(ms, Spans(batches), len[0]),
         NEW lo, lo = TRUE, NEW hi, hi = FALSE, NEW i \in 0 .. Len(ms)
  PROVE  SpansOutside(batches, GapFrom(ms, i), GapTo(ms, i, len[0]), lo, hi)
<1>1. Spans(batches) = SpansBy(batches, lo, hi) /\ Spans(batches) \in SUBSET Ranges(len[0])
  BY SpansAre, SpansInText
<1>2. Len(batches) \in Nat /\ DOMAIN batches = 1 .. Len(batches) /\ len[0] \in Nat
  BY DEF Layers
<1>3. PICK n, x, y : n = Len(ms) /\ x = GapFrom(ms, i) /\ y = GapTo(ms, i, len[0])
  OBVIOUS
<1>4. /\ n \in Nat
      /\ \A k \in 1 .. n : /\ ms[k].start \in Nat /\ ms[k].end \in Nat /\ ms[k].start <= ms[k].end
  BY <1>2, <1>3, GapNumbers
<1>5. \A j, k \in 1 .. n : j < k => ms[j].end < ms[k].start
  BY <1>3 DEF Joins
<1>6. ASSUME NEW s \in Spans(batches) PROVE s.end <= x \/ y <= s.start
  <2>1. PICK k \in 1 .. n : ms[k].start <= s.start /\ s.end <= ms[k].end
    BY <1>3 DEF Joins
  <2>2. s.start \in Nat /\ s.end \in Nat
    <3>1. s \in Ranges(len[0])
      BY <1>1
    <3> QED
      BY <1>2, <3>1 DEF Ranges
  <2>3. ms[k].start \in Nat /\ ms[k].end \in Nat
    BY <1>4
  <2>4. CASE k <= i
    <3>1. i \in 1 .. n /\ x = ms[i].end
      BY <1>3, <1>4, <2>4 DEF GapFrom
    <3>2. ms[k].end <= ms[i].end
      <4>1. CASE k = i
        BY <2>3, <4>1
      <4>2. CASE k # i
        <5>1. k < i
          BY <1>3, <1>4, <2>4, <4>2
        <5>2. ms[k].end < ms[i].start /\ ms[i].start \in Nat /\ ms[i].end \in Nat /\ ms[i].start <= ms[i].end
          BY <1>4, <1>5, <3>1, <5>1
        <5> QED
          BY <2>3, <5>2
      <4> QED
        BY <4>1, <4>2
    <3>3. ms[i].end \in Nat
      BY <1>4, <3>1
    <3> QED
      BY <2>1, <2>2, <2>3, <3>1, <3>2, <3>3
  <2>5. CASE ~(k <= i)
    <3>1. i # n /\ i + 1 \in 1 .. n /\ i + 1 <= k
      BY <1>3, <1>4, <2>5
    <3>2. y = ms[i + 1].start
      BY <1>3, <3>1 DEF GapTo
    <3>3. ms[i + 1].start <= ms[k].start
      <4>1. CASE k = i + 1
        BY <2>3, <4>1
      <4>2. CASE k # i + 1
        <5>1. i + 1 < k
          BY <1>3, <1>4, <3>1, <4>2
        <5>2. ms[i + 1].end < ms[k].start /\ ms[i + 1].start \in Nat /\ ms[i + 1].end \in Nat
              /\ ms[i + 1].start <= ms[i + 1].end
          BY <1>4, <1>5, <3>1, <5>1
        <5> QED
          BY <2>3, <5>2
      <4> QED
        BY <4>1, <4>2
    <3>4. ms[i + 1].start \in Nat
      BY <1>4, <3>1
    <3> QED
      BY <2>1, <2>2, <2>3, <3>2, <3>3, <3>4
  <2> QED
    BY <2>4, <2>5
<1>7. ASSUME NEW c \in 1 .. Len(batches), NEW j \in 1 .. Len(batches[c])
      PROVE  Back(batches, c - 1, batches[c][j].end, hi) <= x \/ y <= Back(batches, c - 1, batches[c][j].start, lo)
  <2>1. j \in DOMAIN batches[c] /\ c \in DOMAIN batches
    <3>1. InLine(batches[c])
      BY DEF Layers
    <3> QED
      BY <1>2, <3>1 DEF InLine, LoggedEdits
  <2>2. PICK s : s = SpanAt(batches, c, j, lo, hi)
    OBVIOUS
  <2>3. s \in SpansBy(batches, lo, hi)
    BY Zenon, <2>1, <2>2, SpansOfEdits
  <2>4. s \in Spans(batches)
    BY Zenon, <1>1, <2>3
  <2>5. PICK a, b : a = Back(batches, c - 1, batches[c][j].start, lo) /\ b = Back(batches, c - 1, batches[c][j].end, hi)
    OBVIOUS
  <2>6. s = [start |-> a, end |-> b]
    BY Zenon, <2>2, <2>5 DEF SpanAt
  <2>7. s.start = a /\ s.end = b
    BY <2>6
  <2> QED
    BY Zenon, <1>6, <2>4, <2>5, <2>7
<1> QED
  BY Zenon, <1>3, <1>7 DEF SpansOutside

(* Range i of the first text is the text between from[i] and to[i] of the  *)
(* last, as offsets that stay before what is inserted there and after it.  *)
FwdEnds(batches, ms, from, to, lo, hi) ==
  \A i \in 1 .. Len(ms) : from[i] = Fwd(batches, ms[i].start, hi) /\ to[i] = Fwd(batches, ms[i].end, lo)

(* Gap i of the ranges is between ToOf and FromOf in the last text.        *)
ToOf(to, i) == IF i = 0 THEN 0 ELSE to[i]
FromOf(from, n, i, len) == IF i = n THEN len ELSE from[i + 1]
StartOf(ms, i, len) == IF i = Len(ms) THEN len ELSE ms[i + 1].start

GapSame(t, u, ms, from, to, i) ==
  /\ ToOf(to, i) \in Nat /\ FromOf(from, Len(ms), i, Len(u)) \in Nat
  /\ ToOf(to, i) <= FromOf(from, Len(ms), i, Len(u)) /\ FromOf(from, Len(ms), i, Len(u)) <= Len(u)
  /\ Part(u, ToOf(to, i), FromOf(from, Len(ms), i, Len(u))) = Part(t, EndOf(ms, i), StartOf(ms, i, Len(t)))

SameText(t, u, a, b, c, d) ==
  c \in Nat /\ d \in Nat /\ c <= d /\ d <= Len(u) /\ Part(u, c, d) = Part(t, a, b)

(* What stands in another text is there at the offsets of the gap.         *)
LEMMA GapPlaces ==
  ASSUME NEW S, NEW t \in Seq(S), NEW u \in Seq(S), NEW x \in Int, NEW y \in Int, NEW g \in Int,
         Stands(t, u, x, y, g), NEW a \in Nat, NEW b \in Nat, x <= a, a <= b, b <= y, b <= Len(t),
         NEW c \in Int, c = a + g, NEW d \in Int, d = b + g, a = b => c \in Nat /\ c <= Len(u)
  PROVE  SameText(t, u, a, b, c, d)
<1>1. /\ a < b => c \in Nat /\ d \in Nat /\ d <= Len(u)
      /\ c \in Nat => Part(u, c, d) = Part(t, a, b)
  BY PartStands
<1>2. a = b => d = c
  OBVIOUS
<1>3. a < b \/ a = b
  OBVIOUS
<1>4. c <= d
  OBVIOUS
<1> QED
  BY Zenon, <1>1, <1>2, <1>3, <1>4 DEF SameText

(* Every gap stands unchanged in the last text.                            *)
LEMMA GapsStand ==
  ASSUME NEW S, NEW batches, NEW texts, TextChain(S, batches, texts),
         NEW t, t = texts[0], NEW u, u = texts[Len(batches)],
         NEW ms, Joins(ms, Spans(batches), Len(t)), NEW lo, lo = TRUE, NEW hi, hi = FALSE,
         NEW from, NEW to, FwdEnds(batches, ms, from, to, lo, hi), NEW i \in 0 .. Len(ms)
  PROVE  GapSame(t, u, ms, from, to, i)
<1>1. PICK len : Layers(batches, len) /\ \A c \in 0 .. Len(batches) : len[c] = Len(texts[c])
  BY ChainLayers
<1>2. t \in Seq(S) /\ u \in Seq(S) /\ len[0] = Len(t) /\ len[Len(batches)] = Len(u)
      /\ Len(t) \in Nat /\ Len(u) \in Nat
  BY <1>1 DEF TextChain
<1>3. PICK x, y, n, l, m : /\ x = GapFrom(ms, i) /\ y = GapTo(ms, i, Len(t)) /\ n = Len(ms)
                           /\ l = Len(t) /\ m = Len(u)
  OBVIOUS
<1>4. Joins(ms, Spans(batches), len[0]) /\ len[0] \in Nat
  BY Zenon, <1>2
<1>5. /\ n \in Nat /\ i \in 0 .. n /\ x \in Int /\ y \in Int /\ x < y
      /\ \A k \in 1 .. n : ms[k].start \in Nat /\ ms[k].end \in Nat /\ ms[k].end <= l /\ ms[k].start <= ms[k].end
  BY <1>2, <1>3, <1>4, GapNumbers
<1>6. SpansOutside(batches, x, y, lo, hi)
  <2>1. SpansOutside(batches, GapFrom(ms, i), GapTo(ms, i, len[0]), lo, hi)
    BY <1>1, <1>4, GapsOutside
  <2> QED
    BY Zenon, <1>2, <1>3, <2>1
<1>7. PICK g : GapStands(batches, x, y, lo, hi, texts[0], texts[Len(batches)], g)
  BY <1>5, <1>6, GapPart
<1>8. PICK v, w : v = Fwd(batches, x, lo) /\ w = Fwd(batches, y, hi)
  OBVIOUS
<1>9. Stands(t, u, x, y, g) /\ g \in Int /\ v = x + g /\ w = y + g
  BY <1>7, <1>8 DEF GapStands, Stands
<1>10. PICK a, b, c, d : /\ a = EndOf(ms, i) /\ b = StartOf(ms, i, l) /\ c = ToOf(to, i)
                         /\ d = FromOf(from, n, i, m)
  OBVIOUS
<1>11. a \in Nat /\ x <= a /\ c = a + g /\ (i = 0 => c = 0) /\ (i # 0 => x = a)
  <2>1. CASE i = 0
    <3>1. x = -1 /\ a = 0 /\ c = 0
      BY <1>3, <1>10, <2>1 DEF GapFrom, EndOf, ToOf
    <3>2. v = x
      <4>1. x < 0 /\ lo \in BOOLEAN
        BY <3>1
      <4> QED
        BY <1>1, <1>5, <1>8, <4>1, FwdFront
    <3> QED
      BY <1>5, <1>9, <2>1, <3>1, <3>2
  <2>2. CASE i # 0
    <3>1. i \in 1 .. n
      BY <1>5, <2>2
    <3>2. x = ms[i].end /\ a = ms[i].end /\ c = to[i]
      BY <1>3, <1>10, <2>2 DEF GapFrom, EndOf, ToOf
    <3>3. to[i] = Fwd(batches, ms[i].end, lo)
      BY <1>3, <3>1 DEF FwdEnds
    <3>4. c = v
      BY Zenon, <1>8, <3>2, <3>3
    <3>5. a \in Nat
      BY <1>5, <3>1, <3>2
    <3> QED
      BY <1>9, <2>2, <3>2, <3>4, <3>5
  <2> QED
    BY <2>1, <2>2
<1>12. b \in Nat /\ b <= y /\ b <= l /\ d = b + g /\ (i = n => d = m) /\ (i # n => y = b)
  <2>1. CASE i = n
    <3>1. y = l + 1 /\ b = l /\ d = m
      BY <1>3, <1>10, <2>1 DEF GapTo, StartOf, FromOf
    <3>2. w = m + 1
      <4>1. PICK e : e = 1
        OBVIOUS
      <4>2. e \in Nat /\ (e = 0 => hi) /\ hi \in BOOLEAN /\ y = len[0] + e
        <5>1. e \in Nat /\ e # 0 /\ y = len[0] + e
          BY <1>2, <1>3, <3>1, <4>1
        <5>2. hi \in BOOLEAN
          BY Zenon
        <5> QED
          BY Zenon, <5>1, <5>2
      <4>3. Fwd(batches, len[0] + e, hi) = len[Len(batches)] + e
        BY <1>1, <4>2, FwdEnd
      <4> QED
        BY <1>2, <1>3, <1>8, <4>1, <4>2, <4>3
    <3>3. l \in Nat /\ m \in Nat
      BY <1>2, <1>3
    <3> QED
      BY <1>9, <2>1, <3>1, <3>2, <3>3
  <2>2. CASE i # n
    <3>1. i + 1 \in 1 .. n
      BY <1>5, <2>2
    <3>2. y = ms[i + 1].start /\ b = ms[i + 1].start /\ d = from[i + 1]
      BY <1>3, <1>10, <2>2 DEF GapTo, StartOf, FromOf
    <3>3. from[i + 1] = Fwd(batches, ms[i + 1].start, hi)
      BY <1>3, <3>1 DEF FwdEnds
    <3>4. d = w
      BY Zenon, <1>8, <3>2, <3>3
    <3>5. b \in Nat /\ b <= l
      <4>1. /\ ms[i + 1].start \in Nat /\ ms[i + 1].end \in Nat /\ ms[i + 1].end <= l
            /\ ms[i + 1].start <= ms[i + 1].end
        BY <1>5, <3>1
      <4>2. l \in Nat
        BY <1>2, <1>3
      <4> QED
        BY <3>2, <4>1, <4>2
    <3> QED
      BY <1>9, <2>2, <3>2, <3>4, <3>5
  <2> QED
    BY <2>1, <2>2
<1>13. m \in Nat /\ l \in Nat
  BY <1>2, <1>3
<1>14. a <= b
  <2>1. CASE i = 0
    <3>1. a = 0
      BY <1>10, <2>1 DEF EndOf
    <3> QED
      BY <1>12, <3>1
  <2>2. CASE i # 0
    <3>1. x = a /\ a < y
      BY <1>5, <1>11, <2>2
    <3>2. CASE i = n
      <4>1. b = l /\ y = l + 1
        BY <1>3, <1>10, <3>2 DEF GapTo, StartOf
      <4> QED
        BY <1>11, <1>13, <3>1, <4>1
    <3>3. CASE i # n
      BY <1>11, <1>12, <3>1, <3>3
    <3> QED
      BY <3>2, <3>3
  <2> QED
    BY <2>1, <2>2
<1>15. c \in Int /\ d \in Int
  BY <1>9, <1>11, <1>12
<1>16. a = b => c \in Nat /\ c <= m
  <2> SUFFICES ASSUME a = b PROVE c \in Nat /\ c <= m
    OBVIOUS
  <2>1. i = 0 \/ i = n
    BY <1>5, <1>11, <1>12
  <2>2. c = d
    BY <1>11, <1>12
  <2> QED
    BY <1>11, <1>12, <1>13, <2>1, <2>2
<1>17. SameText(t, u, a, b, c, d)
  <2>1. b <= Len(t) /\ (a = b => c \in Nat /\ c <= Len(u))
    BY <1>3, <1>12, <1>16
  <2>2. a \in Nat /\ b \in Nat /\ x <= a /\ a <= b /\ b <= y /\ c = a + g /\ d = b + g
    BY <1>11, <1>12, <1>14
  <2> QED
    BY <1>2, <1>5, <1>9, <1>15, <2>1, <2>2, GapPlaces
<1> QED
  BY Zenon, <1>3, <1>10, <1>17 DEF GapSame, SameText

(* What lies between the gaps keeps its order.                             *)
LEMMA RangesOrder ==
  ASSUME NEW batches, NEW len, Layers(batches, len), NEW ms, Joins(ms, Spans(batches), len[0]),
         NEW lo, lo = TRUE, NEW hi, hi = FALSE,
         NEW from, NEW to, FwdEnds(batches, ms, from, to, lo, hi), NEW i \in 1 .. Len(ms)
  PROVE  from[i] <= to[i]
<1>1. len[0] \in Nat
  BY DEF Layers
<1>2. PICK n, l : n = Len(ms) /\ l = len[0]
  OBVIOUS
<1>3. /\ n \in Nat /\ l \in Nat
      /\ \A k \in 1 .. n : ms[k].start \in Nat /\ ms[k].end \in Nat /\ ms[k].start <= ms[k].end
      /\ \A k \in 0 .. n : GapFrom(ms, k) \in Int /\ GapTo(ms, k, l) \in Int /\ GapFrom(ms, k) < GapTo(ms, k, l)
  BY <1>1, <1>2, GapNumbers
<1>4. i - 1 \in 0 .. n /\ i \in 0 .. n /\ i \in 1 .. n /\ i - 1 # n /\ (i - 1) + 1 = i /\ i # 0
  BY <1>2, <1>3
<1>5. PICK x, p, q, y, j : /\ x = GapFrom(ms, j) /\ p = ms[i].start /\ q = ms[i].end /\ y = GapTo(ms, i, l)
                           /\ j = i - 1
  OBVIOUS
<1>6. GapTo(ms, j, l) = p /\ GapFrom(ms, i) = q
  BY <1>2, <1>4, <1>5 DEF GapTo, GapFrom
<1>7. SpansOutside(batches, x, p, lo, hi)
  <2>1. SpansOutside(batches, GapFrom(ms, j), GapTo(ms, j, len[0]), lo, hi)
    BY <1>2, <1>4, <1>5, GapsOutside
  <2> QED
    BY Zenon, <1>2, <1>5, <1>6, <2>1
<1>8. SpansOutside(batches, q, y, lo, hi)
  <2>1. SpansOutside(batches, GapFrom(ms, i), GapTo(ms, i, len[0]), lo, hi)
    BY <1>2, <1>4, GapsOutside
  <2> QED
    BY Zenon, <1>2, <1>5, <1>6, <2>1
<1>9. x \in Int /\ p \in Int /\ q \in Int /\ y \in Int /\ x < p /\ p <= q /\ q < y
  <2>1. x \in Int /\ x < GapTo(ms, j, l) /\ y \in Int /\ GapFrom(ms, i) < y
    BY <1>3, <1>4, <1>5
  <2>2. p \in Nat /\ q \in Nat /\ p <= q
    BY <1>3, <1>4, <1>5
  <2> QED
    BY <1>6, <2>1, <2>2
<1>10. Fwd(batches, p, hi) <= Fwd(batches, q, lo)
  BY <1>7, <1>8, <1>9, SpanOrder
<1>11. from[i] = Fwd(batches, p, hi) /\ to[i] = Fwd(batches, q, lo)
  BY <1>5 DEF FwdEnds
<1> QED
  BY Zenon, <1>10, <1>11

(* Text put together of three parts, and of four.                          *)
Joins3(w, v, y) == (w \o v) \o y = w \o (v \o y)
Joins4(w, x, m, y) == ((w \o x) \o m) \o y = w \o ((x \o m) \o y)

(* Three parts are put together from the left or from the right alike.     *)
LEMMA ThreeParts ==
  ASSUME NEW S, NEW w \in Seq(S), NEW v \in Seq(S), NEW y \in Seq(S)
  PROVE  Joins3(w, v, y)
BY SMTT(30), ConcatAssociative DEF Joins3

(* So are four.                                                            *)
LEMMA FourParts ==
  ASSUME NEW S, NEW w \in Seq(S), NEW x \in Seq(S), NEW m \in Seq(S), NEW y \in Seq(S)
  PROVE  Joins4(w, x, m, y)
<1>1. (w \o x) \o m = w \o (x \o m)
  BY ThreeParts DEF Joins3
<1>2. x \o m \in Seq(S)
  BY ConcatProperties
<1>3. Joins3(w, x \o m, y)
  BY <1>2, ThreeParts
<1> QED
  BY ZenonT(30), <1>1, <1>3 DEF Joins3, Joins4

(* The first atoms of a text, and of a part.                               *)
LEMMA PartGrows ==
  ASSUME NEW S, NEW s \in Seq(S), NEW a \in Nat, NEW b \in Nat, a <= b, b <= Len(s)
  PROVE  Part(s, 0, a) \o Part(s, a, b) = Part(s, 0, b)
<1>1. PICK z : z = 0
  OBVIOUS
<1>2. z \in Nat /\ z <= a
  BY <1>1
<1>3. Part(s, z, a) \o Part(s, a, b) = Part(s, z, b)
  BY <1>2, PartJoin
<1> QED
  BY Zenon, <1>1, <1>3

(* The first atoms of a part.                                              *)
LEMMA PartFirst ==
  ASSUME NEW S, NEW s \in Seq(S), NEW a \in Nat, NEW b \in Nat, a <= b, b <= Len(s),
         NEW d \in Nat, d <= b - a
  PROVE  Part(Part(s, a, b), 0, d) = Part(s, a, a + d)
<1>1. PICK z : z = 0
  OBVIOUS
<1>2. z \in Nat /\ z <= d /\ a + z = a
  BY <1>1
<1>3. Part(Part(s, a, b), z, d) = Part(s, a + z, a + d)
  BY <1>2, PartOfPart
<1> QED
  BY Zenon, <1>1, <1>2, <1>3

(* The trimmed edit of a range puts text for the whole range.              *)
LEMMA ReachRange ==
  ASSUME NEW S, NEW t \in Seq(S), NEW its, NEW a \in Nat, NEW b \in Nat, a <= b, b <= Len(t),
         NEW w, Reaches(S, t, its, a, w), NEW text \in Seq(S), NEW e, e = Trimmed(a, Part(t, a, b), text)
  PROVE  /\ e \in EditsOver(S, Len(t)) /\ a <= e.start
         /\ Reaches(S, t, Append(its, e), b, w \o text)
<1>1. PICK old, l : old = Part(t, a, b) /\ l = Len(t)
  OBVIOUS
<1>2. old \in Seq(S) /\ Len(old) = b - a /\ l \in Nat /\ b <= l
  <2>1. Part(t, a, b) \in Seq(S) /\ Len(Part(t, a, b)) = b - a
    BY PartOf
  <2>2. Len(t) \in Nat
    OBVIOUS
  <2> QED
    BY <1>1, <2>1, <2>2
<1>3. e = Trimmed(a, old, text)
  BY Zenon, <1>1
<1>4. PICK p, q : Trims(e, S, a, old, text, p, q)
  BY <1>2, <1>3, TrimmedTrims
<1>5. /\ p \in Nat /\ q \in Nat /\ p <= q /\ q <= Len(old)
      /\ e.start = a + p /\ e.end = a + q /\ e.text \in Seq(S)
      /\ e = [start |-> a + p, end |-> a + q, text |-> e.text]
      /\ (Part(old, 0, p) \o e.text) \o Part(old, q, Len(old)) = text
  BY <1>4 DEF Trims
<1>6. PICK c, d, mid, m : c = e.start /\ d = e.end /\ mid = e.text /\ m = Len(old)
  OBVIOUS
<1>7. /\ c = a + p /\ d = a + q /\ c \in Nat /\ d \in Nat /\ a <= c /\ c <= d /\ d <= b /\ c <= l /\ d <= l
      /\ m = b - a /\ m \in Nat /\ q <= m /\ a + m = b /\ p <= m
  BY <1>2, <1>5, <1>6
<1>8. e \in EditsOver(S, Len(t))
  <2>1. e = [start |-> c, end |-> d, text |-> mid]
    BY Zenon, <1>5, <1>6
  <2>2. c \in 0 .. l /\ d \in 0 .. l /\ mid \in Seq(S)
    BY <1>2, <1>5, <1>6, <1>7
  <2>3. e \in EditsOver(S, l)
    BY <1>6, <1>7, <2>1, <2>2 DEF EditsOver
  <2> QED
    BY <1>1, <2>3
<1>9. PICK x, y : x = Part(t, a, c) /\ y = Part(t, d, b)
  OBVIOUS
<1>10. x = Part(old, 0, p) /\ y = Part(old, q, m)
  <2>1. Part(Part(t, a, b), 0, p) = Part(t, a, a + p)
    <3>1. p <= b - a
      BY <1>7
    <3> QED
      BY <1>5, <3>1, PartFirst
  <2>2. Part(Part(t, a, b), q, m) = Part(t, a + q, a + m)
    <3>1. q <= m /\ m <= b - a
      BY <1>5, <1>7
    <3> QED
      BY <1>5, <1>7, <3>1, PartOfPart
  <2> QED
    BY Zenon, <1>1, <1>7, <1>9, <2>1, <2>2
<1>11. w \in Seq(S) /\ x \in Seq(S) /\ y \in Seq(S) /\ mid \in Seq(S)
  <2>1. c <= Len(t)
    BY <1>1, <1>7
  <2>2. x \in Seq(S)
    BY <1>7, <1>9, <2>1, PartOf
  <2>3. y \in Seq(S)
    BY <1>7, <1>9, PartOf
  <2>4. w \in Seq(S)
    BY ReachText
  <2> QED
    BY <1>5, <1>6, <2>2, <2>3, <2>4
<1>12. Reaches(S, t, its, c, w \o x)
  <2>1. c <= Len(t)
    BY <1>1, <1>7
  <2> QED
    BY <1>7, <1>9, <2>1, ReachFurther
<1>13. Reaches(S, t, Append(its, e), d, (w \o x) \o mid)
  <2>1. Reaches(S, t, its, e.start, w \o x)
    BY Zenon, <1>6, <1>12
  <2>2. Reaches(S, t, Append(its, e), e.end, (w \o x) \o e.text)
    <3>1. IsEdit(S, Len(t), e)
      BY <1>2, <1>1, <1>8, EditsOverAre
    <3> QED
      BY <2>1, <3>1, ReachEdit
  <2> QED
    BY Zenon, <1>6, <2>2
<1>14. Reaches(S, t, Append(its, e), b, ((w \o x) \o mid) \o y)
  BY <1>7, <1>9, <1>13, ReachFurther
<1>15. ((w \o x) \o mid) \o y = w \o text
  <2>1. (x \o mid) \o y = text
    BY Zenon, <1>5, <1>6, <1>10
  <2>2. Joins4(w, x, mid, y)
    BY <1>11, FourParts
  <2> QED
    BY Zenon, <2>1, <2>2 DEF Joins4
<1>16. a <= e.start
  BY <1>6, <1>7
<1> QED
  BY Zenon, <1>8, <1>14, <1>15, <1>16

(* Edits with text between them.                                           *)
Apart(its) == \A j \in 2 .. Len(its) : its[j - 1].end < its[j].start

(* The edit of the range from a to b, which is from c to d in u: none when *)
(* nothing has changed.                                                    *)
EditOf(t, u, a, b, c, d) ==
  IF Part(t, a, b) = Part(u, c, d) THEN << >> ELSE <<Trimmed(a, Part(t, a, b), Part(u, c, d))>>

(* One more range: the edits so far, and the edit of the range, give the   *)
(* text up to its end.                                                     *)
LEMMA AddRange ==
  ASSUME NEW S, NEW t \in Seq(S), NEW u \in Seq(S), NEW its, NEW x \in Nat, NEW y \in Nat,
         Reaches(S, t, its, x, Part(u, 0, y)), Apart(its),
         NEW a \in Nat, NEW b \in Nat, x <= a, a <= b, b <= Len(t), its # << >> => x < a,
         NEW c \in Nat, NEW d \in Nat, y <= c, c <= d, d <= Len(u), Part(u, y, c) = Part(t, x, a),
         NEW part, part = EditOf(t, u, a, b, c, d)
  PROVE  /\ part \in Seq(EditsOver(S, Len(t)))
         /\ Reaches(S, t, its \o part, b, Part(u, 0, d)) /\ Apart(its \o part)
<1>1. Len(t) \in Nat /\ Len(u) \in Nat /\ a <= Len(t) /\ c <= Len(u) /\ y <= d /\ y <= Len(u)
  OBVIOUS
<1>2. EditsIn(S, Len(t), its) /\ EndOf(its, Len(its)) <= x
  BY DEF Reaches
<1>a. PICK V : its \in Seq(V)
  BY <1>2 DEF EditsIn
<1>3. Reaches(S, t, its, a, Part(u, 0, c))
  <2>1. Reaches(S, t, its, a, Part(u, 0, y) \o Part(t, x, a))
    BY <1>1, ReachFurther
  <2>2. Part(u, 0, y) \o Part(u, y, c) = Part(u, 0, c)
    BY <1>1, PartGrows
  <2> QED
    BY Zenon, <2>1, <2>2
<1>4. Part(u, 0, c) \o Part(u, c, d) = Part(u, 0, d)
  BY PartGrows
<1>5. CASE Part(t, a, b) = Part(u, c, d)
  <2>1. part = << >> /\ its \o part = its
    <3>1. part = << >>
      BY Zenon, <1>5 DEF EditOf
    <3> QED
      BY <1>a, <3>1, ConcatEmptySeq
  <2>2. Reaches(S, t, its, b, Part(u, 0, c) \o Part(t, a, b))
    BY <1>3, ReachFurther
  <2>3. Reaches(S, t, its, b, Part(u, 0, d))
    BY Zenon, <1>4, <1>5, <2>2
  <2>4. << >> \in Seq(EditsOver(S, Len(t)))
    OBVIOUS
  <2> QED
    BY Zenon, <2>1, <2>3, <2>4
<1>6. CASE Part(t, a, b) # Part(u, c, d)
  <2>1. PICK e, text : e = Trimmed(a, Part(t, a, b), text) /\ text = Part(u, c, d)
    OBVIOUS
  <2>2. part = <<e>>
    BY Zenon, <1>6, <2>1 DEF EditOf
  <2>3. text \in Seq(S)
    BY <2>1, PartOf
  <2>4. e \in EditsOver(S, Len(t)) /\ a <= e.start /\ Reaches(S, t, Append(its, e), b, Part(u, 0, c) \o text)
    BY <1>3, <2>1, <2>3, ReachRange
  <2>5. Reaches(S, t, Append(its, e), b, Part(u, 0, d))
    BY Zenon, <1>4, <2>1, <2>4
  <2>6. PICK n, more : n = Len(its) /\ more = Append(its, e)
    OBVIOUS
  <2>7. /\ its \o part = more /\ part \in Seq(EditsOver(S, Len(t))) /\ n \in Nat
        /\ Len(more) = n + 1 /\ more[n + 1] = e /\ \A j \in 1 .. n : more[j] = its[j]
    <3>1. its \in Seq(V \cup {e}) /\ e \in V \cup {e}
      BY <1>a
    <3> QED
      BY <2>2, <2>4, <2>6, <3>1
  <2>8. Apart(more)
    <3>1. ASSUME NEW j \in 2 .. Len(more) PROVE more[j - 1].end < more[j].start
      <4>1. CASE j = n + 1
        <5>1. n # 0 /\ n \in 1 .. n /\ j - 1 = n
          BY <2>7, <4>1
        <5>2. its[n].end <= x
          BY <1>2, <2>6, <5>1 DEF EndOf
        <5>3. x < a
          <6>1. its # << >>
            BY <2>6, <5>1
          <6> QED
            BY <6>1
        <5>4. its[n].end \in Nat /\ e.start \in Nat
          <6>1. its[n].end \in Nat
            BY <1>1, <1>2, <2>6, <5>1, EditsNumbers
          <6> QED
            BY <1>1, <2>4, <6>1 DEF EditsOver
        <5>5. its[n].end < e.start
          BY <2>4, <5>2, <5>3, <5>4
        <5> QED
          BY Zenon, <2>7, <4>1, <5>1, <5>5
      <4>2. CASE j # n + 1
        <5>1. j \in 2 .. n /\ j \in 1 .. n /\ j - 1 \in 1 .. n
          BY <2>7, <4>2
        <5>2. its[j - 1].end < its[j].start
          BY <2>6, <5>1 DEF Apart
        <5> QED
          BY <2>7, <5>1, <5>2
      <4> QED
        BY <4>1, <4>2
    <3> QED
      BY <3>1 DEF Apart
  <2> QED
    BY Zenon, <2>5, <2>6, <2>7, <2>8
<1> QED
  BY Zenon, <1>5, <1>6

(* The edit of a range is an edit of the text.                             *)
LEMMA EditOfRange ==
  ASSUME NEW S, NEW t \in Seq(S), NEW u \in Seq(S), NEW a \in Nat, NEW b \in Nat, a <= b, b <= Len(t),
         NEW c \in Nat, NEW d \in Nat, c <= d, d <= Len(u)
  PROVE  EditOf(t, u, a, b, c, d) \in Seq(EditsOver(S, Len(t)))
<1>1. PICK e, text : e = Trimmed(a, Part(t, a, b), text) /\ text = Part(u, c, d)
  OBVIOUS
<1>2. text \in Seq(S)
  BY <1>1, PartOf
<1>3. PICK w : Reaches(S, t, << >>, a, w)
  <2>1. Reaches(S, t, << >>, 0, << >>)
    BY ReachNone
  <2>2. a <= Len(t) /\ 0 <= a
    OBVIOUS
  <2>3. Reaches(S, t, << >>, a, << >> \o Part(t, 0, a))
    BY <2>1, <2>2, ReachFurther
  <2> QED
    BY <2>3
<1>4. e \in EditsOver(S, Len(t))
  BY <1>1, <1>2, <1>3, ReachRange
<1>5. <<e>> \in Seq(EditsOver(S, Len(t))) /\ << >> \in Seq(EditsOver(S, Len(t)))
  BY <1>4
<1>6. EditOf(t, u, a, b, c, d) = << >> \/ EditOf(t, u, a, b, c, d) = <<e>>
  BY Zenon, <1>1 DEF EditOf
<1> QED
  BY Zenon, <1>5, <1>6

(* Edits of t that are apart and give u.                                   *)
Gives(S, t, its, u) == EditsIn(S, Len(t), its) /\ Apart(its) /\ ApplyText(t, its) = u

(* The edits of all ranges turn the first text into the last.              *)
RangeEdit(t, u, ms, from, to, i) == EditOf(t, u, ms[i].start, ms[i].end, from[i], to[i])

(* The edits of all ranges turn the first text into the last.              *)
LEMMA RangesGive ==
  ASSUME NEW S, NEW t \in Seq(S), NEW u \in Seq(S), NEW spans, NEW ms, Joins(ms, spans, Len(t)),
         NEW from, NEW to, \A i \in 0 .. Len(ms) : GapSame(t, u, ms, from, to, i),
         \A i \in 1 .. Len(ms) : from[i] <= to[i],
         NEW parts, parts = [i \in 1 .. Len(ms) |-> RangeEdit(t, u, ms, from, to, i)]
  PROVE  Gives(S, t, Concat(parts), u)
<1>1. PICK n, l, V : n = Len(ms) /\ l = Len(t) /\ V = EditsOver(S, l)
  OBVIOUS
<1>2. l \in Nat /\ Len(u) \in Nat
  BY <1>1
<1>3. /\ n \in Nat
      /\ \A i \in 1 .. n : ms[i].start \in Nat /\ ms[i].end \in Nat /\ ms[i].start <= ms[i].end /\ ms[i].end <= l
  BY <1>1, <1>2, GapNumbers
<1>4. ASSUME NEW i \in 0 .. n - 1
      PROVE  /\ i + 1 \in 1 .. n /\ i \in 0 .. n /\ ToOf(to, i + 1) = to[i + 1] /\ EndOf(ms, i + 1) = ms[i + 1].end
             /\ ToOf(to, i) \in Nat /\ from[i + 1] \in Nat /\ ToOf(to, i) <= from[i + 1]
             /\ Part(u, ToOf(to, i), from[i + 1]) = Part(t, EndOf(ms, i), ms[i + 1].start)
  <2>1. i + 1 \in 1 .. n /\ i \in 0 .. n /\ i # n /\ i + 1 # 0
    BY <1>3
  <2>2. GapSame(t, u, ms, from, to, i)
    BY <1>1, <2>1
  <2>3. FromOf(from, Len(ms), i, Len(u)) = from[i + 1] /\ StartOf(ms, i, Len(t)) = ms[i + 1].start
    BY <1>1, <2>1 DEF FromOf, StartOf
  <2>4. ToOf(to, i + 1) = to[i + 1] /\ EndOf(ms, i + 1) = ms[i + 1].end
    BY <2>1 DEF ToOf, EndOf
  <2> QED
    BY Zenon, <2>1, <2>2, <2>3, <2>4 DEF GapSame
<1>5. ASSUME NEW i \in 0 .. n PROVE ToOf(to, i) \in Nat /\ ToOf(to, i) <= Len(u)
  <2>1. GapSame(t, u, ms, from, to, i)
    BY <1>1
  <2>2. PICK a, b : a = ToOf(to, i) /\ b = FromOf(from, Len(ms), i, Len(u))
    OBVIOUS
  <2>3. a \in Nat /\ b \in Nat /\ a <= b /\ b <= Len(u)
    BY Zenon, <2>1, <2>2 DEF GapSame
  <2> QED
    BY <1>2, <2>2, <2>3
<1>6. ASSUME NEW i \in 1 .. n
      PROVE  /\ from[i] \in Nat /\ to[i] \in Nat /\ from[i] <= to[i] /\ to[i] <= Len(u)
             /\ parts[i] = EditOf(t, u, ms[i].start, ms[i].end, from[i], to[i]) /\ parts[i] \in Seq(V)
  <2>1. PICK j : j = i - 1
    OBVIOUS
  <2>2. j \in 0 .. n - 1 /\ j + 1 = i /\ i \in 0 .. n /\ i # 0
    BY <1>3, <2>1
  <2>3. from[i] \in Nat
    BY <1>4, <2>2
  <2>4. to[i] \in Nat /\ to[i] <= Len(u)
    BY <1>5, <2>2 DEF ToOf
  <2>5. from[i] <= to[i]
    BY <1>1
  <2>6. parts[i] = EditOf(t, u, ms[i].start, ms[i].end, from[i], to[i])
    <3>1. parts[i] = RangeEdit(t, u, ms, from, to, i)
      BY <1>1
    <3> QED
      BY Zenon, <3>1 DEF RangeEdit
  <2>7. parts[i] \in Seq(V)
    <3>1. PICK a, b, c, d : a = ms[i].start /\ b = ms[i].end /\ c = from[i] /\ d = to[i]
      OBVIOUS
    <3>2. a \in Nat /\ b \in Nat /\ a <= b /\ b <= Len(t) /\ c \in Nat /\ d \in Nat /\ c <= d /\ d <= Len(u)
      BY <1>1, <1>3, <2>3, <2>4, <2>5, <3>1
    <3>3. EditOf(t, u, a, b, c, d) \in Seq(EditsOver(S, Len(t)))
      BY <3>2, EditOfRange
    <3> QED
      BY Zenon, <1>1, <2>6, <3>1, <3>3
  <2> QED
    BY Zenon, <2>3, <2>4, <2>5, <2>6, <2>7
<1>7. parts \in Seq(Seq(V)) /\ Len(parts) = n
  <2>1. parts \in [1 .. n -> Seq(V)]
    BY <1>1, <1>6
  <2> QED
    BY <1>3, <2>1
<1>8. PICK g : ConcatLoop(g, V, parts) /\ Concat(parts) = g[n]
  BY <1>7, ConcatLoops
<1>9. g \in [0 .. n -> Seq(V)] /\ g[0] = << >> /\ \A i \in 1 .. n : g[i] = g[i - 1] \o parts[i]
  BY <1>7, <1>8 DEF ConcatLoop
<1> DEFINE Right(i) == Reaches(S, t, g[i], EndOf(ms, i), Part(u, 0, ToOf(to, i))) /\ Apart(g[i])
           T == {i \in 0 .. n : Right(i)}
<1>10. 0 \in T
  <2>1. Part(u, 0, 0) = << >>
    BY PartNone
  <2>2. Reaches(S, t, << >>, 0, << >>)
    BY ReachNone
  <2>3. EndOf(ms, 0) = 0 /\ ToOf(to, 0) = 0
    BY DEF EndOf, ToOf
  <2>4. Apart(<< >>)
    BY DEF Apart
  <2>5. Right(0)
    BY Zenon, <1>9, <2>1, <2>2, <2>3, <2>4
  <2> HIDE DEF Right
  <2> QED
    BY <1>3, <2>5
<1>11. ASSUME NEW i \in 0 .. n - 1, i \in T PROVE i + 1 \in T
  <2>1. i + 1 \in 1 .. n /\ (i + 1) - 1 = i /\ i + 1 \in 0 .. n
    BY <1>3, NextNumber
  <2>2. Right(i)
    BY <1>11
  <2>3. PICK k, its, x, y, a, b, c, d, part :
          /\ its = g[i] /\ x = EndOf(ms, i) /\ y = ToOf(to, i) /\ a = ms[k].start /\ b = ms[k].end
          /\ c = from[k] /\ d = to[k] /\ part = parts[k] /\ k = i + 1
    OBVIOUS
  <2>4. Reaches(S, t, its, x, Part(u, 0, y)) /\ Apart(its)
    BY Zenon, <2>2, <2>3
  <2>5. k \in 1 .. n /\ a \in Nat /\ b \in Nat /\ a <= b /\ b <= Len(t)
    BY <1>1, <1>3, <2>1, <2>3
  <2>6. c \in Nat /\ d \in Nat /\ c <= d /\ d <= Len(u) /\ part = EditOf(t, u, a, b, c, d)
    BY Zenon, <1>6, <2>3, <2>5
  <2>7. /\ y \in Nat /\ y <= c /\ Part(u, y, c) = Part(t, x, a)
        /\ EndOf(ms, k) = b /\ ToOf(to, k) = d
    BY Zenon, <1>4, <2>3
  <2>8. x \in Nat /\ x <= a /\ (its # << >> => x < a)
    <3>1. CASE i = 0
      <4>1. x = 0 /\ its = << >>
        BY <1>9, <2>3, <3>1 DEF EndOf
      <4> QED
        BY <2>5, <4>1
    <3>2. CASE i # 0
      <4>1. i \in 1 .. n /\ x = ms[i].end /\ i < k
        BY <1>3, <2>3, <3>2 DEF EndOf
      <4>2. ms[i].end \in Nat
        BY <1>3, <4>1
      <4>3. ms[i].end < ms[k].start
        BY <1>1, <2>5, <4>1 DEF Joins
      <4> QED
        BY <2>3, <2>5, <4>1, <4>2, <4>3
    <3> QED
      BY <3>1, <3>2
  <2>9. Reaches(S, t, its \o part, b, Part(u, 0, d)) /\ Apart(its \o part)
    BY <2>4, <2>5, <2>6, <2>7, <2>8, AddRange
  <2>10. g[k] = its \o part
    BY <1>9, <2>1, <2>3
  <2>11. Right(k)
    BY Zenon, <2>7, <2>9, <2>10
  <2> HIDE DEF Right
  <2> QED
    BY <2>1, <2>3, <2>11
<1>12. n \in T
  <2>1. n \in 0 .. n
    BY <1>3
  <2> HIDE DEF T
  <2>2. \A i \in 0 .. n : i \in T
    BY <1>3, <1>10, <1>11, CountUp
  <2> QED
    BY <2>1, <2>2
<1>13. PICK its, x, y : its = g[n] /\ x = EndOf(ms, n) /\ y = ToOf(to, n)
  OBVIOUS
<1>14. Reaches(S, t, its, x, Part(u, 0, y)) /\ Apart(its) /\ n \in 0 .. n
  <2>1. Right(n) /\ n \in 0 .. n
    BY <1>12
  <2> QED
    BY Zenon, <1>13, <2>1
<1>15. y \in Nat /\ y <= Len(u) /\ Part(u, y, Len(u)) = Part(t, x, l)
  <2>1. GapSame(t, u, ms, from, to, n)
    BY <1>1, <1>14
  <2>2. FromOf(from, Len(ms), n, Len(u)) = Len(u) /\ StartOf(ms, n, Len(t)) = l
    BY <1>1 DEF FromOf, StartOf
  <2> QED
    BY Zenon, <1>13, <2>1, <2>2 DEF GapSame
<1>16. Part(u, 0, y) \o Part(u, y, Len(u)) = u
  <2>1. Part(u, 0, y) \o Part(u, y, Len(u)) = Part(u, 0, Len(u))
    <3>1. Len(u) <= Len(u)
      BY <1>2
    <3> QED
      BY <1>2, <1>15, <3>1, PartGrows
  <2> QED
    BY <2>1, PartWhole
<1>17. Reaches(S, t, its, l, Part(u, 0, y) \o Part(t, x, l))
  <2>1. x <= l
    <3>1. x \in Int /\ x <= Len(t)
      BY <1>14 DEF Reaches
    <3> QED
      BY <1>1, <3>1
  <2>2. l <= Len(t)
    BY <1>1, <1>2
  <2> QED
    BY <1>2, <1>14, <2>1, <2>2, ReachFurther
<1>18. Reaches(S, t, its, Len(t), u)
  BY Zenon, <1>1, <1>15, <1>16, <1>17
<1>19. EditsIn(S, Len(t), its) /\ ApplyText(t, its) = u
  BY <1>18, ReachAll
<1> QED
  BY Zenon, <1>8, <1>13, <1>14, <1>19 DEF Gives

(* Compose, with the sides of the offsets named.                           *)
EditBy(batches, t, u, s, lo, hi) ==
  EditOf(t, u, s.start, s.end, Fwd(batches, s.start, hi), Fwd(batches, s.end, lo))
ComposeBy(batches, t, u, lo, hi) ==
  Concat([i \in DOMAIN Merged(Spans(batches)) |-> EditBy(batches, t, u, Merged(Spans(batches))[i], lo, hi)])

(* Compose with the sides of the offsets named.                            *)
LEMMA ComposeIs ==
  ASSUME NEW batches, NEW t, NEW u, NEW lo, lo = TRUE, NEW hi, hi = FALSE
  PROVE  Compose(t, u, batches) = ComposeBy(batches, t, u, lo, hi)
<1>1. Compose(t, u, batches) = ComposeBy(batches, t, u, TRUE, FALSE)
  BY DEF Compose, ComposeBy, EditBy, EditOf, Part
<1> QED
  BY Zenon, <1>1

(* Where the ranges are in the last text.                                  *)
RangesBy(batches, u, lo, hi) ==
  \A s \in ToSet(Merged(Spans(batches))) :
    Fwd(batches, s.start, hi) <= Fwd(batches, s.end, lo) /\ Fwd(batches, s.end, lo) <= Len(u)

(* Compose does not fail where its ranges are in order in the last text    *)
(* and its edits give it.                                                  *)
LEMMA ComposesIf ==
  ASSUME NEW batches, NEW t, NEW u, NEW lo, lo = TRUE, NEW hi, hi = FALSE,
         RangesBy(batches, u, lo, hi), ApplyText(t, Compose(t, u, batches)) = u
  PROVE  Composes(t, u, batches)
<1>1. RangesBy(batches, u, TRUE, FALSE)
  BY Zenon
<1> QED
  BY Zenon, <1>1 DEF Composes, RangesBy

(* Whatever the batches do, composing them gives edits that are apart and  *)
(* turn the first text into the last.                                      *)
THEOREM ChainComposes ==
  ASSUME NEW S, NEW batches, NEW texts, TextChain(S, batches, texts),
         NEW t, t = texts[0], NEW u, u = texts[Len(batches)]
  PROVE  Composes(t, u, batches) /\ Gives(S, t, Compose(t, u, batches), u)
<1>1. PICK lo, hi : lo = TRUE /\ hi = FALSE
  BY Zenon
<1>2. PICK ms, n : ms = Merged(Spans(batches)) /\ n = Len(ms)
  OBVIOUS
<1>3. PICK len : Layers(batches, len) /\ \A c \in 0 .. Len(batches) : len[c] = Len(texts[c])
  BY ChainLayers
<1>4. /\ t \in Seq(S) /\ u \in Seq(S) /\ len[0] = Len(t) /\ Len(t) \in Nat /\ Len(u) \in Nat
  BY <1>3 DEF TextChain
<1>5. Joins(ms, Spans(batches), len[0]) /\ Joins(ms, Spans(batches), Len(t))
  <2>1. Spans(batches) \in SUBSET Ranges(len[0]) /\ len[0] \in Nat
    BY <1>3, <1>4, SpansInText
  <2>2. Joins(Merged(Spans(batches)), Spans(batches), len[0])
    BY <2>1, MergedJoins
  <2> QED
    BY Zenon, <1>2, <1>4, <2>2
<1>6. n \in Nat /\ DOMAIN ms = 1 .. n
  BY <1>2, <1>5 DEF Joins
<1> DEFINE from == [i \in 1 .. n |-> Fwd(batches, ms[i].start, hi)]
           to == [i \in 1 .. n |-> Fwd(batches, ms[i].end, lo)]
           parts == [i \in 1 .. n |-> RangeEdit(t, u, ms, from, to, i)]
<1>7. \A i \in 1 .. n : from[i] = Fwd(batches, ms[i].start, hi) /\ to[i] = Fwd(batches, ms[i].end, lo)
  BY Zenon
<1> HIDE DEF from, to
<1>8. FwdEnds(batches, ms, from, to, lo, hi)
  BY Zenon, <1>2, <1>7 DEF FwdEnds
<1>9. \A i \in 0 .. Len(ms) : GapSame(t, u, ms, from, to, i)
  BY <1>1, <1>5, <1>8, GapsStand
<1>10. \A i \in 1 .. Len(ms) : from[i] <= to[i]
  BY <1>1, <1>3, <1>5, <1>8, RangesOrder
<1>11. Gives(S, t, Concat(parts), u)
  <2>1. parts = [i \in 1 .. Len(ms) |-> RangeEdit(t, u, ms, from, to, i)]
    BY Zenon, <1>2
  <2> HIDE DEF parts
  <2> QED
    BY <1>4, <1>5, <1>9, <1>10, <2>1, RangesGive
<1>12. Compose(t, u, batches) = Concat(parts)
  <2>1. \A i \in 1 .. n : EditBy(batches, t, u, ms[i], lo, hi) = RangeEdit(t, u, ms, from, to, i)
    BY Zenon, <1>7 DEF EditBy, RangeEdit
  <2>2. [i \in DOMAIN ms |-> EditBy(batches, t, u, ms[i], lo, hi)] = parts
    BY <1>6, <2>1
  <2>3. ComposeBy(batches, t, u, lo, hi) = Concat([i \in DOMAIN ms |-> EditBy(batches, t, u, ms[i], lo, hi)])
    BY Zenon, <1>2 DEF ComposeBy
  <2>4. Compose(t, u, batches) = ComposeBy(batches, t, u, lo, hi)
    BY <1>1, ComposeIs
  <2> HIDE DEF parts
  <2> QED
    BY Zenon, <2>2, <2>3, <2>4
<1>13. RangesBy(batches, u, lo, hi)
  <2>1. ASSUME NEW s \in ToSet(ms)
        PROVE  Fwd(batches, s.start, hi) <= Fwd(batches, s.end, lo) /\ Fwd(batches, s.end, lo) <= Len(u)
    <3>1. PICK i \in 1 .. n : s = ms[i]
      BY <1>6 DEF ToSet
    <3>2. from[i] = Fwd(batches, s.start, hi) /\ to[i] = Fwd(batches, s.end, lo)
      BY Zenon, <1>7, <3>1
    <3>3. i \in 0 .. Len(ms) /\ i \in 1 .. Len(ms) /\ i # 0
      BY <1>2, <1>6
    <3>4. GapSame(t, u, ms, from, to, i) /\ from[i] <= to[i]
      BY <1>9, <1>10, <3>3
    <3>5. ToOf(to, i) = to[i]
      BY <3>3 DEF ToOf
    <3>6. PICK a, b : a = to[i] /\ b = FromOf(from, Len(ms), i, Len(u))
      OBVIOUS
    <3>7. a \in Nat /\ b \in Nat /\ a <= b /\ b <= Len(u)
      BY Zenon, <3>4, <3>5, <3>6 DEF GapSame
    <3>8. a <= Len(u)
      BY <1>4, <3>7
    <3> QED
      BY Zenon, <3>2, <3>4, <3>6, <3>8
  <2> QED
    BY Zenon, <1>2, <2>1 DEF RangesBy
<1>14. Gives(S, t, Compose(t, u, batches), u)
  BY Zenon, <1>11, <1>12
<1>15. ApplyText(t, Compose(t, u, batches)) = u
  BY <1>14 DEF Gives
<1>16. Composes(t, u, batches)
  BY <1>1, <1>13, <1>15, ComposesIf
<1> QED
  BY <1>14, <1>16

(* One value after the other is the list of the values.                    *)
LEMMA ConcatOnes ==
  ASSUME NEW V, NEW n \in Nat, NEW f \in [1 .. n -> V], NEW parts, parts = [k \in 1 .. n |-> <<f[k]>>]
  PROVE  Concat(parts) = f
<1>1. parts \in Seq(Seq(V)) /\ Len(parts) = n
  <2>1. \A k \in 1 .. n : <<f[k]>> \in Seq(V)
    OBVIOUS
  <2>2. parts \in [1 .. n -> Seq(V)]
    BY <2>1
  <2> QED
    BY <2>2
<1>2. PICK g : ConcatLoop(g, V, parts) /\ Concat(parts) = g[n]
  BY <1>1, ConcatLoops
<1>3. g \in [0 .. n -> Seq(V)] /\ g[0] = << >> /\ \A i \in 1 .. n : g[i] = g[i - 1] \o parts[i]
  BY <1>1, <1>2 DEF ConcatLoop
<1> DEFINE Right(i) == Len(g[i]) = i /\ \A j \in 1 .. i : g[i][j] = f[j]
           T == {i \in 0 .. n : Right(i)}
<1>4. 0 \in T
  BY <1>3
<1>5. ASSUME NEW i \in 0 .. n - 1, i \in T PROVE i + 1 \in T
  <2>1. i + 1 \in 1 .. n /\ (i + 1) - 1 = i /\ i + 1 \in 0 .. n
    BY NextNumber
  <2>2. PICK a, b, k, v : a = g[i] /\ b = g[k] /\ k = i + 1 /\ v = f[k]
    OBVIOUS
  <2>3. a \in Seq(V) /\ Len(a) = i /\ (\A j \in 1 .. i : a[j] = f[j]) /\ v \in V /\ b = a \o <<v>>
    <3>1. parts[k] = <<v>>
      BY <2>1, <2>2
    <3> QED
      BY <1>3, <1>5, <2>1, <2>2, <3>1
  <2>4. b = Append(a, v)
    BY <2>3
  <2>5. Len(b) = k /\ b[k] = v /\ \A j \in 1 .. i : b[j] = a[j]
    <3>1. Len(b) = i + 1 /\ b[i + 1] = v /\ \A j \in 1 .. i : b[j] = a[j]
      BY <2>3, <2>4
    <3> QED
      BY <2>2, <3>1
  <2>6. \A j \in 1 .. k : b[j] = f[j]
    <3>1. \A j \in 1 .. k : j = k \/ j \in 1 .. i
      BY <2>1, <2>2
    <3> QED
      BY <2>2, <2>3, <2>5, <3>1
  <2> QED
    BY <2>1, <2>2, <2>5, <2>6
<1>6. n \in T
  <2>1. n \in 0 .. n
    OBVIOUS
  <2> HIDE DEF T
  <2>2. \A i \in 0 .. n : i \in T
    BY <1>4, <1>5, CountUp
  <2> QED
    BY <2>1, <2>2
<1>7. g[n] \in Seq(V) /\ f \in Seq(V) /\ Len(g[n]) = n /\ Len(f) = n /\ \A j \in 1 .. n : g[n][j] = f[j]
  BY <1>3, <1>6
<1>8. g[n] = f
  BY <1>7
<1> QED
  BY <1>2, <1>8

(* Edits no two of which start together.                                   *)
StartsApart(its) == \A j \in 2 .. Len(its) : its[j - 1].start < its[j].start

(* Edits from the last to the first.                                       *)
FromBack(its) == [k \in 1 .. Len(its) |-> its[(Len(its) - k) + 1]]

(* splice sorts edits that do not start together from the last to the      *)
(* first.                                                                  *)
LEMMA SpliceOrder ==
  ASSUME NEW S, NEW t \in Seq(S), NEW its, EditsIn(S, Len(t), its), StartsApart(its)
  PROVE  Splice(t, its) = Successively(t, FromBack(its))
<1>1. PICK n, V : n = Len(its) /\ its \in Seq(V)
  BY DEF EditsIn
<1>2. /\ n \in Nat /\ its \in Seq(V) /\ DOMAIN its = 1 .. n
      /\ \A i \in 1 .. n : its[i].start \in Nat /\ its[i].end \in Nat /\ its[i].start <= its[i].end
  <2>1. Len(t) \in Nat
    OBVIOUS
  <2>2. its \in Seq(V)
    BY <1>1
  <2>3. \A i \in 1 .. Len(its) : its[i].start \in Nat /\ its[i].end \in Nat /\ its[i].start <= its[i].end
    BY <2>1, EditsNumbers
  <2> QED
    BY <1>1, <2>2, <2>3
<1>3. ASSUME NEW i \in 1 .. n, NEW j \in 1 .. n, i < j PROVE its[i].start < its[j].start
  <2>2. ASSUME NEW k \in 1 .. n - 1 PROVE its[k].start < its[k + 1].start
    <3>1. k + 1 \in 2 .. n /\ k + 1 \in 1 .. n /\ k \in 1 .. n /\ (k + 1) - 1 = k
      BY <1>2
    <3> QED
      BY <1>1, <3>1 DEF StartsApart
  <2> DEFINE T == {m \in 0 .. (j - i) - 1 : its[i].start < its[i + 1 + m].start}
  <2>3. PICK l : l = (j - i) - 1 /\ l \in Nat
    BY <1>3
  <2>4. 0 \in T
    <3>1. i \in 1 .. n - 1 /\ i + 1 + 0 = i + 1
      BY <1>2, <1>3
    <3>2. its[i].start < its[i + 1].start
      BY <2>2, <3>1
    <3> QED
      BY <2>3, <3>1, <3>2
  <2>5. ASSUME NEW m \in 0 .. l - 1, m \in T PROVE m + 1 \in T
    <3>1. PICK k : k = i + 1 + m
      OBVIOUS
    <3>2. k \in 1 .. n - 1 /\ k + 1 = i + 1 + (m + 1) /\ m + 1 \in 0 .. (j - i) - 1 /\ k \in 1 .. n /\ k + 1 \in 1 .. n
      BY <1>2, <1>3, <2>3, <3>1
    <3>3. its[k].start < its[k + 1].start
      BY <2>2, <3>2
    <3>4. its[i].start < its[k].start
      BY <2>5, <3>1
    <3>5. its[i].start \in Nat /\ its[k].start \in Nat /\ its[k + 1].start \in Nat
      BY <1>2, <3>2
    <3>6. its[i].start < its[k + 1].start
      BY <3>3, <3>4, <3>5
    <3> QED
      BY <3>2, <3>6
  <2>6. l \in T
    <3>1. l \in 0 .. l
      BY <2>3
    <3> HIDE DEF T
    <3>2. \A m \in 0 .. l : m \in T
      BY <2>3, <2>4, <2>5, CountUp
    <3> QED
      BY <3>1, <3>2
  <2>7. i + 1 + l = j
    BY <2>3
  <2> QED
    BY <2>6, <2>7
<1> DEFINE First(j, i) ==
             its[j].start > its[i].start \/ (~(its[i].start > its[j].start) /\ j < i)
           Rank(i) == Cardinality({j \in DOMAIN its : First(j, i)})
           At(k) == its[CHOOSE i \in DOMAIN its : Rank(i) = k - 1]
           parts == [k \in DOMAIN its |-> <<At(k)>>]
<1>4. Splice(t, its) = Successively(t, Concat(parts))
  BY DEF Splice, Sort
<1>5. ASSUME NEW i \in 1 .. n PROVE Rank(i) = n - i
  <2>1. ASSUME NEW j \in 1 .. n PROVE First(j, i) <=> j \in (i + 1) .. n
    <3>1. its[j].start \in Nat /\ its[i].start \in Nat
      BY <1>2
    <3>2. CASE j < i
      <4>1. its[j].start < its[i].start
        BY <1>3, <3>2
      <4> QED
        BY <1>2, <3>1, <3>2, <4>1
    <3>3. CASE i < j
      <4>1. its[i].start < its[j].start
        BY <1>3, <3>3
      <4> QED
        BY <1>2, <3>1, <3>3, <4>1
    <3>4. CASE i = j
      BY <1>2, <3>1, <3>4
    <3> QED
      BY <1>2, <3>2, <3>3, <3>4
  <2>2. {j \in DOMAIN its : First(j, i)} = (i + 1) .. n
    <3> HIDE DEF First
    <3>1. \A j \in (i + 1) .. n : j \in 1 .. n
      BY <1>2
    <3> QED
      BY <1>2, <2>1, <3>1
  <2>3. Cardinality((i + 1) .. n) = n - i
    <3>1. i + 1 \in Int /\ n \in Int
      BY <1>2
    <3>2. Cardinality((i + 1) .. n) = IF i + 1 > n THEN 0 ELSE n - (i + 1) + 1
      BY <3>1, FS_Interval
    <3> QED
      BY <1>2, <3>2
  <2> QED
    BY Zenon, <2>2, <2>3
<1> HIDE DEF Rank
<1>6. ASSUME NEW k \in 1 .. n
      PROVE  At(k) = its[(n - k) + 1]
  <2>1. PICK m : m = (n - k) + 1
    OBVIOUS
  <2>2. m \in 1 .. n /\ n - m = k - 1
    BY <1>2, <2>1
  <2>3. \A i \in 1 .. n : Rank(i) = k - 1 <=> i = m
    <3>1. ASSUME NEW i \in 1 .. n PROVE Rank(i) = k - 1 <=> i = m
      <4>1. Rank(i) = n - i
        BY <1>5
      <4> QED
        BY <1>2, <2>1, <2>2, <4>1
    <3> QED
      BY <3>1
  <2>4. (CHOOSE i \in DOMAIN its : Rank(i) = k - 1) = m
    BY <1>2, <2>2, <2>3
  <2> QED
    BY Zenon, <2>1, <2>4
<1> HIDE DEF At
<1>7. parts = [k \in 1 .. n |-> <<FromBack(its)[k]>>]
  <2>1. \A k \in 1 .. n : FromBack(its)[k] = its[(n - k) + 1]
    BY <1>1 DEF FromBack
  <2> QED
    BY <1>2, <1>6, <2>1
<1>8. FromBack(its) \in [1 .. n -> V]
  <2>1. \A k \in 1 .. n : (n - k) + 1 \in 1 .. n
    BY <1>2
  <2> QED
    BY <1>1, <1>2, <2>1 DEF FromBack
<1>9. Concat(parts) = FromBack(its)
  <2> HIDE DEF parts
  <2>1. PICK f : f = FromBack(its)
    OBVIOUS
  <2> QED
    BY <1>2, <1>7, <1>8, <2>1, ConcatOnes
<1> QED
  BY Zenon, <1>4, <1>9

(* An edit replaced in a text whose first atoms are those of t.            *)
Fronted(t, x, e, r) == Replaced(x, e) = (Part(t, 0, e.start) \o e.text) \o r

(* An edit replaced in a text whose first atoms are those of t.            *)
LEMMA ReplacedFront ==
  ASSUME NEW S, NEW t \in Seq(S), NEW e, IsEdit(S, Len(t), e), NEW r \in Seq(S),
         NEW x, x = Part(t, 0, e.end) \o r
  PROVE  Fronted(t, x, e, r)
<1>1. PICK a, b, f, z : a = e.start /\ b = e.end /\ f = Part(t, z, b) /\ z = 0
  OBVIOUS
<1>2. a \in Nat /\ b \in Nat /\ a <= b /\ b <= Len(t)
  BY <1>1 DEF IsEdit
<1>3. z \in Nat /\ z <= b /\ b - z = b
  BY <1>1, <1>2
<1>4. f \in Seq(S) /\ Len(f) = b
  <2>1. Part(t, z, b) \in Seq(S) /\ Len(Part(t, z, b)) = b - z
    BY <1>2, <1>3, PartOf
  <2> QED
    BY <1>1, <1>3, <2>1
<1>5. x = f \o r /\ x \in Seq(S)
  <2>1. x = f \o r
    BY Zenon, <1>1
  <2>2. f \o r \in Seq(S)
    BY <1>4
  <2> QED
    BY Zenon, <2>1, <2>2
<1>6. Take(x, a) = Part(t, 0, a)
  <2>1. Take(x, a) = Part(x, 0, a)
    BY TakeDrop
  <2>2. Part(f \o r, z, a) = Part(f, z, a)
    <3>1. z <= a /\ a <= Len(f)
      BY <1>1, <1>2, <1>4
    <3> QED
      BY <1>2, <1>3, <1>4, <3>1, PartFront
  <2>3. Part(Part(t, 0, b), 0, a) = Part(t, 0, 0 + a)
    <3>1. 0 \in Nat /\ 0 <= b /\ a <= b - 0
      BY <1>2
    <3>2. Part(Part(t, z, b), 0, a) = Part(t, z, z + a)
      BY <1>1, <1>2, <1>3, <3>1, PartFirst
    <3> QED
      BY Zenon, <1>1, <3>2
  <2>4. 0 + a = a
    BY <1>2
  <2> QED
    BY Zenon, <1>1, <1>5, <2>1, <2>2, <2>3, <2>4
<1>7. Drop(x, b) = r
  <2>1. Drop(x, b) = Part(x, b, Len(x))
    BY TakeDrop
  <2>2. PICK l : l = Len(r)
    OBVIOUS
  <2>3. Len(x) = b + l /\ l \in Nat /\ b + z = b
    <3>1. PutAfter(f \o r, f, r)
      BY <1>4, PutBehind
    <3>2. PutAfter(x, f, r)
      BY Zenon, <1>5, <3>1
    <3>3. Len(x) = Len(f) + Len(r)
      BY <3>2 DEF PutAfter
    <3>4. l \in Nat
      BY <2>2
    <3>5. b + z = b
      BY <1>1, <1>2
    <3> QED
      BY Zenon, <1>4, <2>2, <3>3, <3>4, <3>5
  <2>4. Part(f \o r, Len(f) + z, Len(f) + l) = Part(r, z, l)
    <3>1. z <= l /\ l <= Len(r)
      BY <1>1, <2>2, <2>3
    <3>2. FoundBack(f, r, z, l)
      BY <1>3, <1>4, <2>3, <3>1, PartBack
    <3> QED
      BY Zenon, <3>2 DEF FoundBack
  <2>5. Part(r, 0, Len(r)) = r
    BY PartWhole
  <2> QED
    BY Zenon, <1>1, <1>4, <1>5, <2>1, <2>2, <2>3, <2>4, <2>5
<1> QED
  BY Zenon, <1>1, <1>6, <1>7 DEF Replaced, Fronted

(* A loop that replaces edits one after the other.                         *)
ReplaceLoop(g, t, edits, n) ==
  /\ g = [i \in 0 .. n |-> g[i]] /\ g[0] = t
  /\ \A i \in 1 .. n : g[i] = Replaced(g[i - 1], edits[i])

(* Successively gives what the loop over the edits gives.                  *)
LEMMA SuccessivelyIs ==
  ASSUME NEW t, NEW edits, NEW n \in Nat, n = Len(edits), NEW g, ReplaceLoop(g, t, edits, n)
  PROVE  Successively(t, edits) = g[n]
<1> DEFINE Loop(h) == h = [i \in 0 .. n |-> IF i = 0 THEN t ELSE Replaced(h[i - 1], edits[i])]
<1>a. g[0] = t /\ \A i \in 1 .. n : g[i] = Replaced(g[i - 1], edits[i])
  BY Zenon DEF ReplaceLoop
<1>1. Loop(g)
  <2>1. \A i \in 0 .. n : g[i] = IF i = 0 THEN t ELSE Replaced(g[i - 1], edits[i])
    <3>1. \A i \in 0 .. n : i = 0 \/ i \in 1 .. n
      OBVIOUS
    <3> QED
      BY Zenon, <1>a, <3>1
  <2>2. g = [i \in 0 .. n |-> g[i]]
    BY Zenon DEF ReplaceLoop
  <2> QED
    BY <2>1, <2>2
<1>2. PICK h : Loop(h) /\ Successively(t, edits) = h[n]
  <2>1. Successively(t, edits) = (CHOOSE h : Loop(h))[n]
    BY DEF Successively
  <2> HIDE DEF Loop
  <2> QED
    BY <1>1, <2>1
<1>3. \A i \in 0 .. n : h[i] = IF i = 0 THEN t ELSE Replaced(h[i - 1], edits[i])
  BY <1>2
<1>4. ASSUME NEW i \in 1 .. n, g[i - 1] = h[i - 1] PROVE g[i] = h[i]
  <2>1. i \in 0 .. n /\ i # 0
    OBVIOUS
  <2>2. h[i] = Replaced(h[i - 1], edits[i]) /\ g[i] = Replaced(g[i - 1], edits[i])
    BY <1>3, <1>a, <2>1
  <2> QED
    BY Zenon, <1>4, <2>2
<1>5. g[0] = h[0]
  BY <1>3, <1>a
<1> DEFINE T == {i \in 0 .. n : g[i] = h[i]}
<1>6. 0 \in T
  BY <1>5
<1>7. ASSUME NEW i \in 0 .. n - 1, i \in T PROVE i + 1 \in T
  <2>1. i + 1 \in 1 .. n /\ (i + 1) - 1 = i /\ i + 1 \in 0 .. n
    BY NextNumber
  <2>2. PICK k : k = i + 1
    OBVIOUS
  <2>3. k \in 1 .. n /\ k - 1 = i /\ k \in 0 .. n
    BY <2>1, <2>2
  <2>4. g[i] = h[i]
    BY <1>7
  <2>5. g[k] = h[k]
    BY Zenon, <1>4, <2>3, <2>4
  <2> QED
    BY <2>2, <2>3, <2>5
<1>8. g[n] = h[n]
  <2>1. n \in 0 .. n
    OBVIOUS
  <2>2. n \in T
    <3> HIDE DEF T
    <3>1. \A i \in 0 .. n : i \in T
      BY <1>6, <1>7, CountUp
    <3> QED
      BY <2>1, <3>1
  <2> QED
    BY <2>2
<1> QED
  BY <1>2, <1>8

(* What each edit, from the last to the first, puts before what is behind  *)
(* it.                                                                     *)
BehindLoop(R, S, t, its, u) ==
  /\ R \in [0 .. Len(its) -> Seq(S)] /\ R[0] = Part(t, EndOf(its, Len(its)), Len(t)) /\ R[Len(its)] = u
  /\ \A j \in 1 .. Len(its) : \A k \in 1 .. Len(its) : k = (Len(its) - j) + 1 =>
       R[j] = (Part(t, EndOf(its, k - 1), its[k].start) \o its[k].text) \o R[j - 1]

(* The text after edits, put together from its end.                        *)
LEMMA BehindSteps ==
  ASSUME NEW S, NEW t \in Seq(S), NEW its, EditsIn(S, Len(t), its), NEW u, u = ApplyText(t, its)
  PROVE  \E R : BehindLoop(R, S, t, its, u)
<1>1. PICK n, l : n = Len(its) /\ l = Len(t)
  OBVIOUS
<1>2. PICK b : FrontLoop(b, S, t, its) /\ u = b[n] \o Part(t, EndOf(its, n), l)
  BY <1>1, ApplySteps
<1>3. /\ n \in Nat /\ l \in Nat
      /\ \A i \in 1 .. n : /\ its[i].start \in Nat /\ its[i].text \in Seq(S) /\ its[i].start <= l
                           /\ EndOf(its, i - 1) <= its[i].start /\ i - 1 \in 0 .. n
      /\ \A i \in 0 .. n : EndOf(its, i) \in Nat /\ EndOf(its, i) <= l
  BY <1>1, EditsNumbers
<1>4. b \in [0 .. n -> Seq(S)] /\ b[0] = << >>
      /\ \A i \in 1 .. n : b[i] = (b[i - 1] \o Part(t, EndOf(its, i - 1), its[i].start)) \o its[i].text
  BY <1>1, <1>2 DEF FrontLoop
<1> DEFINE One(k, x) == (Part(t, EndOf(its, k - 1), its[k].start) \o its[k].text) \o x
           step == [j \in 1 .. n |-> [x \in Seq(S) |-> One((n - j) + 1, x)]]
           last == Part(t, EndOf(its, n), l)
<1>5. ASSUME NEW k \in 1 .. n PROVE Part(t, EndOf(its, k - 1), its[k].start) \in Seq(S) /\ its[k].text \in Seq(S)
  <2>1. PICK a, c : a = EndOf(its, k - 1) /\ c = its[k].start
    OBVIOUS
  <2>2. a \in Nat /\ c \in Nat /\ a <= c /\ c <= Len(t)
    BY <1>1, <1>3, <2>1
  <2>3. Part(t, a, c) \in Seq(S)
    BY <2>2, PartOf
  <2> QED
    BY <1>3, <2>1, <2>3
<1>6. \A k \in 1 .. n : \A x \in Seq(S) : One(k, x) \in Seq(S)
  BY <1>5
<1>7. last \in Seq(S)
  <2>1. PICK a : a = EndOf(its, n)
    OBVIOUS
  <2>2. a \in Nat /\ a <= l /\ l <= Len(t)
    BY <1>1, <1>3, <2>1
  <2> QED
    BY <1>3, <2>1, <2>2, PartOf
<1> HIDE DEF One, last
<1>8. PICK R : Counted(R, n, Seq(S), last, step)
  <2>1. \A j \in 1 .. n : (n - j) + 1 \in 1 .. n
    BY <1>3
  <2>2. Counts(n, Seq(S), last, step)
    BY <1>3, <1>6, <1>7, <2>1 DEF Counts
  <2> HIDE DEF step
  <2> QED
    BY <2>2, RecursionOnNumbers
<1>9. R \in [0 .. n -> Seq(S)] /\ R[0] = last /\ \A j \in 1 .. n : R[j] = One((n - j) + 1, R[j - 1])
  <2>1. R \in [0 .. n -> Seq(S)] /\ R[0] = last /\ \A j \in 1 .. n : R[j] = step[j][R[j - 1]]
    <3> HIDE DEF step
    <3> QED
      BY <1>8 DEF Counted
  <2>2. \A j \in 1 .. n : j - 1 \in 0 .. n
    BY <1>3
  <2> QED
    BY <2>1, <2>2
<1> HIDE DEF step
<1> DEFINE Right(j) == b[n - j] \o R[j] = u
           T == {j \in 0 .. n : Right(j)}
<1>10. 0 \in T
  <2>1. n - 0 = n /\ 0 \in 0 .. n
    BY <1>3
  <2>2. b[n] \o R[0] = u
    BY Zenon, <1>2, <1>9 DEF last
  <2> QED
    BY <2>1, <2>2
<1>11. ASSUME NEW j \in 0 .. n - 1, j \in T PROVE j + 1 \in T
  <2>1. j + 1 \in 1 .. n /\ (j + 1) - 1 = j /\ j + 1 \in 0 .. n
    BY <1>3, NextNumber
  <2>2. PICK k, x, m, f, h : /\ k = n - j /\ x = Part(t, EndOf(its, k - 1), its[k].start) /\ m = its[k].text
                             /\ f = b[k - 1] /\ h = R[j]
    OBVIOUS
  <2>3. k \in 1 .. n /\ (n - (j + 1)) + 1 = k /\ n - (j + 1) = k - 1 /\ k - 1 \in 0 .. n /\ j \in 0 .. n
    BY <1>3, <2>1, <2>2
  <2>4. f \in Seq(S) /\ x \in Seq(S) /\ m \in Seq(S) /\ h \in Seq(S)
    <3>1. f \in Seq(S) /\ h \in Seq(S)
      BY <1>4, <1>9, <2>2, <2>3
    <3>2. x \in Seq(S) /\ m \in Seq(S)
      BY <1>5, <2>2, <2>3
    <3> QED
      BY <3>1, <3>2
  <2>5. Joins4(f, x, m, h)
    BY <2>4, FourParts
  <2>6. b[k] = (f \o x) \o m
    BY <1>4, <2>2, <2>3
  <2>7. R[j + 1] = (x \o m) \o h
    <3>1. R[j + 1] = One((n - (j + 1)) + 1, R[(j + 1) - 1])
      BY <1>9, <2>1
    <3> QED
      BY Zenon, <2>1, <2>2, <2>3, <3>1 DEF One
  <2>8. b[k] \o h = u
    <3>1. Right(j)
      BY <1>11
    <3> QED
      BY Zenon, <2>2, <3>1
  <2>9. f \o R[j + 1] = u
    BY Zenon, <2>5, <2>6, <2>7, <2>8 DEF Joins4
  <2>10. Right(j + 1)
    BY Zenon, <2>2, <2>3, <2>9
  <2> HIDE DEF Right
  <2> QED
    BY <2>1, <2>10
<1>12. R[n] = u
  <2>1. n \in 0 .. n /\ n - n = 0
    BY <1>3
  <2>2. n \in T
    <3> HIDE DEF T
    <3>1. \A j \in 0 .. n : j \in T
      BY <1>3, <1>10, <1>11, CountUp
    <3> QED
      BY <2>1, <3>1
  <2>3. Right(n)
    BY <2>2
  <2>4. b[0] \o R[n] = u
    BY Zenon, <2>1, <2>3
  <2>5. PICK x : x = R[n] /\ x \in Seq(S)
    BY <1>9, <2>1
  <2>6. << >> \o x = x
    BY <2>5, ConcatEmptySeq
  <2> QED
    BY Zenon, <1>4, <2>4, <2>5, <2>6
<1>13. \A j \in 1 .. n : \A k \in 1 .. n : k = (n - j) + 1 =>
         R[j] = (Part(t, EndOf(its, k - 1), its[k].start) \o its[k].text) \o R[j - 1]
  BY Zenon, <1>9 DEF One
<1>14. BehindLoop(R, S, t, its, u)
  BY Zenon, <1>1, <1>9, <1>12, <1>13 DEF BehindLoop, last
<1> QED
  BY <1>14

(* Splicing edits from the last to the first (tree.splice) gives what      *)
(* applying them from the first to the last gives (applyBatch), if no two  *)
(* of them start together; they may touch.                                 *)
THEOREM SpliceGives ==
  ASSUME NEW S, NEW t \in Seq(S), NEW its, EditsIn(S, Len(t), its), StartsApart(its)
  PROVE  Splice(t, its) = ApplyText(t, its)
<1>1. PICK n, l, u : n = Len(its) /\ l = Len(t) /\ u = ApplyText(t, its)
  OBVIOUS
<1>2. /\ n \in Nat /\ l \in Nat
      /\ \A i \in 1 .. n : /\ its[i].start \in Nat /\ its[i].text \in Seq(S) /\ its[i].start <= l
                           /\ EndOf(its, i - 1) <= its[i].start /\ i - 1 \in 0 .. n
                           /\ EndOf(its, i) = its[i].end /\ IsEdit(S, l, its[i])
      /\ \A i \in 0 .. n : EndOf(its, i) \in Nat /\ EndOf(its, i) <= l
  <2>1. \A i \in 1 .. n : IsEdit(S, l, its[i])
    BY <1>1 DEF EditsIn
  <2> QED
    BY <1>1, <2>1, EditsNumbers
<1>3. PICK R : BehindLoop(R, S, t, its, u)
  BY <1>1, BehindSteps
<1>4. /\ R \in [0 .. n -> Seq(S)] /\ R[0] = Part(t, EndOf(its, n), l) /\ R[n] = u
      /\ \A j \in 1 .. n : \A k \in 1 .. n : k = (n - j) + 1 =>
           R[j] = (Part(t, EndOf(its, k - 1), its[k].start) \o its[k].text) \o R[j - 1]
  BY Zenon, <1>1, <1>3 DEF BehindLoop
<1>5. PICK edits : edits = FromBack(its)
  OBVIOUS
<1>6. Len(edits) = n /\ \A j \in 1 .. n : edits[j] = its[(n - j) + 1]
  BY <1>1, <1>2, <1>5 DEF FromBack
<1> DEFINE At(j) == Part(t, 0, EndOf(its, n - j)) \o R[j]
           g == [j \in 0 .. n |-> At(j)]
<1>7. At(0) = t
  <2>1. PICK a : a = EndOf(its, n)
    OBVIOUS
  <2>2. a \in Nat /\ a <= l /\ l <= Len(t) /\ n - 0 = n
    BY <1>1, <1>2, <2>1
  <2>3. Part(t, 0, a) \o Part(t, a, l) = Part(t, 0, l)
    BY <1>2, <2>2, PartGrows
  <2>4. Part(t, 0, l) = t
    BY <1>1, PartWhole
  <2> QED
    BY Zenon, <1>4, <2>1, <2>2, <2>3, <2>4
<1>8. At(n) = u
  <2>1. n - n = 0 /\ n \in 0 .. n
    BY <1>2
  <2>2. EndOf(its, 0) = 0 /\ Part(t, 0, 0) = << >>
    BY PartNone DEF EndOf
  <2>3. PICK x : x = R[n] /\ x \in Seq(S)
    BY <1>4, <2>1
  <2>4. << >> \o x = x
    BY <2>3, ConcatEmptySeq
  <2> QED
    BY Zenon, <1>4, <2>1, <2>2, <2>3, <2>4
<1>9. ASSUME NEW j \in 1 .. n PROVE At(j) = Replaced(At(j - 1), edits[j])
  <2>1. PICK k, e, r, a, c, i : /\ e = its[k] /\ r = R[i] /\ a = EndOf(its, k - 1) /\ c = e.start
                                /\ i = j - 1 /\ k = (n - j) + 1
    OBVIOUS
  <2>2. k \in 1 .. n /\ n - i = k /\ n - j = k - 1 /\ i \in 0 .. n /\ edits[j] = e
    BY <1>2, <1>6, <2>1
  <2>3. IsEdit(S, Len(t), e) /\ EndOf(its, k) = e.end /\ e.text \in Seq(S)
    BY <1>1, <1>2, <2>1, <2>2
  <2>4. a \in Nat /\ c \in Nat /\ a <= c /\ c <= Len(t)
    BY <1>1, <1>2, <2>1, <2>2
  <2>5. r \in Seq(S)
    BY <1>4, <2>1, <2>2
  <2>6. PICK x : x = Part(t, 0, e.end) \o r
    OBVIOUS
  <2>7. Replaced(x, e) = (Part(t, 0, c) \o e.text) \o r
    <3>1. Fronted(t, x, e, r)
      BY <2>3, <2>5, <2>6, ReplacedFront
    <3> QED
      BY Zenon, <2>1, <3>1 DEF Fronted
  <2>8. At(i) = x
    BY Zenon, <2>1, <2>2, <2>3, <2>6
  <2>9. R[j] = (Part(t, a, c) \o e.text) \o r
    BY Zenon, <1>4, <2>1, <2>2
  <2>10. At(j) = Part(t, 0, a) \o R[j]
    BY Zenon, <2>1, <2>2
  <2>11. PICK w, y, m : w = Part(t, 0, a) /\ y = Part(t, a, c) /\ m = e.text
    OBVIOUS
  <2>12. w \in Seq(S) /\ y \in Seq(S) /\ m \in Seq(S)
    <3>1. 0 \in Nat /\ 0 <= a /\ a <= Len(t)
      BY <2>4
    <3>2. Part(t, 0, a) \in Seq(S)
      BY <2>4, <3>1, PartOf
    <3>3. Part(t, a, c) \in Seq(S)
      BY <2>4, PartOf
    <3> QED
      BY <2>3, <2>11, <3>2, <3>3
  <2>13. Joins4(w, y, m, r)
    BY <2>5, <2>12, FourParts
  <2>14. w \o y = Part(t, 0, c)
    BY <2>4, <2>11, PartGrows
  <2>15. At(j) = (Part(t, 0, c) \o e.text) \o r
    BY Zenon, <2>9, <2>10, <2>11, <2>13, <2>14 DEF Joins4
  <2> QED
    BY Zenon, <2>1, <2>2, <2>7, <2>8, <2>15
<1> HIDE DEF At
<1>10. /\ g = [j \in 0 .. n |-> g[j]] /\ g[0] = t /\ g[n] = u
       /\ \A j \in 1 .. n : g[j] = Replaced(g[j - 1], edits[j])
  <2>1. \A j \in 1 .. n : j \in 0 .. n /\ j - 1 \in 0 .. n
    BY <1>2
  <2>2. 0 \in 0 .. n /\ n \in 0 .. n
    BY <1>2
  <2> QED
    BY Zenon, <1>7, <1>8, <1>9, <2>1, <2>2
<1> HIDE DEF g
<1>11. Successively(t, edits) = g[n]
  <2>1. ReplaceLoop(g, t, edits, n)
    BY Zenon, <1>10 DEF ReplaceLoop
  <2>2. n = Len(edits)
    BY <1>6
  <2> QED
    BY <1>2, <2>1, <2>2, SuccessivelyIs
<1>12. Splice(t, its) = Successively(t, edits)
  BY <1>5, SpliceOrder
<1> QED
  BY Zenon, <1>1, <1>10, <1>11, <1>12

(* A chain of texts, one for each batch and one more, from t to u.         *)
Chained(S, batches, t, u) ==
  \E texts : TextChain(S, batches, texts) /\ t = texts[0] /\ u = texts[Len(batches)]

(* No batch leads from a text to itself. *)
LEMMA ChainNone ==
  ASSUME NEW S, NEW t \in Seq(S)
  PROVE  Chained(S, << >>, t, t)
<1> DEFINE texts == [c \in 0 .. 0 |-> t]
<1>1. PICK batches : batches = << >> /\ Len(batches) = 0 /\ DOMAIN batches = 1 .. 0
  OBVIOUS
<1>2. texts \in [0 .. Len(batches) -> Seq(S)] /\ texts[0] = t
  BY <1>1
<1>3. 1 .. Len(batches) = {}
  BY <1>1
<1> HIDE DEF texts
<1>4. TextChain(S, batches, texts)
  BY <1>1, <1>2, <1>3 DEF TextChain
<1>5. Chained(S, batches, t, t)
  BY Zenon, <1>1, <1>2, <1>4 DEF Chained
<1> QED
  BY Zenon, <1>1, <1>5

(* Edits of the last text of a chain lengthen it. *)
LEMMA ChainGrows ==
  ASSUME NEW S, NEW batches, NEW B, batches \in Seq(B), NEW t, NEW u, Chained(S, batches, t, u),
         NEW its, EditsIn(S, Len(u), its)
  PROVE  Chained(S, Append(batches, Logged(its)), t, ApplyText(u, its))
<1>1. PICK K, b, v, more : /\ K = Len(batches) /\ b = Logged(its) /\ v = ApplyText(u, its)
                           /\ more = Append(batches, Logged(its))
  OBVIOUS
<1>2. PICK texts : TextChain(S, batches, texts) /\ t = texts[0] /\ u = texts[K]
  BY Zenon, <1>1 DEF Chained
<1>3. K \in Nat /\ texts \in [0 .. K -> Seq(S)]
      /\ \A c \in 1 .. K :
           /\ InLine(batches[c]) /\ \A i \in 1 .. Len(batches[c]) : batches[c][i].end <= Len(texts[c - 1])
           /\ Carries(texts[c - 1], batches[c], texts[c])
  BY <1>1, <1>2 DEF TextChain
<1>4. Len(more) = K + 1 /\ DOMAIN more = 1 .. K + 1 /\ more[K + 1] = b /\ \A c \in 1 .. K : more[c] = batches[c]
  BY <1>1
<1>5. u \in Seq(S)
  BY <1>2, <1>3
<1>6. v \in Seq(S) /\ Carries(u, b, v)
  BY <1>1, <1>5, ApplyCarries
<1>7. InLine(b) /\ \A i \in 1 .. Len(b) : b[i].end <= Len(u)
  <2>1. /\ InLine(b) /\ Len(b) = Len(its)
        /\ \A i \in 1 .. Len(its) : b[i].end = its[i].end
    <3>1. Len(u) \in Nat
      BY <1>5
    <3>2. PICK len : len = Len(u) /\ len \in Nat
      BY <3>1
    <3>3. EditsIn(S, len, its)
      BY Zenon, <3>2
    <3>4. InLine(Logged(its))
      BY <3>2, <3>3, LoggedInLine
    <3>5. Len(Logged(its)) = Len(its)
      BY <3>2, <3>3, LoggedInLine
    <3>6. \A i \in 1 .. Len(its) : Logged(its)[i].end = its[i].end
      BY <3>2, <3>3, LoggedInLine
    <3> QED
      BY Zenon, <1>1, <3>4, <3>5, <3>6
  <2>2. \A i \in 1 .. Len(its) : its[i].end <= Len(u)
    BY <1>5 DEF EditsIn, IsEdit
  <2> QED
    BY <2>1, <2>2
<1> DEFINE next == [c \in 0 .. K + 1 |-> IF c = K + 1 THEN v ELSE texts[c]]
<1>8. /\ next \in [0 .. K + 1 -> Seq(S)] /\ next[K + 1] = v
      /\ \A c \in 0 .. K : next[c] = texts[c]
  BY <1>3, <1>6
<1> HIDE DEF next
<1>9. ASSUME NEW c \in 1 .. K + 1
      PROVE  /\ InLine(more[c]) /\ \A i \in 1 .. Len(more[c]) : more[c][i].end <= Len(next[c - 1])
             /\ Carries(next[c - 1], more[c], next[c])
  <2>1. CASE c = K + 1
    <3>1. c - 1 = K /\ K \in 0 .. K
      BY <1>3, <2>1
    <3>2. next[c - 1] = u /\ next[c] = v /\ more[c] = b
      BY <1>2, <1>4, <1>8, <2>1, <3>1
    <3> QED
      BY <1>6, <1>7, <3>2
  <2>2. CASE c # K + 1
    <3>1. c \in 1 .. K /\ c - 1 \in 0 .. K /\ c \in 0 .. K
      BY <1>3, <2>2
    <3>2. next[c - 1] = texts[c - 1] /\ next[c] = texts[c] /\ more[c] = batches[c]
      BY <1>4, <1>8, <3>1
    <3> QED
      BY <1>3, <3>1, <3>2
  <2> QED
    BY <2>1, <2>2
<1>10. TextChain(S, more, next)
  BY <1>3, <1>4, <1>8, <1>9 DEF TextChain
<1>11. next[0] = t /\ next[Len(more)] = v
  BY <1>2, <1>3, <1>4, <1>8
<1>12. Chained(S, more, t, v)
  BY Zenon, <1>10, <1>11 DEF Chained
<1> QED
  BY Zenon, <1>1, <1>12

(* Edits that are apart do not start together. *)
LEMMA ApartStarts ==
  ASSUME NEW S, NEW len \in Nat, NEW its, EditsIn(S, len, its), Apart(its)
  PROVE  StartsApart(its)
<1>1. ASSUME NEW j \in 2 .. Len(its) PROVE its[j - 1].start < its[j].start
  <2>1. Len(its) \in Nat /\ \A i \in 1 .. Len(its) : its[i].start \in Nat /\ its[i].end \in Nat /\ its[i].start <= its[i].end
    BY EditsNumbers
  <2>2. j - 1 \in 1 .. Len(its) /\ j \in 1 .. Len(its)
    BY <2>1
  <2>3. its[j - 1].end < its[j].start
    BY DEF Apart
  <2> QED
    BY <2>1, <2>2, <2>3
<1> QED
  BY <1>1 DEF StartsApart

(* Batches that lead from one text to another compose. *)
LEMMA ChainedComposes ==
  ASSUME NEW S, NEW batches, NEW t, NEW u, Chained(S, batches, t, u)
  PROVE  /\ Composes(t, u, batches)
         /\ Gives(S, t, Compose(t, u, batches), u)
         /\ t \in Seq(S) /\ u \in Seq(S)
<1>1. PICK texts : TextChain(S, batches, texts) /\ t = texts[0] /\ u = texts[Len(batches)]
  BY DEF Chained
<1>2. Composes(t, u, batches) /\ Gives(S, t, Compose(t, u, batches), u)
  BY <1>1, ChainComposes
<1>3. t \in Seq(S) /\ u \in Seq(S)
  BY <1>1 DEF TextChain
<1> QED
  BY <1>2, <1>3
=============================================================================
