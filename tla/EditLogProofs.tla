--------------------------- MODULE EditLogProofs ---------------------------
(***************************************************************************)
(* EditLog: whatever the layouts are, a reader who replays the recorded    *)
(* edits has the simulated text, and the batches since any text compose.   *)
(*                                                                         *)
(* Both need that the edits of every step can be made in order, in a text  *)
(* that steps and gofmt have changed.  What makes them so is that code     *)
(* stands between the places that steps look for: every span of marks has  *)
(* code of its own, the offsets of the original file that still have a     *)
(* place are in order and outside of the marks, and between the two ends   *)
(* of what a step replaces there is code that no mark covers.  A batch     *)
(* carries each of these on when it takes no code away (an add step,       *)
(* gofmt), when it replaces a range by code (a site step), and when it     *)
(* takes the line of a handle and marks as a whole (a finish step).        *)
(***************************************************************************)
EXTENDS EditLog, EditsProofs

-----------------------------------------------------------------------------
(* What a batch does to offsets and to single atoms.                       *)

(* Where a batch puts the start and the end of a range: text inserted at   *)
(* either stays outside of it.                                             *)
StartTo(batch, p) == p + Shift(batch, p, TRUE)
EndTo(batch, p) == p + Shift(batch, p, FALSE)

(* How the offsets of a batch are numbers.                                 *)
LEMMA OffsetNumbers ==
  ASSUME NEW batch, InLine(batch), NEW p \in Int
  PROVE  StartTo(batch, p) \in Int /\ EndTo(batch, p) \in Int
<1>1. LoggedEdits(batch)
  BY DEF InLine
<1>2. PICK lo, hi : lo = TRUE /\ hi = FALSE
  BY Zenon
<1>3. Shift(batch, p, lo) \in Int /\ Shift(batch, p, hi) \in Int
  BY <1>1, ShiftNumber
<1>4. StartTo(batch, p) = p + Shift(batch, p, lo) /\ EndTo(batch, p) = p + Shift(batch, p, hi)
  BY Zenon, <1>2 DEF StartTo, EndTo
<1> QED
  BY <1>3, <1>4

(* The edits before and behind a start that none of them rewrites.         *)
LEMMA StartAround ==
  ASSUME NEW batch, InLine(batch), NEW p \in Int, ~Rewrites(batch, p)
  PROVE  \E k : /\ StartTo(batch, p) = p + Growth(batch, k)
                /\ k \in 0 .. Len(batch) /\ Growth(batch, k) \in Int
                /\ \A i \in 1 .. Len(batch) : i <= k => batch[i].end <= p
                /\ \A i \in 1 .. Len(batch) : i > k => p <= batch[i].start /\ p < batch[i].end
<1>1. PICK lo : lo = TRUE
  BY Zenon
<1>2. StartTo(batch, p) = p + Shift(batch, p, lo) /\ lo \in BOOLEAN
  BY Zenon, <1>1 DEF StartTo
<1>3. PICK k \in 0 .. Len(batch) :
        /\ MovedBy(batch, p, lo, k) /\ Shift(batch, p, lo) = Growth(batch, k)
        /\ Growth(batch, k) \in Int
        /\ \A i \in 1 .. Len(batch) : i <= k => batch[i].end <= p /\ (~lo => batch[i].start < p)
        /\ \A i \in 1 .. Len(batch) : i > k => p <= batch[i].start /\ (lo => p < batch[i].end)
  BY <1>2, MovedAround
<1> QED
  BY <1>1, <1>2, <1>3

(* The edits before and behind an end that none of them rewrites.          *)
LEMMA EndAround ==
  ASSUME NEW batch, InLine(batch), NEW p \in Int, ~Rewrites(batch, p)
  PROVE  \E k : /\ EndTo(batch, p) = p + Growth(batch, k)
                /\ k \in 0 .. Len(batch) /\ Growth(batch, k) \in Int
                /\ \A i \in 1 .. Len(batch) : i <= k => batch[i].end <= p /\ batch[i].start < p
                /\ \A i \in 1 .. Len(batch) : i > k => p <= batch[i].start
<1>1. PICK hi : hi = FALSE
  BY Zenon
<1>2. EndTo(batch, p) = p + Shift(batch, p, hi) /\ hi \in BOOLEAN
  BY Zenon, <1>1 DEF EndTo
<1>3. PICK k \in 0 .. Len(batch) :
        /\ MovedBy(batch, p, hi, k) /\ Shift(batch, p, hi) = Growth(batch, k)
        /\ Growth(batch, k) \in Int
        /\ \A i \in 1 .. Len(batch) : i <= k => batch[i].end <= p /\ (~hi => batch[i].start < p)
        /\ \A i \in 1 .. Len(batch) : i > k => p <= batch[i].start /\ (hi => p < batch[i].end)
  BY <1>2, MovedAround
<1> QED
  BY <1>1, <1>2, <1>3

(* Starts and ends that no edit rewrites keep their order.                 *)
LEMMA OffsetsMove ==
  ASSUME NEW batch, InLine(batch), NEW p \in Int, NEW q \in Int, p <= q,
         ~Rewrites(batch, p), ~Rewrites(batch, q)
  PROVE  /\ StartTo(batch, p) <= StartTo(batch, q) /\ EndTo(batch, p) <= EndTo(batch, q)
         /\ EndTo(batch, p) <= StartTo(batch, q)
         /\ p < q => StartTo(batch, p) <= EndTo(batch, q)
<1>1. PICK lo, hi : lo = TRUE /\ hi = FALSE
  BY Zenon
<1>2. /\ StartTo(batch, p) = p + Shift(batch, p, lo) /\ EndTo(batch, p) = p + Shift(batch, p, hi)
      /\ StartTo(batch, q) = q + Shift(batch, q, lo) /\ EndTo(batch, q) = q + Shift(batch, q, hi)
      /\ lo \in BOOLEAN /\ hi \in BOOLEAN
  BY Zenon, <1>1 DEF StartTo, EndTo
<1>3. \A i \in 1 .. Len(batch) : /\ batch[i].start \in Nat /\ batch[i].end \in Nat
                                 /\ batch[i].start <= batch[i].end
  BY BatchNumbers DEF InLine
<1>4. p + Shift(batch, p, lo) <= q + Shift(batch, q, lo)
  <2>1. \A i \in 1 .. Len(batch) : Moves(batch[i], p, lo) => Moves(batch[i], q, lo)
    BY <1>1, <1>3 DEF Moves, Inserts
  <2> QED
    BY <1>2, <2>1, ShiftOrder
<1>5. p + Shift(batch, p, hi) <= q + Shift(batch, q, hi)
  <2>1. \A i \in 1 .. Len(batch) : Moves(batch[i], p, hi) => Moves(batch[i], q, hi)
    BY <1>1, <1>3 DEF Moves, Inserts
  <2> QED
    BY <1>2, <2>1, ShiftOrder
<1>6. p + Shift(batch, p, hi) <= q + Shift(batch, q, lo)
  <2>1. \A i \in 1 .. Len(batch) : Moves(batch[i], p, hi) => Moves(batch[i], q, lo)
    BY <1>1, <1>3 DEF Moves, Inserts
  <2> QED
    BY <1>2, <2>1, ShiftOrder
<1>7. ASSUME p < q PROVE p + Shift(batch, p, lo) <= q + Shift(batch, q, hi)
  <2>1. \A i \in 1 .. Len(batch) : Moves(batch[i], p, lo) => Moves(batch[i], q, hi)
    BY <1>1, <1>3, <1>7 DEF Moves, Inserts
  <2> QED
    BY <1>2, <2>1, ShiftOrder
<1> QED
  BY <1>2, <1>4, <1>5, <1>6, <1>7

(* An edit and a start or an end beside it stay beside each other.         *)
LEMMA EditBeside ==
  ASSUME NEW batch, InLine(batch), NEW p \in Int, ~Rewrites(batch, p), NEW i \in 1 .. Len(batch)
  PROVE  /\ p <= batch[i].start => EndTo(batch, p) <= Lands(batch, i)
         /\ p <= batch[i].start /\ p < batch[i].end => StartTo(batch, p) <= Lands(batch, i)
         /\ batch[i].end <= p => Ends(batch, i) <= StartTo(batch, p)
         /\ batch[i].end <= p /\ batch[i].start < p => Ends(batch, i) <= EndTo(batch, p)
<1>1. /\ Len(batch) \in Nat
      /\ \A k \in 1 .. Len(batch) :
           /\ batch[k].start \in Nat /\ batch[k].end \in Nat /\ batch[k].start <= batch[k].end
           /\ Lands(batch, k) \in Int /\ Ends(batch, k) \in Int
  BY BatchNumbers DEF InLine
<1>2. ASSUME NEW k \in 0 .. Len(batch), Growth(batch, k) \in Int, k < i, p <= batch[k + 1].start
      PROVE  p + Growth(batch, k) <= Lands(batch, i)
  <2>1. k + 1 \in 1 .. Len(batch) /\ k + 1 <= i /\ (k + 1) - 1 = k
    BY <1>1, <1>2
  <2>2. Lands(batch, k + 1) <= Lands(batch, i)
    BY <2>1, BatchGrows
  <2>3. Lands(batch, k + 1) = batch[k + 1].start + Growth(batch, k)
    BY <2>1 DEF Lands
  <2>4. batch[k + 1].start \in Nat /\ Lands(batch, i) \in Int
    BY <1>1, <2>1
  <2> QED
    BY <1>2, <2>2, <2>3, <2>4
<1>3. ASSUME NEW k \in 1 .. Len(batch), Growth(batch, k) \in Int, i <= k, batch[k].end <= p
      PROVE  Ends(batch, i) <= p + Growth(batch, k)
  <2>1. Ends(batch, i) <= Ends(batch, k)
    BY <1>3, BatchGrows
  <2>2. Ends(batch, k) = batch[k].end + Growth(batch, k)
    BY DEF Ends
  <2>3. batch[k].end \in Nat /\ Ends(batch, i) \in Int
    BY <1>1
  <2> QED
    BY <1>3, <2>1, <2>2, <2>3
<1>4. PICK k : /\ EndTo(batch, p) = p + Growth(batch, k)
               /\ k \in 0 .. Len(batch) /\ Growth(batch, k) \in Int
               /\ \A c \in 1 .. Len(batch) : c <= k => batch[c].end <= p /\ batch[c].start < p
               /\ \A c \in 1 .. Len(batch) : c > k => p <= batch[c].start
  BY EndAround
<1>5. PICK m : /\ StartTo(batch, p) = p + Growth(batch, m)
               /\ m \in 0 .. Len(batch) /\ Growth(batch, m) \in Int
               /\ \A c \in 1 .. Len(batch) : c <= m => batch[c].end <= p
               /\ \A c \in 1 .. Len(batch) : c > m => p <= batch[c].start /\ p < batch[c].end
  BY StartAround
<1>6. ASSUME p <= batch[i].start PROVE EndTo(batch, p) <= Lands(batch, i)
  <2>1. k < i
    BY <1>1, <1>4, <1>6
  <2>2. k + 1 \in 1 .. Len(batch) /\ k + 1 > k
    BY <1>1, <1>4, <2>1
  <2> QED
    BY <1>2, <1>4, <2>1, <2>2
<1>7. ASSUME p <= batch[i].start, p < batch[i].end PROVE StartTo(batch, p) <= Lands(batch, i)
  <2>1. m < i
    BY <1>1, <1>5, <1>7
  <2>2. m + 1 \in 1 .. Len(batch) /\ m + 1 > m
    BY <1>1, <1>5, <2>1
  <2> QED
    BY <1>2, <1>5, <2>1, <2>2
<1>8. ASSUME batch[i].end <= p PROVE Ends(batch, i) <= StartTo(batch, p)
  <2>1. i <= m
    <3>1. i > m => p < batch[i].end
      BY <1>5
    <3>2. batch[i].end \in Nat /\ m \in Nat
      BY <1>1, <1>5
    <3> QED
      BY <1>8, <3>1, <3>2
  <2>2. m \in 1 .. Len(batch) /\ m <= m
    BY <1>1, <1>5, <2>1
  <2> QED
    BY <1>3, <1>5, <2>1, <2>2
<1>9. ASSUME batch[i].end <= p, batch[i].start < p PROVE Ends(batch, i) <= EndTo(batch, p)
  <2>1. i <= k
    BY <1>1, <1>4, <1>9
  <2>2. k \in 1 .. Len(batch) /\ k <= k
    BY <1>1, <1>4, <2>1
  <2> QED
    BY <1>3, <1>4, <2>1, <2>2
<1> QED
  BY <1>6, <1>7, <1>8, <1>9

(* No edit takes atom j away.                                              *)
Missed(batch, j) == \A i \in 1 .. Len(batch) : batch[i].end < j \/ j <= batch[i].start

(* An atom that no edit takes away has the edits before it, then those     *)
(* behind it.                                                              *)
LEMMA MissedBetween ==
  ASSUME NEW batch, InLine(batch), NEW j \in Int, Missed(batch, j)
  PROVE  \E k \in 0 .. Len(batch) : Between(batch, k, j)
<1> DEFINE n == Len(batch)
           S == {i \in 1 .. n : batch[i].end < j}
<1>1. /\ n \in Nat
      /\ \A i \in 1 .. n : batch[i].start \in Nat /\ batch[i].end \in Nat /\ batch[i].start <= batch[i].end
  BY BatchNumbers DEF InLine
<1>2. ASSUME NEW i \in 1 .. n - 1, i + 1 \in S PROVE i \in S
  <2>1. i + 1 \in 2 .. n /\ (i + 1) - 1 = i /\ i \in 1 .. n /\ i + 1 \in 1 .. n
    BY <1>1
  <2>2. batch[i].end <= batch[i + 1].start
    BY <2>1 DEF InLine
  <2>3. batch[i + 1].end < j
    BY <1>2
  <2> QED
    BY <1>1, <2>1, <2>2, <2>3
<1>3. \A i \in 1 .. n : i \in S <=> batch[i].end < j
  OBVIOUS
<1> HIDE DEF n, S
<1>4. PICK k \in 0 .. n : \A i \in 1 .. n : i \in S <=> i <= k
  BY <1>1, <1>2, FirstOnes
<1>5. \A i \in 1 .. n : i > k => j <= batch[i].start
  <2>1. ASSUME NEW i \in 1 .. n, i > k PROVE j <= batch[i].start
    <3>1. i \notin S
      BY <1>1, <1>4, <2>1
    <3> QED
      BY <1>3, <3>1 DEF Missed, n
  <2> QED
    BY <2>1
<1> QED
  BY <1>3, <1>4, <1>5 DEF Between, n

(* What no edit takes away is in the text after the batch, where its end   *)
(* goes.                                                                   *)
LEMMA AtomMoves ==
  ASSUME NEW t, NEW batch, NEW u, InLine(batch), Carries(t, batch, u),
         NEW j \in 1 .. Len(t), Len(t) \in Nat, Missed(batch, j)
  PROVE  /\ EndTo(batch, j) \in 1 .. Len(u) /\ u[EndTo(batch, j)] = t[j]
         /\ EndTo(batch, j) = StartTo(batch, j - 1) + 1
         /\ ~Rewrites(batch, j) /\ ~Rewrites(batch, j - 1)
<1>1. LoggedEdits(batch) /\ Len(batch) \in Nat /\ DOMAIN batch = 1 .. Len(batch)
      /\ \A i \in 1 .. Len(batch) : /\ batch[i].start \in Nat /\ batch[i].end \in Nat
                                    /\ batch[i].start <= batch[i].end
  BY BatchNumbers DEF InLine, LoggedEdits
<1>2. PICK k \in 0 .. Len(batch) : Between(batch, k, j)
  BY MissedBetween
<1>3. PICK lo, hi : lo = TRUE /\ hi = FALSE
  BY Zenon
<1>4. EndTo(batch, j) = j + Growth(batch, k)
  <2>1. ASSUME NEW i \in 1 .. Len(batch) PROVE Moves(batch[i], j, hi) <=> i <= k
    BY <1>1, <1>2, <1>3, <2>1 DEF Between, Moves, Inserts
  <2>2. MovedBy(batch, j, hi, k)
    BY <1>1, <2>1, ShiftOfFirst
  <2>3. Shift(batch, j, hi) = Growth(batch, k)
    BY <2>2 DEF MovedBy
  <2>4. EndTo(batch, j) = j + Shift(batch, j, hi)
    BY Zenon, <1>3 DEF EndTo
  <2> QED
    BY <2>3, <2>4
<1>5. StartTo(batch, j - 1) = (j - 1) + Growth(batch, k)
  <2>1. ASSUME NEW i \in 1 .. Len(batch) PROVE Moves(batch[i], j - 1, lo) <=> i <= k
    BY <1>1, <1>2, <1>3, <2>1 DEF Between, Moves, Inserts
  <2>2. MovedBy(batch, j - 1, lo, k)
    BY <1>1, <2>1, ShiftOfFirst
  <2>3. Shift(batch, j - 1, lo) = Growth(batch, k)
    BY <2>2 DEF MovedBy
  <2>4. StartTo(batch, j - 1) = (j - 1) + Shift(batch, j - 1, lo)
    BY Zenon, <1>3 DEF StartTo
  <2> QED
    BY <2>3, <2>4
<1>6. Growth(batch, k) \in Int
  BY <1>1, <1>2, GrowthSteps
<1>7. j + Growth(batch, k) \in 1 .. Len(u) /\ u[j + Growth(batch, k)] = t[j]
  BY <1>2 DEF Carries
<1>8. ~Rewrites(batch, j) /\ ~Rewrites(batch, j - 1)
  BY <1>1 DEF Rewrites, Missed
<1> QED
  BY <1>4, <1>5, <1>6, <1>7, <1>8

(* An atom beside an edit stays beside what it writes.                     *)
LEMMA AtomBeside ==
  ASSUME NEW t, NEW batch, NEW u, InLine(batch), Carries(t, batch, u),
         NEW j \in 1 .. Len(t), Len(t) \in Nat, Missed(batch, j), NEW i \in 1 .. Len(batch)
  PROVE  /\ j <= batch[i].start => EndTo(batch, j) <= Lands(batch, i)
         /\ batch[i].end < j => Ends(batch, i) < EndTo(batch, j)
<1>1. /\ EndTo(batch, j) = StartTo(batch, j - 1) + 1 /\ ~Rewrites(batch, j) /\ ~Rewrites(batch, j - 1)
  BY AtomMoves
<1>2. j - 1 \in Int /\ j \in Int
  OBVIOUS
<1>3. StartTo(batch, j - 1) \in Int
  BY <1>2, OffsetNumbers
<1>4. batch[i].end \in Nat /\ Ends(batch, i) \in Int
  BY BatchNumbers DEF InLine
<1>5. ASSUME batch[i].end < j PROVE Ends(batch, i) < EndTo(batch, j)
  <2>1. batch[i].end <= j - 1
    BY <1>4, <1>5
  <2>2. Ends(batch, i) <= StartTo(batch, j - 1)
    BY <1>1, <1>2, <2>1, EditBeside
  <2> QED
    BY <1>1, <1>3, <1>4, <2>2
<1> QED
  BY <1>1, <1>2, <1>5, EditBeside

(* An atom keeps its side of every start and end that is not rewritten.    *)
LEMMA AtomKeepsSide ==
  ASSUME NEW t, NEW batch, NEW u, InLine(batch), Carries(t, batch, u),
         NEW j \in 1 .. Len(t), Len(t) \in Nat, Missed(batch, j),
         NEW p \in Int, ~Rewrites(batch, p)
  PROVE  /\ p < j => StartTo(batch, p) < EndTo(batch, j) /\ EndTo(batch, p) < EndTo(batch, j)
         /\ j <= p => EndTo(batch, j) <= StartTo(batch, p) /\ EndTo(batch, j) <= EndTo(batch, p)
<1>1. /\ EndTo(batch, j) = StartTo(batch, j - 1) + 1 /\ ~Rewrites(batch, j) /\ ~Rewrites(batch, j - 1)
  BY AtomMoves
<1>2. j - 1 \in Int /\ j \in Int
  OBVIOUS
<1>3. StartTo(batch, j - 1) \in Int /\ StartTo(batch, p) \in Int /\ EndTo(batch, p) \in Int
  BY <1>2, OffsetNumbers
<1>4. ASSUME p < j PROVE StartTo(batch, p) < EndTo(batch, j) /\ EndTo(batch, p) < EndTo(batch, j)
  <2>1. p <= j - 1
    BY <1>4
  <2>2. StartTo(batch, p) <= StartTo(batch, j - 1) /\ EndTo(batch, p) <= StartTo(batch, j - 1)
    BY <1>1, <1>2, <2>1, OffsetsMove
  <2> QED
    BY <1>1, <1>3, <2>2
<1>5. ASSUME j <= p PROVE EndTo(batch, j) <= StartTo(batch, p) /\ EndTo(batch, j) <= EndTo(batch, p)
  BY <1>1, <1>2, <1>5, OffsetsMove
<1> QED
  BY <1>4, <1>5

(* What edits write is in the text after them.                             *)
LEMMA WrittenInText ==
  ASSUME NEW batch, InLine(batch), NEW len \in Nat, \A i \in 1 .. Len(batch) : batch[i].end <= len,
         NEW after \in Nat, after = len + Growth(batch, Len(batch)), NEW i \in 1 .. Len(batch)
  PROVE  /\ Lands(batch, i) \in Nat /\ Ends(batch, i) \in Nat
         /\ Lands(batch, i) <= Ends(batch, i) /\ Ends(batch, i) <= after
<1> DEFINE n == Len(batch)
<1>1. /\ n \in Nat /\ LoggedEdits(batch)
      /\ \A k \in 1 .. n : /\ batch[k].start \in Nat /\ batch[k].end \in Nat /\ batch[k].n \in Nat
                           /\ Lands(batch, k) \in Int /\ Ends(batch, k) \in Int
                           /\ Ends(batch, k) = Lands(batch, k) + batch[k].n
  BY BatchNumbers DEF InLine
<1>2. 1 \in 1 .. n /\ n \in 1 .. n /\ 1 <= i /\ i <= n
  BY <1>1
<1>3. Lands(batch, 1) <= Lands(batch, i) /\ Ends(batch, i) <= Ends(batch, n)
  BY <1>2, BatchGrows
<1>4. Lands(batch, 1) = batch[1].start
  <2>1. Lands(batch, 1) = batch[1].start + Growth(batch, 1 - 1) /\ 1 - 1 = 0
    BY DEF Lands
  <2>2. Growth(batch, 0) = 0
    BY <1>1, GrowthSteps
  <2> QED
    BY <1>1, <1>2, <2>1, <2>2
<1>5. Ends(batch, n) <= after
  <2>1. Ends(batch, n) = batch[n].end + Growth(batch, n) /\ Growth(batch, n) \in Int
    BY <1>1, <1>2, GrowthSteps DEF Ends
  <2>2. batch[n].end <= len /\ batch[n].end \in Nat
    BY <1>1, <1>2
  <2> QED
    BY <2>1, <2>2
<1>6. Ends(batch, n) \in Int /\ Lands(batch, i) \in Int /\ Ends(batch, i) \in Int /\ batch[1].start \in Nat
      /\ Ends(batch, i) = Lands(batch, i) + batch[i].n /\ batch[i].n \in Nat
  BY <1>1, <1>2
<1> HIDE DEF n
<1> QED
  BY <1>3, <1>4, <1>5, <1>6

(* Offsets of a text go to offsets of the text after the edits.            *)
LEMMA OffsetInText ==
  ASSUME NEW batch, InLine(batch), NEW len \in Nat, \A i \in 1 .. Len(batch) : batch[i].end <= len,
         NEW after \in Nat, after = len + Growth(batch, Len(batch)),
         NEW p \in 0 .. len, ~Rewrites(batch, p)
  PROVE  StartTo(batch, p) \in 0 .. after /\ EndTo(batch, p) \in 0 .. after
<1> DEFINE n == Len(batch)
<1>1. /\ n \in Nat /\ LoggedEdits(batch)
      /\ \A i \in 1 .. n : /\ batch[i].start \in Nat /\ batch[i].end \in Nat
                           /\ batch[i].start <= batch[i].end
  BY BatchNumbers DEF InLine
<1>2. p \in Int
  OBVIOUS
<1>3. ASSUME NEW k \in 0 .. n, Growth(batch, k) \in Int,
             \A i \in 1 .. n : i <= k => batch[i].end <= p, \A i \in 1 .. n : i > k => p <= batch[i].start
      PROVE  p + Growth(batch, k) \in 0 .. after
  <2>1. 0 <= p + Growth(batch, k)
    <3>1. CASE k = 0
      BY <1>1, <3>1, GrowthSteps
    <3>2. CASE k # 0
      <4>1. k \in 1 .. n /\ k <= k
        BY <1>1, <3>2
      <4>2. Ends(batch, k) \in Nat
        BY <4>1, WrittenInText
      <4>3. Ends(batch, k) = batch[k].end + Growth(batch, k)
        BY DEF Ends
      <4>4. batch[k].end <= p /\ batch[k].end \in Nat
        BY <1>1, <1>3, <4>1
      <4> QED
        BY <1>3, <4>2, <4>3, <4>4
    <3> QED
      BY <3>1, <3>2
  <2>2. p + Growth(batch, k) <= after
    <3>1. CASE k = n
      <4>1. Growth(batch, k) = Growth(batch, Len(batch))
        BY <3>1
      <4> HIDE DEF n
      <4> QED
        BY <1>3, <4>1
    <3>2. CASE k # n
      <4>1. k + 1 \in 1 .. n /\ k + 1 > k /\ (k + 1) - 1 = k
        BY <1>1, <3>2
      <4>2. Lands(batch, k + 1) \in Nat /\ Lands(batch, k + 1) <= after
        <5>1. /\ Lands(batch, k + 1) \in Nat /\ Ends(batch, k + 1) \in Nat
              /\ Lands(batch, k + 1) <= Ends(batch, k + 1) /\ Ends(batch, k + 1) <= after
          BY <4>1, WrittenInText
        <5> QED
          BY <5>1
      <4>3. Lands(batch, k + 1) = batch[k + 1].start + Growth(batch, k)
        BY <4>1 DEF Lands
      <4>4. p <= batch[k + 1].start /\ batch[k + 1].start \in Nat
        BY <1>1, <1>3, <4>1
      <4> QED
        BY <1>3, <4>2, <4>3, <4>4
    <3> QED
      BY <3>1, <3>2
  <2> QED
    BY <1>3, <2>1, <2>2
<1>4. PICK k : /\ EndTo(batch, p) = p + Growth(batch, k)
               /\ k \in 0 .. n /\ Growth(batch, k) \in Int
               /\ \A c \in 1 .. n : c <= k => batch[c].end <= p /\ batch[c].start < p
               /\ \A c \in 1 .. n : c > k => p <= batch[c].start
  BY <1>2, EndAround
<1>5. PICK m : /\ StartTo(batch, p) = p + Growth(batch, m)
               /\ m \in 0 .. n /\ Growth(batch, m) \in Int
               /\ \A c \in 1 .. n : c <= m => batch[c].end <= p
               /\ \A c \in 1 .. n : c > m => p <= batch[c].start /\ p < batch[c].end
  BY <1>2, StartAround
<1> HIDE DEF n
<1> QED
  BY <1>3, <1>4, <1>5

-----------------------------------------------------------------------------
(* Offsets of the first text in the text that a log left.                  *)

(* Where a batch puts an offset, as a start or as an end (after).          *)
Goes(batch, p, after) ==
  IF p = NoPlace \/ Rewrites(batch, p) THEN NoPlace ELSE p + Shift(batch, p, after)

(* The recursive function of Cur.                                          *)
CurLoop(at, batches, o, after) ==
  /\ at \in [0 .. Len(batches) -> Int] /\ at[0] = o
  /\ \A c \in 1 .. Len(batches) : at[c] = Goes(batches[c], at[c - 1], after)

(* An offset goes from batch to batch.                                     *)
LEMMA CurSteps ==
  ASSUME NEW batches, Len(batches) \in Nat, \A c \in 1 .. Len(batches) : LoggedEdits(batches[c]),
         NEW o \in Int, NEW after
  PROVE  \E at : CurLoop(at, batches, o, after) /\ Cur(batches, o, after) = at[Len(batches)]
<1> DEFINE n == Len(batches)
           One(i, x) == Goes(batches[i], x, after)
           Loop(g) == g = [i \in 0 .. n |-> IF i = 0 THEN o ELSE One(i, g[i - 1])]
           step == [i \in 1 .. n |-> [x \in Int |-> One(i, x)]]
<1>1. \A i \in 1 .. n, x \in Int : One(i, x) \in Int
  BY ShiftNumber DEF Goes, NoPlace
<1>2. \A i \in 1 .. n, x \in Int : step[i][x] = One(i, x)
  <2> HIDE DEF One
  <2> QED
    OBVIOUS
<1>3. Counts(n, Int, o, step)
  <2> HIDE DEF step, One
  <2> QED
    BY <1>1, <1>2 DEF Counts
<1>4. PICK g : Counted(g, n, Int, o, step)
  <2> HIDE DEF n, step
  <2> QED
    BY <1>3, RecursionOnNumbers
<1>5. n \in Nat /\ \A i \in 1 .. n : i \in 0 .. n /\ i - 1 \in 0 .. n /\ i # 0
  OBVIOUS
<1> HIDE DEF n, step, One
<1>6. g \in [0 .. n -> Int] /\ g[0] = o /\ \A i \in 1 .. n : g[i] = One(i, g[i - 1])
  BY <1>2, <1>4, <1>5 DEF Counted
<1>7. Loop(g)
  <2>1. \A i \in 0 .. n : g[i] = IF i = 0 THEN o ELSE One(i, g[i - 1])
    BY <1>5, <1>6
  <2>2. g = [i \in 0 .. n |-> g[i]]
    BY <1>6
  <2> QED
    BY <2>1, <2>2
<1>8. PICK h : Loop(h) /\ Cur(batches, o, after) = h[n]
  <2>1. Cur(batches, o, after) = (CHOOSE h : Loop(h))[n]
    BY DEF Cur, One, n, Goes
  <2> HIDE DEF Loop
  <2> QED
    BY <1>7, <2>1
<1>9. h[0] = o /\ \A i \in 1 .. n : h[i] = One(i, h[i - 1])
  <2>1. \A i \in 0 .. n : h[i] = IF i = 0 THEN o ELSE One(i, h[i - 1])
    BY <1>8
  <2> QED
    BY <1>5, <2>1
<1>10. h \in [0 .. n -> {h[i] : i \in 0 .. n}]
  <2>1. h = [i \in 0 .. n |-> h[i]]
    <3>1. DOMAIN h = 0 .. n /\ h = [i \in DOMAIN h |-> h[i]]
      BY <1>8
    <3> QED
      BY <3>1
  <2> QED
    BY <2>1
<1>11. Counted(h, n, Int, o, step)
  <2> HIDE DEF Loop
  <2>1. \A i \in 1 .. n : h[i - 1] \in Int => h[i] = step[i][h[i - 1]]
    BY <1>2, <1>9
  <2> QED
    BY <1>3, <1>9, <1>10, <2>1, LoopCounts
<1>12. h \in [0 .. n -> Int]
  BY <1>11 DEF Counted
<1>13. CurLoop(h, batches, o, after)
  BY <1>9, <1>12 DEF CurLoop, One, n
<1> QED
  BY <1>8, <1>13 DEF n

(* Without a batch an offset is where it was.                              *)
LEMMA CurNone ==
  ASSUME NEW o \in Int, NEW after
  PROVE  Cur(<< >>, o, after) = o
<1>1. PICK none : none = << >> /\ Len(none) = 0 /\ 1 .. Len(none) = {}
  OBVIOUS
<1>2. PICK at : CurLoop(at, none, o, after) /\ Cur(none, o, after) = at[Len(none)]
  BY <1>1, CurSteps
<1>3. at[0] = o
  BY <1>2 DEF CurLoop
<1> QED
  BY Zenon, <1>1, <1>2, <1>3

(* One more batch takes an offset from where it is.                        *)
LEMMA CurAppend ==
  ASSUME NEW batches, NEW B, batches \in Seq(B), \A c \in 1 .. Len(batches) : LoggedEdits(batches[c]),
         NEW batch, LoggedEdits(batch), NEW o \in Int, NEW after
  PROVE  /\ Cur(batches, o, after) \in Int
         /\ Cur(Append(batches, batch), o, after) = Goes(batch, Cur(batches, o, after), after)
<1>1. PICK n, more : n = Len(batches) /\ more = Append(batches, batch)
  OBVIOUS
<1>2. /\ n \in Nat /\ Len(more) = n + 1 /\ more[n + 1] = batch /\ \A c \in 1 .. n : more[c] = batches[c]
      /\ n + 1 \in Nat /\ (n + 1) - 1 = n /\ n + 1 \in 1 .. n + 1 /\ n \in 0 .. n
      /\ \A c \in 1 .. n : c \in 1 .. n + 1
      /\ \A c \in 1 .. n + 1 : c = n + 1 \/ c \in 1 .. n
  BY <1>1
<1>3. PICK at : CurLoop(at, batches, o, after) /\ Cur(batches, o, after) = at[n]
  BY <1>1, <1>2, CurSteps
<1>4. \A c \in 1 .. Len(more) : LoggedEdits(more[c])
  BY <1>1, <1>2
<1>5. PICK to : CurLoop(to, more, o, after) /\ Cur(more, o, after) = to[n + 1]
  BY <1>2, <1>4, CurSteps
<1>6. at[0] = o /\ \A c \in 1 .. n : at[c] = Goes(batches[c], at[c - 1], after)
  BY <1>1, <1>3 DEF CurLoop
<1>7. to[0] = o /\ \A c \in 1 .. n + 1 : to[c] = Goes(more[c], to[c - 1], after)
  BY <1>2, <1>5 DEF CurLoop
<1>8. \A c \in 0 .. n : at[c] = to[c]
  <2>1. ASSUME NEW c \in 1 .. n, at[c - 1] = to[c - 1] PROVE at[c] = to[c]
    <3>1. more[c] = batches[c] /\ c \in 1 .. n + 1
      BY <1>2
    <3> QED
      BY Zenon, <1>6, <1>7, <2>1, <3>1
  <2>2. at[0] = to[0]
    BY <1>6, <1>7
  <2>3. \A i \in 1 .. n : at[i - 1] = to[i - 1] => at[i] = to[i]
    BY Zenon, <2>1
  <2>4. n \in Nat
    BY <1>2
  <2> QED
    BY ONLY <2>2, <2>3, <2>4, SameLoop
<1>9. at[n] \in Int
  BY <1>1, <1>2, <1>3 DEF CurLoop
<1>10. to[n + 1] = Goes(batch, at[n], after)
  BY Zenon, <1>2, <1>7, <1>8
<1> QED
  BY Zenon, <1>1, <1>3, <1>5, <1>9, <1>10

(* What the edits of two sets add is what those of each add.               *)
LEMMA GrowthTogether ==
  ASSUME NEW batch, LoggedEdits(batch), NEW A, NEW B, A \cap B = {}
  PROVE  /\ GrowthOf(batch, A \cup B) = GrowthOf(batch, A) + GrowthOf(batch, B)
         /\ GrowthOf(batch, A) \in Int /\ GrowthOf(batch, B) \in Int
<1>1. PICK n, C : n = Len(batch) /\ C = A \cup B
  OBVIOUS
<1>2. n \in Nat
  BY <1>1, BatchNumbers
<1>3. PICK a : GrowthLoop(a, batch, A) /\ GrowthOf(batch, A) = a[n]
  BY <1>1, GrowthOfSteps
<1>4. PICK b : GrowthLoop(b, batch, B) /\ GrowthOf(batch, B) = b[n]
  BY <1>1, GrowthOfSteps
<1>5. PICK c : GrowthLoop(c, batch, C) /\ GrowthOf(batch, C) = c[n]
  BY <1>1, GrowthOfSteps
<1> DEFINE T == {i \in 0 .. n : c[i] = a[i] + b[i]}
<1>6. \A i \in 0 .. n : a[i] \in Int /\ b[i] \in Int /\ c[i] \in Int
  BY <1>1, <1>3, <1>4, <1>5 DEF GrowthLoop
<1>7. 0 \in T
  BY <1>2, <1>3, <1>4, <1>5 DEF GrowthLoop
<1>8. ASSUME NEW i \in 0 .. n - 1, i \in T PROVE i + 1 \in T
  <2>1. i + 1 \in 1 .. n /\ (i + 1) - 1 = i /\ i + 1 \in 0 .. n /\ i \in 0 .. n
    BY <1>2
  <2>2. PICK k, g : k = i + 1 /\ g = Grows(batch[k])
    OBVIOUS
  <2>3. g \in Int
    BY <1>1, <2>1, <2>2, BatchNumbers DEF Grows
  <2>4. /\ a[k] = a[i] + (IF k \in A THEN g ELSE 0) /\ b[k] = b[i] + (IF k \in B THEN g ELSE 0)
        /\ c[k] = c[i] + (IF k \in C THEN g ELSE 0)
    BY <1>1, <1>3, <1>4, <1>5, <2>1, <2>2 DEF GrowthLoop
  <2>5. c[k] = a[k] + b[k]
    <3>1. c[i] = a[i] + b[i]
      BY <1>8
    <3>2. a[i] \in Int /\ b[i] \in Int
      BY <1>6, <2>1
    <3> QED
      BY <1>1, <2>3, <2>4, <3>1, <3>2
  <2> QED
    BY <2>1, <2>2, <2>5
<1> HIDE DEF T
<1>9. \A i \in 0 .. n : i \in T
  BY <1>2, <1>7, <1>8, CountUp
<1>10. n \in 0 .. n
  BY <1>2
<1> QED
  BY <1>1, <1>3, <1>4, <1>5, <1>6, <1>9, <1>10 DEF T

-----------------------------------------------------------------------------
(* Lists of edits in the order in which they are applied.                  *)

(* A finite set as a list has the elements of the set, each of them.       *)
LEMMA ListedSet ==
  ASSUME NEW E, IsFiniteSet(E)
  PROVE  SetToSeq(E) \in Seq(E) /\ \A e \in E : \E i \in 1 .. Len(SetToSeq(E)) : SetToSeq(E)[i] = e
<1>1. PICK n : n = Cardinality(E) /\ n \in Nat /\ ExistsBijection(1 .. n, E)
  BY FS_CardinalityType
<1>2. PICK g \in [1 .. n -> E] : IsInjective(g)
  BY <1>1 DEF ExistsBijection, Bijection, Injection
<1>3. PICK s : s = SetToSeq(E)
  OBVIOUS
<1>4. s \in [1 .. n -> E] /\ IsInjective(s)
  BY Zenon, <1>1, <1>2, <1>3 DEF SetToSeq
<1>5. s \in Injection(1 .. n, E)
  BY <1>4 DEF Injection
<1>6. IsFiniteSet(1 .. n) /\ Cardinality(1 .. n) = n
  <2>1. 1 \in Int /\ n \in Int
    BY <1>1
  <2>2. IsFiniteSet(1 .. n) /\ Cardinality(1 .. n) = IF 1 > n THEN 0 ELSE n - 1 + 1
    BY <2>1, FS_Interval
  <2> QED
    BY <1>1, <2>2
<1>7. s \in Surjection(1 .. n, E)
  BY <1>1, <1>5, <1>6, FS_Injection
<1>8. \A e \in E : \E i \in 1 .. n : s[i] = e
  BY <1>7 DEF Surjection
<1>9. s \in Seq(E) /\ Len(s) = n
  BY <1>1, <1>4
<1> QED
  BY <1>3, <1>8, <1>9

(* The places of a list of length n in order, each with those before it.   *)
InOrder(n, before) ==
  /\ n \in Nat /\ before \in [1 .. n -> SUBSET (1 .. n)]
  /\ \A i \in 1 .. n : i \notin before[i]
  /\ \A i \in 1 .. n, j \in 1 .. n : i # j => i \in before[j] \/ j \in before[i]
  /\ \A i \in 1 .. n, j \in 1 .. n : i \in before[j] => before[i] \subseteq before[j]

(* Each place has a number of its own.                                     *)
LEMMA RankedOnce ==
  ASSUME NEW n, NEW before, InOrder(n, before)
  PROVE  /\ \A k \in 1 .. n : \E i \in 1 .. n : Cardinality(before[i]) = k - 1
         /\ \A i \in 1 .. n : Cardinality(before[i]) \in 0 .. n - 1
         /\ \A i \in 1 .. n, j \in 1 .. n : Cardinality(before[i]) = Cardinality(before[j]) => i = j
<1> DEFINE rank == [i \in 1 .. n |-> Cardinality(before[i])]
<1> USE DEF InOrder
<1>1. IsFiniteSet(1 .. n) /\ Cardinality(1 .. n) = n
  <2>1. 1 \in Int /\ n \in Int
    OBVIOUS
  <2>2. IsFiniteSet(1 .. n) /\ Cardinality(1 .. n) = IF 1 > n THEN 0 ELSE n - 1 + 1
    BY <2>1, FS_Interval
  <2> QED
    BY <2>2
<1>2. IsFiniteSet(0 .. n - 1) /\ Cardinality(0 .. n - 1) = n
  <2>1. 0 \in Int /\ n - 1 \in Int
    OBVIOUS
  <2>2. IsFiniteSet(0 .. n - 1) /\ Cardinality(0 .. n - 1) = IF 0 > n - 1 THEN 0 ELSE (n - 1) - 0 + 1
    BY <2>1, FS_Interval
  <2> QED
    BY <2>2
<1>3. ASSUME NEW i \in 1 .. n PROVE IsFiniteSet(before[i]) /\ Cardinality(before[i]) \in 0 .. n - 1
  <2>1. before[i] \in SUBSET (1 .. n) /\ before[i] # 1 .. n
    OBVIOUS
  <2>2. /\ IsFiniteSet(before[i]) /\ Cardinality(before[i]) \in Nat /\ Cardinality(1 .. n) \in Nat
        /\ Cardinality(before[i]) < Cardinality(1 .. n)
    BY <1>1, <2>1, SmallerWithout
  <2> QED
    BY <1>1, <2>2
<1>4. ASSUME NEW i \in 1 .. n, NEW j \in 1 .. n, i \in before[j]
      PROVE  Cardinality(before[i]) # Cardinality(before[j])
  <2>1. before[i] \in SUBSET before[j] /\ before[i] # before[j]
    BY <1>4
  <2>2. Cardinality(before[i]) < Cardinality(before[j]) /\ Cardinality(before[i]) \in Nat /\ Cardinality(before[j]) \in Nat
    BY <1>3, <2>1, SmallerWithout
  <2> QED
    BY <2>2
<1>5. \A i \in 1 .. n, j \in 1 .. n : Cardinality(before[i]) = Cardinality(before[j]) => i = j
  BY <1>4
<1>6. rank \in Injection(1 .. n, 0 .. n - 1)
  <2>1. rank \in [1 .. n -> 0 .. n - 1]
    BY <1>3
  <2>2. \A i \in 1 .. n, j \in 1 .. n : rank[i] = rank[j] => i = j
    BY <1>5
  <2> QED
    BY <2>1, <2>2 DEF Injection, IsInjective
<1> HIDE DEF rank
<1>7. rank \in Surjection(1 .. n, 0 .. n - 1)
  BY <1>1, <1>2, <1>6, FS_Injection
<1>8. \A k \in 0 .. n - 1 : \E i \in 1 .. n : rank[i] = k
  BY <1>7 DEF Surjection
<1>9. \A k \in 1 .. n : \E i \in 1 .. n : Cardinality(before[i]) = k - 1
  <2>1. \A k \in 1 .. n : k - 1 \in 0 .. n - 1
    OBVIOUS
  <2> QED
    BY <1>8, <2>1 DEF rank
<1> QED
  BY <1>3, <1>5, <1>9

(* Sorting a list of edits leaves it the same edits.                       *)
LEMMA SortedSame ==
  ASSUME NEW V, NEW its \in Seq(V), \A i \in 1 .. Len(its) : its[i].start \in Int /\ its[i].end \in Int
  PROVE  /\ SortIntents(its) \in Seq(V) /\ Len(SortIntents(its)) = Len(its)
         /\ \A k \in 1 .. Len(its) : \E i \in 1 .. Len(its) : SortIntents(its)[k] = its[i]
         /\ \A i \in 1 .. Len(its) : \E k \in 1 .. Len(its) : SortIntents(its)[k] = its[i]
<1>1. PICK n : n = Len(its) /\ n \in Nat /\ DOMAIN its = 1 .. n
  OBVIOUS
<1> DEFINE First(j, i) ==
             Precedes(its[j], its[i]) \/ (~Precedes(its[i], its[j]) /\ j < i)
           Rank(i) == Cardinality({j \in DOMAIN its : First(j, i)})
           At(k) == its[CHOOSE i \in DOMAIN its : Rank(i) = k - 1]
           parts == [k \in DOMAIN its |-> <<At(k)>>]
<1>2. PICK before : before = [i \in 1 .. n |-> {j \in 1 .. n : First(j, i)}]
  OBVIOUS
<1>3. SortIntents(its) = Concat(parts)
  BY DEF SortIntents, Sort
<1>4. /\ \A i \in 1 .. n : i \notin before[i]
      /\ \A i \in 1 .. n, j \in 1 .. n : i # j => i \in before[j] \/ j \in before[i]
  BY <1>2, <1>1 DEF Precedes
<1>5. \A i \in 1 .. n, j \in 1 .. n : i \in before[j] => before[i] \subseteq before[j]
  <2>1. ASSUME NEW i \in 1 .. n, NEW j \in 1 .. n, NEW l \in 1 .. n, First(i, j), First(l, i) PROVE First(l, j)
    <3>1. PICK a, b, c, d, e, g : /\ a = its[i].start /\ b = its[i].end /\ c = its[j].start /\ d = its[j].end
                                  /\ e = its[l].start /\ g = its[l].end
      OBVIOUS
    <3>2. a \in Int /\ b \in Int /\ c \in Int /\ d \in Int /\ e \in Int /\ g \in Int
      BY <1>1, <3>1
    <3>3. /\ Precedes(its[i], its[j]) <=> (a < c \/ (a = c /\ b < d))
          /\ Precedes(its[j], its[i]) <=> (c < a \/ (c = a /\ d < b))
          /\ Precedes(its[l], its[i]) <=> (e < a \/ (e = a /\ g < b))
          /\ Precedes(its[i], its[l]) <=> (a < e \/ (a = e /\ b < g))
          /\ Precedes(its[l], its[j]) <=> (e < c \/ (e = c /\ g < d))
          /\ Precedes(its[j], its[l]) <=> (c < e \/ (c = e /\ d < g))
      BY <3>1 DEF Precedes
    <3> QED
      BY <2>1, <3>2, <3>3
  <2> HIDE DEF First
  <2> QED
    BY <1>2, <2>1
<1>6. before \in [1 .. n -> SUBSET (1 .. n)]
  BY <1>2
<1>7. \A i \in 1 .. n : Rank(i) = Cardinality(before[i])
  BY <1>2, <1>1
<1> HIDE DEF Rank
<1>8. /\ \A k \in 1 .. n : \E i \in 1 .. n : Rank(i) = k - 1
      /\ \A i \in 1 .. n : Rank(i) \in 0 .. n - 1
      /\ \A i \in 1 .. n, j \in 1 .. n : Rank(i) = Rank(j) => i = j
  <2>1. /\ \A k \in 1 .. n : \E i \in 1 .. n : Cardinality(before[i]) = k - 1
        /\ \A i \in 1 .. n : Cardinality(before[i]) \in 0 .. n - 1
        /\ \A i \in 1 .. n, j \in 1 .. n : Cardinality(before[i]) = Cardinality(before[j]) => i = j
    <3>1. InOrder(n, before)
      BY ONLY <1>1, <1>4, <1>5, <1>6 DEF InOrder
    <3> QED
      BY ONLY <3>1, RankedOnce
  <2> QED
    BY <1>7, <2>1
<1>9. ASSUME NEW k \in 1 .. n PROVE \E i \in 1 .. n : At(k) = its[i]
  <2>1. (CHOOSE i \in DOMAIN its : Rank(i) = k - 1) \in 1 .. n
    BY <1>1, <1>8
  <2> QED
    BY <2>1
<1>10. ASSUME NEW i \in 1 .. n PROVE \E k \in 1 .. n : At(k) = its[i]
  <2>0. PICK r : r = Rank(i) /\ r \in 0 .. n - 1
    BY <1>8
  <2>1. PICK k : k = r + 1
    OBVIOUS
  <2>2. k \in 1 .. n /\ Rank(i) = k - 1
    BY <1>1, <2>0, <2>1
  <2>3. (CHOOSE j \in DOMAIN its : Rank(j) = k - 1) = i
    BY <1>1, <1>8, <2>2
  <2>4. At(k) = its[i]
    BY Zenon, <2>3
  <2> QED
    BY <2>2, <2>4
<1> HIDE DEF At
<1>11. PICK f : f = [k \in 1 .. n |-> At(k)]
  OBVIOUS
<1>12. f \in [1 .. n -> V]
  BY <1>1, <1>9, <1>11
<1>13. parts = [k \in 1 .. n |-> <<f[k]>>]
  BY <1>1, <1>11
<1>14. Concat(parts) = f
  <2> HIDE DEF parts
  <2> QED
    BY <1>1, <1>12, <1>13, ConcatOnes
<1>15. f \in Seq(V) /\ Len(f) = n
  BY <1>1, <1>12
<1>16. \A k \in 1 .. n : f[k] = At(k)
  BY <1>11
<1>17. SortIntents(its) = f
  BY Zenon, <1>3, <1>14
<1>18. \A k \in 1 .. n : \E i \in 1 .. n : f[k] = its[i]
  BY <1>9, <1>16
<1>19. \A i \in 1 .. n : \E k \in 1 .. n : f[k] = its[i]
  BY <1>10, <1>16
<1> QED
  BY ONLY Zenon, <1>1, <1>15, <1>17, <1>18, <1>19

-----------------------------------------------------------------------------
(* One edit is in order, and what it writes is where it starts.            *)
LEMMA OneEdit ==
  ASSUME NEW S, NEW t \in Seq(S), NEW e, IsEdit(S, Len(t), e), NEW its, its = <<e>>
  PROVE  /\ EditsIn(S, Len(t), its) /\ StartsApart(its) /\ Len(its) = 1 /\ its[1] = e
         /\ \A k \in 1 .. Len(e.text) : ApplyText(t, its)[e.start + k] = e.text[k]
<1>1. PICK n, s, d : n = Len(t) /\ s = e.start /\ d = e.end
  OBVIOUS
<1>2. n \in Nat /\ s \in Nat /\ d \in Nat /\ s <= d /\ d <= n /\ e.text \in Seq(S)
  BY <1>1 DEF IsEdit
<1>3. PICK u : u = << >> \o Part(t, 0, s)
  OBVIOUS
<1>4. Reaches(S, t, << >>, s, u)
  <2>1. Reaches(S, t, << >>, 0, << >>)
    BY ReachNone
  <2>2. 0 \in Nat /\ 0 <= s /\ s <= Len(t)
    BY <1>1, <1>2
  <2>3. Reaches(S, t, << >>, s, << >> \o Part(t, 0, s))
    BY <1>2, <2>1, <2>2, ReachFurther
  <2> QED
    BY Zenon, <1>3, <2>3
<1>5. Reaches(S, t, Append(<< >>, e), d, u \o e.text)
  BY <1>1, <1>4, ReachEdit
<1>6. Reaches(S, t, Append(<< >>, e), n, (u \o e.text) \o Part(t, d, n))
  BY <1>1, <1>2, <1>5, ReachFurther
<1>7. its = Append(<< >>, e)
  OBVIOUS
<1>8. PICK v, w : v = u \o e.text /\ w = v \o Part(t, d, n)
  OBVIOUS
<1>9. Reaches(S, t, its, Len(t), w)
  BY Zenon, <1>1, <1>6, <1>7, <1>8
<1>10. EditsIn(S, Len(t), its) /\ ApplyText(t, its) = w
  BY <1>9, ReachAll
<1>11. u \in Seq(S) /\ Len(u) = s
  <2>1. Part(t, 0, s) \in Seq(S) /\ Len(Part(t, 0, s)) = s
    <3>1. 0 \in Nat /\ 0 <= s /\ s <= Len(t) /\ s - 0 = s
      BY <1>1, <1>2
    <3> QED
      BY <1>2, <3>1, PartOf
  <2> QED
    BY <1>3, <2>1
<1>12. Part(t, d, n) \in Seq(S)
  <2>1. n <= Len(t)
    BY <1>1, <1>2
  <2> QED
    BY <1>2, <2>1, PartOf
<1>13. ASSUME NEW k \in 1 .. Len(e.text) PROVE w[s + k] = e.text[k]
  <2>1. PICK x : x = e.text /\ x \in Seq(S) /\ Len(x) \in Nat /\ k \in 1 .. Len(x)
    BY <1>2
  <2>2. v \in Seq(S) /\ PutAfter(v, u, x)
    <3>1. u \o x \in Seq(S) /\ PutAfter(u \o x, u, x)
      BY <1>11, <2>1, PutBehind
    <3> QED
      BY Zenon, <1>8, <2>1, <3>1
  <2>3. Len(v) = s + Len(x) /\ v[s + k] = x[k]
    BY <1>11, <2>1, <2>2 DEF PutAfter
  <2>4. PutAfter(w, v, Part(t, d, n))
    BY <1>8, <1>12, <2>2, PutBehind
  <2>5. s + k \in 1 .. Len(v)
    BY <1>2, <2>1, <2>3
  <2>6. w[s + k] = v[s + k]
    BY <2>4, <2>5 DEF PutAfter
  <2> QED
    BY <2>1, <2>3, <2>6
<1>14. Len(its) = 1 /\ its[1] = e /\ StartsApart(its)
  BY DEF StartsApart
<1> QED
  BY <1>1, <1>10, <1>13, <1>14

(* A list of one edit is sorted.                                           *)
LEMMA OneSorted ==
  ASSUME NEW e, e.start \in Int, e.end \in Int
  PROVE  SortIntents(<<e>>) = <<e>>
<1>1. PICK its, V : its = <<e>> /\ V = {e}
  OBVIOUS
<1>2. its \in Seq(V) /\ Len(its) = 1 /\ its[1] = e
  BY <1>1
<1>3. /\ SortIntents(its) \in Seq(V) /\ Len(SortIntents(its)) = Len(its)
      /\ \A k \in 1 .. Len(its) : \E i \in 1 .. Len(its) : SortIntents(its)[k] = its[i]
  <2>1. \A i \in 1 .. Len(its) : its[i].start \in Int /\ its[i].end \in Int
    BY <1>2
  <2> QED
    BY <1>2, <2>1, SortedSame
<1>4. PICK s : s = SortIntents(its)
  OBVIOUS
<1>5. s \in Seq(V) /\ Len(s) = 1 /\ s[1] = e
  BY <1>1, <1>2, <1>3, <1>4
<1>6. s = <<e>>
  BY <1>5
<1> QED
  BY Zenon, <1>1, <1>4, <1>6

(* The edits of a list that fit a text, each with a length, are in order   *)
(* unless they overlap.                                                    *)
LEMMA SortedInOrder ==
  ASSUME NEW S, NEW len \in Nat, NEW V, NEW its \in Seq(V),
         \A i \in 1 .. Len(its) : IsEdit(S, len, its[i]) /\ its[i].start < its[i].end, ~Overlap(its)
  PROVE  EditsIn(S, len, its) /\ StartsApart(its)
<1>1. \A i \in 1 .. Len(its) : its[i].start \in Nat /\ its[i].end \in Nat /\ its[i].start < its[i].end
  BY DEF IsEdit
<1>2. ASSUME NEW i \in 2 .. Len(its) PROVE its[i - 1].end <= its[i].start /\ its[i - 1].start < its[i].start
  <2>1. i \in 1 .. Len(its) /\ i - 1 \in 1 .. Len(its)
    OBVIOUS
  <2>2. ~(its[i].start < its[i - 1].end)
    BY DEF Overlap
  <2> QED
    BY <1>1, <2>1, <2>2
<1> QED
  BY <1>2 DEF EditsIn, StartsApart

-----------------------------------------------------------------------------
(* Marks through a batch.                                                  *)

(* Marks on what the steps write of the components X.                      *)
MarksOver(X) == [kind : {"root", "sibling", "placeholder"}, key : X, off : Int, n : Int]

(* The edits that move a mark, those behind it and those in it; what keeps *)
(* a mark, and where it is then (MovedMarks).                              *)
AheadOf(m, batch) == {i \in DOMAIN batch : Ahead(m, batch[i])}
BehindOf(m, batch) == {i \in DOMAIN batch : Behind(m, batch[i])}
InnerOf(m, batch) == DOMAIN batch \ (AheadOf(m, batch) \cup BehindOf(m, batch))
KeptBy(m, batch) ==
  \A i \in DOMAIN batch : Ahead(m, batch[i]) \/ Behind(m, batch[i]) \/ Inside(m, batch[i])
ShiftedBy(m, batch) ==
  [m EXCEPT !.off = @ + GrowthOf(batch, AheadOf(m, batch)), !.n = @ + GrowthOf(batch, InnerOf(m, batch))]

(* The marks that a batch keeps, moved.                                    *)
LEMMA MovedMarksAre ==
  ASSUME NEW ms, NEW batch
  PROVE  MovedMarks(ms, batch) = {ShiftedBy(m, batch) : m \in {x \in ms : KeptBy(x, batch)}}
<1>1. ASSUME NEW m
      PROVE  KeptBy(m, batch) <=> \A i \in DOMAIN batch : i \in AheadOf(m, batch) \cup BehindOf(m, batch)
                                                     \/ Inside(m, batch[i])
  BY DEF KeptBy, AheadOf, BehindOf
<1>2. MovedMarks(ms, batch) =
        {ShiftedBy(m, batch) : m \in {x \in ms : \A i \in DOMAIN batch : i \in AheadOf(x, batch) \cup BehindOf(x, batch)
                                                     \/ Inside(x, batch[i])}}
  BY DEF MovedMarks, ShiftedBy, AheadOf, BehindOf, InnerOf
<1> QED
  BY <1>1, <1>2

(* A mark that is kept is where its start and its end go.                  *)
LEMMA MarkMoves ==
  ASSUME NEW batch, InLine(batch), NEW X, NEW m \in MarksOver(X), m.n > 0, KeptBy(m, batch),
         NEW x, x = ShiftedBy(m, batch)
  PROVE  /\ x \in MarksOver(X) /\ x.kind = m.kind /\ x.key = m.key
         /\ x.off = StartTo(batch, m.off) /\ x.off + x.n = EndTo(batch, m.off + m.n)
         /\ ~Rewrites(batch, m.off) /\ ~Rewrites(batch, m.off + m.n)
<1>1. /\ LoggedEdits(batch) /\ DOMAIN batch = 1 .. Len(batch)
      /\ \A i \in DOMAIN batch : /\ batch[i].start \in Nat /\ batch[i].end \in Nat
                                 /\ batch[i].start <= batch[i].end
  BY BatchNumbers DEF InLine, LoggedEdits
<1>2. m.off \in Int /\ m.n \in Int
  BY DEF MarksOver
<1>3. PICK p, q, A, B, C : p = m.off /\ q = m.off + m.n /\ A = AheadOf(m, batch) /\ B = InnerOf(m, batch) /\ C = A \cup B
  OBVIOUS
<1>4. p \in Int /\ q \in Int /\ p < q
  BY <1>2, <1>3
<1>5. \A i \in DOMAIN batch : Ahead(m, batch[i]) <=> IF Inserts(batch[i]) THEN batch[i].start <= p ELSE batch[i].end <= p
  BY <1>3 DEF Ahead
<1>6. \A i \in DOMAIN batch : Behind(m, batch[i]) <=> batch[i].start >= q
  BY <1>3 DEF Behind
<1>7. \A i \in DOMAIN batch : Inside(m, batch[i]) => Inserts(batch[i]) \/ (p <= batch[i].start /\ batch[i].end <= q)
  BY <1>3 DEF Inside
<1>8. ~Rewrites(batch, p) /\ ~Rewrites(batch, q)
  BY <1>1, <1>4, <1>5, <1>6, <1>7 DEF Rewrites, KeptBy, Inserts
<1>9. PICK lo, hi : lo = TRUE /\ hi = FALSE
  BY Zenon
<1>10. A = {i \in DOMAIN batch : Moves(batch[i], p, lo)}
  <2>1. ASSUME NEW i \in DOMAIN batch PROVE Ahead(m, batch[i]) <=> Moves(batch[i], p, lo)
    BY <1>1, <1>4, <1>5, <1>9 DEF Moves
  <2> QED
    BY <1>3, <2>1 DEF AheadOf
<1>11. C = {i \in DOMAIN batch : Moves(batch[i], q, hi)}
  <2>1. ASSUME NEW i \in DOMAIN batch
        PROVE  i \in A \cup B <=> Moves(batch[i], q, hi)
    <3>1. i \in A \cup B <=> Ahead(m, batch[i]) \/ ~Behind(m, batch[i])
      BY <1>3 DEF AheadOf, InnerOf, BehindOf
    <3>2. Ahead(m, batch[i]) \/ Behind(m, batch[i]) \/ Inside(m, batch[i])
      BY DEF KeptBy
    <3> QED
      BY <1>1, <1>4, <1>5, <1>6, <1>7, <1>9, <3>1, <3>2 DEF Moves, Inserts
  <2>2. A \cup B \subseteq DOMAIN batch
    BY <1>3 DEF AheadOf, InnerOf
  <2> QED
    BY <1>3, <2>1, <2>2
<1>12. GrowthOf(batch, A) = Shift(batch, p, lo) /\ GrowthOf(batch, C) = Shift(batch, q, hi)
  BY Zenon, <1>10, <1>11 DEF Shift
<1>13. /\ GrowthOf(batch, C) = GrowthOf(batch, A) + GrowthOf(batch, B)
       /\ GrowthOf(batch, A) \in Int /\ GrowthOf(batch, B) \in Int
  <2>1. A \cap B = {}
    BY <1>3 DEF InnerOf
  <2> QED
    BY <1>1, <1>3, <2>1, GrowthTogether
<1>14. StartTo(batch, p) = p + Shift(batch, p, lo) /\ EndTo(batch, q) = q + Shift(batch, q, hi)
  BY Zenon, <1>9 DEF StartTo, EndTo
<1>15. PICK g, h : g = GrowthOf(batch, A) /\ h = GrowthOf(batch, B)
  OBVIOUS
<1>16. x = [m EXCEPT !.off = @ + g, !.n = @ + h]
  BY <1>3, <1>15 DEF ShiftedBy
<1>17. x \in MarksOver(X) /\ x.kind = m.kind /\ x.key = m.key /\ x.off = p + g /\ x.n = m.n + h
  <2>1. PICK y : y = [m EXCEPT !.off = @ + g]
    OBVIOUS
  <2>2. x = [y EXCEPT !.n = @ + h]
    BY <1>16, <2>1
  <2>3. y = [kind |-> m.kind, key |-> m.key, off |-> p + g, n |-> m.n]
    BY <1>3, <2>1 DEF MarksOver
  <2>4. x = [kind |-> m.kind, key |-> m.key, off |-> p + g, n |-> m.n + h]
    BY <2>2, <2>3
  <2>5. p + g \in Int /\ m.n + h \in Int
    BY <1>2, <1>4, <1>3, <1>13, <1>15
  <2>6. m.kind \in {"root", "sibling", "placeholder"} /\ m.key \in X
    BY DEF MarksOver
  <2> QED
    BY <2>4, <2>5, <2>6 DEF MarksOver
<1>18. x.off + x.n = q + (g + h)
  BY <1>2, <1>3, <1>13, <1>15, <1>17
<1> QED
  BY <1>3, <1>8, <1>12, <1>13, <1>14, <1>15, <1>17, <1>18

-----------------------------------------------------------------------------
(* What stands in a text: atoms outside of all marks, the marks and where  *)
(* the offsets of the first text are.                                      *)

(* Batch makes text u of text t.                                           *)
Turns(t, batch, u) ==
  /\ InLine(batch) /\ Carries(t, batch, u) /\ Len(t) \in Nat /\ Len(u) \in Nat
  /\ \A i \in 1 .. Len(batch) : batch[i].end <= Len(t)

(* Atom j is in mark m.                                                    *)
Within(m, j) == m.off < j /\ j <= m.off + m.n

(* Code that no mark covers, and code that only mark m covers.             *)
Solid(t, ms, j) == j \in 1 .. Len(t) /\ t[j] # WS /\ \A m \in ms : ~Within(m, j)
Own(t, ms, m, j) ==
  /\ j \in 1 .. Len(t) /\ t[j] # WS /\ Within(m, j)
  /\ \A x \in ms : x # m => ~Within(x, j)

(* Marks in the texts of edits.                                            *)
MarksIn(N, X, batch) ==
  /\ N \in SUBSET MarksOver(X)
  /\ \A m \in N : /\ m.n > 0
                  /\ \E i \in 1 .. Len(batch) : Lands(batch, i) <= m.off /\ m.off + m.n <= Ends(batch, i)

(* Marks lie in the text, and none is empty.                               *)
MarksStand(t, ms, X) ==
  /\ ms \in SUBSET MarksOver(X)
  /\ \A m \in ms : m.n > 0 /\ 0 <= m.off /\ m.off + m.n <= Len(t)

(* Every span has code of its own.                                         *)
MarksOwn(t, ms) == \A m \in ms : IsSpan(m) => \E j : Own(t, ms, m, j)

(* The batch takes no span's own atoms away from it.                       *)
OwnMissed(t, ms, batch) ==
  \A m \in ms : IsSpan(m) /\ KeptBy(m, batch) => \A j : Own(t, ms, m, j) => Missed(batch, j)

(* An atom that is not taken away stays inside or outside of a kept mark.  *)
LEMMA WithinMoved ==
  ASSUME NEW t, NEW batch, NEW u, Turns(t, batch, u), NEW X, NEW m \in MarksOver(X), m.n > 0,
         KeptBy(m, batch), NEW j \in 1 .. Len(t), Missed(batch, j)
  PROVE  Within(ShiftedBy(m, batch), EndTo(batch, j)) <=> Within(m, j)
<1>1. PICK x, p, q : x = ShiftedBy(m, batch) /\ p = m.off /\ q = m.off + m.n
  OBVIOUS
<1>2. p \in Int /\ q \in Int
  BY <1>1 DEF MarksOver
<1>3. x.off = StartTo(batch, p) /\ x.off + x.n = EndTo(batch, q) /\ ~Rewrites(batch, p) /\ ~Rewrites(batch, q)
  BY <1>1, MarkMoves DEF Turns
<1>4. /\ p < j => StartTo(batch, p) < EndTo(batch, j)
      /\ j <= p => EndTo(batch, j) <= StartTo(batch, p)
  BY <1>2, <1>3, AtomKeepsSide DEF Turns
<1>5. /\ q < j => EndTo(batch, q) < EndTo(batch, j)
      /\ j <= q => EndTo(batch, j) <= EndTo(batch, q)
  BY <1>2, <1>3, AtomKeepsSide DEF Turns
<1>6. StartTo(batch, p) \in Int /\ EndTo(batch, q) \in Int /\ EndTo(batch, j) \in Int
  <2>1. j \in Int
    OBVIOUS
  <2> QED
    BY <1>2, <2>1, OffsetNumbers DEF Turns
<1>7. Within(x, EndTo(batch, j)) <=> StartTo(batch, p) < EndTo(batch, j) /\ EndTo(batch, j) <= EndTo(batch, q)
  BY <1>3 DEF Within
<1>8. Within(m, j) <=> p < j /\ j <= q
  BY <1>1 DEF Within
<1>9. j \in Int
  OBVIOUS
<1> QED
  BY ONLY <1>1, <1>2, <1>4, <1>5, <1>6, <1>7, <1>8, <1>9

(* It is outside of what the edits write.                                  *)
LEMMA OutsideWritten ==
  ASSUME NEW t, NEW batch, NEW u, Turns(t, batch, u), NEW X, NEW m \in MarksOver(X),
         NEW i \in 1 .. Len(batch), Lands(batch, i) <= m.off, m.off + m.n <= Ends(batch, i),
         NEW j \in 1 .. Len(t), Missed(batch, j)
  PROVE  ~Within(m, EndTo(batch, j))
<1>1. m.off \in Int /\ m.n \in Int /\ j \in Int
  BY DEF MarksOver
<1>2. Lands(batch, i) \in Int /\ Ends(batch, i) \in Int
  BY BatchNumbers DEF Turns, InLine
<1>3. EndTo(batch, j) \in Int
  BY <1>1, OffsetNumbers DEF Turns
<1>4. /\ j <= batch[i].start => EndTo(batch, j) <= Lands(batch, i)
      /\ batch[i].end < j => Ends(batch, i) < EndTo(batch, j)
  BY AtomBeside DEF Turns
<1>5. batch[i].end < j \/ j <= batch[i].start
  BY DEF Missed
<1> QED
  BY <1>1, <1>2, <1>3, <1>4, <1>5 DEF Within

(* Code outside of all marks stays so where no edit takes it away.         *)
LEMMA SolidStays ==
  ASSUME NEW t, NEW batch, NEW u, Turns(t, batch, u), NEW X, NEW ms, MarksStand(t, ms, X),
         NEW N, MarksIn(N, X, batch), NEW j, Solid(t, ms, j), Missed(batch, j)
  PROVE  Solid(u, MovedMarks(ms, batch) \cup N, EndTo(batch, j))
<1>1. j \in 1 .. Len(t) /\ t[j] # WS /\ \A m \in ms : ~Within(m, j)
  BY DEF Solid
<1>2. EndTo(batch, j) \in 1 .. Len(u) /\ u[EndTo(batch, j)] = t[j]
  BY <1>1, AtomMoves DEF Turns
<1>3. ASSUME NEW x \in MovedMarks(ms, batch) PROVE ~Within(x, EndTo(batch, j))
  <2>1. PICK m \in ms : KeptBy(m, batch) /\ x = ShiftedBy(m, batch)
    BY MovedMarksAre
  <2>2. m \in MarksOver(X) /\ m.n > 0
    BY DEF MarksStand
  <2>3. Within(ShiftedBy(m, batch), EndTo(batch, j)) <=> Within(m, j)
    BY <1>1, <2>1, <2>2, WithinMoved
  <2> QED
    BY <1>1, <2>1, <2>3
<1>4. ASSUME NEW x \in N PROVE ~Within(x, EndTo(batch, j))
  BY <1>1, OutsideWritten DEF MarksIn
<1> QED
  BY <1>1, <1>2, <1>3, <1>4 DEF Solid

(* So does a mark's own code.                                              *)
LEMMA OwnStays ==
  ASSUME NEW t, NEW batch, NEW u, Turns(t, batch, u), NEW X, NEW ms, MarksStand(t, ms, X),
         NEW N, MarksIn(N, X, batch), NEW m \in ms, KeptBy(m, batch),
         NEW j, Own(t, ms, m, j), Missed(batch, j)
  PROVE  Own(u, MovedMarks(ms, batch) \cup N, ShiftedBy(m, batch), EndTo(batch, j))
<1>1. j \in 1 .. Len(t) /\ t[j] # WS /\ Within(m, j) /\ \A x \in ms : x # m => ~Within(x, j)
  BY DEF Own
<1>2. EndTo(batch, j) \in 1 .. Len(u) /\ u[EndTo(batch, j)] = t[j]
  BY <1>1, AtomMoves DEF Turns
<1>3. \A x \in ms : x \in MarksOver(X) /\ x.n > 0
  BY DEF MarksStand
<1>4. Within(ShiftedBy(m, batch), EndTo(batch, j))
  BY <1>1, <1>3, WithinMoved
<1>5. ASSUME NEW x \in MovedMarks(ms, batch), x # ShiftedBy(m, batch) PROVE ~Within(x, EndTo(batch, j))
  <2>1. PICK y \in ms : KeptBy(y, batch) /\ x = ShiftedBy(y, batch)
    BY MovedMarksAre
  <2>2. y # m
    BY <1>5, <2>1
  <2>3. Within(ShiftedBy(y, batch), EndTo(batch, j)) <=> Within(y, j)
    BY <1>1, <1>3, <2>1, WithinMoved
  <2> QED
    BY <1>1, <2>1, <2>2, <2>3
<1>6. ASSUME NEW x \in N PROVE ~Within(x, EndTo(batch, j))
  BY <1>1, OutsideWritten DEF MarksIn
<1> QED
  BY <1>1, <1>2, <1>4, <1>5, <1>6 DEF Own

(* Every mark has code that the batch does not take away, so it is not     *)
(* left empty.                                                             *)
LEMMA MarksStay ==
  ASSUME NEW t, NEW batch, NEW u, Turns(t, batch, u), NEW X, NEW ms, MarksStand(t, ms, X), MarksOwn(t, ms),
         OwnMissed(t, ms, batch), NEW N, MarksIn(N, X, batch)
  PROVE  MarksStand(u, MovedMarks(ms, batch) \cup N, X)
<1>1. /\ InLine(batch) /\ Len(t) \in Nat /\ Len(u) \in Nat /\ Len(u) = Len(t) + Growth(batch, Len(batch))
      /\ \A i \in 1 .. Len(batch) : batch[i].end <= Len(t)
  BY DEF Turns, Carries
<1>2. ASSUME NEW x \in MovedMarks(ms, batch)
      PROVE  x \in MarksOver(X) /\ x.n > 0 /\ 0 <= x.off /\ x.off + x.n <= Len(u)
  <2>1. PICK m \in ms : KeptBy(m, batch) /\ x = ShiftedBy(m, batch)
    BY MovedMarksAre
  <2>2. m \in MarksOver(X) /\ m.n > 0 /\ 0 <= m.off /\ m.off + m.n <= Len(t)
    BY DEF MarksStand
  <2>3. PICK p, q : p = m.off /\ q = m.off + m.n
    OBVIOUS
  <2>4. p \in Int /\ q \in Int /\ p < q /\ p \in 0 .. Len(t) /\ q \in 0 .. Len(t)
    BY <1>1, <2>2, <2>3 DEF MarksOver
  <2>5. /\ x \in MarksOver(X) /\ x.off = StartTo(batch, p) /\ x.off + x.n = EndTo(batch, q)
        /\ ~Rewrites(batch, p) /\ ~Rewrites(batch, q)
    BY <1>1, <2>1, <2>2, <2>3, MarkMoves
  <2>6. StartTo(batch, p) \in 0 .. Len(u)
    BY <1>1, <2>4, <2>5, OffsetInText
  <2>7. EndTo(batch, q) \in 0 .. Len(u)
    BY <1>1, <2>4, <2>5, OffsetInText
  <2>8. PICK j : j \in 1 .. Len(t) /\ Within(m, j) /\ Missed(batch, j)
    <3>1. CASE IsSpan(m)
      <4>1. PICK j : Own(t, ms, m, j)
        BY <3>1 DEF MarksOwn
      <4>2. Missed(batch, j)
        BY <2>1, <3>1, <4>1 DEF OwnMissed
      <4> QED
        BY <4>1, <4>2 DEF Own
    <3>2. CASE ~IsSpan(m)
      <4>1. p + 1 \in 1 .. Len(t) /\ Within(m, p + 1)
        BY <1>1, <2>3, <2>4 DEF Within
      <4>2. ASSUME NEW i \in 1 .. Len(batch) PROVE batch[i].end < p + 1 \/ p + 1 <= batch[i].start
        <5>1. DOMAIN batch = 1 .. Len(batch) /\ batch[i].start \in Nat /\ batch[i].end \in Nat
              /\ batch[i].start <= batch[i].end
          BY <1>1, BatchNumbers DEF InLine, LoggedEdits
        <5>2. Ahead(m, batch[i]) \/ Behind(m, batch[i]) \/ Inserts(batch[i])
          BY <2>1, <3>2, <5>1 DEF KeptBy, Inside
        <5> QED
          BY <2>3, <2>4, <5>1, <5>2 DEF Ahead, Behind, Inserts
      <4> QED
        BY <4>1, <4>2 DEF Missed
    <3> QED
      BY <3>1, <3>2
  <2>9. Within(x, EndTo(batch, j))
    BY <2>1, <2>2, <2>8, WithinMoved
  <2>10. EndTo(batch, j) \in Int
    <3>1. j \in Int
      BY <2>8
    <3> QED
      BY <1>1, <3>1, OffsetNumbers
  <2>11. x.off \in Int /\ x.n \in Int
    BY <2>5 DEF MarksOver
  <2>12. x.n > 0
    BY <2>9, <2>10, <2>11 DEF Within
  <2> QED
    BY <1>1, <2>5, <2>6, <2>7, <2>11, <2>12
<1>3. ASSUME NEW x \in N PROVE x \in MarksOver(X) /\ x.n > 0 /\ 0 <= x.off /\ x.off + x.n <= Len(u)
  <2>1. x \in MarksOver(X) /\ x.n > 0
    BY DEF MarksIn
  <2>2. PICK i \in 1 .. Len(batch) : Lands(batch, i) <= x.off /\ x.off + x.n <= Ends(batch, i)
    BY DEF MarksIn
  <2>3. /\ Lands(batch, i) \in Nat /\ Ends(batch, i) \in Nat
        /\ Lands(batch, i) <= Ends(batch, i) /\ Ends(batch, i) <= Len(u)
    BY <1>1, WrittenInText
  <2>4. x.off \in Int /\ x.n \in Int
    BY <2>1 DEF MarksOver
  <2> QED
    BY <1>1, <2>1, <2>2, <2>3, <2>4
<1> QED
  BY <1>2, <1>3 DEF MarksStand

(* Where a batch puts the starts and the ends of ranges.                   *)
GoesStart(batch, p) == IF p = NoPlace \/ Rewrites(batch, p) THEN NoPlace ELSE StartTo(batch, p)
GoesEnd(batch, p) == IF p = NoPlace \/ Rewrites(batch, p) THEN NoPlace ELSE EndTo(batch, p)

(* Offset q that the batch does not rewrite goes to p.                     *)
Follows(batch, q, p) == q \in Int /\ ~Rewrites(batch, q) /\ p \in {StartTo(batch, q), EndTo(batch, q)}

(* Where the offsets up to L are, as starts and as ends.                   *)
Onward(batch, lo, hi, from, to, L) ==
  /\ lo \in [0 .. L -> Int] /\ hi \in [0 .. L -> Int]
  /\ from = [o \in 0 .. L |-> GoesStart(batch, lo[o])]
  /\ to = [o \in 0 .. L |-> GoesEnd(batch, hi[o])]

(* The places of offset o, as a start and as an end.                       *)
Spots(lo, hi, o) == {lo[o], hi[o]} \ {NoPlace}

(* They lie in the text, outside of the marks.                             *)
OffsetsStand(t, ms, lo, hi, L) ==
  /\ lo \in [0 .. L -> Int] /\ hi \in [0 .. L -> Int]
  /\ \A o \in 0 .. L : \A p \in Spots(lo, hi, o) :
       p \in 0 .. Len(t) /\ \A m \in ms : p <= m.off \/ m.off + m.n <= p

(* They are in the order of the offsets; a start is behind what was        *)
(* inserted at its offset, an end ahead of it.                             *)
OffsetsOrdered(lo, hi, L) ==
  \A o \in 0 .. L, q \in 0 .. L : o <= q =>
    /\ lo[o] # NoPlace /\ lo[q] # NoPlace => lo[o] <= lo[q]
    /\ hi[o] # NoPlace /\ hi[q] # NoPlace => hi[o] <= hi[q]
    /\ hi[o] # NoPlace /\ lo[q] # NoPlace => hi[o] <= lo[q]

(* A spot of an offset is where a spot goes that is not rewritten.         *)
LEMMA SpotFrom ==
  ASSUME NEW batch, NEW lo, NEW hi, NEW from, NEW to, NEW L, Onward(batch, lo, hi, from, to, L),
         NEW o \in 0 .. L, NEW p \in Spots(from, to, o)
  PROVE  \E q \in Spots(lo, hi, o) : Follows(batch, q, p)
<1>1. from[o] = GoesStart(batch, lo[o]) /\ to[o] = GoesEnd(batch, hi[o]) /\ lo[o] \in Int /\ hi[o] \in Int
  BY DEF Onward
<1> QED
  BY <1>1 DEF Spots, GoesStart, GoesEnd, Follows

(* Of a start or an end that has a place.                                  *)
LEMMA PlaceFrom ==
  ASSUME NEW batch, NEW lo, NEW hi, NEW from, NEW to, NEW L, Onward(batch, lo, hi, from, to, L),
         NEW o \in 0 .. L
  PROVE  /\ from[o] # NoPlace => /\ lo[o] # NoPlace /\ ~Rewrites(batch, lo[o])
                                 /\ from[o] = StartTo(batch, lo[o]) /\ lo[o] \in Int
         /\ to[o] # NoPlace => /\ hi[o] # NoPlace /\ ~Rewrites(batch, hi[o])
                               /\ to[o] = EndTo(batch, hi[o]) /\ hi[o] \in Int
<1>1. from[o] = GoesStart(batch, lo[o]) /\ to[o] = GoesEnd(batch, hi[o]) /\ lo[o] \in Int /\ hi[o] \in Int
  BY DEF Onward
<1> QED
  BY <1>1 DEF GoesStart, GoesEnd

(* Offsets keep their order.                                               *)
LEMMA OrderStays ==
  ASSUME NEW batch, InLine(batch), NEW lo, NEW hi, NEW from, NEW to, NEW L, Onward(batch, lo, hi, from, to, L),
         OffsetsOrdered(lo, hi, L)
  PROVE  OffsetsOrdered(from, to, L)
<1>1. ASSUME NEW o \in 0 .. L, NEW q \in 0 .. L, o <= q, from[o] # NoPlace, from[q] # NoPlace
      PROVE  from[o] <= from[q]
  <2>1. PICK a, b : a = lo[o] /\ b = lo[q]
    OBVIOUS
  <2>2. /\ a # NoPlace /\ ~Rewrites(batch, a) /\ from[o] = StartTo(batch, a) /\ a \in Int
        /\ b # NoPlace /\ ~Rewrites(batch, b) /\ from[q] = StartTo(batch, b) /\ b \in Int
    BY <1>1, <2>1, PlaceFrom
  <2>3. a <= b
    BY <1>1, <2>1, <2>2 DEF OffsetsOrdered
  <2> QED
    BY <2>2, <2>3, OffsetsMove
<1>2. ASSUME NEW o \in 0 .. L, NEW q \in 0 .. L, o <= q, to[o] # NoPlace, to[q] # NoPlace
      PROVE  to[o] <= to[q]
  <2>1. PICK a, b : a = hi[o] /\ b = hi[q]
    OBVIOUS
  <2>2. /\ a # NoPlace /\ ~Rewrites(batch, a) /\ to[o] = EndTo(batch, a) /\ a \in Int
        /\ b # NoPlace /\ ~Rewrites(batch, b) /\ to[q] = EndTo(batch, b) /\ b \in Int
    BY <1>2, <2>1, PlaceFrom
  <2>3. a <= b
    BY <1>2, <2>1, <2>2 DEF OffsetsOrdered
  <2> QED
    BY <2>2, <2>3, OffsetsMove
<1>3. ASSUME NEW o \in 0 .. L, NEW q \in 0 .. L, o <= q, to[o] # NoPlace, from[q] # NoPlace
      PROVE  to[o] <= from[q]
  <2>1. PICK a, b : a = hi[o] /\ b = lo[q]
    OBVIOUS
  <2>2. /\ a # NoPlace /\ ~Rewrites(batch, a) /\ to[o] = EndTo(batch, a) /\ a \in Int
        /\ b # NoPlace /\ ~Rewrites(batch, b) /\ from[q] = StartTo(batch, b) /\ b \in Int
    BY <1>3, <2>1, PlaceFrom
  <2>3. a <= b
    BY <1>3, <2>1, <2>2 DEF OffsetsOrdered
  <2> QED
    BY <2>2, <2>3, OffsetsMove
<1> QED
  BY <1>1, <1>2, <1>3 DEF OffsetsOrdered

(* An offset beside a mark stays beside it, and beside what edits write.   *)
LEMMA OffsetBeside ==
  ASSUME NEW batch, InLine(batch), NEW q \in Int, ~Rewrites(batch, q),
         NEW p \in {StartTo(batch, q), EndTo(batch, q)}
  PROVE  /\ \A a \in Int : ~Rewrites(batch, a) /\ q <= a => p <= StartTo(batch, a)
         /\ \A a \in Int : ~Rewrites(batch, a) /\ a <= q => EndTo(batch, a) <= p
         /\ \A i \in 1 .. Len(batch) : p <= Lands(batch, i) \/ Ends(batch, i) <= p
<1>1. ASSUME NEW a \in Int, ~Rewrites(batch, a), q <= a PROVE p <= StartTo(batch, a)
  BY <1>1, OffsetsMove
<1>2. ASSUME NEW a \in Int, ~Rewrites(batch, a), a <= q PROVE EndTo(batch, a) <= p
  BY <1>2, OffsetsMove
<1>3. ASSUME NEW i \in 1 .. Len(batch) PROVE p <= Lands(batch, i) \/ Ends(batch, i) <= p
  <2>1. /\ q <= batch[i].start => EndTo(batch, q) <= Lands(batch, i)
        /\ q <= batch[i].start /\ q < batch[i].end => StartTo(batch, q) <= Lands(batch, i)
        /\ batch[i].end <= q => Ends(batch, i) <= StartTo(batch, q)
        /\ batch[i].end <= q /\ batch[i].start < q => Ends(batch, i) <= EndTo(batch, q)
    BY EditBeside
  <2>2. /\ DOMAIN batch = 1 .. Len(batch) /\ batch[i].start \in Nat /\ batch[i].end \in Nat
        /\ batch[i].start <= batch[i].end
    <3>1. LoggedEdits(batch)
      BY DEF InLine
    <3>2. DOMAIN batch = 1 .. Len(batch)
      BY <3>1 DEF LoggedEdits
    <3> QED
      BY <3>1, <3>2, BatchNumbers
  <2>3. ~(batch[i].start < q /\ q < batch[i].end)
    BY <2>2 DEF Rewrites
  <2> QED
    BY <2>1, <2>2, <2>3
<1> QED
  BY <1>1, <1>2, <1>3

(* Offsets stay in the text and out of the marks.                          *)
LEMMA OffsetsStay ==
  ASSUME NEW t, NEW batch, NEW u, Turns(t, batch, u), NEW X, NEW ms, MarksStand(t, ms, X),
         NEW N, MarksIn(N, X, batch),
         NEW lo, NEW hi, NEW from, NEW to, NEW L, Onward(batch, lo, hi, from, to, L),
         OffsetsStand(t, ms, lo, hi, L)
  PROVE  OffsetsStand(u, MovedMarks(ms, batch) \cup N, from, to, L)
<1>1. /\ InLine(batch) /\ Len(t) \in Nat /\ Len(u) \in Nat /\ Len(u) = Len(t) + Growth(batch, Len(batch))
      /\ \A i \in 1 .. Len(batch) : batch[i].end <= Len(t)
  BY DEF Turns, Carries
<1>2. from \in [0 .. L -> Int] /\ to \in [0 .. L -> Int]
  <2>1. ASSUME NEW o \in 0 .. L PROVE GoesStart(batch, lo[o]) \in Int /\ GoesEnd(batch, hi[o]) \in Int
    <3>1. PICK p, q : p = lo[o] /\ q = hi[o]
      OBVIOUS
    <3>2. p \in Int /\ q \in Int
      BY <3>1 DEF OffsetsStand
    <3>3. StartTo(batch, p) \in Int /\ EndTo(batch, q) \in Int
      BY <1>1, <3>2, OffsetNumbers
    <3> QED
      BY <3>1, <3>3 DEF GoesStart, GoesEnd, NoPlace
  <2> QED
    BY <2>1 DEF Onward
<1>3. ASSUME NEW o \in 0 .. L, NEW p \in Spots(from, to, o)
      PROVE  p \in 0 .. Len(u) /\ \A m \in MovedMarks(ms, batch) \cup N : p <= m.off \/ m.off + m.n <= p
  <2>1. PICK q \in Spots(lo, hi, o) : ~Rewrites(batch, q) /\ p \in {StartTo(batch, q), EndTo(batch, q)} /\ q \in Int
    BY SpotFrom DEF Follows
  <2>2. q \in 0 .. Len(t) /\ \A m \in ms : q <= m.off \/ m.off + m.n <= q
    BY DEF OffsetsStand
  <2>3. p \in 0 .. Len(u)
    BY <1>1, <2>1, <2>2, OffsetInText
  <2>4. ASSUME NEW x \in MovedMarks(ms, batch) PROVE p <= x.off \/ x.off + x.n <= p
    <3>1. PICK m \in ms : KeptBy(m, batch) /\ x = ShiftedBy(m, batch)
      BY MovedMarksAre
    <3>2. m \in MarksOver(X) /\ m.n > 0
      BY DEF MarksStand
    <3>3. PICK a, b : a = m.off /\ b = m.off + m.n
      OBVIOUS
    <3>4. a \in Int /\ b \in Int /\ (q <= a \/ b <= q)
      BY <2>2, <3>2, <3>3 DEF MarksOver
    <3>5. x.off = StartTo(batch, a) /\ x.off + x.n = EndTo(batch, b) /\ ~Rewrites(batch, a) /\ ~Rewrites(batch, b)
      BY <1>1, <3>1, <3>2, <3>3, MarkMoves
    <3>6. q <= a => p <= StartTo(batch, a)
      BY <1>1, <2>1, <3>4, <3>5, OffsetBeside
    <3>7. b <= q => EndTo(batch, b) <= p
      BY <1>1, <2>1, <3>4, <3>5, OffsetBeside
    <3> QED
      BY <3>4, <3>5, <3>6, <3>7
  <2>5. ASSUME NEW x \in N PROVE p <= x.off \/ x.off + x.n <= p
    <3>1. PICK i \in 1 .. Len(batch) : Lands(batch, i) <= x.off /\ x.off + x.n <= Ends(batch, i)
      BY DEF MarksIn
    <3>2. x.off \in Int /\ x.n \in Int
      BY DEF MarksIn, MarksOver
    <3>3. Lands(batch, i) \in Int /\ Ends(batch, i) \in Int
      BY <1>1, BatchNumbers DEF InLine
    <3>4. p <= Lands(batch, i) \/ Ends(batch, i) <= p
      BY <1>1, <2>1, OffsetBeside
    <3>5. p \in Int
      BY <1>1, <2>3
    <3> QED
      BY <3>1, <3>2, <3>3, <3>4, <3>5
  <2> QED
    BY <2>3, <2>4, <2>5
<1> QED
  BY <1>2, <1>3 DEF OffsetsStand

(* Marks keep code of their own.                                           *)
LEMMA OwnsStay ==
  ASSUME NEW t, NEW batch, NEW u, Turns(t, batch, u), NEW X, NEW ms, MarksStand(t, ms, X), MarksOwn(t, ms),
         OwnMissed(t, ms, batch), NEW N, MarksIn(N, X, batch), NEW all, all = MovedMarks(ms, batch) \cup N,
         \A m \in N : IsSpan(m) => \E j : Own(u, all, m, j)
  PROVE  MarksOwn(u, all)
<1>1. ASSUME NEW x \in MovedMarks(ms, batch), IsSpan(x) PROVE \E j : Own(u, all, x, j)
  <2>1. PICK m \in ms : KeptBy(m, batch) /\ x = ShiftedBy(m, batch)
    BY MovedMarksAre
  <2>2. m \in MarksOver(X) /\ m.n > 0
    BY DEF MarksStand
  <2>3. x.kind = m.kind
    BY <2>1, <2>2, MarkMoves DEF Turns
  <2>4. IsSpan(m)
    BY <1>1, <2>3 DEF IsSpan
  <2>5. PICK j : Own(t, ms, m, j)
    BY <2>4 DEF MarksOwn
  <2>6. Missed(batch, j)
    BY <2>1, <2>4, <2>5 DEF OwnMissed
  <2>7. Own(u, MovedMarks(ms, batch) \cup N, ShiftedBy(m, batch), EndTo(batch, j))
    BY <2>1, <2>5, <2>6, OwnStays
  <2> QED
    BY <2>1, <2>7
<1> QED
  BY <1>1 DEF MarksOwn

(* What stands between two spots stands between them after the batch.      *)
LEMMA BetweenStays ==
  ASSUME NEW t, NEW batch, NEW u, Turns(t, batch, u), NEW j \in 1 .. Len(t), Missed(batch, j),
         NEW p, NEW x, Follows(batch, p, x)
  PROVE  /\ p < j <=> x < EndTo(batch, j)
         /\ j <= p <=> EndTo(batch, j) <= x
<1>1. p \in Int /\ ~Rewrites(batch, p) /\ x \in {StartTo(batch, p), EndTo(batch, p)}
  BY DEF Follows
<1>2. /\ p < j => StartTo(batch, p) < EndTo(batch, j) /\ EndTo(batch, p) < EndTo(batch, j)
      /\ j <= p => EndTo(batch, j) <= StartTo(batch, p) /\ EndTo(batch, j) <= EndTo(batch, p)
  BY <1>1, AtomKeepsSide DEF Turns
<1>3. StartTo(batch, p) \in Int /\ EndTo(batch, p) \in Int /\ j \in Int
  BY <1>1, OffsetNumbers DEF Turns
<1>4. EndTo(batch, j) \in Int
  BY <1>3, OffsetNumbers DEF Turns
<1> QED
  BY <1>1, <1>2, <1>3, <1>4

-----------------------------------------------------------------------------
(* A file in which the code that the next steps look for stands.           *)

(* Offsets a and b have code between them outside the lines that go, or    *)
(* between them on the line of c.                                          *)
Outer(f, a, b) == HasCode(f, (a .. b - 1) \ UNION {Going(f.comps[c]) : c \in DOMAIN f.comps})
Inner(f, c, a, b) == a .. b - 1 \subseteq Going(f.comps[c]) /\ HasCode(f, a .. b - 1)

(* Atom j is where the line of c now is.                                   *)
InPart(f, lo, hi, c, j) ==
  LET d == f.comps[c] IN
  /\ lo[d.start] # NoPlace /\ hi[GoesTo(d)] # NoPlace
  /\ lo[d.start] < j /\ j <= hi[GoesTo(d)]

(* Where the original has code outside of the lines that go, the text has  *)
(* code outside of all marks and of the lines not yet finished.            *)
AnchorsOutside(f, t, ms, lo, hi, fin) ==
  \A a \in 0 .. Len(f.text), b \in 0 .. Len(f.text) : a < b /\ Outer(f, a, b) =>
    \A x \in Spots(lo, hi, a), y \in Spots(lo, hi, b) :
      \E j : /\ Solid(t, ms, j) /\ x < j /\ j <= y
             /\ \A c \in DOMAIN f.comps \ fin : ~InPart(f, lo, hi, c, j)

(* Where it has code in the line of a handle, the text has code outside of *)
(* all marks, unless that was all the code of a line that is finished.     *)
AnchorsInside(f, t, ms, lo, hi, fin) ==
  \A c \in DOMAIN f.comps : \A a \in 0 .. Len(f.text), b \in 0 .. Len(f.text) :
    a < b /\ Inner(f, c, a, b) /\ (c \in fin => HasCode(f, Going(f.comps[c]) \ (a .. b - 1))) =>
      \A x \in Spots(lo, hi, a), y \in Spots(lo, hi, b) : \E j : Solid(t, ms, j) /\ x < j /\ j <= y

(* The marks and the offsets.                                              *)
PartsStand(f, t, ms, lo, hi) ==
  /\ MarksStand(t, ms, DOMAIN f.comps) /\ MarksOwn(t, ms)
  /\ OffsetsStand(t, ms, lo, hi, Len(f.text)) /\ OffsetsOrdered(lo, hi, Len(f.text))

(* All that the edits of the next steps need, with the lines of fin        *)
(* finished.                                                               *)
Standing(f, t, ms, lo, hi, fin) ==
  /\ PartsStand(f, t, ms, lo, hi)
  /\ AnchorsOutside(f, t, ms, lo, hi, fin) /\ AnchorsInside(f, t, ms, lo, hi, fin)

(* Batch, with marks N on what it writes, makes u of t.                    *)
Passes(f, t, ms, lo, hi, batch, N, u, from, to) ==
  /\ Turns(t, batch, u) /\ MarksIn(N, DOMAIN f.comps, batch)
  /\ Onward(batch, lo, hi, from, to, Len(f.text))
  /\ \A m \in N : IsSpan(m) => \E j : Own(u, MovedMarks(ms, batch) \cup N, m, j)

(* The lines of the components are in the text.                            *)
LinesIn(f) ==
  /\ Len(f.text) \in Nat
  /\ \A c \in DOMAIN f.comps :
       /\ f.comps[c].start \in 0 .. Len(f.text) /\ GoesTo(f.comps[c]) \in 0 .. Len(f.text)
       /\ f.comps[c].end \in Nat /\ GoesTo(f.comps[c]) <= f.comps[c].end
       /\ f.comps[c].start < GoesTo(f.comps[c]) /\ HasCode(f, Going(f.comps[c]))
  /\ \A c \in DOMAIN f.comps, e \in DOMAIN f.comps :
       c # e => f.comps[c].end <= f.comps[e].start \/ f.comps[e].end <= f.comps[c].start

(* Marks and offsets stand after the batch.                                *)
LEMMA PartsStay ==
  ASSUME NEW f, NEW t, NEW ms, NEW lo, NEW hi, PartsStand(f, t, ms, lo, hi),
         NEW batch, NEW N, NEW u, NEW from, NEW to, Passes(f, t, ms, lo, hi, batch, N, u, from, to),
         OwnMissed(t, ms, batch)
  PROVE  PartsStand(f, u, MovedMarks(ms, batch) \cup N, from, to)
<1>1. PICK X, L : X = DOMAIN f.comps /\ L = Len(f.text)
  OBVIOUS
<1>2. /\ MarksStand(t, ms, X) /\ MarksOwn(t, ms) /\ OffsetsStand(t, ms, lo, hi, L) /\ OffsetsOrdered(lo, hi, L)
  BY <1>1 DEF PartsStand
<1>3. /\ Turns(t, batch, u) /\ MarksIn(N, X, batch) /\ Onward(batch, lo, hi, from, to, L)
      /\ \A m \in N : IsSpan(m) => \E j : Own(u, MovedMarks(ms, batch) \cup N, m, j)
  BY <1>1 DEF Passes
<1>4. MarksStand(u, MovedMarks(ms, batch) \cup N, X)
  BY <1>2, <1>3, MarksStay
<1>5. MarksOwn(u, MovedMarks(ms, batch) \cup N)
  BY <1>2, <1>3, OwnsStay
<1>6. OffsetsStand(u, MovedMarks(ms, batch) \cup N, from, to, L)
  BY <1>2, <1>3, OffsetsStay
<1>7. OffsetsOrdered(from, to, L)
  BY <1>2, <1>3, OrderStays DEF Turns
<1> QED
  BY <1>1, <1>4, <1>5, <1>6, <1>7 DEF PartsStand

(* Code between two spots that is not taken away stands between them.      *)
LEMMA AnchorStays ==
  ASSUME NEW f, NEW t, NEW ms, NEW lo, NEW hi, PartsStand(f, t, ms, lo, hi),
         NEW batch, NEW N, NEW u, NEW from, NEW to, Passes(f, t, ms, lo, hi, batch, N, u, from, to),
         NEW x, NEW y, NEW x2, NEW y2, Follows(batch, x, x2), Follows(batch, y, y2),
         NEW j, Solid(t, ms, j), x < j, j <= y, Missed(batch, j)
  PROVE  /\ Solid(u, MovedMarks(ms, batch) \cup N, EndTo(batch, j))
         /\ x2 < EndTo(batch, j) /\ EndTo(batch, j) <= y2
<1>1. Turns(t, batch, u) /\ MarksIn(N, DOMAIN f.comps, batch) /\ MarksStand(t, ms, DOMAIN f.comps)
  BY DEF Passes, PartsStand
<1>2. j \in 1 .. Len(t)
  BY DEF Solid
<1>3. Solid(u, MovedMarks(ms, batch) \cup N, EndTo(batch, j))
  BY <1>1, SolidStays
<1>4. x2 < EndTo(batch, j)
  BY <1>1, <1>2, BetweenStays
<1>5. EndTo(batch, j) <= y2
  BY <1>1, <1>2, BetweenStays
<1> QED
  BY <1>3, <1>4, <1>5

(* An atom that stays is only where a line is if it was there before.      *)
LEMMA PartStays ==
  ASSUME NEW f, LinesIn(f), NEW t, NEW ms, NEW lo, NEW hi,
         NEW batch, NEW N, NEW u, NEW from, NEW to, Passes(f, t, ms, lo, hi, batch, N, u, from, to),
         NEW j \in 1 .. Len(t), Missed(batch, j), NEW c \in DOMAIN f.comps,
         InPart(f, from, to, c, EndTo(batch, j))
  PROVE  InPart(f, lo, hi, c, j)
<1>1. PICK a, b, L : a = f.comps[c].start /\ b = GoesTo(f.comps[c]) /\ L = Len(f.text)
  OBVIOUS
<1>2. a \in 0 .. L /\ b \in 0 .. L
  BY <1>1 DEF LinesIn
<1>3. Turns(t, batch, u) /\ Onward(batch, lo, hi, from, to, L)
  BY <1>1 DEF Passes
<1>4. from[a] # NoPlace /\ to[b] # NoPlace /\ from[a] < EndTo(batch, j) /\ EndTo(batch, j) <= to[b]
  BY <1>1 DEF InPart
<1>5. PICK p, q : p = lo[a] /\ q = hi[b]
  OBVIOUS
<1>6. p # NoPlace /\ ~Rewrites(batch, p) /\ from[a] = StartTo(batch, p) /\ p \in Int
  BY <1>2, <1>3, <1>4, <1>5, PlaceFrom
<1>7. q # NoPlace /\ ~Rewrites(batch, q) /\ to[b] = EndTo(batch, q) /\ q \in Int
  BY <1>2, <1>3, <1>4, <1>5, PlaceFrom
<1>8. p < j
  BY <1>3, <1>4, <1>6, BetweenStays DEF Follows
<1>9. j <= q
  BY <1>3, <1>4, <1>7, BetweenStays DEF Follows
<1> QED
  BY <1>1, <1>5, <1>6, <1>7, <1>8, <1>9 DEF InPart

(* A batch that takes no code away leaves all that stands.                 *)
LEMMA NoCodeTaken ==
  ASSUME NEW f, LinesIn(f), NEW t, NEW ms, NEW lo, NEW hi, NEW fin, Standing(f, t, ms, lo, hi, fin),
         NEW batch, NEW N, NEW u, NEW from, NEW to, Passes(f, t, ms, lo, hi, batch, N, u, from, to),
         \A j \in 1 .. Len(t) : t[j] # WS => Missed(batch, j)
  PROVE  Standing(f, u, MovedMarks(ms, batch) \cup N, from, to, fin)
<1>1. PICK L, all : L = Len(f.text) /\ all = MovedMarks(ms, batch) \cup N
  OBVIOUS
<1>2. PartsStand(f, t, ms, lo, hi) /\ AnchorsOutside(f, t, ms, lo, hi, fin) /\ AnchorsInside(f, t, ms, lo, hi, fin)
  BY DEF Standing
<1>3. Onward(batch, lo, hi, from, to, L)
  BY <1>1 DEF Passes
<1>4. PartsStand(f, u, all, from, to)
  <2>1. OwnMissed(t, ms, batch)
    BY DEF OwnMissed, Own
  <2> QED
    BY <1>1, <1>2, <2>1, PartsStay
<1>5. AnchorsOutside(f, u, all, from, to, fin)
  <2>1. ASSUME NEW a \in 0 .. L, NEW b \in 0 .. L, a < b, Outer(f, a, b),
               NEW x2 \in Spots(from, to, a), NEW y2 \in Spots(from, to, b)
        PROVE  \E j : /\ Solid(u, all, j) /\ x2 < j /\ j <= y2
                      /\ \A c \in DOMAIN f.comps \ fin : ~InPart(f, from, to, c, j)
    <3>1. PICK x \in Spots(lo, hi, a) : Follows(batch, x, x2)
      BY <1>3, SpotFrom
    <3>2. PICK y \in Spots(lo, hi, b) : Follows(batch, y, y2)
      BY <1>3, SpotFrom
    <3>3. PICK j : /\ Solid(t, ms, j) /\ x < j /\ j <= y
                   /\ \A c \in DOMAIN f.comps \ fin : ~InPart(f, lo, hi, c, j)
      BY <1>1, <1>2, <2>1 DEF AnchorsOutside
    <3>4. j \in 1 .. Len(t) /\ Missed(batch, j)
      BY <3>3 DEF Solid
    <3>5. /\ Solid(u, MovedMarks(ms, batch) \cup N, EndTo(batch, j))
          /\ x2 < EndTo(batch, j) /\ EndTo(batch, j) <= y2
      <4>1. PartsStand(f, t, ms, lo, hi) /\ Missed(batch, j)
        BY <1>2, <3>4
      <4> QED
        BY ONLY <4>1, <3>1, <3>2, <3>3, Passes(f, t, ms, lo, hi, batch, N, u, from, to), AnchorStays
    <3>6. Solid(u, all, EndTo(batch, j))
      BY ONLY Zenon, <1>1, <3>5
    <3>7. \A c \in DOMAIN f.comps \ fin : ~InPart(f, from, to, c, EndTo(batch, j))
      BY <3>3, <3>4, PartStays
    <3> QED
      BY <3>5, <3>6, <3>7
  <2> QED
    BY <1>1, <2>1 DEF AnchorsOutside
<1>6. AnchorsInside(f, u, all, from, to, fin)
  <2>1. ASSUME NEW c \in DOMAIN f.comps, NEW a \in 0 .. L, NEW b \in 0 .. L, a < b, Inner(f, c, a, b),
               c \in fin => HasCode(f, Going(f.comps[c]) \ (a .. b - 1)),
               NEW x2 \in Spots(from, to, a), NEW y2 \in Spots(from, to, b)
        PROVE  \E j : Solid(u, all, j) /\ x2 < j /\ j <= y2
    <3>1. PICK x \in Spots(lo, hi, a) : Follows(batch, x, x2)
      BY <1>3, SpotFrom
    <3>2. PICK y \in Spots(lo, hi, b) : Follows(batch, y, y2)
      BY <1>3, SpotFrom
    <3>3. PICK j : Solid(t, ms, j) /\ x < j /\ j <= y
      BY <1>1, <1>2, <2>1 DEF AnchorsInside
    <3>4. j \in 1 .. Len(t) /\ Missed(batch, j)
      BY <3>3 DEF Solid
    <3>5. /\ Solid(u, MovedMarks(ms, batch) \cup N, EndTo(batch, j))
          /\ x2 < EndTo(batch, j) /\ EndTo(batch, j) <= y2
      <4>1. PartsStand(f, t, ms, lo, hi) /\ Missed(batch, j)
        BY <1>2, <3>4
      <4> QED
        BY ONLY <4>1, <3>1, <3>2, <3>3, Passes(f, t, ms, lo, hi, batch, N, u, from, to), AnchorStays
    <3>6. Solid(u, all, EndTo(batch, j))
      BY ONLY Zenon, <1>1, <3>5
    <3> QED
      BY <3>5, <3>6
  <2> QED
    BY <1>1, <2>1 DEF AnchorsInside
<1> QED
  BY <1>1, <1>4, <1>5, <1>6 DEF Standing

(* What an edit beside a mark writes is outside of the mark.               *)
LEMMA WrittenOutside ==
  ASSUME NEW batch, InLine(batch), NEW X, NEW m \in MarksOver(X), m.n > 0, KeptBy(m, batch),
         NEW i \in 1 .. Len(batch), batch[i].end <= m.off \/ m.off + m.n <= batch[i].start,
         NEW h \in Int, Lands(batch, i) < h, h <= Ends(batch, i)
  PROVE  ~Within(ShiftedBy(m, batch), h)
<1>1. PICK x, p, q : x = ShiftedBy(m, batch) /\ p = m.off /\ q = m.off + m.n
  OBVIOUS
<1>2. p \in Int /\ q \in Int
  BY <1>1 DEF MarksOver
<1>3. x.off = StartTo(batch, p) /\ x.off + x.n = EndTo(batch, q) /\ ~Rewrites(batch, p) /\ ~Rewrites(batch, q)
  BY <1>1, MarkMoves
<1>4. batch[i].end <= p => Ends(batch, i) <= StartTo(batch, p)
  BY <1>2, <1>3, EditBeside
<1>5. q <= batch[i].start => EndTo(batch, q) <= Lands(batch, i)
  BY <1>2, <1>3, EditBeside
<1>6. StartTo(batch, p) \in Int /\ EndTo(batch, q) \in Int
  BY <1>2, OffsetNumbers
<1>7. Lands(batch, i) \in Int /\ Ends(batch, i) \in Int
  BY BatchNumbers DEF InLine
<1>8. batch[i].end <= p \/ q <= batch[i].start
  BY <1>1
<1>9. Within(x, h) <=> StartTo(batch, p) < h /\ h <= EndTo(batch, q)
  BY <1>3 DEF Within
<1> QED
  BY ONLY <1>1, <1>4, <1>5, <1>6, <1>7, <1>8, <1>9, h \in Int, Lands(batch, i) < h, h <= Ends(batch, i)

(* An edit between two spots, or at one, is no edit inside of a mark.      *)
LEMMA NotInside ==
  ASSUME NEW t, Len(t) \in Nat, NEW X, NEW ms, MarksStand(t, ms, X), NEW lo, NEW hi, NEW L, OffsetsStand(t, ms, lo, hi, L),
         NEW a \in 0 .. L, NEW b \in 0 .. L, NEW e, e.start \in Spots(lo, hi, a), e.end \in Spots(lo, hi, b),
         e.start <= e.end, NEW m \in ms, Ahead(m, e) \/ Behind(m, e) \/ Inside(m, e)
  PROVE  e.end <= m.off \/ m.off + m.n <= e.start
<1>1. PICK s, d, p, q : s = e.start /\ d = e.end /\ p = m.off /\ q = m.off + m.n
  OBVIOUS
<1>2. /\ s \in Int /\ (s <= p \/ q <= s) /\ d \in Int /\ (d <= p \/ q <= d)
  BY <1>1 DEF OffsetsStand
<1>3. p \in Int /\ q \in Int /\ p < q /\ m.n \in Int
  BY <1>1 DEF MarksStand, MarksOver
<1>4. Ahead(m, e) => d <= p
  BY <1>1, <1>2 DEF Ahead, Inserts
<1>5. Behind(m, e) => q <= s
  BY <1>1 DEF Behind
<1>6. Inside(m, e) => s = d \/ (p <= s /\ d <= q /\ d - s < m.n)
  BY <1>1 DEF Inside, Inserts
<1>7. s <= d /\ q = p + m.n
  BY <1>1
<1>8. d <= p \/ q <= s
  BY ONLY <1>2, <1>3, <1>4, <1>5, <1>6, <1>7, Ahead(m, e) \/ Behind(m, e) \/ Inside(m, e)
<1> QED
  BY <1>1, <1>8

-----------------------------------------------------------------------------
(* The batch replaces what is between two spots.                           *)
OneRange(f, lo, hi, batch) ==
  /\ Len(batch) = 1 /\ batch[1].start < batch[1].end
  /\ \E a \in 0 .. Len(f.text), b \in 0 .. Len(f.text) :
       batch[1].start \in Spots(lo, hi, a) /\ batch[1].end \in Spots(lo, hi, b)

(* It leaves the own code of the spans that it keeps.                      *)
LEMMA RangeMissesOwn ==
  ASSUME NEW f, NEW t, NEW ms, NEW lo, NEW hi, PartsStand(f, t, ms, lo, hi),
         NEW batch, NEW u, Turns(t, batch, u), OneRange(f, lo, hi, batch)
  PROVE  OwnMissed(t, ms, batch)
<1>1. ASSUME NEW m \in ms, KeptBy(m, batch), NEW j, Own(t, ms, m, j) PROVE Missed(batch, j)
  <2>1. PICK e, L : e = batch[1] /\ L = Len(f.text)
    OBVIOUS
  <2>2. PICK a \in 0 .. L, b \in 0 .. L : e.start \in Spots(lo, hi, a) /\ e.end \in Spots(lo, hi, b)
    BY <2>1 DEF OneRange
  <2>3. /\ InLine(batch) /\ Len(t) \in Nat /\ Len(batch) = 1 /\ DOMAIN batch = 1 .. Len(batch)
        /\ e.start < e.end /\ e.start \in Nat /\ e.end \in Nat
    <3>1. InLine(batch) /\ Len(t) \in Nat /\ Len(batch) = 1 /\ e.start < e.end
      BY <2>1 DEF Turns, OneRange
    <3>2. LoggedEdits(batch) /\ 1 \in 1 .. Len(batch)
      BY <3>1 DEF InLine
    <3> QED
      BY <2>1, <3>1, <3>2, BatchNumbers DEF LoggedEdits
  <2>4. MarksStand(t, ms, DOMAIN f.comps) /\ OffsetsStand(t, ms, lo, hi, L)
    BY <2>1 DEF PartsStand
  <2>5. Ahead(m, e) \/ Behind(m, e) \/ Inside(m, e)
    BY <1>1, <2>1, <2>3 DEF KeptBy
  <2>6. e.end <= m.off \/ m.off + m.n <= e.start
    BY <2>2, <2>3, <2>4, <2>5, NotInside
  <2>7. m.off < j /\ j <= m.off + m.n /\ j \in 1 .. Len(t)
    BY <1>1 DEF Own, Within
  <2>8. m.off \in Int /\ m.n \in Int
    BY <2>4 DEF MarksStand, MarksOver
  <2>9. e.end < j \/ j <= e.start
    BY <2>3, <2>6, <2>7, <2>8
  <2> QED
    BY <2>1, <2>3, <2>9 DEF Missed
<1> QED
  BY <1>1 DEF OwnMissed

(* Spots on the two sides of an atom it takes are on the two sides of what *)
(* it writes.                                                              *)
LEMMA RangeBetween ==
  ASSUME NEW t, NEW batch, NEW u, Turns(t, batch, u), NEW i \in 1 .. Len(batch),
         NEW h \in Int, Lands(batch, i) < h, h <= Ends(batch, i),
         NEW j \in Int, batch[i].start < j, j <= batch[i].end
  PROVE  /\ \A x, x2 : Follows(batch, x, x2) => (x < j <=> x2 < h)
         /\ \A y, y2 : Follows(batch, y, y2) => (j <= y <=> h <= y2)
<1>1. /\ DOMAIN batch = 1 .. Len(batch) /\ InLine(batch)
      /\ batch[i].start \in Nat /\ batch[i].end \in Nat /\ Lands(batch, i) \in Int /\ Ends(batch, i) \in Int
  <2>1. InLine(batch) /\ LoggedEdits(batch)
    BY DEF Turns, InLine
  <2>2. DOMAIN batch = 1 .. Len(batch)
    BY <2>1 DEF LoggedEdits
  <2> QED
    BY <2>1, <2>2, BatchNumbers
<1>2. ASSUME NEW x, NEW x2, Follows(batch, x, x2)
      PROVE  (x < j <=> x2 < h) /\ (j <= x <=> h <= x2)
  <2>1. x \in Int /\ ~Rewrites(batch, x) /\ x2 \in {StartTo(batch, x), EndTo(batch, x)}
    BY <1>2 DEF Follows
  <2>2. x <= batch[i].start \/ batch[i].end <= x
    BY <1>1, <2>1 DEF Rewrites
  <2>3. /\ x <= batch[i].start => EndTo(batch, x) <= Lands(batch, i)
        /\ x <= batch[i].start /\ x < batch[i].end => StartTo(batch, x) <= Lands(batch, i)
        /\ batch[i].end <= x => Ends(batch, i) <= StartTo(batch, x)
        /\ batch[i].end <= x /\ batch[i].start < x => Ends(batch, i) <= EndTo(batch, x)
    BY <1>1, <2>1, EditBeside
  <2>4. StartTo(batch, x) \in Int /\ EndTo(batch, x) \in Int
    BY <1>1, <2>1, OffsetNumbers
  <2> QED
    BY ONLY <1>1, <2>1, <2>2, <2>3, <2>4, h \in Int, Lands(batch, i) < h, h <= Ends(batch, i),
            j \in Int, batch[i].start < j, j <= batch[i].end
<1> QED
  BY <1>2

(* Where the lines are.                                                    *)
LEMMA RangeInPart ==
  ASSUME NEW f, LinesIn(f), NEW t, NEW lo, NEW hi, NEW batch, NEW u, Turns(t, batch, u), NEW from, NEW to,
         Onward(batch, lo, hi, from, to, Len(f.text)), NEW i \in 1 .. Len(batch),
         NEW h \in Int, Lands(batch, i) < h, h <= Ends(batch, i),
         NEW j \in Int, batch[i].start < j, j <= batch[i].end,
         NEW c \in DOMAIN f.comps, InPart(f, from, to, c, h)
  PROVE  InPart(f, lo, hi, c, j)
<1>1. PICK a, b, L : a = f.comps[c].start /\ b = GoesTo(f.comps[c]) /\ L = Len(f.text)
  OBVIOUS
<1>2. a \in 0 .. L /\ b \in 0 .. L
  BY <1>1 DEF LinesIn
<1>3. from[a] # NoPlace /\ to[b] # NoPlace /\ from[a] < h /\ h <= to[b]
  BY <1>1 DEF InPart
<1>4. PICK p, q : p = lo[a] /\ q = hi[b]
  OBVIOUS
<1>5. p # NoPlace /\ ~Rewrites(batch, p) /\ from[a] = StartTo(batch, p) /\ p \in Int
  BY <1>1, <1>2, <1>3, <1>4, PlaceFrom
<1>6. q # NoPlace /\ ~Rewrites(batch, q) /\ to[b] = EndTo(batch, q) /\ q \in Int
  BY <1>1, <1>2, <1>3, <1>4, PlaceFrom
<1>7. Follows(batch, p, from[a]) /\ Follows(batch, q, to[b])
  BY <1>5, <1>6 DEF Follows
<1>8. p < j /\ j <= q
  BY <1>3, <1>7, RangeBetween
<1> QED
  BY <1>1, <1>4, <1>5, <1>6, <1>8 DEF InPart

(* A range that is replaced by code leaves all that stands.                *)
LEMMA RangeReplaced ==
  ASSUME NEW f, LinesIn(f), NEW t, NEW ms, NEW lo, NEW hi, NEW fin, Standing(f, t, ms, lo, hi, fin),
         NEW batch, NEW N, NEW u, NEW from, NEW to, Passes(f, t, ms, lo, hi, batch, N, u, from, to),
         OneRange(f, lo, hi, batch), NEW h, Solid(u, MovedMarks(ms, batch) \cup N, h),
         Lands(batch, 1) < h, h <= Ends(batch, 1)
  PROVE  Standing(f, u, MovedMarks(ms, batch) \cup N, from, to, fin)
<1>1. PICK L, all : L = Len(f.text) /\ all = MovedMarks(ms, batch) \cup N
  OBVIOUS
<1>2. PartsStand(f, t, ms, lo, hi) /\ AnchorsOutside(f, t, ms, lo, hi, fin) /\ AnchorsInside(f, t, ms, lo, hi, fin)
  BY DEF Standing
<1>3. Onward(batch, lo, hi, from, to, L) /\ Turns(t, batch, u)
  BY <1>1 DEF Passes
<1>4. PartsStand(f, u, all, from, to)
  <2>1. OwnMissed(t, ms, batch)
    BY <1>2, <1>3, RangeMissesOwn
  <2> QED
    BY <1>1, <1>2, <2>1, PartsStay
<1>5. /\ h \in Int /\ 1 \in 1 .. Len(batch) /\ Len(batch) = 1 /\ Solid(u, all, h)
      /\ batch[1].start \in Nat /\ batch[1].end \in Nat
  <2>1. h \in Int /\ 1 \in 1 .. Len(batch) /\ Len(batch) = 1
    BY DEF Solid, OneRange
  <2>2. Solid(u, all, h)
    BY Zenon, <1>1
  <2> QED
    BY <1>3, <2>1, <2>2, BatchNumbers DEF Turns, InLine
<1>6. ASSUME NEW j, j \in Int, ~Missed(batch, j) PROVE batch[1].start < j /\ j <= batch[1].end
  BY <1>5, <1>6 DEF Missed
<1>7. AnchorsOutside(f, u, all, from, to, fin)
  <2>1. ASSUME NEW a \in 0 .. L, NEW b \in 0 .. L, a < b, Outer(f, a, b),
               NEW x2 \in Spots(from, to, a), NEW y2 \in Spots(from, to, b)
        PROVE  \E j : /\ Solid(u, all, j) /\ x2 < j /\ j <= y2
                      /\ \A c \in DOMAIN f.comps \ fin : ~InPart(f, from, to, c, j)
    <3>1. PICK x \in Spots(lo, hi, a) : Follows(batch, x, x2)
      BY <1>3, SpotFrom
    <3>2. PICK y \in Spots(lo, hi, b) : Follows(batch, y, y2)
      BY <1>3, SpotFrom
    <3>3. PICK j : /\ Solid(t, ms, j) /\ x < j /\ j <= y
                   /\ \A c \in DOMAIN f.comps \ fin : ~InPart(f, lo, hi, c, j)
      BY <1>1, <1>2, <2>1 DEF AnchorsOutside
    <3>4. j \in 1 .. Len(t) /\ j \in Int
      BY <3>3 DEF Solid
    <3>5. CASE Missed(batch, j)
      <4>1. /\ Solid(u, MovedMarks(ms, batch) \cup N, EndTo(batch, j))
            /\ x2 < EndTo(batch, j) /\ EndTo(batch, j) <= y2
        <5>1. PartsStand(f, t, ms, lo, hi)
          BY <1>2
        <5> QED
          BY ONLY <5>1, <3>1, <3>2, <3>3, <3>5, Passes(f, t, ms, lo, hi, batch, N, u, from, to), AnchorStays
      <4>2. Solid(u, all, EndTo(batch, j))
        BY ONLY Zenon, <1>1, <4>1
      <4>3. \A c \in DOMAIN f.comps \ fin : ~InPart(f, from, to, c, EndTo(batch, j))
        BY <3>3, <3>4, <3>5, PartStays
      <4> QED
        BY <4>1, <4>2, <4>3
    <3>6. CASE ~Missed(batch, j)
      <4>1. batch[1].start < j /\ j <= batch[1].end
        BY <1>6, <3>4, <3>6
      <4>2. x2 < h /\ h <= y2
        BY <1>3, <1>5, <3>1, <3>2, <3>3, <3>4, <4>1, RangeBetween
      <4>3. \A c \in DOMAIN f.comps \ fin : ~InPart(f, from, to, c, h)
        BY <1>1, <1>3, <1>5, <3>3, <3>4, <4>1, RangeInPart
      <4> QED
        BY <1>5, <4>2, <4>3
    <3> QED
      BY <3>5, <3>6
  <2> QED
    BY <1>1, <2>1 DEF AnchorsOutside
<1>8. AnchorsInside(f, u, all, from, to, fin)
  <2>1. ASSUME NEW c \in DOMAIN f.comps, NEW a \in 0 .. L, NEW b \in 0 .. L, a < b, Inner(f, c, a, b),
               c \in fin => HasCode(f, Going(f.comps[c]) \ (a .. b - 1)),
               NEW x2 \in Spots(from, to, a), NEW y2 \in Spots(from, to, b)
        PROVE  \E j : Solid(u, all, j) /\ x2 < j /\ j <= y2
    <3>1. PICK x \in Spots(lo, hi, a) : Follows(batch, x, x2)
      BY <1>3, SpotFrom
    <3>2. PICK y \in Spots(lo, hi, b) : Follows(batch, y, y2)
      BY <1>3, SpotFrom
    <3>3. PICK j : Solid(t, ms, j) /\ x < j /\ j <= y
      BY <1>1, <1>2, <2>1 DEF AnchorsInside
    <3>4. j \in 1 .. Len(t) /\ j \in Int
      BY <3>3 DEF Solid
    <3>5. CASE Missed(batch, j)
      <4>1. /\ Solid(u, MovedMarks(ms, batch) \cup N, EndTo(batch, j))
            /\ x2 < EndTo(batch, j) /\ EndTo(batch, j) <= y2
        <5>1. PartsStand(f, t, ms, lo, hi)
          BY <1>2
        <5> QED
          BY ONLY <5>1, <3>1, <3>2, <3>3, <3>5, Passes(f, t, ms, lo, hi, batch, N, u, from, to), AnchorStays
      <4>2. Solid(u, all, EndTo(batch, j))
        BY ONLY Zenon, <1>1, <4>1
      <4> QED
        BY <4>1, <4>2
    <3>6. CASE ~Missed(batch, j)
      <4>1. batch[1].start < j /\ j <= batch[1].end
        BY <1>6, <3>4, <3>6
      <4>2. x2 < h /\ h <= y2
        BY <1>3, <1>5, <3>1, <3>2, <3>3, <3>4, <4>1, RangeBetween
      <4> QED
        BY <1>5, <4>2
    <3> QED
      BY <3>5, <3>6
  <2> QED
    BY <1>1, <2>1 DEF AnchorsInside
<1> QED
  BY <1>1, <1>4, <1>7, <1>8 DEF Standing

(* The batch takes what goes of the line of c, and marks as a whole.       *)
Finishes(f, ms, lo, hi, c, batch) ==
  /\ lo[f.comps[c].start] # NoPlace /\ hi[GoesTo(f.comps[c])] # NoPlace
  /\ \E i \in 1 .. Len(batch) : /\ batch[i].start = lo[f.comps[c].start]
                                /\ batch[i].end = hi[GoesTo(f.comps[c])]
  /\ \A i \in 1 .. Len(batch) :
       \/ batch[i].start = lo[f.comps[c].start] /\ batch[i].end = hi[GoesTo(f.comps[c])]
       \/ \E m \in ms : batch[i].start = m.off /\ batch[i].end = m.off + m.n

(* A mark that is kept keeps its own code.                                 *)
LEMMA FinishMissesOwn ==
  ASSUME NEW f, LinesIn(f), NEW t, NEW ms, NEW lo, NEW hi, PartsStand(f, t, ms, lo, hi),
         NEW batch, NEW u, Turns(t, batch, u), NEW c \in DOMAIN f.comps, Finishes(f, ms, lo, hi, c, batch)
  PROVE  OwnMissed(t, ms, batch)
<1>1. ASSUME NEW m \in ms, KeptBy(m, batch), NEW j, Own(t, ms, m, j), NEW i \in 1 .. Len(batch)
      PROVE  batch[i].end < j \/ j <= batch[i].start
  <2>1. PICK e, L, a, b : e = batch[i] /\ L = Len(f.text) /\ a = f.comps[c].start /\ b = GoesTo(f.comps[c])
    OBVIOUS
  <2>2. /\ Len(t) \in Nat /\ DOMAIN batch = 1 .. Len(batch) /\ e.start <= e.end /\ e.start \in Nat /\ e.end \in Nat
    <3>1. InLine(batch) /\ Len(t) \in Nat /\ LoggedEdits(batch)
      BY DEF Turns, InLine
    <3>2. DOMAIN batch = 1 .. Len(batch)
      BY <3>1 DEF LoggedEdits
    <3> QED
      BY <2>1, <3>1, <3>2, BatchNumbers
  <2>3. MarksStand(t, ms, DOMAIN f.comps) /\ OffsetsStand(t, ms, lo, hi, L)
    BY <2>1 DEF PartsStand
  <2>4. Ahead(m, e) \/ Behind(m, e) \/ Inside(m, e)
    BY <1>1, <2>1, <2>2 DEF KeptBy
  <2>5. m.off < j /\ j <= m.off + m.n /\ j \in 1 .. Len(t)
    BY <1>1 DEF Own, Within
  <2>6. \A x \in ms : x.off \in Int /\ x.n \in Int /\ x.n > 0
    BY <2>3 DEF MarksStand, MarksOver
  <2>7. CASE e.start = lo[a] /\ e.end = hi[b]
    <3>1. a \in 0 .. L /\ b \in 0 .. L
      BY <2>1 DEF LinesIn
    <3>2. e.start \in Spots(lo, hi, a) /\ e.end \in Spots(lo, hi, b)
      BY <2>1, <2>7 DEF Finishes, Spots
    <3>3. e.end <= m.off \/ m.off + m.n <= e.start
      BY <2>2, <2>3, <2>4, <3>1, <3>2, NotInside
    <3> QED
      BY <2>1, <2>2, <2>5, <2>6, <3>3
  <2>8. ASSUME NEW x \in ms, e.start = x.off, e.end = x.off + x.n PROVE e.end < j \/ j <= e.start
    <3>1. CASE x = m
      BY <2>4, <2>6, <2>8, <3>1 DEF Ahead, Behind, Inside, Inserts
    <3>2. CASE x # m
      <4>1. ~Within(x, j)
        BY <1>1, <3>2 DEF Own
      <4> QED
        BY <2>2, <2>5, <2>8, <4>1 DEF Within
    <3> QED
      BY <3>1, <3>2
  <2>9. (e.start = lo[a] /\ e.end = hi[b]) \/ \E x \in ms : e.start = x.off /\ e.end = x.off + x.n
    BY <2>1 DEF Finishes
  <2> QED
    BY <2>1, <2>7, <2>8, <2>9
<1> QED
  BY <1>1 DEF OwnMissed, Missed

(* Code outside of the line and of all marks is missed.                    *)
LEMMA FinishMisses ==
  ASSUME NEW f, NEW t, NEW ms, NEW lo, NEW hi, NEW batch, NEW u, Turns(t, batch, u), NEW X, MarksStand(t, ms, X),
         NEW c \in DOMAIN f.comps, Finishes(f, ms, lo, hi, c, batch), NEW j, Solid(t, ms, j),
         j <= lo[f.comps[c].start] \/ hi[GoesTo(f.comps[c])] < j
  PROVE  Missed(batch, j)
<1>1. ASSUME NEW i \in 1 .. Len(batch) PROVE batch[i].end < j \/ j <= batch[i].start
  <2>1. j \in Int /\ \A m \in ms : ~Within(m, j) /\ m.off \in Int /\ m.n \in Int
    BY DEF Solid, MarksStand, MarksOver
  <2>2. CASE batch[i].start = lo[f.comps[c].start] /\ batch[i].end = hi[GoesTo(f.comps[c])]
    BY <2>2
  <2>3. ASSUME NEW m \in ms, batch[i].start = m.off, batch[i].end = m.off + m.n
        PROVE  batch[i].end < j \/ j <= batch[i].start
    BY <2>1, <2>3 DEF Within
  <2> QED
    BY <2>2, <2>3 DEF Finishes
<1> QED
  BY <1>1 DEF Missed

(* Offsets that have code of the line on both sides are rewritten.         *)
LEMMA FinishRewrites ==
  ASSUME NEW f, LinesIn(f), NEW t, NEW ms, NEW lo, NEW hi, NEW fin, AnchorsInside(f, t, ms, lo, hi, fin),
         NEW batch, NEW u, Turns(t, batch, u), NEW c \in DOMAIN f.comps \ fin, Finishes(f, ms, lo, hi, c, batch),
         NEW a \in 0 .. Len(f.text), NEW x \in Spots(lo, hi, a), x \in Int,
         NEW p \in Going(f.comps[c]), p < a, f.text[p + 1] # WS,
         NEW q \in Going(f.comps[c]), a <= q, f.text[q + 1] # WS
  PROVE  Rewrites(batch, x)
<1>1. PICK L, s, d : L = Len(f.text) /\ s = f.comps[c].start /\ d = GoesTo(f.comps[c])
  OBVIOUS
<1>2. s \in 0 .. L /\ d \in 0 .. L /\ L \in Nat /\ a \in 0 .. L /\ Going(f.comps[c]) = s .. d - 1
  BY <1>1 DEF LinesIn, Going
<1>3. s <= p /\ p < a /\ a <= q /\ q < d /\ p \in Int /\ q \in Int
  BY <1>2
<1>4. Inner(f, c, s, a)
  <2>1. s .. a - 1 \subseteq Going(f.comps[c]) /\ p \in s .. a - 1
    BY <1>2, <1>3
  <2> QED
    BY <2>1 DEF Inner, HasCode
<1>5. Inner(f, c, a, d)
  <2>1. a .. d - 1 \subseteq Going(f.comps[c]) /\ q \in a .. d - 1
    BY <1>2, <1>3
  <2> QED
    BY <2>1 DEF Inner, HasCode
<1>6. lo[s] # NoPlace /\ hi[d] # NoPlace
  BY <1>1 DEF Finishes
<1>7. lo[s] \in Spots(lo, hi, s) /\ hi[d] \in Spots(lo, hi, d)
  BY <1>6 DEF Spots
<1>8. s < a /\ a < d /\ c \notin fin /\ c \in DOMAIN f.comps
  BY <1>2, <1>3
<1>9. PICK j : Solid(t, ms, j) /\ lo[s] < j /\ j <= x
  BY <1>1, <1>2, <1>4, <1>7, <1>8 DEF AnchorsInside
<1>10. PICK k : Solid(t, ms, k) /\ x < k /\ k <= hi[d]
  BY <1>1, <1>2, <1>5, <1>7, <1>8 DEF AnchorsInside
<1>11. PICK i \in 1 .. Len(batch) : batch[i].start = lo[s] /\ batch[i].end = hi[d]
  BY <1>1 DEF Finishes
<1>12. /\ DOMAIN batch = 1 .. Len(batch) /\ batch[i].start \in Nat /\ batch[i].end \in Nat
  <2>1. InLine(batch) /\ LoggedEdits(batch)
    BY DEF Turns, InLine
  <2>2. DOMAIN batch = 1 .. Len(batch)
    BY <2>1 DEF LoggedEdits
  <2> QED
    BY <2>1, <2>2, BatchNumbers
<1>13. j \in Int /\ k \in Int
  BY <1>9, <1>10 DEF Solid
<1>14. batch[i].start < x /\ x < batch[i].end
  BY ONLY <1>9, <1>10, <1>11, <1>12, <1>13, x \in Int
<1> QED
  BY <1>12, <1>14 DEF Rewrites

(* The line of a handle and marks go, and all else that stands does.       *)
LEMMA LineFinished ==
  ASSUME NEW f, LinesIn(f), NEW t, NEW ms, NEW lo, NEW hi, NEW fin, Standing(f, t, ms, lo, hi, fin),
         NEW batch, NEW N, NEW u, NEW from, NEW to, Passes(f, t, ms, lo, hi, batch, N, u, from, to),
         NEW c \in DOMAIN f.comps \ fin, Finishes(f, ms, lo, hi, c, batch)
  PROVE  Standing(f, u, MovedMarks(ms, batch) \cup N, from, to, fin \cup {c})
<1>1. PICK L, all, s, d : /\ L = Len(f.text) /\ all = MovedMarks(ms, batch) \cup N
                          /\ s = f.comps[c].start /\ d = GoesTo(f.comps[c])
  OBVIOUS
<1>2. PartsStand(f, t, ms, lo, hi) /\ AnchorsOutside(f, t, ms, lo, hi, fin) /\ AnchorsInside(f, t, ms, lo, hi, fin)
  BY DEF Standing
<1>3. Onward(batch, lo, hi, from, to, L) /\ Turns(t, batch, u) /\ c \in DOMAIN f.comps /\ c \notin fin
  BY <1>1 DEF Passes
<1>4. PartsStand(f, u, all, from, to)
  <2>1. OwnMissed(t, ms, batch)
    BY <1>2, <1>3, FinishMissesOwn
  <2> QED
    BY <1>1, <1>2, <2>1, PartsStay
<1>5. /\ MarksStand(t, ms, DOMAIN f.comps) /\ OffsetsOrdered(lo, hi, L) /\ lo \in [0 .. L -> Int] /\ hi \in [0 .. L -> Int]
      /\ s \in 0 .. L /\ d \in 0 .. L /\ L \in Nat /\ lo[s] # NoPlace /\ hi[d] # NoPlace /\ lo[s] \in Int /\ hi[d] \in Int
  <2>1. MarksStand(t, ms, DOMAIN f.comps) /\ OffsetsOrdered(lo, hi, L) /\ lo \in [0 .. L -> Int] /\ hi \in [0 .. L -> Int]
    BY <1>1, <1>2 DEF PartsStand, OffsetsStand
  <2>2. s \in 0 .. L /\ d \in 0 .. L /\ L \in Nat
    BY <1>1, <1>3 DEF LinesIn
  <2>3. lo[s] # NoPlace /\ hi[d] # NoPlace
    BY <1>1 DEF Finishes
  <2> QED
    BY <2>1, <2>2, <2>3
<1>6. AnchorsOutside(f, u, all, from, to, fin \cup {c})
  <2>1. ASSUME NEW a \in 0 .. L, NEW b \in 0 .. L, a < b, Outer(f, a, b),
               NEW x2 \in Spots(from, to, a), NEW y2 \in Spots(from, to, b)
        PROVE  \E j : /\ Solid(u, all, j) /\ x2 < j /\ j <= y2
                      /\ \A e \in DOMAIN f.comps \ (fin \cup {c}) : ~InPart(f, from, to, e, j)
    <3>1. PICK x \in Spots(lo, hi, a) : Follows(batch, x, x2)
      BY <1>3, SpotFrom
    <3>2. PICK y \in Spots(lo, hi, b) : Follows(batch, y, y2)
      BY <1>3, SpotFrom
    <3>3. PICK j : /\ Solid(t, ms, j) /\ x < j /\ j <= y
                   /\ \A e \in DOMAIN f.comps \ fin : ~InPart(f, lo, hi, e, j)
      BY <1>1, <1>2, <2>1 DEF AnchorsOutside
    <3>4. j \in 1 .. Len(t) /\ j \in Int
      BY <3>3 DEF Solid
    <3>5. j <= lo[s] \/ hi[d] < j
      <4>1. ~InPart(f, lo, hi, c, j)
        BY <3>3
      <4> QED
        BY <1>1, <1>5, <3>4, <4>1 DEF InPart
    <3>6. Missed(batch, j)
      BY <1>1, <1>3, <1>5, <3>3, <3>5, FinishMisses
    <3>7. /\ Solid(u, MovedMarks(ms, batch) \cup N, EndTo(batch, j))
          /\ x2 < EndTo(batch, j) /\ EndTo(batch, j) <= y2
      <4>1. PartsStand(f, t, ms, lo, hi)
        BY <1>2
      <4> QED
        BY ONLY <4>1, <3>1, <3>2, <3>3, <3>6, Passes(f, t, ms, lo, hi, batch, N, u, from, to), AnchorStays
    <3>8. Solid(u, all, EndTo(batch, j))
      BY ONLY Zenon, <1>1, <3>7
    <3>9. \A e \in DOMAIN f.comps \ (fin \cup {c}) : ~InPart(f, from, to, e, EndTo(batch, j))
      BY <3>3, <3>4, <3>6, PartStays
    <3> QED
      BY <3>7, <3>8, <3>9
  <2> QED
    BY <1>1, <2>1 DEF AnchorsOutside
<1>7. AnchorsInside(f, u, all, from, to, fin \cup {c})
  <2>1. ASSUME NEW e \in DOMAIN f.comps, NEW a \in 0 .. L, NEW b \in 0 .. L, a < b, Inner(f, e, a, b),
               e \in fin \cup {c} => HasCode(f, Going(f.comps[e]) \ (a .. b - 1)),
               NEW x2 \in Spots(from, to, a), NEW y2 \in Spots(from, to, b)
        PROVE  \E j : Solid(u, all, j) /\ x2 < j /\ j <= y2
    <3>1. PICK x \in Spots(lo, hi, a) : Follows(batch, x, x2)
      BY <1>3, SpotFrom
    <3>2. PICK y \in Spots(lo, hi, b) : Follows(batch, y, y2)
      BY <1>3, SpotFrom
    <3>3. x \in Int /\ ~Rewrites(batch, x) /\ y \in Int /\ ~Rewrites(batch, y)
      BY <3>1, <3>2 DEF Follows
    <3>4. a .. b - 1 \subseteq Going(f.comps[e]) /\ HasCode(f, a .. b - 1) /\ a \in Int /\ b \in Int
      BY <2>1 DEF Inner
    <3>5. ASSUME e = c PROVE FALSE
      <4>1. PICK p \in Going(f.comps[c]) \ (a .. b - 1) : f.text[p + 1] # WS
        BY <2>1, <3>5 DEF HasCode
      <4>2. PICK q \in a .. b - 1 : f.text[q + 1] # WS
        BY <3>4 DEF HasCode
      <4>3. p \in Going(f.comps[c]) /\ q \in Going(f.comps[c]) /\ p \in Int /\ q \in Int /\ a <= q /\ q < b
            /\ (p < a \/ b <= p)
        BY <1>1, <1>5, <3>4, <3>5, <4>1, <4>2 DEF Going
      <4>4. CASE p < a
        <5>1. Rewrites(batch, x)
          BY <1>1, <1>2, <1>3, <3>3, <4>1, <4>2, <4>3, <4>4, FinishRewrites
        <5> QED
          BY <3>3, <5>1
      <4>5. CASE b <= p
        <5>1. Rewrites(batch, y)
          BY <1>1, <1>2, <1>3, <3>3, <4>1, <4>2, <4>3, <4>5, FinishRewrites
        <5> QED
          BY <3>3, <5>1
      <4> QED
        BY <4>3, <4>4, <4>5
    <3>6. e \in fin => HasCode(f, Going(f.comps[e]) \ (a .. b - 1))
      BY <2>1
    <3>7. PICK j : Solid(t, ms, j) /\ x < j /\ j <= y
      BY <1>1, <1>2, <2>1, <3>6 DEF AnchorsInside
    <3>8. j \in 1 .. Len(t) /\ j \in Int
      BY <3>7 DEF Solid
    <3>9. j <= lo[s] \/ hi[d] < j
      <4>1. PICK s2, d2 : s2 = f.comps[e].start /\ d2 = GoesTo(f.comps[e])
        OBVIOUS
      <4>2. s2 \in Nat /\ d2 \in Nat /\ (d2 <= s \/ d <= s2)
        <5>1. PICK p, q : p = f.comps[e].end /\ q = f.comps[c].end
          OBVIOUS
        <5>2. /\ p \in Nat /\ q \in Nat /\ d2 <= p /\ d <= q /\ s2 \in Nat /\ d2 \in Nat
              /\ s \in Nat /\ d \in Nat
          BY <1>1, <1>3, <1>5, <4>1, <5>1 DEF LinesIn
        <5>3. p <= s \/ q <= s2
          BY <1>1, <1>3, <3>5, <4>1, <5>1 DEF LinesIn
        <5> QED
          BY ONLY <5>2, <5>3
      <4>3. s2 <= a /\ b <= d2
        <5>1. Going(f.comps[e]) = s2 .. d2 - 1
          BY <4>1 DEF Going
        <5>2. a \in a .. b - 1 /\ b - 1 \in a .. b - 1
          BY <2>1, <3>4
        <5> QED
          BY <3>4, <4>2, <5>1, <5>2
      <4>4. CASE d2 <= s
        <5>1. b <= s
          BY <1>5, <4>2, <4>3, <4>4
        <5>2. y <= lo[s]
          <6>1. y \in {lo[b], hi[b]} /\ y # NoPlace
            BY DEF Spots
          <6> QED
            BY <1>5, <5>1, <6>1 DEF OffsetsOrdered
        <5> QED
          BY <1>5, <3>3, <3>7, <3>8, <5>2
      <4>5. CASE d <= s2
        <5>1. d <= a
          BY <1>5, <4>2, <4>3, <4>5
        <5>2. hi[d] <= x
          <6>1. x \in {lo[a], hi[a]} /\ x # NoPlace
            BY DEF Spots
          <6> QED
            BY <1>5, <5>1, <6>1 DEF OffsetsOrdered
        <5> QED
          BY <1>5, <3>3, <3>7, <3>8, <5>2
      <4> QED
        BY <4>2, <4>4, <4>5
    <3>10. Missed(batch, j)
      BY <1>1, <1>3, <1>5, <3>7, <3>9, FinishMisses
    <3>11. /\ Solid(u, MovedMarks(ms, batch) \cup N, EndTo(batch, j))
           /\ x2 < EndTo(batch, j) /\ EndTo(batch, j) <= y2
      <4>1. PartsStand(f, t, ms, lo, hi)
        BY <1>2
      <4> QED
        BY ONLY <4>1, <3>1, <3>2, <3>7, <3>10, Passes(f, t, ms, lo, hi, batch, N, u, from, to), AnchorStays
    <3>12. Solid(u, all, EndTo(batch, j))
      BY ONLY Zenon, <1>1, <3>11
    <3> QED
      BY <3>11, <3>12
  <2> QED
    BY <1>1, <2>1 DEF AnchorsInside
<1> QED
  BY <1>1, <1>4, <1>6, <1>7 DEF Standing

-----------------------------------------------------------------------------
(* The marks of a list of edits.                                           *)

(* They are in the texts of their edits.                                   *)
MarksFit(its) ==
  \A i \in 1 .. Len(its) :
    /\ IsFiniteSet(its[i].marks)
    /\ \A m \in its[i].marks : m.off \in Nat /\ m.n \in Nat /\ m.off + m.n <= Len(its[i].text)

(* They are finitely many.                                                 *)
LEMMA NewMarksFinite ==
  ASSUME NEW its, Len(its) \in Nat, DOMAIN its = 1 .. Len(its), MarksFit(its)
  PROVE  IsFiniteSet(NewMarks(its))
<1> DEFINE At(i) == its[i].start + Growth(Logged(its), i - 1)
           Of(i) == {[m EXCEPT !.off = @ + At(i)] : m \in its[i].marks}
           all == [i \in DOMAIN its |-> Of(i)]
<1>1. ASSUME NEW i \in DOMAIN its PROVE IsFiniteSet(Of(i))
  <2>1. IsFiniteSet(its[i].marks)
    BY DEF MarksFit
  <2>2. PICK S, a : S = its[i].marks /\ a = At(i)
    OBVIOUS
  <2>3. PICK g : g = [m \in S |-> [m EXCEPT !.off = @ + a]]
    OBVIOUS
  <2>4. Of(i) = {g[m] : m \in S}
    BY <2>2, <2>3
  <2>5. IsFiniteSet({g[m] : m \in S})
    BY <2>1, <2>2, FiniteImage
  <2> QED
    BY Zenon, <2>4, <2>5
<1>2. IsFiniteSet(DOMAIN its)
  <2>1. 1 \in Int /\ Len(its) \in Int
    OBVIOUS
  <2> QED
    BY <2>1, FS_Interval
<1>3. NewMarks(its) = UNION {Of(i) : i \in DOMAIN its}
  BY DEF NewMarks
<1> HIDE DEF Of
<1>4. {Of(i) : i \in DOMAIN its} = {all[i] : i \in DOMAIN its}
  OBVIOUS
<1> HIDE DEF all
<1>5. IsFiniteSet({all[i] : i \in DOMAIN its})
  BY <1>2, FiniteImage
<1>6. \A T \in {Of(i) : i \in DOMAIN its} : IsFiniteSet(T)
  BY <1>1
<1>7. IsFiniteSet(UNION {Of(i) : i \in DOMAIN its})
  <2>1. PICK U : U = {Of(i) : i \in DOMAIN its}
    OBVIOUS
  <2>2. IsFiniteSet(U) /\ \A T \in U : IsFiniteSet(T)
    BY <1>4, <1>5, <1>6, <2>1
  <2> QED
    BY <2>1, <2>2, FS_UNION
<1> QED
  BY Zenon, <1>3, <1>7

(* So are the marks that a batch keeps.                                    *)
LEMMA MovedMarksFinite ==
  ASSUME NEW ms, IsFiniteSet(ms), NEW batch
  PROVE  IsFiniteSet(MovedMarks(ms, batch))
<1>1. PICK S : S = {x \in ms : KeptBy(x, batch)}
  OBVIOUS
<1>2. IsFiniteSet(S)
  BY <1>1, FS_Subset
<1>3. PICK g : g = [m \in S |-> ShiftedBy(m, batch)]
  OBVIOUS
<1>4. MovedMarks(ms, batch) = {g[m] : m \in S}
  BY <1>1, <1>3, MovedMarksAre
<1> QED
  BY <1>2, <1>4, FiniteImage

-----------------------------------------------------------------------------
(* The simulation of a file.                                               *)

(* Where the offsets of the file are.                                      *)
StartsAt(f, l) == [o \in 0 .. Len(f.text) |-> Cur(l, o, TRUE)]
EndsAt(f, l) == [o \in 0 .. Len(f.text) |-> Cur(l, o, FALSE)]

(* The next batch moves them on.                                           *)
LEMMA OffsetsOnward ==
  ASSUME NEW f, Len(f.text) \in Nat, NEW l, NEW B, l \in Seq(B), \A i \in 1 .. Len(l) : LoggedEdits(l[i]),
         NEW batch, LoggedEdits(batch)
  PROVE  Onward(batch, StartsAt(f, l), EndsAt(f, l), StartsAt(f, Append(l, batch)), EndsAt(f, Append(l, batch)),
                Len(f.text))
<1>1. PICK L, yes, no : L = Len(f.text) /\ yes = TRUE /\ no = FALSE
  BY Zenon
<1>2. PICK lo, hi, from, to : /\ lo = StartsAt(f, l) /\ hi = EndsAt(f, l)
                              /\ from = StartsAt(f, Append(l, batch)) /\ to = EndsAt(f, Append(l, batch))
  OBVIOUS
<1>3. /\ lo = [o \in 0 .. L |-> Cur(l, o, yes)] /\ hi = [o \in 0 .. L |-> Cur(l, o, no)]
      /\ from = [o \in 0 .. L |-> Cur(Append(l, batch), o, yes)]
      /\ to = [o \in 0 .. L |-> Cur(Append(l, batch), o, no)]
  BY Zenon, <1>1, <1>2 DEF StartsAt, EndsAt
<1>4. ASSUME NEW o \in 0 .. L, NEW after
      PROVE  /\ Cur(l, o, after) \in Int
             /\ Cur(Append(l, batch), o, after) = Goes(batch, Cur(l, o, after), after)
  <2>1. o \in Int
    BY <1>1
  <2> QED
    BY <2>1, CurAppend
<1>5. /\ \A p : Goes(batch, p, yes) = GoesStart(batch, p)
      /\ \A p : Goes(batch, p, no) = GoesEnd(batch, p)
  BY Zenon, <1>1 DEF Goes, GoesStart, GoesEnd, StartTo, EndTo
<1>6. lo \in [0 .. L -> Int] /\ hi \in [0 .. L -> Int]
  BY <1>3, <1>4
<1>7. from = [o \in 0 .. L |-> GoesStart(batch, lo[o])]
  <2>1. \A o \in 0 .. L : lo[o] = Cur(l, o, yes)
    BY <1>3
  <2>2. \A o \in 0 .. L : Cur(Append(l, batch), o, yes) = GoesStart(batch, lo[o])
    BY <1>4, <1>5, <2>1
  <2> QED
    BY <1>3, <2>2
<1>8. to = [o \in 0 .. L |-> GoesEnd(batch, hi[o])]
  <2>1. \A o \in 0 .. L : hi[o] = Cur(l, o, no)
    BY <1>3
  <2>2. \A o \in 0 .. L : Cur(Append(l, batch), o, no) = GoesEnd(batch, hi[o])
    BY <1>4, <1>5, <2>1
  <2> QED
    BY <1>3, <2>2
<1>9. Onward(batch, lo, hi, from, to, L)
  BY <1>6, <1>7, <1>8 DEF Onward
<1> QED
  BY Zenon, <1>1, <1>2, <1>9

(* Every atom of the file and of what the steps write.                     *)
AtomsOf(f) ==
  ToSet(f.text) \cup {NL, WS}
  \cup ({"name", "New", "lookup", "keep", "call", "create"} \X (DOMAIN f.comps \cup DOMAIN f.sites))

(* What an edit leaves in the log.                                         *)
LogEntry == [start : Nat, end : Nat, n : Nat]

(* Text t of file f with log l and marks ms, as the simulation has it when *)
(* the lines of fin are finished.                                          *)
Simulated(f, t, l, ms, fin) ==
  /\ t \in Seq(AtomsOf(f)) /\ IsFiniteSet(ms)
  /\ l \in Seq(Seq(LogEntry)) /\ \A i \in 1 .. Len(l) : LoggedEdits(l[i])
  /\ Standing(f, t, ms, StartsAt(f, l), EndsAt(f, l), fin)

(* What its, made in text t, leads to.                                     *)
LogAfter(l, its) == Append(l, Logged(its))

(* The edits its pass on what stands.                                      *)
PassesOn(f, t, l, ms, its) ==
  Passes(f, t, ms, StartsAt(f, l), EndsAt(f, l), Logged(its), NewMarks(its), ApplyText(t, its),
         StartsAt(f, LogAfter(l, its)), EndsAt(f, LogAfter(l, its)))

(* Edits of the text are a batch that makes the next one.                  *)
LEMMA EditsTurn ==
  ASSUME NEW S, NEW t \in Seq(S), NEW its, EditsIn(S, Len(t), its)
  PROVE  /\ Turns(t, Logged(its), ApplyText(t, its)) /\ LoggedEdits(Logged(its))
         /\ Logged(its) \in Seq(LogEntry) /\ ApplyText(t, its) \in Seq(S)
<1>1. PICK batch, u : batch = Logged(its) /\ u = ApplyText(t, its)
  OBVIOUS
<1>2. Len(t) \in Nat
  OBVIOUS
<1>3. /\ InLine(batch) /\ LoggedEdits(batch) /\ Len(batch) = Len(its)
      /\ \A i \in 1 .. Len(its) : batch[i].start = its[i].start /\ batch[i].end = its[i].end
  <2>1. PICK len : len = Len(t)
    OBVIOUS
  <2>2. len \in Nat /\ EditsIn(S, len, its)
    BY <1>2, <2>1
  <2>3. /\ InLine(Logged(its)) /\ LoggedEdits(Logged(its)) /\ Len(Logged(its)) = Len(its)
        /\ \A i \in 1 .. Len(its) : Logged(its)[i].start = its[i].start /\ Logged(its)[i].end = its[i].end
    BY ONLY <2>2, LoggedInLine
  <2> QED
    BY ONLY Zenon, <1>1, <2>3
<1>4. u \in Seq(S) /\ Carries(t, batch, u)
  BY <1>1, ApplyCarries
<1>5. \A i \in 1 .. Len(its) : its[i].end <= Len(t)
  BY <1>2, EditsNumbers
<1>6. Turns(t, batch, u)
  BY <1>2, <1>3, <1>4, <1>5 DEF Turns
<1>7. Logged(its) \in Seq(LogEntry)
  <2>1. PICK n : n = Len(its) /\ n \in Nat /\ DOMAIN its = 1 .. n
    BY DEF EditsIn
  <2>2. \A i \in 1 .. n : its[i].start \in Nat /\ its[i].end \in Nat /\ Len(its[i].text) \in Nat
    BY <2>1 DEF EditsIn, IsEdit
  <2>3. Logged(its) \in [1 .. n -> LogEntry]
    BY <2>1, <2>2 DEF Logged, LogEntry
  <2> QED
    BY <2>1, <2>3
<1> QED
  BY <1>1, <1>3, <1>4, <1>6, <1>7

(* They pass on what stands, given their marks fit.                        *)
LEMMA EditsPass ==
  ASSUME NEW f, Len(f.text) \in Nat, NEW t, NEW l, NEW ms, NEW fin, Simulated(f, t, l, ms, fin),
         NEW its, EditsIn(AtomsOf(f), Len(t), its), MarksIn(NewMarks(its), DOMAIN f.comps, Logged(its)),
         \A m \in NewMarks(its) : IsSpan(m) =>
           \E j : Own(ApplyText(t, its), MovedMarks(ms, Logged(its)) \cup NewMarks(its), m, j)
  PROVE  PassesOn(f, t, l, ms, its)
<1>1. /\ t \in Seq(AtomsOf(f)) /\ l \in Seq(Seq(LogEntry)) /\ \A i \in 1 .. Len(l) : LoggedEdits(l[i])
  BY DEF Simulated
<1>2. Turns(t, Logged(its), ApplyText(t, its)) /\ LoggedEdits(Logged(its))
  BY <1>1, EditsTurn
<1>3. Onward(Logged(its), StartsAt(f, l), EndsAt(f, l), StartsAt(f, Append(l, Logged(its))),
             EndsAt(f, Append(l, Logged(its))), Len(f.text))
  BY <1>1, <1>2, OffsetsOnward
<1> QED
  BY Zenon, <1>2, <1>3 DEF PassesOn, Passes, LogAfter

(* The file is simulated after them when it stands.                        *)
LEMMA SimulatedAfter ==
  ASSUME NEW f, NEW t, NEW l, NEW ms, NEW fin, Simulated(f, t, l, ms, fin), NEW more,
         NEW its, EditsIn(AtomsOf(f), Len(t), its), MarksFit(its),
         Standing(f, ApplyText(t, its), MovedMarks(ms, Logged(its)) \cup NewMarks(its),
                  StartsAt(f, LogAfter(l, its)), EndsAt(f, LogAfter(l, its)), more)
  PROVE  Simulated(f, ApplyText(t, its), LogAfter(l, its), MarksAfter(ms, its), more)
<1>1. /\ t \in Seq(AtomsOf(f)) /\ l \in Seq(Seq(LogEntry)) /\ IsFiniteSet(ms)
      /\ \A i \in 1 .. Len(l) : LoggedEdits(l[i])
  BY DEF Simulated
<1>2. /\ LoggedEdits(Logged(its)) /\ Logged(its) \in Seq(LogEntry) /\ ApplyText(t, its) \in Seq(AtomsOf(f))
  BY <1>1, EditsTurn
<1>3. IsFiniteSet(MarksAfter(ms, its))
  <2>1. Len(its) \in Nat /\ DOMAIN its = 1 .. Len(its)
    BY DEF EditsIn
  <2>2. IsFiniteSet(MovedMarks(ms, Logged(its))) /\ IsFiniteSet(NewMarks(its))
    BY <1>1, <2>1, MovedMarksFinite, NewMarksFinite
  <2> QED
    BY <2>2, FS_Union DEF MarksAfter
<1>4. PICK m : m = LogAfter(l, its)
  OBVIOUS
<1>5. m \in Seq(Seq(LogEntry)) /\ \A i \in 1 .. Len(m) : LoggedEdits(m[i])
  <2>1. PICK b : b = Logged(its) /\ b \in Seq(LogEntry) /\ LoggedEdits(b)
    BY <1>2
  <2>2. m = Append(l, b)
    BY Zenon, <1>4, <2>1 DEF LogAfter
  <2> QED
    BY <1>1, <2>1, <2>2
<1>6. Standing(f, ApplyText(t, its), MarksAfter(ms, its), StartsAt(f, m), EndsAt(f, m), more)
  BY Zenon, <1>4 DEF MarksAfter
<1>7. Simulated(f, ApplyText(t, its), m, MarksAfter(ms, its), more)
  BY <1>2, <1>3, <1>5, <1>6 DEF Simulated
<1> QED
  BY Zenon, <1>4, <1>7

(* The lines and the code of a layout.                                     *)
LEMMA LayoutLines ==
  ASSUME NEW f \in Layouts
  PROVE  LinesIn(f) /\ f.text \in Seq(AtomsOf(f)) /\ Len(f.text) \in Nat
<1>1. f.text \in Seq(ToSet(f.text)) /\ Len(f.text) \in Nat
  BY EditLogAssumption DEF LayoutsFit
<1>2. f.text \in Seq(AtomsOf(f))
  BY <1>1 DEF AtomsOf
<1>3. ASSUME NEW c \in DOMAIN f.comps
      PROVE  /\ f.comps[c].start \in 0 .. Len(f.text) /\ GoesTo(f.comps[c]) \in 0 .. Len(f.text)
             /\ f.comps[c].end \in Nat /\ GoesTo(f.comps[c]) <= f.comps[c].end
             /\ f.comps[c].start < GoesTo(f.comps[c]) /\ HasCode(f, Going(f.comps[c]))
  <2>1. PICK d : d = f.comps[c]
    OBVIOUS
  <2>2. /\ d.start \in Nat /\ d.end \in Nat /\ d.start + 1 < d.end /\ d.end <= Len(f.text)
        /\ HasCode(f, Going(d))
    BY <2>1, EditLogAssumption DEF LayoutsFit
  <2>3. GoesTo(d) = d.end - 1 \/ GoesTo(d) = d.end
    BY DEF GoesTo
  <2>4. d.start \in 0 .. Len(f.text) /\ GoesTo(d) \in 0 .. Len(f.text) /\ GoesTo(d) <= d.end /\ d.start < GoesTo(d)
    BY <1>1, <2>2, <2>3
  <2> QED
    BY <2>1, <2>2, <2>4
<1>4. \A c \in DOMAIN f.comps, e \in DOMAIN f.comps :
        c # e => f.comps[c].end <= f.comps[e].start \/ f.comps[e].end <= f.comps[c].start
  BY EditLogAssumption DEF LayoutsFit
<1> QED
  BY <1>1, <1>2, <1>3, <1>4 DEF LinesIn

(* The file as loaded.                                                     *)
LEMMA LayoutStands ==
  ASSUME NEW f \in Layouts
  PROVE  Simulated(f, f.text, << >>, {}, {})
<1>1. LinesIn(f) /\ f.text \in Seq(AtomsOf(f)) /\ Len(f.text) \in Nat
  BY LayoutLines
<1>2. PICK none, L, lo, hi, t, bare : /\ none = << >> /\ L = Len(f.text) /\ lo = StartsAt(f, none)
                                      /\ hi = EndsAt(f, none) /\ t = f.text /\ bare = {}
  OBVIOUS
<1>3. lo = [o \in 0 .. L |-> o] /\ hi = [o \in 0 .. L |-> o]
  <2>1. ASSUME NEW o \in 0 .. L, NEW after PROVE Cur(none, o, after) = o
    <3>1. o \in Int
      BY <1>1, <1>2
    <3>2. Cur(<< >>, o, after) = o
      BY <3>1, CurNone
    <3> QED
      BY Zenon, <1>2, <3>2
  <2>2. PICK yes, no : yes = TRUE /\ no = FALSE
    BY Zenon
  <2>3. lo = [o \in 0 .. L |-> Cur(none, o, yes)] /\ hi = [o \in 0 .. L |-> Cur(none, o, no)]
    BY Zenon, <1>2, <2>2 DEF StartsAt, EndsAt
  <2> QED
    BY <2>1, <2>3
<1>4. lo \in [0 .. L -> Int] /\ hi \in [0 .. L -> Int] /\ \A o \in 0 .. L : lo[o] = o /\ hi[o] = o /\ Spots(lo, hi, o) = {o}
  <2>1. \A o \in 0 .. L : o # NoPlace /\ o \in Int
    BY <1>1, <1>2 DEF NoPlace
  <2> QED
    BY <1>3, <2>1 DEF Spots
<1>5. PartsStand(f, t, bare, lo, hi)
  <2>1. MarksStand(t, bare, DOMAIN f.comps) /\ MarksOwn(t, bare)
    BY <1>2 DEF MarksStand, MarksOwn
  <2>2. OffsetsStand(t, bare, lo, hi, L)
    BY <1>2, <1>4 DEF OffsetsStand
  <2>3. OffsetsOrdered(lo, hi, L)
    BY <1>4 DEF OffsetsOrdered
  <2> QED
    BY <1>2, <2>1, <2>2, <2>3 DEF PartsStand
<1>6. AnchorsOutside(f, t, bare, lo, hi, bare)
  <2>1. ASSUME NEW a \in 0 .. L, NEW b \in 0 .. L, a < b, Outer(f, a, b),
               NEW x \in Spots(lo, hi, a), NEW y \in Spots(lo, hi, b)
        PROVE  \E j : /\ Solid(t, bare, j) /\ x < j /\ j <= y
                      /\ \A c \in DOMAIN f.comps \ bare : ~InPart(f, lo, hi, c, j)
    <3>1. PICK o \in (a .. b - 1) \ UNION {Going(f.comps[c]) : c \in DOMAIN f.comps} : t[o + 1] # WS
      BY <1>2, <2>1 DEF Outer, HasCode
    <3>2. x = a /\ y = b /\ a \in Nat /\ b \in Nat /\ b <= L /\ L \in Nat /\ L = Len(t)
      BY <1>1, <1>2, <1>4
    <3>3. o \in Nat /\ a <= o /\ o < b /\ \A c \in DOMAIN f.comps : o \notin Going(f.comps[c])
      BY <3>1, <3>2
    <3>4. Solid(t, bare, o + 1) /\ x < o + 1 /\ o + 1 <= y
      <4>1. o + 1 \in 1 .. Len(t)
        BY <3>2, <3>3
      <4> QED
        BY <1>2, <3>1, <3>2, <3>3, <4>1 DEF Solid
    <3>5. ASSUME NEW c \in DOMAIN f.comps, InPart(f, lo, hi, c, o + 1) PROVE FALSE
      <4>1. PICK s, d : s = f.comps[c].start /\ d = GoesTo(f.comps[c])
        OBVIOUS
      <4>2. s \in 0 .. L /\ d \in 0 .. L
        BY <1>1, <1>2, <4>1 DEF LinesIn
      <4>3. lo[s] < o + 1 /\ o + 1 <= hi[d]
        BY <3>5, <4>1 DEF InPart
      <4>4. o \in s .. d - 1
        BY <1>4, <3>2, <3>3, <4>2, <4>3
      <4> QED
        BY <3>3, <4>1, <4>4 DEF Going
    <3> QED
      BY <3>4, <3>5
  <2> QED
    BY <1>2, <2>1 DEF AnchorsOutside
<1>7. AnchorsInside(f, t, bare, lo, hi, bare)
  <2>1. ASSUME NEW c \in DOMAIN f.comps, NEW a \in 0 .. L, NEW b \in 0 .. L, a < b, Inner(f, c, a, b),
               NEW x \in Spots(lo, hi, a), NEW y \in Spots(lo, hi, b)
        PROVE  \E j : Solid(t, bare, j) /\ x < j /\ j <= y
    <3>1. PICK o \in a .. b - 1 : t[o + 1] # WS
      BY <1>2, <2>1 DEF Inner, HasCode
    <3>2. x = a /\ y = b /\ a \in Nat /\ b \in Nat /\ b <= L /\ L \in Nat /\ L = Len(t)
      BY <1>1, <1>2, <1>4
    <3>3. o \in Nat /\ a <= o /\ o < b
      BY <3>1, <3>2
    <3>4. o + 1 \in 1 .. Len(t)
      BY <3>2, <3>3
    <3>5. Solid(t, bare, o + 1) /\ x < o + 1 /\ o + 1 <= y
      BY <1>2, <3>1, <3>2, <3>3, <3>4 DEF Solid
    <3> QED
      BY <3>5
  <2> QED
    BY <1>2, <2>1 DEF AnchorsInside
<1>8. Standing(f, t, bare, lo, hi, bare)
  BY <1>5, <1>6, <1>7 DEF Standing
<1>9. Standing(f, t, bare, StartsAt(f, none), EndsAt(f, none), bare)
  BY Zenon, <1>2, <1>8
<1>10. IsFiniteSet(bare)
  BY <1>2, FS_EmptySet
<1>11. none \in Seq(Seq(LogEntry)) /\ \A i \in 1 .. Len(none) : LoggedEdits(none[i])
  BY <1>2
<1>12. Simulated(f, t, none, bare, bare)
  BY <1>1, <1>2, <1>9, <1>10, <1>11 DEF Simulated
<1> QED
  BY Zenon, <1>2, <1>12

(* More lines may be finished than are.                                    *)
LEMMA StandsFinished ==
  ASSUME NEW f, NEW t, NEW l, NEW ms, NEW fin, Simulated(f, t, l, ms, fin), NEW more, fin \subseteq more
  PROVE  Simulated(f, t, l, ms, more)
<1>1. PICK lo, hi : lo = StartsAt(f, l) /\ hi = EndsAt(f, l)
  OBVIOUS
<1>2. PartsStand(f, t, ms, lo, hi) /\ AnchorsOutside(f, t, ms, lo, hi, fin) /\ AnchorsInside(f, t, ms, lo, hi, fin)
  BY <1>1 DEF Simulated, Standing
<1>3. AnchorsOutside(f, t, ms, lo, hi, more)
  <2>1. ASSUME NEW a \in 0 .. Len(f.text), NEW b \in 0 .. Len(f.text), a < b, Outer(f, a, b),
               NEW x \in Spots(lo, hi, a), NEW y \in Spots(lo, hi, b)
        PROVE  \E j : /\ Solid(t, ms, j) /\ x < j /\ j <= y
                      /\ \A c \in DOMAIN f.comps \ more : ~InPart(f, lo, hi, c, j)
    <3>1. PICK j : /\ Solid(t, ms, j) /\ x < j /\ j <= y
                   /\ \A c \in DOMAIN f.comps \ fin : ~InPart(f, lo, hi, c, j)
      BY <1>2, <2>1 DEF AnchorsOutside
    <3> QED
      BY <3>1
  <2> QED
    BY <2>1 DEF AnchorsOutside
<1>4. AnchorsInside(f, t, ms, lo, hi, more)
  <2>1. ASSUME NEW c \in DOMAIN f.comps, NEW a \in 0 .. Len(f.text), NEW b \in 0 .. Len(f.text),
               a < b, Inner(f, c, a, b), c \in more => HasCode(f, Going(f.comps[c]) \ (a .. b - 1)),
               NEW x \in Spots(lo, hi, a), NEW y \in Spots(lo, hi, b)
        PROVE  \E j : Solid(t, ms, j) /\ x < j /\ j <= y
    <3>1. c \in fin => HasCode(f, Going(f.comps[c]) \ (a .. b - 1))
      BY <2>1
    <3> QED
      BY <1>2, <2>1, <3>1 DEF AnchorsInside
  <2> QED
    BY <2>1 DEF AnchorsInside
<1>5. Standing(f, t, ms, StartsAt(f, l), EndsAt(f, l), more)
  BY Zenon, <1>1, <1>2, <1>3, <1>4 DEF Standing
<1> QED
  BY <1>5 DEF Simulated

(* The edits its of a file can be made, and the file is simulated after    *)
(* them, with the lines of more finished.                                  *)
StepStands(f, t, l, ms, more, its) ==
  /\ EditsIn(AtomsOf(f), Len(t), its) /\ StartsApart(its) /\ MarksFit(its)
  /\ Simulated(f, ApplyText(t, its), LogAfter(l, its), MarksAfter(ms, its), more)

(* One edit without marks.                                                 *)
LEMMA BareEdit ==
  ASSUME NEW e, e.marks = {}, NEW its, its = <<e>>
  PROVE  MarksFit(its) /\ NewMarks(its) = {} /\ \A X, batch : MarksIn(NewMarks(its), X, batch)
<1>1. DOMAIN its = {1} /\ Len(its) = 1 /\ its[1] = e
  OBVIOUS
<1>2. MarksFit(its)
  <2>1. PICK none : none = {} /\ IsFiniteSet(none)
    BY FS_EmptySet
  <2>2. \A i \in 1 .. Len(its) : its[i].marks = none
    BY <1>1, <2>1
  <2> QED
    BY <2>1, <2>2 DEF MarksFit
<1>3. NewMarks(its) = {}
  BY <1>1 DEF NewMarks
<1> QED
  BY <1>2, <1>3 DEF MarksIn

(* An edit of one place that takes no code away and brings no marks.       *)
LEMMA BareStands ==
  ASSUME NEW f, LinesIn(f), NEW t, NEW l, NEW ms, NEW fin, Simulated(f, t, l, ms, fin),
         NEW e, e.marks = {}, IsEdit(AtomsOf(f), Len(t), e), NEW its, its = <<e>>,
         \A j \in 1 .. Len(t) : t[j] # WS => e.end < j \/ j <= e.start
  PROVE  StepStands(f, t, l, ms, fin, its)
<1>1. t \in Seq(AtomsOf(f)) /\ Len(f.text) \in Nat /\ Standing(f, t, ms, StartsAt(f, l), EndsAt(f, l), fin)
  BY DEF Simulated, LinesIn
<1>2. EditsIn(AtomsOf(f), Len(t), its) /\ StartsApart(its) /\ Len(its) = 1 /\ its[1] = e
  BY <1>1, OneEdit
<1>3. MarksFit(its) /\ NewMarks(its) = {} /\ MarksIn(NewMarks(its), DOMAIN f.comps, Logged(its))
  BY BareEdit
<1>4. PassesOn(f, t, l, ms, its)
  BY <1>1, <1>2, <1>3, EditsPass
<1>5. PICK batch, N, u, lo, hi, from, to :
        /\ batch = Logged(its) /\ N = NewMarks(its) /\ u = ApplyText(t, its)
        /\ lo = StartsAt(f, l) /\ hi = EndsAt(f, l)
        /\ from = StartsAt(f, LogAfter(l, its)) /\ to = EndsAt(f, LogAfter(l, its))
  OBVIOUS
<1>6. Passes(f, t, ms, lo, hi, batch, N, u, from, to)
  BY Zenon, <1>4, <1>5 DEF PassesOn
<1>7. \A j \in 1 .. Len(t) : t[j] # WS => Missed(batch, j)
  <2>1. Len(batch) = 1 /\ batch[1].start = e.start /\ batch[1].end = e.end
    BY <1>2, <1>5 DEF Logged
  <2> QED
    BY <2>1 DEF Missed
<1>8. Standing(f, t, ms, lo, hi, fin)
  BY Zenon, <1>1, <1>5
<1>9. Standing(f, u, MovedMarks(ms, batch) \cup N, from, to, fin)
  BY <1>6, <1>7, <1>8, NoCodeTaken
<1>10. Standing(f, ApplyText(t, its), MovedMarks(ms, Logged(its)) \cup NewMarks(its),
                StartsAt(f, LogAfter(l, its)), EndsAt(f, LogAfter(l, its)), fin)
  BY Zenon, <1>5, <1>9
<1>11. Simulated(f, ApplyText(t, its), LogAfter(l, its), MarksAfter(ms, its), fin)
  BY <1>2, <1>3, <1>10, SimulatedAfter
<1> QED
  BY <1>2, <1>3, <1>11 DEF StepStands

(* gofmt's own edits of the text that the step left.                       *)
LEMMA FormatStands ==
  ASSUME NEW f, LinesIn(f), NEW t, NEW l, NEW ms, NEW fin, NEW its, t \in Seq(AtomsOf(f)),
         StepStands(f, t, l, ms, fin, its), NEW u, u = ApplyText(t, its), NEW fe \in Formats(u, its)
  PROVE  StepStands(f, u, LogAfter(l, its), MarksAfter(ms, its), fin, fe)
<1>1. /\ EditsIn(AtomsOf(f), Len(t), its) /\ MarksFit(its)
      /\ Simulated(f, u, LogAfter(l, its), MarksAfter(ms, its), fin)
  BY DEF StepStands
<1>2. PICK batch : batch = Logged(its)
  OBVIOUS
<1>3. Turns(t, batch, u) /\ u \in Seq(AtomsOf(f)) /\ Len(its) \in Nat /\ DOMAIN its = 1 .. Len(its)
  BY <1>1, <1>2, EditsTurn DEF EditsIn
<1>4. /\ Len(batch) = Len(its)
      /\ \A i \in 1 .. Len(its) : /\ batch[i].start = its[i].start /\ batch[i].end = its[i].end
                                  /\ batch[i].n = Len(its[i].text)
  BY <1>2, <1>3 DEF Logged
<1>5. WS \in AtomsOf(f)
  BY DEF AtomsOf
<1>6. ASSUME NEW p \in 0 .. Len(u), NEW e, e = Intent(p, p, <<WS>>, {}), fe = <<e>>
      PROVE  StepStands(f, u, LogAfter(l, its), MarksAfter(ms, its), fin, fe)
  <2>1. e.start = p /\ e.end = p /\ e.text = <<WS>> /\ e.marks = {}
    BY <1>6 DEF Intent
  <2>2. IsEdit(AtomsOf(f), Len(u), e)
    BY <1>3, <1>5, <2>1 DEF IsEdit
  <2>3. \A j \in 1 .. Len(u) : u[j] # WS => e.end < j \/ j <= e.start
    BY <1>3, <2>1
  <2> QED
    BY <1>1, <1>6, <2>1, <2>2, <2>3, BareStands
<1>7. ASSUME NEW p \in {q \in 1 .. Len(u) : u[q] = WS}, NEW e, e = Deletes(p - 1, p), fe = <<e>>
      PROVE  StepStands(f, u, LogAfter(l, its), MarksAfter(ms, its), fin, fe)
  <2>1. e.start = p - 1 /\ e.end = p /\ e.text = << >> /\ e.marks = {}
    BY <1>7 DEF Intent, Deletes
  <2>2. IsEdit(AtomsOf(f), Len(u), e)
    <3>1. p - 1 \in Nat /\ p \in Nat /\ p <= Len(u) /\ << >> \in Seq(AtomsOf(f))
      BY <1>3
    <3> QED
      BY <2>1, <3>1 DEF IsEdit
  <2>3. \A j \in 1 .. Len(u) : u[j] # WS => e.end < j \/ j <= e.start
    BY <1>3, <2>1
  <2> QED
    BY <1>1, <1>7, <2>1, <2>2, <2>3, BareStands
<1>8. ASSUME NEW i \in DOMAIN its
      PROVE  /\ its[i].start + Growth(Logged(its), i - 1) \in 0 .. Len(u)
             /\ its[i].start + Growth(Logged(its), i - 1) + Len(its[i].text) \in 0 .. Len(u)
             /\ \A m \in its[i].marks : its[i].start + Growth(Logged(its), i - 1) + m.off \in 0 .. Len(u)
  <2>1. /\ InLine(batch) /\ Len(t) \in Nat /\ Len(u) \in Nat /\ Len(u) = Len(t) + Growth(batch, Len(batch))
        /\ i \in 1 .. Len(batch) /\ \A k \in 1 .. Len(batch) : batch[k].end <= Len(t)
    BY <1>3, <1>4 DEF Turns, Carries
  <2>2. PICK len, after : len = Len(t) /\ after = Len(u)
    OBVIOUS
  <2>3. /\ Lands(batch, i) \in Nat /\ Ends(batch, i) \in Nat
        /\ Lands(batch, i) <= Ends(batch, i) /\ Ends(batch, i) <= after
    BY <2>1, <2>2, WrittenInText
  <2>4. Ends(batch, i) = Lands(batch, i) + batch[i].n
    BY <2>1, BatchNumbers DEF InLine
  <2>5. Lands(batch, i) = its[i].start + Growth(Logged(its), i - 1)
    BY Zenon, <1>2, <1>3, <1>4 DEF Lands
  <2>6. batch[i].n = Len(its[i].text)
    BY <1>3, <1>4
  <2>7. \A m \in its[i].marks : m.off \in Nat /\ m.n \in Nat /\ m.off + m.n <= Len(its[i].text)
    BY <1>1, <1>3 DEF MarksFit
  <2>8. PICK a, n : a = Lands(batch, i) /\ n = Len(its[i].text)
    OBVIOUS
  <2>9. a \in Nat /\ a + n \in Nat /\ a <= a + n /\ a + n <= after /\ after \in Nat
    BY <2>1, <2>2, <2>3, <2>4, <2>6, <2>8
  <2>10. n \in Nat
    BY <1>1, <1>3, <2>8 DEF EditsIn, IsEdit
  <2>11. a \in 0 .. after /\ a + n \in 0 .. after /\ \A m \in its[i].marks : a + m.off \in 0 .. after
    BY <2>7, <2>8, <2>9, <2>10
  <2> QED
    BY <2>2, <2>5, <2>8, <2>11
<1> DEFINE At(i) == its[i].start + Growth(Logged(its), i - 1)
           ends == UNION {{At(i), At(i) + Len(its[i].text)}
                          \cup {At(i) + m.off : m \in its[i].marks} : i \in DOMAIN its}
<1>9. ends \subseteq 0 .. Len(u)
  BY <1>8
<1>10. Formats(u, its) = {<<Intent(p, p, <<WS>>, {})>> : p \in ends}
                         \cup {<<Deletes(p - 1, p)>> : p \in {q \in 1 .. Len(u) : u[q] = WS}}
  BY DEF Formats
<1> HIDE DEF ends
<1>11. CASE fe \in {<<Intent(p, p, <<WS>>, {})>> : p \in ends}
  BY <1>6, <1>9, <1>11
<1>12. CASE fe \in {<<Deletes(p - 1, p)>> : p \in {q \in 1 .. Len(u) : u[q] = WS}}
  BY <1>7, <1>12
<1> QED
  BY <1>10, <1>11, <1>12

(* The marks M of a text that starts at offset s.                          *)
PlacedAt(M, s) == {[m EXCEPT !.off = @ + s] : m \in M}

(* What one edit is logged as, and its marks in the text.                  *)
LEMMA OneBatch ==
  ASSUME NEW S, NEW len \in Nat, NEW e, IsEdit(S, len, e), NEW its, its = <<e>>, NEW batch, batch = Logged(its)
  PROVE  /\ Len(batch) = 1 /\ batch[1].start = e.start /\ batch[1].end = e.end /\ InLine(batch)
         /\ Lands(batch, 1) = e.start /\ Ends(batch, 1) = e.start + Len(e.text)
         /\ NewMarks(its) = PlacedAt(e.marks, e.start)
<1>1. DOMAIN its = {1} /\ Len(its) = 1 /\ its[1] = e
  OBVIOUS
<1>2. /\ Len(batch) = 1 /\ batch[1].start = e.start /\ batch[1].end = e.end /\ batch[1].n = Len(e.text)
      /\ e.start \in Nat /\ e.end \in Nat /\ Len(e.text) \in Nat /\ e.start <= e.end
  BY <1>1 DEF Logged, IsEdit
<1>3. InLine(batch)
  <2>1. \E V : its \in Seq(V)
    <3>1. PICK V : V = {e}
      OBVIOUS
    <3>2. its \in Seq(V)
      BY <3>1
    <3> QED
      BY <3>2
  <2>2. /\ \A i \in 1 .. Len(its) : IsEdit(S, len, its[i])
        /\ \A i \in 2 .. Len(its) : its[i - 1].end <= its[i].start
    BY <1>1
  <2>3. EditsIn(S, len, its)
    BY Zenon, <2>1, <2>2 DEF EditsIn
  <2> QED
    BY <2>3, LoggedInLine
<1>4. Growth(batch, 0) = 0
  BY <1>3, GrowthSteps DEF InLine
<1>5. PICK s : s = e.start /\ s \in Nat
  BY <1>2
<1>6. Lands(batch, 1) = s
  <2>1. 1 - 1 = 0 /\ s + 0 = s
    BY <1>5
  <2> QED
    BY Zenon, <1>2, <1>4, <1>5, <2>1 DEF Lands
<1>7. Ends(batch, 1) = Lands(batch, 1) + batch[1].n
  BY <1>2, <1>3, BatchNumbers DEF InLine
<1>8. NewMarks(its) = {[m EXCEPT !.off = @ + s] : m \in e.marks}
  <2> DEFINE At(i) == its[i].start + Growth(Logged(its), i - 1)
             Of(i) == {[m EXCEPT !.off = @ + At(i)] : m \in its[i].marks}
  <2>1. At(1) = s
    BY Zenon, <1>1, <1>2, <1>5, <1>6 DEF Lands
  <2>2. NewMarks(its) = UNION {Of(i) : i \in DOMAIN its}
    BY DEF NewMarks
  <2> HIDE DEF At
  <2>3. Of(1) = {[m EXCEPT !.off = @ + s] : m \in e.marks}
    BY Zenon, <1>1, <2>1
  <2> HIDE DEF Of
  <2>4. NewMarks(its) = Of(1)
    BY <1>1, <2>2
  <2> QED
    BY Zenon, <2>3, <2>4
<1>9. NewMarks(its) = PlacedAt(e.marks, e.start)
  BY Zenon, <1>5, <1>8 DEF PlacedAt
<1> QED
  BY Zenon, <1>2, <1>3, <1>5, <1>6, <1>7, <1>9

(* An atom before and behind a text.                                       *)
LEMMA AtomBefore ==
  ASSUME NEW S, NEW a \in S, NEW s \in Seq(S)
  PROVE  <<a>> \o s \in Seq(S) /\ Len(<<a>> \o s) = 1 + Len(s) /\ (<<a>> \o s)[1] = a
<1>1. PICK one : one = <<a>>
  OBVIOUS
<1>2. one = <<a>> /\ one \in Seq(S) /\ Len(one) = 1 /\ one[1] = a
  BY <1>1
<1>3. one \o s \in Seq(S) /\ Len(s) \in Nat /\ PutAfter(one \o s, one, s)
  BY <1>2, PutBehind
<1>4. Len(one \o s) = 1 + Len(s) /\ (one \o s)[1] = a
  BY <1>2, <1>3 DEF PutAfter
<1> QED
  BY Zenon, <1>2, <1>3, <1>4

(* The same behind it.                                                     *)
LEMMA AtomBehind ==
  ASSUME NEW S, NEW a \in S, NEW s \in Seq(S)
  PROVE  s \o <<a>> \in Seq(S) /\ Len(s \o <<a>>) = Len(s) + 1 /\ \A i \in 1 .. Len(s) : (s \o <<a>>)[i] = s[i]
<1>1. PICK one : one = <<a>>
  OBVIOUS
<1>2. one = <<a>> /\ one \in Seq(S) /\ Len(one) = 1 /\ one[1] = a
  BY <1>1
<1>3. s \o one \in Seq(S) /\ Len(s) \in Nat /\ PutAfter(s \o one, s, one)
  BY <1>2, PutBehind
<1>4. Len(s \o one) = Len(s) + 1 /\ \A i \in 1 .. Len(s) : (s \o one)[i] = s[i]
  BY <1>2, <1>3 DEF PutAfter
<1> QED
  BY Zenon, <1>2, <1>3, <1>4

(* What the steps write of component c.                                    *)
LEMMA SiblingText ==
  ASSUME NEW f, NEW c \in DOMAIN f.comps
  PROVE  /\ Sibling(c) \in Seq(AtomsOf(f)) /\ Len(Sibling(c)) = 2
         /\ Legacy(c) \in Seq(AtomsOf(f)) /\ Len(Legacy(c)) = 1
<1>1. PICK S, a, b : S = AtomsOf(f) /\ a = <<"name", c>> /\ b = <<"New", c>>
  OBVIOUS
<1>2. a \in S /\ b \in S
  BY <1>1 DEF AtomsOf
<1>3. Legacy(c) = <<a>> /\ Sibling(c) = <<a>> \o <<b>>
  BY Zenon, <1>1 DEF Legacy, Sibling
<1>4. /\ <<a>> \o <<b>> \in Seq(S) /\ Len(<<a>> \o <<b>>) = 2 /\ <<a>> \in Seq(S) /\ Len(<<a>>) = 1
  BY <1>2
<1> QED
  BY Zenon, <1>1, <1>3, <1>4

(* What an add step writes.                                                *)
Addition(c) == Lookup(c, Sibling(c)) \o Placeholder(c)

(* It is the sibling's root, then the placeholder.                         *)
LEMMA AdditionText ==
  ASSUME NEW f, NEW c \in DOMAIN f.comps
  PROVE  /\ Len(Lookup(c, Sibling(c))) = 4 /\ Len(Placeholder(c)) = 4
         /\ Addition(c) \in Seq(AtomsOf(f)) /\ Len(Addition(c)) = 8
         /\ Addition(c)[1] = <<"lookup", c>> /\ Addition(c)[5] = <<"keep", c>>
<1>1. PICK S, s, a, b : S = AtomsOf(f) /\ s = Sibling(c) /\ a = <<"lookup", c>> /\ b = <<"keep", c>>
  OBVIOUS
<1>2. a \in S /\ b \in S /\ NL \in S
  BY <1>1 DEF AtomsOf
<1>3. s \in Seq(S) /\ Len(s) = 2
  BY <1>1, SiblingText
<1>4. PICK r, q : r = <<a>> \o s \o <<NL>> /\ q = <<b>> \o s \o <<NL>>
  OBVIOUS
<1>5. r = Lookup(c, Sibling(c)) /\ q = Placeholder(c)
  BY Zenon, <1>1, <1>4 DEF Lookup, Placeholder
<1>6. r \in Seq(S) /\ Len(r) = 4 /\ r[1] = a
  <2>1. PICK v : v = <<a>> \o s
    OBVIOUS
  <2>2. v \in Seq(S) /\ Len(v) = 3 /\ v[1] = a
    <3>1. /\ v \in Seq(S) /\ Len(v) = 1 + Len(s) /\ v[1] = a
      BY Zenon, <1>2, <1>3, <2>1, AtomBefore
    <3> QED
      BY <1>3, <3>1
  <2>3. r = v \o <<NL>>
    BY <1>4, <2>1
  <2>4. r \in Seq(S) /\ Len(r) = Len(v) + 1 /\ \A i \in 1 .. Len(v) : r[i] = v[i]
    <3>1. /\ v \o <<NL>> \in Seq(S) /\ Len(v \o <<NL>>) = Len(v) + 1
          /\ \A i \in 1 .. Len(v) : (v \o <<NL>>)[i] = v[i]
      BY <1>2, <2>2, AtomBehind
    <3> QED
      BY Zenon, <2>3, <3>1
  <2> QED
    BY <2>2, <2>4
<1>7. q \in Seq(S) /\ Len(q) = 4 /\ q[1] = b
  <2>1. PICK v : v = <<b>> \o s
    OBVIOUS
  <2>2. v \in Seq(S) /\ Len(v) = 3 /\ v[1] = b
    <3>1. /\ v \in Seq(S) /\ Len(v) = 1 + Len(s) /\ v[1] = b
      BY Zenon, <1>2, <1>3, <2>1, AtomBefore
    <3> QED
      BY <1>3, <3>1
  <2>3. q = v \o <<NL>>
    BY <1>4, <2>1
  <2>4. q \in Seq(S) /\ Len(q) = Len(v) + 1 /\ \A i \in 1 .. Len(v) : q[i] = v[i]
    <3>1. /\ v \o <<NL>> \in Seq(S) /\ Len(v \o <<NL>>) = Len(v) + 1
          /\ \A i \in 1 .. Len(v) : (v \o <<NL>>)[i] = v[i]
      BY <1>2, <2>2, AtomBehind
    <3> QED
      BY Zenon, <2>3, <3>1
  <2> QED
    BY <2>2, <2>4
<1>8. r \o q \in Seq(S) /\ Len(r \o q) = 8 /\ (r \o q)[1] = a /\ (r \o q)[5] = b
  <2>1. r \o q \in Seq(S) /\ PutAfter(r \o q, r, q)
    BY <1>6, <1>7, PutBehind
  <2>2. /\ Len(r \o q) = Len(r) + Len(q)
        /\ \A i \in 1 .. Len(r) : (r \o q)[i] = r[i]
        /\ \A i \in 1 .. Len(q) : (r \o q)[Len(r) + i] = q[i]
    BY <2>1 DEF PutAfter
  <2>3. (r \o q)[1] = a /\ Len(r \o q) = 8
    BY <1>6, <1>7, <2>2
  <2>4. (r \o q)[Len(r) + 1] = b /\ Len(r) + 1 = 5
    BY <1>6, <1>7, <2>2
  <2> QED
    BY Zenon, <2>1, <2>3, <2>4
<1>9. Addition(c) = r \o q
  BY Zenon, <1>5 DEF Addition
<1> QED
  BY Zenon, <1>1, <1>5, <1>6, <1>7, <1>8, <1>9

(* What a site step writes.                                                *)
LEMMA CallText ==
  ASSUME NEW f, NEW s \in DOMAIN f.sites, NEW name \in Seq(AtomsOf(f))
  PROVE  /\ Call(s, name) \in Seq(AtomsOf(f)) /\ Len(Call(s, name)) = 1 + Len(name)
         /\ Call(s, name)[1] = <<"call", s>>
<1>1. PICK S, a : S = AtomsOf(f) /\ a = <<"call", s>>
  OBVIOUS
<1>2. a \in S /\ name \in Seq(S)
  BY <1>1 DEF AtomsOf
<1>3. /\ <<a>> \o name \in Seq(S) /\ Len(<<a>> \o name) = 1 + Len(name) /\ (<<a>> \o name)[1] = a
  BY <1>2, AtomBefore
<1> QED
  BY Zenon, <1>1, <1>3 DEF Call

(* What a finish step writes.                                              *)
LEMMA CreateText ==
  ASSUME NEW f, NEW c \in DOMAIN f.comps
  PROVE  Create(c, Legacy(c)) \in Seq(AtomsOf(f))
<1>1. PICK S, a, name : S = AtomsOf(f) /\ a = <<"create", c>> /\ name = Legacy(c)
  OBVIOUS
<1>2. a \in S /\ name \in Seq(S)
  BY <1>1, SiblingText DEF AtomsOf
<1>3. <<a>> \o name \in Seq(S)
  BY <1>2, AtomBefore
<1> QED
  BY Zenon, <1>1, <1>3 DEF Create

-----------------------------------------------------------------------------
(* The steps.                                                              *)

(* The edit of an add step.                                                *)
LEMMA AddIntent ==
  ASSUME NEW c \in Comps
  PROVE  \E e, p : /\ AddIntents(c) = <<e>> /\ p = Cur(log, file.comps[c].end, FALSE)
                   /\ e.start = p /\ e.end = p /\ e.text = Addition(c)
                   /\ e.marks = {Mark("root", c, 0, 4), Mark("sibling", c, 1, 2),
                                 Mark("placeholder", c, 4, 4), Mark("sibling", c, 5, 2)}
<1>1. PICK root, keep, p : /\ root = Lookup(c, Sibling(c)) /\ keep = Placeholder(c)
                           /\ p = Cur(log, file.comps[c].end, FALSE)
  BY Zenon
<1>2. Len(root) = 4 /\ Len(keep) = 4 /\ Len(Sibling(c)) = 2
  <2>1. c \in DOMAIN file.comps
    BY DEF Comps
  <2> QED
    BY <1>1, <2>1, AdditionText, SiblingText
<1>3. SiblingAt(c, 1) = Mark("sibling", c, 1, 2) /\ SiblingAt(c, 4 + 1) = Mark("sibling", c, 5, 2)
  BY <1>2 DEF SiblingAt
<1>4. PICK e : e = InsertAtLine(file.comps[c].end, root \o keep,
                     {Mark("root", c, 0, Len(root)), SiblingAt(c, 1),
                      Mark("placeholder", c, Len(root), Len(keep)), SiblingAt(c, Len(root) + 1)})
  OBVIOUS
<1>5. AddIntents(c) = <<e>>
  BY Zenon, <1>1, <1>4 DEF AddIntents
<1>6. e = Intent(p, p, root \o keep, {Mark("root", c, 0, 4), SiblingAt(c, 1),
                                      Mark("placeholder", c, 4, 4), SiblingAt(c, 4 + 1)})
  BY Zenon, <1>1, <1>2, <1>4 DEF InsertAtLine
<1>7. /\ e.start = p /\ e.end = p /\ e.text = root \o keep
      /\ e.marks = {Mark("root", c, 0, 4), SiblingAt(c, 1), Mark("placeholder", c, 4, 4), SiblingAt(c, 4 + 1)}
  BY <1>6 DEF Intent
<1>8. e.text = Addition(c)
  BY Zenon, <1>1, <1>7 DEF Addition
<1>9. e.marks = {Mark("root", c, 0, 4), Mark("sibling", c, 1, 2), Mark("placeholder", c, 4, 4), Mark("sibling", c, 5, 2)}
  BY Zenon, <1>3, <1>7
<1> QED
  BY Zenon, <1>1, <1>5, <1>7, <1>8, <1>9

(* Marks M are in a text of n atoms, marks N in the n atoms behind p.      *)
FitIn(M, n) == IsFiniteSet(M) /\ \A m \in M : m.off \in Nat /\ m.n \in Nat /\ m.off + m.n <= n
(* Marks N, on components of X, are in the n atoms behind p.               *)
CoverIn(N, X, p, n) ==
  N \in SUBSET MarksOver(X) /\ \A m \in N : m.n > 0 /\ p <= m.off /\ m.off + m.n <= p + n

(* Every span among N covers an atom of J that no other mark covers.       *)
SpansApart(N, J) ==
  \A m \in N : IsSpan(m) => \E j \in J : Within(m, j) /\ \A x \in N : x # m => ~Within(x, j)

(* Its marks cover what it writes.                                         *)
LEMMA AddMarks ==
  ASSUME NEW X, NEW c \in X, NEW p \in Nat,
         NEW M, M = {Mark("root", c, 0, 4), Mark("sibling", c, 1, 2),
                     Mark("placeholder", c, 4, 4), Mark("sibling", c, 5, 2)},
         NEW N, N = PlacedAt(M, p)
  PROVE  FitIn(M, 8) /\ CoverIn(N, X, p, 8) /\ SpansApart(N, {p + 1, p + 5})
<1>1. PICK r, s, k, z : /\ r = Mark("root", c, 0, 4) /\ s = Mark("sibling", c, 1, 2)
                        /\ k = Mark("placeholder", c, 4, 4) /\ z = Mark("sibling", c, 5, 2)
  OBVIOUS
<1>2. M = {r, s, k, z}
  BY <1>1
<1>3. IsFiniteSet(M)
  <2>1. IsFiniteSet({r}) /\ IsFiniteSet({s}) /\ IsFiniteSet({k}) /\ IsFiniteSet({z})
    BY FS_Singleton
  <2>2. IsFiniteSet({r} \cup {s}) /\ IsFiniteSet({k} \cup {z})
    BY <2>1, FS_Union
  <2>3. IsFiniteSet(({r} \cup {s}) \cup ({k} \cup {z}))
    BY <2>2, FS_Union
  <2>4. M = ({r} \cup {s}) \cup ({k} \cup {z})
    BY <1>2
  <2> QED
    BY Zenon, <2>3, <2>4
<1>4. \A m \in M : m.off \in Nat /\ m.n \in Nat /\ m.off + m.n <= 8
  BY <1>1, <1>2 DEF Mark
<1>5. PICK r2, s2, k2, z2 : /\ r2 = Mark("root", c, p, 4) /\ s2 = Mark("sibling", c, p + 1, 2)
                            /\ k2 = Mark("placeholder", c, p + 4, 4) /\ z2 = Mark("sibling", c, p + 5, 2)
  OBVIOUS
<1>6. /\ [r EXCEPT !.off = @ + p] = r2 /\ [s EXCEPT !.off = @ + p] = s2
      /\ [k EXCEPT !.off = @ + p] = k2 /\ [z EXCEPT !.off = @ + p] = z2
  BY <1>1, <1>5 DEF Mark
<1>7. N = {r2, s2, k2, z2}
  BY <1>2, <1>6 DEF PlacedAt
<1>8. /\ r2 \in MarksOver(X) /\ s2 \in MarksOver(X) /\ k2 \in MarksOver(X) /\ z2 \in MarksOver(X)
  BY <1>5 DEF Mark, MarksOver
<1>9. /\ r2.kind = "root" /\ r2.off = p /\ r2.n = 4 /\ s2.kind = "sibling" /\ s2.off = p + 1 /\ s2.n = 2
      /\ k2.kind = "placeholder" /\ k2.off = p + 4 /\ k2.n = 4 /\ z2.kind = "sibling" /\ z2.off = p + 5 /\ z2.n = 2
  BY <1>5 DEF Mark
<1>10. \A m \in N : m.n > 0 /\ p <= m.off /\ m.off + m.n <= p + 8
  BY <1>7, <1>9
<1>11. \A m \in N : IsSpan(m) => m \in {r2, k2}
  BY <1>7, <1>9 DEF IsSpan
<1>12. Within(r2, p + 1) /\ ~Within(s2, p + 1) /\ ~Within(k2, p + 1) /\ ~Within(z2, p + 1)
  BY <1>9 DEF Within
<1>13. ~Within(r2, p + 5) /\ ~Within(s2, p + 5) /\ Within(k2, p + 5) /\ ~Within(z2, p + 5)
  BY <1>9 DEF Within
<1>14. ASSUME NEW m \in N, IsSpan(m)
       PROVE  \E j \in {p + 1, p + 5} : Within(m, j) /\ \A x \in N : x # m => ~Within(x, j)
  <2>1. CASE m = r2
    BY <1>7, <1>12, <2>1
  <2>2. CASE m = k2
    BY <1>7, <1>13, <2>2
  <2> QED
    BY <1>11, <1>14, <2>1, <2>2
<1> QED
  BY <1>3, <1>4, <1>7, <1>8, <1>10, <1>14 DEF FitIn, CoverIn, SpansApart

(* What one edit between two spots writes is outside of the marks kept.    *)
LEMMA WrittenApart ==
  ASSUME NEW f, NEW t, NEW ms, NEW lo, NEW hi, PartsStand(f, t, ms, lo, hi), Len(t) \in Nat,
         NEW batch, InLine(batch), Len(batch) = 1,
         NEW a \in 0 .. Len(f.text), NEW b \in 0 .. Len(f.text),
         batch[1].start \in Spots(lo, hi, a), batch[1].end \in Spots(lo, hi, b),
         NEW h \in Int, Lands(batch, 1) < h, h <= Ends(batch, 1), NEW x \in MovedMarks(ms, batch)
  PROVE  ~Within(x, h)
<1>1. PICK m \in ms : KeptBy(m, batch) /\ x = ShiftedBy(m, batch)
  BY MovedMarksAre
<1>2. PICK X, L, e : X = DOMAIN f.comps /\ L = Len(f.text) /\ e = batch[1]
  OBVIOUS
<1>3. MarksStand(t, ms, X) /\ OffsetsStand(t, ms, lo, hi, L)
  BY <1>2 DEF PartsStand
<1>4. m \in MarksOver(X) /\ m.n > 0
  BY <1>3 DEF MarksStand
<1>5. DOMAIN batch = 1 .. Len(batch) /\ 1 \in 1 .. Len(batch)
  BY DEF InLine, LoggedEdits
<1>6. e.start <= e.end
  BY <1>2, <1>5 DEF InLine, LoggedEdits, LoggedEdit
<1>7. Ahead(m, e) \/ Behind(m, e) \/ Inside(m, e)
  BY <1>1, <1>2, <1>5 DEF KeptBy
<1>8. e.end <= m.off \/ m.off + m.n <= e.start
  <2>1. a \in 0 .. L /\ b \in 0 .. L /\ e.start \in Spots(lo, hi, a) /\ e.end \in Spots(lo, hi, b)
    BY <1>2
  <2> QED
    BY <1>3, <1>6, <1>7, <2>1, NotInside
<1>9. ~Within(ShiftedBy(m, batch), h)
  BY <1>1, <1>2, <1>4, <1>5, <1>8, WrittenOutside
<1> QED
  BY <1>1, <1>9

(* The atoms that one edit writes.                                         *)
LEMMA WrittenAtoms ==
  ASSUME NEW S, NEW t \in Seq(S), NEW e, IsEdit(S, Len(t), e), NEW its, its = <<e>>,
         NEW k \in 1 .. Len(e.text)
  PROVE  e.start + k \in 1 .. Len(ApplyText(t, its)) /\ ApplyText(t, its)[e.start + k] = e.text[k]
<1>1. ApplyText(t, its)[e.start + k] = e.text[k]
  BY OneEdit
<1>2. EditsIn(S, Len(t), its) /\ Len(its) = 1 /\ its[1] = e
  BY OneEdit
<1>3. PICK batch, u, len, s : batch = Logged(its) /\ u = ApplyText(t, its) /\ len = Len(t) /\ s = e.start
  OBVIOUS
<1>4. Turns(t, batch, u)
  <2>1. Turns(t, Logged(its), ApplyText(t, its))
    BY <1>2, EditsTurn
  <2> QED
    BY Zenon, <1>3, <2>1
<1>5. Len(batch) = 1 /\ Lands(batch, 1) = s /\ Ends(batch, 1) = s + Len(e.text) /\ len \in Nat
  <2>1. len \in Nat /\ IsEdit(S, len, e)
    BY <1>3
  <2>2. /\ Len(batch) = 1 /\ Lands(batch, 1) = e.start /\ Ends(batch, 1) = e.start + Len(e.text)
    BY <1>3, <2>1, OneBatch
  <2> QED
    BY Zenon, <1>3, <2>1, <2>2
<1>6. /\ InLine(batch) /\ Len(u) \in Nat /\ Len(u) = len + Growth(batch, Len(batch))
      /\ \A i \in 1 .. Len(batch) : batch[i].end <= len
  BY <1>3, <1>4 DEF Turns, Carries
<1>7. Ends(batch, 1) <= Len(u)
  <2>1. 1 \in 1 .. Len(batch)
    BY <1>5
  <2> QED
    BY <1>5, <1>6, <2>1, WrittenInText
<1>8. s \in Nat /\ Len(e.text) \in Nat
  BY <1>3 DEF IsEdit
<1>9. s + k \in 1 .. Len(u)
  BY <1>5, <1>6, <1>7, <1>8
<1> QED
  BY <1>1, <1>3, <1>9

(* An add step.                                                            *)
LEMMA AddStands ==
  ASSUME file \in Layouts, NEW fin, Simulated(file, text, log, marks, fin), NEW c \in Comps,
         NEW its, its = SortIntents(AddIntents(c)), ~NoText(its)
  PROVE  StepStands(file, text, log, marks, fin, its)
<1>1. PICK f, t, l, ms, S, L, lo, hi, no :
        /\ f = file /\ t = text /\ l = log /\ ms = marks /\ S = AtomsOf(f) /\ L = Len(f.text)
        /\ lo = StartsAt(f, l) /\ hi = EndsAt(f, l) /\ no = FALSE
  BY Zenon
<1>2. /\ f \in Layouts /\ Simulated(f, t, l, ms, fin) /\ c \in DOMAIN f.comps
  BY Zenon, <1>1 DEF Comps
<1>3. PICK e, p : /\ AddIntents(c) = <<e>> /\ p = Cur(l, f.comps[c].end, no)
                  /\ e.start = p /\ e.end = p /\ e.text = Addition(c)
                  /\ e.marks = {Mark("root", c, 0, 4), Mark("sibling", c, 1, 2),
                                Mark("placeholder", c, 4, 4), Mark("sibling", c, 5, 2)}
  BY Zenon, <1>1, AddIntent
<1>4. LinesIn(f) /\ L \in Nat /\ f.comps[c].end \in 0 .. L
  <2>1. f.comps[c].end <= Len(f.text)
    BY <1>2, EditLogAssumption DEF LayoutsFit
  <2>2. LinesIn(f) /\ Len(f.text) \in Nat
    BY <1>2, LayoutLines
  <2>3. f.comps[c].end \in Nat
    BY <1>2, <2>2 DEF LinesIn
  <2> QED
    BY <1>1, <2>1, <2>2, <2>3
<1>5. t \in Seq(S) /\ Standing(f, t, ms, lo, hi, fin) /\ Len(t) \in Nat
  BY <1>1, <1>2 DEF Simulated
<1>6. PartsStand(f, t, ms, lo, hi) /\ OffsetsStand(t, ms, lo, hi, L)
  BY <1>1, <1>5 DEF Standing, PartsStand
<1>7. PICK o : o = f.comps[c].end /\ o \in 0 .. L /\ p = hi[o]
  <2>1. hi = [o \in 0 .. L |-> Cur(l, o, no)]
    BY Zenon, <1>1 DEF EndsAt
  <2> QED
    BY <1>3, <1>4, <2>1
<1>8. p \in Int
  BY <1>6, <1>7 DEF OffsetsStand
<1>9. its = <<e>>
  <2>1. SortIntents(<<e>>) = <<e>>
    BY <1>3, <1>8, OneSorted
  <2> QED
    BY Zenon, <1>3, <2>1
<1>10. p # NoPlace
  BY <1>3, <1>9 DEF NoText
<1>11. p \in Spots(lo, hi, o) /\ p \in 0 .. Len(t) /\ p \in Nat
  <2>1. p \in Spots(lo, hi, o)
    BY <1>7, <1>10 DEF Spots
  <2> QED
    BY <1>5, <1>6, <1>7, <2>1 DEF OffsetsStand
<1>12. e.text \in Seq(S) /\ Len(e.text) = 8 /\ e.text[1] # WS /\ e.text[5] # WS
  <2>1. /\ Addition(c) \in Seq(AtomsOf(f)) /\ Len(Addition(c)) = 8
        /\ Addition(c)[1] = <<"lookup", c>> /\ Addition(c)[5] = <<"keep", c>>
    BY <1>2, AdditionText
  <2>2. <<"lookup", c>> # WS /\ <<"keep", c>> # WS
    BY <1>2, EditLogAssumption DEF LayoutsFit
  <2> QED
    BY <1>1, <1>3, <2>1, <2>2
<1>13. PICK len : len = Len(t) /\ len \in Nat /\ IsEdit(S, len, e)
  BY <1>3, <1>5, <1>11, <1>12 DEF IsEdit
<1>14. PICK batch, N, u, all : /\ batch = Logged(its) /\ N = NewMarks(its) /\ u = ApplyText(t, its)
                               /\ all = MovedMarks(ms, batch) \cup N
  OBVIOUS
<1>15. EditsIn(S, len, its) /\ StartsApart(its) /\ Len(its) = 1 /\ its[1] = e
  BY <1>5, <1>9, <1>13, OneEdit
<1>16. /\ Len(batch) = 1 /\ batch[1].start = p /\ batch[1].end = p /\ InLine(batch)
       /\ Lands(batch, 1) = p /\ Ends(batch, 1) = p + 8 /\ N = PlacedAt(e.marks, p)
  <2>1. /\ Len(batch) = 1 /\ batch[1].start = e.start /\ batch[1].end = e.end /\ InLine(batch)
        /\ Lands(batch, 1) = e.start /\ Ends(batch, 1) = e.start + Len(e.text)
        /\ NewMarks(its) = PlacedAt(e.marks, e.start)
    BY <1>9, <1>13, <1>14, OneBatch
  <2> QED
    BY Zenon, <1>3, <1>12, <1>14, <2>1
<1>17. PICK M : M = e.marks
  OBVIOUS
<1>18. FitIn(M, 8) /\ CoverIn(N, DOMAIN f.comps, p, 8) /\ SpansApart(N, {p + 1, p + 5})
  <2>1. PICK X : X = DOMAIN f.comps /\ c \in X
    BY <1>2
  <2>2. M = {Mark("root", c, 0, 4), Mark("sibling", c, 1, 2), Mark("placeholder", c, 4, 4), Mark("sibling", c, 5, 2)}
    BY Zenon, <1>3, <1>17
  <2>3. N = PlacedAt(M, p)
    BY Zenon, <1>16, <1>17
  <2>4. FitIn(M, 8) /\ CoverIn(N, X, p, 8) /\ SpansApart(N, {p + 1, p + 5})
    BY <1>11, <2>1, <2>2, <2>3, AddMarks
  <2> QED
    BY Zenon, <2>1, <2>4
<1>19. MarksFit(its)
  <2>1. \A i \in 1 .. Len(its) : its[i].marks = M /\ Len(its[i].text) = 8
    BY <1>12, <1>15, <1>17
  <2> QED
    BY <1>18, <2>1 DEF MarksFit, FitIn
<1>20. MarksIn(N, DOMAIN f.comps, batch)
  BY <1>16, <1>18 DEF MarksIn, CoverIn
<1>21. ASSUME NEW k \in {1, 5} PROVE p + k \in 1 .. Len(u) /\ u[p + k] # WS /\ \A x \in MovedMarks(ms, batch) : ~Within(x, p + k)
  <2>1. k \in 1 .. Len(e.text)
    BY <1>12
  <2>2. e.start + k \in 1 .. Len(u) /\ u[e.start + k] = e.text[k]
    BY <1>5, <1>9, <1>13, <1>14, <2>1, WrittenAtoms
  <2>3. p + k \in Int /\ p < p + k /\ p + k <= p + 8
    BY <1>8
  <2>4. \A x \in MovedMarks(ms, batch) : ~Within(x, p + k)
    <3>1. PICK h : h = p + k
      OBVIOUS
    <3>2. /\ h \in Int /\ Lands(batch, 1) < h /\ h <= Ends(batch, 1)
          /\ batch[1].start \in Spots(lo, hi, o) /\ batch[1].end \in Spots(lo, hi, o)
          /\ o \in 0 .. Len(f.text)
      BY <1>1, <1>7, <1>11, <1>16, <2>3, <3>1
    <3>3. \A x \in MovedMarks(ms, batch) : ~Within(x, h)
      BY <1>5, <1>6, <1>16, <3>2, WrittenApart
    <3> QED
      BY <3>1, <3>3
  <2> QED
    BY <1>3, <1>12, <2>2, <2>4
<1>22. ASSUME NEW m \in N, IsSpan(m) PROVE \E j : Own(u, all, m, j)
  <2>1. PICK j \in {p + 1, p + 5} : Within(m, j) /\ \A x \in N : x # m => ~Within(x, j)
    BY <1>18, <1>22 DEF SpansApart
  <2>2. j \in 1 .. Len(u) /\ u[j] # WS /\ \A x \in MovedMarks(ms, batch) : ~Within(x, j)
    BY <1>21, <2>1
  <2> QED
    BY <1>14, <2>1, <2>2 DEF Own
<1>23. PassesOn(f, t, l, ms, its)
  BY <1>1, <1>2, <1>4, <1>13, <1>14, <1>15, <1>20, <1>22, EditsPass
<1>24. PICK from, to : from = StartsAt(f, LogAfter(l, its)) /\ to = EndsAt(f, LogAfter(l, its))
  OBVIOUS
<1>25. Passes(f, t, ms, lo, hi, batch, N, u, from, to)
  BY Zenon, <1>1, <1>14, <1>23, <1>24 DEF PassesOn
<1>26. \A j \in 1 .. Len(t) : t[j] # WS => Missed(batch, j)
  BY <1>11, <1>16 DEF Missed
<1>27. Standing(f, u, MovedMarks(ms, batch) \cup N, from, to, fin)
  BY <1>4, <1>5, <1>25, <1>26, NoCodeTaken
<1>28. Standing(f, ApplyText(t, its), MovedMarks(ms, Logged(its)) \cup NewMarks(its),
                StartsAt(f, LogAfter(l, its)), EndsAt(f, LogAfter(l, its)), fin)
  BY Zenon, <1>14, <1>24, <1>27
<1>29. EditsIn(AtomsOf(f), Len(t), its)
  BY Zenon, <1>1, <1>13, <1>15
<1>30. Simulated(f, ApplyText(t, its), LogAfter(l, its), MarksAfter(ms, its), fin)
  BY <1>2, <1>19, <1>28, <1>29, SimulatedAfter
<1>31. StepStands(f, t, l, ms, fin, its)
  BY <1>15, <1>19, <1>29, <1>30 DEF StepStands
<1> QED
  BY Zenon, <1>1, <1>31

(* A site is called by the name of a sibling, which is marked, or by none. *)
SiteMarks(name, M, X) ==
  \/ name = <<>> /\ M = {}
  \/ \E c \in X : name = Sibling(c) /\ M = {Mark("sibling", c, 1, 2)}

(* The edit of a site step.                                                *)
LEMMA SiteIntent ==
  ASSUME NEW s \in Sites
  PROVE  \E e, name : /\ SiteIntents(s) = <<e>> /\ e.start = Cur(log, file.sites[s].start, TRUE)
                      /\ e.end = Cur(log, file.sites[s].end, FALSE) /\ e.text = Call(s, name)
                      /\ SiteMarks(name, e.marks, DOMAIN file.comps)
<1>1. PICK r, x, y : r = file.sites[s] /\ x = Cur(log, r.start, TRUE) /\ y = Cur(log, r.end, FALSE)
  BY Zenon
<1>2. CASE r.comp \in Comps
  <2>1. PICK c, e : c = r.comp /\ e = ReplaceRange(r.start, r.end, Call(s, Sibling(c)), {SiblingAt(c, 1)})
    OBVIOUS
  <2>2. SiteIntents(s) = <<e>>
    BY Zenon, <1>1, <1>2, <2>1 DEF SiteIntents
  <2>3. e = Intent(x, y, Call(s, Sibling(c)), {SiblingAt(c, 1)})
    BY Zenon, <1>1, <2>1 DEF ReplaceRange
  <2>4. e.start = x /\ e.end = y /\ e.text = Call(s, Sibling(c)) /\ e.marks = {SiblingAt(c, 1)}
    BY <2>3 DEF Intent
  <2>5. c \in Comps /\ SiblingAt(c, 1) = Mark("sibling", c, 1, 2)
    <3>1. c \in Comps /\ c \in DOMAIN file.comps
      BY <1>2, <2>1 DEF Comps
    <3>2. Len(Sibling(c)) = 2
      BY <3>1, SiblingText
    <3> QED
      BY Zenon, <3>1, <3>2 DEF SiblingAt
  <2>6. e.marks = {Mark("sibling", c, 1, 2)}
    BY Zenon, <2>4, <2>5
  <2>7. SiteMarks(Sibling(c), e.marks, DOMAIN file.comps)
    BY Zenon, <2>5, <2>6 DEF SiteMarks, Comps
  <2> QED
    BY Zenon, <1>1, <2>2, <2>4, <2>7
<1>3. CASE r.comp \notin Comps
  <2>1. PICK e : e = ReplaceRange(r.start, r.end, Call(s, <<>>), {})
    OBVIOUS
  <2>2. SiteIntents(s) = <<e>>
    BY Zenon, <1>1, <1>3, <2>1 DEF SiteIntents
  <2>3. e = Intent(x, y, Call(s, <<>>), {})
    BY Zenon, <1>1, <2>1 DEF ReplaceRange
  <2>4. e.start = x /\ e.end = y /\ e.text = Call(s, <<>>) /\ e.marks = {}
    BY <2>3 DEF Intent
  <2>5. SiteMarks(<<>>, e.marks, DOMAIN file.comps)
    BY Zenon, <2>4 DEF SiteMarks
  <2> QED
    BY Zenon, <1>1, <2>2, <2>4, <2>5
<1> QED
  BY <1>2, <1>3

(* None of marks N is a span or covers atom j.                             *)
Clear(N, j) == \A m \in N : ~IsSpan(m) /\ ~Within(m, j)

(* What it writes and marks.                                               *)
LEMMA SiteText ==
  ASSUME NEW f, NEW s \in DOMAIN f.sites, NEW name, NEW M, NEW txt, txt = Call(s, name),
         SiteMarks(name, M, DOMAIN f.comps),
         NEW p \in Nat, NEW N, N = PlacedAt(M, p)
  PROVE  /\ txt \in Seq(AtomsOf(f)) /\ Len(txt) \in Nat /\ Len(txt) > 0 /\ txt[1] = <<"call", s>>
         /\ FitIn(M, Len(txt)) /\ CoverIn(N, DOMAIN f.comps, p, Len(txt))
         /\ Clear(N, p + 1)
<1>1. CASE name = <<>> /\ M = {}
  <2>1. name \in Seq(AtomsOf(f)) /\ Len(name) = 0
    BY <1>1
  <2>2. txt \in Seq(AtomsOf(f)) /\ Len(txt) = 1 + Len(name) /\ txt[1] = <<"call", s>>
    <3>1. /\ Call(s, name) \in Seq(AtomsOf(f)) /\ Len(Call(s, name)) = 1 + Len(name)
          /\ Call(s, name)[1] = <<"call", s>>
      BY <2>1, CallText
    <3> QED
      BY Zenon, <3>1
  <2>3. N = {} /\ IsFiniteSet(M)
    BY <1>1, FS_EmptySet DEF PlacedAt
  <2> QED
    BY <1>1, <2>1, <2>2, <2>3 DEF FitIn, CoverIn, Clear
<1>2. ASSUME NEW c \in DOMAIN f.comps, name = Sibling(c), M = {Mark("sibling", c, 1, 2)}
      PROVE  /\ txt \in Seq(AtomsOf(f)) /\ Len(txt) \in Nat /\ Len(txt) > 0 /\ txt[1] = <<"call", s>>
             /\ FitIn(M, Len(txt)) /\ CoverIn(N, DOMAIN f.comps, p, Len(txt))
             /\ Clear(N, p + 1)
  <2>1. name \in Seq(AtomsOf(f)) /\ Len(name) = 2
    BY <1>2, SiblingText
  <2>2. txt \in Seq(AtomsOf(f)) /\ Len(txt) = 1 + Len(name) /\ txt[1] = <<"call", s>>
    <3>1. /\ Call(s, name) \in Seq(AtomsOf(f)) /\ Len(Call(s, name)) = 1 + Len(name)
          /\ Call(s, name)[1] = <<"call", s>>
      BY <2>1, CallText
    <3> QED
      BY Zenon, <3>1
  <2>3. PICK a, b : a = Mark("sibling", c, 1, 2) /\ b = Mark("sibling", c, p + 1, 2)
    OBVIOUS
  <2>4. [a EXCEPT !.off = @ + p] = b
    BY <2>3 DEF Mark
  <2>5. N = {b}
    BY <1>2, <2>3, <2>4 DEF PlacedAt
  <2>6. b \in MarksOver(DOMAIN f.comps) /\ b.off = p + 1 /\ b.n = 2 /\ b.kind = "sibling" /\ a.off = 1 /\ a.n = 2
    BY <2>3 DEF Mark, MarksOver
  <2>7. IsFiniteSet(M)
    <3>1. M = {a} /\ IsFiniteSet({a})
      BY <1>2, <2>3, FS_Singleton
    <3> QED
      BY Zenon, <3>1
  <2>8. Len(txt) = 3
    BY <2>1, <2>2
  <2>9. FitIn(M, 3)
    BY <1>2, <2>3, <2>6, <2>7 DEF FitIn
  <2>10. CoverIn(N, DOMAIN f.comps, p, 3)
    BY <2>5, <2>6 DEF CoverIn
  <2>11. Clear(N, p + 1)
    BY <2>5, <2>6 DEF IsSpan, Within, Clear
  <2>12. 3 \in Nat /\ 3 > 0
    OBVIOUS
  <2> QED
    BY Zenon, <2>2, <2>8, <2>9, <2>10, <2>11, <2>12
<1> QED
  BY <1>1, <1>2 DEF SiteMarks

(* The spots of the ends of a site lie apart.                              *)
LEMMA SiteApart ==
  ASSUME NEW f \in Layouts, NEW t, NEW ms, NEW lo, NEW hi, NEW fin, Standing(f, t, ms, lo, hi, fin),
         NEW s \in DOMAIN f.sites, NEW a, a = f.sites[s].start, NEW b, b = f.sites[s].end,
         lo[a] # NoPlace, hi[b] # NoPlace
  PROVE  /\ a \in 0 .. Len(f.text) /\ b \in 0 .. Len(f.text)
         /\ lo[a] \in Spots(lo, hi, a) /\ hi[b] \in Spots(lo, hi, b)
         /\ lo[a] \in 0 .. Len(t) /\ hi[b] \in 0 .. Len(t) /\ lo[a] < hi[b]
<1>1. PICK r, L, x, y : r = f.sites[s] /\ L = Len(f.text) /\ x = lo[a] /\ y = hi[b]
  OBVIOUS
<1>2. r.start \in Nat /\ r.end \in Nat /\ r.start < r.end /\ r.end <= L /\ L \in Nat /\ HasPlace(f, r)
  BY <1>1, LayoutLines, EditLogAssumption DEF LayoutsFit
<1>3. a \in 0 .. L /\ b \in 0 .. L /\ a < b /\ Covers(r) = a .. b - 1 /\ a = r.start /\ b = r.end
  BY <1>1, <1>2 DEF Covers
<1>4. x \in Spots(lo, hi, a) /\ y \in Spots(lo, hi, b)
  BY <1>1 DEF Spots
<1>5. x \in 0 .. Len(t) /\ y \in 0 .. Len(t)
  <2>1. OffsetsStand(t, ms, lo, hi, L)
    BY <1>1 DEF Standing, PartsStand
  <2> QED
    BY <1>3, <1>4, <2>1 DEF OffsetsStand
<1>6. \E j : Solid(t, ms, j) /\ x < j /\ j <= y
  <2>1. CASE HasCode(f, Covers(r) \ UNION {Going(f.comps[c]) : c \in DOMAIN f.comps})
    <3>1. Outer(f, a, b)
      BY <1>3, <2>1 DEF Outer
    <3>2. AnchorsOutside(f, t, ms, lo, hi, fin)
      BY DEF Standing
    <3> QED
      BY <1>1, <1>3, <1>4, <3>1, <3>2 DEF AnchorsOutside
  <2>2. ASSUME NEW c \in DOMAIN f.comps, HasCode(f, Covers(r)), Covers(r) \subseteq Going(f.comps[c]),
               HasCode(f, Going(f.comps[c]) \ Covers(r))
        PROVE  \E j : Solid(t, ms, j) /\ x < j /\ j <= y
    <3>1. Inner(f, c, a, b) /\ HasCode(f, Going(f.comps[c]) \ (a .. b - 1))
      BY <1>3, <2>2 DEF Inner
    <3>2. AnchorsInside(f, t, ms, lo, hi, fin)
      BY DEF Standing
    <3> QED
      BY <1>1, <1>3, <1>4, <3>1, <3>2 DEF AnchorsInside
  <2> QED
    BY <1>2, <2>1, <2>2 DEF HasPlace
<1>7. x < y
  <2>1. PICK j : Solid(t, ms, j) /\ x < j /\ j <= y
    BY <1>6
  <2>2. j \in Int
    BY <2>1 DEF Solid
  <2> QED
    BY <1>5, <2>1, <2>2
<1> QED
  BY <1>1, <1>3, <1>4, <1>5, <1>7

(* A site step.                                                            *)
LEMMA SiteStands ==
  ASSUME file \in Layouts, NEW fin, Simulated(file, text, log, marks, fin), NEW s \in Sites,
         NEW its, its = SortIntents(SiteIntents(s)), ~NoText(its)
  PROVE  StepStands(file, text, log, marks, fin, its)
<1>1. PICK f, t, l, ms, S, L, lo, hi, no, yes :
        /\ f = file /\ t = text /\ l = log /\ ms = marks /\ S = AtomsOf(f) /\ L = Len(f.text)
        /\ lo = StartsAt(f, l) /\ hi = EndsAt(f, l) /\ no = FALSE /\ yes = TRUE
  BY Zenon
<1>2. f \in Layouts /\ Simulated(f, t, l, ms, fin) /\ s \in DOMAIN f.sites
  BY Zenon, <1>1 DEF Sites
<1>3. PICK e, name : /\ SiteIntents(s) = <<e>> /\ e.start = Cur(l, f.sites[s].start, yes)
                     /\ e.end = Cur(l, f.sites[s].end, no) /\ e.text = Call(s, name)
                     /\ SiteMarks(name, e.marks, DOMAIN f.comps)
  <2>1. PICK e, name : /\ SiteIntents(s) = <<e>> /\ e.start = Cur(log, file.sites[s].start, TRUE)
                       /\ e.end = Cur(log, file.sites[s].end, FALSE) /\ e.text = Call(s, name)
                       /\ SiteMarks(name, e.marks, DOMAIN file.comps)
    BY SiteIntent
  <2> QED
    BY Zenon, <1>1, <2>1
<1>4. PICK a, b, M : a = f.sites[s].start /\ b = f.sites[s].end /\ M = e.marks
  OBVIOUS
<1>5. LinesIn(f) /\ L \in Nat /\ a \in 0 .. L /\ b \in 0 .. L
  <2>1. LinesIn(f) /\ Len(f.text) \in Nat
    BY <1>2, LayoutLines
  <2>2. a \in Nat /\ b \in Nat /\ a < b /\ b <= Len(f.text)
    BY <1>2, <1>4, EditLogAssumption DEF LayoutsFit
  <2> QED
    BY <1>1, <2>1, <2>2
<1>6. t \in Seq(S) /\ Standing(f, t, ms, lo, hi, fin) /\ Len(t) \in Nat
  BY <1>1, <1>2 DEF Simulated
<1>7. PartsStand(f, t, ms, lo, hi) /\ OffsetsStand(t, ms, lo, hi, L)
  BY <1>1, <1>6 DEF Standing, PartsStand
<1>8. e.start = lo[a] /\ e.end = hi[b]
  <2>1. lo = [o \in 0 .. L |-> Cur(l, o, yes)] /\ hi = [o \in 0 .. L |-> Cur(l, o, no)]
    BY Zenon, <1>1 DEF StartsAt, EndsAt
  <2> QED
    BY <1>3, <1>4, <1>5, <2>1
<1>9. its = <<e>>
  <2>1. e.start \in Int /\ e.end \in Int
    BY <1>5, <1>7, <1>8 DEF OffsetsStand
  <2>2. SortIntents(<<e>>) = <<e>>
    BY <2>1, OneSorted
  <2> QED
    BY Zenon, <1>3, <2>2
<1>10. lo[a] # NoPlace /\ hi[b] # NoPlace
  BY <1>8, <1>9 DEF NoText
<1>11. /\ lo[a] \in Spots(lo, hi, a) /\ hi[b] \in Spots(lo, hi, b)
       /\ lo[a] \in 0 .. Len(t) /\ hi[b] \in 0 .. Len(t) /\ lo[a] < hi[b]
  BY <1>2, <1>4, <1>6, <1>10, SiteApart
<1>12. PICK p, d : p = lo[a] /\ d = hi[b] /\ p \in Nat /\ d \in Nat /\ p < d /\ d <= Len(t)
  BY <1>6, <1>11
<1>13. PICK len, batch, N, u, all : /\ len = Len(t) /\ batch = Logged(its) /\ N = NewMarks(its)
                                    /\ u = ApplyText(t, its) /\ all = MovedMarks(ms, batch) \cup N
  OBVIOUS
<1>14. PICK placed : placed = PlacedAt(M, p)
  OBVIOUS
<1>15. PICK n : n = Len(e.text)
  OBVIOUS
<1>16. /\ e.text \in Seq(S) /\ n \in Nat /\ n > 0 /\ e.text[1] # WS
       /\ FitIn(M, n) /\ CoverIn(placed, DOMAIN f.comps, p, n)
       /\ Clear(placed, p + 1)
  <2>1. SiteMarks(name, M, DOMAIN f.comps)
    BY Zenon, <1>3, <1>4
  <2>2. /\ e.text \in Seq(AtomsOf(f)) /\ Len(e.text) \in Nat /\ Len(e.text) > 0 /\ e.text[1] = <<"call", s>>
        /\ FitIn(M, Len(e.text)) /\ CoverIn(placed, DOMAIN f.comps, p, Len(e.text))
        /\ Clear(placed, p + 1)
    <3>1. PICK txt : txt = e.text /\ txt = Call(s, name)
      BY Zenon, <1>3
    <3>2. /\ txt \in Seq(AtomsOf(f)) /\ Len(txt) \in Nat /\ Len(txt) > 0 /\ txt[1] = <<"call", s>>
          /\ FitIn(M, Len(txt)) /\ CoverIn(placed, DOMAIN f.comps, p, Len(txt)) /\ Clear(placed, p + 1)
      BY <1>2, <1>12, <1>14, <2>1, <3>1, SiteText
    <3> QED
      BY Zenon, <3>1, <3>2
  <2>3. <<"call", s>> # WS
    BY <1>2, EditLogAssumption DEF LayoutsFit
  <2> QED
    BY Zenon, <1>1, <1>15, <2>2, <2>3
<1>17. IsEdit(S, len, e) /\ len \in Nat
  BY <1>6, <1>8, <1>12, <1>13, <1>16 DEF IsEdit
<1>18. EditsIn(S, len, its) /\ StartsApart(its) /\ Len(its) = 1 /\ its[1] = e
  BY <1>6, <1>9, <1>13, <1>17, OneEdit
<1>19. /\ Len(batch) = 1 /\ batch[1].start = p /\ batch[1].end = d /\ InLine(batch)
       /\ Lands(batch, 1) = p /\ Ends(batch, 1) = p + n /\ N = placed
  <2>1. /\ Len(batch) = 1 /\ batch[1].start = e.start /\ batch[1].end = e.end /\ InLine(batch)
        /\ Lands(batch, 1) = e.start /\ Ends(batch, 1) = e.start + Len(e.text)
        /\ NewMarks(its) = PlacedAt(e.marks, e.start)
    BY <1>9, <1>13, <1>17, OneBatch
  <2> QED
    BY Zenon, <1>4, <1>8, <1>12, <1>13, <1>14, <1>15, <2>1
<1>20. MarksFit(its)
  <2>1. \A i \in 1 .. Len(its) : its[i].marks = M /\ Len(its[i].text) = n
    BY <1>4, <1>15, <1>18
  <2> QED
    BY <1>16, <2>1 DEF MarksFit, FitIn
<1>21. MarksIn(N, DOMAIN f.comps, batch)
  BY <1>16, <1>19 DEF MarksIn, CoverIn
<1>22. Solid(u, all, p + 1)
  <2>1. p + 1 \in 1 .. Len(u) /\ u[p + 1] = e.text[1]
    <3>1. 1 \in 1 .. Len(e.text)
      BY <1>15, <1>16
    <3>2. e.start + 1 \in 1 .. Len(u) /\ u[e.start + 1] = e.text[1]
      BY <1>6, <1>9, <1>13, <1>17, <3>1, WrittenAtoms
    <3> QED
      BY <1>8, <1>12, <3>2
  <2>2. PICK h : h = p + 1
    OBVIOUS
  <2>3. /\ h \in Int /\ Lands(batch, 1) < h /\ h <= Ends(batch, 1)
        /\ batch[1].start \in Spots(lo, hi, a) /\ batch[1].end \in Spots(lo, hi, b)
        /\ a \in 0 .. Len(f.text) /\ b \in 0 .. Len(f.text)
    BY <1>1, <1>5, <1>11, <1>12, <1>16, <1>19, <2>2
  <2>4. \A x \in MovedMarks(ms, batch) : ~Within(x, h)
    BY <1>6, <1>7, <1>19, <2>3, WrittenApart
  <2>5. \A x \in N : ~Within(x, h)
    BY <1>16, <1>19, <2>2 DEF Clear
  <2>6. Solid(u, all, h)
    BY <1>13, <1>16, <2>1, <2>2, <2>4, <2>5 DEF Solid
  <2> QED
    BY <2>2, <2>6
<1>23. PassesOn(f, t, l, ms, its)
  <2>1. \A m \in NewMarks(its) : IsSpan(m) =>
           \E j : Own(ApplyText(t, its), MovedMarks(ms, Logged(its)) \cup NewMarks(its), m, j)
    BY Zenon, <1>13, <1>16, <1>19 DEF Clear
  <2>2. EditsIn(AtomsOf(f), Len(t), its) /\ MarksIn(NewMarks(its), DOMAIN f.comps, Logged(its)) /\ Len(f.text) \in Nat
    BY Zenon, <1>1, <1>5, <1>13, <1>18, <1>21
  <2> QED
    BY <1>2, <2>1, <2>2, EditsPass
<1>24. PICK from, to : from = StartsAt(f, LogAfter(l, its)) /\ to = EndsAt(f, LogAfter(l, its))
  OBVIOUS
<1>25. Passes(f, t, ms, lo, hi, batch, N, u, from, to)
  BY Zenon, <1>1, <1>13, <1>23, <1>24 DEF PassesOn
<1>26. OneRange(f, lo, hi, batch)
  BY <1>1, <1>5, <1>11, <1>12, <1>19 DEF OneRange
<1>27. Standing(f, u, MovedMarks(ms, batch) \cup N, from, to, fin)
  <2>1. PICK h : h = p + 1
    OBVIOUS
  <2>2. Solid(u, MovedMarks(ms, batch) \cup N, h)
    BY Zenon, <1>13, <1>22, <2>1
  <2>3. Lands(batch, 1) < h /\ h <= Ends(batch, 1)
    BY <1>12, <1>16, <1>19, <2>1
  <2> QED
    BY <1>5, <1>6, <1>25, <1>26, <2>2, <2>3, RangeReplaced
<1>28. Standing(f, ApplyText(t, its), MovedMarks(ms, Logged(its)) \cup NewMarks(its),
                StartsAt(f, LogAfter(l, its)), EndsAt(f, LogAfter(l, its)), fin)
  BY Zenon, <1>13, <1>24, <1>27
<1>29. EditsIn(AtomsOf(f), Len(t), its)
  BY Zenon, <1>1, <1>13, <1>18
<1>30. Simulated(f, ApplyText(t, its), LogAfter(l, its), MarksAfter(ms, its), fin)
  BY <1>2, <1>20, <1>28, <1>29, SimulatedAfter
<1>31. StepStands(f, t, l, ms, fin, its)
  BY <1>18, <1>20, <1>29, <1>30 DEF StepStands
<1> QED
  BY Zenon, <1>1, <1>31

(* Edit e writes atoms of S, without marks, in place of what is from x to  *)
(* y or of a mark.                                                         *)
FinishEdit(e, S, ms, x, y) ==
  /\ e.marks = {} /\ e.text \in Seq(S)
  /\ (e.start = x /\ e.end = y) \/ \E m \in ms : e.start = m.off /\ e.end = m.off + m.n

(* E are the edits of a finish step, that of the line among them.          *)
FinishEdits(E, S, ms, x, y) ==
  (\A e \in E : FinishEdit(e, S, ms, x, y)) /\ \E e \in E : e.start = x /\ e.end = y

(* The edits of a finish step.                                             *)
LEMMA FinishIntent ==
  ASSUME NEW c \in Comps, IsFiniteSet(marks), NEW E, E = RemoveIntents(c) \cup RenameIntents(c),
         NEW x, x = Cur(log, file.comps[c].start, TRUE), NEW y, y = Cur(log, GoesTo(file.comps[c]), FALSE)
  PROVE  IsFiniteSet(E) /\ FinishEdits(E, AtomsOf(file), marks, x, y)
<1>1. PICK d, S, new, spans, old :
        /\ d = file.comps[c] /\ S = AtomsOf(file)
        /\ new = (IF d.create THEN Create(c, Legacy(c)) ELSE <<>>)
        /\ spans = SpansOf("placeholder", c) \cup (IF d.create THEN SpansOf("root", c) ELSE {})
        /\ old = ReplaceRange(d.start, GoesTo(d), new, {})
  OBVIOUS
<1>2. PICK gone, named : /\ gone = {Deletes(m.off, m.off + m.n) : m \in spans}
                         /\ named = RenameIntents(c)
  OBVIOUS
<1>3. E = ({old} \cup gone) \cup named
  <2>1. RemoveIntents(c) = {old} \cup gone
    BY Zenon, <1>1, <1>2 DEF RemoveIntents
  <2> QED
    BY Zenon, <1>2, <2>1
<1>4. new \in Seq(S) /\ Legacy(c) \in Seq(S) /\ <<>> \in Seq(S)
  <2>1. c \in DOMAIN file.comps
    BY DEF Comps
  <2>2. Create(c, Legacy(c)) \in Seq(AtomsOf(file)) /\ Legacy(c) \in Seq(AtomsOf(file))
    BY <2>1, CreateText, SiblingText
  <2>3. <<>> \in Seq(S)
    OBVIOUS
  <2> QED
    BY Zenon, <1>1, <2>2, <2>3
<1>5. old.start = x /\ old.end = y /\ old.text = new /\ old.marks = {}
  <2>1. old = Intent(x, y, new, {})
    BY Zenon, <1>1 DEF ReplaceRange
  <2> QED
    BY <2>1 DEF Intent
<1>6. spans \subseteq marks
  <2>1. SpansOf("placeholder", c) \subseteq marks /\ SpansOf("root", c) \subseteq marks
    BY DEF SpansOf
  <2> QED
    BY Zenon, <1>1, <2>1
<1>7. IsFiniteSet(gone)
  <2>1. PICK g : g = [m \in spans |-> Deletes(m.off, m.off + m.n)]
    OBVIOUS
  <2>2. gone = {g[m] : m \in spans}
    BY <1>2, <2>1
  <2>3. IsFiniteSet(spans)
    BY <1>6, FS_Subset
  <2> QED
    BY <2>2, <2>3, FiniteImage
<1>8. ASSUME NEW e \in gone PROVE FinishEdit(e, S, marks, x, y)
  <2>1. PICK m \in spans : e = Deletes(m.off, m.off + m.n)
    BY <1>2
  <2>2. e.start = m.off /\ e.end = m.off + m.n /\ e.text = <<>> /\ e.marks = {}
    BY <2>1 DEF Deletes, Intent
  <2>3. m \in marks
    BY <1>6
  <2>4. \E z \in marks : e.start = z.off /\ e.end = z.off + z.n
    BY <2>2, <2>3
  <2> QED
    BY Zenon, <1>4, <2>2, <2>4 DEF FinishEdit
<1>9. \E T : /\ T \subseteq marks /\ named = {Intent(m.off, m.off + m.n, Legacy(c), {}) : m \in T}
  <2> DEFINE Removed(m) == \E r \in RemoveIntents(c) :
                              r.start < r.end /\ r.start <= m.off /\ m.off + m.n <= r.end
  <2>1. PICK T : T = {z \in SpansOf("sibling", c) : ~Removed(z)}
    OBVIOUS
  <2>2. T \subseteq marks
    BY <2>1 DEF SpansOf
  <2>3. named = {Intent(m.off, m.off + m.n, Legacy(c), {}) : m \in T}
    BY Zenon, <1>2, <2>1 DEF RenameIntents
  <2> QED
    BY <2>2, <2>3
<1>10. PICK T : T \subseteq marks /\ named = {Intent(m.off, m.off + m.n, Legacy(c), {}) : m \in T}
  BY <1>9
<1>11. IsFiniteSet(named)
  <2>1. PICK g : g = [m \in T |-> Intent(m.off, m.off + m.n, Legacy(c), {})]
    OBVIOUS
  <2>2. named = {g[m] : m \in T}
    BY <1>10, <2>1
  <2>3. IsFiniteSet(T)
    BY <1>10, FS_Subset
  <2> QED
    BY <2>2, <2>3, FiniteImage
<1>12. ASSUME NEW e \in named PROVE FinishEdit(e, S, marks, x, y)
  <2>1. PICK m \in T : e = Intent(m.off, m.off + m.n, Legacy(c), {})
    BY <1>10
  <2>2. e.start = m.off /\ e.end = m.off + m.n /\ e.text = Legacy(c) /\ e.marks = {}
    BY <2>1 DEF Intent
  <2>3. m \in marks
    BY <1>10
  <2>4. \E z \in marks : e.start = z.off /\ e.end = z.off + z.n
    BY <2>2, <2>3
  <2> QED
    BY Zenon, <1>4, <2>2, <2>4 DEF FinishEdit
<1>13. FinishEdit(old, S, marks, x, y)
  BY Zenon, <1>4, <1>5 DEF FinishEdit
<1>14. IsFiniteSet(E)
  <2>1. IsFiniteSet({old})
    BY FS_Singleton
  <2>2. IsFiniteSet({old} \cup gone)
    BY <1>7, <2>1, FS_Union
  <2>3. IsFiniteSet(({old} \cup gone) \cup named)
    BY <1>11, <2>2, FS_Union
  <2> QED
    BY Zenon, <1>3, <2>3
<1>15. \A e \in E : FinishEdit(e, S, marks, x, y)
  BY Zenon, <1>3, <1>8, <1>12, <1>13
<1>16. old \in E
  BY <1>3
<1> QED
  BY Zenon, <1>1, <1>5, <1>14, <1>15, <1>16 DEF FinishEdits

(* The spots of the ends of what goes of a line lie apart.                 *)
LEMMA LineApart ==
  ASSUME NEW f, LinesIn(f), NEW t, NEW ms, NEW lo, NEW hi, NEW fin, Standing(f, t, ms, lo, hi, fin),
         NEW c \in DOMAIN f.comps, c \notin fin, NEW a, a = f.comps[c].start, NEW b, b = GoesTo(f.comps[c]),
         lo[a] # NoPlace, hi[b] # NoPlace
  PROVE  lo[a] \in 0 .. Len(t) /\ hi[b] \in 0 .. Len(t) /\ lo[a] < hi[b]
<1>1. PICK L, x, y : L = Len(f.text) /\ x = lo[a] /\ y = hi[b]
  OBVIOUS
<1>2. a \in 0 .. L /\ b \in 0 .. L /\ a < b /\ L \in Nat /\ HasCode(f, Going(f.comps[c]))
  BY <1>1 DEF LinesIn
<1>3. x \in Spots(lo, hi, a) /\ y \in Spots(lo, hi, b)
  BY <1>1 DEF Spots
<1>4. x \in 0 .. Len(t) /\ y \in 0 .. Len(t)
  <2>1. OffsetsStand(t, ms, lo, hi, L)
    BY <1>1 DEF Standing, PartsStand
  <2> QED
    BY <1>2, <1>3, <2>1 DEF OffsetsStand
<1>5. Inner(f, c, a, b)
  <2>1. Going(f.comps[c]) = a .. b - 1
    BY DEF Going
  <2> QED
    BY <1>2, <2>1 DEF Inner
<1>6. PICK j : Solid(t, ms, j) /\ x < j /\ j <= y
  <2>1. AnchorsInside(f, t, ms, lo, hi, fin)
    BY DEF Standing
  <2> QED
    BY <1>1, <1>2, <1>3, <1>5, <2>1 DEF AnchorsInside
<1>7. j \in Int
  BY <1>6 DEF Solid
<1> QED
  BY <1>1, <1>4, <1>6, <1>7

(* A finish step.                                                          *)
LEMMA FinishStands ==
  ASSUME file \in Layouts, NEW fin, Simulated(file, text, log, marks, fin), NEW c \in Comps, c \notin fin,
         NEW its, its = SortIntents(FinishIntents(c)), ~NoText(its)
  PROVE  StepStands(file, text, log, marks, fin \cup {c}, its)
<1>1. PICK f, t, l, ms, S, L, lo, hi, no, yes :
        /\ f = file /\ t = text /\ l = log /\ ms = marks /\ S = AtomsOf(f) /\ L = Len(f.text)
        /\ lo = StartsAt(f, l) /\ hi = EndsAt(f, l) /\ no = FALSE /\ yes = TRUE
  BY Zenon
<1>2. f \in Layouts /\ Simulated(f, t, l, ms, fin) /\ c \in DOMAIN f.comps
  BY Zenon, <1>1 DEF Comps
<1>3. PICK a, b : a = f.comps[c].start /\ b = GoesTo(f.comps[c])
  OBVIOUS
<1>4. LinesIn(f) /\ L \in Nat /\ a \in 0 .. L /\ b \in 0 .. L
  <2>1. LinesIn(f) /\ Len(f.text) \in Nat
    BY <1>2, LayoutLines
  <2> QED
    BY <1>1, <1>2, <1>3, <2>1 DEF LinesIn
<1>5. t \in Seq(S) /\ Standing(f, t, ms, lo, hi, fin) /\ Len(t) \in Nat /\ IsFiniteSet(ms)
  BY <1>1, <1>2 DEF Simulated
<1>6. MarksStand(t, ms, DOMAIN f.comps) /\ OffsetsStand(t, ms, lo, hi, L)
  BY <1>1, <1>5 DEF Standing, PartsStand
<1>7. PICK x, y : x = lo[a] /\ y = hi[b] /\ x \in Int /\ y \in Int
  BY <1>4, <1>6 DEF OffsetsStand
<1>8. x = Cur(l, a, yes) /\ y = Cur(l, b, no)
  <2>1. lo = [o \in 0 .. L |-> Cur(l, o, yes)] /\ hi = [o \in 0 .. L |-> Cur(l, o, no)]
    BY Zenon, <1>1 DEF StartsAt, EndsAt
  <2> QED
    BY <1>4, <1>7, <2>1
<1>9. PICK E : E = RemoveIntents(c) \cup RenameIntents(c)
  OBVIOUS
<1>10. /\ IsFiniteSet(E) /\ \A e \in E : FinishEdit(e, S, ms, x, y)
       /\ \E e \in E : e.start = x /\ e.end = y
  <2>1. x = Cur(log, file.comps[c].start, TRUE) /\ y = Cur(log, GoesTo(file.comps[c]), FALSE) /\ IsFiniteSet(marks)
    BY Zenon, <1>1, <1>3, <1>5, <1>8
  <2>2. IsFiniteSet(E) /\ FinishEdits(E, AtomsOf(file), marks, x, y)
    BY Zenon, <1>9, <2>1, FinishIntent
  <2> QED
    BY Zenon, <1>1, <2>2 DEF FinishEdits
<1>11. PICK list : list = SetToSeq(E)
  OBVIOUS
<1>12. its = SortIntents(list)
  BY Zenon, <1>9, <1>11 DEF FinishIntents
<1>13. list \in Seq(E) /\ \A e \in E : \E i \in 1 .. Len(list) : list[i] = e
  BY <1>10, <1>11, ListedSet
<1>14. \A e \in E : e.start \in Int /\ e.end \in Int
  <2>1. \A m \in ms : m.off \in Int /\ m.n \in Int
    BY <1>6 DEF MarksStand, MarksOver
  <2> QED
    BY <1>7, <1>10, <2>1 DEF FinishEdit
<1>15. /\ its \in Seq(E) /\ \A e \in E : \E k \in 1 .. Len(its) : its[k] = e
  <2>1. \A i \in 1 .. Len(list) : list[i].start \in Int /\ list[i].end \in Int
    BY <1>13, <1>14
  <2>2. /\ SortIntents(list) \in Seq(E) /\ Len(SortIntents(list)) = Len(list)
        /\ \A i \in 1 .. Len(list) : \E k \in 1 .. Len(list) : SortIntents(list)[k] = list[i]
    BY <1>13, <2>1, SortedSame
  <2>3. /\ its \in Seq(E) /\ Len(its) = Len(list)
        /\ \A i \in 1 .. Len(list) : \E k \in 1 .. Len(list) : its[k] = list[i]
    BY Zenon, <1>12, <2>2
  <2>4. ASSUME NEW e \in E PROVE \E k \in 1 .. Len(its) : its[k] = e
    <3>1. PICK i \in 1 .. Len(list) : list[i] = e
      BY <1>13
    <3>2. PICK k \in 1 .. Len(list) : its[k] = list[i]
      BY <2>3
    <3> QED
      BY <2>3, <3>1, <3>2
  <2> QED
    BY <2>3, <2>4
<1>16. \A i \in 1 .. Len(its) : its[i] \in E /\ i \in DOMAIN its
  BY <1>15
<1>17. PICK w \in 1 .. Len(its) : its[w].start = x /\ its[w].end = y
  <2>1. PICK e \in E : e.start = x /\ e.end = y
    BY <1>10
  <2>2. PICK w \in 1 .. Len(its) : its[w] = e
    BY <1>15
  <2> QED
    BY <2>1, <2>2
<1>18. x # NoPlace /\ y # NoPlace
  BY <1>16, <1>17 DEF NoText
<1>19. x \in 0 .. Len(t) /\ y \in 0 .. Len(t) /\ x < y
  <2>1. lo[a] # NoPlace /\ hi[b] # NoPlace
    BY <1>7, <1>18
  <2>2. lo[a] \in 0 .. Len(t) /\ hi[b] \in 0 .. Len(t) /\ lo[a] < hi[b]
    BY <1>2, <1>3, <1>4, <1>5, <2>1, LineApart
  <2> QED
    BY <1>7, <2>2
<1>20. PICK len : len = Len(t) /\ len \in Nat
  BY <1>5
<1>21. ASSUME NEW e \in E PROVE IsEdit(S, len, e) /\ e.start < e.end /\ e.marks = {}
  <2>1. e.text \in Seq(S) /\ e.marks = {}
    BY <1>10 DEF FinishEdit
  <2>2. CASE e.start = x /\ e.end = y
    BY <1>19, <1>20, <2>1, <2>2 DEF IsEdit
  <2>3. ASSUME NEW m \in ms, e.start = m.off, e.end = m.off + m.n PROVE IsEdit(S, len, e) /\ e.start < e.end
    <3>1. m.off \in Int /\ m.n \in Int /\ m.n > 0 /\ 0 <= m.off /\ m.off + m.n <= len
      BY <1>6, <1>20 DEF MarksStand, MarksOver
    <3> QED
      BY <1>20, <2>1, <2>3, <3>1 DEF IsEdit
  <2>4. (e.start = x /\ e.end = y) \/ \E m \in ms : e.start = m.off /\ e.end = m.off + m.n
    BY <1>10 DEF FinishEdit
  <2> QED
    BY <2>1, <2>2, <2>3, <2>4
<1>22. EditsIn(S, len, its) /\ StartsApart(its)
  <2>1. \A i \in 1 .. Len(its) : IsEdit(S, len, its[i]) /\ its[i].start < its[i].end
    BY <1>16, <1>21
  <2>2. ~Overlap(its)
    BY DEF NoText
  <2> QED
    BY <1>15, <1>20, <2>1, <2>2, SortedInOrder
<1>23. MarksFit(its) /\ NewMarks(its) = {}
  <2>1. PICK none : none = {} /\ IsFiniteSet(none)
    BY FS_EmptySet
  <2>2. \A i \in 1 .. Len(its) : its[i].marks = none
    BY <1>16, <1>21, <2>1
  <2>3. MarksFit(its)
    BY <2>1, <2>2 DEF MarksFit
  <2>4. DOMAIN its = 1 .. Len(its)
    BY <1>15
  <2>5. NewMarks(its) = {}
    BY <2>1, <2>2, <2>4 DEF NewMarks
  <2> QED
    BY <2>3, <2>5
<1>24. PICK batch, N, u, from, to :
         /\ batch = Logged(its) /\ N = NewMarks(its) /\ u = ApplyText(t, its)
         /\ from = StartsAt(f, LogAfter(l, its)) /\ to = EndsAt(f, LogAfter(l, its))
  OBVIOUS
<1>25. /\ Len(batch) = Len(its)
       /\ \A i \in 1 .. Len(its) : batch[i].start = its[i].start /\ batch[i].end = its[i].end
  <2>1. /\ Len(Logged(its)) = Len(its)
        /\ \A i \in 1 .. Len(its) : Logged(its)[i].start = its[i].start /\ Logged(its)[i].end = its[i].end
    BY ONLY <1>20, <1>22, LoggedInLine
  <2> QED
    BY Zenon, <1>24, <2>1
<1>26. Finishes(f, ms, lo, hi, c, batch)
  <2>1. lo[f.comps[c].start] = x /\ hi[GoesTo(f.comps[c])] = y
    BY Zenon, <1>3, <1>7
  <2>2. \E i \in 1 .. Len(batch) : batch[i].start = x /\ batch[i].end = y
    BY <1>17, <1>25
  <2>3. ASSUME NEW i \in 1 .. Len(batch)
        PROVE  \/ batch[i].start = x /\ batch[i].end = y
               \/ \E m \in ms : batch[i].start = m.off /\ batch[i].end = m.off + m.n
    <3>1. i \in 1 .. Len(its) /\ its[i] \in E
      BY <1>16, <1>25
    <3>2. FinishEdit(its[i], S, ms, x, y)
      BY <1>10, <3>1
    <3> QED
      BY <1>25, <3>1, <3>2 DEF FinishEdit
  <2> QED
    BY <1>18, <2>1, <2>2, <2>3 DEF Finishes
<1>27. EditsIn(AtomsOf(f), Len(t), its)
  BY Zenon, <1>1, <1>20, <1>22
<1>28. PassesOn(f, t, l, ms, its)
  <2>1. MarksIn(NewMarks(its), DOMAIN f.comps, Logged(its))
    BY <1>23 DEF MarksIn
  <2>2. \A m \in NewMarks(its) : IsSpan(m) =>
           \E j : Own(ApplyText(t, its), MovedMarks(ms, Logged(its)) \cup NewMarks(its), m, j)
    BY <1>23
  <2>3. Len(f.text) \in Nat
    BY <1>1, <1>4
  <2> QED
    BY <1>2, <1>27, <2>1, <2>2, <2>3, EditsPass
<1>29. Passes(f, t, ms, lo, hi, batch, N, u, from, to)
  BY Zenon, <1>1, <1>24, <1>28 DEF PassesOn
<1>30. Standing(f, u, MovedMarks(ms, batch) \cup N, from, to, fin \cup {c})
  <2>1. c \in DOMAIN f.comps \ fin
    BY <1>2
  <2> QED
    BY <1>4, <1>5, <1>26, <1>29, <2>1, LineFinished
<1>31. Standing(f, ApplyText(t, its), MovedMarks(ms, Logged(its)) \cup NewMarks(its),
                StartsAt(f, LogAfter(l, its)), EndsAt(f, LogAfter(l, its)), fin \cup {c})
  BY Zenon, <1>24, <1>30
<1>32. Simulated(f, ApplyText(t, its), LogAfter(l, its), MarksAfter(ms, its), fin \cup {c})
  BY <1>2, <1>23, <1>27, <1>31, SimulatedAfter
<1>33. StepStands(f, t, l, ms, fin \cup {c}, its)
  BY <1>22, <1>23, <1>27, <1>32 DEF StepStands
<1> QED
  BY Zenon, <1>1, <1>33

-----------------------------------------------------------------------------
(* The texts so far and the batches between them.                          *)

(* The batches since each past text make the text of it.                   *)
History(S, l, ps, t) ==
  /\ l \in Seq(Seq(LogEntry)) /\ ps \in Seq(Seq(S)) /\ Len(ps) = Len(l)
  /\ \A i \in 1 .. Len(l) : Chained(S, Drop(l, i - 1), ps[i], t)

(* What is dropped from the front of a sequence and what is put behind it. *)
LEMMA DropAppend ==
  ASSUME NEW B, NEW l \in Seq(B), NEW b \in B, NEW n \in 0 .. Len(l)
  PROVE  Drop(l, n) \in Seq(B) /\ Drop(Append(l, b), n) = Append(Drop(l, n), b)
<1>1. PICK k : k = Len(l) /\ k \in Nat /\ n \in 0 .. k
  OBVIOUS
<1>2. PICK more : more = Append(l, b)
  OBVIOUS
<1>3. more = Append(l, b) /\ more \in Seq(B) /\ Len(more) = k + 1
  BY <1>2, <1>1
<1>4. /\ more[k + 1] = b /\ \A i \in 1 .. k : more[i] = l[i]
  BY <1>1, <1>3
<1>5. PICK d, e : d = SubSeq(l, n + 1, k) /\ e = SubSeq(more, n + 1, k + 1)
  OBVIOUS
<1>6. d \in Seq(B) /\ Len(d) = k - n /\ \A i \in 1 .. k - n : d[i] = l[n + i]
  <2>1. d = [i \in 1 .. k - n |-> l[n + i]]
    BY <1>1, <1>5
  <2>2. k - n \in Nat /\ \A i \in 1 .. k - n : l[n + i] \in B
    BY <1>1
  <2> QED
    BY <2>1, <2>2
<1>7. e \in Seq(B) /\ Len(e) = (k - n) + 1 /\ \A i \in 1 .. (k - n) + 1 : e[i] = more[n + i]
  <2>1. e = [i \in 1 .. (k - n) + 1 |-> more[n + i]]
    BY <1>1, <1>3, <1>5
  <2>2. (k - n) + 1 \in Nat /\ \A i \in 1 .. (k - n) + 1 : more[n + i] \in B
    BY <1>1, <1>3
  <2> QED
    BY <2>1, <2>2
<1>8. PICK g : g = Append(d, b)
  OBVIOUS
<1>9. g = Append(d, b) /\ g \in Seq(B) /\ Len(g) = (k - n) + 1
  BY <1>6, <1>8
<1>10. g[(k - n) + 1] = b /\ \A i \in 1 .. k - n : g[i] = d[i]
  BY <1>1, <1>6, <1>9
<1>11. ASSUME NEW i \in 1 .. (k - n) + 1 PROVE e[i] = g[i]
  <2>1. CASE i = (k - n) + 1
    <3>1. n + i = k + 1
      BY <1>1, <2>1
    <3> QED
      BY <1>4, <1>7, <1>10, <2>1, <3>1
  <2>2. CASE i # (k - n) + 1
    <3>1. i \in 1 .. k - n /\ n + i \in 1 .. k
      BY <1>1, <2>2
    <3> QED
      BY <1>4, <1>6, <1>7, <1>10, <3>1
  <2> QED
    BY <2>1, <2>2
<1>12. e = g
  BY <1>7, <1>9, <1>11
<1>13. Drop(l, n) = d /\ Drop(Append(l, b), n) = e
  BY Zenon, <1>1, <1>3, <1>5 DEF Drop
<1> QED
  BY Zenon, <1>6, <1>9, <1>12, <1>13

(* The history of the file as loaded.                                      *)
LEMMA HistoryNone ==
  ASSUME NEW S, NEW t
  PROVE  History(S, <<>>, <<>>, t)
<1>1. PICK none : none = << >>
  OBVIOUS
<1>2. none \in Seq(Seq(LogEntry)) /\ none \in Seq(Seq(S)) /\ Len(none) = 0
  BY <1>1
<1>3. History(S, none, none, t)
  BY <1>2 DEF History
<1> QED
  BY Zenon, <1>1, <1>3

(* Edits of the text lengthen its history.                                 *)
LEMMA HistoryGrows ==
  ASSUME NEW S, NEW l, NEW ps, NEW t \in Seq(S), History(S, l, ps, t), NEW its, EditsIn(S, Len(t), its)
  PROVE  History(S, LogAfter(l, its), Append(ps, t), ApplyText(t, its))
<1>1. PICK n, b, u, more, qs : /\ n = Len(l) /\ b = Logged(its) /\ u = ApplyText(t, its)
                               /\ more = Append(l, b) /\ qs = Append(ps, t)
  OBVIOUS
<1>2. /\ l \in Seq(Seq(LogEntry)) /\ ps \in Seq(Seq(S)) /\ Len(ps) = n /\ n \in Nat
      /\ \A i \in 1 .. n : Chained(S, Drop(l, i - 1), ps[i], t)
  BY <1>1 DEF History
<1>3. b \in Seq(LogEntry)
  BY <1>1, EditsTurn
<1>4. /\ more \in Seq(Seq(LogEntry)) /\ Len(more) = n + 1 /\ qs \in Seq(Seq(S)) /\ Len(qs) = n + 1
      /\ qs[n + 1] = t /\ \A i \in 1 .. n : qs[i] = ps[i]
  BY <1>1, <1>2, <1>3
<1>5. ASSUME NEW i \in 1 .. n + 1 PROVE Chained(S, Drop(more, i - 1), qs[i], u)
  <2>1. i - 1 \in 0 .. Len(l)
    BY <1>1, <1>2
  <2>2. PICK old : old = Drop(l, i - 1)
    OBVIOUS
  <2>3. old \in Seq(Seq(LogEntry)) /\ Drop(more, i - 1) = Append(old, b)
    BY <1>1, <1>2, <1>3, <2>1, <2>2, DropAppend
  <2>4. Chained(S, old, qs[i], t)
    <3>1. CASE i = n + 1
      <4>1. old = << >>
        BY <1>1, <1>2, <2>2, <3>1 DEF Drop
      <4>2. Chained(S, << >>, t, t)
        BY ChainNone
      <4> QED
        BY Zenon, <1>4, <3>1, <4>1, <4>2
    <3>2. CASE i # n + 1
      <4>1. i \in 1 .. n
        BY <1>2, <3>2
      <4> QED
        BY Zenon, <1>2, <1>4, <2>2, <4>1
    <3> QED
      BY <3>1, <3>2
  <2>5. PICK before : before = qs[i]
    OBVIOUS
  <2>6. Chained(S, Append(old, Logged(its)), before, ApplyText(t, its))
    BY <2>3, <2>4, <2>5, ChainGrows
  <2> QED
    BY Zenon, <1>1, <2>3, <2>5, <2>6
<1>6. History(S, more, qs, u)
  BY <1>4, <1>5 DEF History
<1> QED
  BY Zenon, <1>1, <1>6 DEF LogAfter

(* A step's edits and gofmt's own compose.                                 *)
LEMMA TwoCompose ==
  ASSUME NEW S, NEW t \in Seq(S), NEW its, EditsIn(S, Len(t), its), NEW new, new = ApplyText(t, its),
         NEW fe, EditsIn(S, Len(new), fe), NEW after, after = ApplyText(new, fe),
         NEW batches, batches = <<Logged(its), Logged(fe)>>
  PROVE  Composes(t, after, batches) /\ Splice(t, Compose(t, after, batches)) = after
<1>1. PICK a, b : a = Logged(its) /\ b = Logged(fe)
  OBVIOUS
<1>2. new \in Seq(S)
  BY EditsTurn
<1>3. a \in Seq(LogEntry) /\ b \in Seq(LogEntry)
  BY <1>1, <1>2, EditsTurn
<1>4. PICK none, one : none = << >> /\ one = Append(none, a)
  OBVIOUS
<1>5. none \in Seq(Seq(LogEntry)) /\ one \in Seq(Seq(LogEntry)) /\ batches = Append(one, b)
  BY <1>1, <1>3, <1>4
<1>6. Chained(S, none, t, t)
  <2>1. Chained(S, << >>, t, t)
    BY ChainNone
  <2> QED
    BY Zenon, <1>4, <2>1
<1>7. Chained(S, one, t, new)
  <2>1. Chained(S, Append(none, Logged(its)), t, ApplyText(t, its))
    BY <1>5, <1>6, ChainGrows
  <2> QED
    BY Zenon, <1>1, <1>4, <2>1
<1>8. Chained(S, batches, t, after)
  <2>1. Chained(S, Append(one, Logged(fe)), t, ApplyText(new, fe))
    BY <1>5, <1>7, ChainGrows
  <2> QED
    BY Zenon, <1>1, <1>5, <2>1
<1>9. PICK edits : edits = Compose(t, after, batches)
  OBVIOUS
<1>10. Composes(t, after, batches) /\ Gives(S, t, edits, after)
  BY <1>8, <1>9, ChainedComposes
<1>11. EditsIn(S, Len(t), edits) /\ Apart(edits) /\ ApplyText(t, edits) = after
  BY <1>10 DEF Gives
<1>12. Splice(t, edits) = ApplyText(t, edits)
  <2>1. PICK len : len = Len(t) /\ len \in Nat
    OBVIOUS
  <2>2. StartsApart(edits)
    BY <1>11, <2>1, ApartStarts
  <2> QED
    BY <1>11, <2>2, SpliceGives
<1> QED
  BY Zenon, <1>9, <1>10, <1>11, <1>12

(* The components of d's finish steps.                                     *)
FinishedIn(f, d) == {c \in DOMAIN f.comps : <<"finish", c>> \in d}

(* The invariant: the simulated text stands, the batches since every past  *)
(* text make it, and the reader of the recorded edits has it.              *)
IInv ==
  /\ file \in Layouts /\ lost \subseteq done /\ done \subseteq Steps /\ formats \in 0 .. MaxFormats
  /\ disk = text /\ (log = <<>> => text = file.text) /\ (log # <<>> => past[1] = file.text)
  /\ History(AtomsOf(file), log, past, text)
  /\ Simulated(file, text, log, marks, FinishedIn(file, done))

(* The file as loaded.                                                     *)
LEMMA InitStands == Init => IInv
<1> SUFFICES ASSUME Init PROVE IInv
  OBVIOUS
<1>1. /\ file \in Layouts /\ text = file.text /\ disk = file.text /\ log = <<>> /\ past = <<>> /\ marks = {}
      /\ done = {} /\ lost = {} /\ formats = 0
  BY DEF Init
<1>2. formats \in 0 .. MaxFormats
  BY <1>1, EditLogAssumption
<1>3. FinishedIn(file, done) = {}
  BY <1>1 DEF FinishedIn
<1>4. Simulated(file, file.text, <<>>, {}, {})
  BY <1>1, LayoutStands
<1>5. Simulated(file, text, log, marks, FinishedIn(file, done))
  BY Zenon, <1>1, <1>3, <1>4
<1>6. History(AtomsOf(file), <<>>, <<>>, text)
  BY HistoryNone
<1>7. History(AtomsOf(file), log, past, text)
  BY Zenon, <1>1, <1>6
<1>8. disk = text /\ (log = <<>> => text = file.text) /\ (log # <<>> => past[1] = file.text)
  BY <1>1
<1>9. lost \subseteq done /\ done \subseteq Steps
  BY <1>1
<1> QED
  BY <1>1, <1>2, <1>5, <1>7, <1>8, <1>9 DEF IInv

(* The first text is t0.                                                   *)
FirstIs(l, ps, t, t0) == (l = <<>> => t = t0) /\ (l # <<>> => ps[1] = t0)

(* The first text of a history that grows.                                 *)
LEMMA FirstText ==
  ASSUME NEW S, NEW l, NEW ps, NEW t, History(S, l, ps, t), t \in Seq(S), NEW t0,
         FirstIs(l, ps, t, t0), NEW b, NEW l2, l2 = Append(l, b), NEW ps2, ps2 = Append(ps, t)
  PROVE  l2 # <<>> /\ ps2[1] = t0
<1>1. /\ l \in Seq(Seq(LogEntry)) /\ ps \in Seq(Seq(S)) /\ Len(ps) = Len(l) /\ Len(l) \in Nat
  BY DEF History
<1>2. l2 # <<>>
  <2>1. PICK B : B = Seq(LogEntry) \cup {b}
    OBVIOUS
  <2>2. l \in Seq(B) /\ b \in B
    BY <1>1, <2>1
  <2>3. Len(l2) = Len(l) + 1
    BY <2>2
  <2> QED
    BY <1>1, <2>3
<1>3. CASE l = <<>>
  BY <1>1, <1>3 DEF FirstIs
<1>4. CASE l # <<>>
  <2>1. Len(l) > 0
    BY <1>1, <1>4
  <2>2. ps2[1] = ps[1]
    BY <1>1, <2>1
  <2> QED
    BY <1>2, <1>4, <2>2 DEF FirstIs
<1> QED
  BY <1>2, <1>3, <1>4

(* A step whose edits stand.                                               *)
LEMMA ApplyStands ==
  ASSUME IInv, NEW step \in Steps, NEW intents, Apply(step, intents),
         NEW fin, fin = FinishedIn(file, done'), FinishedIn(file, done) \subseteq fin,
         NEW its, its = SortIntents(intents), ~NoText(its) => StepStands(file, text, log, marks, fin, its)
  PROVE  IInv'
<1>1. PICK f, t, l, ms, ps, S : f = file /\ t = text /\ l = log /\ ms = marks /\ ps = past /\ S = AtomsOf(f)
  OBVIOUS
<1>2. /\ file' = f /\ done' = done \cup {step} /\ f \in Layouts
      /\ Fail(step, its) \/ Edit(its) \/ EditAndFormat(step, its)
  BY <1>1 DEF Apply, IInv
<1>3. /\ lost \subseteq done /\ done \subseteq Steps /\ formats \in 0 .. MaxFormats
      /\ disk = t /\ (l = <<>> => t = f.text) /\ (l # <<>> => ps[1] = f.text)
  BY <1>1 DEF IInv
<1>4. History(S, l, ps, t) /\ Simulated(f, t, l, ms, FinishedIn(f, done)) /\ t \in Seq(S)
  <2>1. History(S, l, ps, t) /\ Simulated(f, t, l, ms, FinishedIn(f, done))
    BY Zenon, <1>1 DEF IInv
  <2> QED
    BY <1>1, <2>1 DEF Simulated
<1>5. fin = FinishedIn(f, done') /\ FinishedIn(f, done) \subseteq fin /\ LinesIn(f)
  BY Zenon, <1>1, <1>2, LayoutLines
<1>6. Steps' = Steps
  BY Zenon, <1>1, <1>2 DEF Steps, Comps, Sites
<1>7. done' \subseteq Steps /\ done' = done \cup {step}
  BY <1>2, <1>3
<1>8. ASSUME lost' \subseteq done', formats' \in 0 .. MaxFormats, disk' = text',
             log' = <<>> => text' = f.text, log' # <<>> => past'[1] = f.text,
             History(S, log', past', text'), Simulated(f, text', log', marks', fin)
      PROVE  IInv'
  <2>1. IInv' <=>
          /\ file' \in Layouts /\ lost' \subseteq done' /\ done' \subseteq Steps' /\ formats' \in 0 .. MaxFormats
          /\ disk' = text' /\ (log' = <<>> => text' = file'.text) /\ (log' # <<>> => past'[1] = file'.text)
          /\ History(AtomsOf(file'), log', past', text')
          /\ Simulated(file', text', log', marks', FinishedIn(file', done'))
    BY Zenon DEF IInv
  <2> QED
    BY Zenon, <1>1, <1>2, <1>5, <1>6, <1>7, <1>8, <2>1
<1>9. CASE Fail(step, its)
  <2>1. /\ lost' = lost \cup {step} /\ text' = t /\ log' = l /\ past' = ps /\ marks' = ms /\ disk' = disk
        /\ formats' = formats
    BY <1>1, <1>9 DEF Fail
  <2>2. lost' \subseteq done'
    BY <1>3, <1>7, <2>1
  <2>3. Simulated(f, t, l, ms, fin)
    BY <1>4, <1>5, StandsFinished
  <2> QED
    BY Zenon, <1>3, <1>4, <1>8, <2>1, <2>2, <2>3
<1>10. ASSUME ~NoText(its)
       PROVE  /\ StepStands(f, t, l, ms, fin, its) /\ EditsIn(S, Len(t), its)
              /\ Splice(t, its) = ApplyText(t, its)
              /\ History(S, LogAfter(l, its), Append(ps, t), ApplyText(t, its))
              /\ Simulated(f, ApplyText(t, its), LogAfter(l, its), MarksAfter(ms, its), fin)
              /\ LogAfter(l, its) # <<>> /\ Append(ps, t)[1] = f.text
  <2>1. StepStands(f, t, l, ms, fin, its)
    BY Zenon, <1>1, <1>10
  <2>2. /\ EditsIn(S, Len(t), its) /\ StartsApart(its)
        /\ Simulated(f, ApplyText(t, its), LogAfter(l, its), MarksAfter(ms, its), fin)
    BY Zenon, <1>1, <2>1 DEF StepStands
  <2>3. Splice(t, its) = ApplyText(t, its)
    BY <1>4, <2>2, SpliceGives
  <2>4. History(S, LogAfter(l, its), Append(ps, t), ApplyText(t, its))
    BY <1>4, <2>2, HistoryGrows
  <2>5. PICK b, l2, ps2 : b = Logged(its) /\ l2 = Append(l, b) /\ ps2 = Append(ps, t)
    OBVIOUS
  <2>6. l2 # <<>> /\ ps2[1] = f.text
    <3>1. PICK t0 : t0 = f.text /\ FirstIs(l, ps, t, t0)
      BY Zenon, <1>3 DEF FirstIs
    <3>2. l2 # <<>> /\ ps2[1] = t0
      BY <1>4, <2>5, <3>1, FirstText
    <3> QED
      BY Zenon, <3>1, <3>2
  <2>7. LogAfter(l, its) # <<>> /\ Append(ps, t)[1] = f.text
    BY Zenon, <2>5, <2>6 DEF LogAfter
  <2> QED
    BY Zenon, <2>1, <2>2, <2>3, <2>4, <2>7
<1>11. CASE Edit(its)
  <2>1. /\ ~NoText(its) /\ text' = ApplyText(t, its) /\ marks' = MarksAfter(ms, its)
        /\ log' = Append(l, Logged(its)) /\ past' = Append(ps, t) /\ disk' = Splice(disk, its)
        /\ lost' = lost /\ formats' = formats
    BY Zenon, <1>1, <1>11 DEF Edit
  <2>2. log' = LogAfter(l, its)
    BY Zenon, <2>1 DEF LogAfter
  <2>3. lost' \subseteq done'
    BY <1>3, <1>7, <2>1
  <2>4. disk' = text'
    BY Zenon, <1>3, <1>10, <2>1
  <2>5. log' # <<>> /\ past'[1] = f.text
    BY Zenon, <1>10, <2>1, <2>2
  <2>6. History(S, log', past', text') /\ Simulated(f, text', log', marks', fin)
    BY Zenon, <1>10, <2>1, <2>2
  <2>7. formats' \in 0 .. MaxFormats
    BY Zenon, <1>3, <2>1
  <2> QED
    BY Zenon, <1>8, <2>3, <2>4, <2>5, <2>6, <2>7
<1>12. CASE EditAndFormat(step, its)
  <2>1. ~NoText(its) /\ formats < MaxFormats /\ formats' = formats + 1
    BY Zenon, <1>12 DEF EditAndFormat
  <2>2. PICK new, mid : new = ApplyText(t, its) /\ mid = MarksAfter(ms, its)
    OBVIOUS
  <2>3. PICK fe, after :
          /\ fe \in Formats(new, its)
          /\ after = ApplyText(new, fe) /\ text' = after /\ marks' = MarksAfter(mid, fe)
          /\ log' = l \o <<Logged(its), Logged(fe)>> /\ past' = ps \o <<t, new>>
          /\ IF Composes(t, after, <<Logged(its), Logged(fe)>>)
             THEN /\ \E edits \in {Compose(t, after, <<Logged(its), Logged(fe)>>)} : disk' = Splice(disk, edits)
                  /\ UNCHANGED lost
             ELSE lost' = lost \cup {step} /\ UNCHANGED disk
    BY <1>1, <1>12, <2>2 DEF EditAndFormat
  <2>4. after = ApplyText(new, fe)
    BY Zenon, <2>3
  <2>5. PICK batches : batches = <<Logged(its), Logged(fe)>>
    OBVIOUS
  <2>6. PICK l2, ps2 : l2 = LogAfter(l, its) /\ ps2 = Append(ps, t)
    OBVIOUS
  <2>7. /\ StepStands(f, t, l, ms, fin, its) /\ EditsIn(S, Len(t), its)
        /\ History(S, l2, ps2, new) /\ l2 # <<>> /\ ps2[1] = f.text
    BY Zenon, <1>10, <2>1, <2>2, <2>6
  <2>8. StepStands(f, new, l2, mid, fin, fe)
    <3>1. t \in Seq(AtomsOf(f))
      BY Zenon, <1>1, <1>4
    <3>2. StepStands(f, new, LogAfter(l, its), MarksAfter(ms, its), fin, fe)
      BY <1>5, <2>2, <2>3, <2>7, <3>1, FormatStands
    <3> QED
      BY Zenon, <2>2, <2>6, <3>2
  <2>9. /\ EditsIn(S, Len(new), fe)
        /\ Simulated(f, ApplyText(new, fe), LogAfter(l2, fe), MarksAfter(mid, fe), fin)
    BY Zenon, <1>1, <2>8 DEF StepStands
  <2>10. new \in Seq(S)
    <3>1. ApplyText(t, its) \in Seq(S)
      BY <1>4, <2>7, EditsTurn
    <3> QED
      BY Zenon, <2>2, <3>1
  <2>11. History(S, LogAfter(l2, fe), Append(ps2, new), ApplyText(new, fe))
    BY <2>7, <2>9, <2>10, HistoryGrows
  <2>12. PICK l3, ps3, b : l3 = LogAfter(l2, fe) /\ ps3 = Append(ps2, new) /\ b = Logged(fe)
    OBVIOUS
  <2>13. l3 # <<>> /\ ps3[1] = f.text
    <3>1. l3 = Append(l2, b)
      BY Zenon, <2>12 DEF LogAfter
    <3>2. PICK t0 : t0 = f.text /\ FirstIs(l2, ps2, new, t0)
      BY Zenon, <2>7 DEF FirstIs
    <3>3. History(S, l2, ps2, new) /\ FirstIs(l2, ps2, new, t0) /\ ps3 = Append(ps2, new)
      BY Zenon, <2>7, <2>12, <3>2
    <3>4. l3 # <<>> /\ ps3[1] = t0
      BY ONLY <2>10, <3>1, <3>3, FirstText
    <3> QED
      BY Zenon, <3>2, <3>4
  <2>14. log' = l3 /\ past' = ps3
    <3>1. PICK a : a = Logged(its)
      OBVIOUS
    <3>2. a \in Seq(LogEntry) /\ b \in Seq(LogEntry) /\ l \in Seq(Seq(LogEntry)) /\ ps \in Seq(Seq(S))
      <4>1. Logged(its) \in Seq(LogEntry)
        BY <1>4, <2>7, EditsTurn
      <4>2. Logged(fe) \in Seq(LogEntry)
        BY <2>9, <2>10, EditsTurn
      <4>3. l \in Seq(Seq(LogEntry)) /\ ps \in Seq(Seq(S))
        BY <1>4 DEF History
      <4> QED
        BY Zenon, <2>12, <3>1, <4>1, <4>2, <4>3
    <3>3. l \o <<a, b>> = Append(Append(l, a), b)
      BY <3>2
    <3>4. ps \o <<t, new>> = Append(Append(ps, t), new)
      BY <1>4, <2>10, <3>2
    <3> QED
      BY Zenon, <2>3, <2>6, <2>12, <3>1, <3>3, <3>4 DEF LogAfter
  <2>15. Composes(t, after, batches) /\ Splice(t, Compose(t, after, batches)) = after
    BY <1>4, <2>2, <2>4, <2>5, <2>7, <2>9, TwoCompose
  <2>16. disk' = after /\ lost' = lost
    <3>1. Composes(t, after, <<Logged(its), Logged(fe)>>)
      BY Zenon, <2>5, <2>15
    <3>2. (\E edits \in {Compose(t, after, <<Logged(its), Logged(fe)>>)} : disk' = Splice(disk, edits)) /\ lost' = lost
      BY Zenon, <2>3, <3>1
    <3>3. disk' = Splice(disk, Compose(t, after, <<Logged(its), Logged(fe)>>))
      BY <3>2
    <3> QED
      BY Zenon, <1>3, <2>5, <2>15, <3>2, <3>3
  <2>17. lost' \subseteq done'
    BY <1>3, <1>7, <2>16
  <2>18. formats' \in 0 .. MaxFormats
    BY <1>3, <2>1, EditLogAssumption
  <2>19. History(S, log', past', text') /\ Simulated(f, text', log', marks', fin)
    BY Zenon, <2>3, <2>4, <2>9, <2>11, <2>12, <2>14
  <2>20. log' # <<>> /\ past'[1] = f.text /\ disk' = text'
    BY Zenon, <2>3, <2>13, <2>14, <2>16
  <2> QED
    BY Zenon, <1>8, <2>17, <2>18, <2>19, <2>20
<1> QED
  BY <1>2, <1>9, <1>11, <1>12

(* Every step leaves what it needs and the later ones.                     *)
LEMMA NextStands == IInv /\ [Next]_vars => IInv'
<1> SUFFICES ASSUME IInv, [Next]_vars PROVE IInv'
  OBVIOUS
<1>1. file \in Layouts /\ Simulated(file, text, log, marks, FinishedIn(file, done))
  BY DEF IInv
<1>2. PICK fin : fin = FinishedIn(file, done)
  OBVIOUS
<1>3. Simulated(file, text, log, marks, fin)
  BY Zenon, <1>1, <1>2
<1>4. ASSUME NEW c \in Comps, AddHandle(c) PROVE IInv'
  <2>1. PICK step : step = <<"add", c>>
    OBVIOUS
  <2>2. step \in Steps /\ Apply(step, AddIntents(c)) /\ done' = done \cup {step}
    BY <1>4, <2>1 DEF AddHandle, Apply, Steps
  <2>3. FinishedIn(file, done') = fin
    BY <1>2, <2>1, <2>2 DEF FinishedIn
  <2>4. PICK its : its = SortIntents(AddIntents(c))
    OBVIOUS
  <2>5. ~NoText(its) => StepStands(file, text, log, marks, fin, its)
    BY <1>1, <1>3, <2>4, AddStands
  <2>6. FinishedIn(file, done) \subseteq fin
    BY <1>2
  <2> QED
    BY <2>2, <2>3, <2>4, <2>5, <2>6, ApplyStands
<1>5. ASSUME NEW s \in Sites, MigrateSite(s) PROVE IInv'
  <2>1. PICK step : step = <<"site", s>>
    OBVIOUS
  <2>2. step \in Steps /\ Apply(step, SiteIntents(s)) /\ done' = done \cup {step}
    BY <1>5, <2>1 DEF MigrateSite, Apply, Steps
  <2>3. FinishedIn(file, done') = fin
    BY <1>2, <2>1, <2>2 DEF FinishedIn
  <2>4. PICK its : its = SortIntents(SiteIntents(s))
    OBVIOUS
  <2>5. ~NoText(its) => StepStands(file, text, log, marks, fin, its)
    BY <1>1, <1>3, <2>4, SiteStands
  <2>6. FinishedIn(file, done) \subseteq fin
    BY <1>2
  <2> QED
    BY <2>2, <2>3, <2>4, <2>5, <2>6, ApplyStands
<1>6. ASSUME NEW c \in Comps, FinishHandle(c) PROVE IInv'
  <2>1. PICK step : step = <<"finish", c>>
    OBVIOUS
  <2>2. step \in Steps /\ Apply(step, FinishIntents(c)) /\ done' = done \cup {step} /\ step \notin done
    BY <1>6, <2>1 DEF FinishHandle, Apply, Steps
  <2>3. FinishedIn(file, done') = fin \cup {c} /\ c \notin fin
    BY <1>2, <2>1, <2>2 DEF FinishedIn, Comps
  <2>4. PICK its : its = SortIntents(FinishIntents(c))
    OBVIOUS
  <2>5. ~NoText(its) => StepStands(file, text, log, marks, fin \cup {c}, its)
    BY <1>1, <1>3, <2>3, <2>4, FinishStands
  <2>6. PICK more : more = fin \cup {c}
    OBVIOUS
  <2>7. /\ more = FinishedIn(file, done') /\ FinishedIn(file, done) \subseteq more
        /\ ~NoText(its) => StepStands(file, text, log, marks, more, its)
    BY <1>2, <2>3, <2>5, <2>6
  <2> QED
    BY <2>2, <2>4, <2>7, ApplyStands
<1>7. CASE UNCHANGED vars
  BY <1>7 DEF vars, IInv, Steps, Comps, Sites
<1> QED
  BY <1>4, <1>5, <1>6, <1>7 DEF Next, Finished

(* In every state the file stands as the simulation of the steps made, and *)
(* each batch of the log takes the past text before it to the next one     *)
(* (simFile: what sim.apply does to text, log and marks).                  *)
THEOREM AlwaysStands == Spec => []IInv
<1> QED
  BY InitStands, NextStands, PTL DEF Spec

(* The text of the file, its log, its marks and the sets of steps have     *)
(* their types; every mark lies in the text (sim.marks).                   *)
THEOREM AlwaysTyped == Spec => []TypeOK
<1>1. ASSUME IInv PROVE TypeOK
  <2>1. Simulated(file, text, log, marks, FinishedIn(file, done))
    BY <1>1 DEF IInv
  <2>2. PICK fin : Simulated(file, text, log, marks, fin)
    BY <2>1
  <2>3. MarksStand(text, marks, DOMAIN file.comps) /\ Len(text) \in Nat
    BY <2>2 DEF Simulated, Standing, PartsStand
  <2>4. ASSUME NEW m \in marks PROVE m.off \in 0 .. Len(text) /\ m.off + m.n <= Len(text) /\ m.key \in Comps
    BY <2>3 DEF MarksStand, MarksOver, Comps
  <2>5. Len(past) = Len(log) /\ (log # <<>> => past[1] = file.text)
    BY <1>1 DEF IInv, History
  <2>6. file \in Layouts /\ lost \subseteq done /\ done \subseteq Steps /\ formats \in 0 .. MaxFormats
    BY <1>1 DEF IInv
  <2> QED
    BY <2>4, <2>5, <2>6 DEF TypeOK
<1> QED
  BY <1>1, AlwaysStands, PTL

(* Whatever steps are made in whatever order, and wherever gofmt changes   *)
(* what they wrote, the edits recorded in the plan, replayed in order, give *)
(* the text that the simulation had when it took the hash                  *)
(* of the file: sim.apply records what tree.splice makes again.            *)
THEOREM AlwaysReplays == Spec => []Replays
<1>1. IInv => Replays
  BY DEF IInv, Replays
<1> QED
  BY <1>1, AlwaysStands, PTL

(* The batches since any past text compose into one that makes the current *)
(* text of it: applyComponent and sim.apply never fail to compose.         *)
THEOREM AlwaysComposable == Spec => []Composable
<1>1. ASSUME IInv PROVE Composable
  <2>1. PICK S : History(S, log, past, text)
    BY <1>1 DEF IInv
  <2>2. ASSUME NEW i \in DOMAIN log PROVE Composes(past[i], text, Drop(log, i - 1))
    <3>1. i \in 1 .. Len(log)
      BY <2>1 DEF History
    <3>2. PICK old, rest : old = past[i] /\ rest = Drop(log, i - 1)
      OBVIOUS
    <3>3. Chained(S, rest, old, text)
      BY <2>1, <3>1, <3>2 DEF History
    <3>4. Composes(old, text, rest)
      BY <3>3, ChainedComposes
    <3> QED
      BY Zenon, <3>2, <3>4
  <2> QED
    BY <2>2 DEF Composable
<1> QED
  BY <1>1, AlwaysStands, PTL
=============================================================================
