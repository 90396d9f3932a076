---------------------------- MODULE ComposeProofs ----------------------------
(***************************************************************************)
(* composeBatches (internal/migrate/compose.go) never fails, whatever the  *)
(* batches: the texts between them are a chain of edits.                   *)
(***************************************************************************)
EXTENDS ComposeBatches, EditsProofs

(* The edits of a batch are edits of the text, in order. *)
LEMMA BatchesAreEdits ==
  ASSUME NEW t \in Seq(Atoms), NEW its \in Batches(t)
  PROVE  EditsIn(Atoms, Len(t), its)
<1>1. PICK n \in Nat : its \in [1 .. n -> EditsOf(t)]
  BY ComposeAssumption DEF Batches
<1>2. EditsOf(t) \subseteq EditsOver(Atoms, Len(t))
  BY ComposeAssumption DEF EditsOf, EditsOver
<1>3. its \in Seq(EditsOver(Atoms, Len(t))) /\ Len(its) = n
  <2>1. its \in Seq(EditsOf(t)) /\ Len(its) = n
    BY <1>1
  <2> QED
    BY <1>2, <2>1
<1>4. ASSUME NEW i \in 2 .. n PROVE its[i - 1].end <= its[i].start
  <2>1. ~(its[i].start < its[i - 1].end)
    BY <1>3, <1>4 DEF Batches, Overlap
  <2>2. its[i - 1] \in EditsOver(Atoms, Len(t)) /\ its[i] \in EditsOver(Atoms, Len(t))
    BY <1>1, <1>2, <1>4
  <2>3. Len(t) \in Nat
    OBVIOUS
  <2> QED
    BY <2>1, <2>2, <2>3 DEF EditsOver
<1>5. ASSUME NEW i \in 1 .. n PROVE IsEdit(Atoms, Len(t), its[i])
  <2>1. its[i] \in EditsOver(Atoms, Len(t)) /\ Len(t) \in Nat
    BY <1>1, <1>2
  <2> QED
    BY <2>1, EditsOverAre
<1> QED
  BY <1>3, <1>4, <1>5 DEF EditsIn

(* What the texts before and after the batches have to do with each other. *)
LogEntry == [start : Nat, end : Nat, n : Nat]

IInv ==
  /\ batches \in Seq(Seq(LogEntry))
  /\ Chained(Atoms, batches, before, text)

(* Before the first batch the texts are one.                               *)
LEMMA InitChained == Init => IInv
<1> SUFFICES ASSUME Init PROVE IInv
  OBVIOUS
<1>1. batches = << >> /\ before \in Seq(Atoms) /\ text = before
  BY ComposeAssumption DEF Init
<1>2. Chained(Atoms, << >>, before, before)
  BY <1>1, ChainNone
<1>3. Chained(Atoms, batches, before, text)
  BY Zenon, <1>1, <1>2
<1> QED
  BY <1>1, <1>3 DEF IInv

(* Each batch leads from the text before it to the text after it.          *)
LEMMA NextChained == IInv /\ [Next]_vars => IInv'
<1> SUFFICES ASSUME IInv, [Next]_vars PROVE IInv'
  OBVIOUS
<1>1. batches \in Seq(Seq(LogEntry)) /\ Chained(Atoms, batches, before, text) /\ text \in Seq(Atoms)
  BY ChainedComposes DEF IInv
<1>2. ASSUME NEW its \in Batches(text), ApplyBatch(its) PROVE IInv'
  <2>1. /\ text' = ApplyText(text, its) /\ batches' = Append(batches, Logged(its)) /\ before' = before
    BY <1>2 DEF ApplyBatch
  <2>2. EditsIn(Atoms, Len(text), its)
    BY <1>1, BatchesAreEdits
  <2>3. Chained(Atoms, Append(batches, Logged(its)), before, ApplyText(text, its))
    BY <1>1, <2>2, ChainGrows
  <2>4. Chained(Atoms, batches', before', text')
    BY Zenon, <2>1, <2>3
  <2>5. Logged(its) \in Seq(LogEntry)
    <3>1. PICK n : n = Len(its) /\ n \in Nat /\ DOMAIN its = 1 .. n
      BY <2>2 DEF EditsIn
    <3>2. \A i \in 1 .. n : its[i].start \in Nat /\ its[i].end \in Nat /\ Len(its[i].text) \in Nat
      BY <2>2, <3>1 DEF EditsIn, IsEdit
    <3>3. Logged(its) \in [1 .. n -> LogEntry]
      BY <3>1, <3>2 DEF Logged, LogEntry
    <3> QED
      BY <3>1, <3>3
  <2>6. batches' \in Seq(Seq(LogEntry))
    BY <1>1, <2>1, <2>5
  <2> QED
    BY <2>4, <2>6 DEF IInv
<1>3. CASE UNCHANGED vars
  <2>1. batches' = batches /\ before' = before /\ text' = text
    BY <1>3 DEF vars
  <2>2. Chained(Atoms, batches', before', text')
    BY Zenon, <1>1, <2>1
  <2> QED
    BY <1>1, <2>1, <2>2 DEF IInv
<1> QED
  BY <1>2, <1>3 DEF Next, Done

THEOREM AlwaysChained == Spec => []IInv
<1> QED
  BY InitChained, NextChained, PTL DEF Spec

(* composeBatches never returns one of its errors: whatever the text, the  *)
(* batches and what they write, no range maps outside the last text and    *)
(* the composed edits turn the first text into the last.                   *)
THEOREM AlwaysComposes == Spec => []ComposesAlways
<1>1. IInv => ComposesAlways
  BY ChainedComposes DEF IInv, ComposesAlways
<1> QED
  BY <1>1, AlwaysChained, PTL

(* The composed edits are apart, and splicing them in from back to front   *)
(* gives the last text too.                                                *)
THEOREM AlwaysSpliced == Spec => []ComposedSplice
<1>1. ASSUME IInv PROVE ComposedSplice
  <2>1. PICK its : its = Compose(before, text, batches)
    OBVIOUS
  <2>2. Gives(Atoms, before, its, text) /\ before \in Seq(Atoms)
    <3>1. Chained(Atoms, batches, before, text)
      BY <1>1 DEF IInv
    <3> QED
      BY <2>1, <3>1, ChainedComposes
  <2>3. EditsIn(Atoms, Len(before), its) /\ Apart(its) /\ ApplyText(before, its) = text
    BY <2>2 DEF Gives
  <2>4. Splice(before, its) = ApplyText(before, its)
    <3>1. Len(before) \in Nat
      BY <2>2
    <3>2. StartsApart(its)
      BY <2>3, <3>1, ApartStarts
    <3> QED
      BY <2>2, <2>3, <3>2, SpliceGives
  <2>5. \A i \in 2 .. Len(its) : its[i - 1].end < its[i].start
    BY <2>3 DEF Apart
  <2> QED
    BY Zenon, <2>1, <2>3, <2>4, <2>5 DEF ComposedSplice
<1> QED
  BY <1>1, AlwaysChained, PTL
=============================================================================
