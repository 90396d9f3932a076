--------------------------- MODULE ComposeBatches ----------------------------
(***************************************************************************)
(* composeBatches (internal/migrate/compose.go) on any batches of edits:   *)
(* edits may touch, and a batch may undo the one before it.                *)
(***************************************************************************)
EXTENDS Edits

CONSTANTS
  Atoms,       \* what texts are made of
  Texts,       \* the texts before
  Pieces,      \* what an edit may write
  MaxEdits,    \* bound on the edits of all batches
  MaxBatches   \* bound on the batches

VARIABLES before, text, batches

vars == <<before, text, batches>>

ASSUME ComposeAssumption ==
  /\ Texts \subseteq Seq(Atoms) /\ Pieces \subseteq Seq(Atoms)
  /\ MaxEdits \in Nat /\ MaxBatches \in Nat

EditsOf(t) ==
  {e \in [start : 0..Len(t), end : 0..Len(t), text : Pieces] :
     e.start <= e.end /\ SubSeq(t, e.start + 1, e.end) # e.text}

Made == Len(FlattenSeq(batches))

(* The batches of edits in order that do not overlap. *)
Batches(t) ==
  {its \in UNION {[1..n -> EditsOf(t)] : n \in {k \in 1..MaxEdits : Made + k <= MaxEdits}} :
     Ordered(its) /\ ~Overlap(its)}

Init == before \in Texts /\ text = before /\ batches = <<>>

(* sim.applyBatch *)
ApplyBatch(its) ==
  /\ Len(batches) < MaxBatches
  /\ text' = ApplyText(text, its)
  /\ batches' = Append(batches, Logged(its))
  /\ UNCHANGED before

Done == (Len(batches) = MaxBatches \/ Made = MaxEdits) /\ UNCHANGED vars

Next == Done \/ \E its \in Batches(text) : ApplyBatch(its)

Spec == Init /\ [][Next]_vars

-----------------------------------------------------------------------------
(* The composed edits turn the text before all batches into the text after *)
(* them, whatever the batches: composeBatches never returns its errors.    *)
ComposesAlways == Composes(before, text, batches)

(* The composed edits are apart, so that splicing them from back to front  *)
(* gives the same text as applying them from front to back (the order of   *)
(* tree.splice and of applyText).                                          *)
ComposedSplice ==
  LET its == Compose(before, text, batches) IN
  /\ \A i \in 2..Len(its) : its[i - 1].end < its[i].start
  /\ Splice(before, its) = text
=============================================================================
