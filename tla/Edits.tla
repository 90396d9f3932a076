-------------------------------- MODULE Edits --------------------------------
(***************************************************************************)
(* Edits of a text, as internal/migrate makes, logs, composes and applies  *)
(* them.  A text is a sequence of atoms; offset o lies before atom o + 1.  *)
(* An edit replaces the atoms [start, end) with its text; it inserts when  *)
(* start = end.  A logged edit keeps only how long its text is.            *)
(***************************************************************************)
EXTENDS Listing, Integers, FiniteSets, SequencesExt, FiniteSetsExt, Functions

CONSTANT
  LineEnds  \* the atoms that end a line

(* The answer of Cur for an offset inside rewritten text. *)
NoPlace == -1

Take(s, n) == SubSeq(s, 1, n)
Drop(s, n) == SubSeq(s, n + 1, Len(s))

Inserts(e) == e.start = e.end

(* Atoms an edit or a logged edit adds. *)
Grows(e) == e.n - (e.end - e.start)

Logged(its) ==
  [i \in DOMAIN its |-> [start |-> its[i].start, end |-> its[i].end, n |-> Len(its[i].text)]]

-----------------------------------------------------------------------------
(* Edits of one file in order: by start, and an insertion before the edit  *)
(* that starts there.                                                      *)
Precedes(a, b) == a.start < b.start \/ (a.start = b.start /\ a.end < b.end)

SortIntents(its) == Sort(its, Precedes)

Ordered(its) == \A i \in 2..Len(its) : ~Precedes(its[i], its[i - 1])

(* Mutant: edits that touch count as overlapping. *)
Touching(its) ==
  \E i \in 2..Len(its) :
    LET a == its[i - 1] b == its[i] IN
      \/ b.start <= a.end /\ ~Inserts(b)
      \/ Inserts(a) /\ Inserts(b) /\ a.start = b.start /\ a.text # b.text

(* Sorted edits that do not give one text: two that meet inside, or two    *)
(* insertions of different texts at one offset.                            *)
Overlap(its) ==
  \E i \in 2..Len(its) :
    LET a == its[i - 1] b == its[i] IN
      \/ b.start < a.end
      \/ Inserts(a) /\ Inserts(b) /\ a.start = b.start /\ a.text # b.text

(* Sorted edits that do not overlap, applied from front to back. *)
ApplyText(text, its) ==
  LET last(i) == IF i = 0 THEN 0 ELSE its[i].end
      b[i \in 0..Len(its)] ==
        IF i = 0 THEN <<>>
        ELSE b[i - 1] \o SubSeq(text, last(i - 1) + 1, its[i].start) \o its[i].text
  IN  b[Len(its)] \o Drop(text, last(Len(its)))

(* Edits applied one after the other, each in the text the last one left. *)
Replaced(text, e) == Take(text, e.start) \o e.text \o Drop(text, e.end)

Successively(text, edits) ==
  LET b[i \in 0..Len(edits)] == IF i = 0 THEN text ELSE Replaced(b[i - 1], edits[i]) IN b[Len(edits)]

(* Mutant: applied from front to back. *)
SpliceForward(text, edits) == Successively(text, edits)

(* The edits of a step, applied from back to front; those at one offset in *)
(* the order of the plan.                                                  *)
Splice(text, edits) == Successively(text, Sort(edits, LAMBDA a, b : a.start > b.start))

-----------------------------------------------------------------------------
(* How far a batch of logged edits has moved what follows its first n. *)
Growth(batch, n) ==
  LET g[i \in 0..Len(batch)] == IF i = 0 THEN 0 ELSE g[i - 1] + Grows(batch[i]) IN g[n]

(* What moves the text at offset p; text inserted at p when after is set.  *)
Moves(e, p, after) == IF Inserts(e) THEN e.start < p \/ (e.start = p /\ after) ELSE e.end <= p

(* How much the edits of a batch with the numbers S add. *)
GrowthOf(batch, S) ==
  LET g[i \in 0..Len(batch)] ==
        IF i = 0 THEN 0 ELSE g[i - 1] + (IF i \in S THEN Grows(batch[i]) ELSE 0)
  IN  g[Len(batch)]

(* How far the text at offset p moves in a batch. *)
Shift(batch, p, after) == GrowthOf(batch, {i \in DOMAIN batch : Moves(batch[i], p, after)})

Rewrites(batch, p) == \E i \in DOMAIN batch : batch[i].start < p /\ p < batch[i].end

(* Offset o of the original text in the text that the log left. *)
Cur(log, o, after) ==
  LET at[i \in 0..Len(log)] ==
        IF i = 0 THEN o
        ELSE LET p == at[i - 1] IN
             IF p = NoPlace \/ Rewrites(log[i], p) THEN NoPlace ELSE p + Shift(log[i], p, after)
  IN  at[Len(log)]

(* Offset p of the text before the batches in the text after them. *)
Fwd(batches, p, after) ==
  LET at[i \in 0..Len(batches)] ==
        IF i = 0 THEN p ELSE LET q == at[i - 1] IN q + Shift(batches[i], q, after)
  IN  at[Len(batches)]

(* Offset p of the text after a batch in the text before it; an offset in  *)
(* or next to text the batch wrote maps to an end of what it replaced.     *)
BackPos(batch, p, lo) ==
  LET Starts(i) == batch[i].start + Growth(batch, i - 1)
      reached == {i \in DOMAIN batch : p <= Starts(i) + batch[i].n}
      first == CHOOSE i \in reached : \A j \in reached : i <= j
  IN  IF reached = {} THEN p - Growth(batch, Len(batch))
      ELSE IF p < Starts(first) THEN p - Growth(batch, first - 1)
      ELSE IF lo THEN batch[first].start ELSE batch[first].end

(* Offset p of the text before batch n + 1 in the text before them all. *)
Back(batches, n, p, lo) ==
  LET at[i \in 0..n] == IF i = 0 THEN p ELSE BackPos(batches[n + 1 - i], at[i - 1], lo)
  IN  at[n]

-----------------------------------------------------------------------------
(* What each edit of the batches covers in the text before all of them. *)
Spans(batches) ==
  UNION {{[start |-> Back(batches, b - 1, batches[b][i].start, TRUE),
           end   |-> Back(batches, b - 1, batches[b][i].end, FALSE)] : i \in DOMAIN batches[b]} :
         b \in DOMAIN batches}

(* Mutant: spans that only touch stay apart. *)
MergedApart(spans) ==
  LET starts == {s.start : s \in {t \in spans :
                   \A u \in spans : u.start < t.start => u.end <= t.start}}
      Of(o) == {s \in spans : o <= s.start /\ \A p \in starts : p <= s.start => p <= o}
      From(o) == IF o \in starts THEN <<[start |-> o, end |-> Max({s.end : s \in Of(o)})]>> ELSE <<>>
  IN  Concat([i \in 1..(Max(starts \cup {0}) + 1) |-> From(i - 1)])

(* The spans in order, joined where they overlap or touch. *)
Merged(spans) ==
  LET starts == {s.start : s \in {t \in spans :
                   \A u \in spans : u.start < t.start => u.end < t.start}}
      Of(o) == {s \in spans : o <= s.start /\ \A p \in starts : p <= s.start => p <= o}
      From(o) == IF o \in starts THEN <<[start |-> o, end |-> Max({s.end : s \in Of(o)})]>> ELSE <<>>
  IN  Concat([i \in 1..(Max(starts \cup {0}) + 1) |-> From(i - 1)])

(* How many atoms two texts share at the front, and at the back.  *)
SharedFront(a, b) ==
  Max({n \in 0..Min({Len(a), Len(b)}) : Take(a, n) = Take(b, n)})
SharedBack(a, b) == SharedFront(Reverse(a), Reverse(b))

(* The edit that turns old, at offset at, into text, without the whole     *)
(* lines they share at the ends.                                           *)
Trimmed(at, old, text) ==
  LET same == SharedFront(old, text)
      p == Max({i \in 1..same : old[i] \in LineEnds} \cup {0})
      q == SharedBack(Drop(old, p), Drop(text, p))
      t == Min({i \in (Len(old) - q)..Len(old) :
                  i = Len(old) \/ (i > 0 /\ old[i] \in LineEnds)})
  IN  [start |-> at + p, end |-> at + t,
       text  |-> SubSeq(text, p + 1, Len(text) - (Len(old) - t))]

(* Batches of edits, each of the text the one before it left, as edits of  *)
(* the text before them all.                                               *)
Compose(before, after, batches) ==
  LET spans == Merged(Spans(batches))
      Old(s) == SubSeq(before, s.start + 1, s.end)
      New(s) == SubSeq(after, Fwd(batches, s.start, FALSE) + 1, Fwd(batches, s.end, TRUE))
      Edit(s) == IF Old(s) = New(s) THEN <<>> ELSE <<Trimmed(s.start, Old(s), New(s))>>
  IN  Concat([i \in DOMAIN spans |-> Edit(spans[i])])

(* Compose refuses ranges that map outside after, and edits that do not    *)
(* turn before into after.                                                 *)
Composes(before, after, batches) ==
  /\ \A s \in ToSet(Merged(Spans(batches))) :
       /\ Fwd(batches, s.start, FALSE) <= Fwd(batches, s.end, TRUE)
       /\ Fwd(batches, s.end, TRUE) <= Len(after)
  /\ ApplyText(before, Compose(before, after, batches)) = after
=============================================================================
