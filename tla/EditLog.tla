------------------------------- MODULE EditLog -------------------------------
(***************************************************************************)
(* One file in the planner's simulation (internal/migrate/steps.go): its   *)
(* text, the log of the batches of edits made so far and the marks on what *)
(* the steps wrote.  A step names its place in the original file, or by a  *)
(* mark; the simulation finds it in the current text, makes the edits,     *)
(* lets gofmt touch them up and records edits that a reader of the plan    *)
(* replays on a file of its own, disk.                                     *)
(***************************************************************************)
EXTENDS Edits

CONSTANTS
  NL,          \* the end of a line
  Layouts,     \* the files: records [text, comps, sites], see LayoutType
  WS,          \* a blank
  MaxFormats   \* bound on the steps that gofmt touches up

VARIABLES
  file,      \* the file as loaded
  text,      \* the file after the steps so far
  log,       \* the batches of edits made so far
  past,      \* the text before each batch
  marks,     \* where inserted siblings and spans are in text
  done,      \* the steps made
  lost,      \* the steps that failed
  disk,      \* the file of a reader who replays the recorded edits
  formats    \* steps that gofmt touched up

vars == <<file, text, log, past, marks, done, lost, disk, formats>>

(* A component has the line of its legacy handle, [start, end), which goes *)
(* when it is finished, but for the line end where it writes a create call *)
(* instead; a site has its range and the component it belongs to, or none. *)
GoesTo(d) == IF d.create THEN d.end - 1 ELSE d.end
Going(d) == d.start..(GoesTo(d) - 1)
Covers(r) == r.start..(r.end - 1)
HasCode(f, O) == \E o \in O : f.text[o + 1] # WS

(* A site has code outside the lines of the handles, or is not all the     *)
(* code of what goes of one of them.                                       *)
HasPlace(f, r) ==
  \/ HasCode(f, Covers(r) \ UNION {Going(f.comps[c]) : c \in DOMAIN f.comps})
  \/ /\ HasCode(f, Covers(r))
     /\ \E c \in DOMAIN f.comps : /\ Covers(r) \subseteq Going(f.comps[c])
                                 /\ HasCode(f, Going(f.comps[c]) \ Covers(r))

LayoutsFit ==
  \A f \in Layouts :
    /\ f.text \in Seq(ToSet(f.text))
    /\ \A c \in DOMAIN f.comps :
         LET d == f.comps[c] IN
           /\ d.start \in Nat /\ d.end \in Nat /\ d.create \in BOOLEAN
           /\ d.start + 1 < d.end /\ d.end <= Len(f.text) /\ f.text[d.end] = NL
           /\ HasCode(f, Going(d))
    /\ \A c, d \in DOMAIN f.comps :
         c # d => f.comps[c].end <= f.comps[d].start \/ f.comps[d].end <= f.comps[c].start
    /\ \A s \in DOMAIN f.sites :
         LET r == f.sites[s] IN
           /\ r.start \in Nat /\ r.end \in Nat /\ r.start < r.end /\ r.end <= Len(f.text)
           /\ HasPlace(f, r)
    /\ \A x \in DOMAIN f.comps \cup DOMAIN f.sites :
         \A head \in {"lookup", "keep", "call"} : <<head, x>> # WS

ASSUME EditLogAssumption == LayoutsFit /\ LineEnds = {NL} /\ WS # NL /\ MaxFormats \in Nat

Comps == DOMAIN file.comps
Sites == DOMAIN file.sites
Steps == ({"add", "finish"} \X Comps) \cup ({"site"} \X Sites)

-----------------------------------------------------------------------------
(* What the steps write.  The sibling of a handle has the longer name. *)
Legacy(c) == <<<<"name", c>>>>
Sibling(c) == Legacy(c) \o <<<<"New", c>>>>
Lookup(c, name) == <<<<"lookup", c>>>> \o name \o <<NL>>
Placeholder(c) == <<<<"keep", c>>>> \o Sibling(c) \o <<NL>>
Call(s, name) == <<<<"call", s>>>> \o name
Create(c, name) == <<<<"create", c>>>> \o name

Mark(kind, c, off, n) == [kind |-> kind, key |-> c, off |-> off, n |-> n]
SiblingAt(c, off) == Mark("sibling", c, off, Len(Sibling(c)))
IsSpan(m) == m.kind # "sibling"

Intent(start, end, new, ms) == [start |-> start, end |-> end, text |-> new, marks |-> ms]
Deletes(start, end) == Intent(start, end, <<>>, {})

-----------------------------------------------------------------------------
(* Marks through a batch.  A span survives edits strictly inside it; any   *)
(* other mark that an edit reaches into is gone.                           *)
(* Mutant: text inserted where a mark starts goes into it. *)
AheadOnly(m, e) == IF Inserts(e) THEN e.start < m.off ELSE e.end <= m.off

Ahead(m, e) == IF Inserts(e) THEN e.start <= m.off ELSE e.end <= m.off
Behind(m, e) == e.start >= m.off + m.n
Inside(m, e) ==
  \/ Inserts(e)
  \/ IsSpan(m) /\ m.off <= e.start /\ e.end <= m.off + m.n /\ e.end - e.start < m.n

MovedMarks(ms, batch) ==
  LET ahead(m) == {i \in DOMAIN batch : Ahead(m, batch[i])}
      behind(m) == {i \in DOMAIN batch : Behind(m, batch[i])}
      Moved(m) == [m EXCEPT !.off = @ + GrowthOf(batch, ahead(m)),
                            !.n   = @ + GrowthOf(batch, DOMAIN batch \ (ahead(m) \cup behind(m)))]
      Kept(m) == \A i \in DOMAIN batch : i \in ahead(m) \cup behind(m) \/ Inside(m, batch[i])
  IN  {Moved(m) : m \in {x \in ms : Kept(x)}}

(* Mutant: the edit's own growth counts before its marks are placed. *)
NewMarksLate(its) ==
  LET At(i) == its[i].start + Growth(Logged(its), i)
  IN  UNION {{[m EXCEPT !.off = @ + At(i)] : m \in its[i].marks} : i \in DOMAIN its}

(* The marks that the texts of the edits bring. *)
NewMarks(its) ==
  LET At(i) == its[i].start + Growth(Logged(its), i - 1)
  IN  UNION {{[m EXCEPT !.off = @ + At(i)] : m \in its[i].marks} : i \in DOMAIN its}

MarksAfter(ms, its) == MovedMarks(ms, Logged(its)) \cup NewMarks(its)

-----------------------------------------------------------------------------
(* The edits of a step, in the current text. *)
InsertAtLine(o, new, ms) ==
  LET p == Cur(log, o, FALSE) IN Intent(p, p, new, ms)
(* Mutant: a range takes in what was inserted at its start. *)
ReplaceFrom(start, end, new, ms) ==
  Intent(Cur(log, start, FALSE), Cur(log, end, FALSE), new, ms)

ReplaceRange(start, end, new, ms) ==
  Intent(Cur(log, start, TRUE), Cur(log, end, FALSE), new, ms)

(* The sibling's own root after the legacy one, and the line that keeps    *)
(* both in use.                                                            *)
AddIntents(c) ==
  LET root == Lookup(c, Sibling(c)) IN
  <<InsertAtLine(file.comps[c].end, root \o Placeholder(c),
      {Mark("root", c, 0, Len(root)), SiblingAt(c, 1),
       Mark("placeholder", c, Len(root), Len(Placeholder(c))), SiblingAt(c, Len(root) + 1)})>>

SiteIntents(s) ==
  LET r == file.sites[s] IN
  IF r.comp \in Comps
  THEN <<ReplaceRange(r.start, r.end, Call(s, Sibling(r.comp)), {SiblingAt(r.comp, 1)})>>
  ELSE <<ReplaceRange(r.start, r.end, Call(s, <<>>), {})>>

SpansOf(kind, c) == {m \in marks : m.kind = kind /\ m.key = c}

(* The legacy root becomes the create call, or its line goes. *)
RemoveIntents(c) ==
  LET d == file.comps[c]
      old == ReplaceRange(d.start, GoesTo(d), IF d.create THEN Create(c, Legacy(c)) ELSE <<>>, {})
      spans == SpansOf("placeholder", c) \cup (IF d.create THEN SpansOf("root", c) ELSE {})
  IN  {old} \cup {Deletes(m.off, m.off + m.n) : m \in spans}

(* Renames, but for those inside what is removed. *)
RenameIntents(c) ==
  LET Removed(m) == \E r \in RemoveIntents(c) :
                       r.start < r.end /\ r.start <= m.off /\ m.off + m.n <= r.end
  IN  {Intent(m.off, m.off + m.n, Legacy(c), {}) : m \in {x \in SpansOf("sibling", c) : ~Removed(x)}}

FinishIntents(c) == SetToSeq(RemoveIntents(c) \cup RenameIntents(c))

-----------------------------------------------------------------------------
Init ==
  /\ file \in Layouts
  /\ text = file.text /\ disk = file.text
  /\ log = <<>> /\ past = <<>> /\ marks = {}
  /\ done = {} /\ lost = {} /\ formats = 0

(* What gofmt may do to a text after edits, when it was formatted before:  *)
(* a blank more at an end of what they wrote or of a sibling in it, or a   *)
(* blank less anywhere.                                                    *)
Formats(t, its) ==
  LET At(i) == its[i].start + Growth(Logged(its), i - 1)
      ends == UNION {{At(i), At(i) + Len(its[i].text)}
                     \cup {At(i) + m.off : m \in its[i].marks} : i \in DOMAIN its}
  IN  {<<Intent(p, p, <<WS>>, {})>> : p \in ends}
      \cup {<<Deletes(p - 1, p)>> : p \in {q \in 1..Len(t) : t[q] = WS}}

(* One step on the file: the edits in order, then gofmt's, recorded as one *)
(* batch.  Edits without a place, or that overlap, fail the step.          *)
NoText(its) == Overlap(its) \/ \E i \in DOMAIN its : NoPlace \in {its[i].start, its[i].end}

Fail(step, its) ==
  /\ NoText(its)
  /\ lost' = lost \cup {step}
  /\ UNCHANGED <<text, log, past, marks, disk, formats>>

Edit(its) ==
  /\ ~NoText(its)
  /\ text' = ApplyText(text, its) /\ marks' = MarksAfter(marks, its)
  /\ log' = Append(log, Logged(its)) /\ past' = Append(past, text)
  /\ disk' = Splice(disk, its)
  /\ UNCHANGED <<lost, formats>>

EditAndFormat(step, its) ==
  /\ ~NoText(its) /\ formats < MaxFormats /\ formats' = formats + 1
  /\ \E new \in {ApplyText(text, its)}, ms \in {MarksAfter(marks, its)} :
     \E fe \in Formats(new, its) : \E after \in {ApplyText(new, fe)} :
       LET batches == <<Logged(its), Logged(fe)>> IN
       /\ text' = after /\ marks' = MarksAfter(ms, fe)
       /\ log' = log \o batches /\ past' = past \o <<text, new>>
       /\ IF Composes(text, after, batches)
          THEN /\ \E edits \in {Compose(text, after, batches)} : disk' = Splice(disk, edits)
               /\ UNCHANGED lost
          ELSE lost' = lost \cup {step} /\ UNCHANGED disk

Apply(step, intents) ==
  /\ done' = done \cup {step}
  /\ UNCHANGED file
  /\ \E its \in {SortIntents(intents)} : Fail(step, its) \/ Edit(its) \/ EditAndFormat(step, its)

AddHandle(c) ==
  /\ <<"add", c>> \notin done
  /\ Apply(<<"add", c>>, AddIntents(c))

(* A site that reads a handle waits for its sibling. *)
MigrateSite(s) ==
  /\ <<"site", s>> \notin done
  /\ file.sites[s].comp \in Comps => <<"add", file.sites[s].comp>> \in done
  /\ Apply(<<"site", s>>, SiteIntents(s))

(* The handle goes when its sites have moved to the sibling. *)
FinishHandle(c) ==
  /\ <<"add", c>> \in done \ lost /\ <<"finish", c>> \notin done
  /\ \A s \in Sites : file.sites[s].comp = c => <<"site", s>> \in done \ lost
  /\ Apply(<<"finish", c>>, FinishIntents(c))

Finished == done = Steps /\ UNCHANGED vars

Next ==
  \/ \E c \in Comps : AddHandle(c) \/ FinishHandle(c)
  \/ \E s \in Sites : MigrateSite(s)
  \/ Finished

Spec == Init /\ [][Next]_vars

-----------------------------------------------------------------------------
(* The file that the steps made should give, told from the original        *)
(* without any offsets into what they wrote.                               *)
Made(kind, x) == <<kind, x>> \in done \ lost
NameOf(c) == IF Made("finish", c) THEN Legacy(c) ELSE Sibling(c)

Added(o) ==
  LET at == {c \in Comps : file.comps[c].end = o /\ Made("add", c)}
      Of(c) == IF ~Made("finish", c) THEN Lookup(c, Sibling(c)) \o Placeholder(c)
               ELSE IF file.comps[c].create THEN <<>> ELSE Lookup(c, Legacy(c))
  IN  IF at = {} THEN <<>> ELSE Of(CHOOSE c \in at : TRUE)

KeptAt(o) ==
  LET removed == {c \in Comps : /\ Made("finish", c)
                                /\ file.comps[c].start <= o
                                /\ o < GoesTo(file.comps[c])}
      moved == {s \in Sites : Made("site", s) /\ file.sites[s].start <= o /\ o < file.sites[s].end}
      Name(s) == IF file.sites[s].comp \in Comps THEN NameOf(file.sites[s].comp) ELSE <<>>
  IN  CASE \E c \in removed : file.comps[c].create /\ file.comps[c].start = o ->
             LET c == CHOOSE x \in removed : TRUE IN Create(c, Legacy(c))
        [] removed = {} /\ \E s \in moved : file.sites[s].start = o ->
             LET s == CHOOSE x \in moved : TRUE IN Call(s, Name(s))
        [] removed \cup moved = {} -> <<file.text[o + 1]>>
        [] OTHER -> <<>>

Intended ==
  FlattenSeq([i \in DOMAIN file.text |-> Added(i - 1) \o KeptAt(i - 1)]) \o Added(Len(file.text))

Unspaced(t) == SelectSeq(t, LAMBDA a : a # WS)

-----------------------------------------------------------------------------
(* The variables have their types, and the log has a batch per past text   *)
(* (the fields of simFile).                                                *)
TypeOK ==
  /\ file \in Layouts
  /\ Len(past) = Len(log) /\ (log # <<>> => past[1] = file.text)
  /\ lost \subseteq done /\ done \subseteq Steps
  /\ formats \in 0..MaxFormats
  /\ \A m \in marks : m.off \in 0..Len(text) /\ m.off + m.n <= Len(text) /\ m.key \in Comps

(* Whatever the order of the steps and whatever gofmt does in between,     *)
(* each step edits the code it was planned for: the simulated text is what *)
(* the steps mean on the original file (sim.cur, applyBatch, finishIntents).*)
TextAsPlanned == Unspaced(text) = Unspaced(Intended)

(* A reader who replays the recorded edits in order has the text that the  *)
(* next recorded hash is of (sim.apply records, tree.splice replays).      *)
Replays == disk = text

(* The batches since any earlier text compose into one batch that turns    *)
(* that text into this one: applyComponent never fails to compose.         *)
Composable == \A i \in DOMAIN log : Composes(past[i], text, Drop(log, i - 1))

(* A step fails only where a finish step removed the code it edits         *)
(* (sim.resolve, sortIntents).                                             *)
LostToFinish ==
  \A step \in lost :
    /\ step[1] = "site"
    /\ \E c \in Comps : /\ Made("finish", c)
                        /\ file.comps[c].start <= file.sites[step[2]].start
                        /\ file.sites[step[2]].end <= file.comps[c].end

(* While a component's handles stand side by side, marks cover exactly its *)
(* siblings in the text and the line the finish step is to remove          *)
(* (applyBatch moves the marks).                                           *)
MarksFollow ==
  LET At(m) == SubSeq(text, m.off + 1, m.off + m.n) IN
  /\ \A m \in marks : m.kind = "sibling" => At(m) = Sibling(m.key)
  /\ \A c \in Comps : \A p \in 0..(Len(text) - 2) :
       SubSeq(text, p + 1, p + 2) = Sibling(c) => SiblingAt(c, p) \in marks
  /\ \A c \in Comps : Made("add", c) /\ ~Made("finish", c) =>
       \E m \in SpansOf("placeholder", c) : Unspaced(At(m)) = Placeholder(c)
=============================================================================
