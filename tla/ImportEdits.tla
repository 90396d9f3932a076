----------------------------- MODULE ImportEdits -----------------------------
(***************************************************************************)
(* The imports of a file while steps change which packages its code uses   *)
(* (internal/migrate/imports.go).  The text is a sequence of lines.        *)
(***************************************************************************)
EXTENDS Integers, Sequences, FiniteSets, SequencesExt, FiniteSetsExt

CONSTANTS
  Paths,        \* the import paths, as a sequence in their order
  Std,          \* those of the standard library
  Pinned,       \* those imported as _ or .
  Name,         \* the name of each path's package
  Words,        \* the last element of each path, cut at its dots and dashes
  Parent,       \* the element before it
  Versions,     \* the words that are major versions
  Context, Nats, JetStream,  \* those a step may add
  Droppable,    \* those only code that a step rewrites may use
  Locals,       \* names of variables that have methods or fields
  Files,        \* the files as loaded, sequences of lines
  MaxSteps      \* bound on the steps

VARIABLES
  text,   \* the lines in the planner's simulation
  disk,   \* the lines of a reader who replays the recorded edits
  used,   \* the paths whose packages the code uses
  locals, \* the variables whose methods or fields it uses
  steps   \* steps so far

vars == <<text, disk, used, locals, steps>>

PathSet == ToSet(Paths)
Line(kind, path) == [kind |-> kind, path |-> path]
Package == Line("package", "")
Blank == Line("blank", "")
Open == Line("open", "")
Close == Line("close", "")
Body == Line("code", "")
SpecOf(p) == Line("spec", p)     \* inside a block
Single(p) == Line("single", p)  \* a declaration of its own
Lines == {Package, Blank, Open, Close, Body} \cup {Line(k, p) : k \in {"spec", "single"}, p \in PathSet}

INSTANCE Edits WITH LineEnds <- Lines

Edit(start, end, new) == [start |-> start, end |-> end, text |-> new]

Before(p, q) ==
  \E i \in DOMAIN Paths : \E j \in DOMAIN Paths : i < j /\ Paths[i] = p /\ Paths[j] = q

SpecLines(t) == {i \in DOMAIN t : t[i].kind \in {"spec", "single"}}
Imported(t) == {t[i].path : i \in SpecLines(t)}

ASSUME ImportAssumption ==
  /\ Std \subseteq PathSet /\ Pinned \subseteq PathSet
  /\ Context \in Std /\ {Nats, JetStream} \subseteq PathSet \ Std
  /\ {Name, Parent} \subseteq [PathSet -> STRING]
  /\ \A p \in PathSet : Words[p] # <<>>
  /\ Versions \subseteq STRING /\ Locals \subseteq STRING
  /\ MaxSteps \in Nat
  /\ \A t \in Files : t # <<>> /\ ToSet(t) \subseteq Lines /\ Head(t) = Package

-----------------------------------------------------------------------------
(* The names before dots: of packages, and of variables, which the planner *)
(* takes for packages (usedNames).                                         *)
Dotted(use, loc) == {Name[p] : p \in use} \cup loc

(* The name by which the planner looks for a path's uses: it knows three   *)
(* packages, and makes it from the path for the others (importName).       *)
Guess(p) ==
  CASE p \in {Context, Nats, JetStream} -> Name[p]
    [] p \notin {Context, Nats, JetStream} /\ Head(Words[p]) \in Versions -> Parent[p]
    [] OTHER -> Head(Words[p])

(* The imports whose guessed names are before no dot, and those a step may *)
(* add whose names are.                                                    *)
Removed(t, dots) == {i \in SpecLines(t) : Guess(t[i].path) \notin dots /\ t[i].path \notin Pinned}
(* Mutant: those that are there are added again. *)
MissingOrNot(t, dots) == SelectSeq(<<Context, Nats, JetStream>>, LAMBDA p : Name[p] \in dots)

Missing(t, dots) ==
  SelectSeq(<<Context, Nats, JetStream>>, LAMBDA p : Name[p] \in dots /\ p \notin Imported(t))

HasBlock(t) == \E i \in DOMAIN t : t[i] = Open
OpenLine(t) == CHOOSE i \in DOMAIN t : t[i] = Open
CloseLine(t) == CHOOSE i \in DOMAIN t : t[i] = Close
BlockSpecs(t) == {i \in DOMAIN t : t[i].kind = "spec"}

(* Mutant: a deletion takes the next line along. *)
DeletionsLong(t, S) ==
  LET order == SelectSeq([i \in DOMAIN t |-> i], LAMBDA i : i \in S)
  IN  [k \in DOMAIN order |-> Edit(order[k] - 1, order[k] + 1, <<>>)]

Deletions(t, S) ==
  LET order == SelectSeq([i \in DOMAIN t |-> i], LAMBDA i : i \in S)
  IN  [k \in DOMAIN order |-> Edit(order[k] - 1, order[k], <<>>)]

(* Mutant: an empty block leaves its parenthesis. *)
RemovalsShort(t, dots) ==
  LET gone == Removed(t, dots) IN
  IF HasBlock(t) /\ BlockSpecs(t) \subseteq gone /\ Missing(t, dots) = <<>>
  THEN <<Edit(OpenLine(t) - 1, CloseLine(t) - 1, <<>>)>> \o Deletions(t, gone \ BlockSpecs(t))
  ELSE Deletions(t, gone)

(* A block that loses every spec and gets none goes as a whole. *)
Removals(t, dots) ==
  LET gone == Removed(t, dots) IN
  IF HasBlock(t) /\ BlockSpecs(t) \subseteq gone /\ Missing(t, dots) = <<>>
  THEN <<Edit(OpenLine(t) - 1, CloseLine(t), <<>>)>> \o Deletions(t, gone \ BlockSpecs(t))
  ELSE Deletions(t, gone)

(* The lines of a block's specs: the standard library first. *)
InOrder(ps) == SelectSeq(Paths, LAMBDA p : p \in ps)
BlockBody(ps) ==
  LET Specs(some) == [i \in DOMAIN InOrder(some) |-> SpecOf(InOrder(some)[i])]
      std == ps \cap Std
      other == ps \ Std
  IN  IF std # {} /\ other # {} THEN Specs(std) \o <<Blank>> \o Specs(other)
      ELSE Specs(ps)

(* Without a block, a declaration that stays becomes one, or one is        *)
(* started after the package line.                                         *)
NewBlock(t, dots) ==
  LET add == ToSet(Missing(t, dots))
      singles == {i \in SpecLines(t) \ Removed(t, dots) : t[i].kind = "single"}
      i == Min(singles)
  IN  IF singles = {} THEN Edit(1, 1, <<Blank, Open>> \o BlockBody(add) \o <<Close>>)
      ELSE Edit(i - 1, i, <<Open>> \o BlockBody(add \cup {t[i].path}) \o <<Close>>)

(* The groups of the specs that stay in the block: the sets of lines that  *)
(* follow one another, by their first line.                                *)
GroupStarts(t, dots) ==
  LET kept == BlockSpecs(t) \ Removed(t, dots) IN {i \in kept : i - 1 \notin kept}
GroupOf(t, dots, g) ==
  {i \in BlockSpecs(t) \ Removed(t, dots) :
     i >= g /\ \A h \in GroupStarts(t, dots) : h <= g \/ i < h}

(* Mutants: an import goes to the end of its group; into any group. *)
PlaceLast(t, dots, p) ==
  LET starts == GroupStarts(t, dots)
      alike == {g \in starts : (t[g].path \in Std) = (p \in Std)}
  IN  IF alike # {} THEN [at |-> Max(GroupOf(t, dots, Max(alike))), fresh |-> FALSE]
      ELSE [at |-> CloseLine(t) - 1, fresh |-> starts # {}]
PlaceAnywhere(t, dots, p) ==
  LET specs == BlockSpecs(t) \ Removed(t, dots)
      larger == {i \in specs : Before(p, t[i].path)}
  IN  [at |-> IF larger # {} THEN Min(larger) - 1 ELSE CloseLine(t) - 1, fresh |-> FALSE]

(* Where an import goes: into the group of its kind, or a fresh one. *)
Place(t, dots, p) ==
  LET starts == GroupStarts(t, dots)
      alike == {g \in starts : (t[g].path \in Std) = (p \in Std)}
      withNats == {g \in alike : \E i \in GroupOf(t, dots, g) : t[i].path = Nats}
      target == IF p \in Std THEN Min(alike)
                ELSE IF withNats # {} THEN Min(withNats) ELSE Max(alike)
      group == GroupOf(t, dots, target)
      larger == {i \in group : Before(p, t[i].path)}
  IN  CASE alike # {} -> [at |-> IF larger # {} THEN Min(larger) - 1 ELSE Max(group), fresh |-> FALSE]
        [] starts = {} -> [at |-> CloseLine(t) - 1, fresh |-> FALSE]
        [] alike = {} /\ starts # {} /\ p \in Std -> [at |-> Min(starts) - 1, fresh |-> TRUE]
        [] OTHER -> [at |-> Max(GroupOf(t, dots, Max(starts))), fresh |-> TRUE]

(* The imports that go to one place become one insertion; the first of     *)
(* them says whether it starts a group.                                    *)
Insertions(t, dots) ==
  LET add == Missing(t, dots)
      at == {Place(t, dots, p).at : p \in ToSet(add)}
      Here(o) == SelectSeq(add, LAMBDA p : Place(t, dots, p).at = o)
      Fresh(o) == Place(t, dots, Here(o)[1]).fresh
      Text(o) == LET ps == ToSet(Here(o)) IN
        CASE ~Fresh(o) -> BlockBody(ps)
          [] Fresh(o) /\ ps \cap Std # {} -> BlockBody(ps) \o <<Blank>>
          [] OTHER -> <<Blank>> \o BlockBody(ps)
  IN  {Edit(o, o, Text(o)) : o \in at}

ImportEditsOf(t, dots) ==
  Removals(t, dots) \o
  (IF Missing(t, dots) = <<>> THEN <<>>
   ELSE IF HasBlock(t) THEN SetToSeq(Insertions(t, dots)) ELSE <<NewBlock(t, dots)>>)

-----------------------------------------------------------------------------
(* gofmt drops blank lines at the ends of a block and next to another      *)
(* blank; it also sorts groups, and then formatEdits leaves the file alone.*)
Sorted(t) ==
  \A i \in 1..(Len(t) - 1) :
    t[i].kind = "spec" /\ t[i + 1].kind = "spec" => Before(t[i].path, t[i + 1].path)
Needless(t) ==
  LET EndsBlock(i) == \E j \in i..Len(t) : t[j] = Close /\ \A k \in i..(j - 1) : t[k] = Blank
  IN  {i \in 2..Len(t) : t[i] = Blank /\ (t[i - 1] \in {Blank, Open} \/ EndsBlock(i))}
Clean(t) == Sorted(t) /\ Needless(t) = {}
FormatEditsOf(t) ==
  IF Sorted(t) THEN Deletions(t, Needless(t)) ELSE <<>>

Init ==
  /\ text \in Files /\ disk = text
  /\ used = Imported(text) \ Pinned
  /\ locals \in SUBSET Locals
  /\ steps = 0

(* What a step records: its edits, or those composed with gofmt's. *)
Recorded(old, new, its, fe) ==
  LET after == ApplyText(new, fe)
      batches == <<Logged(its), Logged(fe)>>
  IN  CASE fe = <<>> -> its
        [] fe # <<>> /\ Composes(old, after, batches) -> Compose(old, after, batches)
        [] OTHER -> <<>>

(* A step leaves code that uses the packages use and the variables loc:    *)
(* its import edits, then gofmt's, recorded as one batch; edits that       *)
(* overlap fail the step.                                                  *)
Step(use, loc) ==
  /\ steps < MaxSteps
  /\ steps' = steps + 1
  /\ \E its \in {SortIntents(ImportEditsOf(text, Dotted(use, loc)))} :
       IF Overlap(its) THEN UNCHANGED <<text, disk, used, locals>>
       ELSE /\ used' = use /\ locals' = loc
            /\ \E new \in {ApplyText(text, its)} :
               \E fe \in {IF Clean(text) THEN FormatEditsOf(new) ELSE <<>>} :
                 /\ text' = ApplyText(new, fe)
                 /\ disk' = Splice(disk, Recorded(text, new, its, fe))

Done == steps = MaxSteps /\ UNCHANGED vars

(* What the code may use after a step: a step drops packages that only     *)
(* legacy code uses, and takes up those it can import.                     *)
Uses == {use \in SUBSET (used \cup {Context, Nats, JetStream}) : used \ use \subseteq Droppable}

Next ==
  \/ Done
  \/ \E use \in Uses, loc \in SUBSET locals : Step(use, loc)

Spec == Init /\ [][Next]_vars

-----------------------------------------------------------------------------
(* The files are lines of the kinds above, with a package line and at most *)
(* one block, closed where it was opened (importEdits on source text).     *)
TypeOK ==
  /\ Head(text) = Package
  /\ Len(SelectSeq(text, LAMBDA l : l \in {Open, Close})) = (IF HasBlock(text) THEN 2 ELSE 0)
  /\ ToSet(text) \subseteq Lines /\ ToSet(disk) \subseteq Lines
  /\ used \subseteq PathSet /\ locals \subseteq Locals /\ steps \in 0..MaxSteps

(* Packages whose names the planner guesses wrong, and packages whose      *)
(* guessed name is before a dot for a variable or another package: these   *)
(* look used when they are not.                                            *)
Misnamed == {p \in PathSet : Guess(p) # Name[p]}
LooksUsed == {p \in PathSet : Guess(p) \in Dotted(used \ {p}, locals)}

(* After every step the file imports each package that its code uses, but  *)
(* for those with wrong guesses, and none that it does not use, but for    *)
(* those that look used; each path once (importEdits adds what is missing  *)
(* and removes what is unused).                                            *)
ImportsExact ==
  /\ used \ Misnamed \subseteq Imported(text)
  /\ Imported(text) \ Pinned \subseteq used \cup LooksUsed
  /\ Cardinality(SpecLines(text)) = Cardinality(Imported(text))

(* Imports of the standard library and others never end up in one group    *)
(* (the groups of importEdits).                                            *)
GroupsApart ==
  \A i \in 1..(Len(text) - 1) :
    text[i].kind = "spec" /\ text[i + 1].kind = "spec" =>
      (text[i].path \in Std <=> text[i + 1].path \in Std)

(* A file that gofmt would leave alone stays such a file: imports go into  *)
(* their groups in order (imports_test.go, TestImportEditsSorted).         *)
StaysClean == [][Clean(text) => Clean(text')]_vars

(* The import edits of one step never overlap, so that no step fails for   *)
(* its imports (sim.apply).                                                *)
ImportsFit ==
  \A use \in Uses, loc \in SUBSET locals :
    ~Overlap(SortIntents(ImportEditsOf(text, Dotted(use, loc))))

(* A reader who replays the recorded edits has the text whose hash the     *)
(* next step records (sim.apply records, tree.splice replays).             *)
Replays == disk = text
=============================================================================
