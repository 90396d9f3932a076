---------------------------- MODULE MigratePlan ----------------------------
(***************************************************************************)
(* The plan of `natsvet migrate plan`, at the level `apply` sees it: which *)
(* steps are left, in which order, which of them a machine can apply, and  *)
(* the content each file must have for a step to be applied to it          *)
(* (internal/migrate/steps.go and build.go).                               *)
(*                                                                         *)
(* A piece of work is one add-handle step, one unit of sites, or one       *)
(* finish step.  Work is numbered in the order `assemble` emits it.  The   *)
(* content of a file is the set of the pieces of work whose edits it       *)
(* holds, with marks for what people and failures do to it; two contents   *)
(* have the same SHA-256 hash only when they are equal.                    *)
(***************************************************************************)
EXTENDS Naturals, FiniteSets

CONSTANTS
  Files,      \* files, as numbers that follow the order of their paths
  Pkgs,       \* packages of the module
  PkgOf,      \* the package of each file
  Comps,      \* components
  NoComp,     \* the component of a unit outside every component
  NWork,      \* how many pieces of work the whole migration holds
  Desc,       \* what each piece of work is (see WorkType)
  OneCommit,  \* package-local components whose edits compose into one step
  Edited, Broken, Torn  \* marks of a content: see Marks

Work  == 1 .. NWork
Marks == {Edited,  \* someone edited the file; it still compiles
          Broken,  \* someone edited the file; it does not compile
          Torn}    \* a write that failed left part of the file
Contents == SUBSET (Work \cup Marks)
Disks    == [Files -> Contents]
Choices  == {"none", "migrate", "skip"}
Answers  == [Comps -> Choices]

(***************************************************************************)
(* comp, kind: as stepPlan records them; an "unmapped" site has no step.   *)
(* machine: mechanical, without facts; the rest is migrated by hand.       *)
(* files: the files its edits touch.                                       *)
(* alone: its edits cannot be made, whatever was tried before: two of them *)
(* overlap, one lies in the imports, the result does not parse.            *)
(* clash: earlier work that, tried in the same plan, leaves text in which  *)
(* this work's edits have no place.  fail: the file at which it fails.     *)
(* bad: packages in which its edits do not type-check.                     *)
(***************************************************************************)
WorkType ==
  [comp : Comps \cup {NoComp}, kind : {"add-handle", "site", "finish", "unmapped"},
   machine : BOOLEAN, files : (SUBSET Files) \ {{}}, alone : BOOLEAN,
   clash : SUBSET Work, fail : Files, bad : SUBSET Pkgs]

ASSUME MigratePlanAssumption ==
  /\ Files \subseteq Nat /\ NWork \in Nat
  /\ PkgOf \in [Files -> Pkgs]
  /\ NoComp \notin Comps
  /\ Marks \cap Work = {} /\ Torn \notin {Edited, Broken}
  /\ OneCommit \subseteq Comps
  /\ Desc \in [Work -> WorkType]
  /\ \A w \in Work : Desc[w].kind = "unmapped" => ~Desc[w].machine

-----------------------------------------------------------------------------
(* What is left to do on a tree: skipped components plan no step. *)

Done(w, d) == \A f \in Desc[w].files : w \in d[f]

Skipped(w, a) == Desc[w].comp \in Comps /\ a[Desc[w].comp] = "skip"

Left(d, a) == {w \in Work : ~Done(w, d) /\ ~Skipped(w, a)}

InComp(L, c) == {w \in L : Desc[w].comp = c}

Peers(L, w) == {v \in InComp(L, Desc[w].comp) : v # w /\ Desc[w].comp \in Comps}

(***************************************************************************)
(* planComponent and unitStep: a site's step is a machine step unless the  *)
(* siblings it would use cannot be added; finish waits on every other      *)
(* piece of its component that a machine cannot do.                        *)
(***************************************************************************)
AddBlocked(L, w) ==
  \E v \in Peers(L, w) : Desc[v].kind = "add-handle" /\ ~Desc[v].machine

(* Mutant: finish waits on pieces of its component that are done, too. *)
WaitsOnAll(L, w) ==
  IF Desc[w].kind = "finish"
  THEN \A v \in Peers(Work, w) : Desc[v].machine
  ELSE Desc[w].machine /\ ~AddBlocked(L, w)

Ready(L, w) ==
  IF Desc[w].kind = "finish"
  THEN \A v \in Peers(L, w) : Desc[v].machine
  ELSE Desc[w].machine /\ ~AddBlocked(L, w)

(***************************************************************************)
(* simulate: the work is tried in order on the simulated files.  Work      *)
(* whose edits cannot be made loses them, but the files before the one at  *)
(* which it fails keep them in the simulation; the component's add-handle  *)
(* and finish steps after it are not tried.                                *)
(***************************************************************************)
Fails(L, w) ==
  \/ Desc[w].alone
  \/ \E v \in Desc[w].clash \cap L :
       v < w /\ Ready(L, v) /\ (Desc[v].alone => Desc[w].fail < Desc[v].fail)

BrokenBefore(L, w) == \E v \in Peers(L, w) : v < w /\ Ready(L, v) /\ Fails(L, v)

Tried(L, w) == Ready(L, w) /\ (Desc[w].kind = "site" \/ ~BrokenBefore(L, w))

Machine(L, w) == Tried(L, w) /\ ~Fails(L, w)

SimFiles(L, w) ==
  {f \in Desc[w].files : Tried(L, w) /\ (Fails(L, w) => f < Desc[w].fail)}

(***************************************************************************)
(* A step is the set of the pieces of work it applies: one, or, for a      *)
(* component that is safe in one commit and whose parts all apply, all     *)
(* that is left of the component.                                          *)
(***************************************************************************)
OneStep(L, c) ==
  c \in OneCommit /\ InComp(L, c) # {} /\ \A w \in InComp(L, c) : Machine(L, w)

Steps(L) ==
  {InComp(L, c) : c \in {x \in Comps : OneStep(L, x)}}
    \cup {{w} : w \in {v \in L : ~OneStep(L, Desc[v].comp) /\ Desc[v].kind # "unmapped"}}

Precedes(s, t) == \E v \in s : \A w \in t : v < w

IsFirst(s, S) == s \in S /\ \A t \in S \ {s} : Precedes(s, t)

MachineStep(L, s) == \A w \in s : Machine(L, w)

StepFiles(s) == UNION {Desc[w].files : w \in s}

StepPkgs(s) == {PkgOf[f] : f \in StepFiles(s)}

EditsIn(s, f) == {w \in s : f \in Desc[w].files}

(* The work that comes before a step. *)
Before(L, s) == {v \in L : \A w \in s : v < w}

(* Mutant: the hash is of the content after the step. *)
ExpectAfter(d, L, s, f) ==
  d[f] \cup {v \in L : (\A w \in s : v <= w) /\ f \in SimFiles(L, v)}

(* The content whose hash the step records for a file: what the simulation *)
(* of all the work before the step leaves in it.                           *)
Expect(d, L, s, f) ==
  d[f] \cup {v \in Before(L, s) : f \in SimFiles(L, v)}

(***************************************************************************)
(* What the hashes of a step hold that no apply brings about: edits of     *)
(* earlier work that failed after it had changed a file of the step, in a  *)
(* plan in which some work before the step failed by itself.               *)
(***************************************************************************)
LeftBehind(L, s) ==
  /\ \E v \in Before(L, s) : Ready(L, v) /\ Desc[v].alone
  /\ \E v \in Before(L, s) : Fails(L, v) /\ SimFiles(L, v) \cap StepFiles(s) # {}

-----------------------------------------------------------------------------
(***************************************************************************)
(* The Go type checker, as an oracle: a package builds when no file of it  *)
(* is torn or broken, every piece of work that touches it is in all of its *)
(* files or in none, and the component steps it builds on are there too.   *)
(***************************************************************************)
Builds(p, d) ==
  /\ \A f \in Files : PkgOf[f] = p => d[f] \cap {Broken, Torn} = {}
  /\ \A w \in Work : (\E f \in Desc[w].files : PkgOf[f] = p /\ w \in d[f]) =>
        /\ Done(w, d)
        /\ Desc[w].kind # "finish" /\ Desc[w].machine =>
              \A v \in Peers(Work, w) : Desc[v].kind = "add-handle" => Done(v, d)
        /\ Desc[w].kind = "finish" => \A v \in Peers(Work, w) : Done(v, d)
  /\ \A w \in Work : Done(w, d) => p \notin Desc[w].bad

ModuleBuilds(d) == \A p \in Pkgs : Builds(p, d)
=============================================================================
