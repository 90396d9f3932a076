-------------------------- MODULE MigrateRunProofs --------------------------
(***************************************************************************)
(* Proofs about what a run of apply leaves of the module: a run that       *)
(* applied steps leaves it building where it looked, and, to those who     *)
(* look at its files between runs, a run is one step or none - the         *)
(* refinement of AtomicApply.                                              *)
(*                                                                         *)
(* And about the hashes of a plan: its first machine step expects the      *)
(* files as they were planned from, but for what failed steps left behind, *)
(* so that a run without -component is refused falsely for nothing else.   *)
(*                                                                         *)
(* All of it for every module, plan and set of pieces of work.             *)
(***************************************************************************)
EXTENDS MigrateApplyProofs, Recursions

(* A content that differs from an earlier one by edits that compile. *)
EditsOnly(a, b) == a \subseteq b /\ b \subseteq a \cup {Edited} /\ (Broken \in b => Broken \in a)

LEMMA NotMarks == \A w \in Work : w \notin Marks
  BY MigratePlanAssumption

LEMMA DoneMonotone ==
  ASSUME NEW w \in Work, NEW d, NEW e, \A f \in Files : d[f] \subseteq e[f], Done(w, d)
  PROVE  Done(w, e)
<1>1. Desc[w].files \subseteq Files
  BY MigratePlanAssumption DEF WorkType
<1> QED
  BY <1>1 DEF Done

(***************************************************************************)
(* A package whose files change by compiling edits alone goes on building, *)
(* whatever work is added to the files of other packages, unless that work *)
(* is bad for it.                                                          *)
(***************************************************************************)
LEMMA UntouchedPkgBuilds ==
  ASSUME NEW p \in Pkgs, NEW d, NEW e, Builds(p, d),
         \A f \in Files : d[f] \subseteq e[f],
         \A f \in Files : PkgOf[f] = p => EditsOnly(d[f], e[f]),
         \A w \in Work : Done(w, e) /\ p \in Desc[w].bad => Done(w, d)
  PROVE  Builds(p, e)
<1>1. \A w \in Work, f \in Files : PkgOf[f] = p /\ w \in e[f] => w \in d[f]
  BY NotMarks DEF EditsOnly, Marks
<1>2. \A w \in Work : Desc[w].files \subseteq Files
  BY MigratePlanAssumption DEF WorkType
<1>3. \A w \in Work : Done(w, d) => Done(w, e)
  BY DoneMonotone
<1>4. \A f \in Files : PkgOf[f] = p => e[f] \cap {Broken, Torn} = {}
  BY MigratePlanAssumption DEF Builds, EditsOnly
<1>5. ASSUME NEW w \in Work, \E f \in Desc[w].files : PkgOf[f] = p /\ w \in e[f]
      PROVE  /\ Done(w, e)
             /\ Desc[w].kind # "finish" /\ Desc[w].machine =>
                   \A v \in Peers(Work, w) : Desc[v].kind = "add-handle" => Done(v, e)
             /\ Desc[w].kind = "finish" => \A v \in Peers(Work, w) : Done(v, e)
  <2>1. \E f \in Desc[w].files : PkgOf[f] = p /\ w \in d[f]
    BY <1>1, <1>2, <1>5
  <2>2. \A v \in Peers(Work, w) : v \in Work
    BY DEF Peers, InComp
  <2> QED
    BY <1>3, <2>1, <2>2 DEF Builds
<1>6. \A w \in Work : Done(w, e) => p \notin Desc[w].bad
  BY DEF Builds
<1> QED
  BY <1>4, <1>5, <1>6 DEF Builds

-----------------------------------------------------------------------------
(***************************************************************************)
(* A run that applied steps leaves a module that builds.  While a run      *)
(* goes on, people add marks to the tree it planned from, and nothing      *)
(* else.                                                                   *)
(***************************************************************************)
DriftInv ==
  phase \notin {"idle", "planning"} =>
    \A f \in Files : /\ plan.disk[f] \subseteq userDisk[f]
                     /\ userDisk[f] \subseteq plan.disk[f] \cup {Edited, Broken}

BuildInv == LInv /\ DriftInv /\ SuccessKeepsBuilding

LEMMA NextDriftInv == LInv /\ DriftInv /\ [Next]_vars => DriftInv'
<1>1. SUFFICES ASSUME LInv, DriftInv, [Next]_vars PROVE DriftInv'
  OBVIOUS
<1>2. CASE phase' \in {"idle", "planning"}
  BY <1>2 DEF DriftInv
<1>3. ASSUME UNCHANGED <<plan, userDisk>>, phase \notin {"idle", "planning"} PROVE DriftInv'
  BY <1>1, <1>3 DEF DriftInv
<1>4. CASE BuildPlan
  <2>1. CASE plan' = [disk |-> disk, answers |-> answers, left |-> Left(disk, answers)]
    <3>1. plan'.disk = disk
      BY <2>1
    <3>2. disk = userDisk /\ UNCHANGED userDisk
      BY <1>1, <1>4 DEF BuildPlan, LInv, IInv, BeforeInv
    <3> QED
      BY <3>1, <3>2 DEF DriftInv
  <2>2. CASE Finish(1, {})
    BY <1>2, <2>2 DEF Finish
  <2> QED
    BY <1>4, <2>1, <2>2 DEF BuildPlan
<1>5. CASE Select
  <2>1. phase = "selecting" /\ UNCHANGED userDisk
    BY <1>5 DEF Select, historyVars
  <2>2. CASE \E code : Finish(code, {})
    BY <1>2, <2>2 DEF Finish
  <2>3. CASE UNCHANGED plan
    BY <1>3, <2>1, <2>3
  <2> QED
    BY <1>5, <2>2, <2>3 DEF Select
<1>6. CASE Splice
  <2>1. phase = "reading" /\ UNCHANGED userDisk
    BY <1>6 DEF Splice, historyVars
  <2>2. CASE \E code : Finish(code, {})
    BY <1>2, <2>2 DEF Finish
  <2>3. CASE UNCHANGED plan
    BY <1>3, <2>1, <2>3
  <2> QED
    BY <1>6, <2>2, <2>3 DEF Splice
<1>7. CASE Read \/ Write \/ WriteFails
  BY <1>3, <1>7 DEF Read, Write, WriteFails, historyVars
<1>8. CASE TypeCheck
  <2>1. CASE Finish(0, spliced)
    BY <1>2, <2>1 DEF Finish
  <2> QED
    BY <1>3, <1>8, <2>1 DEF TypeCheck, historyVars
<1>9. CASE Restore \/ RestoreFails
  <2>1. PICK f : RestoreOne(f)
    BY <1>9 DEF Restore, RestoreFails
  <2>2. CASE Finish(1, {})
    BY <1>2, <2>2 DEF Finish
  <2> QED
    BY <1>3, <2>1, <2>2 DEF RestoreOne
<1>10. CASE Crash
  BY <1>2, <1>10 DEF Crash, Finish
<1>11. CASE Start \/ GoGet \/ Migrate \/ Revert
  BY <1>2, <1>11 DEF Start, GoGet, Migrate, Revert, runVars
<1>12. CASE Edit
  <2>1. PICK g \in Files, m \in {Edited, Broken} : userDisk' = [userDisk EXCEPT ![g] = @ \cup {m}]
    BY <1>12 DEF Edit
  <2>2. UNCHANGED <<phase, plan>>
    BY <1>12 DEF Edit, runVars
  <2>3. \A f \in Files : userDisk'[f] = IF f = g THEN userDisk[f] \cup {m} ELSE userDisk[f]
    BY <1>1, <2>1 DEF LInv, IInv, TypeOK, Disks
  <2> QED
    BY <1>1, <2>2, <2>3 DEF DriftInv
<1>13. CASE Answer \/ UNCHANGED vars
  BY <1>1, <1>13 DEF DriftInv, Answer, vars, runVars, historyVars
<1> QED
  BY <1>1, <1>4, <1>5, <1>6, <1>7, <1>8, <1>9, <1>10, <1>11, <1>12, <1>13
  DEF Next, Run, Fault, Person

(***************************************************************************)
(* The type check covers the packages of all the files of the steps: each  *)
(* such file changed, as no work that is left to do is in a file of a      *)
(* package that built.                                                     *)
(***************************************************************************)
SplicedInv ==
  /\ HasRead /\ MemoryInv /\ DriftInv
  /\ ModuleBuilds(plan.disk)
  /\ \A w \in spliced : w \in Work /\ ~Done(w, plan.disk)

LEMMA CheckingSpliced ==
  ASSUME LInv, DriftInv, phase = "checking"
  PROVE  SplicedInv
<1>1. HasRead /\ MemoryInv
  BY DEF LInv, IInv, HasRead
<1>2. /\ ModuleBuilds(plan.disk) /\ plan.left = Left(plan.disk, plan.answers)
      /\ spliced = UNION (Selected(plan.left) \ queue)
  BY <1>1 DEF LInv, LicenceInv
<1>3. \A s \in Selected(plan.left) : s \subseteq plan.left
  BY DEF Selected, ComponentSteps, Steps, InComp
<1>4. spliced \subseteq plan.left
  BY <1>2, <1>3
<1> QED
  BY <1>1, <1>2, <1>4 DEF SplicedInv, Left

(* An edit of a step that stands in a tree like the planned one was not    *)
(* there when the plan was made.                                           *)
LEMMA NotPlanned ==
  ASSUME SplicedInv, NEW f \in Files, NEW w \in Work, w \in userDisk[f]
  PROVE  w \in plan.disk[f]
<1>1. phase \notin {"idle", "planning"}
  BY DEF SplicedInv, HasRead
<1>2. userDisk[f] \subseteq plan.disk[f] \cup {Edited, Broken}
  BY <1>1 DEF SplicedInv, DriftInv
<1> QED
  BY <1>2, NotMarks DEF Marks

LEMMA StepPkgsChecked ==
  ASSUME SplicedInv
  PROVE  StepPkgs(spliced) \subseteq CheckedPkgs
<1>1. SUFFICES ASSUME NEW v \in spliced, NEW g \in Desc[v].files PROVE g \in Changed
  BY DEF StepPkgs, StepFiles, CheckedPkgs
<1>2. v \in Work /\ g \in Files /\ PkgOf[g] \in Pkgs /\ ~Done(v, plan.disk)
  BY MigratePlanAssumption DEF WorkType, SplicedInv
<1>3. v \in EditsIn(spliced, g)
  BY DEF EditsIn
<1>4. /\ g \in DOMAIN files /\ files[g] = orig[g] \cup EditsIn(spliced, g)
      /\ orig[g] \subseteq userDisk[g]
  BY <1>2, <1>3 DEF SplicedInv, MemoryInv
<1>5. SUFFICES ASSUME files[g] = orig[g] PROVE FALSE
  BY <1>4 DEF Changed
<1>6. v \in plan.disk[g]
  BY <1>2, <1>3, <1>4, <1>5, NotPlanned
<1>7. Builds(PkgOf[g], plan.disk)
  BY <1>2 DEF SplicedInv, ModuleBuilds
<1> QED
  BY <1>2, <1>6, <1>7 DEF Builds

(***************************************************************************)
(* The other packages hold what they held when the module last built, and  *)
(* marks; only a step that is bad for one of them can break it.            *)
(***************************************************************************)
LEMMA CheckedModuleBuilds ==
  ASSUME LInv, DriftInv, phase = "checking", Sound = Files,
         \A f \in Files : Broken \notin disk[f],
         \A p \in CheckedPkgs : Builds(p, disk)
  PROVE  \A p \in Pkgs : Builds(p, disk) \/ BrokenUnseen(p)
<1>1. SplicedInv
  BY CheckingSpliced
<1>2. \A f \in Files : disk[f] = userDisk[f] \cup EditsIn(spliced, f)
  BY DEF LInv, IInv, WriteInv, Sound
<1>3. ASSUME NEW p \in Pkgs \ CheckedPkgs, ~BrokenUnseen(p) PROVE Builds(p, disk)
  <2>1. ASSUME NEW f \in Files, PkgOf[f] = p PROVE disk[f] = userDisk[f]
    <3>1. f \notin Changed
      BY <1>3, <2>1 DEF CheckedPkgs
    <3>2. CASE f \in DOMAIN files
      BY <1>1, <1>2, <3>1, <3>2 DEF SplicedInv, MemoryInv, Changed
    <3>3. CASE f \notin DOMAIN files
      BY <1>1, <1>2, <3>3 DEF SplicedInv, MemoryInv
    <3> QED
      BY <3>2, <3>3
  <2>2. \A f \in Files : plan.disk[f] \subseteq disk[f]
    BY <1>2 DEF DriftInv
  <2>3. \A f \in Files : PkgOf[f] = p => EditsOnly(plan.disk[f], disk[f])
    BY <2>1, <2>2 DEF DriftInv, EditsOnly
  <2>4. ASSUME NEW w \in Work, Done(w, disk), p \in Desc[w].bad PROVE Done(w, plan.disk)
    <3>1. w \notin spliced
      BY <1>1, <1>3, <2>4, StepPkgsChecked DEF BrokenUnseen
    <3>2. \A f \in Files : w \in disk[f] => w \in plan.disk[f]
      BY <1>1, <1>2, <3>1, NotPlanned DEF EditsIn
    <3>3. Desc[w].files \subseteq Files
      BY MigratePlanAssumption DEF WorkType
    <3> QED
      BY <2>4, <3>2, <3>3 DEF Done
  <2>5. Builds(p, plan.disk)
    BY <1>1, <1>3 DEF SplicedInv, ModuleBuilds
  <2> QED
    BY <1>3, <2>2, <2>3, <2>4, <2>5, UntouchedPkgBuilds
<1> QED
  BY <1>3

(***************************************************************************)
(* A compiling edit of a package that builds keeps it building.            *)
(***************************************************************************)
LEMMA EditKeepsBuilding ==
  ASSUME NEW d \in Disks, NEW e, NEW p \in Pkgs, Builds(p, d),
         NEW g \in Files, NEW m \in {Edited, Broken}, e = [d EXCEPT ![g] = @ \cup {m}],
         \A f \in Files : Broken \notin e[f]
  PROVE  Builds(p, e)
<1>1. \A f \in Files : e[f] = IF f = g THEN d[f] \cup {m} ELSE d[f]
  BY DEF Disks
<1>2. \A f \in Files : EditsOnly(d[f], e[f])
  BY <1>1 DEF EditsOnly
<1>3. \A f \in Files : d[f] \subseteq e[f]
  BY <1>1
<1>4. \A w \in Work, f \in Files : w \in e[f] => w \in d[f]
  BY <1>1, NotMarks DEF Marks
<1>5. \A w \in Work : Done(w, e) => Done(w, d)
  BY <1>4, MigratePlanAssumption DEF Done, WorkType
<1> QED
  BY <1>2, <1>3, <1>5, UntouchedPkgBuilds

LEMMA NextKeepsBuilding == BuildInv /\ [Next]_vars => SuccessKeepsBuilding'
<1>1. SUFFICES ASSUME BuildInv, [Next]_vars,
                      phase' = "idle", exit' = 0, spliced' # {}, Sound' = Files,
                      \A f \in Files : Broken \notin disk'[f]
               PROVE  \A p \in Pkgs : Builds(p, disk') \/ BrokenUnseen(p)'
  BY DEF SuccessKeepsBuilding
<1>2. ~\E code : Finish(code, {})
  BY <1>1 DEF Finish
<1>3. CASE BuildPlan \/ Select \/ Read \/ Splice
  <2>1. CASE BuildPlan \/ Select
    BY <1>1, <1>2, <2>1 DEF BuildPlan, Select
  <2>2. CASE Read
    BY <1>1, <2>2 DEF Read
  <2>3. CASE Splice
    <3>1. phase = "reading" /\ ~Finish(1, {}) /\ ~Finish(0, {})
      BY <1>2, <2>3 DEF Splice
    <3>2. phase' \in {"reading", "writing"}
      BY <2>3, <3>1 DEF Splice
    <3> QED
      BY <1>1, <3>2
  <2> QED
    BY <1>3, <2>1, <2>2, <2>3
<1>4. CASE Write \/ WriteFails
  BY <1>1, <1>4 DEF Write, WriteFails
<1>5. CASE TypeCheck
  <2>1. phase = "checking" /\ UNCHANGED <<disk, lost, damaged>>
        /\ \A p \in CheckedPkgs : Builds(p, disk)
    BY <1>1, <1>5 DEF TypeCheck, historyVars
  <2>2. Sound = Files /\ \A f \in Files : Broken \notin disk[f]
    BY <1>1, <2>1 DEF Sound
  <2>3. \A p \in Pkgs : Builds(p, disk) \/ BrokenUnseen(p)
    BY <1>1, <2>1, <2>2, CheckedModuleBuilds DEF BuildInv
  <2>4. Finish(0, spliced)
    BY <1>1, <1>5 DEF TypeCheck
  <2>5. \A p : BrokenUnseen(p) => BrokenUnseen(p)'
    BY <2>4 DEF Finish, BrokenUnseen
  <2> QED
    BY <2>1, <2>3, <2>5
<1>6. CASE Restore \/ RestoreFails
  <2>1. PICK f : RestoreOne(f)
    BY <1>6 DEF Restore, RestoreFails
  <2> QED
    BY <1>1, <1>2, <2>1 DEF RestoreOne
<1>7. CASE Crash
  BY <1>1, <1>7 DEF Crash, Finish, Killed
<1>8. CASE Start \/ Revert
  BY <1>1, <1>8 DEF Start, Revert
<1>9. CASE Migrate
  BY <1>9 DEF Migrate, ModuleBuilds
<1>10. CASE Edit
  <2>1. PICK g \in Files, m \in {Edited, Broken} : disk' = [disk EXCEPT ![g] = @ \cup {m}]
    BY <1>10 DEF Edit
  <2>2. UNCHANGED <<phase, exit, spliced, lost, damaged>>
    BY <1>10 DEF Edit, runVars
  <2>3. disk \in Disks
    BY <1>1 DEF BuildInv, LInv, IInv, TypeOK
  <2>4. \A f \in Files : disk[f] \subseteq disk'[f]
    BY <2>1, <2>3 DEF Disks
  <2>5. \A p \in Pkgs : Builds(p, disk) \/ BrokenUnseen(p)
    BY <1>1, <2>2, <2>4 DEF BuildInv, SuccessKeepsBuilding, Sound
  <2>6. \A p \in Pkgs : Builds(p, disk) => Builds(p, disk')
    BY <1>1, <2>1, <2>3, EditKeepsBuilding
  <2>7. \A p : BrokenUnseen(p)' <=> BrokenUnseen(p)
    BY <2>2 DEF BrokenUnseen
  <2> QED
    BY <2>5, <2>6, <2>7
<1>11. CASE Answer \/ GoGet \/ UNCHANGED vars
  <2>1. UNCHANGED <<phase, exit, spliced, lost, damaged, disk>>
    BY <1>11 DEF Answer, GoGet, vars, runVars, historyVars
  <2> QED
    BY <1>1, <2>1 DEF BuildInv, SuccessKeepsBuilding, Sound, BrokenUnseen
<1> QED
  BY <1>1, <1>3, <1>4, <1>5, <1>6, <1>7, <1>8, <1>9, <1>10, <1>11
  DEF Next, Run, Fault, Person

LEMMA InitBuildInv == Init => BuildInv
  BY InitLInv DEF BuildInv, DriftInv, SuccessKeepsBuilding, Init

(***************************************************************************)
(* A run that reports steps as applied leaves every package building that  *)
(* someone did not break, and that none of its steps broke from outside,   *)
(* where the type check of the touched packages does not look.             *)
(***************************************************************************)
THEOREM SuccessBuilds == Spec => []SuccessKeepsBuilding
<1>1. BuildInv /\ [Next]_vars => BuildInv'
  BY NextLInv, NextDriftInv, NextKeepsBuilding DEF BuildInv
<1>2. BuildInv => SuccessKeepsBuilding
  BY DEF BuildInv
<1> QED
  BY InitBuildInv, <1>1, <1>2, PTL DEF Spec

-----------------------------------------------------------------------------
(***************************************************************************)
(* The refinement of AtomicApply, for runs that no one and nothing         *)
(* disturbs while they hold files in memory: writes of new contents may    *)
(* fail, but not those of old ones.                                        *)
(***************************************************************************)
Undisturbed == QuietRuns /\ MaxRestoreFailures = 0 /\ MaxCrashes = 0

(* What the run has read is what people have in those files; a file that a *)
(* failed write damaged waits to be restored.                              *)
QuietInv ==
  /\ lost = {} /\ damaged \subseteq todo
  /\ \A f \in DOMAIN files : userDisk[f] = orig[f]
  /\ phase # "restoring" => damaged = {}
  /\ \A f \in damaged : disk[f] = {Torn}
  /\ ModuleBuilds(lastBuilt)

AtomicInv == LInv /\ DriftInv /\ QuietInv

LEMMA EmptyBuilds == ModuleBuilds([f \in Files |-> {}])
<1> DEFINE d == [f \in Files |-> {}]
<1>1. ASSUME NEW w \in Work PROVE ~Done(w, d) /\ ~\E f \in Desc[w].files : w \in d[f]
  <2>1. Desc[w].files \subseteq Files /\ Desc[w].files # {}
    BY MigratePlanAssumption DEF WorkType
  <2> QED
    BY <2>1 DEF Done
<1>2. \A f \in Files : d[f] = {}
  OBVIOUS
<1> HIDE DEF d
<1>3. ModuleBuilds(d)
  BY <1>1, <1>2 DEF ModuleBuilds, Builds
<1> QED
  BY <1>3 DEF d

LEMMA InitAtomicInv == Init => AtomicInv
  BY InitLInv, EmptyBuilds DEF AtomicInv, DriftInv, QuietInv, Init, NoPlan, NoFiles

(***************************************************************************)
(* A file the run writes, tears or restores has not been edited since it   *)
(* was read.                                                               *)
(***************************************************************************)
LEMMA QuietUntouched ==
  ASSUME AtomicInv, phase \in {"writing", "restoring"}, NEW f \in todo
  PROVE  Untouched(f) /\ (phase = "writing" => disk[f] = orig[f])
<1>1. f \in DOMAIN files /\ f \in Files /\ HasRead
  BY DEF AtomicInv, LInv, IInv, TypeOK, HasRead
<1>2. files[f] = orig[f] \cup EditsIn(spliced, f) /\ userDisk[f] = orig[f]
  BY <1>1 DEF AtomicInv, QuietInv, LInv, IInv, MemoryInv
<1>3. CASE phase = "writing"
  BY <1>1, <1>2, <1>3 DEF AtomicInv, QuietInv, LInv, IInv, WriteInv, Untouched
<1>4. CASE phase = "restoring"
  BY <1>1, <1>2, <1>4 DEF AtomicInv, QuietInv, LInv, IInv, RestoreInv, Untouched, Sound
<1> QED
  BY <1>3, <1>4

LEMMA FinishQuiet ==
  ASSUME QuietInv, NEW code, NEW applied, Finish(code, applied),
         UNCHANGED <<lost, lastBuilt>>, damaged' = {}
  PROVE  QuietInv'
  BY DEF QuietInv, Finish, NoFiles, ModuleBuilds

LEMMA SameQuiet ==
  ASSUME QuietInv, UNCHANGED <<lost, damaged, files, orig, userDisk, lastBuilt>>,
         phase # "restoring", phase' # "restoring", todo' # todo => damaged = {}
  PROVE  QuietInv'
  BY DEF QuietInv, ModuleBuilds

LEMMA NextQuietInv == Undisturbed /\ AtomicInv /\ [Next]_vars => QuietInv'
<1>1. SUFFICES ASSUME Undisturbed, AtomicInv, [Next]_vars PROVE QuietInv'
  OBVIOUS
<1> USE <1>1 DEF AtomicInv
<1>2. faults.restore \in Nat /\ faults.crash \in Nat
  BY DEF LInv, IInv, TypeOK
<1>3. ~RestoreFails /\ ~Crash
  BY <1>2 DEF Undisturbed, RestoreFails, Crash
<1>4. CASE Start
  <2>1. files = NoFiles /\ damaged' = {} /\ lost' = {} /\ UNCHANGED <<files, lastBuilt>>
    BY <1>4 DEF Start, LInv, IInv, MemoryInv, HasRead
  <2> QED
    BY <2>1 DEF QuietInv, NoFiles, ModuleBuilds
<1>5. CASE BuildPlan
  <2>1. phase = "planning" /\ damaged' = {} /\ UNCHANGED <<lost, damaged, userDisk>>
    BY <1>5 DEF BuildPlan, QuietInv
  <2>2. CASE Finish(1, {})
    BY <1>5, <2>1, <2>2, FinishQuiet DEF BuildPlan, Finish, CanPlan
  <2>3. CASE CanPlan /\ lastBuilt' = disk /\ phase' = "selecting" /\ UNCHANGED <<files, orig, todo>>
    BY <2>1, <2>3 DEF QuietInv, CanPlan, ModuleBuilds
  <2> QED
    BY <1>5, <2>2, <2>3 DEF BuildPlan
<1>6. CASE Select
  <2>1. phase = "selecting" /\ damaged' = {} /\ UNCHANGED <<lost, damaged, userDisk, lastBuilt>>
    BY <1>6 DEF Select, QuietInv, historyVars
  <2>2. CASE \E code : Finish(code, {})
    BY <2>1, <2>2, FinishQuiet
  <2>3. CASE phase' = "reading" /\ UNCHANGED <<files, orig, todo>>
    BY <2>1, <2>3, SameQuiet
  <2> QED
    BY <1>6, <2>2, <2>3 DEF Select
<1>7. CASE Read
  <2> PICK f : LET all == DOMAIN files \cup {f} IN
        /\ f \in Files
        /\ files' = [g \in all |-> IF g = f THEN disk[f] ELSE files[g]]
        /\ orig'  = [g \in all |-> IF g = f THEN disk[f] ELSE orig[g]]
    <3>1. \A s \in queue : StepFiles(s) \subseteq Files
      BY StepFilesType DEF LInv, IInv, TypeOK
    <3> QED
      BY <1>7, <3>1 DEF Read, Lowest
  <2>1. disk = userDisk
    BY <1>7 DEF Read, LInv, IInv, BeforeInv
  <2>2. UNCHANGED <<disk, todo, phase, lost, damaged, userDisk, lastBuilt>>
    BY <1>7 DEF Read, historyVars
  <2>3. \A g \in DOMAIN files' : userDisk'[g] = orig'[g]
    BY <2>1, <2>2 DEF QuietInv
  <2> QED
    BY <2>2, <2>3 DEF QuietInv, ModuleBuilds
<1>8. CASE Splice
  <2>1. /\ phase = "reading" /\ damaged = {} /\ damaged' = {}
        /\ UNCHANGED <<disk, lost, damaged, userDisk, lastBuilt>>
    BY <1>8 DEF Splice, QuietInv, historyVars
  <2>2. CASE \E code : Finish(code, {})
    BY <2>1, <2>2, FinishQuiet
  <2>3. CASE /\ DOMAIN files' = DOMAIN files /\ UNCHANGED orig
             /\ phase' # "restoring"
    BY <2>1, <2>3 DEF QuietInv, ModuleBuilds
  <2>4. \A s : DOMAIN Spliced(s) = DOMAIN files
    BY DEF Spliced
  <2> QED
    BY <1>8, <2>1, <2>2, <2>3, <2>4 DEF Splice
<1>9. CASE Write
  <2> PICK f \in todo : lost' = IF disk[f] = orig[f] THEN lost ELSE lost \cup {f}
    BY <1>9 DEF Write, Lowest
  <2>1. phase = "writing" /\ phase' # "restoring" /\ damaged = {}
    BY <1>9 DEF Write, QuietInv
  <2>2. UNCHANGED lost
    BY <2>1, QuietUntouched
  <2> QED
    BY <1>9, <2>1, <2>2, SameQuiet DEF Write
<1>10. CASE WriteFails
  <2>1. phase = "writing" /\ phase' = "restoring" /\ damaged = {} /\ todo' = Changed /\ todo \subseteq Changed
    BY <1>10 DEF WriteFails, QuietInv, LInv, IInv, WriteInv
  <2>2. UNCHANGED <<files, orig, userDisk, lastBuilt>>
    BY <1>10 DEF WriteFails
  <2>3. CASE UNCHANGED <<disk, lost, damaged>>
    BY <2>1, <2>2, <2>3 DEF QuietInv, ModuleBuilds
  <2>4. ASSUME NEW f \in Lowest(todo), Tear(f) PROVE QuietInv'
    <3>1. f \in todo /\ f \in Files
      BY DEF Lowest, LInv, IInv, TypeOK
    <3>2. UNCHANGED lost
      BY <2>1, <2>4, <3>1, QuietUntouched DEF Tear
    <3>3. disk'[f] = {Torn} /\ damaged' = {f}
      BY <2>1, <2>4, <3>1 DEF Tear, LInv, IInv, TypeOK, Disks
    <3> QED
      BY <2>1, <2>2, <3>1, <3>2, <3>3 DEF QuietInv, ModuleBuilds
  <2> QED
    BY <1>10, <2>3, <2>4 DEF WriteFails
<1>11. CASE TypeCheck
  <2>1. phase = "checking" /\ damaged = {} /\ UNCHANGED <<disk, lost, damaged, userDisk, lastBuilt>>
    BY <1>11 DEF TypeCheck, QuietInv, historyVars
  <2>2. CASE Finish(0, spliced)
    BY <2>1, <2>2, FinishQuiet
  <2>3. CASE UNCHANGED <<files, orig>> /\ phase' = "restoring"
    BY <2>1, <2>3 DEF QuietInv, ModuleBuilds
  <2> QED
    BY <1>11, <2>2, <2>3 DEF TypeCheck
<1>12. CASE Restore
  <2> PICK f \in todo :
        /\ RestoreOne(f)
        /\ disk' = [disk EXCEPT ![f] = orig[f]]
        /\ lost' = IF Untouched(f) THEN lost ELSE lost \cup {f}
        /\ damaged' = damaged \ {f}
    BY <1>12 DEF Restore
  <2>1. phase = "restoring" /\ UNCHANGED <<userDisk, lastBuilt>>
    BY DEF RestoreOne
  <2>2. UNCHANGED lost
    BY <2>1, QuietUntouched
  <2>3. CASE todo = {f} /\ Finish(1, {})
    <3>1. damaged' = {}
      BY <2>3 DEF QuietInv
    <3> QED
      BY <2>1, <2>2, <2>3, <3>1, FinishQuiet
  <2>4. CASE todo' = todo \ {f} /\ UNCHANGED <<phase, files, orig>>
    <3>1. \A g \in damaged' : disk'[g] = {Torn}
      BY DEF QuietInv, LInv, IInv, TypeOK, Disks
    <3> QED
      BY <2>1, <2>2, <2>4, <3>1 DEF QuietInv, ModuleBuilds
  <2> QED
    BY <2>3, <2>4 DEF RestoreOne
<1>13. CASE Edit
  <2> PICK g \in Files, m \in {Edited, Broken} :
        /\ g \notin DOMAIN files
        /\ disk' = [disk EXCEPT ![g] = @ \cup {m}]
        /\ userDisk' = [userDisk EXCEPT ![g] = @ \cup {m}]
    BY <1>13 DEF Edit, Undisturbed
  <2>1. UNCHANGED <<phase, todo, files, orig, lost, damaged, lastBuilt>>
    BY <1>13 DEF Edit, runVars
  <2>2. \A f \in DOMAIN files : disk'[f] = disk[f] /\ userDisk'[f] = userDisk[f]
    BY DEF LInv, IInv, TypeOK, Disks
  <2>3. damaged \subseteq DOMAIN files
    BY DEF LInv, IInv, TypeOK, QuietInv
  <2> QED
    BY <2>1, <2>2, <2>3 DEF QuietInv, ModuleBuilds
<1>14. CASE Migrate \/ Revert
  <2>1. phase = "idle" /\ UNCHANGED <<phase, files, lastBuilt, todo>> /\ lost' = {} /\ damaged' = {}
    BY <1>14 DEF Migrate, Revert, runVars, QuietInv
  <2>2. files = NoFiles
    BY <2>1 DEF LInv, IInv, MemoryInv, HasRead
  <2> QED
    BY <2>1, <2>2 DEF QuietInv, NoFiles, ModuleBuilds
<1>15. CASE Answer \/ GoGet \/ UNCHANGED vars
  <2>1. UNCHANGED <<disk, phase, todo, files, orig, lost, damaged, userDisk, lastBuilt>>
    BY <1>15 DEF Answer, GoGet, vars, runVars, historyVars
  <2> QED
    BY <2>1 DEF QuietInv, ModuleBuilds
<1> QED
  BY <1>3, <1>4, <1>5, <1>6, <1>7, <1>8, <1>9, <1>10, <1>11, <1>12, <1>13, <1>14, <1>15
  DEF Next, Run, Fault, Person

(***************************************************************************)
(* What AtomicApply says of a tree, in the words of MigrateApply.          *)
(***************************************************************************)
LEMMA AtomicBuilds ==
  /\ \A p, d : Atomic!Builds(p, d) <=> Builds(p, d)
  /\ \A d : Atomic!ModuleBuilds(d) <=> ModuleBuilds(d)
  /\ \A s : Atomic!StepPkgs(s) = StepPkgs(s)
  BY DEF Atomic!StepPkgs, StepPkgs, Atomic!StepFiles, StepFiles, Atomic!Builds, Builds, Atomic!ModuleBuilds, ModuleBuilds, Atomic!Done, Done,
         Atomic!Peers, Peers, Atomic!InComp, InComp, Atomic!Work, Work

(***************************************************************************)
(* The commit of a run: all the edits of its steps at once, to a tree      *)
(* whose packages that hold them go on building.                           *)
(***************************************************************************)
LEMMA RunCommits ==
  ASSUME AtomicInv, phase = "checking", UNCHANGED disk, phase' = "idle",
         \A p \in CheckedPkgs : Builds(p, disk)
  PROVE  [Atomic!Next]_Visible
<1>1. Visible = userDisk /\ Visible' = disk /\ HasRead
  BY DEF Visible, HasRead
<1>2. disk \in Disks /\ userDisk \in Disks /\ spliced \in SUBSET Work
  BY DEF AtomicInv, LInv, IInv, TypeOK
<1>3. \A f \in Files : disk[f] = userDisk[f] \cup EditsIn(spliced, f)
  BY DEF AtomicInv, QuietInv, LInv, IInv, WriteInv
<1>4. CASE spliced = {}
  <2>1. \A f \in Files : disk[f] = userDisk[f]
    BY <1>3, <1>4, EditsInUnion
  <2> QED
    BY <1>1, <1>2, <2>1 DEF Disks
<1>5. CASE spliced # {}
  <2>1. disk = [f \in Files |-> userDisk[f] \cup EditsIn(spliced, f)]
    BY <1>2, <1>3 DEF Disks
  <2>2. \A p \in StepPkgs(spliced) : Builds(p, disk)
    BY CheckingSpliced, StepPkgsChecked DEF AtomicInv
  <2>3. Atomic!With(spliced) = disk
    BY <1>1, <2>1 DEF Atomic!With, Atomic!EditsIn, EditsIn
  <2>4. Atomic!Commit
    BY <1>1, <1>2, <1>5, <2>2, <2>3, AtomicBuilds DEF Atomic!Commit, Atomic!Work, Work
  <2> QED
    BY <2>4 DEF Atomic!Next
<1> QED
  BY <1>4, <1>5

LEMMA EditsAtomic ==
  ASSUME Edit
  PROVE  Atomic!Edit
<1>1. PICK f \in Files, m \in {Edited, Broken} :
        /\ disk' = [disk EXCEPT ![f] = @ \cup {m}]
        /\ userDisk' = [userDisk EXCEPT ![f] = @ \cup {m}]
  BY DEF Edit
<1>2. UNCHANGED phase
  BY DEF Edit, runVars
<1>3. Visible' = [Visible EXCEPT ![f] = @ \cup {m}]
  BY <1>1, <1>2 DEF Visible
<1> QED
  BY <1>3 DEF Atomic!Edit

LEMMA MigratesAtomic ==
  ASSUME Migrate
  PROVE  Atomic!Commit
<1>1. PICK w \in Work : disk' = WithWork(disk, w) /\ ModuleBuilds(disk')
  BY DEF Migrate
<1>2. Visible = disk /\ Visible' = disk'
  BY DEF Migrate, runVars, Visible
<1>3. Atomic!With({w}) = disk'
  BY <1>1, <1>2 DEF Atomic!With, Atomic!EditsIn, EditsIn, WithWork
<1>4. \A p \in Atomic!StepPkgs({w}) : Atomic!Builds(p, Atomic!With({w}))
  <2>1. StepPkgs({w}) \subseteq Pkgs
    BY MigratePlanAssumption DEF StepPkgs, StepFiles, WorkType
  <2> QED
    BY <1>1, <1>3, <2>1, AtomicBuilds DEF ModuleBuilds
<1>5. {w} \in (SUBSET Atomic!Work) \ {{}}
  BY DEF Atomic!Work, Work
<1> QED
  BY <1>2, <1>3, <1>4, <1>5 DEF Atomic!Commit

LEMMA RevertsAtomic ==
  ASSUME AtomicInv, Revert
  PROVE  Atomic!Revert
<1>1. Visible = disk /\ Visible' = lastBuilt
  BY DEF Revert, Visible
<1>2. lastBuilt \in Disks /\ ModuleBuilds(lastBuilt)
  BY DEF AtomicInv, LInv, IInv, TypeOK, QuietInv
<1>3. ~ModuleBuilds(disk)
  BY DEF Revert
<1>4. Atomic!Disks = Disks
  BY DEF Atomic!Disks, Disks, Atomic!Contents, Contents, Atomic!Work, Work, Atomic!Marks, Marks
<1> QED
  BY <1>1, <1>2, <1>3, <1>4, AtomicBuilds DEF Atomic!Revert

(***************************************************************************)
(* A step of apply is a step of AtomicApply or changes nothing that is     *)
(* visible of the tree.                                                    *)
(***************************************************************************)
LEMMA NextAtomic ==
  Undisturbed /\ AtomicInv /\ AtomicInv' /\ [Next]_vars => [Atomic!Next]_Visible
<1>1. SUFFICES ASSUME Undisturbed, AtomicInv, AtomicInv', [Next]_vars,
                      Visible' # Visible
               PROVE  Atomic!Next
  OBVIOUS
<1>2. ~RestoreFails /\ ~Crash
  <2>1. faults.restore \in Nat /\ faults.crash \in Nat
    BY <1>1 DEF AtomicInv, LInv, IInv, TypeOK
  <2> QED
    BY <1>1, <2>1 DEF Undisturbed, RestoreFails, Crash
<1>3. CASE Start \/ Answer \/ GoGet \/ UNCHANGED vars
  BY <1>1, <1>3 DEF Start, Answer, GoGet, Visible, vars, runVars, historyVars
<1>4. CASE BuildPlan \/ Select \/ Read
  <2>1. phase \in {"planning", "selecting", "reading"} /\ UNCHANGED disk
    BY <1>4 DEF BuildPlan, Select, Read
  <2>2. phase' \in {"idle", "selecting", "reading"}
    BY <1>4 DEF BuildPlan, Select, Read, Finish
  <2> QED
    BY <1>1, <2>1, <2>2 DEF Visible
<1>5. CASE Splice
  <2>1. phase = "reading" /\ UNCHANGED <<disk, userDisk>>
    BY <1>5 DEF Splice, historyVars
  <2>2. disk = userDisk
    BY <1>1, <2>1 DEF AtomicInv, LInv, IInv, BeforeInv
  <2> QED
    BY <1>1, <2>1, <2>2 DEF Visible
<1>6. CASE Write \/ WriteFails
  BY <1>1, <1>6 DEF Write, WriteFails, Visible
<1>7. CASE TypeCheck
  <2>1. phase = "checking" /\ UNCHANGED <<disk, userDisk>>
    BY <1>7 DEF TypeCheck, historyVars
  <2>2. CASE phase' = "restoring"
    BY <1>1, <2>1, <2>2 DEF Visible
  <2>3. CASE Finish(0, spliced) /\ \A p \in CheckedPkgs : Builds(p, disk)
    BY <1>1, <2>1, <2>3, RunCommits DEF Finish
  <2> QED
    BY <1>7, <2>2, <2>3 DEF TypeCheck
<1>8. CASE Restore
  <2>1. PICK x \in todo : RestoreOne(x)
    BY <1>8 DEF Restore
  <2>2. phase = "restoring" /\ UNCHANGED userDisk
    BY <2>1 DEF RestoreOne
  <2>3. CASE UNCHANGED phase
    BY <1>1, <2>2, <2>3 DEF Visible
  <2>4. CASE Finish(1, {})
    <3>1. phase' = "idle" /\ exit' = 1 /\ spliced' = {}
      BY <2>4 DEF Finish
    <3>2. Sound' = Files
      BY <1>1, <3>1 DEF AtomicInv, QuietInv, Sound
    <3>3. \A f \in Files : disk'[f] = userDisk'[f] \cup EditsIn({}, f)
      BY <1>1, <3>1, <3>2 DEF AtomicInv, LInv, IInv, AllOrNothing, Killed
    <3>4. disk' \in Disks /\ userDisk' \in Disks
      BY <1>1 DEF AtomicInv, LInv, IInv, TypeOK
    <3>5. disk' = userDisk'
      BY <3>3, <3>4, EditsInUnion DEF Disks
    <3> QED
      BY <1>1, <2>2, <3>1, <3>5 DEF Visible
  <2> QED
    BY <2>1, <2>3, <2>4 DEF RestoreOne
<1>9. CASE Edit
  BY <1>9, EditsAtomic DEF Atomic!Next
<1>10. CASE Migrate
  BY <1>10, MigratesAtomic DEF Atomic!Next
<1>11. CASE Revert
  BY <1>1, <1>11, RevertsAtomic DEF Atomic!Next
<1> QED
  BY <1>1, <1>2, <1>3, <1>4, <1>5, <1>6, <1>7, <1>8, <1>9, <1>10, <1>11
  DEF Next, Run, Fault, Person

(***************************************************************************)
(* Undisturbed, apply implements AtomicApply: whatever it writes, fails to *)
(* write and writes back, people see a tree that changes by whole steps,   *)
(* and no package that built and holds a file of the steps stops building. *)
(***************************************************************************)
THEOREM ImplementsAtomic ==
  ASSUME Undisturbed
  PROVE  Spec => AtomicSpec
<1>1. Init => Atomic!Init
  BY DEF Init, NoPlan, Atomic!Init, Visible
<1>2. AtomicInv /\ [Next]_vars => AtomicInv'
  BY NextLInv, NextDriftInv, NextQuietInv DEF AtomicInv
<1>3. AtomicInv /\ [Next]_vars => [Atomic!Next]_Visible
  BY <1>2, NextAtomic
<1> QED
  BY InitAtomicInv, <1>1, <1>2, <1>3, PTL DEF Spec, AtomicSpec, Atomic!Spec

(***************************************************************************)
(* And it overwrites no edit and leaves no file torn.                      *)
(***************************************************************************)
THEOREM NothingLost ==
  ASSUME Undisturbed
  PROVE  Spec => [](phase = "idle" => lost = {} /\ damaged = {})
<1>1. AtomicInv /\ [Next]_vars => AtomicInv'
  BY NextLInv, NextDriftInv, NextQuietInv DEF AtomicInv
<1>2. AtomicInv => (phase = "idle" => lost = {} /\ damaged = {})
  BY DEF AtomicInv, QuietInv
<1> QED
  BY InitAtomicInv, <1>1, <1>2, PTL DEF Spec

-----------------------------------------------------------------------------
(* The hashes of a plan. *)

MachineSteps(L) == {s \in Steps(L) : MachineStep(L, s)}

(***************************************************************************)
(* The first piece of work that is ready at all is a machine step of its   *)
(* own or of its component's one step, unless it fails by itself: nothing  *)
(* before it breaks anything.                                              *)
(***************************************************************************)
LEMMA FirstReadyMachine ==
  ASSUME NEW L \in SUBSET Work, NEW w \in L, Ready(L, w), ~Desc[w].alone,
         \A v \in L : v < w => ~Ready(L, v)
  PROVE  Machine(L, w)
<1>1. ~Fails(L, w)
  BY DEF Fails
<1>2. ~BrokenBefore(L, w)
  BY DEF BrokenBefore, Peers, InComp
<1> QED
  BY <1>1, <1>2 DEF Machine, Tried

LEMMA InMachineStep ==
  ASSUME NEW L \in SUBSET Work, NEW w \in L, Machine(L, w)
  PROVE  \E s \in MachineSteps(L) : w \in s
<1>1. CASE OneStep(L, Desc[w].comp) /\ Desc[w].comp \in Comps
  <2>1. w \in InComp(L, Desc[w].comp)
    BY DEF InComp
  <2>2. InComp(L, Desc[w].comp) \in MachineSteps(L)
    BY <1>1 DEF MachineSteps, Steps, MachineStep, OneStep
  <2> QED
    BY <2>1, <2>2
<1>2. CASE ~OneStep(L, Desc[w].comp)
  <2>1. Desc[w].kind # "unmapped"
    BY MigratePlanAssumption DEF Machine, Tried, Ready
  <2>2. {w} \in MachineSteps(L)
    BY <1>2, <2>1 DEF MachineSteps, Steps, MachineStep
  <2> QED
    BY <2>2
<1> QED
  BY <1>1, <1>2, MigratePlanAssumption DEF OneStep

(* No machine step has work before all of the first one.                   *)
LEMMA NoneBeforeFirst ==
  ASSUME NEW L \in SUBSET Work, NEW s \in MachineSteps(L), IsFirst(s, MachineSteps(L)),
         NEW v \in Before(L, s)
  PROVE  ~Machine(L, v)
<1>1. SUFFICES ASSUME Machine(L, v) PROVE FALSE
  OBVIOUS
<1>2. v \in L /\ \A w \in s : v < w
  BY DEF Before
<1>3. PICK t \in MachineSteps(L) : v \in t
  BY <1>1, <1>2, InMachineStep
<1>4. s \subseteq Nat /\ v \in Nat
  <2>1. s \in SUBSET Work /\ Work \subseteq Nat
    BY StepsType DEF MachineSteps, Work
  <2> QED
    BY <1>2, <2>1
<1>5. PICK x \in s : x < v
  <2>1. t # s
    BY <1>2, <1>3, <1>4
  <2> QED
    BY <1>3, <2>1 DEF IsFirst, Precedes
<1> QED
  BY <1>2, <1>4, <1>5

(***************************************************************************)
(* Nothing the simulation leaves in a file comes before the first machine  *)
(* step, but for what failed steps leave behind.                           *)
(***************************************************************************)
LEMMA FirstExpect ==
  ASSUME NEW d \in Disks, NEW L \in SUBSET Work, NEW s \in MachineSteps(L),
         IsFirst(s, MachineSteps(L)), ~LeftBehind(L, s), NEW f \in StepFiles(s)
  PROVE  Expect(d, L, s, f) = d[f]
<1>1. SUFFICES ASSUME NEW v \in Before(L, s), f \in SimFiles(L, v)
               PROVE  FALSE
  BY DEF Expect
<1> DEFINE T == {u \in L : Ready(L, u)}
<1>2. L \subseteq Nat /\ s \subseteq Nat /\ v \in L /\ \A w \in s : v < w
  <2>1. s \in SUBSET Work
    BY StepsType DEF MachineSteps
  <2> QED
    BY <2>1 DEF Work, Before
<1>3. v \in T /\ Tried(L, v)
  BY <1>1, <1>2 DEF SimFiles, Tried
<1>4. Fails(L, v)
  BY <1>3, NoneBeforeFirst DEF Machine
<1>5. PICK u \in T : \A x \in T : u <= x
  <2> HIDE DEF T
  <2>1. T \in SUBSET Nat
    BY <1>2 DEF T
  <2> QED
    BY <1>3, <2>1, LeastNat
<1>6. \A x \in L : x < u => ~Ready(L, x)
  BY <1>2, <1>5
<1>7. u \in Before(L, s)
  BY <1>2, <1>3, <1>5 DEF Before
<1>8. Desc[u].alone
  BY <1>5, <1>6, <1>7, FirstReadyMachine, NoneBeforeFirst
<1> QED
  BY <1>1, <1>4, <1>5, <1>7, <1>8 DEF LeftBehind

(***************************************************************************)
(* What a run reads is no older than its plan.                             *)
(***************************************************************************)
ReadAfterPlan ==
  phase \in {"selecting", "reading"} =>
    \A f \in Files : /\ plan.disk[f] \subseteq userDisk[f]
                     /\ f \in DOMAIN files => plan.disk[f] \subseteq orig[f]

RInv == LInv /\ ReadAfterPlan

LEMMA InitRInv == Init => RInv
  BY InitLInv DEF RInv, ReadAfterPlan, Init

LEMMA NextReadAfterPlan == RInv /\ [Next]_vars => ReadAfterPlan'
<1>1. SUFFICES ASSUME RInv, [Next]_vars, phase' \in {"selecting", "reading"}
               PROVE  ReadAfterPlan'
  BY DEF ReadAfterPlan
<1>2. TypeOK /\ MemoryInv /\ BeforeInv /\ ReadAfterPlan
  BY <1>1 DEF RInv, LInv, IInv
<1>3. CASE BuildPlan
  <2>1. disk = userDisk /\ userDisk' = userDisk /\ plan'.disk = disk
    BY <1>1, <1>2, <1>3 DEF BuildPlan, BeforeInv, Finish
  <2>2. DOMAIN files' = {}
    BY <1>1, <1>2, <1>3 DEF BuildPlan, Finish, MemoryInv, HasRead, NoFiles
  <2> QED
    BY <2>1, <2>2 DEF ReadAfterPlan
<1>4. CASE Select \/ Answer \/ UNCHANGED vars
  <2>1. UNCHANGED <<userDisk, plan, files, orig>> /\ phase \in {"selecting", "reading"}
    BY <1>1, <1>4 DEF Select, Finish, Answer, historyVars, runVars, vars
  <2> QED
    BY <1>2, <2>1 DEF ReadAfterPlan
<1>5. CASE Read
  <2>1. disk = userDisk /\ phase = "reading" /\ UNCHANGED <<userDisk, plan>>
    BY <1>2, <1>5 DEF Read, BeforeInv, historyVars
  <2>2. PICK s \in queue : \E f \in Lowest(StepFiles(s) \ DOMAIN files) :
          orig' = [g \in DOMAIN files \cup {f} |-> IF g = f THEN disk[f] ELSE orig[g]]
          /\ DOMAIN files' = DOMAIN files \cup {f}
    BY <1>5 DEF Read
  <2>3. PICK f \in Lowest(StepFiles(s) \ DOMAIN files) :
          orig' = [g \in DOMAIN files \cup {f} |-> IF g = f THEN disk[f] ELSE orig[g]]
          /\ DOMAIN files' = DOMAIN files \cup {f}
    BY <2>2
  <2> QED
    BY <1>2, <2>1, <2>3 DEF ReadAfterPlan
<1>6. CASE Splice
  <2>1. UNCHANGED <<userDisk, plan, orig, phase>> /\ phase = "reading" /\ DOMAIN files' = DOMAIN files
    BY <1>1, <1>6 DEF Splice, Finish, Spliced, historyVars
  <2> QED
    BY <1>2, <2>1 DEF ReadAfterPlan
<1>7. CASE Edit
  <2>1. UNCHANGED <<plan, files, orig, phase>> /\ \A f \in Files : userDisk[f] \subseteq userDisk'[f]
    BY <1>2, <1>7 DEF Edit, runVars, TypeOK, Disks
  <2> QED
    BY <1>1, <1>2, <2>1 DEF ReadAfterPlan
<1>8. CASE Write \/ WriteFails \/ TypeCheck \/ Crash \/ Start \/ GoGet \/ Migrate \/ Revert
  BY <1>1, <1>8 DEF Write, WriteFails, TypeCheck, Crash, Start, GoGet, Migrate, Revert,
                    Finish, runVars
<1>9. CASE Restore \/ RestoreFails
  BY <1>1, <1>9 DEF Restore, RestoreFails, RestoreOne, Finish
<1> QED
  BY <1>1, <1>3, <1>4, <1>5, <1>6, <1>7, <1>8, <1>9 DEF Next, Run, Fault, Person

LEMMA NextRInv == RInv /\ [Next]_vars => RInv'
  BY NextLInv, NextReadAfterPlan DEF RInv

(* A plan has one first machine step. *)
LEMMA OneFirst ==
  ASSUME NEW L \in SUBSET Work, NEW s, NEW t,
         IsFirst(s, MachineSteps(L)), IsFirst(t, MachineSteps(L))
  PROVE  s = t
<1>1. SUFFICES ASSUME s # t PROVE FALSE
  OBVIOUS
<1>2. Precedes(s, t) /\ Precedes(t, s) /\ s \in SUBSET Work /\ t \in SUBSET Work
  BY <1>1, StepsType DEF IsFirst, MachineSteps
<1>3. PICK v \in s, w \in t : v < w /\ w < v
  BY <1>2 DEF Precedes
<1> QED
  BY <1>2, <1>3 DEF Work

(***************************************************************************)
(* A run without -component says that a file changed since the plan, when  *)
(* nobody changed one, only for what failed steps left behind in the       *)
(* plan's simulation: on every module and for every plan.                  *)
(***************************************************************************)
THEOREM PlainRunRefusedOnlyForLeftovers == Spec => []PlainRunNotRefused
<1>1. RInv => PlainRunNotRefused
  <2>1. SUFFICES ASSUME RInv, args.comp = AllComps, phase = "reading", userDisk = plan.disk,
                        NEW s \in queue, StepFiles(s) \subseteq DOMAIN files,
                        ~LeftBehind(plan.left, s), NEW f \in StepFiles(s)
                 PROVE  files[f] = Expect(plan.disk, plan.left, s, f)
    BY DEF PlainRunNotRefused, FalseRefusal, Stale
  <2>2. /\ plan.left \in SUBSET Work /\ plan.disk \in Disks /\ f \in Files /\ f \in DOMAIN files
        /\ queue \subseteq Selected(plan.left)
        /\ spliced = UNION (Selected(plan.left) \ queue)
    BY <2>1 DEF RInv, LInv, LicenceInv, HasRead, IInv, TypeOK
  <2>3. \A t \in Selected(plan.left) : IsFirst(t, MachineSteps(plan.left)) /\ t \in MachineSteps(plan.left)
    BY <2>1 DEF Selected, MachineSteps
  <2>4. spliced = {}
    BY <2>1, <2>2, <2>3, OneFirst
  <2>5. files[f] = orig[f] /\ orig[f] \subseteq userDisk[f] /\ plan.disk[f] \subseteq orig[f]
    <3>1. files[f] = orig[f] \cup EditsIn(spliced, f) /\ orig[f] \subseteq userDisk[f]
      BY <2>1, <2>2 DEF RInv, LInv, IInv, MemoryInv, HasRead
    <3>2. plan.disk[f] \subseteq orig[f]
      BY <2>1, <2>2 DEF RInv, ReadAfterPlan
    <3>3. EditsIn({}, f) = {}
      BY DEF EditsIn
    <3> QED
      BY <2>4, <3>1, <3>2, <3>3
  <2>6. s \in MachineSteps(plan.left) /\ IsFirst(s, MachineSteps(plan.left))
    BY <2>1, <2>2, <2>3
  <2>7. Expect(plan.disk, plan.left, s, f) = plan.disk[f]
    BY <2>1, <2>2, <2>6, FirstExpect
  <2>8. userDisk[f] = plan.disk[f]
    BY <2>1
  <2>9. orig[f] = plan.disk[f]
    BY <2>5, <2>8
  <2> QED
    BY <2>5, <2>7, <2>9
<1> QED
  BY InitRInv, NextRInv, <1>1, PTL DEF Spec
=============================================================================
