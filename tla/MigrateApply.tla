---------------------------- MODULE MigrateApply ----------------------------
(***************************************************************************)
(* `natsvet migrate apply` (runApply, internal/migrate/apply.go) on the    *)
(* files of a module, with everything that shares those files with it: a   *)
(* person who edits them, answers the plan's questions and migrates the    *)
(* steps a machine cannot; writes that fail; a process killed at any point *)
(* between two writes.                                                     *)
(*                                                                         *)
(* A run plans, selects steps, reads and splices them in memory, writes    *)
(* the changed files one by one, type-checks the packages that hold them   *)
(* and, on an error, writes the old contents back one by one.              *)
(***************************************************************************)
EXTENDS MigratePlan

CONSTANTS
  MaxEdits,     \* bound: edits by a person, of files or of given answers
  MaxFailures,  \* bound: writes that fail
  MaxRestoreFailures,  \* bound: writes of old contents that fail
  MaxCrashes,   \* bound: runs killed
  QuietRuns     \* TRUE: nobody edits a file a run has read

ASSUME MigrateApplyAssumption ==
  /\ MaxEdits \in Nat /\ MaxFailures \in Nat
  /\ MaxRestoreFailures \in Nat /\ MaxCrashes \in Nat
  /\ QuietRuns \in BOOLEAN

VARIABLES
  disk,      \* the module's files
  answers,   \* the answers to the component question
  upToDate,  \* the module requires the nats.go of the mapping table
  phase,     \* where the current run is
  args,      \* its -component and -dry-run
  plan,      \* its plan: what it was made from, and the work it holds
  queue,     \* steps selected and not yet spliced
  spliced,   \* the work of the steps spliced; after a run, of those it applied
  files,     \* tree.files: contents as edited, of the files read
  orig,      \* tree.orig: contents as read
  todo,      \* files to write, or to restore
  exit,      \* the exit code of the last run; Killed
  userDisk,  \* history: the files as they would be without the last run
  lost,      \* history: files in which the last run overwrote an edit
  damaged,   \* history: files a failed write damaged and no restore repaired
  lastBuilt, \* history: the last tree a plan was made from
  edits, faults  \* counters, for the bounds

userVars    == <<answers, upToDate, edits>>
historyVars == <<userDisk, lost, damaged, lastBuilt>>
runVars     == <<phase, args, plan, queue, spliced, files, orig, todo, exit>>
vars == <<disk, userVars, runVars, historyVars, faults>>

Killed   == 9  \* the exit code of a run that was killed
Phases   == {"idle", "planning", "selecting", "reading", "writing", "checking", "restoring"}
AllComps == "any"
Args     == [comp : Comps \cup {AllComps}, dryRun : BOOLEAN]

(* The memory of a process that has not planned, or not read, anything. *)
NoArgs  == [comp |-> AllComps, dryRun |-> FALSE]
NoPlan  == [disk |-> [f \in Files |-> {}], answers |-> [c \in Comps |-> "none"], left |-> {}]
NoFiles == [f \in {} |-> {}]

(* Mutants of Changed: every file of the module; the files not written yet. *)
EveryFile  == Files
NotWritten == {f \in DOMAIN files : files[f] # disk[f]}

(* tree.changed: the files whose content differs from before the run. *)
Changed == {f \in DOMAIN files : files[f] # orig[f]}

Lowest(S) == {f \in S : \A g \in S : f <= g}

Init ==
  /\ disk = NoPlan.disk /\ answers = NoPlan.answers /\ upToDate \in BOOLEAN
  /\ phase = "idle" /\ exit = 0 /\ args = NoArgs /\ plan = NoPlan
  /\ queue = {} /\ spliced = {} /\ todo = {}
  /\ files = NoFiles /\ orig = NoFiles
  /\ userDisk = disk /\ lastBuilt = disk /\ lost = {} /\ damaged = {}
  /\ edits = 0 /\ faults = [write |-> 0, restore |-> 0, crash |-> 0]

-----------------------------------------------------------------------------
(* The run. *)

(* The process ends, and its memory with it. *)
Finish(code, applied) ==
  /\ phase' = "idle" /\ exit' = code /\ spliced' = applied
  /\ args' = NoArgs /\ plan' = NoPlan
  /\ queue' = {} /\ todo' = {} /\ files' = NoFiles /\ orig' = NoFiles

(* main starts a run of apply with its flags. *)
Start ==
  /\ phase = "idle" /\ phase' = "planning"
  /\ args' \in Args
  /\ spliced' = {} /\ userDisk' = disk /\ lost' = {} /\ damaged' = {}
  /\ UNCHANGED <<disk, userVars, plan, queue, files, orig, todo, exit, lastBuilt, faults>>

(* A component is in the plan while legacy code of it is left. *)
HasCode(d, c) == \E w \in Work : Desc[w].comp = c /\ ~Done(w, d)

(* An answer to skip a component that is not there any more. *)
StaleSkip == \E c \in Comps : answers[c] = "skip" /\ ~HasCode(disk, c)

(* buildPlan: no plan of a module that does not type-check, or with such an answer. *)
CanPlan == ModuleBuilds(disk) /\ ~StaleSkip

BuildPlan ==
  /\ phase = "planning"
  /\ \/ /\ CanPlan
        /\ plan' = [disk |-> disk, answers |-> answers, left |-> Left(disk, answers)]
        /\ phase' = "selecting" /\ lastBuilt' = disk
        /\ UNCHANGED <<args, queue, spliced, files, orig, todo, exit>>
     \/ ~CanPlan /\ Finish(1, {}) /\ UNCHANGED lastBuilt
  /\ UNCHANGED <<disk, userVars, userDisk, lost, damaged, faults>>

(* The steps of the component asked for, up to the first one a machine cannot apply. *)
ComponentSteps(L, c) == {s \in Steps(L) : s \subseteq InComp(L, c)}

StopsBefore(L, S, s) == \E t \in S : ~MachineStep(L, t) /\ (t = s \/ Precedes(t, s))

Selected(L) ==
  IF args.comp # AllComps
  THEN LET S == ComponentSteps(L, args.comp) IN {s \in S : ~StopsBefore(L, S, s)}
  ELSE LET M == {s \in Steps(L) : MachineStep(L, s)} IN {s \in M : IsFirst(s, M)}

Unknown == args.comp # AllComps /\ ~HasCode(plan.disk, args.comp)

Stopped(L) == args.comp # AllComps /\ \E s \in ComponentSteps(L, args.comp) : ~MachineStep(L, s)

(* Mutant: no answer is needed. *)
NeverPending(s) == FALSE

Pending(s) == \E w \in s : Desc[w].comp \in Comps /\ plan.answers[Desc[w].comp] = "none"

Select ==
  LET S == Selected(plan.left) IN
  /\ phase = "selecting"
  /\ \/ ~upToDate /\ Finish(3, {})
     \/ upToDate /\ Unknown /\ Finish(1, {})
     \/ upToDate /\ ~Unknown /\ S = {} /\ Finish(IF Stopped(plan.left) THEN 3 ELSE 0, {})
     \/ upToDate /\ ~Unknown /\ (\E s \in S : Pending(s)) /\ Finish(1, {})
     \/ /\ upToDate /\ ~Unknown /\ S # {} /\ \A s \in S : ~Pending(s)
        /\ queue' = S /\ phase' = "reading"
        /\ UNCHANGED <<args, plan, spliced, files, orig, todo, exit>>
  /\ UNCHANGED <<disk, userVars, historyVars, faults>>

(* tree.read: a file is read once and kept. *)
Read ==
  /\ phase = "reading"
  /\ \E s \in queue : IsFirst(s, queue) /\ \E f \in Lowest(StepFiles(s) \ DOMAIN files) :
       LET all == DOMAIN files \cup {f} IN
       /\ files' = [g \in all |-> IF g = f THEN disk[f] ELSE files[g]]
       /\ orig'  = [g \in all |-> IF g = f THEN disk[f] ELSE orig[g]]
  /\ UNCHANGED <<disk, userVars, phase, args, plan, queue, spliced, todo, exit, historyVars, faults>>

Stale(s) == \E f \in StepFiles(s) : files[f] # Expect(plan.disk, plan.left, s, f)

(***************************************************************************)
(* tree.splice: refuses the step when a file does not have the content its *)
(* hash records; else edits the files in memory.  After the last step a    *)
(* dry run is over and any other run writes.                               *)
(***************************************************************************)
(* Mutant: a step is spliced into what was read, without the steps before it. *)
SplicedAlone(s) == [f \in DOMAIN files |-> orig[f] \cup EditsIn(s, f)]

Spliced(s) == [f \in DOMAIN files |-> files[f] \cup EditsIn(s, f)]

Splice ==
  /\ phase = "reading"
  /\ \E s \in queue :
       /\ IsFirst(s, queue) /\ StepFiles(s) \subseteq DOMAIN files
       /\ \/ Stale(s) /\ Finish(1, {})
          \/ ~Stale(s) /\ queue = {s} /\ args.dryRun /\ Finish(0, {})
          \/ /\ ~Stale(s)
             /\ files' = Spliced(s) /\ spliced' = spliced \cup s /\ queue' = queue \ {s}
             /\ \/ queue # {s} /\ UNCHANGED <<phase, todo>>
                \/ /\ queue = {s} /\ ~args.dryRun
                   /\ phase' = "writing"
                   /\ todo' = {f \in DOMAIN files : Spliced(s)[f] # orig[f]}
             /\ UNCHANGED <<args, plan, orig, exit>>
  /\ UNCHANGED <<disk, userVars, historyVars, faults>>

(* tree.write, file by file in path order. *)
Write ==
  /\ phase = "writing"
  /\ \E f \in Lowest(todo) :
       /\ disk' = [disk EXCEPT ![f] = files[f]]
       /\ lost' = IF disk[f] = orig[f] THEN lost ELSE lost \cup {f}
       /\ todo' = todo \ {f}
  /\ phase' = IF todo' = {} THEN "checking" ELSE "writing"
  /\ UNCHANGED <<userVars, args, plan, queue, spliced, files, orig, exit,
                 userDisk, damaged, lastBuilt, faults>>

(* The file holds what the run itself left in it: nobody edited it since. *)
Untouched(f) == IF f \in damaged THEN disk[f] = {Torn} ELSE disk[f] \in {orig[f], files[f]}

(* os.WriteFile truncates the file before it writes, and may get no further. *)
Tear(f) ==
  /\ disk' = [disk EXCEPT ![f] = {Torn}]
  /\ lost' = IF Untouched(f) THEN lost ELSE lost \cup {f}
  /\ damaged' = damaged \cup {f}

(* It fails: the file keeps its content or is torn; all changed files are restored. *)
WriteFails ==
  /\ phase = "writing" /\ faults.write < MaxFailures
  /\ \E f \in Lowest(todo) : Tear(f) \/ UNCHANGED <<disk, lost, damaged>>
  /\ phase' = "restoring" /\ todo' = Changed
  /\ faults' = [faults EXCEPT !.write = @ + 1]
  /\ UNCHANGED <<userVars, args, plan, queue, spliced, files, orig, exit, userDisk, lastBuilt>>

(* Mutant: only the package of the first changed file is checked. *)
FirstPkg == {PkgOf[f] : f \in Lowest(Changed)}

(* typeCheck loads only the packages that hold a changed file. *)
CheckedPkgs == {PkgOf[f] : f \in Changed}

TypeCheck ==
  /\ phase = "checking"
  /\ \/ (\A p \in CheckedPkgs : Builds(p, disk)) /\ Finish(0, spliced)
     \/ /\ \E p \in CheckedPkgs : ~Builds(p, disk)
        /\ phase' = "restoring" /\ todo' = Changed
        /\ UNCHANGED <<args, plan, queue, spliced, files, orig, exit>>
  /\ UNCHANGED <<disk, userVars, historyVars, faults>>

(* Mutant: a run ends with the first file it restores. *)
RestoreFirst(f) ==
  /\ phase = "restoring" /\ f \in Lowest(todo) /\ Finish(1, {})
  /\ UNCHANGED <<userVars, userDisk, lastBuilt>>

(***************************************************************************)
(* tree.restore, file by file; a failure does not keep it from the next    *)
(* file, and after the last one the run exits 1.                           *)
(***************************************************************************)
RestoreOne(f) ==
  /\ phase = "restoring" /\ f \in Lowest(todo)
  /\ \/ todo = {f} /\ Finish(1, {})
     \/ /\ todo # {f} /\ todo' = todo \ {f}
        /\ UNCHANGED <<phase, args, plan, queue, spliced, files, orig, exit>>
  /\ UNCHANGED <<userVars, userDisk, lastBuilt>>

Restore ==
  \E f \in todo :
    /\ RestoreOne(f)
    /\ disk' = [disk EXCEPT ![f] = orig[f]]
    /\ lost' = IF Untouched(f) THEN lost ELSE lost \cup {f}
    /\ damaged' = damaged \ {f}
    /\ UNCHANGED faults

RestoreFails ==
  /\ faults.restore < MaxRestoreFailures
  /\ faults' = [faults EXCEPT !.restore = @ + 1]
  /\ \E f \in todo :
       /\ RestoreOne(f)
       /\ Tear(f) \/ (damaged' = damaged \cup {f} /\ UNCHANGED <<disk, lost>>)

(* The process is killed, perhaps in the middle of writing or restoring a file. *)
Crash ==
  /\ phase # "idle" /\ faults.crash < MaxCrashes
  /\ faults' = [faults EXCEPT !.crash = @ + 1]
  /\ Finish(Killed, spliced)
  /\ \/ phase \in {"writing", "restoring"} /\ \E f \in Lowest(todo) : Tear(f)
     \/ UNCHANGED <<disk, lost, damaged>>
  /\ UNCHANGED <<userVars, userDisk, lastBuilt>>

-----------------------------------------------------------------------------
(* The person. *)

(* Saves an edit of a file in an editor, whatever the run is doing. *)
Edit ==
  /\ edits < MaxEdits /\ edits' = edits + 1
  /\ \E f \in Files, m \in {Edited, Broken} :
       /\ QuietRuns => f \notin DOMAIN files
       /\ disk' = [disk EXCEPT ![f] = @ \cup {m}]
       /\ userDisk' = [userDisk EXCEPT ![f] = @ \cup {m}]
  /\ UNCHANGED <<answers, upToDate, runVars, lost, damaged, lastBuilt, faults>>

(* Answers the component question, or changes the answer, which is an edit too. *)
Answer ==
  /\ \E c \in Comps, choice \in {"migrate", "skip"} :
       /\ answers' = [answers EXCEPT ![c] = choice]
       /\ IF answers[c] = "none" THEN UNCHANGED edits
          ELSE edits < MaxEdits /\ edits' = edits + 1
  /\ UNCHANGED <<disk, upToDate, runVars, historyVars, faults>>

(* Runs the go get command of step 0. *)
GoGet ==
  /\ phase = "idle" /\ upToDate' = TRUE
  /\ UNCHANGED <<disk, answers, edits, runVars, historyVars, faults>>

(* The steps of a plan of the tree as it is that are left to a person. *)
ByHand(w) ==
  \E L \in {Left(disk, answers)} :
    w \in L /\ ~Machine(L, w) /\ Desc[w].kind # "finish"

WithWork(d, w) == [f \in Files |-> d[f] \cup EditsIn({w}, f)]

(* Migrates such a step by hand, between two runs. *)
Migrate ==
  /\ phase = "idle" /\ ModuleBuilds(disk)
  /\ \E w \in Work :
       /\ ByHand(w)
       /\ \E d \in {WithWork(disk, w)} : ModuleBuilds(d) /\ disk' = d
       /\ userDisk' = WithWork(userDisk, w)
  /\ UNCHANGED <<userVars, runVars, lost, damaged, lastBuilt, faults>>

(* Takes back a tree that does not build to the last one planned from. *)
Revert ==
  /\ phase = "idle" /\ ~ModuleBuilds(disk)
  /\ disk' = lastBuilt /\ userDisk' = lastBuilt
  /\ lost' = {} /\ damaged' = {} /\ spliced' = {}
  /\ UNCHANGED <<userVars, phase, args, plan, queue, files, orig, todo, exit, lastBuilt, faults>>

-----------------------------------------------------------------------------
Run == \/ BuildPlan \/ Select \/ Read \/ Splice
       \/ Write \/ TypeCheck \/ Restore

Fault == WriteFails \/ RestoreFails \/ Crash

Person == Start \/ Edit \/ Answer \/ GoGet \/ Migrate \/ Revert

Next == Run \/ Fault \/ Person

Spec == Init /\ [][Next]_vars

(***************************************************************************)
(* A process that runs goes on to its end.  A person who wants the module  *)
(* migrated comes back to each thing that is theirs to do: plain runs,     *)
(* the answer "migrate", step 0, the guided steps, and a tree that does    *)
(* not build.                                                              *)
(***************************************************************************)
PlainRun   == Start /\ args' = NoArgs
SayMigrate == Answer /\ \E c \in Comps : answers[c] = "none" /\ answers'[c] = "migrate"

Fairness ==
  /\ WF_vars(Run)
  /\ SF_vars(PlainRun) /\ SF_vars(SayMigrate)
  /\ SF_vars(GoGet) /\ SF_vars(Migrate) /\ SF_vars(Revert)

FairSpec == Spec /\ Fairness

-----------------------------------------------------------------------------
(* Type correctness: the shape of the disk, of the run's memory and of the  *)
(* histories.                                                              *)
TypeOK ==
  /\ disk \in Disks /\ userDisk \in Disks /\ lastBuilt \in Disks
  /\ answers \in Answers /\ upToDate \in BOOLEAN
  /\ phase \in Phases /\ exit \in {0, 1, 3, Killed} /\ args \in Args
  /\ plan \in [disk : Disks, answers : Answers, left : SUBSET Work]
  /\ queue \subseteq SUBSET Work /\ spliced \subseteq Work
  /\ DOMAIN files \subseteq Files
  /\ files \in [DOMAIN files -> Contents] /\ orig \in [DOMAIN files -> Contents]
  /\ todo \subseteq DOMAIN files /\ lost \subseteq Files /\ damaged \subseteq Files
  /\ edits \in Nat /\ faults \in [write : Nat, restore : Nat, crash : Nat]

(***************************************************************************)
(* "never leaves a broken tree": when no run is going on, the files are as *)
(* people left them, with all the edits of the steps the last run reports  *)
(* as applied - none, when it refused, failed or rolled back - whatever    *)
(* went wrong on the way, unless the restoring went wrong too.  Files in   *)
(* which someone saved an edit after the run had read them are another     *)
(* matter (NothingLost).                                                   *)
(***************************************************************************)
Sound == Files \ (lost \cup damaged)

AllOrNothing ==
  phase = "idle" /\ exit # Killed =>
    \A f \in Sound : disk[f] = userDisk[f] \cup EditsIn(spliced, f)

(***************************************************************************)
(* A killed run leaves each file old or new, never a mixture, except the   *)
(* one it was writing.                                                     *)
(***************************************************************************)
KilledLeavesWholeFiles ==
  phase = "idle" /\ exit = Killed =>
    \A f \in Sound : disk[f] \in {userDisk[f], userDisk[f] \cup EditsIn(spliced, f)}

(***************************************************************************)
(* A run changes files only for machine steps of a plan of a module that   *)
(* built, after step 0, never in a dry run, never for a component that was *)
(* not answered "migrate" when it planned; with -component, together with  *)
(* every earlier step of that component.                                   *)
(***************************************************************************)
Licensed(w) ==
  /\ Machine(plan.left, w)
  /\ Desc[w].comp \in Comps => plan.answers[Desc[w].comp] = "migrate"
  /\ args.comp # AllComps =>
       \A v \in InComp(plan.left, args.comp) :
         v < w /\ Desc[v].kind # "unmapped" => v \in spliced

LicensedWrites ==
  [][phase # "idle" /\ disk' # disk /\ userDisk' = userDisk
     => /\ ~args.dryRun /\ upToDate /\ ModuleBuilds(plan.disk)
        /\ \A w \in spliced : Licensed(w)]_vars

(***************************************************************************)
(* After a run that applied steps, the module builds, unless someone broke *)
(* it.  typeCheck sees the packages that hold a changed file and no other: *)
(* the exception is a package that a step of the run broke without         *)
(* touching it (BrokenUnseen).                                             *)
(***************************************************************************)
BrokenUnseen(p) == \E w \in spliced : p \in Desc[w].bad /\ p \notin StepPkgs(spliced)

SuccessKeepsBuilding ==
  phase = "idle" /\ exit = 0 /\ spliced # {} /\ Sound = Files
    /\ (\A f \in Files : Broken \notin disk[f])
  => \A p \in Pkgs : Builds(p, disk) \/ BrokenUnseen(p)

(***************************************************************************)
(* A step is refused as changed since the plan only when someone did       *)
(* change a file since.  FalseRefusal: the next step is about to be        *)
(* refused, and nobody did.                                                *)
(***************************************************************************)
FalseRefusal ==
  /\ phase = "reading" /\ userDisk = plan.disk
  /\ \E s \in queue : IsFirst(s, queue) /\ StepFiles(s) \subseteq DOMAIN files /\ Stale(s)

(* A run without -component is refused falsely only for what failed steps  *)
(* left behind in the simulation: otherwise the first machine step of a    *)
(* plan expects the files as they were planned from.                       *)
PlainRunNotRefused ==
  args.comp = AllComps /\ FalseRefusal => \E s \in queue : LeftBehind(plan.left, s)

(* Nor is one with -component, which "applies that component's machine     *)
(* steps in order, up to its first step that is not a machine step".       *)
ComponentRunNotRefused == ~FalseRefusal

(***************************************************************************)
(* Every piece of work of a component not skipped is done in the end, by   *)
(* the runs and the person together, also after failures and crashes.      *)
(***************************************************************************)
EventuallyMigrated == <>[](Left(disk, answers) = {})

-----------------------------------------------------------------------------
(***************************************************************************)
(* What apply promises, without its steps: see AtomicApply.  The tree      *)
(* changes when the run commits itself, after the type check.              *)
(***************************************************************************)
Visible == IF phase \in {"writing", "checking", "restoring"} THEN userDisk ELSE disk

Atomic == INSTANCE AtomicApply WITH tree <- Visible

AtomicSpec == Atomic!Spec
=============================================================================
