------------------------- MODULE MigrateApplyProofs -------------------------
(***************************************************************************)
(* Proofs about MigrateApply, for every module, plan and bound: type       *)
(* correctness, and that a run applies its steps whole or not at all.      *)
(***************************************************************************)
EXTENDS MigrateApply, TLAPS

(***************************************************************************)
(* The steps of a plan are sets of pieces of work.                         *)
(***************************************************************************)
LEMMA StepsType == \A L \in SUBSET Work : Steps(L) \subseteq SUBSET Work
  BY DEF Steps, InComp

LEMMA SelectedType == \A L \in SUBSET Work : Selected(L) \subseteq SUBSET Work
<1> TAKE L \in SUBSET Work
<1>1. Steps(L) \subseteq SUBSET Work
  BY StepsType
<1> QED
  BY <1>1 DEF Selected, ComponentSteps

(***************************************************************************)
(* Finishing a run, from any state, leaves the run's memory well typed.    *)
(***************************************************************************)
LEMMA FinishType ==
  ASSUME NEW code \in {0, 1, 3, Killed}, NEW applied \in SUBSET Work, Finish(code, applied)
  PROVE  /\ phase' \in Phases /\ exit' \in {0, 1, 3, Killed} /\ args' \in Args
         /\ plan' \in [disk : Disks, answers : Answers, left : SUBSET Work]
         /\ queue' \subseteq SUBSET Work /\ spliced' \subseteq Work
         /\ DOMAIN files' = {} /\ files' \in [DOMAIN files' -> Contents]
         /\ orig' \in [DOMAIN files' -> Contents] /\ todo' \subseteq DOMAIN files'
  BY DEF Finish, Phases, Args, NoArgs, NoPlan, NoFiles, Disks, Contents, Answers, Choices

LEMMA StepFilesType == \A s \in SUBSET Work : StepFiles(s) \subseteq Files
  BY MigratePlanAssumption DEF StepFiles, WorkType

LEMMA EditsInType ==
  ASSUME NEW S \in SUBSET Work, NEW f
  PROVE  EditsIn(S, f) \subseteq Work
  BY DEF EditsIn

LEMMA TearType ==
  ASSUME TypeOK, NEW f \in todo, Tear(f)
  PROVE  disk' \in Disks /\ lost' \subseteq Files /\ damaged' \subseteq Files
<1>1. f \in Files /\ {Torn} \in Contents
  BY DEF TypeOK, Contents, Marks
<1> QED
  BY <1>1 DEF TypeOK, Tear, Disks

LEMMA InitTypeOK == Init => TypeOK
  BY DEF Init, TypeOK, NoPlan, NoArgs, NoFiles, Disks, Contents, Answers, Choices, Args, Phases

LEMMA NextTypeOK == TypeOK /\ [Next]_vars => TypeOK'
<1> SUFFICES ASSUME TypeOK, [Next]_vars PROVE TypeOK'
  OBVIOUS
<1> USE DEF TypeOK
<1>1. CASE Start
  BY <1>1 DEF Start, Phases, userVars
<1>2. CASE BuildPlan
  <2>1. CASE CanPlan
    <3>1. Left(disk, answers) \in SUBSET Work
      BY DEF Left
    <3> QED
      BY <1>2, <2>1, <3>1 DEF BuildPlan, Phases, userVars
  <2>2. CASE ~CanPlan
    <3>1. Finish(1, {})
      BY <1>2, <2>2 DEF BuildPlan
    <3> QED
      BY <1>2, <2>2, <3>1, FinishType DEF BuildPlan, userVars
  <2> QED
    BY <2>1, <2>2
<1>3. CASE Select
  <2>1. Selected(plan.left) \subseteq SUBSET Work
    BY SelectedType
  <2>2. ASSUME NEW code \in {0, 1, 3}, Finish(code, {})
        PROVE  TypeOK'
    BY <1>3, <2>2, FinishType DEF Select, userVars, historyVars
  <2>3. CASE queue' = Selected(plan.left)
    BY <1>3, <2>1, <2>3, <2>2 DEF Select, userVars, historyVars, Phases
  <2> QED
    BY <1>3, <2>2, <2>3 DEF Select
<1>4. CASE Read
  <2> PICK s \in queue : \E f \in Lowest(StepFiles(s) \ DOMAIN files) :
        LET all == DOMAIN files \cup {f} IN
        /\ files' = [g \in all |-> IF g = f THEN disk[f] ELSE files[g]]
        /\ orig'  = [g \in all |-> IF g = f THEN disk[f] ELSE orig[g]]
    BY <1>4 DEF Read
  <2> PICK f \in Lowest(StepFiles(s) \ DOMAIN files) :
        LET all == DOMAIN files \cup {f} IN
        /\ files' = [g \in all |-> IF g = f THEN disk[f] ELSE files[g]]
        /\ orig'  = [g \in all |-> IF g = f THEN disk[f] ELSE orig[g]]
    OBVIOUS
  <2>1. f \in Files
    BY StepFilesType DEF Lowest
  <2>2. disk[f] \in Contents
    BY <2>1 DEF Disks
  <2> QED
    BY <1>4, <2>1, <2>2 DEF Read, userVars, historyVars
<1>5. CASE Splice
  <2> PICK s \in queue :
        \/ Finish(1, {})
        \/ Finish(0, {})
        \/ /\ files' = Spliced(s) /\ spliced' = spliced \cup s /\ queue' = queue \ {s}
           /\ \/ UNCHANGED <<phase, todo>>
              \/ /\ phase' = "writing"
                 /\ todo' = {f \in DOMAIN files : Spliced(s)[f] # orig[f]}
           /\ UNCHANGED <<args, plan, orig, exit>>
    BY <1>5 DEF Splice
  <2>1. \A f : EditsIn(s, f) \subseteq Work
    BY EditsInType
  <2>2. Spliced(s) \in [DOMAIN files -> Contents]
    BY <2>1 DEF Spliced, Contents
  <2>3. CASE Finish(1, {}) \/ Finish(0, {})
    BY <1>5, <2>3, FinishType DEF Splice, userVars, historyVars
  <2> QED
    BY <1>5, <2>2, <2>3 DEF Splice, userVars, historyVars, Phases
<1>6. CASE Write
  <2> PICK f \in Lowest(todo) :
        /\ disk' = [disk EXCEPT ![f] = files[f]]
        /\ lost' = IF disk[f] = orig[f] THEN lost ELSE lost \cup {f}
        /\ todo' = todo \ {f}
    BY <1>6 DEF Write
  <2>1. f \in Files /\ files[f] \in Contents
    BY DEF Lowest
  <2> QED
    BY <1>6, <2>1 DEF Write, Disks, userVars, Phases
<1>7. CASE TypeCheck
  <2>1. CASE Finish(0, spliced)
    BY <1>7, <2>1, FinishType DEF TypeCheck, userVars, historyVars
  <2> QED
    BY <1>7, <2>1 DEF TypeCheck, Phases, Changed, userVars, historyVars
<1>8. CASE Restore
  <2> PICK f \in todo :
        /\ RestoreOne(f)
        /\ disk' = [disk EXCEPT ![f] = orig[f]]
        /\ lost' = IF Untouched(f) THEN lost ELSE lost \cup {f}
        /\ damaged' = damaged \ {f}
        /\ UNCHANGED faults
    BY <1>8 DEF Restore
  <2>1. f \in Files /\ orig[f] \in Contents
    OBVIOUS
  <2>2. CASE Finish(1, {})
    BY <2>1, <2>2, FinishType DEF RestoreOne, Disks, userVars
  <2> QED
    BY <2>1, <2>2 DEF RestoreOne, Disks, userVars
<1>9. CASE WriteFails
  <2>1. Changed \subseteq DOMAIN files
    BY DEF Changed
  <2>2. disk' \in Disks /\ lost' \subseteq Files /\ damaged' \subseteq Files
    <3>1. CASE UNCHANGED <<disk, lost, damaged>>
      BY <3>1
    <3>2. ASSUME NEW f \in Lowest(todo), Tear(f)
          PROVE  disk' \in Disks /\ lost' \subseteq Files /\ damaged' \subseteq Files
      <4>1. f \in todo
        BY DEF Lowest
      <4> QED
        BY <3>2, <4>1, TearType
    <3> QED
      BY <1>9, <3>1, <3>2 DEF WriteFails
  <2> QED
    BY <1>9, <2>1, <2>2 DEF WriteFails, userVars, Phases
<1>10. CASE RestoreFails
  <2> PICK f \in todo :
        /\ RestoreOne(f)
        /\ Tear(f) \/ (damaged' = damaged \cup {f} /\ UNCHANGED <<disk, lost>>)
    BY <1>10 DEF RestoreFails
  <2>1. disk' \in Disks /\ lost' \subseteq Files /\ damaged' \subseteq Files
    BY TearType
  <2>2. faults' \in [write : Nat, restore : Nat, crash : Nat]
    BY <1>10 DEF RestoreFails
  <2>3. CASE Finish(1, {})
    BY <2>1, <2>2, <2>3, FinishType DEF RestoreOne, userVars
  <2> QED
    BY <2>1, <2>2, <2>3 DEF RestoreOne, userVars
<1>11. CASE Crash
  <2>1. \A f \in Lowest(todo) : f \in todo
    BY DEF Lowest
  <2>2. disk' \in Disks /\ lost' \subseteq Files /\ damaged' \subseteq Files
    BY <1>11, <2>1, TearType DEF Crash
  <2> QED
    BY <1>11, <2>2, FinishType DEF Crash, userVars
<1>12. CASE Edit
  BY <1>12 DEF Edit, Disks, Contents, Marks, runVars
<1>13. CASE Answer
  BY <1>13 DEF Answer, Answers, Choices, runVars, historyVars
<1>14. CASE GoGet
  BY <1>14 DEF GoGet, runVars, historyVars
<1>15. CASE Migrate
  <2> PICK w \in Work : disk' = WithWork(disk, w) /\ userDisk' = WithWork(userDisk, w)
    BY <1>15 DEF Migrate
  <2>1. \A d \in Disks : WithWork(d, w) \in Disks
    BY DEF WithWork, EditsIn, Disks, Contents
  <2> QED
    BY <1>15, <2>1 DEF Migrate, userVars, runVars
<1>16. CASE Revert
  BY <1>16 DEF Revert, userVars
<1>17. CASE UNCHANGED vars
  BY <1>17 DEF vars, userVars, runVars, historyVars
<1> QED
  BY <1>1, <1>2, <1>3, <1>4, <1>5, <1>6, <1>7, <1>8, <1>9, <1>10, <1>11,
     <1>12, <1>13, <1>14, <1>15, <1>16, <1>17 DEF Next, Run, Fault, Person

(***************************************************************************)
(* Type correctness, on every module and for every bound.                  *)
(***************************************************************************)
THEOREM TypeCorrect == Spec => []TypeOK
  BY InitTypeOK, NextTypeOK, PTL DEF Spec

-----------------------------------------------------------------------------
(***************************************************************************)
(* All or nothing.  What a run keeps true of each file, phase by phase:    *)
(* its memory holds what it read and the edits it spliced; the disk holds  *)
(* what people made of it, with those edits where they are written.        *)
(***************************************************************************)
HasRead == phase \in {"reading", "writing", "checking", "restoring"}

(* Before it reads, a run has no files in memory; it splices what it read. *)
MemoryInv ==
  /\ ~HasRead => files = NoFiles
  /\ phase \in {"planning", "selecting"} => spliced = {}
  /\ HasRead =>
       \A f \in Files :
         IF f \in DOMAIN files
         THEN /\ files[f] = orig[f] \cup EditsIn(spliced, f)
              /\ orig[f] \subseteq userDisk[f]
              /\ userDisk[f] \subseteq orig[f] \cup {Edited, Broken}
         ELSE EditsIn(spliced, f) = {}

(* Before it writes, a run leaves the disk to the people. *)
BeforeInv ==
  phase \in {"planning", "selecting", "reading"} =>
    disk = userDisk /\ lost = {} /\ damaged = {}

(* While it writes, the files written have the edits and the others not. *)
WriteInv ==
  phase \in {"writing", "checking"} =>
    /\ damaged = {} /\ todo \subseteq Changed
    /\ phase = "checking" => todo = {}
    /\ \A f \in Files \ lost :
         disk[f] = IF f \in todo THEN userDisk[f] ELSE userDisk[f] \cup EditsIn(spliced, f)

(* While it restores, the files restored are the people's again. *)
RestoreInv ==
  phase = "restoring" =>
    /\ todo \subseteq Changed
    /\ \A f \in Sound :
         IF f \in todo
         THEN disk[f] \in {userDisk[f], userDisk[f] \cup EditsIn(spliced, f)}
         ELSE disk[f] = userDisk[f]
    /\ \A f \in (damaged \cap todo) \ lost : disk[f] = {Torn} => userDisk[f] = orig[f]

IInv ==
  /\ TypeOK /\ MemoryInv /\ BeforeInv /\ WriteInv /\ RestoreInv
  /\ AllOrNothing /\ KilledLeavesWholeFiles

LEMMA EditsInUnion ==
  /\ \A S, T, f : EditsIn(S \cup T, f) = EditsIn(S, f) \cup EditsIn(T, f)
  /\ \A f : EditsIn({}, f) = {}
  BY DEF EditsIn

LEMMA InitIInv == Init => IInv
  BY InitTypeOK, EditsInUnion
  DEF Init, IInv, MemoryInv, BeforeInv, WriteInv, RestoreInv, HasRead,
      AllOrNothing, KilledLeavesWholeFiles, Sound, Killed

(***************************************************************************)
(* A run that ends keeps the invariant when the disk holds the edits it    *)
(* reports.                                                                *)
(***************************************************************************)
Reported(code, applied) ==
  \A f \in Files \ (lost' \cup damaged') :
    IF code = Killed
    THEN disk'[f] \in {userDisk'[f], userDisk'[f] \cup EditsIn(applied, f)}
    ELSE disk'[f] = userDisk'[f] \cup EditsIn(applied, f)

LEMMA FinishIInv ==
  ASSUME TypeOK', NEW code, NEW applied, Finish(code, applied), Reported(code, applied)
  PROVE  IInv'
<1>1. phase' = "idle" /\ files' = NoFiles /\ spliced' = applied /\ exit' = code
  BY DEF Finish
<1>2. MemoryInv' /\ BeforeInv' /\ WriteInv' /\ RestoreInv'
  BY <1>1 DEF MemoryInv, BeforeInv, WriteInv, RestoreInv, HasRead
<1>3. AllOrNothing' /\ KilledLeavesWholeFiles'
  BY <1>1 DEF AllOrNothing, KilledLeavesWholeFiles, Sound, Reported
<1> QED
  BY <1>2, <1>3 DEF IInv

(***************************************************************************)
(* What people do to a file, they do to it with or without the run: how    *)
(* the two contents differ stays as it was.                                *)
(***************************************************************************)
LEMMA SameChange ==
  ASSUME NEW f \in Files, NEW M,
         disk'[f] = disk[f] \cup M, userDisk'[f] = userDisk[f] \cup M
  PROVE  /\ disk[f] = userDisk[f] => disk'[f] = userDisk'[f]
         /\ \A E : disk[f] = userDisk[f] \cup E => disk'[f] = userDisk'[f] \cup E
<1>1. \A A, B, E : A = B \cup E => A \cup M = (B \cup M) \cup E
  OBVIOUS
<1> QED
  BY <1>1

LEMMA EditIInv == IInv /\ TypeOK' /\ Edit => IInv'
<1>1. SUFFICES ASSUME IInv, TypeOK', Edit PROVE IInv'
  OBVIOUS
<1>2. PICK g \in Files, m \in {Edited, Broken} :
        /\ disk' = [disk EXCEPT ![g] = @ \cup {m}]
        /\ userDisk' = [userDisk EXCEPT ![g] = @ \cup {m}]
  BY <1>1 DEF Edit
<1>3. UNCHANGED <<phase, spliced, files, orig, todo, exit, lost, damaged>>
  BY <1>1 DEF Edit, runVars
<1>4. \A f \in Files :
        /\ disk'[f] = IF f = g THEN disk[f] \cup {m} ELSE disk[f]
        /\ userDisk'[f] = IF f = g THEN userDisk[f] \cup {m} ELSE userDisk[f]
  BY <1>1, <1>2 DEF IInv, TypeOK, Disks
<1>5. \A f \in Files : /\ disk[f] = userDisk[f] => disk'[f] = userDisk'[f]
                       /\ \A E : disk[f] = userDisk[f] \cup E => disk'[f] = userDisk'[f] \cup E
  <2> TAKE f \in Files
  <2>1. CASE f = g
    BY <1>4, <2>1, SameChange
  <2>2. CASE f # g
    BY <1>4, <2>2
  <2> QED
    BY <2>1, <2>2
<1>6. MemoryInv'
  BY <1>1, <1>3, <1>4 DEF IInv, MemoryInv, HasRead
<1>7. BeforeInv'
  BY <1>1, <1>2, <1>3 DEF IInv, BeforeInv
<1>8. Changed' = Changed
  BY <1>3 DEF Changed
<1>9. WriteInv'
  <2>1. SUFFICES ASSUME phase \in {"writing", "checking"}, NEW f \in Files \ lost
                 PROVE  disk'[f] = IF f \in todo THEN userDisk'[f]
                                   ELSE userDisk'[f] \cup EditsIn(spliced, f)
    BY <1>1, <1>3, <1>8 DEF IInv, WriteInv
  <2>2. disk[f] = IF f \in todo THEN userDisk[f] ELSE userDisk[f] \cup EditsIn(spliced, f)
    BY <1>1, <2>1 DEF IInv, WriteInv
  <2>3. CASE f \in todo
    BY <1>5, <2>2, <2>3
  <2>4. CASE f \notin todo
    BY <1>5, <2>2, <2>4
  <2> QED
    BY <2>3, <2>4
<1>10. RestoreInv'
  <2>1. \A f \in Files : disk'[f] = {Torn} => disk[f] = {Torn} /\ f # g
    <3>1. m # Torn
      BY MigratePlanAssumption
    <3>2. m \in disk'[g]
      BY <1>4
    <3> QED
      BY <1>4, <3>1, <3>2
  <2>2. SUFFICES ASSUME phase = "restoring"
                 PROVE  /\ \A f \in Sound :
                             IF f \in todo
                             THEN disk'[f] \in {userDisk'[f], userDisk'[f] \cup EditsIn(spliced, f)}
                             ELSE disk'[f] = userDisk'[f]
                        /\ \A f \in (damaged \cap todo) \ lost :
                             disk'[f] = {Torn} => userDisk'[f] = orig[f]
    BY <1>1, <1>3, <1>8 DEF IInv, RestoreInv, Sound
  <2>3. ASSUME NEW f \in Sound
        PROVE  IF f \in todo
               THEN disk'[f] \in {userDisk'[f], userDisk'[f] \cup EditsIn(spliced, f)}
               ELSE disk'[f] = userDisk'[f]
    <3>1. IF f \in todo
          THEN disk[f] \in {userDisk[f], userDisk[f] \cup EditsIn(spliced, f)}
          ELSE disk[f] = userDisk[f]
      BY <1>1, <2>2 DEF IInv, RestoreInv
    <3> QED
      BY <1>5, <3>1 DEF Sound
  <2>4. ASSUME NEW f \in (damaged \cap todo) \ lost, disk'[f] = {Torn}
        PROVE  userDisk'[f] = orig[f]
    <3>1. f \in Files
      BY <1>1 DEF IInv, TypeOK
    <3>2. disk[f] = {Torn} /\ userDisk'[f] = userDisk[f]
      BY <1>4, <2>1, <2>4, <3>1
    <3> QED
      BY <1>1, <2>2, <3>2 DEF IInv, RestoreInv
  <2> QED
    BY <2>3, <2>4
<1>11. AllOrNothing' /\ KilledLeavesWholeFiles'
  BY <1>1, <1>3, <1>5 DEF IInv, AllOrNothing, KilledLeavesWholeFiles, Sound
<1> QED
  BY <1>1, <1>6, <1>7, <1>9, <1>10, <1>11 DEF IInv

LEMMA MigrateIInv == IInv /\ TypeOK' /\ Migrate => IInv'
<1> SUFFICES ASSUME IInv, TypeOK', Migrate PROVE IInv'
  OBVIOUS
<1> USE DEF IInv, TypeOK
<1> PICK w \in Work : disk' = WithWork(disk, w) /\ userDisk' = WithWork(userDisk, w)
  BY DEF Migrate
<1>1. phase = "idle" /\ UNCHANGED <<phase, spliced, files, exit, lost, damaged>>
  BY DEF Migrate, runVars
<1>2. \A f \in Files : /\ disk'[f] = disk[f] \cup EditsIn({w}, f)
                       /\ userDisk'[f] = userDisk[f] \cup EditsIn({w}, f)
  BY DEF WithWork
<1>3. MemoryInv' /\ BeforeInv' /\ WriteInv' /\ RestoreInv'
  BY <1>1 DEF MemoryInv, BeforeInv, WriteInv, RestoreInv, HasRead
<1>4. AllOrNothing'
  BY <1>1, <1>2, SameChange DEF AllOrNothing, Sound
<1>5. KilledLeavesWholeFiles'
  <2>1. \A f \in Files : disk[f] \in {userDisk[f], userDisk[f] \cup EditsIn(spliced, f)} =>
          disk'[f] \in {userDisk'[f], userDisk'[f] \cup EditsIn(spliced, f)}
    BY <1>2, SameChange
  <2>2. exit' = exit /\ spliced' = spliced /\ phase' = phase /\ Sound' = Sound
    BY <1>1 DEF Migrate, runVars, Sound
  <2>3. Sound \subseteq Files
    BY DEF Sound
  <2> QED
    BY <2>1, <2>2, <2>3 DEF KilledLeavesWholeFiles
<1> QED
  BY <1>3, <1>4, <1>5

(***************************************************************************)
(* The run up to its first write.                                          *)
(***************************************************************************)
LEMMA StartIInv == IInv /\ TypeOK' /\ Start => IInv'
<1>1. SUFFICES ASSUME IInv, TypeOK', Start PROVE IInv'
  OBVIOUS
<1>2. /\ phase = "idle" /\ phase' = "planning" /\ files' = files /\ spliced' = {}
      /\ disk' = disk /\ userDisk' = disk /\ lost' = {} /\ damaged' = {}
  BY <1>1 DEF Start
<1>3. MemoryInv'
  BY <1>1, <1>2 DEF IInv, MemoryInv, HasRead
<1> QED
  BY <1>1, <1>2, <1>3
  DEF IInv, BeforeInv, WriteInv, RestoreInv, AllOrNothing, KilledLeavesWholeFiles

(* A run that ends before it writes has applied nothing. *)
LEMMA RefuseIInv ==
  ASSUME IInv, TypeOK', NEW code \in {0, 1, 3}, Finish(code, {}),
         phase \in {"planning", "selecting", "reading"},
         UNCHANGED <<disk, userDisk, lost, damaged>>
  PROVE  IInv'
<1>1. disk = userDisk
  BY DEF IInv, BeforeInv
<1>2. Reported(code, {})
  BY <1>1, EditsInUnion DEF Reported, Killed
<1> QED
  BY <1>2, FinishIInv

LEMMA PlanIInv == IInv /\ TypeOK' /\ (BuildPlan \/ Select) => IInv'
<1>1. SUFFICES ASSUME IInv, TypeOK', BuildPlan \/ Select PROVE IInv'
  OBVIOUS
<1>2. /\ phase \in {"planning", "selecting"} /\ UNCHANGED <<disk, userDisk, lost, damaged>>
      /\ \/ \E code \in {0, 1, 3} : Finish(code, {})
         \/ phase' \in {"selecting", "reading"} /\ UNCHANGED <<files, spliced>>
  BY <1>1 DEF BuildPlan, Select, historyVars
<1>3. ASSUME NEW code \in {0, 1, 3}, Finish(code, {}) PROVE IInv'
  BY <1>1, <1>2, <1>3, RefuseIInv
<1>4. CASE phase' \in {"selecting", "reading"} /\ UNCHANGED <<files, spliced>>
  <2>1. files = NoFiles /\ spliced = {}
    BY <1>1, <1>2 DEF IInv, MemoryInv, HasRead
  <2>2. DOMAIN files = {} /\ \A f : EditsIn({}, f) = {}
    BY <2>1, EditsInUnion DEF NoFiles
  <2>3. MemoryInv'
    BY <1>4, <2>1, <2>2 DEF MemoryInv, HasRead
  <2> QED
    BY <1>1, <1>2, <1>4, <2>3
    DEF IInv, BeforeInv, WriteInv, RestoreInv, AllOrNothing, KilledLeavesWholeFiles
<1> QED
  BY <1>2, <1>3, <1>4

LEMMA ReadIInv == IInv /\ TypeOK' /\ Read => IInv'
<1>1. SUFFICES ASSUME IInv, TypeOK', Read PROVE IInv'
  OBVIOUS
<1>2. PICK s \in queue, f \in Files :
        /\ f \in Lowest(StepFiles(s) \ DOMAIN files)
        /\ files' = [g \in DOMAIN files \cup {f} |-> IF g = f THEN disk[f] ELSE files[g]]
        /\ orig'  = [g \in DOMAIN files \cup {f} |-> IF g = f THEN disk[f] ELSE orig[g]]
  <2>1. \A s \in queue : StepFiles(s) \subseteq Files
    BY <1>1, StepFilesType DEF IInv, TypeOK
  <2> QED
    BY <1>1, <2>1 DEF Read, Lowest
<1>3. /\ DOMAIN files' = DOMAIN files \cup {f}
      /\ \A g \in DOMAIN files' : /\ files'[g] = IF g = f THEN disk[f] ELSE files[g]
                                  /\ orig'[g] = IF g = f THEN disk[f] ELSE orig[g]
  BY <1>2
<1>4. f \notin DOMAIN files /\ f \in Files
  BY <1>2 DEF Lowest
<1>5. /\ phase = "reading"
      /\ UNCHANGED <<phase, spliced, disk, userDisk, lost, damaged, exit, todo>>
  BY <1>1 DEF Read, historyVars
<1>6. disk = userDisk
  BY <1>1, <1>5 DEF IInv, BeforeInv
<1>7. ASSUME NEW g \in Files
      PROVE  IF g \in DOMAIN files'
             THEN /\ files'[g] = orig'[g] \cup EditsIn(spliced, g)
                  /\ orig'[g] \subseteq userDisk[g]
                  /\ userDisk[g] \subseteq orig'[g] \cup {Edited, Broken}
             ELSE EditsIn(spliced, g) = {}
  <2>1. IF g \in DOMAIN files
        THEN /\ files[g] = orig[g] \cup EditsIn(spliced, g)
             /\ orig[g] \subseteq userDisk[g]
             /\ userDisk[g] \subseteq orig[g] \cup {Edited, Broken}
        ELSE EditsIn(spliced, g) = {}
    BY <1>1, <1>5 DEF IInv, MemoryInv, HasRead
  <2>2. CASE g = f
    BY <1>3, <1>4, <1>6, <2>1, <2>2
  <2>3. CASE g # f
    BY <1>3, <2>1, <2>3
  <2> QED
    BY <2>2, <2>3
<1>8. MemoryInv'
  BY <1>5, <1>7 DEF MemoryInv, HasRead
<1> QED
  BY <1>1, <1>5, <1>8
  DEF IInv, BeforeInv, WriteInv, RestoreInv, AllOrNothing, KilledLeavesWholeFiles

LEMMA SpliceIInv == IInv /\ TypeOK' /\ Splice => IInv'
<1>1. SUFFICES ASSUME IInv, TypeOK', Splice PROVE IInv'
  OBVIOUS
<1>2. PICK s \in queue :
        /\ StepFiles(s) \subseteq DOMAIN files
        /\ \/ Finish(1, {}) \/ Finish(0, {})
           \/ /\ files' = Spliced(s) /\ spliced' = spliced \cup s /\ UNCHANGED <<orig, exit>>
              /\ \/ UNCHANGED <<phase, todo>>
                 \/ /\ phase' = "writing"
                    /\ todo' = {f \in DOMAIN files : Spliced(s)[f] # orig[f]}
  BY <1>1 DEF Splice
<1>3. phase = "reading" /\ UNCHANGED <<disk, userDisk, lost, damaged>>
  BY <1>1 DEF Splice, historyVars
<1>4. CASE Finish(1, {}) \/ Finish(0, {})
  BY <1>1, <1>3, <1>4, RefuseIInv
<1>5. CASE /\ files' = Spliced(s) /\ spliced' = spliced \cup s /\ UNCHANGED <<orig, exit>>
           /\ \/ UNCHANGED <<phase, todo>>
              \/ /\ phase' = "writing"
                 /\ todo' = {f \in DOMAIN files : Spliced(s)[f] # orig[f]}
  <2>1. /\ DOMAIN files' = DOMAIN files
        /\ \A f \in DOMAIN files : files'[f] = files[f] \cup EditsIn(s, f)
    BY <1>5 DEF Spliced
  <2>2. \A f \in Files : EditsIn(spliced', f) = EditsIn(spliced, f) \cup EditsIn(s, f)
    BY <1>5, EditsInUnion
  <2>3. \A f \in Files : f \notin DOMAIN files => EditsIn(s, f) = {}
    BY <1>2 DEF EditsIn, StepFiles
  <2>4. \A f \in Files :
          IF f \in DOMAIN files
          THEN /\ files[f] = orig[f] \cup EditsIn(spliced, f)
               /\ orig[f] \subseteq userDisk[f]
               /\ userDisk[f] \subseteq orig[f] \cup {Edited, Broken}
          ELSE EditsIn(spliced, f) = {}
    BY <1>1, <1>3 DEF IInv, MemoryInv, HasRead
  <2>5. ASSUME NEW f \in Files
        PROVE  IF f \in DOMAIN files
               THEN files'[f] = orig[f] \cup EditsIn(spliced', f)
               ELSE EditsIn(spliced', f) = {}
    BY <2>1, <2>2, <2>3, <2>4
  <2>6. phase' \in {"reading", "writing"}
    BY <1>3, <1>5
  <2>7. MemoryInv'
    BY <1>3, <1>5, <2>1, <2>4, <2>5, <2>6 DEF MemoryInv, HasRead
  <2>8. disk = userDisk /\ lost = {} /\ damaged = {}
    BY <1>1, <1>3 DEF IInv, BeforeInv
  <2>9. CASE phase' = "writing"
    <3>1. todo' = Changed'
      BY <1>3, <1>5, <2>1, <2>9 DEF Changed
    <3>2. ASSUME NEW f \in Files, f \notin todo'
          PROVE  EditsIn(spliced', f) \subseteq userDisk[f]
      BY <2>1, <2>4, <2>5, <3>1, <3>2, <1>5 DEF Changed
    <3>3. WriteInv'
      BY <1>3, <2>8, <2>9, <3>1, <3>2 DEF WriteInv
    <3> QED
      BY <1>1, <2>7, <2>9, <3>3
      DEF IInv, BeforeInv, RestoreInv, AllOrNothing, KilledLeavesWholeFiles
  <2>10. CASE phase' = "reading"
    BY <1>1, <1>3, <2>7, <2>8, <2>10
    DEF IInv, BeforeInv, WriteInv, RestoreInv, AllOrNothing, KilledLeavesWholeFiles
  <2> QED
    BY <2>6, <2>9, <2>10
<1> QED
  BY <1>2, <1>4, <1>5

(***************************************************************************)
(* The writes.                                                             *)
(***************************************************************************)
LEMMA WriteIInv == IInv /\ TypeOK' /\ Write => IInv'
<1>1. SUFFICES ASSUME IInv, TypeOK', Write PROVE IInv'
  OBVIOUS
<1>2. PICK f \in Lowest(todo) :
        /\ disk' = [disk EXCEPT ![f] = files[f]]
        /\ lost' = IF disk[f] = orig[f] THEN lost ELSE lost \cup {f}
        /\ todo' = todo \ {f}
  BY <1>1 DEF Write
<1>3. /\ phase = "writing" /\ phase' = (IF todo' = {} THEN "checking" ELSE "writing")
      /\ UNCHANGED <<spliced, files, orig, exit, userDisk, damaged>>
  BY <1>1 DEF Write
<1>4. f \in todo /\ f \in DOMAIN files /\ f \in Files
  BY <1>1, <1>2 DEF IInv, TypeOK, Lowest
<1>5. \A g \in Files : disk'[g] = IF g = f THEN files[f] ELSE disk[g]
  BY <1>1, <1>2 DEF IInv, TypeOK, Disks
<1>6. \A g \in Files \ lost :
        disk[g] = IF g \in todo THEN userDisk[g] ELSE userDisk[g] \cup EditsIn(spliced, g)
  BY <1>1, <1>3 DEF IInv, WriteInv
<1>7. files[f] = orig[f] \cup EditsIn(spliced, f)
  BY <1>1, <1>3, <1>4 DEF IInv, MemoryInv, HasRead
<1>8. ASSUME NEW g \in Files \ lost'
      PROVE  disk'[g] = IF g \in todo' THEN userDisk[g] ELSE userDisk[g] \cup EditsIn(spliced, g)
  <2>1. CASE g = f
    <3>1. disk[f] = orig[f] /\ f \notin lost
      BY <1>2, <1>8, <2>1
    <3>2. userDisk[f] = orig[f]
      BY <1>4, <1>6, <3>1
    <3> QED
      BY <1>2, <1>4, <1>5, <1>7, <2>1, <3>2
  <2>2. CASE g # f
    BY <1>2, <1>5, <1>6, <2>2
  <2> QED
    BY <2>1, <2>2
<1>9. Changed' = Changed /\ todo' \subseteq Changed /\ damaged = {}
  BY <1>1, <1>2, <1>3 DEF IInv, WriteInv, Changed
<1>10. WriteInv'
  BY <1>3, <1>8, <1>9 DEF WriteInv
<1>11. MemoryInv'
  BY <1>1, <1>3 DEF IInv, MemoryInv, HasRead
<1> QED
  BY <1>1, <1>3, <1>10, <1>11
  DEF IInv, BeforeInv, RestoreInv, AllOrNothing, KilledLeavesWholeFiles

(***************************************************************************)
(* A file nobody has edited since the run read it was read as people left  *)
(* it: marks are never edits of work.                                      *)
(***************************************************************************)
LEMMA UntouchedIsUsers ==
  ASSUME IInv, HasRead, NEW f \in DOMAIN files, f \notin damaged, Untouched(f),
         disk[f] \in {userDisk[f], userDisk[f] \cup EditsIn(spliced, f)}
  PROVE  userDisk[f] = orig[f]
<1>1. f \in Files
  BY DEF IInv, TypeOK
<1>2. /\ files[f] = orig[f] \cup EditsIn(spliced, f)
      /\ orig[f] \subseteq userDisk[f]
      /\ userDisk[f] \subseteq orig[f] \cup {Edited, Broken}
  BY <1>1 DEF IInv, MemoryInv
<1>3. disk[f] \in {orig[f], orig[f] \cup EditsIn(spliced, f)}
  BY <1>2 DEF Untouched
<1>4. Edited \notin EditsIn(spliced, f) /\ Broken \notin EditsIn(spliced, f)
  <2>1. EditsIn(spliced, f) \subseteq Work
    BY EditsInType DEF IInv, TypeOK
  <2> QED
    BY <2>1, MigratePlanAssumption DEF Marks
<1>5. userDisk[f] \subseteq disk[f] /\ disk[f] \subseteq orig[f] \cup EditsIn(spliced, f)
  BY <1>3
<1>6. userDisk[f] \subseteq orig[f]
  BY <1>2, <1>4, <1>5
<1> QED
  BY <1>2, <1>6

(***************************************************************************)
(* Where it restores, a run has no torn file it does not know of.          *)
(***************************************************************************)
LEMMA WriteFailsIInv == IInv /\ TypeOK' /\ WriteFails => IInv'
<1>1. SUFFICES ASSUME IInv, TypeOK', WriteFails PROVE IInv'
  OBVIOUS
<1>2. PICK f \in Lowest(todo) : Tear(f) \/ UNCHANGED <<disk, lost, damaged>>
  BY <1>1 DEF WriteFails
<1>3. /\ phase = "writing" /\ phase' = "restoring" /\ todo' = Changed
      /\ UNCHANGED <<spliced, files, orig, exit, userDisk>>
  BY <1>1 DEF WriteFails
<1>4. f \in todo /\ todo \subseteq Changed /\ Changed \subseteq Files /\ damaged = {}
  BY <1>1, <1>2, <1>3 DEF IInv, TypeOK, WriteInv, Lowest, Changed
<1>5. /\ lost \subseteq lost' /\ damaged' \subseteq {f}
      /\ \A g \in Files : g # f => disk'[g] = disk[g]
      /\ f \in damaged' \/ disk'[f] = disk[f]
      /\ f \in damaged' /\ f \notin lost' => Untouched(f)
  <2>1. CASE UNCHANGED <<disk, lost, damaged>>
    BY <1>4, <2>1
  <2>2. CASE Tear(f)
    BY <1>1, <1>4, <2>2 DEF IInv, TypeOK, Disks, Tear
  <2> QED
    BY <1>2, <2>1, <2>2
<1>6. \A g \in Files \ lost :
        disk[g] = IF g \in todo THEN userDisk[g] ELSE userDisk[g] \cup EditsIn(spliced, g)
  BY <1>1, <1>3 DEF IInv, WriteInv
<1>7. \A g \in Files : g \notin Changed => EditsIn(spliced, g) \subseteq userDisk[g]
  BY <1>1, <1>3 DEF IInv, MemoryInv, HasRead, Changed
<1>8. ASSUME NEW g \in Files \ (lost' \cup damaged')
      PROVE  IF g \in Changed
             THEN disk'[g] \in {userDisk[g], userDisk[g] \cup EditsIn(spliced, g)}
             ELSE disk'[g] = userDisk[g]
  <2>1. disk'[g] = disk[g] /\ g \notin lost
    BY <1>5, <1>8
  <2>2. CASE g \in Changed
    BY <1>6, <2>1, <2>2
  <2>3. CASE g \notin Changed
    BY <1>4, <1>6, <1>7, <2>1, <2>3
  <2> QED
    BY <2>2, <2>3
<1>9. \A g \in damaged' \ lost' : userDisk[g] = orig[g]
  <2>1. SUFFICES ASSUME f \notin lost, Untouched(f) PROVE userDisk[f] = orig[f]
    BY <1>5
  <2>2. HasRead /\ f \in DOMAIN files /\ f \notin damaged /\ disk[f] = userDisk[f]
    BY <1>3, <1>4, <1>6, <2>1 DEF HasRead, Changed
  <2> QED
    BY <1>1, <2>1, <2>2, UntouchedIsUsers
<1>10. RestoreInv'
  BY <1>3, <1>8, <1>9 DEF RestoreInv, Sound, Changed
<1>11. MemoryInv'
  BY <1>1, <1>3 DEF IInv, MemoryInv, HasRead
<1> QED
  BY <1>1, <1>3, <1>10, <1>11
  DEF IInv, BeforeInv, WriteInv, AllOrNothing, KilledLeavesWholeFiles

LEMMA TypeCheckIInv == IInv /\ TypeOK' /\ TypeCheck => IInv'
<1>1. SUFFICES ASSUME IInv, TypeOK', TypeCheck PROVE IInv'
  OBVIOUS
<1>2. /\ phase = "checking" /\ UNCHANGED <<disk, userDisk, lost, damaged>>
      /\ \/ Finish(0, spliced)
         \/ /\ phase' = "restoring" /\ todo' = Changed
            /\ UNCHANGED <<spliced, files, orig, exit>>
  BY <1>1 DEF TypeCheck, historyVars
<1>3. damaged = {} /\ \A f \in Files \ lost : disk[f] = userDisk[f] \cup EditsIn(spliced, f)
  BY <1>1, <1>2 DEF IInv, WriteInv
<1>4. CASE Finish(0, spliced)
  <2>1. Reported(0, spliced)
    BY <1>2, <1>3 DEF Reported, Killed
  <2> QED
    BY <1>1, <1>4, <2>1, FinishIInv
<1>5. CASE phase' = "restoring" /\ todo' = Changed /\ UNCHANGED <<spliced, files, orig, exit>>
  <2>1. \A g \in Files : g \notin Changed => EditsIn(spliced, g) \subseteq userDisk[g]
    BY <1>1, <1>2 DEF IInv, MemoryInv, HasRead, Changed
  <2>2. \A g \in Files \ lost : g \notin Changed => disk[g] = userDisk[g]
    BY <1>3, <2>1
  <2>3. RestoreInv'
    BY <1>2, <1>3, <1>5, <2>2 DEF RestoreInv, Sound, Changed
  <2>4. MemoryInv'
    BY <1>1, <1>2, <1>5 DEF IInv, MemoryInv, HasRead
  <2> QED
    BY <1>1, <1>2, <1>5, <2>3, <2>4
    DEF IInv, BeforeInv, WriteInv, AllOrNothing, KilledLeavesWholeFiles
<1> QED
  BY <1>2, <1>4, <1>5

(***************************************************************************)
(* Restoring one file: it is the people's again, or known not to be.       *)
(***************************************************************************)
LEMMA RestoreOneIInv ==
  ASSUME IInv, TypeOK', NEW f \in Files, RestoreOne(f),
         \A g \in Files : g # f => disk'[g] = disk[g],
         disk'[f] = userDisk[f] \/ f \in lost' \cup damaged',
         lost \subseteq lost', damaged \ {f} \subseteq damaged', damaged' \subseteq damaged \cup {f}
  PROVE  IInv'
<1>1. phase = "restoring" /\ userDisk' = userDisk /\ f \in todo
  BY DEF RestoreOne, Lowest
<1>2. /\ todo \subseteq Changed
      /\ \A g \in Sound :
           IF g \in todo
           THEN disk[g] \in {userDisk[g], userDisk[g] \cup EditsIn(spliced, g)}
           ELSE disk[g] = userDisk[g]
      /\ \A g \in (damaged \cap todo) \ lost : disk[g] = {Torn} => userDisk[g] = orig[g]
  BY <1>1 DEF IInv, RestoreInv
<1>3. \A g \in Files \ (lost' \cup damaged') : g # f => g \in Sound /\ disk'[g] = disk[g]
  BY DEF Sound
<1>4. CASE todo = {f} /\ Finish(1, {})
  <2>1. \A g \in Files \ (lost' \cup damaged') : disk'[g] = userDisk[g]
    BY <1>2, <1>3, <1>4
  <2>2. Reported(1, {})
    BY <1>1, <2>1, EditsInUnion DEF Reported, Killed
  <2> QED
    BY <1>4, <2>2, FinishIInv
<1>5. CASE /\ todo # {f} /\ todo' = todo \ {f}
           /\ UNCHANGED <<phase, args, plan, queue, spliced, files, orig, exit>>
  <2>1. \A g \in Files \ (lost' \cup damaged') :
          IF g \in todo'
          THEN disk'[g] \in {userDisk[g], userDisk[g] \cup EditsIn(spliced, g)}
          ELSE disk'[g] = userDisk[g]
    BY <1>2, <1>3, <1>5
  <2>2. \A g \in (damaged' \cap todo') \ lost' : disk'[g] = {Torn} => userDisk[g] = orig[g]
    <3>1. \A g \in (damaged' \cap todo') \ lost' : g \in (damaged \cap todo) \ lost /\ g # f
      BY <1>5
    <3>2. \A g \in todo' : g \in Files
      BY <1>5 DEF IInv, TypeOK
    <3> QED
      BY <1>2, <3>1, <3>2
  <2>3. RestoreInv'
    BY <1>1, <1>2, <1>5, <2>1, <2>2 DEF RestoreInv, Sound, Changed
  <2>4. MemoryInv'
    BY <1>1, <1>5 DEF IInv, MemoryInv, HasRead
  <2> QED
    BY <1>1, <1>5, <2>3, <2>4
    DEF IInv, BeforeInv, WriteInv, AllOrNothing, KilledLeavesWholeFiles
<1> QED
  BY <1>4, <1>5 DEF RestoreOne

LEMMA RestoresUserContent ==
  ASSUME IInv, phase = "restoring", NEW f \in todo, f \notin lost, Untouched(f)
  PROVE  userDisk[f] = orig[f]
<1>1. f \in Files /\ f \in DOMAIN files /\ HasRead
  BY DEF IInv, TypeOK, HasRead
<1>2. CASE f \in damaged
  BY <1>2 DEF IInv, RestoreInv, Untouched
<1>3. CASE f \notin damaged
  <2>1. disk[f] \in {userDisk[f], userDisk[f] \cup EditsIn(spliced, f)}
    BY <1>1, <1>3 DEF IInv, RestoreInv, Sound
  <2> QED
    BY <1>1, <1>3, <2>1, UntouchedIsUsers
<1> QED
  BY <1>2, <1>3

LEMMA RestoreIInv == IInv /\ TypeOK' /\ Restore => IInv'
<1>1. SUFFICES ASSUME IInv, TypeOK', Restore PROVE IInv'
  OBVIOUS
<1>2. PICK f \in todo :
        /\ RestoreOne(f)
        /\ disk' = [disk EXCEPT ![f] = orig[f]]
        /\ lost' = IF Untouched(f) THEN lost ELSE lost \cup {f}
        /\ damaged' = damaged \ {f}
  BY <1>1 DEF Restore
<1>3. f \in Files /\ phase = "restoring"
  BY <1>1, <1>2 DEF IInv, TypeOK, RestoreOne
<1>4. \A g \in Files : disk'[g] = IF g = f THEN orig[f] ELSE disk[g]
  BY <1>1, <1>2, <1>3 DEF IInv, TypeOK, Disks
<1>5. disk'[f] = userDisk[f] \/ f \in lost'
  BY <1>1, <1>2, <1>3, <1>4, RestoresUserContent
<1> QED
  BY <1>1, <1>2, <1>3, <1>4, <1>5, RestoreOneIInv

LEMMA RestoreFailsIInv == IInv /\ TypeOK' /\ RestoreFails => IInv'
<1>1. SUFFICES ASSUME IInv, TypeOK', RestoreFails PROVE IInv'
  OBVIOUS
<1>2. PICK f \in todo :
        /\ RestoreOne(f)
        /\ \A g \in Files : g # f => disk'[g] = disk[g]
        /\ lost \subseteq lost' /\ damaged' = damaged \cup {f}
  BY <1>1 DEF RestoreFails, Tear, IInv, TypeOK, Disks
<1>3. f \in Files
  BY <1>1, <1>2 DEF IInv, TypeOK
<1> QED
  BY <1>1, <1>2, <1>3, RestoreOneIInv

LEMMA CrashIInv == IInv /\ TypeOK' /\ Crash => IInv'
<1>1. SUFFICES ASSUME IInv, TypeOK', Crash PROVE IInv'
  OBVIOUS
<1>2. /\ phase \in Phases \ {"idle"} /\ Finish(Killed, spliced) /\ userDisk' = userDisk
      /\ \A f \in Files \ (lost' \cup damaged') :
           f \in Files \ (lost \cup damaged) /\ disk'[f] = disk[f]
  BY <1>1 DEF Crash, Tear, IInv, TypeOK, Disks
<1>3. ASSUME NEW f \in Files \ (lost \cup damaged)
      PROVE  disk[f] \in {userDisk[f], userDisk[f] \cup EditsIn(spliced, f)}
  <2>1. CASE phase \in {"planning", "selecting", "reading"}
    BY <1>1, <2>1 DEF IInv, BeforeInv
  <2>2. CASE phase \in {"writing", "checking"}
    BY <1>1, <1>3, <2>2 DEF IInv, WriteInv
  <2>3. CASE phase = "restoring"
    <3>1. f \in Sound
      BY <1>3 DEF Sound
    <3> QED
      BY <1>1, <2>3, <3>1 DEF IInv, RestoreInv
  <2> QED
    BY <1>2, <2>1, <2>2, <2>3 DEF Phases
<1>4. Reported(Killed, spliced)
  BY <1>2, <1>3 DEF Reported
<1> QED
  BY <1>1, <1>2, <1>4, FinishIInv

(***************************************************************************)
(* The invariant is inductive: one step per action.                        *)
(***************************************************************************)
LEMMA NextIInv == IInv /\ [Next]_vars => IInv'
<1>1. SUFFICES ASSUME IInv, [Next]_vars PROVE IInv'
  OBVIOUS
<1>2. TypeOK'
  BY <1>1, NextTypeOK DEF IInv
<1>3. CASE BuildPlan \/ Select
  BY <1>1, <1>2, <1>3, PlanIInv
<1>4. CASE Read
  BY <1>1, <1>2, <1>4, ReadIInv
<1>5. CASE Splice
  BY <1>1, <1>2, <1>5, SpliceIInv
<1>6. CASE Write
  BY <1>1, <1>2, <1>6, WriteIInv
<1>7. CASE TypeCheck
  BY <1>1, <1>2, <1>7, TypeCheckIInv
<1>8. CASE Restore
  BY <1>1, <1>2, <1>8, RestoreIInv
<1>9. CASE WriteFails
  BY <1>1, <1>2, <1>9, WriteFailsIInv
<1>10. CASE RestoreFails
  BY <1>1, <1>2, <1>10, RestoreFailsIInv
<1>11. CASE Crash
  BY <1>1, <1>2, <1>11, CrashIInv
<1>12. CASE Start
  BY <1>1, <1>2, <1>12, StartIInv
<1>13. CASE Edit
  BY <1>1, <1>2, <1>13, EditIInv
<1>14. CASE Migrate
  BY <1>1, <1>2, <1>14, MigrateIInv
<1>15. CASE Answer \/ GoGet \/ UNCHANGED vars
  <2>1. UNCHANGED <<disk, userDisk, phase, spliced, files, orig, todo, exit, lost, damaged>>
    BY <1>15 DEF Answer, GoGet, vars, runVars, historyVars
  <2> QED
    BY <1>1, <1>2, <2>1
    DEF IInv, MemoryInv, BeforeInv, WriteInv, RestoreInv, HasRead, Changed, Sound,
        AllOrNothing, KilledLeavesWholeFiles
<1>16. CASE Revert
  <2>1. /\ phase = "idle" /\ phase' = "idle" /\ files' = files /\ exit' = exit
        /\ disk' = userDisk' /\ spliced' = {}
    BY <1>16 DEF Revert
  <2>2. MemoryInv'
    BY <1>1, <2>1 DEF IInv, MemoryInv, HasRead
  <2>3. AllOrNothing' /\ KilledLeavesWholeFiles'
    BY <2>1, EditsInUnion DEF AllOrNothing, KilledLeavesWholeFiles
  <2> QED
    BY <1>2, <2>1, <2>2, <2>3 DEF IInv, BeforeInv, WriteInv, RestoreInv
<1> QED
  BY <1>1, <1>3, <1>4, <1>5, <1>6, <1>7, <1>8, <1>9, <1>10, <1>11, <1>12, <1>13,
     <1>14, <1>15, <1>16 DEF Next, Run, Fault, Person

(***************************************************************************)
(* After any run that was not killed, every file is as people left it plus *)
(* all the edits of the steps the run reports, or none: on every module,   *)
(* for every plan, whatever the person does and whichever write fails.     *)
(***************************************************************************)
THEOREM AppliesAllOrNothing == Spec => []AllOrNothing
<1>1. IInv => AllOrNothing
  BY DEF IInv
<1> QED
  BY InitIInv, NextIInv, <1>1, PTL DEF Spec

(***************************************************************************)
(* A run killed at any moment leaves each file old or new.                 *)
(***************************************************************************)
THEOREM KilledRunLeavesWholeFiles == Spec => []KilledLeavesWholeFiles
<1>1. IInv => KilledLeavesWholeFiles
  BY DEF IInv
<1> QED
  BY InitIInv, NextIInv, <1>1, PTL DEF Spec

-----------------------------------------------------------------------------
(***************************************************************************)
(* Licensed writes.  What a run selected is what it splices, step by step, *)
(* from the plan it made of a module that built.                           *)
(***************************************************************************)
LicenceInv ==
  /\ phase \notin {"idle", "planning"} =>
       ModuleBuilds(plan.disk) /\ plan.left = Left(plan.disk, plan.answers)
  /\ HasRead => /\ upToDate /\ queue \subseteq Selected(plan.left)
                /\ spliced = UNION (Selected(plan.left) \ queue)
                /\ \A s \in Selected(plan.left) : ~Pending(s)
  /\ HasRead /\ phase # "reading" => ~args.dryRun /\ queue = {}

LInv == IInv /\ LicenceInv

(***************************************************************************)
(* Every step selected is a machine step, and with -component every piece  *)
(* of work before it in its component is selected, but for the sites that  *)
(* have no step.                                                           *)
(***************************************************************************)
LEMMA SelectedMachine ==
  ASSUME NEW L \in SUBSET Work, NEW s \in Selected(L)
  PROVE  MachineStep(L, s)
  BY DEF Selected, StopsBefore

LEMMA SelectedSteps ==
  ASSUME NEW L \in SUBSET Work, NEW c, ~OneStep(L, c),
         NEW s \in Steps(L), s \subseteq InComp(L, c), NEW w \in s
  PROVE  s = {w}
<1>1. CASE \E x \in Comps : OneStep(L, x) /\ s = InComp(L, x)
  BY <1>1 DEF InComp
<1>2. CASE \E v \in L : s = {v}
  BY <1>2
<1> QED
  BY <1>1, <1>2 DEF Steps

LEMMA SelectedPrefix ==
  ASSUME NEW L \in SUBSET Work, args.comp # AllComps,
         NEW s \in Selected(L), NEW w \in s,
         NEW v \in InComp(L, args.comp), v < w, Desc[v].kind # "unmapped"
  PROVE  v \in UNION Selected(L)
<1> DEFINE c == args.comp
           S == ComponentSteps(L, c)
<1>1. s \in S /\ s \subseteq InComp(L, c) /\ s \in Steps(L) /\ ~StopsBefore(L, S, s)
  BY DEF Selected, ComponentSteps
<1>2. CASE OneStep(L, c)
  <2>1. \A x \in InComp(L, c) : Desc[x].comp = c
    BY DEF InComp
  <2>2. s = InComp(L, c)
    <3>1. CASE \E x \in Comps : OneStep(L, x) /\ s = InComp(L, x)
      BY <1>1, <3>1 DEF InComp
    <3>2. CASE \E u \in L : ~OneStep(L, Desc[u].comp) /\ s = {u}
      BY <1>1, <1>2, <2>1, <3>2
    <3> QED
      BY <1>1, <3>1, <3>2 DEF Steps
  <2> QED
    BY <2>2
<1>3. CASE ~OneStep(L, c)
  <2>1. s = {w}
    BY <1>1, <1>3, SelectedSteps
  <2>2. {v} \in S
    BY <1>3 DEF Steps, ComponentSteps, InComp
  <2>3. v \in Nat /\ w \in Nat /\ \A t \in S : t \subseteq Nat
    <3>1. Work \subseteq Nat
      BY DEF Work
    <3> QED
      BY <1>1, <3>1, StepsType DEF InComp, ComponentSteps
  <2>4. \A t \in S : t = {v} \/ Precedes(t, {v}) => Precedes(t, s)
    BY <2>1, <2>3 DEF Precedes
  <2>5. ~StopsBefore(L, S, {v})
    BY <1>1, <2>4 DEF StopsBefore
  <2> QED
    BY <2>2, <2>5 DEF Selected
<1> QED
  BY <1>2, <1>3

LEMMA NextLicenceInv == LInv /\ [Next]_vars => LicenceInv'
<1>1. SUFFICES ASSUME LInv, [Next]_vars PROVE LicenceInv'
  OBVIOUS
<1>2. /\ phase \in Phases
      /\ phase \notin {"idle", "planning"} =>
           ModuleBuilds(plan.disk) /\ plan.left = Left(plan.disk, plan.answers)
      /\ HasRead => /\ upToDate /\ queue \subseteq Selected(plan.left)
                    /\ spliced = UNION (Selected(plan.left) \ queue)
                    /\ \A s \in Selected(plan.left) : ~Pending(s)
      /\ HasRead /\ phase # "reading" => ~args.dryRun /\ queue = {}
  BY <1>1 DEF LInv, IInv, TypeOK, LicenceInv
<1>3. CASE phase' \in {"idle", "planning"}
  BY <1>3 DEF LicenceInv, HasRead
<1>4. ASSUME UNCHANGED <<args, plan, queue, spliced>>, upToDate => upToDate', HasRead, HasRead',
             phase = "reading" <=> phase' = "reading"
      PROVE  LicenceInv'
  BY <1>2, <1>4 DEF LicenceInv, HasRead, Phases, Selected, ComponentSteps, Pending
<1>5. CASE BuildPlan
  <2>1. ASSUME CanPlan, plan' = [disk |-> disk, answers |-> answers,
                                            left |-> Left(disk, answers)],
               phase' = "selecting"
        PROVE  LicenceInv'
    <3>1. ModuleBuilds(plan'.disk) /\ plan'.left = Left(plan'.disk, plan'.answers)
      BY <2>1 DEF CanPlan
    <3> QED
      BY <2>1, <3>1 DEF LicenceInv, HasRead
  <2>2. CASE Finish(1, {})
    BY <1>3, <2>2 DEF Finish
  <2> QED
    BY <1>5, <2>1, <2>2 DEF BuildPlan
<1>6. CASE Select
  <2>1. CASE \E code : Finish(code, {})
    BY <1>3, <2>1 DEF Finish
  <2>2. CASE /\ upToDate /\ \A s \in Selected(plan.left) : ~Pending(s)
             /\ queue' = Selected(plan.left) /\ phase' = "reading"
             /\ UNCHANGED <<args, plan, spliced>>
    <3>1. phase = "selecting" /\ UNCHANGED upToDate
      BY <1>6 DEF Select, userVars
    <3>2. spliced = {}
      BY <1>1, <3>1 DEF LInv, IInv, MemoryInv
    <3>3. Selected(plan.left)' = Selected(plan.left)
      BY <2>2 DEF Selected, ComponentSteps
    <3>4. \A s : Pending(s)' <=> Pending(s)
      BY <2>2 DEF Pending
    <3> QED
      BY <1>2, <2>2, <3>1, <3>2, <3>3, <3>4 DEF LicenceInv, HasRead
  <2> QED
    BY <1>6, <2>1, <2>2 DEF Select
<1>7. CASE Read
  BY <1>4, <1>7 DEF Read, HasRead, userVars
<1>8. CASE Splice
  <2>1. CASE \E code : Finish(code, {})
    BY <1>3, <2>1 DEF Finish
  <2>2. PICK s \in queue :
          \/ \E code : Finish(code, {})
          \/ /\ spliced' = spliced \cup s /\ queue' = queue \ {s}
             /\ \/ queue # {s} /\ UNCHANGED phase
                \/ queue = {s} /\ ~args.dryRun /\ phase' = "writing"
             /\ UNCHANGED <<args, plan>>
    BY <1>8 DEF Splice
  <2>3. CASE /\ spliced' = spliced \cup s /\ queue' = queue \ {s}
             /\ \/ queue # {s} /\ UNCHANGED phase
                \/ queue = {s} /\ ~args.dryRun /\ phase' = "writing"
             /\ UNCHANGED <<args, plan>>
    <3>1. phase = "reading" /\ UNCHANGED upToDate /\ HasRead
      BY <1>8 DEF Splice, userVars, HasRead
    <3>2. Selected(plan.left)' = Selected(plan.left)
      BY <2>3 DEF Selected, ComponentSteps
    <3>3. \A t : Pending(t)' <=> Pending(t)
      BY <2>3 DEF Pending
    <3>4. spliced' = UNION (Selected(plan.left) \ queue')
      BY <1>2, <2>2, <2>3, <3>1
    <3>5. phase' # "reading" => ~args'.dryRun /\ queue' = {}
      BY <2>3, <3>1
    <3> QED
      BY <1>2, <2>3, <3>1, <3>2, <3>3, <3>4, <3>5 DEF LicenceInv, HasRead
  <2> QED
    BY <2>1, <2>2, <2>3
<1>9. CASE Write
  BY <1>4, <1>9 DEF Write, HasRead, userVars
<1>10. CASE TypeCheck
  <2>1. CASE Finish(0, spliced)
    BY <1>3, <2>1 DEF Finish
  <2> QED
    BY <1>4, <1>10, <2>1 DEF TypeCheck, HasRead, userVars
<1>11. CASE WriteFails
  BY <1>4, <1>11 DEF WriteFails, HasRead, userVars
<1>12. ASSUME NEW f, RestoreOne(f) PROVE LicenceInv'
  <2>1. CASE Finish(1, {})
    BY <1>3, <2>1 DEF Finish
  <2> QED
    BY <1>4, <1>12, <2>1 DEF RestoreOne, HasRead, userVars
<1>13. CASE Restore \/ RestoreFails
  BY <1>12, <1>13 DEF Restore, RestoreFails
<1>14. CASE Crash
  BY <1>3, <1>14 DEF Crash, Finish
<1>15. CASE Start \/ GoGet \/ Migrate \/ Revert
  BY <1>3, <1>15 DEF Start, GoGet, Migrate, Revert, runVars
<1>16. CASE Edit \/ Answer \/ UNCHANGED vars
  <2>1. UNCHANGED <<phase, args, plan, queue, spliced, upToDate>>
    BY <1>16 DEF Edit, Answer, vars, userVars, runVars
  <2> QED
    BY <1>2, <2>1 DEF LicenceInv, HasRead, Selected, ComponentSteps, Pending
<1> QED
  BY <1>1, <1>5, <1>6, <1>7, <1>8, <1>9, <1>10, <1>11, <1>13, <1>14, <1>15, <1>16
  DEF Next, Run, Fault, Person

LEMMA InitLInv == Init => LInv
  BY InitIInv DEF LInv, LicenceInv, HasRead, Init

LEMMA NextLInv == LInv /\ [Next]_vars => LInv'
  BY NextIInv, NextLicenceInv DEF LInv

(***************************************************************************)
(* Once every step is spliced, all the work spliced is licensed.           *)
(***************************************************************************)
LEMMA SplicedLicensed ==
  ASSUME LInv, HasRead, phase # "reading"
  PROVE  /\ ~args.dryRun /\ upToDate /\ ModuleBuilds(plan.disk)
         /\ \A w \in spliced : Licensed(w)
<1>1. /\ ~args.dryRun /\ upToDate /\ ModuleBuilds(plan.disk)
      /\ spliced = UNION Selected(plan.left)
      /\ \A s \in Selected(plan.left) : ~Pending(s)
  BY DEF LInv, LicenceInv, HasRead
<1>2. plan.left \in SUBSET Work /\ plan.answers \in Answers
  BY DEF LInv, IInv, TypeOK
<1>3. ASSUME NEW w \in spliced PROVE Licensed(w)
  <2>1. PICK s \in Selected(plan.left) : w \in s
    BY <1>1, <1>3
  <2>2. Machine(plan.left, w)
    BY <1>2, <2>1, SelectedMachine DEF MachineStep
  <2>3. args.comp # AllComps =>
          \A v \in InComp(plan.left, args.comp) :
            v < w /\ Desc[v].kind # "unmapped" => v \in spliced
    BY <1>1, <1>2, <2>1, SelectedPrefix
  <2>4. ASSUME Desc[w].comp \in Comps PROVE plan.answers[Desc[w].comp] = "migrate"
    <3>1. plan.answers[Desc[w].comp] \in Choices \ {"none"}
      BY <1>1, <1>2, <2>1, <2>4 DEF Pending, Answers
    <3>2. w \in plan.left
      <4>1. s \subseteq plan.left
        BY <2>1 DEF Selected, ComponentSteps, Steps, InComp
      <4> QED
        BY <2>1, <4>1
    <3>3. ~Skipped(w, plan.answers)
      BY <3>2 DEF LInv, LicenceInv, HasRead, Left
    <3> QED
      BY <2>4, <3>1, <3>3 DEF Choices, Skipped
  <2> QED
    BY <2>2, <2>3, <2>4 DEF Licensed
<1> QED
  BY <1>1, <1>3

(***************************************************************************)
(* A run writes only what the plan licenses: machine steps, in order, of a *)
(* module that built, after step 0, of components answered "migrate", and  *)
(* never in a dry run.                                                     *)
(***************************************************************************)
THEOREM WritesOnlyLicensed == Spec => LicensedWrites
<1> DEFINE Allowed ==
      phase # "idle" /\ disk' # disk /\ userDisk' = userDisk
      => /\ ~args.dryRun /\ upToDate /\ ModuleBuilds(plan.disk)
         /\ \A w \in spliced : Licensed(w)
<1>1. LInv /\ [Next]_vars => [Allowed]_vars
  <2>1. SUFFICES ASSUME LInv, [Next]_vars, phase # "idle", disk' # disk, userDisk' = userDisk
                 PROVE  HasRead /\ phase # "reading"
    BY SplicedLicensed
  <2>2. CASE Run \/ Fault
    BY <2>1, <2>2
    DEF Run, Fault, BuildPlan, Select, Read, Splice, Write, TypeCheck, Restore, WriteFails,
        RestoreFails, RestoreOne, Crash, HasRead
  <2>3. CASE Edit
    <3>1. SUFFICES ASSUME phase \in {"planning", "selecting", "reading"} PROVE FALSE
      BY <2>1 DEF LInv, IInv, TypeOK, Phases, HasRead
    <3>2. disk = userDisk
      BY <2>1, <3>1 DEF LInv, IInv, BeforeInv
    <3>3. PICK f \in Files, m \in {Edited, Broken} :
            /\ disk' = [disk EXCEPT ![f] = @ \cup {m}]
            /\ userDisk' = [userDisk EXCEPT ![f] = @ \cup {m}]
      BY <2>3 DEF Edit
    <3> QED
      BY <2>1, <3>2, <3>3
  <2>4. CASE Start \/ Answer \/ GoGet \/ Migrate \/ Revert \/ UNCHANGED vars
    BY <2>1, <2>4 DEF Start, Answer, GoGet, Migrate, Revert, vars
  <2> QED
    BY <2>1, <2>2, <2>3, <2>4 DEF Next, Person
<1> QED
  BY InitLInv, NextLInv, <1>1, PTL DEF Spec, LicensedWrites
=============================================================================
