---------------------- MODULE RestoreTransactionProofs ----------------------
(***************************************************************************)
(* Theorems about RestoreTransaction for any number of files, restores,    *)
(* crashes and errors.  KeepInv gives OriginalsKept.  RecoverInv adds what *)
(* holds of a plan until a failed reload stages it a second time, and      *)
(* gives ValidatedIsInstalled and FailedApplyRestores.                     *)
(***************************************************************************)
EXTENDS RestoreTransaction, TLAPS

Active == disk.status \in {"applying", "validating"}

\* The late answer of a reload may change the status under a running apply.
Installing == pc \in {"install", "place", "record"}

\* Where an original is while its plan is open: never under a rename to come.
Holding ==
  Active \/ Installing => \A f \in disk.files :
    before[f] # NoFile =>
      \/ live[f] = before[f]
      \/ prev[f] = before[f] /\ (live[f] = NoFile \/ pay[f] = NoFile)

\* What the program counter says about the plan.
Control ==
  /\ pc = "migrate" => disk.status = "none"
  /\ reload \in {"scheduled", "executing"} => disk.status # "none"
  /\ Installing => ram.files = disk.files /\ ram.status \in {"applying", "validating"}
  /\ pc = "place" => live[cur] = NoFile
  /\ pc = "undo" => disk.status \in {"rolling_back", "staged"}
  /\ pc \in {"open", "waiting"} /\ Active => \A f \in disk.files : live[f] # NoFile

KeepInv == TypeOK /\ Holding /\ Control

Staged == disk.status \in {"staged", "reload_scheduled"}

\* A rollback can bring f back, with the progress of the plan in inst.
Recoverable(f, inst) ==
  /\ prev[f] # NoFile => prev[f] = before[f]
  /\ before[f] # NoFile /\ prev[f] = NoFile => live[f] = before[f] /\ f \notin inst

\* Payloads are of the last generation, and a plan begins with nothing installed.
Prepared ==
  /\ disk.status = "none" => gen = Legacy
  /\ pc = "migrate" \/ Staged => prev = Empty /\ \A f \in Files : pay[f] \in {NoFile, gen}
  /\ Staged => disk.inst = {}
  /\ disk.status = "validating" => disk.files \subseteq disk.inst
  /\ pc = "prepare" => Staged /\ ram = disk

\* The files of an open plan, as the disk shows them after a crash.
Resumes ==
  Active => \A f \in disk.files :
    /\ pay[f] \in {NoFile, gen}
    /\ pay[f] # NoFile => live[f] \in {NoFile, before[f]}
    /\ f \in disk.inst => live[f] = gen
    /\ Recoverable(f, disk.inst)

\* The files of an open plan, as the running apply or rollback knows them.
Progress ==
  /\ Installing => Active /\ ram.status = disk.status /\ ram.inst = disk.inst
  /\ pc \in {"place", "record"} =>
       /\ cur \in ram.files /\ cur \notin ram.inst
       /\ before[cur] # NoFile => prev[cur] = before[cur]
  /\ pc = "place" => pay[cur] = gen
  /\ pc = "record" => live[cur] = gen
  /\ pc = "undo0" /\ caller = "apply" =>
       /\ Active /\ ram.files = disk.files
       /\ \A f \in disk.files : Recoverable(f, ram.inst)
  /\ pc = "undo" => disk.status = "rolling_back"
  /\ pc = "undo" /\ caller = "apply" =>
       /\ ram.files = disk.files
       /\ \A f \in disk.files :
            IF f \in undo THEN Recoverable(f, ram.inst)
                          ELSE before[f] # NoFile => live[f] = before[f]

Sound == Prepared /\ Resumes /\ Progress /\ ValidatedIsInstalled

Recovers == reload # "failed" => Sound

RecoverInv == KeepInv /\ Recovers

-----------------------------------------------------------------------------
(* Type correctness *)

\* The generations a file may have.
LEMMA GenFacts ==
  /\ NoFile \in Gens /\ Old \in Gens /\ Fresh \in Gens /\ Legacy \in Gens
  /\ Fresh # NoFile /\ Legacy # NoFile /\ Old # NoFile
  /\ Legacy..(Legacy + MaxStages) \subseteq Gens
  /\ NoFile \notin Legacy..(Legacy + MaxStages)
  /\ Legacy \in Legacy..(Legacy + MaxStages)
  /\ 1 \in Files
  /\ Empty \in [Files -> Gens] /\ \A f \in Files : Empty[f] = NoFile
  BY RestoreAssumption DEF Gens, NoFile, Old, Fresh, Legacy, Files, Empty

\* The next payload and the next fault stay in bounds.
LEMMA NextGen ==
  \A g \in Legacy..(Legacy + MaxStages) :
    g < Legacy + MaxStages => g + 1 \in Legacy..(Legacy + MaxStages)
  BY RestoreAssumption DEF Legacy

\* A fault is counted within its bound.
LEMMA NextFault == TypeOK /\ Fault => faults' \in 0..MaxFaults
  BY RestoreAssumption DEF TypeOK, Fault

\* The initial states have the declared types.
LEMMA InitType == Init => TypeOK
  BY RestoreAssumption DEF Init, TypeOK, Plan, NoPlan, Statuses, Blocking, Files, Gens, Empty,
     NoFile, Old, Fresh, Legacy, Outside, Applying

\* A plan whose status is replaced is a plan.
LEMMA StatusType ==
  ASSUME NEW p \in Plan, NEW s \in Statuses
  PROVE  /\ [p EXCEPT !.status = s] \in Plan
         /\ [p EXCEPT !.status = s].status = s
         /\ [p EXCEPT !.status = s].files = p.files
         /\ [p EXCEPT !.status = s].inst = p.inst
  BY DEF Plan

\* The statuses the code writes.
LEMMA StatusNames ==
  {"applying", "validating", "failed_before_apply", "rolling_back", "rolled_back",
   "rollback_pending", "staged", "cancelled", "succeeded"} \subseteq Statuses
  BY DEF Statuses, Blocking

\* The plan in memory with another status, and a plan after a failed startup.
LEMMA AsType ==
  ASSUME TypeOK, NEW s \in Statuses
  PROVE  As(s) \in Plan /\ As(s).status = s /\ As(s).files = ram.files /\ As(s).inst = ram.inst
  BY StatusType DEF As, TypeOK

\* A failed start keeps files and instances of the plan and never leaves it validating.
LEMMA FailedType ==
  ASSUME TypeOK
  PROVE  /\ StartupFailed(disk) \in Plan
         /\ StartupFailed(disk).files = disk.files /\ StartupFailed(disk).inst = disk.inst
         /\ StartupFailed(disk).status \in {disk.status, "rollback_pending"}
         /\ StartupFailed(disk).status # "validating"
<1>1. CASE disk.status = "validating"
  BY <1>1, StatusType, StatusNames DEF StartupFailed, TypeOK
<1>2. CASE disk.status # "validating"
  BY <1>2 DEF StartupFailed, TypeOK
<1> QED BY <1>1, <1>2

\* Requests, stops, crashes and starts keep the types.
LEMMA RequestType ==
  ASSUME TypeOK,
         StageRestore \/ CancelRestore \/ Reload \/ ReloadFails \/ Stop \/ Crash \/ Start
  PROVE  TypeOK'
<1> USE GenFacts, NextFault DEF TypeOK, Outside, Applying, dirs, Forgotten
<1>1. CASE StageRestore
  BY <1>1, NextGen DEF StageRestore, Plan, Statuses, Blocking
<1>2. CASE CancelRestore
  <2>1. disk' \in Plan
    BY <1>2, StatusType, StatusNames DEF CancelRestore
  <2> QED BY <1>2, <2>1 DEF CancelRestore
<1>3. CASE Reload
  BY <1>3 DEF Reload
<1>4. CASE ReloadFails
  <2>1. disk' \in Plan
    BY <1>4, StatusType, StatusNames DEF ReloadFails
  <2> QED BY <1>4, <2>1 DEF ReloadFails
<1>5. CASE Stop
  BY <1>5 DEF Stop
<1>6. CASE Crash
  BY <1>6 DEF Crash
<1>7. CASE Start
  BY <1>7 DEF Start
<1> QED BY <1>1, <1>2, <1>3, <1>4, <1>5, <1>6, <1>7

\* The steps up to the first rename keep the types.
LEMMA PrepareType ==
  ASSUME TypeOK, ReadPlan \/ MigrateLegacy \/ PrepareApply
  PROVE  TypeOK'
<1> USE GenFacts, NextFault DEF TypeOK, Outside, Applying, dirs
<1>1. CASE ReadPlan
  BY <1>1 DEF ReadPlan
<1>2. CASE MigrateLegacy
  BY <1>2 DEF MigrateLegacy, Save, Plan, Statuses, Blocking
<1>3. CASE PrepareApply
  <2>1. ram' \in Plan /\ disk' \in Plan
    BY <1>3, AsType, StatusNames DEF PrepareApply, Save
  <2> QED BY <1>3, <2>1 DEF PrepareApply
<1> QED BY <1>1, <1>2, <1>3

\* The steps of the installation keep the types.
LEMMA InstallType ==
  ASSUME TypeOK, InstallNext \/ PlaceFile \/ RecordFile \/ ValidateFiles
  PROVE  TypeOK'
<1> USE GenFacts, NextFault DEF TypeOK, Outside, Applying, dirs
<1>1. CASE InstallNext
  <2>1. ram.files \subseteq Files
    BY DEF Plan
  <2> QED BY <1>1, <2>1 DEF InstallNext, InstallFile, Fail
<1>2. CASE PlaceFile
  BY <1>2 DEF PlaceFile, Fail
<1>3. CASE RecordFile
  <2>1. ram' \in Plan
    BY <1>3 DEF RecordFile, Plan
  <2> QED BY <1>3, <2>1 DEF RecordFile, Fail
<1>4. CASE ValidateFiles
  <2>1. ram' \in Plan /\ disk' \in Plan
    BY <1>4, AsType, StatusNames DEF ValidateFiles, Save
  <2> QED BY <1>4, <2>1 DEF ValidateFiles, Fail
<1> QED BY <1>1, <1>2, <1>3, <1>4

\* The steps of a rollback keep the types.
LEMMA RollbackType ==
  ASSUME TypeOK, BeginRollback \/ UndoNext
  PROVE  TypeOK'
<1> USE GenFacts, NextFault DEF TypeOK, Outside, Applying, dirs
<1>1. CASE BeginRollback
  <2>1. ram' \in Plan /\ disk' \in Plan
    BY <1>1, AsType, FailedType, StatusNames DEF BeginRollback, Save
  <2>2. ram.files \subseteq Files
    BY DEF Plan
  <2> QED BY <1>1, <2>1, <2>2 DEF BeginRollback
<1>2. CASE UndoNext
  <2>1. ram' \in Plan /\ disk' \in Plan
    BY <1>2, AsType, StatusNames DEF UndoNext, Save
  <2> QED BY <1>2, <2>1 DEF UndoNext, UndoFile
<1> QED BY <1>1, <1>2

\* Opening the databases keeps the types.
LEMMA RuntimeType ==
  ASSUME TypeOK, StartupFails \/ StartupWaits \/ Publish
  PROVE  TypeOK'
<1> USE GenFacts, NextFault DEF TypeOK, Outside, Applying, dirs
<1>0. ASSUME NEW made \in SUBSET {f \in Files : live[f] = NoFile}
      PROVE  Created(made) \in [Files -> Gens]
  BY DEF Created
<1>1. CASE StartupFails
  <2>1. disk' \in Plan
    BY <1>1, FailedType DEF StartupFails
  <2> QED BY <1>0, <1>1, <2>1 DEF StartupFails
<1>2. CASE StartupWaits
  BY <1>2 DEF StartupWaits
<1>3. CASE Publish
  <2>1. disk' \in Plan
    BY <1>3, StatusType, StatusNames DEF Publish
  <2> QED BY <1>0, <1>3, <2>1 DEF Publish
<1> QED BY <1>1, <1>2, <1>3

\* Every step keeps the types.
LEMMA StepType == TypeOK /\ [Next]_vars => TypeOK'
<1>1. CASE UNCHANGED vars
  BY <1>1 DEF vars, TypeOK
<1> QED BY <1>1, RequestType, PrepareType, InstallType, RollbackType, RuntimeType DEF Next, Apply

\* The plan, the directories and the program counter of a restore keep their types in
\* every reachable state (apply_pending_restores, rollback_restore_files).
THEOREM RestoreTypes == Spec => []TypeOK
  BY InitType, StepType, PTL DEF Spec

-----------------------------------------------------------------------------
(* Originals are kept *)

\* Nothing is open in the initial states.
LEMMA KeepInit == Init => KeepInv
<1> SUFFICES ASSUME Init PROVE KeepInv
  OBVIOUS
<1>1. disk.status = "none" /\ pc = "down"
  BY DEF Init, NoPlan
<1> QED BY <1>1, InitType DEF KeepInv, Holding, Control, Active, Installing, Init

\* Requests, stops, crashes and starts open no plan.
LEMMA RequestKeeps ==
  ASSUME KeepInv,
         StageRestore \/ CancelRestore \/ Reload \/ ReloadFails \/ Stop \/ Crash \/ Start
  PROVE  Holding' /\ Control'
<1> USE DEF KeepInv, Control, Holding, Active, Installing, Outside, Forgotten,
       dirs
<1>1. CASE StageRestore
  BY <1>1 DEF StageRestore
<1>2. CASE CancelRestore
  <2>1. disk'.status = "cancelled"
    BY <1>2, StatusType, StatusNames DEF CancelRestore, TypeOK
  <2> QED BY <1>2, <2>1 DEF CancelRestore
<1>3. CASE Reload
  BY <1>3 DEF Reload
<1>4. CASE ReloadFails
  <2>1. disk'.status = "staged" /\ disk'.files = disk.files
    BY <1>4, StatusType, StatusNames DEF ReloadFails, TypeOK
  <2> QED BY <1>4, <2>1 DEF ReloadFails
<1>5. CASE Stop
  BY <1>5 DEF Stop
<1>6. CASE Crash
  BY <1>6 DEF Crash
<1>7. CASE Start
  BY <1>7 DEF Start
<1> QED BY <1>1, <1>2, <1>3, <1>4, <1>5, <1>6, <1>7

\* The plan is opened with the live files as the originals.
LEMMA PrepareKeeps ==
  ASSUME KeepInv, ReadPlan \/ MigrateLegacy \/ PrepareApply
  PROVE  Holding' /\ Control'
<1> USE DEF KeepInv, Control, Holding, Active, Installing, dirs
<1>1. CASE ReadPlan
  BY <1>1 DEF ReadPlan, Resumable
<1>2. CASE MigrateLegacy
  BY <1>2 DEF MigrateLegacy, Save
<1>3. CASE PrepareApply
  <2>1. CASE ram' = As("applying") /\ disk' = ram' /\ before' = live /\ pc' = "install"
    <3>1. disk'.status = "applying"
      BY <2>1, AsType, StatusNames
    <3> QED BY <1>3, <2>1, <3>1 DEF PrepareApply
  <2>2. CASE disk' = As("failed_before_apply") /\ pc' = "open"
    <3>1. disk'.status = "failed_before_apply"
      BY <2>2, AsType, StatusNames
    <3> QED BY <2>2, <3>1
  <2>3. CASE pc' = "aborted" /\ UNCHANGED <<disk, ram, before>>
    BY <1>3, <2>3 DEF PrepareApply
  <2> QED BY <1>3, <2>1, <2>2, <2>3 DEF PrepareApply, Save
<1> QED BY <1>1, <1>2, <1>3

\* A file is moved away only while its payload is there, and then it is the original.
LEMMA InstallKeeps ==
  ASSUME KeepInv, InstallNext \/ PlaceFile \/ RecordFile \/ ValidateFiles
  PROVE  Holding' /\ Control'
<1> USE DEF KeepInv, Control, Holding, Active, Installing, dirs
<1>0. ram.files \subseteq Files /\ disk.files \subseteq Files
  BY DEF TypeOK, Plan
<1>1. CASE InstallNext
  <2>1. PICK f \in ram.files \ ram.inst : InstallFile(f)
    BY <1>1 DEF InstallNext
  <2>2. CASE pc' = "undo0"
    BY <1>1, <2>1, <2>2 DEF InstallNext, InstallFile, Fail
  <2>3. CASE pc' # "undo0"
    <3>1. /\ pay[f] # NoFile /\ live' = [live EXCEPT ![f] = NoFile] /\ cur' = f
          /\ prev' = IF live[f] # NoFile THEN [prev EXCEPT ![f] = live[f]] ELSE prev
          /\ pc' = "place" /\ UNCHANGED <<disk, ram, pay, before>>
      BY <1>1, <2>1, <2>3 DEF InstallNext, InstallFile, Fail
    <3>2. live'[f] = NoFile
      BY <1>0, <3>1 DEF TypeOK
    <3>3. Holding'
      BY <1>0, <1>1, <3>1 DEF InstallNext, TypeOK
    <3> QED BY <1>1, <3>1, <3>2, <3>3 DEF InstallNext
  <2> QED BY <2>2, <2>3
<1>2. CASE PlaceFile
  BY <1>0, <1>2 DEF PlaceFile, Fail, TypeOK
<1>3. CASE RecordFile
  <2>1. ram'.files = ram.files /\ ram'.status = ram.status
    BY <1>3 DEF RecordFile, TypeOK, Plan
  <2> QED BY <1>3, <2>1 DEF RecordFile, Fail
<1>4. CASE ValidateFiles
  <2>1. CASE disk' = As("validating") /\ pc' = "open" /\ FilesPresent
    <3>1. disk'.status = "validating" /\ disk'.files = disk.files
      BY <1>4, <2>1, AsType, StatusNames DEF ValidateFiles
    <3> QED BY <1>4, <2>1, <3>1 DEF ValidateFiles, FilesPresent
  <2>2. CASE UNCHANGED disk /\ Fail
    BY <1>4, <2>2 DEF ValidateFiles, Fail
  <2> QED BY <1>4, <2>1, <2>2 DEF ValidateFiles, Save
<1> QED BY <1>1, <1>2, <1>3, <1>4

\* A rollback closes the plan before it touches a file.
LEMMA RollbackKeeps ==
  ASSUME KeepInv, BeginRollback \/ UndoNext
  PROVE  Holding' /\ Control'
<1> USE DEF KeepInv, Control, Holding, Active, Installing, dirs
<1>1. CASE BeginRollback
  <2>1. CASE disk' = As("rolling_back") /\ pc' = "undo"
    <3>1. disk'.status = "rolling_back"
      BY <2>1, AsType, StatusNames
    <3> QED BY <2>1, <3>1
  <2>2. CASE pc' = "aborted" /\ disk' \in {disk, StartupFailed(disk)}
    <3>1. disk'.files = disk.files /\ disk'.status \in {disk.status, "rollback_pending"}
      BY <2>2, FailedType
    <3> QED BY <1>1, <2>2, <3>1 DEF BeginRollback
  <2> QED BY <1>1, <2>1, <2>2 DEF BeginRollback, Save
<1>2. CASE UndoNext
  <2>1. disk'.status \in {"rolling_back", "staged", "rolled_back", "rollback_pending"}
    BY <1>2, AsType, StatusNames DEF UndoNext, Save
  <2>2. pc' = "undo" => disk'.status \in {"rolling_back", "staged"}
    BY <1>2 DEF UndoNext
  <2>3. pc' \in {"undo", "open", "aborted"}
    BY <1>2 DEF UndoNext
  <2> QED BY <2>1, <2>2, <2>3
<1> QED BY <1>1, <1>2

\* A runtime creates files only where none is.
LEMMA RuntimeKeeps ==
  ASSUME KeepInv, StartupFails \/ StartupWaits \/ Publish
  PROVE  Holding' /\ Control'
<1> USE DEF KeepInv, Control, Holding, Active, Installing, dirs
<1>0. disk.files \subseteq Files
  BY DEF TypeOK, Plan
<1>1. ASSUME NEW made \in SUBSET {f \in Files : live[f] = NoFile}
      PROVE  \A f \in Files : live[f] # NoFile => Created(made)[f] = live[f]
  BY DEF Created
<1>2. CASE StartupFails
  <2>1. disk'.files = disk.files /\ disk'.status \in {disk.status, "rollback_pending"}
    BY <1>2, FailedType DEF StartupFails
  <2>2. Active => \A f \in disk.files : live'[f] = live[f]
    BY <1>0, <1>1, <1>2 DEF StartupFails
  <2> QED BY <1>2, <2>1, <2>2 DEF StartupFails
<1>3. CASE StartupWaits
  BY <1>3 DEF StartupWaits
<1>4. CASE Publish
  <2>1. Active => \A f \in disk.files : live'[f] = live[f]
    BY <1>0, <1>1, <1>4 DEF Publish
  <2>2. CASE UNCHANGED <<disk, pay, prev>>
    BY <1>4, <2>1, <2>2 DEF Publish
  <2>3. CASE disk' = [disk EXCEPT !.status = "succeeded"]
    <3>1. disk'.status = "succeeded"
      BY <2>3, StatusType, StatusNames DEF TypeOK
    <3> QED BY <1>4, <3>1 DEF Publish
  <2> QED BY <1>4, <2>2, <2>3 DEF Publish
<1> QED BY <1>2, <1>3, <1>4

\* Every step keeps the originals where a rollback finds them.
LEMMA StepKeeps == KeepInv /\ [Next]_vars => KeepInv'
<1> SUFFICES ASSUME KeepInv, [Next]_vars PROVE KeepInv'
  OBVIOUS
<1>1. TypeOK'
  BY StepType DEF KeepInv
<1>2. Holding' /\ Control'
  <2>1. CASE UNCHANGED vars
    BY <2>1 DEF vars, KeepInv, Holding, Control, Active, Installing
  <2> QED BY <2>1, RequestKeeps, PrepareKeeps, InstallKeeps, RollbackKeeps, RuntimeKeeps
          DEF Next, Apply
<1> QED BY <1>1, <1>2 DEF KeepInv

\* Whatever crashes, errors and reloads happen in a restore of any number of files,
\* the content each planned file had is in the data or the previous directory while
\* the restore is applied, resumed and awaits its confirmation
\* (_install_restore_file); the rollback is not covered.
THEOREM OriginalsAlwaysKept == Spec => []OriginalsKept
<1>1. KeepInv => OriginalsKept
  BY DEF KeepInv, Holding, Active, OriginalsKept
<1> QED BY KeepInit, StepKeeps, <1>1, PTL DEF Spec

-----------------------------------------------------------------------------
(* Recovery *)

\* Nothing is planned in the initial states.
LEMMA RecoverInit == Init => RecoverInv
<1> SUFFICES ASSUME Init PROVE RecoverInv
  OBVIOUS
<1>1. disk.status = "none" /\ pc = "down" /\ gen = Legacy
  BY DEF Init, NoPlan
<1> QED BY <1>1, KeepInit DEF RecoverInv, Recovers, Sound, Prepared, Resumes, Progress,
           ValidatedIsInstalled, Active, Installing, Staged

\* A new plan has its payload and nothing else; no other request touches a file.
LEMMA RequestRecovers ==
  ASSUME RecoverInv,
         StageRestore \/ CancelRestore \/ Reload \/ ReloadFails \/ Stop \/ Crash \/ Start
  PROVE  Recovers'
<1> USE DEF RecoverInv, Recovers, Sound, KeepInv, Control, Prepared, Resumes, Progress, Recoverable,
           ValidatedIsInstalled, Active, Installing, Staged, dirs
<1> USE DEF Outside, Forgotten
<1>1. CASE StageRestore
  BY <1>1, GenFacts DEF StageRestore
<1>2. CASE CancelRestore
  <2>1. disk'.status = "cancelled"
    BY <1>2, StatusType, StatusNames DEF CancelRestore, TypeOK
  <2> QED BY <1>2, <2>1 DEF CancelRestore
<1>3. CASE Reload
  BY <1>3 DEF Reload
<1>4. CASE ReloadFails
  BY <1>4 DEF ReloadFails
<1>5. CASE Stop
  BY <1>5 DEF Stop
<1>6. CASE Crash
  BY <1>6 DEF Crash
<1>7. CASE Start
  BY <1>7 DEF Start
<1> QED BY <1>1, <1>2, <1>3, <1>4, <1>5, <1>6, <1>7

\* The plan is opened with the live files as the originals and nothing installed.
LEMMA PrepareRecovers ==
  ASSUME KeepInv, Sound, reload # "failed", ReadPlan \/ MigrateLegacy \/ PrepareApply
  PROVE  Sound'
<1> USE DEF KeepInv, Sound, Control, Prepared, Resumes, Progress, Recoverable,
           ValidatedIsInstalled, Active, Installing, Staged, dirs
<1>0. disk.files \subseteq Files /\ ram.files \subseteq Files
  BY DEF TypeOK, Plan
<1>1. CASE ReadPlan
  <2>1. disk' = disk /\ ram' = disk
    BY <1>1 DEF ReadPlan
  <2> QED BY <1>1, <2>1, GenFacts DEF ReadPlan, Resumable
<1>2. CASE MigrateLegacy
  <2>1. CASE UNCHANGED <<disk, ram, pc>>
    <3>1. PICK f \in legacy : pay' = [pay EXCEPT ![f] = Legacy]
      BY <1>2, <2>1 DEF MigrateLegacy
    <3>2. \A g \in Files : pay'[g] \in {NoFile, gen'}
      BY <1>2, <3>1 DEF MigrateLegacy, TypeOK
    <3> QED BY <1>2, <2>1, <3>2 DEF MigrateLegacy
  <2>2. CASE pc' = "prepare"
    <3>1. disk'.status = "staged" /\ disk'.inst = {} /\ ram' = disk'
      BY <1>2, <2>2 DEF MigrateLegacy, Save
    <3> QED BY <1>2, <2>2, <3>1 DEF MigrateLegacy
  <2>3. CASE pc' = "aborted"
    BY <1>2, <2>3 DEF MigrateLegacy
  <2> QED BY <1>2, <2>1, <2>2, <2>3 DEF MigrateLegacy
<1>3. CASE PrepareApply
  <2>1. CASE ram' = As("applying") /\ disk' = ram' /\ before' = live /\ pc' = "install"
    <3>1. disk'.status = "applying" /\ disk'.inst = {} /\ disk'.files = disk.files
      BY <1>3, <2>1, AsType, StatusNames DEF PrepareApply
    <3>2. Resumes'
      BY <1>0, <1>3, <2>1, <3>1, GenFacts DEF PrepareApply
    <3> QED BY <1>3, <2>1, <3>1, <3>2 DEF PrepareApply
  <2>2. CASE disk' = As("failed_before_apply") /\ pc' = "open"
    <3>1. disk'.status = "failed_before_apply"
      BY <2>2, AsType, StatusNames
    <3> QED BY <1>3, <2>2, <3>1 DEF PrepareApply
  <2>3. CASE pc' = "aborted" /\ UNCHANGED <<disk, ram, before>>
    BY <1>3, <2>3 DEF PrepareApply
  <2> QED BY <1>3, <2>1, <2>2, <2>3 DEF PrepareApply, Save
<1> QED BY <1>1, <1>2, <1>3

\* The renames and the records of one file, in any order of crashes between them.
LEMMA InstallRecovers ==
  ASSUME KeepInv, Sound, reload # "failed", InstallNext \/ PlaceFile \/ RecordFile \/ ValidateFiles
  PROVE  Sound'
<1> USE DEF KeepInv, Sound, Control, Prepared, Resumes, Progress, Recoverable,
           ValidatedIsInstalled, Active, Installing, Staged, dirs
<1>0. /\ ram.files \subseteq Files /\ disk.files \subseteq Files
      /\ gen \in Gens /\ gen # NoFile
  BY GenFacts DEF TypeOK, Plan
<1>1. CASE InstallNext
  <2>1. PICK f \in ram.files \ ram.inst : InstallFile(f)
    BY <1>1 DEF InstallNext
  <2>2. CASE pc' = "undo0"
    BY <1>1, <2>1, <2>2 DEF InstallNext, InstallFile, Fail
  <2>3. CASE pc' # "undo0"
    <3>1. /\ pay[f] # NoFile /\ live' = [live EXCEPT ![f] = NoFile] /\ cur' = f
          /\ prev' = IF live[f] # NoFile THEN [prev EXCEPT ![f] = live[f]] ELSE prev
          /\ pc' = "place" /\ UNCHANGED <<disk, ram, pay, before, gen, reload>>
      BY <1>1, <2>1, <2>3 DEF InstallNext, InstallFile, Fail
    <3>2. live'[f] = NoFile /\ (before[f] # NoFile => prev'[f] = before[f])
          /\ (prev'[f] # NoFile => prev'[f] = before[f])
      BY <1>0, <1>1, <3>1 DEF TypeOK, InstallNext
    <3>3. \A g \in disk.files : g # f => live'[g] = live[g] /\ prev'[g] = prev[g]
      BY <1>0, <3>1 DEF TypeOK
    <3>4. Resumes'
      BY <1>0, <1>1, <3>1, <3>2, <3>3 DEF InstallNext
    <3>5. disk.status # "succeeded" /\ disk.status # "none"
      BY <1>1 DEF InstallNext
    <3>6. ValidatedIsInstalled'
      BY <1>0, <1>1, <3>1 DEF InstallNext
    <3> QED BY <1>1, <3>1, <3>2, <3>4, <3>5, <3>6 DEF InstallNext
  <2> QED BY <2>2, <2>3
<1>2. CASE PlaceFile
  <2>1. CASE pc' = "undo0"
    BY <1>2, <2>1 DEF PlaceFile, Fail
  <2>2. CASE pc' # "undo0"
    <3>1. /\ live' = [live EXCEPT ![cur] = pay[cur]] /\ pay' = [pay EXCEPT ![cur] = NoFile]
          /\ pc' = "record" /\ UNCHANGED <<disk, ram, prev, before, cur, gen, reload>>
      BY <1>2, <2>2 DEF PlaceFile, Fail
    <3>2. live'[cur] = gen /\ pay'[cur] = NoFile
      BY <1>2, <3>1 DEF PlaceFile, TypeOK
    <3>3. \A g \in disk.files : g # cur => live'[g] = live[g] /\ pay'[g] = pay[g]
      BY <1>0, <3>1 DEF TypeOK
    <3>4. Resumes'
      BY <1>2, <3>1, <3>2, <3>3 DEF PlaceFile
    <3>5. ValidatedIsInstalled'
      BY <1>2, <3>1, <3>2, <3>3 DEF PlaceFile
    <3> QED BY <1>2, <3>1, <3>2, <3>4, <3>5 DEF PlaceFile
  <2> QED BY <2>1, <2>2
<1>3. CASE RecordFile
  <2>1. ram'.files = ram.files /\ ram'.status = ram.status /\ ram'.inst = ram.inst \cup {cur}
    BY <1>3 DEF RecordFile, TypeOK, Plan
  <2>2. UNCHANGED <<live, prev, pay, before, cur, gen, reload>>
    BY <1>3 DEF RecordFile
  <2>3. \A f \in disk.files : Recoverable(f, ram'.inst)
    BY <1>3, <2>1 DEF RecordFile
  <2>4. CASE disk' = ram' /\ pc' = "install"
    BY <1>3, <2>1, <2>2, <2>3, <2>4 DEF RecordFile
  <2>5. CASE disk' = disk /\ Fail
    BY <1>3, <2>1, <2>2, <2>3, <2>5 DEF RecordFile, Fail
  <2> QED BY <1>3, <2>4, <2>5 DEF RecordFile
<1>4. CASE ValidateFiles
  <2>1. CASE disk' = As("validating") /\ pc' = "open"
    <3>1. /\ disk'.status = "validating" /\ disk'.files = disk.files
          /\ disk'.inst = disk.inst
      BY <1>4, <2>1, AsType, StatusNames DEF ValidateFiles
    <3> QED BY <1>4, <2>1, <3>1 DEF ValidateFiles
  <2>2. CASE UNCHANGED disk /\ Fail
    <3>1. ram'.files = ram.files /\ ram'.inst = ram.inst
      BY <1>4, <2>2, AsType, StatusNames DEF ValidateFiles, Save, Fail
    <3> QED BY <1>4, <2>2, <3>1 DEF ValidateFiles, Fail
  <2> QED BY <1>4, <2>1, <2>2 DEF ValidateFiles, Save
<1> QED BY <1>1, <1>2, <1>3, <1>4

\* A rollback brings one file back after the other and disturbs none it has left.
LEMMA RollbackRecovers ==
  ASSUME KeepInv, Sound, reload # "failed", BeginRollback \/ UndoNext
  PROVE  Sound'
<1> USE DEF KeepInv, Sound, Control, Prepared, Resumes, Progress, Recoverable,
           ValidatedIsInstalled, Active, Installing, Staged, dirs
<1>0. /\ ram.files \subseteq Files /\ disk.files \subseteq Files /\ undo \subseteq Files
  BY DEF TypeOK, Plan
<1>1. CASE BeginRollback
  <2>1. CASE ram' = As("rolling_back") /\ disk' = ram' /\ pc' = "undo" /\ undo' = ram.files
    <3>1. /\ disk'.status = "rolling_back" /\ disk'.files = ram.files
          /\ ram'.inst = ram.inst /\ ram'.files = ram.files
      BY <2>1, AsType, StatusNames
    <3> QED BY <1>1, <2>1, <3>1 DEF BeginRollback
  <2>2. CASE pc' = "aborted" /\ disk' \in {disk, StartupFailed(disk)}
    <3>1. /\ disk'.files = disk.files /\ disk'.inst = disk.inst
          /\ disk'.status \in {disk.status, "rollback_pending"}
      BY <2>2, FailedType
    <3> QED BY <1>1, <2>2, <3>1 DEF BeginRollback
  <2> QED BY <1>1, <2>1, <2>2 DEF BeginRollback, Save
<1>2. CASE UndoNext
  <2>1. CASE pc' # "undo"
    <3>1. disk'.status \in {"rolling_back", "rolled_back", "rollback_pending"}
      BY <1>2, AsType, StatusNames DEF UndoNext, Save
    <3>2. pc' \in {"open", "aborted"}
      BY <1>2, <2>1 DEF UndoNext
    <3> QED BY <1>2, <3>1, <3>2 DEF UndoNext
  <2>2. CASE pc' = "undo"
    <3>1. UNCHANGED <<disk, ram, pc, pay, before, caller, gen, reload>>
      BY <1>2, <2>2 DEF UndoNext
    <3>2. PICK f \in undo : UndoFile(f)
      BY <1>2, <2>2 DEF UndoNext
    <3>3. \A g \in disk.files : g # f =>
            live'[g] = live[g] /\ prev'[g] = prev[g] /\ (g \in undo' <=> g \in undo)
      BY <1>0, <3>2 DEF UndoFile, TypeOK
    <3>4. caller = "apply" /\ f \in disk.files =>
            IF f \in undo' THEN Recoverable(f, ram.inst)'
                           ELSE before[f] # NoFile => live'[f] = before[f]
      BY <1>0, <1>2, <3>1, <3>2 DEF UndoFile, UndoNext, TypeOK
    <3>5. Progress'
      BY <1>2, <3>1, <3>3, <3>4 DEF UndoNext
    <3> QED BY <1>2, <3>1, <3>5 DEF UndoNext
  <2> QED BY <2>1, <2>2
<1> QED BY <1>1, <1>2

\* A runtime leaves the files of an installed restore alone.
LEMMA RuntimeRecovers ==
  ASSUME KeepInv, Sound, reload # "failed", StartupFails \/ StartupWaits \/ Publish
  PROVE  Sound'
<1> USE DEF KeepInv, Sound, Control, Prepared, Resumes, Progress, Recoverable,
           ValidatedIsInstalled, Active, Installing, Staged, dirs
<1>0. disk.files \subseteq Files /\ gen # NoFile
  BY GenFacts DEF TypeOK, Plan
<1>1. ASSUME NEW made \in SUBSET {f \in Files : live[f] = NoFile}
      PROVE  \A f \in Files : live[f] # NoFile => Created(made)[f] = live[f]
  BY DEF Created
<1>2. CASE StartupFails
  <2>1. /\ disk'.files = disk.files /\ disk'.inst = disk.inst
        /\ disk'.status \in {disk.status, "rollback_pending"}
    BY <1>2, FailedType DEF StartupFails
  <2>2. Active \/ disk.status = "succeeded" => \A f \in disk.files : live'[f] = live[f]
    BY <1>0, <1>1, <1>2 DEF StartupFails
  <2> QED BY <1>2, <2>1, <2>2 DEF StartupFails
<1>3. CASE StartupWaits
  BY <1>3 DEF StartupWaits
<1>4. CASE Publish
  <2>1. Active \/ disk.status = "succeeded" => \A f \in disk.files : live'[f] = live[f]
    BY <1>0, <1>1, <1>4 DEF Publish
  <2>2. CASE UNCHANGED <<disk, pay, prev>>
    BY <1>4, <2>1, <2>2 DEF Publish
  <2>3. CASE Confirmable(disk.status) /\ disk' = [disk EXCEPT !.status = "succeeded"]
    <3>1. disk'.status = "succeeded" /\ disk'.files = disk.files
      BY <2>3, StatusType, StatusNames DEF TypeOK
    <3> QED BY <1>4, <2>1, <2>3, <3>1 DEF Publish, Confirmable
  <2> QED BY <1>4, <2>2, <2>3 DEF Publish
<1> QED BY <1>2, <1>3, <1>4

\* Every step keeps the plan recoverable.
LEMMA StepRecovers == RecoverInv /\ [Next]_vars => RecoverInv'
<1> SUFFICES ASSUME RecoverInv, [Next]_vars PROVE RecoverInv'
  OBVIOUS
<1>1. KeepInv'
  BY StepKeeps DEF RecoverInv
<1>2. Recovers'
  <2>1. CASE UNCHANGED vars
    BY <2>1 DEF vars, RecoverInv, Recovers, Sound, Prepared, Resumes, Progress, Recoverable,
       ValidatedIsInstalled, Active, Installing, Staged
  <2>2. CASE StageRestore \/ CancelRestore \/ Reload \/ ReloadFails \/ Stop \/ Crash \/ Start
    BY <2>2, RequestRecovers
  <2>3. CASE Apply \/ StartupFails \/ StartupWaits \/ Publish
    <3>1. reload' = reload
      BY <2>3 DEF Apply, ReadPlan, MigrateLegacy, PrepareApply, InstallNext, PlaceFile,
         RecordFile, ValidateFiles, BeginRollback, UndoNext, StartupFails, StartupWaits, Publish
    <3> QED BY <2>3, <3>1, PrepareRecovers, InstallRecovers, RollbackRecovers, RuntimeRecovers
            DEF Apply, RecoverInv, Recovers
  <2> QED BY <2>1, <2>2, <2>3 DEF Next
<1> QED BY <1>1, <1>2 DEF RecoverInv

\* A restore of any number of files that is validated or confirmed has replaced every
\* planned file by its payload, wherever the apply was interrupted, unless a failed
\* reload staged it a second time (apply_pending_restores).
THEOREM ValidatedAlwaysInstalled == Spec => []ValidatedIsInstalled
<1>1. RecoverInv => ValidatedIsInstalled
  BY DEF RecoverInv, Recovers, Sound, ValidatedIsInstalled
<1> QED BY RecoverInit, StepRecovers, <1>1, PTL DEF Spec

\* An apply of any number of files that fails and is rolled back at once brings back
\* every file that was there, unrecorded renames included (rollback_restore_files).
THEOREM FailedApplyAlwaysRestores == Spec => FailedApplyRestores
<1>1. ASSUME RecoverInv, [Next]_vars
      PROVE  [pc = "undo" /\ caller = "apply" /\ reload # "failed"
                 /\ disk'.status = "rolled_back" =>
                \A f \in disk.files : before[f] # NoFile => live'[f] = before[f]]_vars
  <2> SUFFICES ASSUME pc = "undo", caller = "apply", reload # "failed", disk'.status = "rolled_back"
               PROVE  \A f \in disk.files : before[f] # NoFile => live'[f] = before[f]
    OBVIOUS
  <2>1. disk.status = "rolling_back"
    BY <1>1 DEF RecoverInv, Recovers, Sound, Progress
  <2>2. UndoNext
    <3>1. disk' # disk
      BY <2>1
    <3>2. ~ReloadFails
      <4>1. ReloadFails => disk'.status = "staged"
        BY <1>1, StatusType, StatusNames DEF ReloadFails, RecoverInv, KeepInv, TypeOK
      <4> QED BY <4>1
    <3>3. ~Crash
      BY <3>1 DEF Crash
    <3> QED BY <1>1, <3>1, <3>2, <3>3 DEF vars, Next, Apply, Outside, StageRestore, CancelRestore,
         Reload, Stop, Start, ReadPlan, MigrateLegacy, PrepareApply, InstallNext, PlaceFile,
         RecordFile, ValidateFiles, BeginRollback, StartupFails, StartupWaits, Publish
  <2>3. undo = {} /\ live' = live
    BY <2>1, <2>2, <1>1, AsType, StatusNames DEF UndoNext, Save, RecoverInv, KeepInv
  <2> QED BY <1>1, <2>3 DEF RecoverInv, Recovers, Sound, Progress
<1> QED BY RecoverInit, StepRecovers, <1>1, PTL DEF Spec, FailedApplyRestores

=============================================================================
