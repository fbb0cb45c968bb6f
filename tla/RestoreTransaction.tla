------------------------- MODULE RestoreTransaction -------------------------
(***************************************************************************)
(* The restore of a backup: a plan that is staged while the plugin runs    *)
(* and applied at its next start, before a database is opened.             *)
(*                                                                         *)
(* The plan is one JSON file that is replaced atomically.  A data file is  *)
(* installed by two renames, live to previous and payload to live, and     *)
(* then recorded in the plan.  Nothing joins these writes: a crash or an   *)
(* error of the file system may fall between any two of them, and the next *)
(* start continues from what is on disk.  A failed apply is rolled back    *)
(* file by file, and a restored runtime that does not come up is rolled    *)
(* back at the start after it.                                             *)
(***************************************************************************)
EXTENDS Integers

CONSTANTS
  N,          \* restorable files; the first is memora.db
  MaxStages,  \* bound: restores that are staged
  MaxFaults,  \* bound: crashes and errors of the file system
  HotReload   \* the host offers to reload the plugin

ASSUME RestoreAssumption ==
  /\ N \in Nat \ {0} /\ MaxStages \in Nat /\ MaxFaults \in Nat /\ HotReload \in BOOLEAN

Files == 1..N

\* Contents of a file, by generation: Fresh files are created by a runtime that
\* finds none, restored contents are numbered from Legacy on.
NoFile == 0
Old    == 1
Fresh  == 2
Legacy == 3
Gens   == 0 .. Legacy + MaxStages

VARIABLES
  disk,    \* restore_plan.json: status, the planned files, those installed
  ram,     \* the plan object apply_pending_restores works on
  live,    \* the files of the data directory
  prev,    \* the previous directory of the plan
  pay,     \* the payload directory of the plan
  legacy,  \* *.restore files of older versions
  before,  \* live files at the moment the plan began to apply (history)
  pc,      \* where the plugin is
  cur,     \* the file being installed
  undo,    \* files a rollback has not yet visited
  caller,  \* who rolls back: a failed apply, or a start that an earlier one left it to
  reload,  \* a hot reload is scheduled, executed by the host, or was reported as failed
  gen,     \* generation of the last payload
  faults   \* faults so far

vars == <<disk, ram, live, prev, pay, legacy, before, pc, cur, undo, caller, reload,
          gen, faults>>
dirs == <<live, prev, pay>>

Blocking == {"staged", "reload_scheduled", "applying", "validating",
             "rollback_pending", "rolling_back"}
Statuses == Blocking \cup
            {"none", "succeeded", "failed_before_apply", "rolled_back", "cancelled"}
Plan == [status: Statuses, files: SUBSET Files, inst: SUBSET Files]

\* The plugin outside apply_pending_restores; the requests of the dashboard are
\* served there and wait for the operation lock elsewhere.
Outside == {"idle", "open", "waiting", "runtime", "aborted"}
Applying == {"migrate", "prepare", "install", "place", "record", "undo0", "undo"}

Empty == [f \in Files |-> NoFile]

Fault == faults < MaxFaults /\ faults' = faults + 1

\* _write_plan: the object in memory gets a status and reaches the disk.
Save(plan)   == ram' = plan /\ disk' = plan
As(status)   == [ram EXCEPT !.status = status]

\* mark_restore_startup_failure_if_needed: an installed restore is to be rolled back.
StartupFailed(plan) ==
  IF plan.status = "validating" THEN [plan EXCEPT !.status = "rollback_pending"] ELSE plan

\* An exception inside the try of apply_pending_restores: roll back.
Fail == pc' = "undo0" /\ caller' = "apply"

-----------------------------------------------------------------------------
(* Requests *)

\* restore_backup and stage_restore: the payload is copied first and the plan is
\* written last.  The reload is scheduled, or the operator is asked to restart.
StageRestore ==
  /\ pc \in Outside /\ disk.status \notin Blocking /\ reload \in {"no", "failed"}
  /\ gen < Legacy + MaxStages /\ gen' = gen + 1
  /\ \E fs \in SUBSET Files, hot \in BOOLEAN :
       /\ 1 \in fs /\ (hot => HotReload)
       /\ disk' = [status |-> IF hot THEN "reload_scheduled" ELSE "staged",
                   files |-> fs, inst |-> {}]
       /\ pay' = [f \in Files |-> IF f \in fs THEN gen + 1 ELSE NoFile]
       /\ reload' = IF hot THEN "scheduled" ELSE "no"
  /\ prev' = Empty
  /\ UNCHANGED <<ram, live, legacy, before, pc, cur, undo, caller, faults>>

\* cancel_restore
CancelRestore ==
  /\ pc \in Outside /\ disk.status = "staged"
  /\ disk' = [disk EXCEPT !.status = "cancelled"]
  /\ pay' = Empty /\ prev' = Empty
  /\ UNCHANGED <<ram, live, legacy, before, pc, cur, undo, caller, reload, gen, faults>>

\* A task that waits for its reload ends with the process; a failure that was
\* reported stays in the reason code of the plan.
Forgotten == IF reload = "failed" THEN "failed" ELSE "no"

\* run_scheduled_plugin_reload: the host stops this instance.
Reload ==
  /\ pc \in Outside /\ reload = "scheduled"
  /\ pc' = "down" /\ reload' = "executing"
  /\ UNCHANGED <<disk, ram, dirs, legacy, before, cur, undo, caller, gen, faults>>

\* mark_reload_scheduled(FALSE): the host could not load the new instance.  Its answer
\* comes to a task of the old one, at any moment of what the new instance has begun.
ReloadFails ==
  /\ reload = "executing"
  /\ disk' = [disk EXCEPT !.status = "staged"]
  /\ reload' = "failed"
  /\ UNCHANGED <<ram, dirs, legacy, before, pc, cur, undo, caller, gen, faults>>

\* The host terminates the plugin; a cancelled apply is awaited to its end.
Stop ==
  /\ pc \in Outside
  /\ pc' = "down" /\ reload' = Forgotten
  /\ UNCHANGED <<disk, ram, dirs, legacy, before, cur, undo, caller, gen, faults>>

Crash ==
  /\ pc # "down" /\ Fault
  /\ pc' = "down" /\ reload' = Forgotten
  /\ UNCHANGED <<disk, ram, dirs, legacy, before, cur, undo, caller, gen>>

-----------------------------------------------------------------------------
(* apply_pending_restores *)

\* A new instance begins its startup, which its constructor starts; the answer of the
\* reload it belongs to may still be open.
Start ==
  /\ pc = "down"
  /\ pc' = "idle" /\ reload' \in {reload, Forgotten}
  /\ UNCHANGED <<disk, ram, dirs, legacy, before, cur, undo, caller, gen, faults>>

\* Faulty variant of Resumable: only a complete apply is taken up again.
ResumableComplete == {"validating"}

\* A plan in one of these is continued, whichever step was interrupted.
Resumable == {"applying", "validating"}

\* The plan on disk decides how the start continues.
ReadPlan ==
  /\ pc = "idle"
  /\ ram' = disk
  /\ \/ /\ disk.status = "none" /\ legacy # {}
        /\ pc' = "migrate" /\ pay' = Empty /\ prev' = Empty /\ UNCHANGED caller
     \/ /\ disk.status = "rollback_pending"
        /\ pc' = "undo0" /\ caller' = "start" /\ UNCHANGED <<pay, prev>>
     \/ /\ disk.status \in {"staged", "reload_scheduled"}
        /\ pc' = "prepare" /\ UNCHANGED <<caller, pay, prev>>
     \/ /\ disk.status \in Resumable
        /\ pc' = "install" /\ UNCHANGED <<caller, pay, prev>>
     \/ /\ disk.status \notin Resumable \cup {"rollback_pending", "staged", "reload_scheduled"}
        /\ disk.status # "none" \/ legacy = {}
        /\ pc' = "open" /\ UNCHANGED <<caller, pay, prev>>
  /\ UNCHANGED <<disk, live, legacy, before, cur, undo, reload, gen, faults>>

\* _migrate_legacy_restore_files: one rename per file, the plan comes last.
MigrateLegacy ==
  /\ pc = "migrate"
  /\ \/ /\ \E f \in legacy :
             /\ pay' = [pay EXCEPT ![f] = Legacy]
             /\ legacy' = legacy \ {f}
        /\ UNCHANGED <<disk, ram, pc, faults>>
     \/ /\ legacy = {}
        /\ Save([status |-> "staged", files |-> {f \in Files : pay[f] # NoFile},
                 inst |-> {}])
        /\ pc' = "prepare" /\ UNCHANGED <<pay, legacy, faults>>
     \/ /\ Fault /\ pc' = "aborted" /\ UNCHANGED <<disk, ram, pay, legacy>>
  /\ UNCHANGED <<live, prev, before, cur, undo, caller, reload, gen>>

\* create_pre_restore_backup, then the status applying.
PrepareApply ==
  /\ pc = "prepare"
  /\ \/ /\ Save(As("applying")) /\ before' = live
        /\ pc' = "install" /\ UNCHANGED faults
     \/ /\ Fault /\ Save(As("failed_before_apply"))
        /\ pc' = "open" /\ UNCHANGED before
     \/ /\ Fault /\ pc' = "aborted" /\ UNCHANGED <<disk, ram, before>>
  /\ UNCHANGED <<dirs, legacy, cur, undo, caller, reload, gen>>

\* Faulty variant of InstallFile: the payload is not looked for first.
InstallBlindly(f) ==
  /\ live' = [live EXCEPT ![f] = NoFile]
  /\ prev' = IF live[f] # NoFile THEN [prev EXCEPT ![f] = live[f]] ELSE prev
  /\ cur' = f /\ pc' = "place" /\ UNCHANGED <<caller, faults>>

\* _install_restore_file: the payload must be there; the live file moves away.
InstallFile(f) ==
  \/ /\ pay[f] # NoFile
     /\ live' = [live EXCEPT ![f] = NoFile]
     /\ prev' = IF live[f] # NoFile THEN [prev EXCEPT ![f] = live[f]] ELSE prev
     /\ cur' = f /\ pc' = "place" /\ UNCHANGED <<caller, faults>>
  \/ /\ pay[f] = NoFile /\ Fail /\ UNCHANGED <<live, prev, cur, faults>>
  \/ /\ Fault /\ Fail /\ UNCHANGED <<live, prev, cur>>

\* The loop over the plan: its first file that is not recorded as installed.
InstallNext ==
  /\ pc = "install"
  /\ \E f \in ram.files \ ram.inst :
       /\ \A g \in ram.files \ ram.inst : f <= g
       /\ InstallFile(f)
  /\ UNCHANGED <<disk, ram, pay, legacy, before, undo, reload, gen>>

\* _install_restore_file: the payload becomes the live file.
PlaceFile ==
  /\ pc = "place"
  /\ \/ /\ live' = [live EXCEPT ![cur] = pay[cur]]
        /\ pay' = [pay EXCEPT ![cur] = NoFile]
        /\ pc' = "record" /\ UNCHANGED <<caller, faults>>
     \/ Fault /\ Fail /\ UNCHANGED <<live, pay>>
  /\ UNCHANGED <<disk, ram, prev, legacy, before, cur, undo, reload, gen>>

\* The progress is recorded in memory and then on disk.
RecordFile ==
  /\ pc = "record"
  /\ ram' = [ram EXCEPT !.inst = @ \cup {cur}]
  /\ \/ disk' = ram' /\ pc' = "install" /\ UNCHANGED <<caller, faults>>
     \/ Fault /\ Fail /\ UNCHANGED disk
  /\ UNCHANGED <<dirs, legacy, before, cur, undo, reload, gen>>

\* validate_restored_files: every planned file is there.
FilesPresent == \A f \in ram.files : live[f] # NoFile

\* The loop is done; a missing file is refused, any other verdict of the validation
\* depends on the contents.
ValidateFiles ==
  /\ pc = "install" /\ ram.files \subseteq ram.inst
  /\ \/ /\ FilesPresent
        /\ Save(As("validating"))
        /\ pc' = "open" /\ UNCHANGED <<caller, faults>>
     \/ Fail /\ UNCHANGED <<disk, ram, faults>>
     \/ Fault /\ Fail /\ ram' = As("validating") /\ UNCHANGED disk
  /\ UNCHANGED <<dirs, legacy, before, cur, undo, reload, gen>>

-----------------------------------------------------------------------------
(* rollback_restore_files *)

\* Faulty variant of BeginRollback: the positions are counted from zero.
BeginRollbackByIndex ==
  /\ pc = "undo0"
  /\ Save(As("rolling_back")) /\ undo' = {f - 1 : f \in ram.files}
  /\ pc' = "undo"
  /\ UNCHANGED <<dirs, legacy, before, cur, caller, reload, gen, faults>>

\* The status goes first; when that write fails the start is aborted and the handler
\* of _initialize_plugin tries to leave the rollback to the next start.
BeginRollback ==
  /\ pc = "undo0"
  /\ \/ /\ Save(As("rolling_back")) /\ undo' = ram.files
        /\ pc' = "undo" /\ UNCHANGED faults
     \/ /\ Fault /\ pc' = "aborted" /\ UNCHANGED <<ram, undo>>
        /\ disk' \in {disk, StartupFailed(disk)}
  /\ UNCHANGED <<dirs, legacy, before, cur, caller, reload, gen>>

\* Faulty variant of UndoFile: only recorded files are taken back.
UndoRecorded(f) ==
  IF f \in ram.inst /\ prev[f] # NoFile
  THEN /\ live' = [live EXCEPT ![f] = prev[f]] /\ prev' = [prev EXCEPT ![f] = NoFile]
       /\ undo' = undo \ {f}
  ELSE /\ live' = IF f \in ram.inst THEN [live EXCEPT ![f] = NoFile] ELSE live
       /\ undo' = undo \ {f} /\ UNCHANGED prev

\* A previous file replaces the live one, which is removed first; without one, an
\* installed file is removed.
UndoFile(f) ==
  IF prev[f] # NoFile
  THEN IF live[f] # NoFile
       THEN live' = [live EXCEPT ![f] = NoFile] /\ UNCHANGED <<prev, undo>>
       ELSE /\ live' = [live EXCEPT ![f] = prev[f]]
            /\ prev' = [prev EXCEPT ![f] = NoFile]
            /\ undo' = undo \ {f}
  ELSE /\ live' = IF f \in ram.inst THEN [live EXCEPT ![f] = NoFile] ELSE live
       /\ undo' = undo \ {f} /\ UNCHANGED prev

\* The files of the plan in reverse order, then the status.  After an error the
\* rollback is left to the next start, unless the disk refuses that status too.
UndoNext ==
  /\ pc = "undo"
  /\ \/ /\ \E f \in undo : (\A g \in undo : g <= f) /\ UndoFile(f)
        /\ UNCHANGED <<disk, ram, pc, faults>>
     \/ /\ undo = {} /\ Save(As("rolled_back"))
        /\ pc' = "open" /\ UNCHANGED <<live, prev, undo, faults>>
     \/ /\ Fault /\ Save(As("rollback_pending"))
        /\ pc' = IF caller = "start" THEN "aborted" ELSE "open"
        /\ UNCHANGED <<live, prev, undo>>
     \/ Fault /\ pc' = "aborted" /\ UNCHANGED <<disk, ram, live, prev, undo>>
  /\ UNCHANGED <<pay, legacy, before, cur, caller, reload, gen>>

-----------------------------------------------------------------------------
(* The runtime opens the databases *)

\* Databases that are missing are created.
Created(made) == [f \in Files |-> IF f \in made THEN Fresh ELSE live[f]]

\* _initialize_plugin fails; an installed restore is marked for rollback.
StartupFails ==
  /\ pc = "open"
  /\ \E made \in SUBSET {f \in Files : live[f] = NoFile} : live' = Created(made)
  /\ disk' = StartupFailed(disk)
  /\ pc' = "aborted"
  /\ UNCHANGED <<ram, prev, pay, legacy, before, cur, undo, caller, reload, gen, faults>>

\* The provider is not there yet; a background task will publish the runtime.
StartupWaits ==
  /\ pc = "open" /\ pc' = "waiting"
  /\ UNCHANGED <<disk, ram, dirs, legacy, before, cur, undo, caller, reload, gen, faults>>

\* Faulty variant of Confirmable: the status of the plan is not looked at.
ConfirmableAlways(status) == status # "none"

\* _restore_confirmation_pending: only an installed restore waits for its runtime.
Confirmable(status) == status = "validating"

\* _ensure_runtime_components: the runtime is published; an installed restore is
\* confirmed if the publish gate agrees, and its directories are removed.
Publish ==
  /\ pc \in {"open", "waiting"}
  /\ \E made \in SUBSET {f \in Files : live[f] = NoFile} : live' = Created(made)
  /\ pc' = "runtime"
  /\ \/ /\ Confirmable(disk.status)
        /\ disk' = [disk EXCEPT !.status = "succeeded"]
        /\ pay' = Empty /\ prev' = Empty
     \/ UNCHANGED <<disk, pay, prev>>
  /\ UNCHANGED <<ram, legacy, before, cur, undo, caller, reload, gen, faults>>

-----------------------------------------------------------------------------
NoPlan == [status |-> "none", files |-> {}, inst |-> {}]

Init ==
  /\ live \in [Files -> {NoFile, Old}] /\ legacy \in SUBSET Files
  /\ disk = NoPlan /\ ram = NoPlan
  /\ prev = Empty /\ pay = Empty /\ before = Empty
  /\ pc = "down" /\ cur = 1 /\ undo = {} /\ caller = "apply"
  /\ reload = "no" /\ gen = Legacy /\ faults = 0

Apply ==
  \/ ReadPlan \/ MigrateLegacy \/ PrepareApply \/ InstallNext \/ PlaceFile
  \/ RecordFile \/ ValidateFiles \/ BeginRollback \/ UndoNext

Next ==
  \/ StageRestore \/ CancelRestore \/ Reload \/ ReloadFails \/ Stop \/ Crash
  \/ Start \/ Apply \/ StartupFails \/ StartupWaits \/ Publish

Spec == Init /\ [][Next]_vars

\* A plugin that is down is started, not every start is stopped before its startup
\* has run, and one whose start failed is restarted by the operator.
FairSpec ==
  /\ Spec
  /\ SF_vars(Apply) /\ WF_vars(Start) /\ WF_vars(pc = "aborted" /\ Stop)

-----------------------------------------------------------------------------
(* Properties *)

\* Type correctness.
TypeOK ==
  /\ disk \in Plan /\ ram \in Plan
  /\ live \in [Files -> Gens] /\ prev \in [Files -> Gens] /\ pay \in [Files -> Gens]
  /\ before \in [Files -> Gens] /\ legacy \subseteq Files
  /\ pc \in Outside \cup Applying \cup {"down"} /\ cur \in Files /\ undo \subseteq Files
  /\ caller \in {"apply", "start"} /\ reload \in {"no", "scheduled", "executing", "failed"}
  /\ gen \in Legacy..(Legacy + MaxStages) /\ faults \in 0..MaxFaults

\* While a restore is being applied and until it is confirmed, what each planned file
\* held before is still in the data or the previous directory, wherever crashes and
\* errors fall and however often the apply is resumed (_install_restore_file).
\* "Before" is when the plan began to apply, anew if a failed reload has staged it
\* again.  Nothing is said of rollback_pending and rolling_back, where a repeated
\* rollback deletes originals (RollbackKeepsOriginals).
OriginalsKept ==
  disk.status \in {"applying", "validating"} =>
    \A f \in disk.files : before[f] # NoFile => before[f] \in {live[f], prev[f]}

\* A restore that is validated or confirmed has replaced every planned file by the
\* payload that was staged for it, unless a failed reload staged it a second time
\* (apply_pending_restores).
ValidatedIsInstalled ==
  disk.status \in {"validating", "succeeded"} /\ reload # "failed" =>
    \A f \in disk.files : live[f] = gen

\* An apply that fails brings back every file that was there, those it had moved
\* away without recording it included (rollback_restore_files).
FailedApplyRestores ==
  [][pc = "undo" /\ caller = "apply" /\ reload # "failed" /\ disk'.status = "rolled_back" =>
       \A f \in disk.files : before[f] # NoFile => live'[f] = before[f]]_vars

\* An apply that was interrupted is resumed: it is validated or rolled back.
InterruptedApplyResumes ==
  disk.status = "applying" ~> disk.status # "applying"

\* The live file stays available for the rollback until the rollback is done
\* (_install_restore_file).
RollbackKeepsOriginals ==
  [][disk'.status = "rolled_back" /\ disk.status = "rolling_back" =>
       \A f \in disk.files : before[f] # NoFile => live'[f] = before[f]]_vars

=============================================================================
