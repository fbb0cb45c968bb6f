---------------------------- MODULE UpdateInstall ----------------------------
(***************************************************************************)
(* The self-update: a running plugin downloads a newer runtime, renames    *)
(* its own directory away, renames the new one into place and asks the     *)
(* host to reload it.  A reload that fails brings the old directory back.  *)
(* The progress of the latest operation is kept in install-state.json,     *)
(* which refuses a second operation while the first one is active and is   *)
(* brought up to date by whichever version of the plugin is loaded next.   *)
(* The host may load the plugin at any moment, inside the reload included, *)
(* writes and renames may fail, and the process may stop between any two.  *)
(*                                                                         *)
(* A directory is the version it holds.  The candidate directory exists    *)
(* from Prepare to Place and nothing looks for one that was left behind,   *)
(* so the step of its operation stands for it.                             *)
(***************************************************************************)
EXTENDS Integers

CONSTANTS
  MaxOps,      \* bound: operations
  MaxVersion,  \* bound: versions ever released
  MaxFaults    \* bound: failed reads, writes and renames, cancelled reloads and crashes

ASSUME UpdateAssumption ==
  MaxOps \in Nat /\ MaxVersion \in Nat \ {0} /\ MaxFaults \in Nat

Ops == 1..MaxOps
Versions == 1..MaxVersion
None == 0
Tree == {None} \cup Versions

VARIABLES
  root,     \* the plugin directory
  backup,   \* .rollback-<operation>: the directory an operation has moved away
  failed,   \* .failed-<operation>: a directory that could not be loaded
  mem,      \* the state dictionary each operation carries
  file,     \* install-state.json
  task,     \* next step of each operation
  lock,     \* the operation that holds _apply_lock of the loaded instance, or 0
  running,  \* the version that is loaded, None if the plugin is not
  faults,   \* faults so far
  overlap   \* "yes" once an operation began before another had ended (history)

vars == <<root, backup, failed, mem, file, task, lock, running, faults, overlap>>
trees == <<root, backup, failed>>

\* rollback: rollback_performed.
File == [op: Ops, status: {"preparing", "reload_scheduled", "rolling_back", "succeeded",
                           "rolled_back", "cancelled", "failed"},
         version: Tree, previous: Tree, rollback: {"yes", "no"}]
NoFile == [op |-> 0, status |-> "none", version |-> None, previous |-> None,
           rollback |-> "no"]
\* base: current_version of the update manager; version: "" until the download.
Mem == [base: Tree, version: Tree, previous: Tree]

Installing == {"download", "prepare", "move_away", "place", "put_back", "failing",
               "schedule"}
Steps == Installing \cup {"idle", "wake", "reload", "loaded", "unloaded", "cleanup",
                          "restore", "restore_back", "give_up", "reload_old", "finish_back",
                          "ended"}
AtRest == {"idle", "ended"}
ActiveStatuses == {"preparing", "reload_scheduled", "rolling_back"}

Init ==
  /\ root = 1 /\ running = 1
  /\ backup = [k \in Ops |-> None] /\ failed = [k \in Ops |-> None]
  /\ mem = [k \in Ops |-> [base |-> None, version |-> None, previous |-> None]]
  /\ file = NoFile /\ task = [k \in Ops |-> "idle"]
  /\ lock = 0 /\ faults = 0 /\ overlap = "no"

Fault == faults < MaxFaults /\ faults' = faults + 1
NoFault == UNCHANGED faults

Step(k, step) == task' = [task EXCEPT ![k] = step]
\* The call of apply_latest returns or raises.
Release(k) == lock' = IF lock = k THEN 0 ELSE lock

\* _write_state of the dictionary m of operation k.
Written(k, status, m, rollback) ==
  [op |-> k, status |-> status, version |-> m.version, previous |-> m.previous,
   rollback |-> rollback]
Write(k, status, m, rollback) ==
  file' = Written(k, status, m, rollback) /\ NoFault
WriteFails == Fault /\ UNCHANGED file
\* The last write of an operation: nothing follows, whether it succeeds or not.
Finish(k, status, rollback) ==
  Write(k, status, mem[k], rollback) \/ WriteFails

-----------------------------------------------------------------------------
(***************************************************************************)
(* apply_latest: from the request to the directory switch.                 *)
(***************************************************************************)

\* _ACTIVE_STATUSES refuses; a state file that cannot be read refuses nothing.
MayBegin ==
  \/ file.status \notin ActiveStatuses /\ NoFault
  \/ file.status \in ActiveStatuses /\ Fault

\* A failed first write ends the call with nothing done.
Begin(k) ==
  /\ task[k] = "idle" /\ \A j \in 1..(k - 1) : task[j] # "idle"
  /\ running # None /\ lock = 0 /\ root # None /\ MayBegin
  /\ mem' = [mem EXCEPT ![k] = [base |-> running, version |-> None, previous |-> root]]
  /\ file' = Written(k, "preparing", mem'[k], "no")
  /\ overlap' = IF \A j \in Ops : task[j] \in AtRest THEN overlap ELSE "yes"
  /\ Step(k, "download") /\ lock' = k /\ UNCHANGED <<trees, running>>

\* The manager offers only what is newer than the version it runs in.
Download(k, v) ==
  /\ task[k] = "download" /\ v > mem[k].base
  /\ mem' = [mem EXCEPT ![k].version = v]
  /\ Write(k, "preparing", mem'[k], "no")
  /\ Step(k, "prepare") /\ UNCHANGED <<trees, lock, running, overlap>>

\* _prepare_candidate and _ensure_requirements.
Prepare(k) ==
  /\ task[k] = "prepare" /\ Step(k, "move_away")
  /\ UNCHANGED <<trees, mem, file, lock, running, faults, overlap>>

\* No newer release, a bad archive, a missing dependency, a failed write of the version
\* or a cancellation; the handler removes the candidate and writes the end.
PrepareFails(k, status) ==
  /\ task[k] \in {"download", "prepare"} /\ Finish(k, status, "no")
  /\ Step(k, "ended") /\ Release(k) /\ UNCHANGED <<trees, mem, running, overlap>>

\* _switch_runtime, first rename.
MoveAwayDeleted(k) ==
  /\ task[k] = "move_away" /\ root # None /\ root' = None
  /\ UNCHANGED <<backup, failed>> /\ Step(k, "place")
  /\ NoFault /\ UNCHANGED <<mem, file, lock, running, overlap>>
MoveAway(k) ==
  /\ task[k] = "move_away"
  /\ \/ /\ root # None /\ root' = None /\ backup' = [backup EXCEPT ![k] = root]
        /\ Step(k, "place") /\ NoFault
     \/ /\ (root = None /\ NoFault) \/ (root # None /\ Fault)
        /\ Step(k, "failing") /\ UNCHANGED <<root, backup>>
  /\ UNCHANGED <<failed, mem, file, lock, running, overlap>>

\* _switch_runtime, second rename: it fails on a directory that exists.
Place(k) ==
  /\ task[k] = "place"
  /\ \/ root = None /\ root' = mem[k].version /\ Step(k, "schedule") /\ NoFault
     \/ /\ (root # None /\ NoFault) \/ (root = None /\ Fault)
        /\ Step(k, "put_back") /\ UNCHANGED root
  /\ UNCHANGED <<backup, failed, mem, file, lock, running, overlap>>

PutBack(k) ==
  /\ task[k] = "put_back" /\ Step(k, "failing")
  /\ \/ /\ root = None /\ root' = backup[k] /\ backup' = [backup EXCEPT ![k] = None]
        /\ NoFault
     \/ /\ (root # None /\ NoFault) \/ (root = None /\ Fault)
        /\ UNCHANGED <<root, backup>>
  /\ UNCHANGED <<failed, mem, file, lock, running, overlap>>

SwitchFailedOpen(k) ==
  /\ task[k] = "failing" /\ Step(k, "ended") /\ Release(k)
  /\ NoFault /\ UNCHANGED <<trees, mem, file, running, overlap>>
SwitchFailed(k) ==
  /\ task[k] = "failing" /\ Finish(k, "failed", "no")
  /\ Step(k, "ended") /\ Release(k) /\ UNCHANGED <<trees, mem, running, overlap>>

\* The reload task is created only after the state was written.
ScheduleLocked(k) ==
  /\ task[k] = "schedule" /\ Write(k, "reload_scheduled", mem[k], "no")
  /\ Step(k, "wake") /\ UNCHANGED <<trees, mem, lock, running, overlap>>
Schedule(k) ==
  /\ task[k] = "schedule"
  /\ \/ Write(k, "reload_scheduled", mem[k], "no") /\ Step(k, "wake")
     \/ WriteFails /\ Step(k, "ended")
  /\ Release(k) /\ UNCHANGED <<trees, mem, running, overlap>>

-----------------------------------------------------------------------------
(***************************************************************************)
(* Loading the plugin: by the reload of an operation, by the host's start  *)
(* or on a user's request.                                                 *)
(***************************************************************************)

\* _reconcile_loaded_runtime: what the new instance makes of the state file.
ReconciledAlways ==
  CASE file.status = "reload_scheduled" -> [file EXCEPT !.status = "succeeded"]
    [] file.status = "rolling_back" ->
         [file EXCEPT !.status = "rolled_back", !.rollback = "yes"]
    [] OTHER -> file
Reconciled ==
  CASE file.status = "reload_scheduled" /\ root = file.version ->
         [file EXCEPT !.status = "succeeded"]
    [] file.status = "rolling_back" /\ root = file.previous ->
         [file EXCEPT !.status = "rolled_back", !.rollback = "yes"]
    [] OTHER -> file

\* The constructor runs; it fails if it cannot write the state file, but leaves the file
\* as it is if it cannot read it, or the version of the plugin directory.
Constructed ==
  /\ root # None /\ running' = root /\ lock' = 0
  /\ \/ file' = Reconciled /\ NoFault
     \/ Reconciled # file /\ UNCHANGED file /\ Fault
NotLoaded ==
  running' = None /\ UNCHANGED <<lock, file, faults>>
WriteFailsInLoad ==
  /\ root # None /\ Reconciled # file /\ running' = None /\ Fault
  /\ UNCHANGED <<lock, file>>

HostLoad ==
  /\ Constructed \/ NotLoaded \/ WriteFailsInLoad
  /\ UNCHANGED <<trees, mem, task, overlap>>

-----------------------------------------------------------------------------
(***************************************************************************)
(* _reload_and_finalize.                                                   *)
(***************************************************************************)

\* The delay is over: the host ends the running instance.
Wake(k) ==
  /\ task[k] = "wake" /\ Step(k, "reload") /\ running' = None
  /\ UNCHANGED <<trees, mem, file, lock, faults, overlap>>

LoadNewKeepless(k) ==
  /\ task[k] = "reload" /\ Constructed /\ Step(k, "loaded")
  /\ backup' = [backup EXCEPT ![k] = None]
  /\ UNCHANGED <<root, failed, mem, overlap>>
LoadNew(k) ==
  /\ task[k] = "reload"
  /\ \/ Constructed /\ Step(k, "loaded")
     \/ (NotLoaded \/ WriteFailsInLoad) /\ Step(k, "unloaded")
  /\ UNCHANGED <<trees, mem, overlap>>

\* The task is cancelled in its delay or in a reload; the file stays as it is.
ReloadCancelled(k) ==
  /\ task[k] \in {"wake", "reload", "loaded", "unloaded", "reload_old"}
  /\ Fault /\ Step(k, "ended")
  /\ UNCHANGED <<trees, mem, file, lock, running, overlap>>

\* The host reports success.
Confirm(k) ==
  /\ task[k] = "loaded"
  /\ \/ Write(k, "succeeded", mem[k], "no") /\ Step(k, "cleanup")
     \/ WriteFails /\ Step(k, "ended")
  /\ UNCHANGED <<trees, mem, lock, running, overlap>>

\* _cleanup_after_success.
Cleanup(k) ==
  /\ task[k] = "cleanup" /\ Step(k, "ended")
  /\ \/ backup' = [backup EXCEPT ![k] = None] /\ NoFault
     \/ Fault /\ UNCHANGED backup
  /\ UNCHANGED <<root, failed, mem, file, lock, running, overlap>>

\* The host reports a failure, after the constructor ran or without it: the rollback
\* starts once its state is written.
Rollback(k) ==
  /\ task[k] \in {"loaded", "unloaded"} /\ running' = None
  /\ \/ Write(k, "rolling_back", mem[k], "yes") /\ Step(k, "restore")
     \/ WriteFails /\ Step(k, "ended")
  /\ UNCHANGED <<trees, mem, lock, overlap>>

\* _restore_previous_runtime, first rename, skipped if there is nothing to move.
RestoreAway(k) ==
  /\ task[k] = "restore" /\ backup[k] # None /\ Step(k, "restore_back")
  /\ root' = None
  /\ failed' = IF root = None THEN failed ELSE [failed EXCEPT ![k] = root]
  /\ UNCHANGED <<backup, mem, file, lock, running, faults, overlap>>

\* _restore_previous_runtime, second rename.
RestoreBack(k) ==
  /\ task[k] = "restore_back" /\ root = None /\ Step(k, "reload_old")
  /\ root' = backup[k] /\ backup' = [backup EXCEPT ![k] = None]
  /\ UNCHANGED <<failed, mem, file, lock, running, faults, overlap>>

\* One of the renames fails, the second one also because the directory exists again.
RestoreFails(k) ==
  /\ \/ task[k] = "restore" /\ root # None /\ Fault
     \/ task[k] = "restore_back" /\ root = None /\ Fault
     \/ task[k] = "restore_back" /\ root # None /\ NoFault
  /\ Step(k, "give_up") /\ UNCHANGED <<trees, mem, file, lock, running, overlap>>

GiveUp(k) ==
  /\ task[k] = "give_up" /\ Finish(k, "failed", "yes") /\ Step(k, "ended")
  /\ UNCHANGED <<trees, mem, lock, running, overlap>>

\* reload_failed_plugin.
LoadOld(k) ==
  /\ task[k] = "reload_old" /\ Step(k, "finish_back")
  /\ Constructed \/ NotLoaded \/ WriteFailsInLoad
  /\ UNCHANGED <<trees, mem, overlap>>

\* The failed tree goes only if the old version was loaded, and after the write.
FinishRollback(k) ==
  /\ task[k] = "finish_back" /\ Step(k, "ended")
  /\ \/ /\ Write(k, "rolled_back", mem[k], "yes")
        /\ failed' = failed \/ failed' = [failed EXCEPT ![k] = None]
     \/ WriteFails /\ UNCHANGED failed
  /\ UNCHANGED <<root, backup, mem, lock, running, overlap>>

-----------------------------------------------------------------------------

\* The process stops; directories and the state file stay.
Crash ==
  /\ Fault /\ running' = None /\ lock' = 0
  /\ task' = [k \in Ops |-> IF task[k] = "idle" THEN "idle" ELSE "ended"]
  /\ UNCHANGED <<trees, mem, file, overlap>>

Install(k) ==
  \/ Begin(k) \/ (\E v \in Versions : Download(k, v)) \/ Prepare(k)
  \/ (\E s \in {"failed", "cancelled"} : PrepareFails(k, s))
  \/ MoveAway(k) \/ Place(k) \/ PutBack(k) \/ SwitchFailed(k) \/ Schedule(k)
Finalize(k) ==
  \/ Wake(k) \/ LoadNew(k) \/ ReloadCancelled(k) \/ Confirm(k) \/ Cleanup(k)
  \/ Rollback(k) \/ RestoreAway(k) \/ RestoreBack(k) \/ RestoreFails(k) \/ GiveUp(k)
  \/ LoadOld(k) \/ FinishRollback(k)

Next == (\E k \in Ops : Install(k) \/ Finalize(k)) \/ HostLoad \/ Crash

Spec == Init /\ [][Next]_vars

-----------------------------------------------------------------------------

\* Types; and the lock of the loaded instance is held only by a call of apply_latest that
\* is still under way, so that it never refuses requests for good.
TypeOK ==
  /\ root \in Tree /\ running \in Tree
  /\ backup \in [Ops -> Tree] /\ failed \in [Ops -> Tree]
  /\ mem \in [Ops -> Mem] /\ file \in File \cup {NoFile}
  /\ task \in [Ops -> Steps] /\ lock \in {0} \cup Ops
  /\ faults \in 0..MaxFaults /\ overlap \in {"yes", "no"}
  /\ lock # 0 => task[lock] \in Installing

\* Whatever fails and whenever the process stops, between the two renames of a switch or
\* of a rollback and with operations that overlap: if there is no plugin directory, one
\* that was moved away still exists.
RuntimeNeverLost == root = None => \E k \in Ops : backup[k] # None

\* Until the host's verdict on the reload is known and while the rollback has not used it,
\* the directory an operation moved away exists, and it is the version that ran before,
\* although a new instance already reports success (_reconcile_loaded_runtime).
BackupAwaitsVerdict ==
  \A k \in Ops : task[k] \in {"schedule", "wake", "reload", "loaded", "unloaded", "restore",
                              "restore_back"} =>
    backup[k] # None /\ (overlap = "no" => backup[k] = mem[k].previous)

\* What install-state.json says of an ended operation is what is in the plugin directory,
\* as long as operations do not overlap and do not install the version that was already
\* there: written by the operation or by the next instance, before or after a crash, and
\* with any write of the file lost.
Truth ==
  /\ file.status = "succeeded" => root = file.version
  /\ file.status \in {"cancelled", "rolled_back"} => root = file.previous
  /\ file.status = "failed" /\ file.rollback = "no" => root \in {file.previous, None}
  /\ file.status = "failed" /\ file.rollback = "yes" => root \in {file.version, None}
StatusIsTrue == overlap = "no" /\ file.version # file.previous => Truth

\* Without faults an active status, which refuses every further update, belongs to an
\* operation that still runs: whichever way an operation ends it takes its status back.
ActiveHasOwner ==
  faults = 0 /\ file.status \in ActiveStatuses => task[file.op] \notin AtRest
=============================================================================
