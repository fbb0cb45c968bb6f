------------------------- MODULE ContentReplacement -------------------------
(***************************************************************************)
(* Editing the text of a memory.  An unguarded edit does not overwrite the *)
(* row: it stages a hidden row with the new text, switches the visibility  *)
(* of the two rows in one transaction, deletes the old row and reads the   *)
(* new one back for the derived work.  A ledger entry of type              *)
(* replace_content accompanies the first three steps.  Each step can fail, *)
(* the task can be cancelled and the process can end; a start repairs a    *)
(* batch of the entries left open, the oldest first, by comparing the text *)
(* of the new row with the digest in the ledger.                           *)
(*                                                                         *)
(* All rows of the module belong to one memory: row 1 is the original and  *)
(* every edit adds the row of its number plus one.  While the plugin is up *)
(* its users also forget rows and overwrite the text of a visible row by   *)
(* compare-and-set (reconsolidation, merges, the representation            *)
(* migration), at any moment of a running edit.  Edits are serialised by   *)
(* _replacement_write_lock, but an edit looks at the row before it waits   *)
(* for the lock; one waiting edit is modelled.                             *)
(***************************************************************************)
EXTENDS Integers, FiniteSets

CONSTANTS
  Texts,       \* contents; equal contents have equal digests
  MaxEdits,    \* bound: edits, each one is one ledger entry
  MaxRetries,  \* failures after which the repair leaves an entry alone
  RepairBatch, \* entries of all types that one start selects (25)
  MaxFaults    \* bound: failed writes, cancellations and crashes

ASSUME ReplacementAssumption ==
  /\ Texts # {} /\ MaxEdits \in Nat /\ MaxRetries \in Nat \ {0}
  /\ RepairBatch \in Nat \ {0} /\ MaxFaults \in Nat

Ops == 1..MaxEdits
Ids == 1..(MaxEdits + 1)

VARIABLES
  row,       \* documents: state, text and previous_id of every row
  op,        \* memory_write_ops of type replace_content
  task,      \* the edit or the repair that is running: its step, entry and rows
  waiting,   \* the row of an edit that waits for _replacement_write_lock, 0 if none
  reading,   \* the row an edit that has committed still reads back, 0 if none
  phase,     \* "up", "down", or "repair" during recover_persisted_operations
  todo,      \* entries this start has selected and not yet visited
  faults,    \* faults so far
  forgotten, \* a user has deleted the visible row (history)
  chained,   \* a row was edited while the entry that created it was open (history)
  since,     \* faults when the last start began its repair (history)
  picked     \* entries the last start selected (history)

vars == <<row, op, task, waiting, reading, phase, todo, faults,
          forgotten, chained, since, picked>>
lock    == <<waiting, reading>>
history == <<forgotten, chained, since, picked>>

\* A hidden row has the status deleted and the mark replacement_pending; a dead one has
\* that status without the mark.  An orphan is not deleted, but recall leaves it out: it
\* carries the mark summary_source_orphan.
Row == [state: {"absent", "live", "orphan", "hidden", "dead"}, text: Texts,
        prev: {0} \cup Ids]
\* old and new are row ids, 0 is a new row the ledger does not know of; shown is the
\* state a restored row gets (previous_status and replacement_status; the new row
\* inherits the mark of an orphan).
Op  == [status: {"none", "pending", "needs_repair", "completed", "failed"},
        old: {0} \cup Ids, new: {0} \cup Ids, text: Texts,
        shown: {"live", "orphan", "dead"}, retry: Nat]

EditSteps   == {"stage", "record", "publish", "delete_old", "restore_old", "delete_new"}
RepairSteps == {"commit", "purge_old", "rollback", "purge_new", "revert", "purge_gone"}
Task == [step: {"idle"} \cup EditSteps \cup RepairSteps,
         op: {0} \cup Ops, old: {0} \cup Ids, new: {0} \cup Ids]
Idle == [step |-> "idle", op |-> 0, old |-> 0, new |-> 0]

Exists(i) == row[i].state # "absent"
Recallable(i) == row[i].state = "live"
Orphan(i) == row[i].state = "orphan"
Live(i)   == Recallable(i) \/ Orphan(i)       \* not marked as deleted
Hidden(i) == row[i].state = "hidden"
Open(k)   == op[k].status \in {"pending", "needs_repair"}
Fault     == faults < MaxFaults /\ faults' = faults + 1

Init ==
  /\ \E t \in Texts :
       /\ row = [i \in Ids |-> [state |-> IF i = 1 THEN "live" ELSE "absent",
                                text |-> t, prev |-> 0]]
       /\ op = [k \in Ops |-> [status |-> "none", old |-> 0, new |-> 0, text |-> t,
                               shown |-> "live", retry |-> 0]]
  /\ task = Idle /\ waiting = 0 /\ reading = 0 /\ phase = "up" /\ todo = {} /\ faults = 0
  /\ forgotten = "no" /\ chained = "no" /\ since = 0 /\ picked = {}

-----------------------------------------------------------------------------
(***************************************************************************)
(* What an edit and a repair share.                                        *)
(***************************************************************************)

\* advance_op: an error counts as one retry.  A failure of the ledger is only logged.
AdvancedRefunded(k, status, new, errors) ==
  [op EXCEPT ![k].status = status, ![k].new = IF new = 0 THEN @ ELSE new,
             ![k].retry = @ - errors]
Advanced(k, status, new, errors) ==
  [op EXCEPT ![k].status = status, ![k].new = IF new = 0 THEN @ ELSE new,
             ![k].retry = @ + errors]
Advance(k, status, new, errors) ==
  \/ op' = Advanced(k, status, new, errors) /\ UNCHANGED faults
  \/ Fault /\ UNCHANGED op
AdvanceAfterFault(k, status, new, errors) ==
  Fault /\ op' \in {op, Advanced(k, status, new, errors)}

\* _switch_replacement_visibility: one transaction hides the loser and restores the
\* winner; a row that is gone stays gone.
CanSwitchAnyway(o, n, w, text) == w # 0
CanSwitch(o, n, w, text) ==
  /\ w # 0 /\ Exists(w)
  /\ w = n /\ Exists(o) => row[n].text = text
SwitchedWinnerOnly(o, n, w, shown) ==
  [i \in Ids |-> IF i = w /\ Hidden(i) THEN [row[i] EXCEPT !.state = shown] ELSE row[i]]
Switched(o, n, w, shown) ==
  [i \in Ids |-> IF i \notin {o, n} \/ ~Exists(i) \/ (i = w /\ ~Hidden(i)) THEN row[i]
                 ELSE [row[i] EXCEPT !.state = IF i = w THEN shown ELSE "hidden"]]

Gone(i) == [row EXCEPT ![i].state = "absent"]

Goto(step) == task' = [task EXCEPT !.step = step]

-----------------------------------------------------------------------------
(***************************************************************************)
(* MemoryEngine._replace_content.  _replacement_write_lock is held from    *)
(* the first step to the last.                                             *)
(***************************************************************************)

Editing(step) == phase = "up" /\ task.step = step
LockFree == Editing("idle") /\ reading = 0

\* The edit ends with an exception of its own: the entry is left to the repair.
AbortEdit == task' = Idle /\ AdvanceAfterFault(task.op, "needs_repair", 0, 1)

\* update_memory: a row that is marked as being replaced refuses the edit.
AskEdit(m) ==
  /\ phase = "up" /\ waiting = 0 /\ Exists(m) /\ ~Hidden(m)
  /\ waiting' = m /\ UNCHANGED <<row, op, task, reading, phase, todo, faults, history>>

\* Under the lock the row is read again and an open entry for it refuses the edit; the
\* mark is not looked at again.  Entries and rows are numbered by their tables.
MayReplaceBlindly(m) == Exists(m)
MayReplace(m) == Exists(m) /\ ~\E k \in Ops : Open(k) /\ op[k].old = m
NextOp(k) == op[k].status = "none" /\ \A j \in 1..(k - 1) : op[j].status # "none"
StartEdit(text, k) ==
  /\ LockFree /\ waiting # 0 /\ MayReplace(waiting) /\ NextOp(k)
  /\ op' = [op EXCEPT ![k] =
              [status |-> "pending", old |-> waiting, new |-> 0, text |-> text,
               shown |-> IF Live(waiting) THEN row[waiting].state ELSE "dead", retry |-> 0]]
  /\ task' = [step |-> "stage", op |-> k, old |-> waiting, new |-> k + 1]
  /\ chained' = IF \E j \in Ops : Open(j) /\ waiting = j + 1 THEN "yes" ELSE chained
  /\ waiting' = 0
  /\ UNCHANGED <<row, reading, phase, todo, faults, forgotten, since, picked>>
RefuseEdit ==
  /\ LockFree /\ waiting # 0
  /\ \/ ~MayReplace(waiting) /\ UNCHANGED faults
     \/ Fault                                   \* no ledger entry, no edit
  /\ waiting' = 0 /\ UNCHANGED <<row, op, task, reading, phase, todo, history>>

\* add_memory with replacement_pending: the new row is hidden until it is published.
StagedRow == [state |-> "hidden", text |-> op[task.op].text, prev |-> task.old]
StageNew ==
  /\ Editing("stage")
  /\ \/ row' = [row EXCEPT ![task.new] = StagedRow] /\ Goto("record")
        /\ UNCHANGED <<op, faults>>
     \/ AbortEdit /\ UNCHANGED row
  /\ UNCHANGED <<lock, phase, todo, history>>

RecordNew ==
  /\ Editing("record") /\ Goto("publish")
  /\ Advance(task.op, "pending", task.new, 0)
  /\ UNCHANGED <<row, lock, phase, todo, history>>

PublishNew ==
  /\ Editing("publish")
  /\ \/ CanSwitch(task.old, task.new, task.new, op[task.op].text)
        /\ row' = Switched(task.old, task.new, task.new, op[task.op].shown)
        /\ Goto("delete_old") /\ UNCHANGED <<op, faults>>
     \/ /\ ~CanSwitch(task.old, task.new, task.new, op[task.op].text)
        /\ task' = Idle /\ Advance(task.op, "needs_repair", 0, 1) /\ UNCHANGED row
     \/ AbortEdit /\ UNCHANGED row
  /\ UNCHANGED <<lock, phase, todo, history>>

\* delete_memory(old), and the proof by reading that the row is gone.  The host may
\* delete the row and still report a failure; deleting a row that is gone fails.  An
\* edit whose old row is gone goes on to read its new row back.
DeleteOld ==
  /\ Editing("delete_old")
  /\ \/ /\ Exists(task.old) /\ row' = Gone(task.old) /\ task' = Idle
        /\ Advance(task.op, "completed", 0, 0) /\ reading' = task.new
     \/ /\ ~Exists(task.old) /\ task' = Idle
        /\ Advance(task.op, "needs_repair", 0, 1) /\ reading' = task.new /\ UNCHANGED row
     \/ Fault /\ Exists(task.old) /\ Goto("restore_old") /\ UNCHANGED <<row, op, reading>>
     \/ AbortEdit /\ UNCHANGED <<row, reading>>
     \/ AbortEdit /\ row' = Gone(task.old) /\ reading' \in {0, task.new}
  /\ UNCHANGED <<waiting, phase, todo, history>>

\* _finalize_summary_source_write(new): when the read fails, get_memory answers None as
\* if the row were gone and the row is marked as an orphan, whatever its state; the
\* exception is swallowed and the edit reports success.  A row that is gone stays gone.
Orphaned(i) == IF Live(i) THEN [row EXCEPT ![i].state = "orphan"] ELSE row
ReadBack ==
  /\ phase = "up" /\ reading # 0 /\ reading' = 0
  /\ \/ UNCHANGED <<row, faults>>
     \/ Fault /\ row' = Orphaned(reading)
  /\ UNCHANGED <<op, task, waiting, phase, todo, history>>

\* The old row is still there: it is made visible again.
RestoreOld ==
  /\ Editing("restore_old")
  /\ \/ CanSwitch(task.old, task.new, task.old, op[task.op].text)
        /\ row' = Switched(task.old, task.new, task.old, op[task.op].shown)
        /\ Goto("delete_new") /\ UNCHANGED <<op, faults>>
     \/ /\ ~CanSwitch(task.old, task.new, task.old, op[task.op].text)
        /\ task' = Idle /\ Advance(task.op, "needs_repair", 0, 1) /\ UNCHANGED row
     \/ AbortEdit /\ UNCHANGED row
  /\ UNCHANGED <<lock, phase, todo, history>>

\* The compensation: delete_memory(new) must succeed and be confirmed.
DeleteNewClosing ==
  /\ Editing("delete_new") /\ task' = Idle
  /\ \/ row' = Gone(task.new) /\ UNCHANGED faults
     \/ Fault /\ row' \in {row, Gone(task.new)}
  /\ op' = Advanced(task.op, "failed", 0, 1)
  /\ UNCHANGED <<lock, phase, todo, history>>
DeleteNew ==
  /\ Editing("delete_new") /\ task' = Idle
  /\ \/ /\ Exists(task.new) /\ row' = Gone(task.new)
        /\ Advance(task.op, "failed", 0, 1)
     \/ /\ ~Exists(task.new) /\ Advance(task.op, "needs_repair", 0, 1) /\ UNCHANGED row
     \/ AbortEdit /\ row' \in {row, Gone(task.new)}
  /\ UNCHANGED <<lock, phase, todo, history>>

-----------------------------------------------------------------------------
(***************************************************************************)
(* Other writers of the same memory, cancellation and the end of the       *)
(* process.                                                                *)
(***************************************************************************)

\* /memora forget, or a deletion on the page: any row that exists.
Forget(m) ==
  /\ phase = "up" /\ Exists(m)
  /\ row' = Gone(m)
  /\ forgotten' = IF Live(m) THEN "yes" ELSE forgotten
  /\ UNCHANGED <<op, task, lock, phase, todo, faults, chained, since, picked>>

\* update_memory with expected_revision: refused for a row that is being replaced.
CasUpdate(m, text) ==
  /\ phase = "up" /\ Exists(m) /\ ~Hidden(m) /\ text # row[m].text
  /\ row' = [row EXCEPT ![m].text = text]
  /\ UNCHANGED <<op, task, lock, phase, todo, faults, history>>

CancelEdit ==
  /\ phase = "up" /\ (task # Idle \/ reading # 0) /\ Fault
  /\ task' = Idle /\ reading' = 0
  /\ UNCHANGED <<row, op, waiting, phase, todo, history>>

Crash ==
  /\ phase # "down" /\ Fault
  /\ phase' = "down" /\ task' = Idle /\ waiting' = 0 /\ reading' = 0 /\ todo' = {}
  /\ UNCHANGED <<row, op, history>>

\* An orderly stop waits for the running edit.
Stop ==
  /\ phase = "up" /\ task = Idle /\ reading = 0 /\ \E k \in Ops : Open(k)
  /\ phase' = "down" /\ waiting' = 0
  /\ UNCHANGED <<row, op, task, reading, todo, faults, history>>

-----------------------------------------------------------------------------
(***************************************************************************)
(* WriteOpRepair: repair_incomplete selects open entries, the oldest       *)
(* first, and visits each of them once; an exception counts as a retry of  *)
(* that entry.                                                             *)
(***************************************************************************)

Selectable(k) == Open(k) /\ op[k].retry < MaxRetries

\* Faulty variant of Batch: no ORDER BY.
BatchUnordered(S) == S \subseteq {k \in Ops : Selectable(k)} /\ Cardinality(S) <= RepairBatch

\* The limit counts entries of every operation type: those of the other types take any
\* number of its places, so any run of the oldest entries may be what is selected.
Batch(S) ==
  /\ S \subseteq {k \in Ops : Selectable(k)} /\ Cardinality(S) <= RepairBatch
  /\ \A k \in S, j \in Ops : j < k /\ Selectable(j) => j \in S

\* Nothing is selected when write_reliability.repair_enabled is off or the query fails.
Start ==
  /\ phase = "down" /\ phase' = "repair" /\ since' = faults
  /\ \/ \E S \in SUBSET Ops : Batch(S) /\ todo' = S /\ picked' = S /\ UNCHANGED faults
     \/ Fault /\ todo' = {} /\ picked' = {}
  /\ UNCHANGED <<row, op, task, lock, forgotten, chained>>

Repairing(step) == phase = "repair" /\ task.step = step

\* The visit of the entry ends.
Visited == task' = Idle /\ todo' = todo \ {task.op}
RepairRaises == Visited /\ AdvanceAfterFault(task.op, "needs_repair", 0, 1)

\* _find_replacement_documents: rows whose previous_id is the old row.
Candidates(o) == {i \in Ids : Exists(i) /\ row[i].prev = o}

\* _repair_replace decides by the rows that exist and the digest of the new one.
Verdict(o, n, text) ==
  CASE n # 0 /\ Exists(n) /\ Exists(o) ->
         IF row[n].text = text THEN "commit" ELSE "rollback"
    [] n # 0 /\ Exists(n) /\ ~Exists(o) -> "commit"
    [] (n = 0 \/ ~Exists(n)) /\ Exists(o) -> "revert"
    [] OTHER -> "close"

RepairReplace(k) ==
  /\ Repairing("idle") /\ k \in todo /\ \A j \in todo : k <= j
  /\ LET o == op[k].old
         found == Candidates(o)
         n == IF op[k].new # 0 THEN op[k].new
              ELSE IF found = {} THEN 0 ELSE CHOOSE i \in found : TRUE
         verdict == Verdict(o, n, op[k].text)
     IN \/ /\ verdict = "close"                     \* both rows are gone
           /\ Advance(k, "failed", 0, 1)
           /\ todo' = todo \ {k} /\ UNCHANGED task
        \/ /\ verdict # "close"
           /\ task' = [step |-> verdict, op |-> k, old |-> o, new |-> n]
           /\ UNCHANGED <<op, todo, faults>>
        \/ /\ AdvanceAfterFault(k, "needs_repair", 0, 1)   \* a read raises
           /\ todo' = todo \ {k} /\ UNCHANGED task
  /\ UNCHANGED <<row, lock, phase, history>>

\* The switch of _commit_replacement, _rollback_replacement and of the revert path.  It
\* is never refused here: the verdict has just established what it asks for.
RepairSwitch ==
  /\ phase = "repair" /\ task.step \in {"commit", "rollback", "revert"}
  /\ LET w == IF task.step = "commit" THEN task.new ELSE task.old
         next == [commit |-> "purge_old", rollback |-> "purge_new", revert |-> "purge_gone"]
     IN \/ /\ CanSwitch(task.old, task.new, w, op[task.op].text)
           /\ row' = Switched(task.old, task.new, w, op[task.op].shown)
           /\ Goto(next[task.step]) /\ UNCHANGED <<op, todo, faults>>
        \/ RepairRaises /\ UNCHANGED row
  /\ UNCHANGED <<lock, phase, history>>

\* _delete_replacement_side and the closing of the entry.  A row that cannot be deleted
\* keeps the entry open.
RepairPurge ==
  /\ phase = "repair" /\ task.step \in {"purge_old", "purge_new", "purge_gone"}
  /\ LET side == IF task.step = "purge_old" THEN task.old ELSE task.new
         committed == task.step = "purge_old"
         known == IF task.step = "purge_gone" THEN 0 ELSE task.new
         purged == IF side = 0 THEN row ELSE Gone(side)
     IN \/ /\ row' = purged /\ Visited
           /\ IF committed THEN Advance(task.op, "completed", known, 0)
              ELSE Advance(task.op, "failed", known, 1)
        \/ RepairRaises /\ row' \in {row, purged}
        \/ /\ Visited /\ AdvanceAfterFault(task.op, "needs_repair", known, 1)
           /\ side # 0 /\ Exists(side) /\ UNCHANGED row
  /\ UNCHANGED <<lock, phase, history>>

FinishRepair ==
  /\ Repairing("idle") /\ todo = {} /\ phase' = "up"
  /\ UNCHANGED <<row, op, task, lock, todo, faults, history>>

-----------------------------------------------------------------------------
Edit   == StageNew \/ RecordNew \/ PublishNew \/ DeleteOld \/ ReadBack \/ RestoreOld
          \/ DeleteNew
Repair == (\E k \in Ops : RepairReplace(k)) \/ RepairSwitch \/ RepairPurge \/ FinishRepair
Next ==
  \/ \E m \in Ids : AskEdit(m)
  \/ \E text \in Texts, k \in Ops : StartEdit(text, k)
  \/ RefuseEdit
  \/ \E m \in Ids, text \in Texts : CasUpdate(m, text)
  \/ \E m \in Ids : Forget(m)
  \/ Edit \/ Repair \/ CancelEdit \/ Crash \/ Stop \/ Start

Spec == Init /\ [][Next]_vars

TypeOK ==
  /\ row \in [Ids -> Row] /\ op \in [Ops -> Op] /\ task \in Task
  /\ waiting \in {0} \cup Ids /\ reading \in {0} \cup Ids
  /\ phase \in {"up", "down", "repair"} /\ todo \subseteq Ops /\ picked \subseteq Ops
  /\ faults \in 0..MaxFaults /\ since \in 0..MaxFaults
  /\ forgotten \in {"yes", "no"} /\ chained \in {"yes", "no"}

\* Unless a user has deleted it, the memory has a recallable row at every moment: the
\* switch never hides the last one, and neither the edit nor the repair deletes it.
\* Two exceptions: a row edited while the entry that created it is open, and a row whose
\* read-back failed after its edit had committed.  That one still exists with its text,
\* but as an orphan, and no step of an edit or of the repair makes it recallable again.
NeverLost == forgotten = "no" /\ chained = "no" =>
  \E i \in Ids : Recallable(i) \/ Orphan(i)

\* A row that is hidden for a replacement is named by an open entry of the ledger: it is
\* never left behind as a deleted memory nobody will restore or remove.
HiddenIsLedgered == \A i \in Ids : Hidden(i) =>
  \E k \in Ops : Open(k) /\ (op[k].old = i \/ i = k + 1)

\* At most one row of a memory is recallable, as long as no row is edited while the
\* entry that created it is still open.
OneRecallable == chained = "no" => \A i, j \in Ids : Live(i) /\ Live(j) => i = j

\* An entry that does not know its new row finds at most one candidate by previous_id,
\* so the verdict replacement_ambiguous is never reached.
CandidateIsUnique == \A k \in Ops : Open(k) /\ op[k].new = 0 =>
  \A i, j \in Candidates(op[k].old) : i = j

\* A start that meets no fault closes every entry it has selected, and what it leaves
\* to later starts is newer than all of these: entries are settled in their order, so
\* only a full batch, or a repair that is switched off, keeps one of them open.
RepairSettles ==
  phase = "repair" /\ task = Idle /\ todo = {} /\ faults = since =>
    /\ \A k \in picked : ~Open(k)
    /\ \A k \in Ops : Open(k) /\ op[k].retry < MaxRetries => \A j \in picked : j < k
=============================================================================
