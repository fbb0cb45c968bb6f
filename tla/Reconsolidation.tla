--------------------------- MODULE Reconsolidation ---------------------------
(***************************************************************************)
(* Reconsolidation: a recalled memory gets a revised text as a pending     *)
(* candidate; a reviewer approves it, rejects it, or takes an approved one *)
(* back.  The memory and the candidates live in two databases, so an       *)
(* approval records an intent, overwrites the memory if its revision is    *)
(* still the one of the candidate, reads the memory back and closes the    *)
(* intent; a rollback does the same with the old text.  Requests run       *)
(* concurrently with each other and with other writers, every step can     *)
(* fail, and a start decides from the memory what became of open intents.  *)
(*                                                                         *)
(* All candidates of the module belong to one memory.  Reading the memory  *)
(* and closing an intent are one action: the store does not look at the    *)
(* memory, so a write between the two is the same as one after both.  For  *)
(* the same reason making a candidate from the text that was read is one   *)
(* action although the model is called in between.                         *)
(***************************************************************************)
EXTENDS Integers

CONSTANTS
  Texts,      \* texts of the memory
  MaxCands,   \* bound: candidates
  MinRecall,  \* reconsolidation.min_recall_count
  MaxRecall,  \* bound: access_count
  MaxRev,     \* bound: revisions made by other writers
  Summaries,  \* whether rows carry canonical_summary: a subset of {"yes", "no"}
  MaxFaults   \* bound: failed reads and writes, cancellations and crashes

ASSUME ReviewAssumption ==
  /\ Texts # {} /\ "none" \notin Texts /\ MaxCands \in Nat /\ MinRecall \in Nat
  /\ MaxRecall \in Nat /\ MinRecall <= MaxRecall /\ MaxRev \in Nat
  /\ Summaries \subseteq {"yes", "no"} /\ MaxFaults \in Nat

Cands == 1..MaxCands

VARIABLES
  row,     \* the memory: state, text, revision (updated_at) and metadata
  cand,    \* reconsolidation_candidates
  aop,     \* reconsolidation_apply_ops: status of the intent of each candidate
  rop,     \* reconsolidation_rollback_ops
  task,    \* next step of the approval, rollback or recovery of each candidate
  asked,   \* rollback requests that have checked the memory and not yet begun
  phase,   \* "up", "down", or the two passes of recover_persisted_operations
  todo,    \* intents the running pass has not visited
  faults,  \* faults so far
  effect,  \* what each candidate has done to the text (history)
  calm,    \* no fault and no other writer so far (history)
  since    \* faults when the last start began (history)

vars == <<row, cand, aop, rop, task, asked, phase, todo, faults, effect, calm, since>>
store == <<cand, aop, rop>>

\* recalls: access_count; mark: the approval that wrote reconsolidation_count and
\* last_reconsolidated_at, 0 if the keys are absent; summary: canonical_summary;
\* importance stands for the semantic metadata.  The time field updated_at of the
\* metadata is left out: no comparison looks at it.
Meta == [recalls: 0..MaxRecall, mark: {0} \cup Cands, summary: {"none"} \cup Texts,
         importance: {"low", "high"}]
Row  == [state: {"live", "gone"}, text: Texts, rev: Nat, meta: Meta]
Cand == [status: {"none", "pending", "approved", "rejected", "failed", "rolled_back"},
         src: Nat, old: Texts, oldmeta: Meta, proposed: Texts, arev: Nat, ameta: Meta]
Steps == {"idle", "apply", "apply_refused", "apply_verify",
          "undo", "undo_refused", "undo_verify", "undo_close"}

Live  == row.state = "live"
Fault == faults < MaxFaults /\ faults' = faults + 1 /\ calm' = "no"
NoFault == UNCHANGED <<faults, calm>>

Init ==
  /\ \E t \in Texts, k \in Summaries :
       row = [state |-> "live", text |-> t, rev |-> 1,
              meta |-> [recalls |-> 0, mark |-> 0,
                        summary |-> IF k = "yes" THEN t ELSE "none",
                        importance |-> "low"]]
  /\ cand = [c \in Cands |-> [status |-> "none", src |-> 0, old |-> row.text,
               oldmeta |-> row.meta, proposed |-> row.text, arev |-> 0, ameta |-> row.meta]]
  /\ aop = [c \in Cands |-> "none"] /\ rop = [c \in Cands |-> "none"]
  /\ task = [c \in Cands |-> "idle"] /\ asked = {} /\ phase = "up" /\ todo = {}
  /\ faults = 0 /\ effect = [c \in Cands |-> "none"] /\ calm = "yes" /\ since = 0

-----------------------------------------------------------------------------
(***************************************************************************)
(* The compare-and-set of the memory: update_memory with expected_revision *)
(***************************************************************************)

CasOKAlways(rev) == Live
CasOK(rev) == Live /\ row.rev = rev

\* Metadata is merged key by key, so a key the request does not have is kept; a summary
\* always follows the text.
Merged(m, text) ==
  [recalls |-> m.recalls,
   mark |-> IF m.mark = 0 THEN row.meta.mark ELSE m.mark,
   summary |-> IF row.meta.summary = "none" /\ m.summary = "none" THEN "none" ELSE text,
   importance |-> m.importance]
Overwritten(text, m) ==
  [row EXCEPT !.text = text, !.rev = @ + 1, !.meta = Merged(m, text)]

\* _build_apply_payload: the stamp of the approval over the metadata of the candidate.
Target(c) == [cand[c].oldmeta EXCEPT !.mark = c]

Quiet == \A c \in Cands : task[c] = "idle"
Step(c, step) == task' = [task EXCEPT ![c] = step]
\* The handling of c ends; a recovery pass goes on with the next intent.
Done(c) == Step(c, "idle") /\ todo' = todo \ {c}

-----------------------------------------------------------------------------
(***************************************************************************)
(* Candidates and approvals.                                               *)
(***************************************************************************)

\* maybe_propose and stage_candidate: the same proposal for the same revision is reused.
Propose(c, text) ==
  /\ phase = "up" /\ Live /\ row.meta.recalls >= MinRecall /\ text # row.text
  /\ cand[c].status = "none" /\ \A d \in 1..(c - 1) : cand[d].status # "none"
  /\ ~\E d \in Cands : cand[d].status = "pending" /\ cand[d].src = row.rev
                       /\ cand[d].proposed = text
  /\ cand' = [cand EXCEPT ![c] =
       [status |-> "pending", src |-> row.rev, old |-> row.text, oldmeta |-> row.meta,
        proposed |-> text, arev |-> 0, ameta |-> row.meta]]
  /\ UNCHANGED <<row, aop, rop, task, asked, phase, todo, effect, since>> /\ NoFault

\* transition: an open intent refuses the rejection.
Reject(c) ==
  /\ phase = "up" /\ cand[c].status = "pending" /\ aop[c] = "none"
  /\ cand' = [cand EXCEPT ![c].status = "rejected"]
  /\ UNCHANGED <<row, aop, rop, task, asked, phase, todo, effect, since>> /\ NoFault

\* begin_apply: one intent per candidate, for good.
BeginApplyLate(c) ==
  /\ phase = "up" /\ cand[c].status = "pending" /\ aop[c] = "none" /\ task[c] = "idle"
  /\ Step(c, "apply")
  /\ UNCHANGED <<row, store, asked, phase, todo, effect, since>> /\ NoFault
BeginApply(c) ==
  /\ phase = "up" /\ cand[c].status = "pending" /\ aop[c] = "none"
  /\ aop' = [aop EXCEPT ![c] = "pending"] /\ Step(c, "apply")
  /\ UNCHANGED <<row, cand, rop, asked, phase, todo, effect, since>> /\ NoFault

\* The write is refused for a changed revision, or for a reason of the engine: no
\* embedding, a replacement of the row in progress, facts that no longer fit.
Apply(c) ==
  /\ task[c] = "apply"
  /\ \/ /\ CasOK(cand[c].src) /\ row' = Overwritten(cand[c].proposed, Target(c))
        /\ effect' = [effect EXCEPT ![c] = "done"] /\ Step(c, "apply_verify") /\ NoFault
     \/ ~CasOK(cand[c].src) /\ Step(c, "apply_refused") /\ UNCHANGED <<row, effect>> /\ NoFault
     \/ Fault /\ Step(c, "apply_refused") /\ UNCHANGED <<row, effect>>
  /\ UNCHANGED <<store, asked, phase, todo, since>>

\* complete_apply(applied=False).
ApplyRefused(c) ==
  /\ task[c] = "apply_refused"
  /\ cand' = [cand EXCEPT ![c].status = "rejected"]
  /\ aop' = [aop EXCEPT ![c] = "none"] /\ Done(c)
  /\ UNCHANGED <<row, rop, asked, phase, effect, since>> /\ NoFault

\* complete_apply(applied=True): the candidate keeps the revision and the metadata read.
ApprovedBare(c) == [cand EXCEPT ![c].status = "approved"]
Approved(c) ==
  [cand EXCEPT ![c].status = "approved", ![c].arev = row.rev, ![c].ameta = row.meta]

\* _apply_metadata_matches against the target of the intent.
IsAppliedByText(c) == row.text = cand[c].proposed
IsApplied(c) == row.text = cand[c].proposed /\ row.meta = Target(c)

\* _finalize_applied_candidate: an unverified write keeps its intent for the next start,
\* and so does one that cannot be read back (Abort).
ApplyVerify(c) ==
  /\ task[c] = "apply_verify" /\ Done(c)
  /\ IF Live /\ row.rev # cand[c].src /\ IsApplied(c)
     THEN cand' = Approved(c) /\ aop' = [aop EXCEPT ![c] = "none"]
     ELSE UNCHANGED <<cand, aop>>
  /\ UNCHANGED <<row, rop, asked, phase, effect, since>> /\ NoFault

-----------------------------------------------------------------------------
(***************************************************************************)
(* Rollbacks.                                                              *)
(***************************************************************************)

IsAppliedSnapshot(c) == row.text = cand[c].proposed /\ row.meta = cand[c].ameta
IsRestored(c) == row.text = cand[c].old /\ row.meta = cand[c].oldmeta

\* rollback_candidate checks the memory before it records its intent.
AskUndo(c) ==
  /\ phase = "up" /\ cand[c].status = "approved" /\ c \notin asked
  /\ Live /\ row.rev = cand[c].arev /\ IsAppliedSnapshot(c)
  /\ asked' = asked \cup {c}
  /\ UNCHANGED <<row, store, task, phase, todo, effect, since>> /\ NoFault

\* begin_rollback refuses a candidate that changed or has an intent, a blocked one too.
MayUndo(c) == cand[c].status = "approved" /\ rop[c] = "none"
BeginUndo(c) ==
  /\ phase = "up" /\ c \in asked /\ asked' = asked \ {c}
  /\ \/ MayUndo(c) /\ rop' = [rop EXCEPT ![c] = "pending"] /\ Step(c, "undo")
     \/ ~MayUndo(c) /\ UNCHANGED <<rop, task>>
  /\ UNCHANGED <<row, cand, aop, phase, todo, effect, since>> /\ NoFault

Undo(c) ==
  /\ task[c] = "undo"
  /\ \/ /\ CasOK(cand[c].arev) /\ row' = Overwritten(cand[c].old, cand[c].oldmeta)
        /\ effect' = [effect EXCEPT ![c] = "undone"] /\ Step(c, "undo_verify") /\ NoFault
     \/ ~CasOK(cand[c].arev) /\ Step(c, "undo_refused") /\ UNCHANGED <<row, effect>> /\ NoFault
     \/ Fault /\ Step(c, "undo_refused") /\ UNCHANGED <<row, effect>>
  /\ UNCHANGED <<store, asked, phase, todo, since>>

\* A request cancels its intent; the recovery blocks it.
UndoRefused(c) ==
  /\ task[c] = "undo_refused"
  /\ rop' = [rop EXCEPT ![c] = IF phase = "up" THEN "none" ELSE "blocked"] /\ Done(c)
  /\ UNCHANGED <<row, cand, aop, asked, phase, effect, since>> /\ NoFault

UndoVerify(c) ==
  /\ task[c] = "undo_verify"
  /\ \/ /\ Live /\ row.rev # cand[c].arev /\ IsRestored(c)
        /\ Step(c, "undo_close") /\ UNCHANGED <<rop, todo>> /\ NoFault
     \/ /\ ~(Live /\ row.rev # cand[c].arev /\ IsRestored(c))
        /\ rop' = [rop EXCEPT ![c] = "blocked"] /\ Done(c) /\ NoFault
     \/ Fault /\ rop' = [rop EXCEPT ![c] = "blocked"] /\ Done(c)   \* the read fails
  /\ UNCHANGED <<row, cand, aop, asked, phase, effect, since>>

\* refresh_derived, then complete_rollback; a missing memory fails the refresh and keeps
\* the intent, as does a refresh that fails by itself (Abort).
UndoClose(c) ==
  /\ task[c] = "undo_close" /\ Done(c)
  /\ IF Live
     THEN cand' = [cand EXCEPT ![c].status = "rolled_back"] /\ rop' = [rop EXCEPT ![c] = "none"]
     ELSE UNCHANGED <<cand, rop>>
  /\ UNCHANGED <<row, aop, asked, phase, effect, since>> /\ NoFault

-----------------------------------------------------------------------------
(***************************************************************************)
(* Other writers of the memory, failures and the end of the process.       *)
(***************************************************************************)

\* An edit by compare-and-set, of the text or of semantic metadata.
Edit(text, level) ==
  /\ phase = "up" /\ Live /\ row.rev < MaxRev
  /\ row' = Overwritten(text, [row.meta EXCEPT !.importance = level]) /\ calm' = "no"
  /\ UNCHANGED <<store, task, asked, phase, todo, faults, effect, since>>

\* Runtime maintenance counts a recall without a new revision.
Recall ==
  /\ phase = "up" /\ Live /\ row.meta.recalls < MaxRecall
  /\ row' = [row EXCEPT !.meta.recalls = @ + 1]
  /\ calm' = IF row.meta.recalls >= MinRecall THEN "no" ELSE calm
  /\ UNCHANGED <<store, task, asked, phase, todo, faults, effect, since>>

\* The memory is forgotten, or replaced by a row of another id.
Delete ==
  /\ phase = "up" /\ Live /\ row' = [row EXCEPT !.state = "gone"] /\ calm' = "no"
  /\ UNCHANGED <<store, task, asked, phase, todo, faults, effect, since>>

\* A step raises or is cancelled: the intent stays.
Abort(c) ==
  /\ task[c] # "idle" /\ Fault /\ Done(c)
  /\ UNCHANGED <<row, store, asked, phase, effect, since>>

Crash ==
  /\ phase # "down" /\ Fault /\ phase' = "down"
  /\ task' = [c \in Cands |-> "idle"] /\ asked' = {} /\ todo' = {}
  /\ UNCHANGED <<row, store, effect, since>>

Stop ==
  /\ phase = "up" /\ Quiet
  /\ \E c \in Cands : aop[c] = "pending" \/ rop[c] = "pending"
  /\ phase' = "down" /\ asked' = {}
  /\ UNCHANGED <<row, store, task, todo, effect, since>> /\ NoFault

-----------------------------------------------------------------------------
(***************************************************************************)
(* recover_incomplete_applies, then recover_incomplete_rollbacks, before   *)
(* the plugin accepts requests.  A pass takes one intent at a time, in the *)
(* code by age and in the model in any order.                              *)
(***************************************************************************)

PendingApplies   == {c \in Cands : aop[c] = "pending"}
PendingRollbacks == {c \in Cands : rop[c] = "pending"}

Start ==
  /\ phase = "down" /\ phase' = "applies" /\ todo' = PendingApplies /\ since' = faults
  /\ UNCHANGED <<row, store, task, asked, effect>> /\ NoFault

\* mark_apply_blocked: the candidate fails and its intent stays for good.
BlockApplyOpen(c) ==
  cand' = [cand EXCEPT ![c].status = "failed"] /\ UNCHANGED aop
BlockApply(c) ==
  cand' = [cand EXCEPT ![c].status = "failed"] /\ aop' = [aop EXCEPT ![c] = "blocked"]

RecoverApply(c) ==
  /\ phase = "applies" /\ c \in todo /\ Quiet
  /\ \/ Fault /\ BlockApply(c) /\ Done(c)        \* an unreadable memory counts as missing
     \/ /\ ~Live \/ (IsApplied(c) /\ row.rev = cand[c].src)
        /\ BlockApply(c) /\ Done(c) /\ NoFault
     \/ /\ Live /\ IsApplied(c) /\ row.rev # cand[c].src
        /\ cand' = Approved(c) /\ aop' = [aop EXCEPT ![c] = "none"] /\ Done(c) /\ NoFault
     \/ /\ Live /\ ~IsApplied(c) /\ (row.rev # cand[c].src \/ ~IsRestored(c))
        /\ BlockApply(c) /\ Done(c) /\ NoFault
     \/ /\ Live /\ ~IsApplied(c) /\ row.rev = cand[c].src /\ IsRestored(c)
        /\ Step(c, "apply") /\ UNCHANGED <<cand, aop, todo>> /\ NoFault
  /\ UNCHANGED <<row, rop, asked, phase, effect, since>>

\* The second list is read when the first pass is done; a failed read skips the pass.
NextPass ==
  /\ phase = "applies" /\ todo = {}
  /\ \/ phase' = "rollbacks" /\ todo' = PendingRollbacks /\ NoFault
     \/ Fault /\ phase' = "up" /\ UNCHANGED todo
  /\ UNCHANGED <<row, store, task, asked, effect, since>>

RecoverUndo(c) ==
  /\ phase = "rollbacks" /\ c \in todo /\ Quiet
  /\ LET same == Live /\ row.rev = cand[c].arev
     IN \/ Fault /\ rop' = [rop EXCEPT ![c] = "blocked"] /\ Done(c)
        \/ same /\ IsAppliedSnapshot(c) /\ Step(c, "undo") /\ UNCHANGED <<rop, todo>> /\ NoFault
        \/ /\ Live /\ ~same /\ IsRestored(c)
           /\ Step(c, "undo_close") /\ UNCHANGED <<rop, todo>> /\ NoFault
        \/ /\ ~Live \/ IF same THEN ~IsAppliedSnapshot(c) ELSE ~IsRestored(c)
           /\ rop' = [rop EXCEPT ![c] = "blocked"] /\ Done(c) /\ NoFault
  /\ UNCHANGED <<row, cand, aop, asked, phase, effect, since>>

FinishRecovery ==
  /\ phase = "rollbacks" /\ todo = {} /\ phase' = "up"
  /\ UNCHANGED <<row, store, task, asked, todo, effect, since>> /\ NoFault

-----------------------------------------------------------------------------
Review(c) ==
  \/ Reject(c) \/ BeginApply(c) \/ Apply(c) \/ ApplyRefused(c) \/ ApplyVerify(c)
  \/ AskUndo(c) \/ BeginUndo(c) \/ Undo(c) \/ UndoRefused(c) \/ UndoVerify(c) \/ UndoClose(c)
  \/ Abort(c) \/ RecoverApply(c) \/ RecoverUndo(c)
Next ==
  \/ \E c \in Cands, text \in Texts : Propose(c, text)
  \/ \E c \in Cands : Review(c)
  \/ \E text \in Texts, level \in {"low", "high"} : Edit(text, level)
  \/ Recall \/ Delete \/ Crash \/ Stop \/ Start \/ NextPass \/ FinishRecovery

Spec == Init /\ [][Next]_vars

\* A candidate has applied_revision once it was approved, and only then.
Snapshot(c) == cand[c].status \in {"approved", "rolled_back"} <=> cand[c].arev # 0

TypeOK ==
  /\ row \in Row /\ cand \in [Cands -> Cand]
  /\ aop \in [Cands -> {"none", "pending", "blocked"}]
  /\ rop \in [Cands -> {"none", "pending", "blocked"}]
  /\ task \in [Cands -> Steps] /\ asked \subseteq Cands /\ todo \subseteq Cands
  /\ phase \in {"up", "down", "applies", "rollbacks"}
  /\ faults \in 0..MaxFaults /\ since \in 0..MaxFaults
  /\ effect \in [Cands -> {"none", "done", "undone"}] /\ calm \in {"yes", "no"}
  /\ \A c \in Cands : Snapshot(c)

\* A text that was written is never without a record: until the candidate has its
\* verdict the intent is in the store, where the next start finds it.
WritesAreIntended == \A c \in Cands :
  /\ effect[c] = "done" /\ cand[c].status = "pending" => aop[c] = "pending"
  /\ effect[c] = "undone" /\ cand[c].status = "approved" => rop[c] # "none"

\* The final status tells what happened to the text, whatever failed in between and
\* however often an intent was taken up again.
VerdictsAreTrue == \A c \in Cands :
  /\ cand[c].status = "rejected" => effect[c] = "none"
  /\ cand[c].status = "approved" => effect[c] # "none"
  /\ cand[c].status = "rolled_back" => effect[c] = "undone"

\* A start that meets no fault leaves no intent pending.  The exception is a write it has
\* itself retried on a row with a summary: see UndisturbedReviewCompletes.
RecoverySettles ==
  phase = "rollbacks" /\ todo = {} /\ faults = since =>
    /\ PendingRollbacks = {}
    /\ \A c \in PendingApplies : effect[c] = "done" /\ row.meta.summary # "none"

\* The review implements MemoryReview: whatever requests, other writers, faults and starts
\* do, a candidate overwrites the memory at most once, only the revision it was made from,
\* is taken back at most once, only while its own text is there, and its status changes only
\* along the life cycle and in agreement with what it did.
Proposals == [c \in Cands |-> [base |-> cand[c].src, before |-> cand[c].old,
                               after |-> cand[c].proposed]]
Verdicts  == [c \in Cands |-> cand[c].status]
Abstract  == INSTANCE MemoryReview WITH
  state <- row.state, text <- row.text, version <- row.rev,
  proposal <- Proposals, verdict <- Verdicts
ImplementsReview == Abstract!Spec

\* A candidate that is reviewed without any fault and without another writer ends as the
\* reviewer asked: no intent is left blocked.
UndisturbedReviewCompletes ==
  calm = "yes" => \A c \in Cands : aop[c] # "blocked" /\ rop[c] # "blocked"
=============================================================================
