---------------------------- MODULE SummaryLedger ----------------------------
(***************************************************************************)
(* The candidate ledger of one summary window and the canonical memories   *)
(* its candidates become.                                                  *)
(*                                                                         *)
(* A worker that holds the claim of the window records one slot per        *)
(* candidate, looks for owners an earlier attempt left in the memory       *)
(* store, marks the slots as writing, routes the candidates through the    *)
(* quality gate and writes them.  A canonical row is staged first and      *)
(* accepted only while its claim is alive.  The conversation database      *)
(* (job, slots) and the memory database (mem, merged, evid) share no       *)
(* transaction: a crash, a lost lease or a store error may fall between    *)
(* any two of their writes, and retries and the startup reconcile put the  *)
(* pieces together again.  SummaryWindows abstracts the slots of a window  *)
(* to none, planned, open or closed; here they are kept one by one.        *)
(***************************************************************************)
EXTENDS Integers, FiniteSets

CONSTANTS
  Slots,        \* candidates of the window
  MaxAttempts,  \* claims a job may consume before it is blocked
  MaxClaims,    \* bound: claims in all, the given back ones included
  MaxFaults     \* bound: crashes, stops, store errors

ASSUME LedgerAssumption ==
  /\ MaxAttempts \in Nat \ {0} /\ MaxClaims \in Nat /\ MaxFaults \in Nat

None == "none"  \* no slot, no owner
Pre  == "pre"   \* the older memory near-duplicates are merged into

ASSUME NamesAssumption == None \notin Slots /\ Pre \notin Slots

VARIABLES
  job,      \* the row of summary_jobs: status, attempts, generation, lease
  slots,    \* summary_job_candidates: status, disposition, canonical_id
  mem,      \* canonical rows by idempotency key, with the staging claim
  merged,   \* keys recorded in the metadata of the older memory
  evid,     \* keys with a candidate in the quarantine store
  workers,  \* tasks that execute a claim of this window
  up,       \* the process runs
  faults    \* faults injected so far

vars == <<job, slots, mem, merged, evid, workers, up, faults>>

\* Dispositions: "canonical" stands for canonical, mark_write and
\* skipped_idempotent, which carry an owner nobody else may have.
OwnerDispositions == {"canonical", "merged"}
Closed   == {"committed", "failed"}
Settled  == {"completed", "abandoned"}
Slot     == [st: {"absent", "planned", "writing", "unknown"} \cup Closed,
             disp: {"null", "quarantined", "discard", "failed"} \cup OwnerDispositions,
             own: Slots \cup {None, Pre}]
Job      == [status: {"queued", "running", "failed", "blocked", "unknown"} \cup Settled,
             att: 0..MaxAttempts, gen: 0..MaxClaims, live: BOOLEAN]
Memory   == [st: {"none", "staged", "orphan", "accepted"}, by: 0..MaxClaims]
Notes    == {"new", "allow", "quarantined", "discard", "failed"} \cup OwnerDispositions
Worker   == [gen: 1..MaxClaims, note: [Slots -> Notes], todo: SUBSET Slots,
             step: {"intents", "find", "owners", "begin", "route", "store",
                    "staged", "checked", "finalize", "written", "commit", "recommit",
                    "fail"},
             cur: Slots \cup {None},
             out: {"none", "nofacts", "mismatch", "unknown", "retry", "block"}]

\* _claim_matches
Matches(w) == job.status = "running" /\ job.gen = w.gen /\ job.live

SourceLockFree == \A w \in workers : w.cur = None

Fault == faults < MaxFaults /\ faults' = faults + 1

Released(status) == [job EXCEPT !.status = status, !.live = FALSE]
RetryOrBlock == Released(IF job.att >= MaxAttempts THEN "blocked" ELSE "failed")

With(w, v)   == (workers \ {w}) \cup {v}
Become(w, v) == workers' = With(w, v)
Leave(w)     == workers' = workers \ {w}

\* A worker that gives up with an unknown outcome, or with a failure.
Unknown(w, out) == [w EXCEPT !.step = "commit", !.out = out, !.cur = None]
Failing(w, out) == [w EXCEPT !.step = "fail", !.out = out, !.cur = None]

-----------------------------------------------------------------------------
(* Claims *)

\* claim_ready
Claim ==
  /\ up
  /\ job.status \in {"queued", "failed"} /\ job.att < MaxAttempts
  /\ job.gen < MaxClaims
  /\ job' = [status |-> "running", att |-> job.att + 1, gen |-> job.gen + 1,
             live |-> TRUE]
  /\ workers' = workers \cup
       {[gen |-> job.gen + 1, note |-> [k \in Slots |-> "new"], todo |-> Slots,
         step |-> "intents", cur |-> None, out |-> "none"]}
  /\ UNCHANGED <<slots, mem, merged, evid, up, faults>>

\* The heartbeat fails to renew the lease in time.
LeaseExpires ==
  /\ job.status = "running" /\ job.live
  /\ job' = [job EXCEPT !.live = FALSE]
  /\ UNCHANGED <<slots, mem, merged, evid, workers, up, faults>>

\* Faulty variant of Recovered: the attempt is counted a second time.
RecoveredCounted ==
  IF job.status = "running" /\ ~job.live
  THEN [job EXCEPT !.status = "queued", !.live = FALSE, !.att = @ + 1] ELSE job

Recovered ==
  IF job.status = "running" /\ ~job.live
  THEN Released(IF job.att >= MaxAttempts THEN "blocked" ELSE "queued") ELSE job

\* recover_expired_claims, in every round of the claim loop
RecoverExpiredClaims ==
  /\ up /\ job # Recovered
  /\ job' = Recovered
  /\ UNCHANGED <<slots, mem, merged, evid, workers, up, faults>>

-----------------------------------------------------------------------------
(* The ledger before any side effect *)

\* begin_candidate_intents: the provider found candidates, nothing, or failed.
\* The first candidates become planned slots; later ones must be the same.
BeginCandidateIntents(w) ==
  /\ w.step = "intents"
  /\ \/ /\ Matches(w) /\ \A k \in Slots : slots[k].st = "absent"
        /\ slots' = [k \in Slots |-> [st |-> "planned", disp |-> "null", own |-> None]]
        /\ Become(w, [w EXCEPT !.step = "find"])
     \/ /\ Matches(w) /\ \A k \in Slots : slots[k].st # "absent"
        /\ \/ Become(w, [w EXCEPT !.step = "find"])
           \/ Become(w, Unknown(w, "mismatch"))
        /\ UNCHANGED slots
     \/ /\ ~Matches(w) /\ Become(w, Unknown(w, "mismatch"))
        /\ UNCHANGED slots
     \/ /\ \/ Become(w, Unknown(w, "nofacts"))
           \/ \E out \in {"retry", "block"} : Become(w, Failing(w, out))
        /\ UNCHANGED slots
  /\ UNCHANGED <<job, mem, merged, evid, up, faults>>

\* The owner a lookup proves: a merged key first, then an accepted row.
Discovered(k) ==
  IF k \in merged THEN "merged" ELSE IF mem[k].st = "accepted" THEN "canonical" ELSE "new"
OwnerOf(k, note) ==
  IF note = "canonical" THEN k ELSE IF note = "merged" THEN Pre ELSE None

\* _find_completed_keys
FindCompletedKeys(w) ==
  LET note == [k \in Slots |-> Discovered(k)] IN
  /\ w.step = "find"
  /\ \/ Become(w, [w EXCEPT !.note = note,
                   !.step = IF \E k \in Slots : note[k] # "new" THEN "owners"
                                                              ELSE "begin"])
     \/ Become(w, Failing(w, "block"))
  /\ UNCHANGED <<job, slots, mem, merged, evid, up, faults>>

\* _mark_unknown_claim
MarkUnknown ==
  /\ job' = Released("unknown")
  /\ slots' = [k \in Slots |->
                 IF slots[k].st \in Closed \cup {"absent"} THEN slots[k]
                 ELSE [st |-> "unknown", disp |-> "null", own |-> None]]

\* The owner a worker reports for a candidate; an unknown outcome reports none.
Known(w, k)    == IF w.out = "none" THEN OwnerOf(k, w.note[k]) ELSE None
Resolved(w, k) == IF slots[k].own # None THEN slots[k].own ELSE Known(w, k)

\* _reconcile_mapping answers None: the owners found contradict the ledger.
Contradicts(w) ==
  \/ \E k \in Slots :
       \/ slots[k].st = "unknown"
       \/ Known(w, k) \notin {None, Resolved(w, k)}
       \/ slots[k].disp \in OwnerDispositions /\ Resolved(w, k) = None
       \/ slots[k].disp \in {"quarantined", "discard", "failed"} /\ Resolved(w, k) # None
  \/ \E k, l \in Slots :
       /\ k # l /\ Resolved(w, k) # None /\ Resolved(w, k) = Resolved(w, l)
       /\ slots[k].disp # "merged" \/ slots[l].disp # "merged"

AllClosed == \A k \in Slots : slots[k].st \in Closed /\ slots[k].disp # "null"

\* reconcile_window, under the source lock: the owners are recorded; a ledger
\* that is closed already completes the job, or makes it unknown when one of
\* its slots failed.  The worker stops or goes on.
ReconcileWindow(w, stopped, goingOn) ==
  LET failed == AllClosed /\ \E k \in Slots : slots[k].disp = "failed" IN
  /\ SourceLockFree
  /\ \/ ~Matches(w) /\ workers' = stopped /\ UNCHANGED <<job, slots>>
     \/ /\ Matches(w) /\ (Contradicts(w) \/ failed)
        /\ workers' = stopped /\ MarkUnknown
     \/ /\ Matches(w) /\ ~Contradicts(w) /\ ~failed
        /\ slots' = [k \in Slots |-> [slots[k] EXCEPT !.own = Resolved(w, k)]]
        /\ job' = IF AllClosed THEN Released("completed") ELSE job
        /\ workers' = IF AllClosed THEN stopped ELSE goingOn

\* _reconcile_discovered_owners
ReconcileOwners(w) ==
  /\ w.step = "owners"
  /\ ReconcileWindow(w, With(w, Unknown(w, "unknown")), With(w, [w EXCEPT !.step = "begin"]))
  /\ UNCHANGED <<mem, merged, evid, up, faults>>

\* begin_candidate_write: planned becomes writing, anything else stays.
Begun(slot) == IF slot.st = "planned" THEN [slot EXCEPT !.st = "writing"] ELSE slot

\* _begin_candidate_writes, one transaction per slot
BeginCandidateWrite(w) ==
  /\ w.step = "begin"
  /\ \E k \in w.todo :
       IF Matches(w) /\ slots[k].st # "unknown"
       THEN /\ slots' = [slots EXCEPT ![k] = Begun(@)]
            /\ Become(w, IF w.todo = {k}
                         THEN [w EXCEPT !.step = "route",
                               !.todo = {l \in Slots : w.note[l] = "new"}]
                         ELSE [w EXCEPT !.todo = @ \ {k}])
       ELSE Become(w, Unknown(w, "unknown")) /\ UNCHANGED slots
  /\ UNCHANGED <<job, mem, merged, evid, up, faults>>

-----------------------------------------------------------------------------
(* Side effects, each under the source lock and between two claim checks *)

\* _route_quality: candidates without an owner pass the gate one by one; a
\* quarantined one is staged in the quarantine store.
RouteQuality(w) ==
  /\ w.step = "route"
  /\ \/ /\ w.todo = {}
        /\ Become(w, [w EXCEPT !.step = "store", !.todo = Slots])
        /\ UNCHANGED evid
     \/ \E k \in w.todo, action \in {"allow", "quarantined", "discard"} :
          /\ Matches(w) /\ SourceLockFree
          /\ evid' = IF action = "quarantined" THEN evid \cup {k} ELSE evid
          /\ Become(w, [w EXCEPT !.note[k] = action, !.todo = @ \ {k}])
     \/ w.todo # {} /\ Become(w, Unknown(w, "unknown")) /\ UNCHANGED evid
     \/ w.todo # {} /\ ~Matches(w) /\ Become(w, Failing(w, "block")) /\ UNCHANGED evid
  /\ UNCHANGED <<job, slots, mem, merged, up, faults>>

Noted(w, k, note) ==
  [w EXCEPT !.note[k] = note, !.todo = @ \ {k}, !.cur = None, !.step = "store"]

\* _store_one for a candidate that writes nothing: its owner is known, or the
\* gate has decided against it.
StoreDecided(w) ==
  /\ w.step = "store"
  /\ \E k \in w.todo :
       /\ w.note[k] # "allow"
       /\ w.note[k] \in OwnerDispositions \/ SourceLockFree
       /\ Become(w, Noted(w, k, IF w.note[k] \in OwnerDispositions \/ Matches(w)
                                THEN w.note[k] ELSE "failed"))
  /\ UNCHANGED <<job, slots, mem, merged, evid, up, faults>>

\* _merge_or_write enters the fence: a near-duplicate is merged into the older
\* memory, otherwise add_memory stages a row or finds one under the key.
StoreAllowed(w) ==
  /\ w.step = "store" /\ SourceLockFree
  /\ \E k \in w.todo :
       /\ w.note[k] = "allow"
       /\ \/ /\ ~Matches(w)
             /\ Become(w, Noted(w, k, "failed")) /\ UNCHANGED <<mem, merged>>
          \/ /\ Matches(w)
             /\ merged' = merged \cup {k} /\ UNCHANGED mem
             /\ Become(w, [w EXCEPT !.cur = k, !.note[k] = "merged", !.step = "written"])
          \/ /\ Matches(w)
             /\ mem' = IF mem[k].st # "none" THEN mem
                       ELSE [mem EXCEPT ![k] = [st |-> "staged", by |-> w.gen]]
             /\ Become(w, [w EXCEPT !.cur = k, !.step = "staged"])
             /\ UNCHANGED merged
  /\ UNCHANGED <<job, slots, evid, up, faults>>

\* A write that failed is reported as skipped when its key has an accepted row.
WriteFailed(w, k) == Noted(w, k, IF mem[k].st = "accepted" THEN "canonical" ELSE "failed")

\* Faulty variant of MayFlip: any row may be accepted or rejected.
MayAlwaysFlip(w, k) == TRUE

\* _apply_summary_source_state: only the staging claim flips a pending row.
MayFlip(w, k) == mem[k].st = "staged" /\ mem[k].by = w.gen

\* _accept_summary_source_write: an accepted row must come from this claim; a
\* row whose claim is lost is rejected; otherwise the row may be activated.
AcceptSource(w) ==
  LET k == w.cur IN
  /\ w.step = "staged"
  /\ \/ /\ mem[k].st = "accepted"
        /\ Become(w, IF mem[k].by = w.gen
                     THEN [w EXCEPT !.note[k] = "canonical", !.step = "written"]
                     ELSE WriteFailed(w, k))
        /\ UNCHANGED mem
     \/ /\ mem[k].st # "accepted" /\ ~Matches(w)
        /\ mem' = IF MayFlip(w, k) THEN [mem EXCEPT ![k].st = "orphan"] ELSE mem
        /\ Become(w, WriteFailed(w, k))
     \/ /\ mem[k].st # "accepted" /\ Matches(w)
        /\ Become(w, [w EXCEPT !.step = "checked"]) /\ UNCHANGED mem
  /\ UNCHANGED <<job, slots, merged, evid, up, faults>>

\* _activate_summary_source
ActivateSource(w) ==
  LET k == w.cur IN
  /\ w.step = "checked"
  /\ IF MayFlip(w, k)
     THEN /\ mem' = [mem EXCEPT ![k].st = "accepted"]
          /\ Become(w, [w EXCEPT !.note[k] = "canonical", !.step = "finalize"])
     ELSE Become(w, WriteFailed(w, k)) /\ UNCHANGED mem
  /\ UNCHANGED <<job, slots, merged, evid, up, faults>>

\* _finalize_summary_source_write reads the row it has just accepted for the derived
\* work, which may raise.  When the read fails get_memory answers None, and the row
\* is marked as an orphan whatever its state.
FinalizeSource(w) ==
  /\ w.step = "finalize"
  /\ \/ Become(w, [w EXCEPT !.step = "written"]) /\ UNCHANGED <<mem, faults>>
     \/ Fault /\ Become(w, WriteFailed(w, w.cur)) /\ UNCHANGED mem
     \/ /\ Fault /\ mem' = [mem EXCEPT ![w.cur].st = "orphan"]
        /\ Become(w, Noted(w, w.cur, "failed"))
  /\ UNCHANGED <<job, slots, merged, evid, up>>

\* run_claim_side_effect checks the claim again; a lost one is a failure and no
\* owner is looked up for it.
LeaveFence(w) ==
  /\ w.step = "written"
  /\ Become(w, Noted(w, w.cur, IF Matches(w) THEN w.note[w.cur] ELSE "failed"))
  /\ UNCHANGED <<job, slots, mem, merged, evid, up, faults>>

\* The memory store fails before a row is inserted or before it is activated: the
\* exception ends the fence unchecked.
WriteError(w) ==
  /\ Fault
  /\ \/ /\ w.step = "store" /\ SourceLockFree /\ Matches(w)
        /\ \E k \in w.todo : w.note[k] = "allow" /\ Become(w, WriteFailed(w, k))
     \/ /\ w.step \in {"staged", "checked"}
        /\ Become(w, WriteFailed(w, w.cur))
  /\ UNCHANGED <<job, slots, mem, merged, evid, up>>

BuildOutcome(w) ==
  /\ w.step = "store" /\ w.todo = {}
  /\ Become(w, [w EXCEPT !.step = "commit"])
  /\ UNCHANGED <<job, slots, mem, merged, evid, up, faults>>

-----------------------------------------------------------------------------
(* Closing the window *)

\* Faulty variant of CommittedSlot: an owner is recorded for every candidate.
CommittedSlotOwned(w, k) ==
  [st |-> IF w.note[k] = "failed" THEN "failed" ELSE "committed",
   disp |-> w.note[k], own |-> k]

CommittedSlot(w, k) ==
  [st   |-> IF w.note[k] = "failed" THEN "failed" ELSE "committed",
   disp |-> w.note[k],
   own  |-> IF OwnerOf(k, w.note[k]) # None THEN OwnerOf(k, w.note[k]) ELSE slots[k].own]

\* The outcome names other owners, or other slots, than the ledger.
Disagrees(w) ==
  \/ w.out = "mismatch"
  \/ w.out = "nofacts" /\ \E k \in Slots : slots[k].st # "absent"
  \/ w.out = "unknown" /\ \E k \in Slots : slots[k].own # None
  \/ w.out = "none" /\ \E k \in Slots :
       slots[k].st = "unknown" \/ slots[k].own \notin {None, OwnerOf(k, w.note[k])}

\* commit_window
CommitWindow(w) ==
  /\ w.step \in {"commit", "recommit"}
  /\ Leave(w)
  /\ \/ ~Matches(w) /\ UNCHANGED <<job, slots>>
     \/ Matches(w) /\ Disagrees(w) /\ MarkUnknown
     \/ /\ Matches(w) /\ ~Disagrees(w) /\ w.out = "nofacts"
        /\ job' = Released("completed") /\ UNCHANGED slots
     \/ /\ Matches(w) /\ ~Disagrees(w) /\ w.out = "unknown"
        /\ job' = Released("unknown")
        /\ slots' = [k \in Slots |-> [slots[k] EXCEPT !.st = "unknown", !.disp = "null"]]
     \/ /\ Matches(w) /\ ~Disagrees(w) /\ w.out = "none"
        /\ job' = IF \E k \in Slots : w.note[k] = "failed" THEN RetryOrBlock
                                                          ELSE Released("completed")
        /\ slots' = [k \in Slots |-> CommittedSlot(w, k)]
  /\ UNCHANGED <<mem, merged, evid, up, faults>>

\* fail_window
FailWindow(w) ==
  /\ w.step = "fail"
  /\ Leave(w)
  /\ job' = IF ~Matches(w) THEN job
            ELSE IF w.out = "block" THEN Released("blocked") ELSE RetryOrBlock
  /\ UNCHANGED <<slots, mem, merged, evid, up, faults>>

\* _reconcile_commit_failure: commit_window failed; the owners of the outcome are
\* recorded first and the commit is tried once more.
ReconcileCommitFailure(w) ==
  /\ w.step = "commit" /\ Fault
  /\ ReconcileWindow(w, workers \ {w}, With(w, [w EXCEPT !.step = "recommit"]))
  /\ UNCHANGED <<mem, merged, evid, up>>

\* The conversation store fails: the task ends, the row keeps its lease.
LoseWorker(w) ==
  /\ w.step \in {"commit", "recommit", "fail"} /\ Fault
  /\ Leave(w)
  /\ UNCHANGED <<job, slots, mem, merged, evid, up>>

-----------------------------------------------------------------------------
(* Restarts and the operator *)

Crash ==
  /\ up /\ Fault
  /\ up' = FALSE /\ workers' = {}
  /\ UNCHANGED <<job, slots, mem, merged, evid>>

\* pause or close: the cancelled worker gives its claim back.
Stop ==
  /\ up /\ Fault
  /\ up' = FALSE /\ workers' = {}
  /\ job' = IF \E w \in workers : job.status = "running" /\ job.gen = w.gen
            THEN [Released("queued") EXCEPT !.att = IF @ > 0 THEN @ - 1 ELSE 0]
            ELSE job
  /\ UNCHANGED <<slots, mem, merged, evid>>

\* Faulty variant of Evidence: a slot without an owner counts as quarantined.
GuessedEvidence(k) ==
  [st   |-> "committed",
   disp |-> IF k \in merged THEN "merged" ELSE IF mem[k].st # "none" THEN "canonical"
            ELSE "quarantined",
   own  |-> IF k \in merged THEN Pre ELSE IF mem[k].st # "none" THEN k ELSE None]

\* What the startup reconcile makes of a slot that is writing or unknown: the
\* merged key, the row under the key, the quarantine store, else unknown.
Evidence(k) ==
  IF k \in merged /\ slots[k].own \in {None, Pre}
  THEN [st |-> "committed", disp |-> "merged", own |-> Pre]
  ELSE IF k \notin merged /\ mem[k].st # "none"
  THEN [st |-> "committed", disp |-> "canonical", own |-> k]
  ELSE IF k \notin merged /\ k \in evid
  THEN [st |-> "committed", disp |-> "quarantined", own |-> None]
  ELSE [st |-> "unknown", disp |-> "null", own |-> None]

\* start(): recover_expired_claims, then reconcile_startup_candidates.
Restart ==
  LET open    == {k \in Slots : slots[k].st \in {"writing", "unknown"}}
      scanned == open # {} \/ (Recovered.status = "running"
                               /\ \A k \in Slots : slots[k].st # "absent")
      after   == [k \in Slots |-> IF k \in open THEN Evidence(k) ELSE slots[k]]
      closed  == \A k \in Slots : after[k].st \in Closed
      failed  == \E k \in Slots : after[k].disp = "failed"
      mayEnd  == Recovered.status \in {"running", "unknown", "failed", "queued"} IN
  /\ ~up /\ up' = TRUE
  /\ slots' = IF scanned THEN after ELSE slots
  /\ job' = IF scanned /\ ~closed
            THEN [Recovered EXCEPT !.status = "unknown", !.live = FALSE]
            ELSE IF scanned /\ ~failed /\ mayEnd
            THEN [Recovered EXCEPT !.status = "completed", !.live = FALSE]
            ELSE Recovered
  /\ UNCHANGED <<mem, merged, evid, workers, faults>>

\* Faulty variant of Abandon: the slots are left as they are.
AbandonJobOnly ==
  /\ job.status \in {"blocked", "unknown"}
  /\ \A k \in Slots : slots[k].own = None /\ slots[k].disp \notin OwnerDispositions
  /\ job' = Released("abandoned")
  /\ UNCHANGED <<slots, mem, merged, evid, workers, up, faults>>

\* confirm_abandon_session_jobs: no owner in the ledger.
Abandon ==
  /\ job.status \in {"blocked", "unknown"}
  /\ \A k \in Slots : slots[k].own = None /\ slots[k].disp \notin OwnerDispositions
  /\ job' = Released("abandoned")
  /\ slots' = [k \in Slots |->
                 IF slots[k].st \in {"planned", "writing", "unknown"}
                 THEN [slots[k] EXCEPT !.st = "failed", !.disp = "failed"] ELSE slots[k]]
  /\ UNCHANGED <<mem, merged, evid, workers, up, faults>>

-----------------------------------------------------------------------------
Init ==
  /\ job = [status |-> "queued", att |-> 0, gen |-> 0, live |-> FALSE]
  /\ slots = [k \in Slots |-> [st |-> "absent", disp |-> "null", own |-> None]]
  /\ mem = [k \in Slots |-> [st |-> "none", by |-> 0]]
  /\ merged = {} /\ evid = {}
  /\ workers = {} /\ up = TRUE /\ faults = 0

WorkerStep(w) ==
  \/ BeginCandidateIntents(w) \/ FindCompletedKeys(w) \/ ReconcileOwners(w)
  \/ BeginCandidateWrite(w) \/ RouteQuality(w) \/ StoreDecided(w)
  \/ StoreAllowed(w) \/ AcceptSource(w) \/ ActivateSource(w) \/ FinalizeSource(w)
  \/ LeaveFence(w) \/ WriteError(w) \/ BuildOutcome(w) \/ CommitWindow(w)
  \/ FailWindow(w) \/ ReconcileCommitFailure(w) \/ LoseWorker(w)

Next ==
  \/ Claim \/ LeaseExpires \/ RecoverExpiredClaims \/ Crash \/ Stop \/ Restart
  \/ Abandon
  \/ \E w \in workers : WorkerStep(w)

Spec == Init /\ [][Next]_vars

-----------------------------------------------------------------------------
(* Properties *)

\* Type correctness; a worker holds the source lock exactly while it writes.
TypeOK ==
  /\ job \in Job /\ slots \in [Slots -> Slot] /\ mem \in [Slots -> Memory]
  /\ merged \subseteq Slots /\ evid \subseteq Slots
  /\ workers \subseteq Worker /\ up \in BOOLEAN /\ faults \in 0..MaxFaults
  /\ \A w \in workers :
       w.cur # None <=> w.step \in {"staged", "checked", "finalize", "written"}

\* A completed window leaves nothing open: every slot is committed, and what its
\* disposition claims exists in the other databases, whatever crashes, lost
\* leases and reconciles led there (commit_window, reconcile_startup_candidates).
CompletedIsBacked ==
  job.status = "completed" =>
    \A k \in Slots :
      /\ slots[k].st \in {"absent", "committed"}
      /\ slots[k].disp = "canonical" => slots[k].own = k /\ mem[k].st # "none"
      /\ slots[k].disp = "merged" => slots[k].own = Pre /\ k \in merged
      /\ slots[k].disp = "quarantined" => k \in evid

\* A completed or abandoned window and its ledger never change again, late
\* workers and restarts included.
SettledIsFinal ==
  [][job.status \in Settled => UNCHANGED <<job, slots>>]_vars

\* A fault in the read that follows the acceptance makes the row an orphan: the claim
\* that staged and accepted the row undoes its own acceptance.
TakenBack(k) ==
  /\ mem'[k] = [mem[k] EXCEPT !.st = "orphan"] /\ faults' # faults
  /\ \E w \in workers : w.step = "finalize" /\ w.cur = k /\ w.gen = mem[k].by

\* The verdict on a row is final for every other worker: a late one, a retry or a
\* restart never rejects an accepted memory and never activates a rejected one
\* (_apply_summary_source_state).  Only the claim that accepted a row can take this
\* back, before it leaves the fence and only because its read-back failed.
AcceptanceIsFinal ==
  [][\A k \in Slots :
       /\ mem[k].st = "accepted" => mem'[k] = mem[k] \/ TakenBack(k)
       /\ mem[k].st = "orphan" => mem'[k] = mem[k]]_vars

\* The ledger never names an owner that is not there (reconcile_window).
OwnersExist ==
  \A k \in Slots :
    /\ slots[k].own = Pre => k \in merged
    /\ slots[k].own \in Slots => slots[k].own = k /\ mem[k].st # "none"

\* Staged and rejected owners must not advance the window: a completed window's
\* canonical slots are accepted memories (_find_completed_keys).
CompletedIsRecallable ==
  job.status = "completed" =>
    \A k \in Slots : slots[k].disp = "canonical" => mem[k].st = "accepted"

=============================================================================
