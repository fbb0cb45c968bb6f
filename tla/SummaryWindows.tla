--------------------------- MODULE SummaryWindows ---------------------------
(***************************************************************************)
(* The durable summary-window store of the conversation feature and the   *)
(* scheduler that works through it.                                        *)
(*                                                                         *)
(* Messages of a session carry consecutive sequence numbers.  A planner    *)
(* cuts them into fixed windows (start, end], stored as rows of            *)
(* summary_jobs; the claim loop leases rows to workers; a worker reads the *)
(* window's source, extracts candidates, records them in a ledger, runs    *)
(* side effects under a per-session source lock and closes the row.  A     *)
(* cursor per session moves over the contiguous closed prefix, and only    *)
(* messages below it may ever be trimmed.  Clearing a session starts a new *)
(* epoch and fences everything that belongs to the old one.                *)
(*                                                                         *)
(* One SQLite transaction of the code is one atomic step here; what lies   *)
(* between two awaits of a caller is interleaved with everything else.     *)
(* Time is relative: lease and wait are the remaining ticks of a row.      *)
(***************************************************************************)
EXTENDS Integers, FiniteSets, FiniteSetsExt

CONSTANTS
  Sessions,       \* session ids, numbers: round-robin compares them
  WindowSize,     \* messages in a full window
  MaxAttempts,    \* claims a row may consume before it is blocked
  LeaseTicks,     \* life of a lease without a heartbeat
  RetryTicks,     \* back-off of a failed row
  MaxParallel,    \* workers at a time
  MaxPerSession,  \* live leases of one session at a time
  Tokens,         \* claim tokens: fresh means held by nobody for this row
  MaxSeq,         \* bound: highest message number of an epoch
  MaxEpoch,       \* bound: clears of a session + 1
  MaxRequests,    \* bound: planning requests in flight
  MaxFaults       \* bound: crashes, pauses, store errors, source edits

ASSUME ConstantsAssumption ==
  /\ Sessions \subseteq Nat
  /\ WindowSize \in Nat /\ WindowSize >= 2
  /\ MaxAttempts \in Nat \ {0} /\ LeaseTicks \in Nat \ {0} /\ RetryTicks \in Nat
  /\ MaxParallel \in Nat \ {0} /\ MaxPerSession \in Nat \ {0}
  /\ MaxSeq \in Nat /\ MaxEpoch \in Nat \ {0}
  /\ MaxRequests \in Nat /\ MaxFaults \in Nat

NoToken == "none"

ASSUME TokensAssumption == NoToken \notin Tokens

VARIABLES
  epoch,    \* session_epochs.epoch
  cursor,   \* session_epochs.cursor_seq
  msgs,     \* message_seq values stored per session
  total,    \* number of rows of summary_jobs; row ids are 1..total
  jobs,     \* summary_jobs, in creation order
  rr,       \* summary_store_meta: persisted round-robin session (0: none)
  reqs,     \* planning requests that read their context but not yet planned
  phase,    \* life cycle of the scheduler
  todo,     \* sessions the startup planner has not reached
  fetched,  \* claims returned by claim_ready and not yet registered
  workers,  \* running worker tasks with their claim
  quar,     \* rows with a candidate pending in the quarantine store
  faults    \* faults injected so far

store == <<epoch, cursor, msgs, total, jobs, rr, quar>>
vars  == <<store, reqs, phase, todo, fetched, workers, faults>>

Statuses == {"queued", "running", "failed", "completed", "blocked", "unknown",
             "cancelled", "abandoned"}
Done     == {"completed", "abandoned"}
Open     == {"queued", "running", "failed", "blocked", "unknown"}

\* Ledger of a window: no slots, slots planned only, some slot writing or
\* unknown, every slot committed or failed.
LedgerStates == {"none", "planned", "open", "closed"}

Job == [s: Sessions, e: 1..MaxEpoch, start: 0..MaxSeq, end: 0..MaxSeq,
        status: Statuses, att: 0..MaxAttempts, wait: 0..RetryTicks,
        tok: Tokens \cup {NoToken}, lease: 0..LeaseTicks,
        intact: BOOLEAN, led: LedgerStates]

Rows            == DOMAIN jobs
Of(js, s, e)    == {j \in DOMAIN js : js[j].s = s /\ js[j].e = e}
Covers(job, q)  == job.start < q /\ q <= job.end
Source(job)     == (job.start + 1)..job.end
Current(j)      == jobs[j].e = epoch[jobs[j].s]

Request == [s: Sessions, e: 1..MaxEpoch, start: 0..MaxSeq, end: 0..MaxSeq,
            manual: BOOLEAN]

Steps   == {"read", "extract", "intents", "owners", "begin", "gate", "fenced",
            "commit", "fail"}
Verdicts == {"none", "nofacts", "completed", "failed", "unknown", "retry", "block"}
Claim   == [j: Nat, tok: Tokens, rejected: BOOLEAN]
Worker  == [j: Nat, tok: Tokens, step: Steps, out: Verdicts]
Phases  == {"down", "recover", "reconcile", "plan", "up", "stopping", "failed"}

-----------------------------------------------------------------------------
(* Reading the store *)

\* get_message_seq_end: stored messages and the cursor define the high water.
HighWater(s) == Max(msgs[s] \cup {cursor[s]})

\* _validated_frontier: the windows of the epoch that end above the cursor
\* must tile it without gap or overlap; f is where they stop.
FrontierAt(s, f) ==
  LET W == Of(jobs, s, epoch[s]) IN
  /\ f >= cursor[s]
  /\ \A j \in W : jobs[j].end > cursor[s] =>
                   cursor[s] <= jobs[j].start /\ jobs[j].end <= f
  /\ \A q \in (cursor[s] + 1)..f :
       \E j \in W : /\ Covers(jobs[j], q)
                    /\ \A k \in W : Covers(jobs[k], q) => k = j

\* Faulty variant of StopsAt: unknown windows count as closed.
StopsAtUnknown(js, s, e, c, t) ==
  LET D == {j \in Of(js, s, e) : js[j].status \in Done \cup {"unknown"}} IN
  /\ t >= c
  /\ \A q \in (c + 1)..t :
       \E j \in D : Covers(js[j], q) /\ c <= js[j].start /\ js[j].end <= t
  /\ \A j \in D : js[j].start # t

\* _advance_cursor walks closed windows that start exactly where the previous
\* one ended; from c the walk stops at t.
StopsAt(js, s, e, c, t) ==
  LET D == {j \in Of(js, s, e) : js[j].status \in Done} IN
  /\ t >= c
  /\ \A q \in (c + 1)..t :
       \E j \in D : Covers(js[j], q) /\ c <= js[j].start /\ js[j].end <= t
  /\ \A j \in D : js[j].start # t

\* The rows become js and the cursors of the sessions S are advanced over them.
\* Only the row (session, current epoch) of session_epochs exists, so a call
\* for an older epoch updates nothing.
StoreJobs(js, S) ==
  /\ jobs' = js
  /\ cursor' \in [Sessions -> 0..MaxSeq]
  /\ \A s \in Sessions :
       IF s \in S THEN StopsAt(js, s, epoch[s], cursor[s], cursor'[s])
                  ELSE cursor'[s] = cursor[s]

\* Faulty variant of StoreJob: the cursor is not advanced.
StoreJobNoAdvance(j, job) == StoreJobs([jobs EXCEPT ![j] = job], {})

\* Row j is replaced, then its session's cursor is advanced.
StoreJob(j, job) == StoreJobs([jobs EXCEPT ![j] = job], {jobs[j].s})

\* _claim_matches: the claim still owns the row and its lease is alive.
Matches(c) ==
  /\ jobs[c.j].status = "running"
  /\ jobs[c.j].tok = c.tok
  /\ jobs[c.j].lease > 0
  /\ Current(c.j)

\* Faulty variant of SourceLockFree: deleting does not wait for side effects.
SourceLockIgnored(s) == TRUE

\* The source lock of a session is held by the worker inside a side effect.
SourceLockFree(s) == \A w \in workers : w.step = "fenced" => jobs[w.j].s # s

Released(job, status) ==
  [job EXCEPT !.status = status, !.tok = NoToken, !.lease = 0]

Fault == faults < MaxFaults /\ faults' = faults + 1

-----------------------------------------------------------------------------
(* Messages *)

\* add_message
AddMessage(s) ==
  LET q == HighWater(s) + 1 IN
  /\ q \in 1..MaxSeq
  /\ msgs' = [msgs EXCEPT ![s] = @ \cup {q}]
  /\ UNCHANGED <<epoch, cursor, total, jobs, rr, quar, reqs, phase, todo,
                 fetched, workers, faults>>

\* Rows of s whose digest was taken over message q no longer match it.
Tainted(s, q) ==
  [j \in Rows |-> IF jobs[j].s = s /\ Current(j) /\ Covers(jobs[j], q)
                  THEN [jobs[j] EXCEPT !.intact = FALSE] ELSE jobs[j]]

\* update_user_sender_name, update_message_metadata: edit a stored message.
EditMessage(s) ==
  \E q \in msgs[s] :
    /\ Fault
    /\ jobs' = Tainted(s, q)
    /\ UNCHANGED <<epoch, cursor, msgs, total, rr, quar, reqs, phase, todo,
                   fetched, workers>>

\* cleanup_injected_memories_from_db deletes any message, without source lock.
DeleteMessage(s) ==
  \E q \in msgs[s] :
    /\ Fault
    /\ jobs' = Tainted(s, q)
    /\ msgs' = [msgs EXCEPT ![s] = @ \ {q}]
    /\ UNCHANGED <<epoch, cursor, total, rr, quar, reqs, phase, todo, fetched,
                   workers>>

-----------------------------------------------------------------------------
(* Planning *)

\* A handler reads epoch, cursor and high water, then calls the scheduler.
ReadContext(s) ==
  \E manual \in BOOLEAN, obs \in 0..MaxSeq :
    /\ Cardinality(reqs) < MaxRequests
    /\ obs = HighWater(s)
    /\ reqs' = reqs \cup {[s |-> s, e |-> epoch[s], start |-> cursor[s],
                           end |-> obs, manual |-> manual]}
    /\ UNCHANGED <<store, phase, todo, fetched, workers, faults>>

\* Faulty variants: the first message of a window is skipped; the tail is
\* rounded up to a full window.
WindowStartPast(f, k) == f + (k - 1) * WindowSize + 1
WindowEndRounded(f, obs, k) == f + k * WindowSize

\* The windows cut from (f, obs]: full ones, then a tail of at least two.
FullWindows(f, obs) == (obs - f) \div WindowSize
NewWindows(f, obs) ==
  LET n == FullWindows(f, obs) IN
  IF (obs - f) - n * WindowSize >= 2 THEN n + 1 ELSE n
WindowStart(f, k) == f + (k - 1) * WindowSize
WindowEnd(f, obs, k) ==
  IF k <= FullWindows(f, obs) THEN f + k * WindowSize ELSE obs

\* Faulty variant of NewJob: the source is not checked for gaps.
NewJobUnchecked(s, start, end) ==
  [s |-> s, e |-> epoch[s], start |-> start, end |-> end, status |-> "queued",
   att |-> 0, wait |-> 0, tok |-> NoToken, lease |-> 0, intact |-> TRUE,
   led |-> "none"]

\* A new row: queued when its source is complete, blocked otherwise.
NewJob(s, start, end) ==
  [s |-> s, e |-> epoch[s], start |-> start, end |-> end,
   status |-> IF (start + 1)..end \subseteq msgs[s] THEN "queued" ELSE "blocked",
   att |-> 0, wait |-> 0, tok |-> NoToken, lease |-> 0,
   intact |-> (start + 1)..end \subseteq msgs[s], led |-> "none"]

\* plan_and_enqueue_windows past its fences: frontier f, high water obs.
Enqueue(s, f, obs) ==
  LET m == NewWindows(f, obs) IN
  /\ total' = total + m
  /\ StoreJobs([j \in 1..(total + m) |->
                  IF j <= total THEN jobs[j]
                  ELSE NewJob(s, WindowStart(f, j - total),
                                 WindowEnd(f, obs, j - total))], {s})
  /\ UNCHANGED <<epoch, msgs, rr, quar>>

HasBlocker(s) ==
  \E j \in Of(jobs, s, epoch[s]) : jobs[j].status \in {"blocked", "unknown"}

\* Faulty variant of Accepted: windows start at the cursor of the request.
AcceptedAtCursor(r, f) ==
  /\ phase \in {"recover", "up"}
  /\ r.e = epoch[r.s] /\ r.start = cursor[r.s]
  /\ f = r.start /\ f <= r.end

\* The scheduler refuses while it does not accept enqueues, the store when the
\* context is stale, when a manual run meets a blocked or unknown window, and
\* when the high water lies below the frontier.
Accepted(r, f) ==
  /\ phase \in {"recover", "up"}
  /\ r.e = epoch[r.s] /\ r.start = cursor[r.s]
  /\ r.manual => ~HasBlocker(r.s)
  /\ ~r.manual => r.end - r.start >= WindowSize
  /\ FrontierAt(r.s, f) /\ f <= r.end

\* enqueue_automatic, enqueue_manual: wait while start() holds the life cycle
\* lock ("recover" is resume() having accepted enqueues before start() runs).
Plan(r) ==
  /\ phase \notin {"reconcile", "plan"}
  /\ reqs' = reqs \ {r}
  /\ \/ \E f \in 0..MaxSeq : Accepted(r, f) /\ Enqueue(r.s, f, r.end)
     \/ (\A f \in 0..MaxSeq : ~Accepted(r, f)) /\ UNCHANGED store
  /\ UNCHANGED <<phase, todo, fetched, workers, faults>>

-----------------------------------------------------------------------------
(* Claiming *)

Ready ==
  {j \in Rows : /\ jobs[j].status \in {"queued", "failed"}
                /\ jobs[j].att < MaxAttempts
                /\ jobs[j].wait = 0
                /\ Current(j)}

Live(s) ==
  {j \in Of(jobs, s, epoch[s]) : jobs[j].status = "running" /\ jobs[j].lease > 0}
AllLive == UNION {Live(s) : s \in Sessions}

\* Faulty variants of Claimable: without the cap of a session; without wrapping
\* round to the sessions before the round-robin cursor.
ClaimableUncapped ==
  {j \in Ready : \A k \in Ready : jobs[k].s = jobs[j].s => j <= k}
ClaimableNoWrap ==
  {j \in Ready : /\ \A k \in Ready : jobs[k].s = jobs[j].s => j <= k
                 /\ Cardinality(Live(jobs[j].s)) < MaxPerSession
                 /\ jobs[j].s > rr}

\* The earliest ready row of each session that is below its parallel cap.
Claimable ==
  {j \in Ready : /\ \A k \in Ready : jobs[k].s = jobs[j].s => j <= k
                 /\ Cardinality(Live(jobs[j].s)) < MaxPerSession}

\* Sort key of claim_ready: by session while no round-robin cursor exists, then
\* the sessions after the cursor first; creation order within a rank.
Rank(j) == IF rr = 0 THEN jobs[j].s ELSE IF jobs[j].s > rr THEN 0 ELSE 1
Before(i, j) == Rank(i) < Rank(j) \/ (Rank(i) = Rank(j) /\ i < j)

Held(j) == {c.tok : c \in {d \in fetched \cup workers : d.j = j}}
\* Faulty variant of FreshToken: tokens repeat.
AnyToken(j) == CHOOSE t \in Tokens : TRUE
FreshToken(j) == CHOOSE t \in Tokens : t \notin Held(j)

Claimed(job, t) ==
  [job EXCEPT !.status = "running", !.att = @ + 1, !.tok = t,
              !.lease = LeaseTicks]

\* The batch C is a prefix of the claimable rows in claim order.
IsBatch(C) ==
  /\ C # {}
  /\ Cardinality(C) <= MaxParallel - Cardinality(workers)
  /\ Cardinality(C) <= MaxParallel - Cardinality(AllLive)
  /\ \A i \in C, j \in Claimable \ C : Before(i, j)
  /\ \/ C = Claimable
     \/ Cardinality(C) = MaxParallel - Cardinality(workers)
     \/ Cardinality(C) = MaxParallel - Cardinality(AllLive)

\* claim_ready, called by _claim_once when a worker slot is free.
ClaimReady ==
  /\ phase = "up" /\ fetched = {}
  /\ \E C \in SUBSET Claimable :
       /\ IsBatch(C)
       /\ \A j \in C : \E t \in Tokens : t \notin Held(j)
       /\ jobs' = [j \in Rows |-> IF j \in C THEN Claimed(jobs[j], FreshToken(j))
                                            ELSE jobs[j]]
       /\ fetched' = {[j |-> j, tok |-> FreshToken(j), rejected |-> FALSE] : j \in C}
       /\ \E last \in C : /\ \A i \in C \ {last} : Before(i, last)
                          /\ rr' = jobs[last].s
  /\ UNCHANGED <<epoch, cursor, msgs, total, quar, reqs, phase, todo, workers,
                 faults>>

\* _register_claims: start a worker per claim whose session has a free slot;
\* a worker that lost its lease still occupies one until its task ends.
Register ==
  LET room(c) == Cardinality({w \in workers : jobs[w.j].s = jobs[c.j].s})
                   < MaxPerSession IN
  /\ phase = "up"
  /\ \E c \in fetched : ~c.rejected
  /\ workers' = workers \cup {[j |-> c.j, tok |-> c.tok, step |-> "read", out |-> "none"] :
                               c \in {d \in fetched : room(d)}}
  /\ fetched' = {[c EXCEPT !.rejected = TRUE] : c \in {d \in fetched : ~room(d)}}
  /\ UNCHANGED <<store, reqs, phase, todo, faults>>

\* Faulty variant of Requeue: ownership of the row is not checked.
RequeueBlindly(c) ==
  /\ StoreJob(c.j, [Released(jobs[c.j], "queued") EXCEPT
                      !.att = IF @ > 0 THEN @ - 1 ELSE 0, !.wait = 0])
  /\ UNCHANGED <<epoch, msgs, total, rr, quar>>

\* requeue_claim: only the current token of a running row is given back, and
\* the attempt is not counted.
Requeue(c) ==
  IF jobs[c.j].status = "running" /\ jobs[c.j].tok = c.tok
  THEN /\ StoreJob(c.j, [Released(jobs[c.j], "queued") EXCEPT
                            !.att = IF @ > 0 THEN @ - 1 ELSE 0, !.wait = 0])
       /\ UNCHANGED <<epoch, msgs, total, rr, quar>>
  ELSE UNCHANGED store

\* The claim loop gives rejected claims back before it continues.
RequeueRejected(c) ==
  /\ c.rejected
  /\ Requeue(c)
  /\ fetched' = fetched \ {c}
  /\ UNCHANGED <<reqs, phase, todo, workers, faults>>

\* renew_claim, by the heartbeat of a worker that has not finished.
Renew(w) ==
  /\ w.step \notin {"commit", "fail"}
  /\ Matches(w) /\ jobs[w.j].lease < LeaseTicks
  /\ jobs' = [jobs EXCEPT ![w.j].lease = LeaseTicks]
  /\ UNCHANGED <<epoch, cursor, msgs, total, rr, quar, reqs, phase, todo,
                 fetched, workers, faults>>

Ticked(job) ==
  [job EXCEPT !.lease = IF @ > 0 THEN @ - 1 ELSE 0,
              !.wait  = IF @ > 0 THEN @ - 1 ELSE 0]

\* The clock: leases run out and back-offs end.
Tick ==
  /\ \E j \in Rows : jobs[j].lease > 0 \/ jobs[j].wait > 0
  /\ jobs' = [j \in Rows |-> Ticked(jobs[j])]
  /\ UNCHANGED <<epoch, cursor, msgs, total, rr, quar, reqs, phase, todo,
                 fetched, workers, faults>>

\* Faulty variant of Expired: leases that are still alive are recovered.
ExpiredEarly == {j \in Rows : jobs[j].status = "running"}
Expired == {j \in Rows : jobs[j].status = "running" /\ jobs[j].lease = 0}

\* recover_expired_claims
RecoverExpiredClaims ==
  /\ StoreJobs([j \in Rows |->
                  IF j \in Expired
                  THEN Released(jobs[j], IF jobs[j].att >= MaxAttempts THEN "blocked"
                                                                    ELSE "queued")
                  ELSE jobs[j]],
               {jobs[j].s : j \in Expired})
  /\ UNCHANGED <<epoch, msgs, total, rr, quar>>

\* Every round of the claim loop starts with a recovery.
LoopRecover ==
  /\ phase = "up" /\ fetched = {} /\ Expired # {}
  /\ RecoverExpiredClaims
  /\ UNCHANGED <<reqs, phase, todo, fetched, workers, faults>>

-----------------------------------------------------------------------------
(* A worker: SummaryWorker.execute under _run_claim *)

Move(w, step, out) ==
  workers' = (workers \ {w}) \cup {[w EXCEPT !.step = step, !.out = out]}

\* _read_source: a changed or incomplete source is not retryable; a lost claim
\* is reported as a retryable failure.
ReadSource(w) ==
  /\ phase = "up" /\ w.step = "read"
  /\ IF ~Matches(w) THEN Move(w, "fail", "retry")
     ELSE IF jobs[w.j].intact THEN Move(w, "extract", "none")
     ELSE Move(w, "fail", "block")
  /\ UNCHANGED <<store, reqs, phase, todo, fetched, faults>>

\* The provider call: candidates, no facts, or a failure.
Extract(w) ==
  /\ phase = "up" /\ w.step = "extract"
  /\ \/ Move(w, "intents", "none")
     \/ Move(w, "commit", "nofacts")
     \/ Move(w, "fail", "retry")
     \/ Move(w, "fail", "block")
  /\ UNCHANGED <<store, reqs, phase, todo, fetched, faults>>

SetLedger(j, led) ==
  /\ jobs' = [jobs EXCEPT ![j].led = led]
  /\ UNCHANGED <<epoch, cursor, msgs, total, rr, quar>>

\* begin_candidate_intents: insert the slots, or find the ones of an earlier
\* attempt; candidates that differ from those are refused.
BeginCandidateIntents(w) ==
  /\ phase = "up" /\ w.step = "intents"
  /\ \/ /\ Matches(w) /\ jobs[w.j].led = "none"
        /\ SetLedger(w.j, "planned")
        /\ Move(w, "begin", "none")
     \/ /\ Matches(w) /\ jobs[w.j].led # "none"
        /\ Move(w, "owners", "none")
        /\ UNCHANGED store
     \/ /\ ~Matches(w) \/ jobs[w.j].led # "none"
        /\ Move(w, "commit", "unknown")
        /\ UNCHANGED store
  /\ UNCHANGED <<reqs, phase, todo, fetched, faults>>

\* _mark_unknown_claim: slots that are not closed become unknown with the row;
\* the cursor is not touched.
Unsettled(job) ==
  [Released(job, "unknown") EXCEPT
     !.led = IF job.led = "planned" THEN "open" ELSE job.led]

MarkUnknown(j) ==
  /\ jobs' = [jobs EXCEPT ![j] = Unsettled(@)]
  /\ UNCHANGED <<epoch, cursor, msgs, total, rr, quar>>

\* _reconcile_discovered_owners and reconcile_window: owners an earlier attempt
\* left in the canonical store are mapped to its slots under the source lock.
\* A closed slot that failed, or a mapping that contradicts the ledger, makes
\* the row unknown.
ReconcileOwners(w) ==
  /\ phase = "up" /\ w.step = "owners"
  /\ \/ Move(w, "begin", "none") /\ UNCHANGED store
     \/ /\ SourceLockFree(jobs[w.j].s)
        /\ Move(w, "commit", "unknown")
        /\ IF Matches(w) /\ jobs[w.j].led # "planned" THEN MarkUnknown(w.j)
                                                      ELSE UNCHANGED store
  /\ UNCHANGED <<reqs, phase, todo, fetched, faults>>

\* _begin_candidate_writes: planned slots become writing; a slot that is
\* already unknown refuses.
BeginCandidateWrites(w) ==
  /\ phase = "up" /\ w.step = "begin"
  /\ \/ /\ Matches(w) /\ jobs[w.j].led # "none"
        /\ SetLedger(w.j, IF jobs[w.j].led = "planned" THEN "open" ELSE jobs[w.j].led)
        /\ Move(w, "gate", "none")
     \/ /\ ~Matches(w) \/ jobs[w.j].led = "open"
        /\ Move(w, "commit", "unknown")
        /\ UNCHANGED store
  /\ UNCHANGED <<reqs, phase, todo, fetched, faults>>

\* run_claim_side_effect: take the source lock, then check the claim.
EnterFence(w) ==
  /\ phase = "up" /\ w.step = "gate"
  /\ SourceLockFree(jobs[w.j].s)
  /\ IF Matches(w) THEN Move(w, "fenced", "none") ELSE Move(w, "commit", "unknown")
  /\ UNCHANGED <<store, reqs, phase, todo, fetched, faults>>

\* The side effect: a candidate is staged in the quarantine store, or written
\* to the canonical store; then the claim is checked again and the lock freed.
RunSideEffect(w) ==
  /\ phase = "up" /\ w.step = "fenced"
  /\ quar' \in {quar, quar \cup {w.j}}
  /\ IF Matches(w) THEN Move(w, "gate", "none")
     ELSE \E out \in {"failed", "unknown"} : Move(w, "commit", out)
  /\ UNCHANGED <<epoch, cursor, msgs, total, jobs, rr, reqs, phase, todo,
                 fetched, faults>>

\* _build_outcome: every candidate is routed.  A lost claim seen before a
\* side effect ends the attempt without an outcome.
BuildOutcome(w) ==
  /\ phase = "up" /\ w.step = "gate"
  /\ \/ \E out \in {"completed", "failed", "unknown"} : Move(w, "commit", out)
     \/ ~Matches(w) /\ Move(w, "fail", "block")
  /\ UNCHANGED <<store, reqs, phase, todo, fetched, faults>>

\* Faulty variant of RetryOrBlock: off by one at the attempt limit.
RetryOnceMore(job) ==
  IF job.att > MaxAttempts THEN Released(job, "blocked")
  ELSE [Released(job, "failed") EXCEPT !.wait = RetryTicks]

RetryOrBlock(job) ==
  IF job.att >= MaxAttempts THEN Released(job, "blocked")
  ELSE [Released(job, "failed") EXCEPT !.wait = RetryTicks]

\* The row commit_window writes for an outcome that agrees with the ledger.
Settled(job, out) ==
  CASE out = "nofacts"   -> Released(job, "completed")
    [] out = "completed" -> [Released(job, "completed") EXCEPT !.led = "closed"]
    [] out = "failed"    -> [RetryOrBlock(job) EXCEPT !.led = "closed"]
    [] OTHER             -> [Released(job, "unknown") EXCEPT !.led = "open"]

\* commit_window.  Slots that are not the ledger's, or owners that contradict
\* it, make the row unknown; "no facts" has no slots.  A lost claim commits
\* nothing, and the reconcile that follows it fails at the same fence; a commit
\* that failed otherwise is reconciled and tried again, with these outcomes.
CommitWindow(w) ==
  /\ phase = "up" /\ w.step = "commit"
  /\ workers' = workers \ {w}
  /\ \/ /\ Matches(w)
        /\ (w.out = "nofacts") <=> (jobs[w.j].led = "none")
        /\ StoreJob(w.j, Settled(jobs[w.j], w.out))
        /\ UNCHANGED <<epoch, msgs, total, rr, quar>>
     \/ /\ Matches(w)
        /\ w.out = "nofacts" => jobs[w.j].led # "none"
        /\ MarkUnknown(w.j)
     \/ ~Matches(w) /\ UNCHANGED store
  /\ UNCHANGED <<reqs, phase, todo, fetched, faults>>

\* fail_window
FailWindow(w) ==
  /\ phase = "up" /\ w.step = "fail"
  /\ workers' = workers \ {w}
  /\ IF Matches(w)
     THEN /\ StoreJob(w.j, IF w.out = "block" THEN Released(jobs[w.j], "blocked")
                                             ELSE RetryOrBlock(jobs[w.j]))
          /\ UNCHANGED <<epoch, msgs, total, rr, quar>>
     ELSE UNCHANGED store
  /\ UNCHANGED <<reqs, phase, todo, fetched, faults>>

\* The store is unavailable when the window should be closed: the task ends and
\* the row keeps its lease for a later recovery.
LoseWorker(w) ==
  /\ phase = "up" /\ w.step \in {"commit", "fail"}
  /\ Fault
  /\ workers' = workers \ {w}
  /\ UNCHANGED <<store, reqs, phase, todo, fetched>>

-----------------------------------------------------------------------------
(* Life cycle of the scheduler *)

\* Pausing and closing cancel the claim loop and every worker: a claim that was
\* fetched and not registered is forgotten.
Pause ==
  /\ phase = "up" /\ Fault
  /\ phase' = "stopping" /\ fetched' = {}
  /\ UNCHANGED <<store, reqs, todo, workers>>

\* A cancelled worker gives its claim back.
CancelWorker(w) ==
  /\ phase = "stopping"
  /\ Requeue(w)
  /\ workers' = workers \ {w}
  /\ UNCHANGED <<reqs, phase, todo, fetched, faults>>

Stopped ==
  /\ phase = "stopping" /\ workers = {}
  /\ phase' = "down"
  /\ UNCHANGED <<store, reqs, todo, fetched, workers, faults>>

\* The process dies: only the databases survive.
Crash ==
  /\ phase # "down" /\ Fault
  /\ phase' = "down" /\ todo' = {}
  /\ fetched' = {} /\ workers' = {} /\ reqs' = {}
  /\ UNCHANGED store

\* A new process, or resume(), calls start(); so does a retry after a failure.
Start ==
  /\ phase \in {"down", "failed"}
  /\ phase' = "recover"
  /\ UNCHANGED <<store, reqs, todo, fetched, workers, faults>>

StartRecover ==
  /\ phase = "recover"
  /\ RecoverExpiredClaims
  /\ phase' = "reconcile"
  /\ UNCHANGED <<reqs, todo, fetched, workers, faults>>

\* Rows reconcile_startup_candidates scans: a slot is writing or unknown, or the
\* row is running and has slots.
Scanned ==
  {j \in Rows : \/ jobs[j].led = "open"
                \/ jobs[j].status = "running" /\ jobs[j].led # "none"}

\* What the evidence in the canonical and quarantine stores can make of a
\* scanned row: fenced by its epoch, unresolved, resolved with a failed slot
\* (left as it is), or resolved completely.
Reconciled(j) ==
  LET job == jobs[j]
      unresolved == Released(job, "unknown")
      closed     == [job EXCEPT !.led = "closed"]
      completed  == IF job.status \in {"running", "unknown", "failed", "queued"}
                    THEN Released(closed, "completed") ELSE closed IN
  IF ~Current(j) \/ job.led = "planned" THEN {unresolved}
  ELSE IF job.led = "open" THEN {unresolved, closed, completed}
  ELSE {closed, completed}

StartReconcile ==
  /\ phase = "reconcile"
  /\ \E r \in [Scanned -> UNION {Reconciled(j) : j \in Scanned}] :
       /\ \A j \in Scanned : r[j] \in Reconciled(j)
       /\ StoreJobs([j \in Rows |-> IF j \in Scanned THEN r[j] ELSE jobs[j]],
                    {r[j].s : j \in {k \in Scanned : r[k].status = "completed"}})
  /\ phase' = "plan" /\ todo' = Sessions
  /\ UNCHANGED <<epoch, msgs, total, rr, quar, reqs, fetched, workers, faults>>

\* plan_existing_frontiers, one session at a time in order; a frontier that is
\* missing or above the high water fails the whole start.
StartPlan ==
  /\ phase = "plan"
  /\ \E s \in todo, obs \in 0..MaxSeq :
       /\ \A r \in todo : s <= r
       /\ obs = HighWater(s)
       /\ \/ /\ \E f \in 0..obs : FrontierAt(s, f) /\ Enqueue(s, f, obs)
             /\ todo' = todo \ {s} /\ phase' = phase
          \/ /\ \A f \in 0..obs : ~FrontierAt(s, f)
             /\ todo' = {} /\ phase' = "failed"
             /\ UNCHANGED store
  /\ UNCHANGED <<reqs, fetched, workers, faults>>

Started ==
  /\ phase = "plan" /\ todo = {}
  /\ phase' = "up"
  /\ UNCHANGED <<store, reqs, todo, fetched, workers, faults>>

-----------------------------------------------------------------------------
(* Deleting sources *)

\* New epochs for the sessions S: rows still open are cancelled, messages go,
\* the cursor restarts.
NewEpoch(S, cancelled) ==
  /\ \A s \in S : epoch[s] < MaxEpoch
  /\ epoch'  = [s \in Sessions |-> IF s \in S THEN epoch[s] + 1 ELSE epoch[s]]
  /\ cursor' = [s \in Sessions |-> IF s \in S THEN 0 ELSE cursor[s]]
  /\ msgs'   = [s \in Sessions |-> IF s \in S THEN {} ELSE msgs[s]]
  /\ jobs'   = [j \in Rows |-> IF j \in cancelled /\ jobs[j].status \notin Done
                               THEN Released(jobs[j], "cancelled") ELSE jobs[j]]
  /\ UNCHANGED <<total, rr, quar, reqs, phase, todo, fetched, workers, faults>>

HasPendingQuarantine(s) == \E j \in quar : jobs[j].s = s

\* clear_session_atomically
ClearSession(s) ==
  /\ SourceLockFree(s)
  /\ ~HasPendingQuarantine(s)
  /\ NewEpoch({s}, Of(jobs, s, epoch[s]))

\* delete_old_sessions: sessions with a pending quarantine candidate are kept,
\* rows of every epoch are cancelled.
DeleteOldSessions ==
  \E S \in SUBSET Sessions :
    LET gone == {s \in S : ~HasPendingQuarantine(s)} IN
    /\ gone # {}
    /\ \A s \in S : SourceLockFree(s)
    /\ NewEpoch(gone, {j \in Rows : jobs[j].s \in gone})

\* cancel_session_jobs after a clear: local workers of the old epoch end, their
\* requeue no longer finds a running row.
CancelFencedWorker(w) ==
  /\ ~Current(w.j)
  /\ Requeue(w)
  /\ workers' = workers \ {w}
  /\ UNCHANGED <<reqs, phase, todo, fetched, faults>>

\* has_trim_blocker for the epoch e the caller read: an open or cancelled row, a
\* closed one whose ledger is not, or a closed one above the cursor.
HasTrimBlocker(s, e) ==
  \E j \in Of(jobs, s, e) :
    \/ jobs[j].status \notin Done
    \/ jobs[j].led \notin {"none", "closed"}
    \/ e = epoch[s] /\ jobs[j].start > cursor[s]

\* trim_if_safe deletes the n oldest messages at or below the cursor; for an
\* epoch that has passed there is no cursor, hence nothing to delete.
TrimIfSafe(s) ==
  \E e \in 1..epoch[s], n \in 1..MaxSeq :
    LET low == {q \in msgs[s] : e = epoch[s] /\ q <= cursor[s]}
        cut == {q \in low : Cardinality({p \in low : p <= q}) <= n} IN
    /\ SourceLockFree(s) /\ ~HasPendingQuarantine(s)
    /\ ~HasTrimBlocker(s, e)
    /\ cut # {}
    /\ msgs' = [msgs EXCEPT ![s] = @ \ cut]
    /\ UNCHANGED <<epoch, cursor, total, jobs, rr, quar, reqs, phase, todo,
                   fetched, workers, faults>>

\* confirm_abandon_session_jobs for the epoch e the caller read: blocked and
\* unknown rows without canonical evidence.  A row whose writes never began
\* has none; the ledger decides about the others.
ConfirmAbandon(s) ==
  \E e \in 1..epoch[s] : \E A \in SUBSET Of(jobs, s, e) :
    LET stuck == {j \in Of(jobs, s, e) : jobs[j].status \in {"blocked", "unknown"}} IN
    /\ A # {} /\ A \subseteq stuck
    /\ {j \in stuck : jobs[j].led \in {"none", "planned"}} \subseteq A
    /\ StoreJobs([j \in Rows |->
                    IF j \in A THEN [Released(jobs[j], "abandoned") EXCEPT
                                       !.led = IF @ = "none" THEN @ ELSE "closed"]
                    ELSE jobs[j]],
                 IF e = epoch[s] THEN {s} ELSE {})
    /\ UNCHANGED <<epoch, msgs, total, rr, quar, reqs, phase, todo, fetched,
                   workers, faults>>

\* A reviewer approves or rejects a quarantined candidate.
ReviewQuarantine(j) ==
  /\ quar' = quar \ {j}
  /\ UNCHANGED <<epoch, cursor, msgs, total, jobs, rr, reqs, phase, todo,
                 fetched, workers, faults>>

-----------------------------------------------------------------------------
Init ==
  /\ epoch = [s \in Sessions |-> 1] /\ cursor = [s \in Sessions |-> 0]
  /\ msgs = [s \in Sessions |-> {}]
  /\ total = 0 /\ jobs = [j \in 1..0 |-> 0]
  /\ rr = 0 /\ reqs = {} /\ phase = "down" /\ todo = {}
  /\ fetched = {} /\ workers = {} /\ quar = {} /\ faults = 0

SessionStep(s) ==
  \/ AddMessage(s) \/ EditMessage(s) \/ DeleteMessage(s) \/ ReadContext(s)
  \/ ClearSession(s) \/ TrimIfSafe(s) \/ ConfirmAbandon(s)

WorkerStep(w) ==
  \/ ReadSource(w) \/ Extract(w) \/ BeginCandidateIntents(w) \/ ReconcileOwners(w)
  \/ BeginCandidateWrites(w) \/ EnterFence(w) \/ RunSideEffect(w)
  \/ BuildOutcome(w) \/ CommitWindow(w) \/ FailWindow(w) \/ CancelWorker(w)

LoopStep ==
  \/ LoopRecover \/ ClaimReady \/ Register
  \/ \E c \in fetched : RequeueRejected(c)

StartStep == Start \/ StartRecover \/ StartReconcile \/ StartPlan \/ Started \/ Stopped

Next ==
  \/ \E s \in Sessions : SessionStep(s)
  \/ \E r \in reqs : Plan(r)
  \/ LoopStep \/ Tick \/ StartStep \/ Pause \/ Crash \/ DeleteOldSessions
  \/ \E w \in workers : WorkerStep(w) \/ Renew(w) \/ LoseWorker(w) \/ CancelFencedWorker(w)
  \/ \E j \in quar : ReviewQuarantine(j)

Spec == Init /\ [][Next]_vars

\* Scheduling the code guarantees: every round of the claim loop recovers, then
\* claims, and the next round follows after a bounded wait; a worker task runs
\* to its end (provider calls have timeouts, a window has finitely many
\* candidates); the clock advances; a scheduler that is down is started again.
\* Nothing is assumed of the heartbeat.
RowBound == MaxEpoch * MaxSeq * Cardinality(Sessions)
Fairness ==
  /\ SF_vars(LoopRecover) /\ WF_vars(ClaimReady) /\ WF_vars(Register)
  /\ WF_vars(\E c \in fetched : RequeueRejected(c))
  /\ \A j \in 1..RowBound :
       /\ WF_vars(\E w \in workers : w.j = j /\ WorkerStep(w))
       /\ SF_vars(\E w \in workers : w.j = j /\ BuildOutcome(w))
  /\ WF_vars(Tick) /\ WF_vars(StartStep)

FairSpec == Spec /\ Fairness

-----------------------------------------------------------------------------
(* Properties *)

\* Type correctness of the store and of the scheduler's state.
TypeOK ==
  /\ epoch \in [Sessions -> 1..MaxEpoch]
  /\ cursor \in [Sessions -> 0..MaxSeq]
  /\ msgs \in [Sessions -> SUBSET (1..MaxSeq)]
  /\ total \in Nat /\ jobs \in [1..total -> Job]
  /\ rr \in Sessions \cup {0}
  /\ reqs \subseteq Request
  /\ phase \in Phases /\ todo \subseteq Sessions
  /\ fetched \subseteq Claim /\ workers \subseteq Worker
  /\ \A c \in fetched \cup workers : c.j \in 1..total
  /\ quar \subseteq 1..total
  /\ faults \in 0..MaxFaults

\* Two windows of one epoch never share a message, whatever stale planning
\* requests, restarts and clears interleave (plan_and_enqueue_windows).
WindowsDisjoint ==
  \A i, j \in Rows :
    i # j /\ jobs[i].s = jobs[j].s /\ jobs[i].e = jobs[j].e
      => jobs[i].end <= jobs[j].start \/ jobs[j].end <= jobs[i].start

\* The cursor never passes a message that is not inside a completed or
\* abandoned window of the epoch (_advance_cursor and every caller of it).
CursorCovered ==
  \A s \in Sessions : \A q \in 1..cursor[s] :
    \E j \in Of(jobs, s, epoch[s]) : jobs[j].status \in Done /\ Covers(jobs[j], q)

\* The cursor never lags: no closed window starts at it, so no transaction that
\* closes a window forgets to advance.
CursorTight ==
  \A s \in Sessions : \A j \in Of(jobs, s, epoch[s]) :
    jobs[j].status \in Done => jobs[j].start # cursor[s]

\* The planner is never locked out by its own windows: above the cursor they
\* always tile a prefix, so _validated_frontier never answers None.
FrontierDefined == \A s \in Sessions : \E f \in 0..MaxSeq : FrontierAt(s, f)

\* As long as nobody edits its messages, a window that is not closed keeps all
\* of its source: neither trim nor a clear of another epoch takes any of it.
SourcesPreserved ==
  \A j \in Rows :
    Current(j) /\ jobs[j].status \in Open /\ jobs[j].intact
      => Source(jobs[j]) \subseteq msgs[jobs[j].s]

\* A candidate pending in quarantine can still be checked against its source:
\* its epoch is current and, unless edited, every message is there.  The source
\* lock makes staging and deleting exclude each other.
QuarantineSourcesKept ==
  \A j \in quar : /\ Current(j)
                  /\ jobs[j].intact => Source(jobs[j]) \subseteq msgs[jobs[j].s]

\* A live claim has one holder: of all tasks that once claimed a row at most one
\* passes the fence.
OneLiveHolder ==
  \A c, d \in fetched \cup workers : c.j = d.j /\ Matches(c) /\ Matches(d) => c = d

\* Leases respect the configured parallelism per session and overall, stale
\* workers, restarts and lease recovery included.
ParallelCaps ==
  /\ Cardinality(workers) <= MaxParallel
  /\ Cardinality(AllLive) <= MaxParallel
  /\ \A s \in Sessions : Cardinality(Live(s)) <= MaxPerSession

\* Within an epoch the cursor never moves back and a closed window stays closed;
\* restarts and late workers included.
ProgressIsFinal ==
  [][\A s \in Sessions : epoch'[s] = epoch[s] =>
       /\ cursor'[s] >= cursor[s]
       /\ \A j \in Of(jobs, s, epoch[s]) :
            jobs[j].status \in Done => jobs'[j].status = jobs[j].status]_vars

\* While the scheduler is up, a row with a live lease leaves "running" only
\* together with the task that holds its token, or by a clear of its session.
LeaseIsExclusive ==
  [][\A j \in Rows :
       /\ phase = "up" /\ jobs[j].status = "running" /\ jobs[j].lease > 0
       /\ jobs'[j].status # "running"
       => \/ epoch'[jobs[j].s] # epoch[jobs[j].s]
          \/ \E c \in fetched \cup workers :
               c.j = j /\ c.tok = jobs[j].tok
               /\ \/ c \notin fetched' \cup workers'
                  \/ c \in workers /\ c.step = "owners"]_vars

Waiting(j) == j \in Rows /\ jobs[j].status \in {"queued", "running", "failed"}

\* A window that waits or runs is eventually settled (closed, blocked, unknown
\* or fenced), provided the scheduler stays up in the end.
EventuallySettled ==
  <>[](phase = "up") =>
    \A j \in 1..RowBound : Waiting(j) ~> ~Waiting(j)

\* Whatever planners, workers, restarts and clears do, a session advances as
\* SummaryProgress says: messages are planned in order, summarised once and for good, and
\* the cursor reaches exactly as far as the closed windows do without gap.
Planned ==
  [s \in Sessions |-> UNION {Source(jobs[j]) : j \in Of(jobs, s, epoch[s])}]
Summarised ==
  [s \in Sessions |->
     UNION {Source(jobs[j]) : j \in {k \in Of(jobs, s, epoch[s]) : jobs[k].status \in Done}}]
Abstract == INSTANCE SummaryProgress WITH planned <- Planned, done <- Summarised
ImplementsProgress == Abstract!Spec

=============================================================================
