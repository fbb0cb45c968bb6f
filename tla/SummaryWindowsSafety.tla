----------------------- MODULE SummaryWindowsSafety -----------------------
(***************************************************************************)
(* Every action of SummaryWindows is typed and of one of the three kinds   *)
(* of SummaryWindowsProofs; the safety theorems follow.                    *)
(***************************************************************************)
EXTENDS SummaryWindowsProofs

-----------------------------------------------------------------------------
(* Rows *)

\* The part of TypeOK that is not about the rows and cursors.
RestType ==
  /\ msgs \in [Sessions -> SUBSET (1..MaxSeq)]
  /\ rr \in Sessions \cup {0}
  /\ reqs \subseteq Request
  /\ phase \in Phases /\ todo \subseteq Sessions
  /\ fetched \subseteq Claim /\ workers \subseteq Worker
  /\ \A c \in fetched \cup workers : c.j \in 1..total
  /\ quar \subseteq 1..total
  /\ faults \in 0..MaxFaults

\* TypeOK is the two parts together.
LEMMA TypeSplit == TypeOK <=> StoreType /\ RestType
  BY DEF TypeOK, StoreType, RestType

\* The same for the next state.
LEMMA TypeSplitPrime == TypeOK' <=> StoreType' /\ RestType'
  BY DEF TypeOK, StoreType, RestType

\* job may replace row j: same window, and a closed row stays closed.
SoundRewrite(j, job) ==
  /\ job \in Job /\ SameWindow(job, jobs[j])
  /\ jobs[j].status \in Done => job.status = jobs[j].status
  /\ job.status \in Done => job.led \in {"none", "closed"}

\* A row may replace itself.
LEMMA KeepRow ==
  ASSUME StoreType, RowsSound, NEW j \in 1..total
  PROVE  SoundRewrite(j, jobs[j])
  BY DEF StoreType, RowsSound, SoundRewrite, SameWindow

\* What releasing a row keeps.
LEMMA ReleasedRow ==
  ASSUME NEW job \in Job, NEW st \in Statuses
  PROVE  /\ Released(job, st) \in Job /\ SameWindow(Released(job, st), job)
         /\ Released(job, st).status = st /\ Released(job, st).led = job.led
         /\ Released(job, st).att = job.att
         /\ Released(job, st).intact = job.intact
<1>1. 0 \in 0..LeaseTicks /\ NoToken \in Tokens \cup {NoToken}
  BY ConstantsAssumption
<1>2. Released(job, st) \in Job
  BY <1>1 DEF Released, Job
<1>3. SameWindow(Released(job, st), job)
  BY DEF Released, Job, SameWindow
<1> QED BY <1>2, <1>3 DEF Released, Job

\* Changing the ledger of a row changes nothing else.
LEMMA LedgerRow ==
  ASSUME NEW job \in Job, NEW l \in LedgerStates
  PROVE  /\ [job EXCEPT !.led = l] \in Job /\ SameWindow([job EXCEPT !.led = l], job)
         /\ [job EXCEPT !.led = l].status = job.status
         /\ [job EXCEPT !.led = l].led = l
         /\ [job EXCEPT !.led = l].intact = job.intact
  BY DEF Job, SameWindow

\* A failed attempt leaves the row failed or blocked.
LEMMA RetryOrBlockRow ==
  ASSUME NEW job \in Job
  PROVE  /\ RetryOrBlock(job) \in Job /\ SameWindow(RetryOrBlock(job), job)
         /\ RetryOrBlock(job).status \in {"failed", "blocked"}
         /\ RetryOrBlock(job).led = job.led
         /\ RetryOrBlock(job).intact = job.intact
<1>1. "blocked" \in Statuses /\ "failed" \in Statuses
  BY DEF Statuses
<1>2. RetryTicks \in 0..RetryTicks
  BY ConstantsAssumption
<1>3. ASSUME NEW r \in Job
      PROVE  /\ [r EXCEPT !.wait = RetryTicks] \in Job
             /\ SameWindow([r EXCEPT !.wait = RetryTicks], r)
             /\ [r EXCEPT !.wait = RetryTicks].status = r.status
             /\ [r EXCEPT !.wait = RetryTicks].led = r.led
             /\ [r EXCEPT !.wait = RetryTicks].intact = r.intact
  BY <1>2 DEF Job, SameWindow
<1>4. SameWindow([Released(job, "failed") EXCEPT !.wait = RetryTicks], job)
  BY <1>1, <1>3, ReleasedRow DEF SameWindow
<1>5. CASE job.att >= MaxAttempts
  BY <1>5, <1>1, ReleasedRow DEF RetryOrBlock
<1>6. CASE ~(job.att >= MaxAttempts)
  <2>1. RetryOrBlock(job) = [Released(job, "failed") EXCEPT !.wait = RetryTicks]
    BY <1>6 DEF RetryOrBlock
  <2>2. /\ Released(job, "failed") \in Job /\ Released(job, "failed").status = "failed"
        /\ Released(job, "failed").led = job.led
        /\ Released(job, "failed").intact = job.intact
    BY <1>1, ReleasedRow
  <2>3. RetryOrBlock(job).status \in {"failed", "blocked"}
    BY <2>1, <2>2, <1>3
  <2>4. RetryOrBlock(job) \in Job /\ SameWindow(RetryOrBlock(job), job)
    BY <2>1, <2>2, <1>3, <1>4
  <2>5. RetryOrBlock(job).led = job.led /\ RetryOrBlock(job).intact = job.intact
    BY <2>1, <2>2, <1>3
  <2> QED BY <2>3, <2>4, <2>5
<1> QED BY <1>5, <1>6

\* An outcome closes the ledger of a row it completes.
LEMMA SettledRow ==
  ASSUME NEW job \in Job, NEW out \in Verdicts,
         (out = "nofacts") <=> (job.led = "none")
  PROVE  /\ Settled(job, out) \in Job /\ SameWindow(Settled(job, out), job)
         /\ Settled(job, out).status \in Done => Settled(job, out).led \in {"none", "closed"}
         /\ Settled(job, out).intact = job.intact
<1>1. {"completed", "failed", "unknown"} \subseteq Statuses
      /\ {"closed", "open"} \subseteq LedgerStates
  BY DEF Statuses, LedgerStates
<1>2. CASE out = "nofacts"
  BY <1>1, <1>2, ReleasedRow DEF Settled
<1>3. CASE out = "completed"
  <2>1. Settled(job, out) = [Released(job, "completed") EXCEPT !.led = "closed"]
    BY <1>3 DEF Settled
  <2> DEFINE freed == Released(job, "completed")
  <2>2. /\ freed \in Job /\ SameWindow(freed, job) /\ freed.intact = job.intact
    BY <1>1, ReleasedRow
  <2> HIDE DEF freed
  <2>3. /\ Settled(job, out) \in Job /\ SameWindow(Settled(job, out), freed)
        /\ Settled(job, out).led = "closed" /\ Settled(job, out).intact = freed.intact
    BY <1>1, <2>1, <2>2, LedgerRow DEF freed
  <2> QED BY <2>2, <2>3 DEF SameWindow
<1>4. CASE out = "failed"
  <2>1. Settled(job, out) = [RetryOrBlock(job) EXCEPT !.led = "closed"]
    BY <1>4 DEF Settled
  <2> QED BY <1>1, <2>1, RetryOrBlockRow, LedgerRow DEF SameWindow
<1>5. CASE out \notin {"nofacts", "completed", "failed"}
  <2>1. Settled(job, out) = [Released(job, "unknown") EXCEPT !.led = "open"]
    BY <1>5 DEF Settled
  <2>2. Settled(job, out).status = "unknown"
    BY <1>1, <2>1, ReleasedRow, LedgerRow
  <2>3. Settled(job, out) \in Job /\ SameWindow(Settled(job, out), job)
        /\ Settled(job, out).intact = job.intact
    <3> DEFINE freed == Released(job, "unknown")
    <3>1. freed \in Job /\ SameWindow(freed, job) /\ freed.intact = job.intact
      BY <1>1, ReleasedRow
    <3> HIDE DEF freed
    <3>2. /\ Settled(job, out) \in Job /\ SameWindow(Settled(job, out), freed)
          /\ Settled(job, out).intact = freed.intact
      BY <1>1, <2>1, <3>1, LedgerRow DEF freed
    <3> QED BY <3>1, <3>2 DEF SameWindow
  <2> QED BY <2>2, <2>3 DEF Done
<1> QED BY <1>2, <1>3, <1>4, <1>5

-----------------------------------------------------------------------------
(* Quiet steps *)

\* Rewriting rows soundly and advancing the cursors of S is quiet when every
\* current window that becomes closed belongs to a session of S.
LEMMA StoreJobsQuiet ==
  ASSUME StoreType, NEW js, DOMAIN js = 1..total, js = [j \in 1..total |-> js[j]],
         \A j \in 1..total : SoundRewrite(j, js[j]),
         NEW S, StoreJobs(js, S), total' = total, epoch' = epoch,
         \A j \in 1..total :
           /\ jobs[j].e = epoch[jobs[j].s]
           /\ jobs[j].status \notin Done /\ js[j].status \in Done
           => jobs[j].s \in S
  PROVE  StoreType' /\ Quiet
<1>1. jobs' = js /\ cursor' \in [Sessions -> 0..MaxSeq]
      /\ \A s \in Sessions :
           IF s \in S THEN StopsAt(js, s, epoch[s], cursor[s], cursor'[s])
                      ELSE cursor'[s] = cursor[s]
  BY DEF StoreJobs
<1>2. js \in [1..total -> Job]
  BY DEF SoundRewrite
<1>3. StoreType'
  BY <1>1, <1>2 DEF StoreType
<1>4. \A j \in 1..total :
       /\ SameWindow(jobs'[j], jobs[j])
       /\ jobs[j].status \in Done => jobs'[j].status = jobs[j].status
       /\ jobs'[j].status \in Done => jobs'[j].led \in {"none", "closed"}
  BY <1>1 DEF SoundRewrite
<1>5. \A s \in Sessions :
       \/ StopsAt(jobs', s, epoch[s], cursor[s], cursor'[s])
       \/ /\ cursor'[s] = cursor[s]
          /\ \A j \in 1..total :
               jobs[j].s = s /\ jobs[j].e = epoch[s] /\ jobs'[j].status \in Done
                 => jobs[j].status \in Done
  BY <1>1
<1> QED BY <1>3, <1>4, <1>5 DEF Quiet

\* Rewriting rows soundly without closing any is quiet with the cursors kept.
LEMMA KeepCursorQuiet ==
  ASSUME StoreType, NEW js, DOMAIN js = 1..total, js = [j \in 1..total |-> js[j]],
         \A j \in 1..total : SoundRewrite(j, js[j]),
         jobs' = js, cursor' = cursor, total' = total, epoch' = epoch,
         \A j \in 1..total : js[j].status \in Done => jobs[j].status \in Done
  PROVE  StoreType' /\ Quiet
<1>2. js \in [1..total -> Job]
  BY DEF SoundRewrite
<1>3. StoreType'
  BY <1>2 DEF StoreType
<1> QED BY <1>3 DEF Quiet, SoundRewrite

\* The store left alone is a quiet step.
LEMMA UnchangedQuiet ==
  ASSUME StoreType, RowsSound, total' = total, epoch' = epoch, jobs' = jobs,
         cursor' = cursor
  PROVE  StoreType' /\ Quiet
  BY DEF Quiet, StoreType, RowsSound, SameWindow

\* Replacing one row and advancing its session's cursor is quiet.
LEMMA StoreJobQuiet ==
  ASSUME StoreType, RowsSound, NEW j \in 1..total, NEW job, SoundRewrite(j, job),
         StoreJob(j, job), total' = total, epoch' = epoch
  PROVE  StoreType' /\ Quiet
<1> DEFINE js == [jobs EXCEPT ![j] = job]
<1>1. js = [k \in 1..total |-> IF k = j THEN job ELSE jobs[k]]
  BY DEF StoreType
<1>2. \A k \in 1..total : SoundRewrite(k, js[k])
  BY <1>1, KeepRow
<1>3. StoreJobs(js, {jobs[j].s})
  BY DEF StoreJob
<1>4. DOMAIN js = 1..total /\ js = [k \in 1..total |-> js[k]]
  BY <1>1
<1>5. \A k \in 1..total :
           /\ jobs[k].e = epoch[jobs[k].s]
           /\ jobs[k].status \notin Done /\ js[k].status \in Done
           => jobs[k].s \in {jobs[j].s}
  BY <1>1
<1> HIDE DEF js
<1> QED BY <1>2, <1>3, <1>4, <1>5, StoreJobsQuiet

\* Replacing one row by a row that is not closed is quiet.
LEMMA KeepOneQuiet ==
  ASSUME StoreType, RowsSound, NEW j \in 1..total, NEW job, SoundRewrite(j, job),
         job.status \notin Done,
         jobs' = [jobs EXCEPT ![j] = job], cursor' = cursor, total' = total, epoch' = epoch
  PROVE  StoreType' /\ Quiet
<1> DEFINE js == [jobs EXCEPT ![j] = job]
<1>1. js = [k \in 1..total |-> IF k = j THEN job ELSE jobs[k]]
  BY DEF StoreType
<1>2. \A k \in 1..total : SoundRewrite(k, js[k])
  BY <1>1, KeepRow
<1>4. DOMAIN js = 1..total /\ js = [k \in 1..total |-> js[k]]
  BY <1>1
<1>5. \A k \in 1..total : js[k].status \in Done => jobs[k].status \in Done
  BY <1>1
<1>6. jobs' = js
  OBVIOUS
<1> HIDE DEF js
<1> QED BY <1>2, <1>4, <1>5, <1>6, KeepCursorQuiet

-----------------------------------------------------------------------------
(* Steps that leave rows and cursors alone *)

\* Moving a worker keeps the workers typed.
LEMMA MoveTyped ==
  ASSUME RestType, NEW w \in workers, NEW step \in Steps, NEW out \in Verdicts,
         Move(w, step, out)
  PROVE  workers' \subseteq Worker /\ \A c \in workers' : c.j \in 1..total
<1> DEFINE v == [w EXCEPT !.step = step, !.out = out]
<1>1. w \in Worker /\ w.j \in 1..total
  BY DEF RestType
<1>2. v \in Worker /\ v.j = w.j
  BY <1>1 DEF Worker
<1> HIDE DEF v
<1>3. \A c \in workers' : c \in workers \/ c = v
  BY DEF Move, v
<1> QED BY <1>1, <1>2, <1>3 DEF RestType

\* With the rest of the scheduler alone, typed workers keep RestType.
LEMMA WorkersTyped ==
  ASSUME RestType, workers' \subseteq Worker, \A c \in workers' : c.j \in 1..total,
         total' = total, msgs' = msgs, rr' = rr, reqs' = reqs, phase' = phase,
         todo' = todo, fetched' = fetched, quar' \subseteq 1..total,
         faults' \in 0..MaxFaults
  PROVE  RestType'
  BY DEF RestType

\* A fault is counted within its bound.
LEMMA FaultTyped ==
  ASSUME faults \in 0..MaxFaults, Fault
  PROVE  faults' \in 0..MaxFaults
  BY ConstantsAssumption DEF Fault

\* The steps of a worker that only move it.
LEMMA ThinkingQuiet ==
  ASSUME TypeOK, RowsSound, NEW w \in workers,
         \/ ReadSource(w) \/ Extract(w) \/ EnterFence(w) \/ BuildOutcome(w)
         \/ RunSideEffect(w) \/ LoseWorker(w)
  PROVE  TypeOK' /\ Quiet
<1>0. StoreType /\ RestType
  BY TypeSplit
<1>1. total' = total /\ epoch' = epoch /\ jobs' = jobs /\ cursor' = cursor
      /\ msgs' = msgs /\ rr' = rr /\ reqs' = reqs /\ phase' = phase
      /\ todo' = todo /\ fetched' = fetched
  BY DEF ReadSource, Extract, EnterFence, BuildOutcome, RunSideEffect, LoseWorker, store
<1>2. w.j \in 1..total
  BY <1>0 DEF RestType
<1>3. quar' \subseteq 1..total
  BY <1>0, <1>2 DEF ReadSource, Extract, EnterFence, BuildOutcome, RunSideEffect,
     LoseWorker, store, RestType
<1>4. faults' \in 0..MaxFaults
  BY <1>0, FaultTyped DEF ReadSource, Extract, EnterFence, BuildOutcome, RunSideEffect,
     LoseWorker, RestType
<1>5. workers' \subseteq Worker /\ \A c \in workers' : c.j \in 1..total
  <2>1. CASE LoseWorker(w)
    BY <2>1, <1>0 DEF LoseWorker, RestType
  <2>2. CASE ReadSource(w) \/ Extract(w) \/ EnterFence(w) \/ BuildOutcome(w) \/ RunSideEffect(w)
    <3>1. \E step \in Steps, out \in Verdicts : Move(w, step, out)
      BY <2>2 DEF ReadSource, Extract, EnterFence, BuildOutcome, RunSideEffect, Steps, Verdicts
    <3> QED BY <3>1, <1>0, MoveTyped
  <2> QED BY <2>1, <2>2
<1>6. RestType'
  BY <1>0, <1>1, <1>3, <1>4, <1>5, WorkersTyped
<1> QED BY <1>0, <1>1, <1>6, UnchangedQuiet, TypeSplitPrime

\* The steps of the scheduler's life cycle that only change its phase.
LEMMA PhaseQuiet ==
  ASSUME TypeOK, RowsSound, Pause \/ Stopped \/ Crash \/ Start \/ Started
  PROVE  TypeOK' /\ Quiet
<1>0. StoreType /\ RestType
  BY TypeSplit
<1>1. total' = total /\ epoch' = epoch /\ jobs' = jobs /\ cursor' = cursor
      /\ msgs' = msgs /\ rr' = rr /\ quar' = quar
  BY DEF Pause, Stopped, Crash, Start, Started, store
<1>2. reqs' \subseteq reqs /\ todo' \subseteq todo /\ fetched' \subseteq fetched
      /\ workers' \subseteq workers /\ phase' \in Phases
  BY <1>0 DEF Pause, Stopped, Crash, Start, Started, Phases, RestType
<1>3. faults' \in 0..MaxFaults
  BY <1>0, FaultTyped DEF Pause, Stopped, Crash, Start, Started, RestType
<1>4. RestType'
  BY <1>0, <1>1, <1>2, <1>3 DEF RestType
<1> QED BY <1>0, <1>1, <1>4, UnchangedQuiet, TypeSplitPrime

\* Steps on messages and requests.
LEMMA MessageQuiet ==
  ASSUME TypeOK, RowsSound, NEW s \in Sessions,
         AddMessage(s) \/ ReadContext(s) \/ TrimIfSafe(s)
  PROVE  TypeOK' /\ Quiet
<1>0. StoreType /\ RestType
  BY TypeSplit
<1>1. total' = total /\ epoch' = epoch /\ jobs' = jobs /\ cursor' = cursor
      /\ rr' = rr /\ phase' = phase /\ todo' = todo /\ fetched' = fetched
      /\ workers' = workers /\ faults' = faults
  BY DEF AddMessage, ReadContext, TrimIfSafe, store
<1>2. msgs' \in [Sessions -> SUBSET (1..MaxSeq)]
  BY <1>0 DEF AddMessage, ReadContext, TrimIfSafe, store, RestType
<1>3. reqs' \subseteq Request
  <2>1. CASE ReadContext(s)
    <3>1. PICK manual \in BOOLEAN, obs \in 0..MaxSeq :
            reqs' = reqs \cup {[s |-> s, e |-> epoch[s], start |-> cursor[s],
                               end |-> obs, manual |-> manual]}
      BY <2>1 DEF ReadContext
    <3>2. epoch[s] \in 1..MaxEpoch /\ cursor[s] \in 0..MaxSeq
      BY <1>0 DEF StoreType
    <3> QED BY <3>1, <3>2, <1>0 DEF Request, RestType
  <2>2. CASE ~ReadContext(s)
    BY <2>2, <1>0 DEF AddMessage, TrimIfSafe, RestType
  <2> QED BY <2>1, <2>2
<1>4. quar' \subseteq 1..total
  BY <1>0 DEF AddMessage, ReadContext, TrimIfSafe, store, RestType
<1>5. RestType'
  BY <1>0, <1>1, <1>2, <1>3, <1>4 DEF RestType
<1> QED BY <1>0, <1>1, <1>5, UnchangedQuiet, TypeSplitPrime

\* Registering claims starts workers for rows that exist.
LEMMA RegisterQuiet ==
  ASSUME TypeOK, RowsSound, Register
  PROVE  TypeOK' /\ Quiet
<1>0. StoreType /\ RestType
  BY TypeSplit
<1>1. total' = total /\ epoch' = epoch /\ jobs' = jobs /\ cursor' = cursor
      /\ msgs' = msgs /\ rr' = rr /\ quar' = quar /\ reqs' = reqs
      /\ phase' = phase /\ todo' = todo /\ faults' = faults
  BY DEF Register, store
<1>2. \A d \in fetched : d \in Claim /\ d.j \in 1..total
  BY <1>0 DEF RestType
<1>3. \A c \in workers' : c \in Worker /\ c.j \in 1..total
  <2> TAKE c \in workers'
  <2>1. CASE c \in workers
    BY <2>1, <1>0 DEF RestType
  <2>2. CASE c \notin workers
    <3>1. PICK d \in fetched :
             c = [j |-> d.j, tok |-> d.tok, step |-> "read", out |-> "none"]
      BY <2>2 DEF Register
    <3>2. d.j \in Nat /\ d.tok \in Tokens /\ d.j \in 1..total
      BY <3>1, <1>2 DEF Claim
    <3> QED BY <3>1, <3>2 DEF Worker, Steps, Verdicts
  <2> QED BY <2>1, <2>2
<1>4. \A c \in fetched' : c \in Claim /\ c.j \in 1..total
  <2> TAKE c \in fetched'
  <2>1. PICK d \in fetched : c = [d EXCEPT !.rejected = TRUE]
    BY DEF Register
  <2> QED BY <2>1, <1>2 DEF Claim
<1>5. RestType'
  BY <1>0, <1>1, <1>3, <1>4 DEF RestType
<1> QED BY <1>0, <1>1, <1>5, UnchangedQuiet, TypeSplitPrime

\* A review only shrinks the quarantine.
LEMMA ReviewQuiet ==
  ASSUME TypeOK, RowsSound, NEW j \in quar, ReviewQuarantine(j)
  PROVE  TypeOK' /\ Quiet
<1>0. StoreType /\ RestType
  BY TypeSplit
<1>1. total' = total /\ epoch' = epoch /\ jobs' = jobs /\ cursor' = cursor
  BY DEF ReviewQuarantine
<1>2. RestType'
  BY <1>0 DEF ReviewQuarantine, RestType
<1> QED BY <1>0, <1>1, <1>2, UnchangedQuiet, TypeSplitPrime

-----------------------------------------------------------------------------
(* Steps that rewrite rows *)

\* Typed rows.
LEMMA RowTyped ==
  ASSUME StoreType
  PROVE  /\ DOMAIN jobs = 1..total /\ Rows = 1..total
         /\ \A j \in 1..total : jobs[j] \in Job
  BY DEF StoreType, Rows

\* Editing and deleting messages only marks windows as changed.
LEMMA EditQuiet ==
  ASSUME TypeOK, RowsSound, NEW s \in Sessions, EditMessage(s) \/ DeleteMessage(s)
  PROVE  TypeOK' /\ Quiet
<1>0. StoreType /\ RestType
  BY TypeSplit
<1>1. total' = total /\ epoch' = epoch /\ cursor' = cursor
      /\ rr' = rr /\ quar' = quar /\ reqs' = reqs /\ phase' = phase /\ todo' = todo
      /\ fetched' = fetched /\ workers' = workers
  BY DEF EditMessage, DeleteMessage
<1>2. msgs' \in [Sessions -> SUBSET (1..MaxSeq)]
  BY <1>0 DEF EditMessage, DeleteMessage, RestType
<1>3. PICK q : jobs' = Tainted(s, q)
  BY DEF EditMessage, DeleteMessage
<1> DEFINE js == Tainted(s, q)
<1>4. DOMAIN js = 1..total /\ js = [j \in 1..total |-> js[j]]
  BY <1>0, RowTyped DEF Tainted
<1>5. \A j \in 1..total : SoundRewrite(j, js[j]) /\ js[j].status = jobs[j].status
  <2> TAKE j \in 1..total
  <2>1. jobs[j] \in Job /\ j \in Rows /\ SoundRewrite(j, jobs[j])
    BY <1>0, RowTyped, KeepRow
  <2>2. js[j] \in {jobs[j], [jobs[j] EXCEPT !.intact = FALSE]}
    BY <2>1 DEF Tainted
  <2>3. CASE js[j] = [jobs[j] EXCEPT !.intact = FALSE]
    <3>1. js[j] \in Job /\ SameWindow(js[j], jobs[j])
          /\ js[j].status = jobs[j].status /\ js[j].led = jobs[j].led
      BY <2>1, <2>3 DEF Job, SameWindow
    <3> QED BY <3>1, <2>1 DEF SoundRewrite
  <2> QED BY <2>1, <2>2, <2>3
<1> HIDE DEF js
<1>6. StoreType' /\ Quiet
  BY <1>0, <1>1, <1>3, <1>4, <1>5, KeepCursorQuiet DEF js
<1>7. faults' \in 0..MaxFaults
  BY <1>0, FaultTyped DEF EditMessage, DeleteMessage, RestType
<1>8. RestType'
  BY <1>0, <1>1, <1>2, <1>7 DEF RestType
<1> QED BY <1>6, <1>8, TypeSplitPrime

\* The heartbeat only extends a lease.
LEMMA RenewQuiet ==
  ASSUME TypeOK, RowsSound, NEW w \in workers, Renew(w)
  PROVE  TypeOK' /\ Quiet
<1>0. StoreType /\ RestType
  BY TypeSplit
<1>1. w.j \in 1..total /\ jobs[w.j] \in Job
  BY <1>0, RowTyped DEF RestType
<1> DEFINE job == [jobs[w.j] EXCEPT !.lease = LeaseTicks]
<1>2. jobs' = [jobs EXCEPT ![w.j] = job] /\ jobs[w.j].status = "running"
  BY DEF Renew, Matches
<1>3. job \in Job /\ SameWindow(job, jobs[w.j]) /\ job.status = jobs[w.j].status
  <2>1. LeaseTicks \in 0..LeaseTicks
    BY ConstantsAssumption
  <2> QED BY <1>1, <2>1 DEF Job, SameWindow
<1> HIDE DEF job
<1>4. SoundRewrite(w.j, job) /\ job.status \notin Done
  BY <1>2, <1>3 DEF SoundRewrite, Done
<1>5. StoreType' /\ Quiet
  BY <1>0, <1>1, <1>2, <1>4, KeepOneQuiet DEF Renew
<1>6. RestType'
  BY <1>0 DEF Renew, RestType
<1> QED BY <1>5, <1>6, TypeSplitPrime

\* The clock changes leases and back-offs only.
LEMMA TickQuiet ==
  ASSUME TypeOK, RowsSound, Tick
  PROVE  TypeOK' /\ Quiet
<1>0. StoreType /\ RestType
  BY TypeSplit
<1> DEFINE js == [j \in Rows |-> Ticked(jobs[j])]
<1>1. DOMAIN js = 1..total /\ js = [j \in 1..total |-> js[j]]
  BY <1>0, RowTyped
<1>2. \A j \in 1..total : SoundRewrite(j, js[j]) /\ js[j].status = jobs[j].status
  <2> TAKE j \in 1..total
  <2>1. jobs[j] \in Job /\ js[j] = Ticked(jobs[j]) /\ SoundRewrite(j, jobs[j])
    BY <1>0, RowTyped, KeepRow
  <2>2. jobs[j].lease \in 0..LeaseTicks /\ jobs[j].wait \in 0..RetryTicks
    BY <2>1 DEF Job
  <2>3. /\ (IF jobs[j].lease > 0 THEN jobs[j].lease - 1 ELSE 0) \in 0..LeaseTicks
        /\ (IF jobs[j].wait > 0 THEN jobs[j].wait - 1 ELSE 0) \in 0..RetryTicks
    BY <2>2, ConstantsAssumption
  <2>4. Ticked(jobs[j]) \in Job
    BY <2>1, <2>3 DEF Ticked, Job
  <2>5. SameWindow(Ticked(jobs[j]), jobs[j])
        /\ Ticked(jobs[j]).status = jobs[j].status /\ Ticked(jobs[j]).led = jobs[j].led
    BY <2>1 DEF Ticked, Job, SameWindow
  <2> QED BY <2>1, <2>4, <2>5 DEF SoundRewrite
<1> HIDE DEF js
<1>3. StoreType' /\ Quiet
  BY <1>0, <1>1, <1>2, KeepCursorQuiet DEF Tick, js
<1>4. RestType'
  BY <1>0 DEF Tick, RestType
<1> QED BY <1>3, <1>4, TypeSplitPrime

\* A claim makes ready rows running under a token nobody holds.
LEMMA ClaimQuiet ==
  ASSUME TypeOK, RowsSound, ClaimReady
  PROVE  TypeOK' /\ Quiet
<1>0. StoreType /\ RestType
  BY TypeSplit
<1>1. PICK C \in SUBSET Claimable :
       /\ \A j \in C : \E u \in Tokens : u \notin Held(j)
       /\ jobs' = [j \in Rows |-> IF j \in C THEN Claimed(jobs[j], FreshToken(j))
                                            ELSE jobs[j]]
       /\ fetched' = {[j |-> j, tok |-> FreshToken(j), rejected |-> FALSE] : j \in C}
       /\ \E last \in C : rr' = jobs[last].s
  BY DEF ClaimReady
<1>2. \A j \in C : /\ j \in 1..total /\ jobs[j].status \in {"queued", "failed"}
                   /\ jobs[j].att < MaxAttempts /\ FreshToken(j) \in Tokens
  <2>1. \A j \in C : j \in 1..total /\ jobs[j].status \in {"queued", "failed"}
                     /\ jobs[j].att < MaxAttempts
    BY <1>0, <1>1, RowTyped DEF Claimable, Ready
  <2>2. \A j \in C : FreshToken(j) \in Tokens
    BY <1>1 DEF FreshToken
  <2> QED BY <2>1, <2>2
<1> DEFINE js == [j \in Rows |-> IF j \in C THEN Claimed(jobs[j], FreshToken(j)) ELSE jobs[j]]
<1>3. DOMAIN js = 1..total /\ js = [j \in 1..total |-> js[j]]
  BY <1>0, RowTyped
<1>4. \A j \in 1..total : /\ SoundRewrite(j, js[j])
                          /\ js[j].status \in Done => jobs[j].status \in Done
  <2> TAKE j \in 1..total
  <2>1. jobs[j] \in Job /\ j \in Rows /\ SoundRewrite(j, jobs[j])
    BY <1>0, RowTyped, KeepRow
  <2>2. CASE j \notin C
    BY <2>1, <2>2
  <2>3. CASE j \in C
    <3>1. jobs[j].att + 1 \in 0..MaxAttempts /\ LeaseTicks \in 0..LeaseTicks
      <4>1. jobs[j].att \in 0..MaxAttempts
        BY <2>1 DEF Job
      <4> QED BY <4>1, <1>2, <2>3, ConstantsAssumption
    <3>2. js[j] = Claimed(jobs[j], FreshToken(j))
      BY <2>1, <2>3
    <3>3. Claimed(jobs[j], FreshToken(j)) \in Job
      BY <2>1, <2>3, <1>2, <3>1 DEF Claimed, Job, Statuses
    <3>4. SameWindow(Claimed(jobs[j], FreshToken(j)), jobs[j])
          /\ Claimed(jobs[j], FreshToken(j)).status = "running"
      BY <2>1 DEF Claimed, Job, SameWindow
    <3> QED BY <3>2, <3>3, <3>4, <1>2, <2>3 DEF SoundRewrite, Done
  <2> QED BY <2>2, <2>3
<1> HIDE DEF js
<1>5. StoreType' /\ Quiet
  BY <1>0, <1>1, <1>3, <1>4, KeepCursorQuiet DEF ClaimReady, js
<1>6. \A c \in fetched' : c \in Claim /\ c.j \in 1..total
  <2> TAKE c \in fetched'
  <2>1. PICK j \in C : c = [j |-> j, tok |-> FreshToken(j), rejected |-> FALSE]
    BY <1>1
  <2>2. j \in Nat /\ j \in 1..total /\ FreshToken(j) \in Tokens
    BY <1>2, <1>0 DEF StoreType
  <2> QED BY <2>1, <2>2 DEF Claim
<1>7. rr' \in Sessions
  <2>1. PICK l \in C : rr' = jobs[l].s
    BY <1>1
  <2>2. jobs[l] \in Job
    BY <1>2, <1>0, RowTyped
  <2> QED BY <2>1, <2>2 DEF Job
<1>8. RestType'
  BY <1>0, <1>6, <1>7 DEF ClaimReady, RestType
<1> QED BY <1>5, <1>8, TypeSplitPrime

\* Giving a claim back reopens only the running row it owns.
LEMMA RequeueQuiet ==
  ASSUME TypeOK, RowsSound, NEW c, c.j \in 1..total, Requeue(c)
  PROVE  /\ StoreType' /\ Quiet /\ total' = total
         /\ msgs' = msgs /\ rr' = rr /\ quar' = quar
<1>0. StoreType /\ RestType
  BY TypeSplit
<1>1. CASE ~(jobs[c.j].status = "running" /\ jobs[c.j].tok = c.tok)
  <2>1. UNCHANGED store
    BY <1>1 DEF Requeue
  <2> QED BY <2>1, <1>0, UnchangedQuiet DEF store
<1>2. CASE jobs[c.j].status = "running" /\ jobs[c.j].tok = c.tok
  <2> DEFINE r == Released(jobs[c.j], "queued")
  <2> DEFINE job == [r EXCEPT !.att = IF @ > 0 THEN @ - 1 ELSE 0, !.wait = 0]
  <2>1. StoreJob(c.j, job) /\ UNCHANGED <<epoch, msgs, total, rr, quar>>
    BY <1>2 DEF Requeue
  <2>2. jobs[c.j] \in Job /\ "queued" \in Statuses
    BY <1>0, RowTyped DEF Statuses
  <2>3. r \in Job /\ SameWindow(r, jobs[c.j]) /\ r.status = "queued"
    BY <2>2, ReleasedRow
  <2> HIDE DEF r
  <2>4. (IF r.att > 0 THEN r.att - 1 ELSE 0) \in 0..MaxAttempts /\ 0 \in 0..RetryTicks
    <3>1. r.att \in 0..MaxAttempts
      BY <2>3 DEF Job
    <3> QED BY <3>1, ConstantsAssumption
  <2>5. job \in Job
    BY <2>3, <2>4 DEF Job
  <2>6. SameWindow(job, r) /\ job.status = r.status
    BY <2>3 DEF Job, SameWindow
  <2> HIDE DEF job
  <2>7. SoundRewrite(c.j, job)
    BY <1>2, <2>3, <2>5, <2>6 DEF SoundRewrite, SameWindow, Done
  <2> QED BY <2>1, <2>7, <1>0, StoreJobQuiet
<1> QED BY <1>1, <1>2

\* The callers of requeue_claim.
LEMMA GiveBackQuiet ==
  ASSUME TypeOK, RowsSound,
         \/ \E c \in fetched : RequeueRejected(c)
         \/ \E w \in workers : CancelWorker(w) \/ CancelFencedWorker(w)
  PROVE  TypeOK' /\ Quiet
<1>0. StoreType /\ RestType
  BY TypeSplit
<1>1. CASE \E c \in fetched : RequeueRejected(c)
  <2>1. PICK c \in fetched : RequeueRejected(c)
    BY <1>1
  <2>2. c.j \in 1..total
    BY <1>0 DEF RestType
  <2>3. StoreType' /\ Quiet /\ total' = total /\ msgs' = msgs /\ rr' = rr /\ quar' = quar
    BY <2>1, <2>2, RequeueQuiet DEF RequeueRejected
  <2>4. RestType'
    BY <2>1, <2>3, <1>0 DEF RequeueRejected, RestType
  <2> QED BY <2>3, <2>4, TypeSplitPrime
<1>2. CASE \E w \in workers : CancelWorker(w) \/ CancelFencedWorker(w)
  <2>1. PICK w \in workers : CancelWorker(w) \/ CancelFencedWorker(w)
    BY <1>2
  <2>2. w.j \in 1..total
    BY <1>0 DEF RestType
  <2>3. StoreType' /\ Quiet /\ total' = total /\ msgs' = msgs /\ rr' = rr /\ quar' = quar
    BY <2>1, <2>2, RequeueQuiet DEF CancelWorker, CancelFencedWorker
  <2>4. RestType'
    BY <2>1, <2>3, <1>0 DEF CancelWorker, CancelFencedWorker, RestType
  <2> QED BY <2>3, <2>4, TypeSplitPrime
<1> QED BY <1>1, <1>2

\* Recovering expired claims closes nothing.
LEMMA RecoverQuiet ==
  ASSUME TypeOK, RowsSound, LoopRecover \/ StartRecover
  PROVE  TypeOK' /\ Quiet
<1>0. StoreType /\ RestType
  BY TypeSplit
<1>1. RecoverExpiredClaims
  BY DEF LoopRecover, StartRecover
<1> DEFINE new(j) == IF jobs[j].att >= MaxAttempts THEN "blocked" ELSE "queued"
<1> DEFINE js == [j \in Rows |-> IF j \in Expired THEN Released(jobs[j], new(j)) ELSE jobs[j]]
<1>2. StoreJobs(js, {jobs[j].s : j \in Expired}) /\ UNCHANGED <<epoch, msgs, total, rr, quar>>
  BY <1>1 DEF RecoverExpiredClaims
<1>3. DOMAIN js = 1..total /\ js = [j \in 1..total |-> js[j]]
  BY <1>0, RowTyped
<1>4. \A j \in 1..total : /\ SoundRewrite(j, js[j])
                          /\ js[j].status \in Done => jobs[j].status \in Done
  <2> TAKE j \in 1..total
  <2>1. jobs[j] \in Job /\ j \in Rows /\ SoundRewrite(j, jobs[j])
    BY <1>0, RowTyped, KeepRow
  <2>2. CASE j \notin Expired
    BY <2>1, <2>2
  <2>3. CASE j \in Expired
    <3>1. new(j) \in Statuses /\ new(j) \notin Done /\ jobs[j].status = "running"
      BY <2>3 DEF Statuses, Done, Expired
    <3> HIDE DEF new
    <3>2. js[j] = Released(jobs[j], new(j))
      BY <2>1, <2>3
    <3>3. SoundRewrite(j, Released(jobs[j], new(j))) /\ Released(jobs[j], new(j)).status = new(j)
      BY <3>1, <2>1, ReleasedRow DEF SoundRewrite, Done
    <3> QED BY <3>1, <3>2, <3>3
  <2> QED BY <2>2, <2>3
<1> HIDE DEF js
<1>5. StoreType' /\ Quiet
  BY <1>0, <1>2, <1>3, <1>4, StoreJobsQuiet
<1>6. phase' \in Phases
  BY <1>0 DEF LoopRecover, StartRecover, Phases, RestType
<1>7. RestType'
  BY <1>0, <1>2, <1>6 DEF LoopRecover, StartRecover, RestType
<1> QED BY <1>5, <1>7, TypeSplitPrime

\* Setting the ledger of a running row is quiet.
LEMMA SetLedgerQuiet ==
  ASSUME StoreType, RowsSound, NEW j \in 1..total, jobs[j].status = "running",
         NEW l \in LedgerStates, SetLedger(j, l)
  PROVE  StoreType' /\ Quiet
<1>1. jobs[j] \in Job
  BY RowTyped
<1> DEFINE job == [jobs[j] EXCEPT !.led = l]
<1>2. jobs' = [jobs EXCEPT ![j] = job]
  BY DEF SetLedger
<1>3. job \in Job /\ SameWindow(job, jobs[j]) /\ job.status = jobs[j].status
  BY <1>1, LedgerRow
<1> HIDE DEF job
<1>4. SoundRewrite(j, job) /\ job.status \notin Done
  BY <1>3 DEF SoundRewrite, Done
<1> QED BY <1>2, <1>4, KeepOneQuiet DEF SetLedger

\* Marking a running row unknown is quiet.
LEMMA MarkUnknownQuiet ==
  ASSUME StoreType, RowsSound, NEW j \in 1..total, jobs[j].status = "running",
         MarkUnknown(j)
  PROVE  StoreType' /\ Quiet
<1> DEFINE r == Released(jobs[j], "unknown")
<1> DEFINE l == IF jobs[j].led = "planned" THEN "open" ELSE jobs[j].led
<1> DEFINE job == Unsettled(jobs[j])
<1>1. jobs[j] \in Job /\ "unknown" \in Statuses
  BY RowTyped DEF Statuses
<1>2. jobs' = [jobs EXCEPT ![j] = job] /\ job = [r EXCEPT !.led = l]
  BY DEF MarkUnknown, Unsettled
<1>3. r \in Job /\ SameWindow(r, jobs[j]) /\ r.status = "unknown"
  BY <1>1, ReleasedRow
<1>4. l \in LedgerStates
  BY <1>1 DEF LedgerStates, Job
<1> HIDE DEF r, l
<1>5. job \in Job /\ SameWindow(job, r) /\ job.status = "unknown"
  BY <1>2, <1>3, <1>4, LedgerRow
<1> HIDE DEF job
<1>6. SoundRewrite(j, job) /\ job.status \notin Done
  BY <1>3, <1>5 DEF SoundRewrite, Done, SameWindow
<1> QED BY <1>2, <1>6, KeepOneQuiet DEF MarkUnknown

\* The store part of a worker's bookkeeping steps.
LEMMA LedgerStepQuiet ==
  ASSUME TypeOK, RowsSound, NEW w \in workers,
         BeginCandidateIntents(w) \/ ReconcileOwners(w) \/ BeginCandidateWrites(w)
  PROVE  TypeOK' /\ Quiet
<1>0. StoreType /\ RestType
  BY TypeSplit
<1>1. w.j \in 1..total /\ jobs[w.j] \in Job
  BY <1>0, RowTyped DEF RestType
<1>2. \/ UNCHANGED store
      \/ jobs[w.j].status = "running" /\ \E l \in LedgerStates : SetLedger(w.j, l)
      \/ jobs[w.j].status = "running" /\ MarkUnknown(w.j)
  <2>1. CASE BeginCandidateIntents(w)
    BY <2>1 DEF BeginCandidateIntents, Matches, LedgerStates
  <2>2. CASE ReconcileOwners(w)
    BY <2>2 DEF ReconcileOwners, Matches
  <2>3. CASE BeginCandidateWrites(w)
    <3>1. jobs[w.j].led \in LedgerStates /\ "open" \in LedgerStates
      BY <1>1 DEF Job, LedgerStates
    <3> QED BY <2>3, <3>1 DEF BeginCandidateWrites, Matches
  <2> QED BY <2>1, <2>2, <2>3
<1>3. StoreType' /\ Quiet
  BY <1>0, <1>1, <1>2, SetLedgerQuiet, MarkUnknownQuiet, UnchangedQuiet DEF store
<1>4. total' = total /\ msgs' = msgs /\ rr' = rr /\ quar' = quar
  BY <1>2 DEF store, SetLedger, MarkUnknown
<1>5. \E step \in Steps, out \in Verdicts : Move(w, step, out)
  BY DEF BeginCandidateIntents, ReconcileOwners, BeginCandidateWrites, Steps, Verdicts
<1>6. workers' \subseteq Worker /\ \A c \in workers' : c.j \in 1..total
  BY <1>0, <1>5, MoveTyped
<1>7. /\ reqs' = reqs /\ phase' = phase /\ todo' = todo /\ fetched' = fetched
      /\ faults' \in 0..MaxFaults /\ quar' \subseteq 1..total
  BY <1>0, <1>4 DEF BeginCandidateIntents, ReconcileOwners, BeginCandidateWrites, RestType
<1>8. RestType'
  BY <1>0, <1>4, <1>6, <1>7, WorkersTyped
<1> QED BY <1>3, <1>8, TypeSplitPrime

\* Closing a window: commit_window and fail_window.
LEMMA CloseQuiet ==
  ASSUME TypeOK, RowsSound, NEW w \in workers, CommitWindow(w) \/ FailWindow(w)
  PROVE  TypeOK' /\ Quiet
<1>0. StoreType /\ RestType
  BY TypeSplit
<1>1. w.j \in 1..total /\ jobs[w.j] \in Job /\ w.out \in Verdicts
  BY <1>0, RowTyped DEF RestType, Worker
<1>2. StoreType' /\ Quiet /\ total' = total /\ msgs' = msgs /\ rr' = rr /\ quar' = quar
  <2>1. CASE UNCHANGED store
    BY <2>1, <1>0, UnchangedQuiet DEF store
  <2>2. CASE Matches(w) /\ MarkUnknown(w.j)
    BY <2>2, <1>0, <1>1, MarkUnknownQuiet DEF Matches, MarkUnknown
  <2>3. ASSUME NEW job, job \in Job, SameWindow(job, jobs[w.j]), Matches(w),
               job.status \in Done => job.led \in {"none", "closed"},
               StoreJob(w.j, job), UNCHANGED <<epoch, msgs, total, rr, quar>>
        PROVE  StoreType' /\ Quiet /\ total' = total /\ msgs' = msgs /\ rr' = rr /\ quar' = quar
    <3>1. SoundRewrite(w.j, job)
      BY <2>3 DEF SoundRewrite, Matches, Done
    <3> QED BY <3>1, <2>3, <1>0, <1>1, StoreJobQuiet
  <2>4. CASE /\ Matches(w) /\ ((w.out = "nofacts") <=> (jobs[w.j].led = "none"))
             /\ StoreJob(w.j, Settled(jobs[w.j], w.out))
             /\ UNCHANGED <<epoch, msgs, total, rr, quar>>
    <3>1. Settled(jobs[w.j], w.out) \in Job
          /\ SameWindow(Settled(jobs[w.j], w.out), jobs[w.j])
          /\ (Settled(jobs[w.j], w.out).status \in Done
                => Settled(jobs[w.j], w.out).led \in {"none", "closed"})
      BY <2>4, <1>1, SettledRow
    <3> QED BY <3>1, <2>3, <2>4
  <2>5. CASE /\ Matches(w) /\ FailWindow(w)
    <3> DEFINE job == IF w.out = "block" THEN Released(jobs[w.j], "blocked")
                                        ELSE RetryOrBlock(jobs[w.j])
    <3>1. job \in Job /\ SameWindow(job, jobs[w.j]) /\ job.status \in {"failed", "blocked"}
      <4>1. "blocked" \in Statuses
        BY DEF Statuses
      <4> QED BY <4>1, <1>1, ReleasedRow, RetryOrBlockRow
    <3>2. StoreJob(w.j, job) /\ UNCHANGED <<epoch, msgs, total, rr, quar>>
      BY <2>5 DEF FailWindow
    <3> HIDE DEF job
    <3>3. job.status \notin Done
      BY <3>1 DEF Done
    <3> QED BY <3>1, <3>2, <3>3, <2>3, <2>5
  <2>6. CASE ~Matches(w) /\ FailWindow(w)
    BY <2>6, <2>1 DEF FailWindow
  <2>7. CASE CommitWindow(w)
    <3>1. \/ UNCHANGED store
          \/ Matches(w) /\ MarkUnknown(w.j)
          \/ /\ Matches(w) /\ ((w.out = "nofacts") <=> (jobs[w.j].led = "none"))
             /\ StoreJob(w.j, Settled(jobs[w.j], w.out))
             /\ UNCHANGED <<epoch, msgs, total, rr, quar>>
      BY <2>7 DEF CommitWindow
    <3> QED BY <3>1, <2>1, <2>2, <2>4
  <2> QED BY <2>5, <2>6, <2>7
<1>3. workers' \subseteq workers /\ UNCHANGED <<reqs, phase, todo, fetched, faults>>
  BY DEF CommitWindow, FailWindow
<1>4. RestType'
  BY <1>0, <1>2, <1>3 DEF RestType
<1> QED BY <1>2, <1>4, TypeSplitPrime

\* Startup reconciliation rewrites scanned rows only; a closed row has a closed
\* ledger, so it is not scanned.
LEMMA ReconcileQuiet ==
  ASSUME TypeOK, RowsSound, StartReconcile
  PROVE  TypeOK' /\ Quiet
<1>0. StoreType /\ RestType
  BY TypeSplit
<1>1. PICK r \in [Scanned -> UNION {Reconciled(j) : j \in Scanned}] :
       /\ \A j \in Scanned : r[j] \in Reconciled(j)
       /\ StoreJobs([j \in Rows |-> IF j \in Scanned THEN r[j] ELSE jobs[j]],
                    {r[j].s : j \in {k \in Scanned : r[k].status = "completed"}})
  BY DEF StartReconcile
<1> DEFINE js == [j \in Rows |-> IF j \in Scanned THEN r[j] ELSE jobs[j]]
<1> DEFINE S == {r[j].s : j \in {k \in Scanned : r[k].status = "completed"}}
<1>2. DOMAIN js = 1..total /\ js = [j \in 1..total |-> js[j]]
  BY <1>0, RowTyped
<1>3. ASSUME NEW j \in Scanned
      PROVE  /\ j \in 1..total /\ jobs[j].status \notin Done
             /\ SoundRewrite(j, r[j])
             /\ r[j].status \in Done => r[j].status = "completed"
  <2>1. j \in 1..total /\ jobs[j] \in Job /\ jobs[j].status \notin Done
    BY <1>0, RowTyped DEF Scanned, RowsSound, Done
  <2> DEFINE job == jobs[j]
  <2> DEFINE un == Released(job, "unknown")
  <2> DEFINE cl == [job EXCEPT !.led = "closed"]
  <2> DEFINE co == Released(cl, "completed")
  <2>2. r[j] \in {un, cl, co}
    BY <1>1 DEF Reconciled
  <2>3. {"unknown", "completed"} \subseteq Statuses /\ "closed" \in LedgerStates
    BY DEF Statuses, LedgerStates
  <2>4. un \in Job /\ SameWindow(un, job) /\ un.status = "unknown"
    BY <2>1, <2>3, ReleasedRow
  <2>5. cl \in Job /\ SameWindow(cl, job) /\ cl.status = job.status
        /\ cl.led = "closed"
    BY <2>1, <2>3, LedgerRow
  <2> HIDE DEF cl
  <2>6. co \in Job /\ SameWindow(co, cl) /\ co.status = "completed" /\ co.led = "closed"
    BY <2>5, <2>3, ReleasedRow
  <2> HIDE DEF un, co
  <2>7. CASE r[j] = un
    BY <2>1, <2>4, <2>7 DEF SoundRewrite, Done
  <2>8. CASE r[j] = cl
    BY <2>1, <2>5, <2>8 DEF SoundRewrite
  <2>9. CASE r[j] = co
    BY <2>1, <2>5, <2>6, <2>9 DEF SoundRewrite, SameWindow
  <2> QED BY <2>1, <2>2, <2>7, <2>8, <2>9
<1>4. \A j \in 1..total : SoundRewrite(j, js[j])
  <2> TAKE j \in 1..total
  <2>1. j \in Rows /\ SoundRewrite(j, jobs[j])
    BY <1>0, RowTyped, KeepRow
  <2> QED BY <2>1, <1>3
<1>5. \A j \in 1..total :
           /\ jobs[j].e = epoch[jobs[j].s]
           /\ jobs[j].status \notin Done /\ js[j].status \in Done
           => jobs[j].s \in S
  <2> SUFFICES ASSUME NEW j \in 1..total, jobs[j].status \notin Done, js[j].status \in Done
               PROVE  jobs[j].s \in S
    OBVIOUS
  <2>1. j \in Rows
    BY <1>0, RowTyped
  <2>2. j \in Scanned /\ js[j] = r[j]
    BY <2>1
  <2>3. r[j].status = "completed" /\ r[j].s = jobs[j].s
    BY <2>2, <1>3 DEF SoundRewrite, SameWindow
  <2> QED BY <2>2, <2>3
<1>6. StoreJobs(js, S)
  BY <1>1
<1> HIDE DEF js, S
<1>7. StoreType' /\ Quiet
  BY <1>0, <1>2, <1>4, <1>5, <1>6, StoreJobsQuiet DEF StartReconcile
<1>8. RestType'
  BY <1>0 DEF StartReconcile, RestType, Phases
<1> QED BY <1>7, <1>8, TypeSplitPrime

\* Abandoning closes stuck rows of one session.
LEMMA AbandonQuiet ==
  ASSUME TypeOK, RowsSound, NEW s \in Sessions, ConfirmAbandon(s)
  PROVE  TypeOK' /\ Quiet
<1>0. StoreType /\ RestType
  BY TypeSplit
<1> DEFINE new(j) == [Released(jobs[j], "abandoned") EXCEPT
                        !.led = IF @ = "none" THEN @ ELSE "closed"]
<1>1. PICK e \in 1..epoch[s] : \E A \in SUBSET Of(jobs, s, e) :
        /\ \A j \in A : jobs[j].status \in {"blocked", "unknown"}
        /\ StoreJobs([j \in Rows |-> IF j \in A THEN new(j) ELSE jobs[j]],
                     IF e = epoch[s] THEN {s} ELSE {})
        /\ UNCHANGED <<epoch, msgs, total, rr, quar, reqs, phase, todo, fetched,
                       workers, faults>>
  BY DEF ConfirmAbandon
<1>2. PICK A \in SUBSET Of(jobs, s, e) :
        /\ \A j \in A : jobs[j].status \in {"blocked", "unknown"}
        /\ StoreJobs([j \in Rows |-> IF j \in A THEN new(j) ELSE jobs[j]],
                     IF e = epoch[s] THEN {s} ELSE {})
        /\ UNCHANGED <<epoch, msgs, total, rr, quar, reqs, phase, todo, fetched,
                       workers, faults>>
  BY <1>1
<1> DEFINE js == [j \in Rows |-> IF j \in A THEN new(j) ELSE jobs[j]]
<1> DEFINE S == IF e = epoch[s] THEN {s} ELSE {}
<1>3. DOMAIN js = 1..total /\ js = [j \in 1..total |-> js[j]]
  BY <1>0, RowTyped
<1>4. ASSUME NEW j \in A
      PROVE  j \in 1..total /\ SoundRewrite(j, new(j)) /\ jobs[j].s = s /\ jobs[j].e = e
  <2>1. j \in 1..total /\ jobs[j] \in Job /\ jobs[j].s = s /\ jobs[j].e = e
    BY <1>0, <1>2, RowTyped DEF Of
  <2> DEFINE r == Released(jobs[j], "abandoned")
  <2> DEFINE l == IF r.led = "none" THEN r.led ELSE "closed"
  <2>2. "abandoned" \in Statuses
    BY DEF Statuses
  <2>3. r \in Job /\ SameWindow(r, jobs[j]) /\ r.status = "abandoned"
    BY <2>1, <2>2, ReleasedRow
  <2>n. new(j) = [r EXCEPT !.led = l]
    OBVIOUS
  <2> HIDE DEF r, new
  <2>4. l \in LedgerStates /\ l \in {"none", "closed"}
    BY DEF LedgerStates
  <2> HIDE DEF l
  <2>5. new(j) \in Job /\ SameWindow(new(j), r) /\ new(j).led = l
    BY <2>3, <2>4, <2>n, LedgerRow
  <2> QED BY <2>1, <2>3, <2>4, <2>5, <1>2 DEF SoundRewrite, SameWindow, Done
<1> HIDE DEF new
<1>5. \A j \in 1..total : SoundRewrite(j, js[j])
  <2> TAKE j \in 1..total
  <2>1. j \in Rows /\ SoundRewrite(j, jobs[j])
    BY <1>0, RowTyped, KeepRow
  <2> QED BY <2>1, <1>4
<1>6. \A j \in 1..total :
           /\ jobs[j].e = epoch[jobs[j].s]
           /\ jobs[j].status \notin Done /\ js[j].status \in Done
           => jobs[j].s \in S
  <2> SUFFICES ASSUME NEW j \in 1..total, jobs[j].status \notin Done, js[j].status \in Done,
                      jobs[j].e = epoch[jobs[j].s]
               PROVE  jobs[j].s \in S
    OBVIOUS
  <2>1. j \in Rows
    BY <1>0, RowTyped
  <2>2. j \in A
    BY <2>1
  <2> QED BY <2>2, <1>4
<1>7. StoreJobs(js, S)
  BY <1>2
<1> HIDE DEF js, S
<1>8. StoreType' /\ Quiet
  BY <1>0, <1>2, <1>3, <1>5, <1>6, <1>7, StoreJobsQuiet
<1>9. RestType'
  BY <1>0, <1>2 DEF RestType
<1> QED BY <1>8, <1>9, TypeSplitPrime

-----------------------------------------------------------------------------
(* Planning and new epochs *)

\* Planned rows are typed.
LEMMA EnqueueTyped ==
  ASSUME StoreType, NEW s \in Sessions, NEW f \in 0..MaxSeq, NEW obs \in 0..MaxSeq,
         f <= obs, Enqueue(s, f, obs)
  PROVE  /\ StoreType' /\ 1..total \subseteq 1..total'
         /\ UNCHANGED <<epoch, msgs, rr, quar>>
<1> DEFINE m == NewWindows(f, obs)
<1>1. /\ total' = total + m /\ UNCHANGED <<epoch, msgs, rr, quar>>
      /\ cursor' \in [Sessions -> 0..MaxSeq]
      /\ jobs' = [j \in 1..(total + m) |->
                    IF j <= total THEN jobs[j]
                    ELSE NewJob(s, WindowStart(f, j - total), WindowEnd(f, obs, j - total))]
  BY DEF Enqueue, StoreJobs
<1>2. f \in Nat /\ obs \in Nat /\ total \in Nat /\ MaxSeq \in Nat /\ obs <= MaxSeq
  BY ConstantsAssumption DEF StoreType
<1>3. m \in Nat
  BY <1>2, FullFit DEF NewWindows
<1>4. \A k \in 1..m : WindowStart(f, k) \in 0..MaxSeq /\ WindowEnd(f, obs, k) \in 0..MaxSeq
  <2> TAKE k \in 1..m
  <2>1. /\ WindowStart(f, k) \in Nat /\ WindowEnd(f, obs, k) \in Nat
        /\ WindowStart(f, k) < WindowEnd(f, obs, k) /\ WindowEnd(f, obs, k) <= obs
    BY <1>2, WindowBounds
  <2> QED BY <2>1, <1>2
<1> HIDE DEF m
<1>5. ASSUME NEW a \in 0..MaxSeq, NEW b \in 0..MaxSeq PROVE NewJob(s, a, b) \in Job
  <2>1. epoch[s] \in 1..MaxEpoch
    BY DEF StoreType
  <2>2. 0 \in 0..MaxAttempts /\ 0 \in 0..RetryTicks /\ 0 \in 0..LeaseTicks
    BY ConstantsAssumption
  <2> QED BY <2>1, <2>2 DEF NewJob, Job, Statuses, LedgerStates
<1>6. \A j \in 1..(total + m) : jobs'[j] \in Job
  <2> TAKE j \in 1..(total + m)
  <2>1. CASE j <= total
    <3>1. j \in 1..total
      BY <2>1, <1>2, <1>3
    <3> QED BY <3>1, <2>1, <1>1 DEF StoreType
  <2>2. CASE ~(j <= total)
    <3>1. j - total \in 1..m
      BY <2>2, <1>2, <1>3
    <3>2. jobs'[j] = NewJob(s, WindowStart(f, j - total), WindowEnd(f, obs, j - total))
      BY <2>2, <1>1
    <3> QED BY <3>1, <3>2, <1>4, <1>5
  <2> QED BY <2>1, <2>2
<1>7. jobs' \in [1..total' -> Job]
  BY <1>1, <1>6
<1>8. total' \in Nat /\ 1..total \subseteq 1..total'
  BY <1>1, <1>2, <1>3
<1> QED BY <1>1, <1>7, <1>8 DEF StoreType

\* The action ProgressIsFinal allows.
Progress ==
  \A s \in Sessions : epoch'[s] = epoch[s] =>
    /\ cursor'[s] >= cursor[s]
    /\ \A j \in Of(jobs, s, epoch[s]) :
         jobs[j].status \in Done => jobs'[j].status = jobs[j].status

\* The three kinds of step.
StepKind ==
  \/ Quiet
  \/ \E s \in Sessions, f \in 0..MaxSeq, obs \in 0..MaxSeq :
       f <= obs /\ Enqueue(s, f, obs)
  \/ \E S \in SUBSET Sessions : \E C : NewEpoch(S, C)

\* A quiet step is progress.
LEMMA QuietProgress ==
  ASSUME StoreType, StoreType', Quiet
  PROVE  Progress
<1>1. \A s \in Sessions : cursor'[s] >= cursor[s]
  <2>1. \A s \in Sessions : cursor[s] \in Int /\ cursor'[s] \in Int
    BY ConstantsAssumption DEF StoreType
  <2> QED BY <2>1 DEF Quiet, StopsAt
<1>2. \A s \in Sessions : Of(jobs, s, epoch[s]) \subseteq 1..total
  BY RowTyped DEF Of
<1> QED BY <1>1, <1>2 DEF Progress, Quiet

\* Planning is progress.
LEMMA EnqueueProgress ==
  ASSUME StoreType, NEW s \in Sessions, NEW f \in 0..MaxSeq, NEW obs \in 0..MaxSeq,
         f <= obs, Enqueue(s, f, obs)
  PROVE  Progress
<1>1. StoreType' /\ 1..total \subseteq 1..total'
  BY EnqueueTyped
<1>2. \A r \in Sessions : cursor'[r] >= cursor[r]
  <2>1. \A r \in Sessions : cursor[r] \in Int
    BY ConstantsAssumption DEF StoreType
  <2> QED BY <2>1 DEF Enqueue, StoreJobs, StopsAt
<1>3. \A j \in 1..total : jobs'[j] = jobs[j]
  <2>1. DOMAIN jobs' = 1..total' /\ total' = total + NewWindows(f, obs) /\ total \in Nat
    BY <1>1 DEF Enqueue, StoreType
  <2>2. \A j \in 1..total : j \in 1..(total + NewWindows(f, obs)) /\ j <= total
    BY <1>1, <2>1
  <2> QED BY <2>2 DEF Enqueue, StoreJobs
<1>4. \A r \in Sessions : Of(jobs, r, epoch[r]) \subseteq 1..total
  BY RowTyped DEF Of
<1> QED BY <1>2, <1>3, <1>4 DEF Progress

\* Where a new epoch leaves the epoch alone, it leaves cursor and rows alone.
LEMMA NewEpochProgress ==
  ASSUME StoreType, NEW S \in SUBSET Sessions, NEW C, NewEpoch(S, C)
  PROVE  Progress
<1>1. \A s \in Sessions : epoch[s] \in Int /\ cursor[s] \in Int
  BY ConstantsAssumption DEF StoreType
<1>2. \A s \in Sessions : epoch'[s] = epoch[s] => cursor'[s] = cursor[s]
  BY <1>1 DEF NewEpoch
<1>3. \A j \in 1..total : jobs[j].status \in Done => jobs'[j] = jobs[j]
  BY RowTyped DEF NewEpoch
<1>4. \A r \in Sessions : Of(jobs, r, epoch[r]) \subseteq 1..total
  BY RowTyped DEF Of
<1> QED BY <1>1, <1>2, <1>3, <1>4 DEF Progress

\* A planning request is typed and preserves the window invariant.
LEMMA PlanStep ==
  ASSUME TypeOK, WindowInv, NEW r \in reqs, Plan(r)
  PROVE  TypeOK' /\ WindowInv' /\ Progress /\ StepKind
<1>0. StoreType /\ RestType /\ RowsSound
  BY TypeSplit DEF WindowInv
<1>1. r \in Request
  BY <1>0 DEF RestType
<1>2. r.s \in Sessions /\ r.end \in 0..MaxSeq
  BY <1>1 DEF Request
<1>3. CASE UNCHANGED store
  <2>1. StoreType' /\ Quiet
    BY <1>0, <1>3, UnchangedQuiet DEF store
  <2>2. WindowInv'
    BY <1>0, <2>1, QuietPreserves
  <2>3. RestType'
    BY <1>0, <1>3 DEF Plan, RestType, store
  <2> QED BY <1>0, <2>1, <2>2, <2>3, TypeSplitPrime, QuietProgress DEF StepKind
<1>4. ASSUME NEW f \in 0..MaxSeq, Accepted(r, f), Enqueue(r.s, f, r.end)
      PROVE  TypeOK' /\ WindowInv' /\ Progress /\ StepKind
  <2>1. f <= r.end /\ FrontierAt(r.s, f)
    BY <1>4 DEF Accepted
  <2>2. StoreType' /\ 1..total \subseteq 1..total' /\ UNCHANGED <<epoch, msgs, rr, quar>>
    BY <1>0, <1>2, <1>4, <2>1, EnqueueTyped
  <2>3. WindowInv'
    BY <1>0, <1>2, <1>4, <2>1, <2>2, EnqueuePreserves
  <2>4. RestType'
    BY <1>0, <2>2 DEF Plan, RestType
  <2>5. Progress
    BY <1>0, <1>2, <1>4, <2>1, EnqueueProgress
  <2>6. StepKind
    BY <1>2, <1>4, <2>1 DEF StepKind
  <2> QED BY <2>2, <2>3, <2>4, <2>5, <2>6, TypeSplitPrime
<1> QED BY <1>3, <1>4 DEF Plan

\* So is a step of the startup planner.
LEMMA StartPlanStep ==
  ASSUME TypeOK, WindowInv, StartPlan
  PROVE  TypeOK' /\ WindowInv' /\ Progress /\ StepKind
<1>0. StoreType /\ RestType /\ RowsSound
  BY TypeSplit DEF WindowInv
<1>1. todo' \subseteq Sessions /\ phase' \in Phases
      /\ UNCHANGED <<reqs, fetched, workers, faults>>
  BY <1>0 DEF StartPlan, RestType, Phases
<1>2. CASE UNCHANGED store
  <2>1. StoreType' /\ Quiet
    BY <1>0, <1>2, UnchangedQuiet DEF store
  <2>2. WindowInv'
    BY <1>0, <2>1, QuietPreserves
  <2>3. RestType'
    BY <1>0, <1>1, <1>2 DEF RestType, store
  <2> QED BY <1>0, <2>1, <2>2, <2>3, TypeSplitPrime, QuietProgress DEF StepKind
<1>3. ASSUME NEW s \in todo, NEW obs \in 0..MaxSeq, NEW f \in 0..obs,
             FrontierAt(s, f), Enqueue(s, f, obs)
      PROVE  TypeOK' /\ WindowInv' /\ Progress /\ StepKind
  <2>1. s \in Sessions /\ f \in 0..MaxSeq /\ f <= obs
    BY <1>0, ConstantsAssumption DEF RestType
  <2>2. StoreType' /\ 1..total \subseteq 1..total' /\ UNCHANGED <<epoch, msgs, rr, quar>>
    BY <1>0, <1>3, <2>1, EnqueueTyped
  <2>3. WindowInv'
    BY <1>0, <1>3, <2>1, <2>2, EnqueuePreserves
  <2>4. RestType'
    BY <1>0, <1>1, <2>2 DEF RestType
  <2>5. Progress
    BY <1>0, <1>3, <2>1, EnqueueProgress
  <2>6. StepKind
    BY <1>3, <2>1 DEF StepKind
  <2> QED BY <2>2, <2>3, <2>4, <2>5, <2>6, TypeSplitPrime
<1> QED BY <1>2, <1>3 DEF StartPlan

\* A new epoch is typed and preserves the window invariant.
LEMMA NewEpochStep ==
  ASSUME TypeOK, WindowInv, NEW S \in SUBSET Sessions, NEW C, NewEpoch(S, C)
  PROVE  TypeOK' /\ WindowInv' /\ Progress /\ StepKind
<1>0. StoreType /\ RestType
  BY TypeSplit
<1>1. epoch' \in [Sessions -> 1..MaxEpoch]
  <2>1. \A s \in Sessions : epoch[s] \in 1..MaxEpoch
    BY <1>0 DEF StoreType
  <2>2. \A s \in Sessions :
          (IF s \in S THEN epoch[s] + 1 ELSE epoch[s]) \in 1..MaxEpoch
    BY <2>1, ConstantsAssumption DEF NewEpoch
  <2> QED BY <2>2 DEF NewEpoch
<1>2. cursor' \in [Sessions -> 0..MaxSeq] /\ msgs' \in [Sessions -> SUBSET (1..MaxSeq)]
  BY <1>0, ConstantsAssumption DEF NewEpoch, StoreType, RestType
<1>3. jobs' \in [1..total -> Job]
  <2>1. \A j \in 1..total : jobs[j] \in Job /\ Released(jobs[j], "cancelled") \in Job
    <3>1. "cancelled" \in Statuses
      BY DEF Statuses
    <3> QED BY <3>1, <1>0, RowTyped, ReleasedRow
  <2> QED BY <2>1, <1>0, RowTyped DEF NewEpoch
<1>4. StoreType'
  BY <1>0, <1>1, <1>2, <1>3 DEF NewEpoch, StoreType
<1>5. RestType'
  BY <1>0, <1>2 DEF NewEpoch, RestType
<1>6. WindowInv'
  BY <1>0, <1>4, NewEpochPreserves
<1>7. StepKind
  BY DEF StepKind
<1> QED BY <1>0, <1>4, <1>5, <1>6, <1>7, TypeSplitPrime, NewEpochProgress

-----------------------------------------------------------------------------
(* Theorems *)

\* Every step, of whatever actor, preserves types and the window
\* invariant, and is of one of the three kinds.
LEMMA NextPreserves ==
  ASSUME TypeOK, WindowInv, [Next]_vars
  PROVE  TypeOK' /\ WindowInv' /\ Progress /\ StepKind
<1>0. StoreType /\ RestType /\ RowsSound
  BY TypeSplit DEF WindowInv
<1>q. ASSUME TypeOK', Quiet PROVE TypeOK' /\ WindowInv' /\ Progress /\ StepKind
  BY <1>0, <1>q, QuietPreserves, QuietProgress, TypeSplitPrime DEF StepKind
<1>1. CASE UNCHANGED vars
  <2>1. StoreType' /\ Quiet
    BY <1>0, <1>1, UnchangedQuiet DEF vars, store
  <2>2. RestType'
    BY <1>0, <1>1 DEF RestType, vars, store
  <2> QED BY <2>1, <2>2, <1>q, TypeSplitPrime
<1>2. ASSUME NEW s \in Sessions, SessionStep(s) PROVE TypeOK' /\ WindowInv' /\ Progress /\ StepKind
  <2>1. CASE ClearSession(s)
    BY <2>1, NewEpochStep DEF ClearSession
  <2>2. CASE AddMessage(s) \/ ReadContext(s) \/ TrimIfSafe(s)
    BY <2>2, <1>0, <1>q, MessageQuiet
  <2>3. CASE EditMessage(s) \/ DeleteMessage(s)
    BY <2>3, <1>0, <1>q, EditQuiet
  <2>4. CASE ConfirmAbandon(s)
    BY <2>4, <1>0, <1>q, AbandonQuiet
  <2> QED BY <1>2, <2>1, <2>2, <2>3, <2>4 DEF SessionStep
<1>3. ASSUME NEW r \in reqs, Plan(r) PROVE TypeOK' /\ WindowInv' /\ Progress /\ StepKind
  BY <1>3, PlanStep
<1>4. CASE LoopStep
  <2>1. CASE LoopRecover
    BY <2>1, <1>0, <1>q, RecoverQuiet
  <2>2. CASE ClaimReady
    BY <2>2, <1>0, <1>q, ClaimQuiet
  <2>3. CASE Register
    BY <2>3, <1>0, <1>q, RegisterQuiet
  <2>4. CASE \E c \in fetched : RequeueRejected(c)
    BY <2>4, <1>0, <1>q, GiveBackQuiet
  <2> QED BY <1>4, <2>1, <2>2, <2>3, <2>4 DEF LoopStep
<1>5. CASE Tick
  BY <1>5, <1>0, <1>q, TickQuiet
<1>6. CASE StartStep \/ Pause \/ Crash
  <2>1. CASE StartRecover
    BY <2>1, <1>0, <1>q, RecoverQuiet
  <2>2. CASE StartReconcile
    BY <2>2, <1>0, <1>q, ReconcileQuiet
  <2>3. CASE StartPlan
    BY <2>3, StartPlanStep
  <2>4. CASE Pause \/ Stopped \/ Crash \/ Start \/ Started
    BY <2>4, <1>0, <1>q, PhaseQuiet
  <2> QED BY <1>6, <2>1, <2>2, <2>3, <2>4 DEF StartStep
<1>7. CASE DeleteOldSessions
  <2>1. \E S \in SUBSET Sessions, C \in SUBSET Rows : NewEpoch(S, C)
    BY <1>7 DEF DeleteOldSessions
  <2> QED BY <2>1, NewEpochStep
<1>8. ASSUME NEW w \in workers,
             WorkerStep(w) \/ Renew(w) \/ LoseWorker(w) \/ CancelFencedWorker(w)
      PROVE  TypeOK' /\ WindowInv' /\ Progress /\ StepKind
  <2>1. CASE \/ ReadSource(w) \/ Extract(w) \/ EnterFence(w) \/ BuildOutcome(w)
             \/ RunSideEffect(w) \/ LoseWorker(w)
    BY <2>1, <1>0, <1>q, ThinkingQuiet
  <2>2. CASE BeginCandidateIntents(w) \/ ReconcileOwners(w) \/ BeginCandidateWrites(w)
    BY <2>2, <1>0, <1>q, LedgerStepQuiet
  <2>3. CASE CommitWindow(w) \/ FailWindow(w)
    BY <2>3, <1>0, <1>q, CloseQuiet
  <2>4. CASE CancelWorker(w) \/ CancelFencedWorker(w)
    BY <2>4, <1>0, <1>q, GiveBackQuiet
  <2>5. CASE Renew(w)
    BY <2>5, <1>0, <1>q, RenewQuiet
  <2> QED BY <1>8, <2>1, <2>2, <2>3, <2>4, <2>5 DEF WorkerStep
<1>9. ASSUME NEW j \in quar, ReviewQuarantine(j) PROVE TypeOK' /\ WindowInv' /\ Progress /\ StepKind
  BY <1>9, <1>0, <1>q, ReviewQuiet
<1> QED BY <1>1, <1>2, <1>3, <1>4, <1>5, <1>6, <1>7, <1>8, <1>9 DEF Next

\* The initial state is typed and has no window.
LEMMA InitHolds == Init => TypeOK /\ WindowInv
<1> SUFFICES ASSUME Init PROVE TypeOK /\ WindowInv
  OBVIOUS
<1>1. TypeOK
  BY ConstantsAssumption DEF Init, TypeOK, Phases
<1>2. Rows = {} /\ 1..total = {} /\ \A s, e : Of(jobs, s, e) = {}
  BY DEF Init, Rows, Of
<1>3. \A s \in Sessions : cursor[s] = 0
  BY DEF Init
<1>4. FrontierDefined
  <2> SUFFICES ASSUME NEW s \in Sessions PROVE \E f \in 0..MaxSeq : FrontierAt(s, f)
    BY DEF FrontierDefined
  <2>1. FrontierAt(s, 0)
    BY <1>2, <1>3 DEF FrontierAt
  <2>2. 0 \in 0..MaxSeq
    BY ConstantsAssumption
  <2> QED BY <2>1, <2>2
<1>5. CursorCovered
  BY <1>3 DEF CursorCovered
<1> QED BY <1>1, <1>2, <1>4, <1>5 DEF WindowInv, RowsSound, WindowsDisjoint, CursorTight

\* Types are kept in every behaviour of the store and the scheduler.
THEOREM TypeCorrect == Spec => []TypeOK
<1>1. Init => TypeOK /\ WindowInv
  BY InitHolds
<1>2. TypeOK /\ WindowInv /\ [Next]_vars => (TypeOK /\ WindowInv)'
  BY NextPreserves
<1> QED BY <1>1, <1>2, PTL DEF Spec

\* Whatever requests, workers, crashes and clears interleave: windows of an
\* epoch never overlap, the cursor covers exactly the closed prefix, and the
\* planner always finds its frontier.
THEOREM WindowSafety ==
  Spec => [](WindowsDisjoint /\ CursorCovered /\ CursorTight /\ FrontierDefined)
<1>1. Init => TypeOK /\ WindowInv
  BY InitHolds
<1>2. TypeOK /\ WindowInv /\ [Next]_vars => (TypeOK /\ WindowInv)'
  BY NextPreserves
<1>3. WindowInv => WindowsDisjoint /\ CursorCovered /\ CursorTight /\ FrontierDefined
  BY DEF WindowInv
<1> QED BY <1>1, <1>2, <1>3, PTL DEF Spec

\* Its parts: the cursor never passes a message outside a closed window.
THEOREM CursorSafety == Spec => []CursorCovered
  BY WindowSafety, PTL

\* Every transaction that closes a window also moves the cursor over it.
THEOREM CursorNeverLags == Spec => []CursorTight
  BY WindowSafety, PTL

\* _validated_frontier never answers None: the planner is not locked out.
THEOREM PlannerFrontier == Spec => []FrontierDefined
  BY WindowSafety, PTL

\* Within an epoch the cursor never moves back and closed windows stay closed.
THEOREM ProgressSafety == Spec => ProgressIsFinal
<1>1. Init => TypeOK /\ WindowInv
  BY InitHolds
<1>2. TypeOK /\ WindowInv /\ [Next]_vars => (TypeOK /\ WindowInv)'
  BY NextPreserves
<1>3. TypeOK /\ WindowInv /\ [Next]_vars =>
        [\A s \in Sessions : epoch'[s] = epoch[s] =>
           /\ cursor'[s] >= cursor[s]
           /\ \A j \in Of(jobs, s, epoch[s]) :
                jobs[j].status \in Done => jobs'[j].status = jobs[j].status]_vars
  BY NextPreserves DEF Progress
<1> QED BY <1>1, <1>2, <1>3, PTL DEF Spec, ProgressIsFinal

-----------------------------------------------------------------------------
(* The abstract specification *)

\* Row j is a window of the epoch of s and contains message q.
Contains(j, s, q) == jobs[j].s = s /\ jobs[j].e = epoch[s] /\ q \in Source(jobs[j])

\* The messages of planned, and of closed, windows, one by one.
MessagesByRow ==
  /\ Planned \in [Sessions -> SUBSET Nat] /\ Summarised \in [Sessions -> SUBSET Nat]
  /\ \A s \in Sessions : \A q : q \in Planned[s] <=> \E j \in 1..total : Contains(j, s, q)
  /\ \A s \in Sessions : \A q : q \in Summarised[s] <=>
       \E j \in 1..total : Contains(j, s, q) /\ jobs[j].status \in Done

\* Planned and Summarised are what they should be.
LEMMA PlannedIs == StoreType => MessagesByRow
<1> SUFFICES ASSUME StoreType PROVE MessagesByRow
  OBVIOUS
<1>1. DOMAIN jobs = 1..total
  BY RowTyped
<1>2. \A s \in Sessions : \A q : q \in Planned[s] <=> \E j \in 1..total : Contains(j, s, q)
  BY <1>1 DEF Planned, Of, Contains
<1>3. \A s \in Sessions : \A q : q \in Summarised[s] <=>
         \E j \in 1..total : Contains(j, s, q) /\ jobs[j].status \in Done
  BY <1>1 DEF Summarised, Of, Contains
<1>4. \A j \in 1..total : Source(jobs[j]) \subseteq Nat
  <2>1. \A j \in 1..total : jobs[j].start \in Nat /\ jobs[j].end \in Nat
    BY RowTyped, ConstantsAssumption DEF Job
  <2> QED BY <2>1 DEF Source
<1>5. \A s \in Sessions : Planned[s] \in SUBSET Nat /\ Summarised[s] \in SUBSET Nat
  BY <1>2, <1>3, <1>4 DEF Contains
<1>6. Planned \in [Sessions -> SUBSET Nat] /\ Summarised \in [Sessions -> SUBSET Nat]
  BY <1>5 DEF Planned, Summarised
<1> QED BY <1>2, <1>3, <1>6 DEF MessagesByRow

\* What a state of SummaryProgress satisfies: messages are planned without gap
\* and the cursor is where the summarised ones stop.
Reached ==
  \A s \in Sessions : /\ Abstract!Gapless(Planned[s]) /\ Summarised[s] \subseteq Planned[s]
                      /\ Abstract!Reaches(Summarised[s], cursor[s])

\* The window invariant implies it.
LEMMA WindowsReach == StoreType /\ WindowInv => Reached
<1> SUFFICES ASSUME StoreType, WindowInv, NEW s \in Sessions
             PROVE  /\ Abstract!Gapless(Planned[s]) /\ Summarised[s] \subseteq Planned[s]
                    /\ Abstract!Reaches(Summarised[s], cursor[s])
  BY DEF Reached
<1> DEFINE c == cursor[s]
<1>0. MessagesByRow /\ DOMAIN jobs = 1..total
  BY PlannedIs, RowTyped
<1>1. c \in Nat /\ \A j \in 1..total : jobs[j].start \in Nat /\ jobs[j].end \in Nat
  <2>1. \A j \in 1..total : jobs[j].start \in 0..MaxSeq /\ jobs[j].end \in 0..MaxSeq
    BY RowTyped DEF Job
  <2> QED BY <2>1, ConstantsAssumption DEF StoreType
<1>2. PICK f \in 0..MaxSeq : FrontierAt(s, f)
  BY DEF WindowInv, FrontierDefined
<1>3. f \in Nat
  BY ConstantsAssumption
<1>4. \A j \in 1..total, q \in Nat : q \in Source(jobs[j]) <=> Covers(jobs[j], q)
  BY <1>1 DEF Source, Covers
<1>5. \A q \in 1..c : q \in Summarised[s]
  <2> TAKE q \in 1..c
  <2>1. PICK j \in Of(jobs, s, epoch[s]) : jobs[j].status \in Done /\ Covers(jobs[j], q)
    BY DEF WindowInv, CursorCovered
  <2> QED BY <1>0, <1>4, <2>1 DEF Of, MessagesByRow, Contains
<1>6. Summarised[s] \subseteq Planned[s]
  BY <1>0 DEF MessagesByRow
<1>7. ASSUME NEW q \in Planned[s], NEW p \in 1..q PROVE p \in Planned[s]
  <2>1. PICK j \in 1..total : Contains(j, s, q)
    BY <1>0, <1>7 DEF MessagesByRow
  <2>2. j \in Of(jobs, s, epoch[s]) /\ q \in Nat /\ q <= jobs[j].end
    BY <1>0, <1>1, <2>1 DEF Of, Contains, Source
  <2>3. CASE p <= c
    BY <1>1, <1>5, <1>6, <2>2, <2>3
  <2>4. CASE p > c
    <3>1. jobs[j].end <= f
      BY <1>1, <1>2, <1>3, <2>2, <2>4 DEF FrontierAt
    <3>2. p \in (c + 1)..f
      BY <1>1, <1>3, <2>2, <2>4, <3>1
    <3>3. PICK k \in Of(jobs, s, epoch[s]) : Covers(jobs[k], p)
      BY <1>2, <3>2 DEF FrontierAt
    <3> QED BY <1>0, <1>4, <2>2, <3>3 DEF Of, MessagesByRow, Contains
  <2> QED BY <1>1, <2>2, <2>3, <2>4
<1>8. c + 1 \notin Summarised[s]
  <2> SUFFICES ASSUME c + 1 \in Summarised[s] PROVE FALSE
    OBVIOUS
  <2>1. PICK j \in 1..total : Contains(j, s, c + 1) /\ jobs[j].status \in Done
    BY <1>0 DEF MessagesByRow
  <2>2. j \in Of(jobs, s, epoch[s]) /\ jobs[j].start < c + 1 /\ c + 1 <= jobs[j].end
    BY <1>0, <1>1, <2>1 DEF Of, Contains, Source
  <2>3. c <= jobs[j].start
    BY <1>1, <1>2, <2>2 DEF FrontierAt
  <2>4. jobs[j].start # c
    BY <2>1, <2>2 DEF WindowInv, CursorTight
  <2> QED BY <1>1, <2>2, <2>3, <2>4
<1> QED BY <1>1, <1>5, <1>6, <1>7, <1>8 DEF Abstract!Gapless, Abstract!Reaches

\* Both together: where a state of the store lies in SummaryProgress.
Mapped == MessagesByRow /\ Reached

\* Messages of sessions are equal when they agree message by message.
LEMMA SameMessages ==
  ASSUME NEW F \in [Sessions -> SUBSET Nat], NEW G \in [Sessions -> SUBSET Nat],
         \A s \in Sessions : \A q : q \in F[s] <=> q \in G[s]
  PROVE  F = G
<1>1. \A s \in Sessions : F[s] = G[s]
  OBVIOUS
<1> QED BY <1>1

\* A quiet step settles messages: windows stay, closed ones stay closed.
LEMMA QuietSettles ==
  ASSUME StoreType, StoreType', Mapped, Mapped', Quiet
  PROVE  Abstract!Settle
<1>1. /\ total' = total /\ epoch' = epoch
      /\ \A j \in 1..total :
           /\ jobs'[j].s = jobs[j].s /\ jobs'[j].e = jobs[j].e
           /\ Source(jobs'[j]) = Source(jobs[j])
           /\ jobs[j].status \in Done => jobs'[j].status \in Done
  BY DEF Quiet, SameWindow, Source
<1>2. \A j \in 1..total, s \in Sessions : \A q : Contains(j, s, q)' <=> Contains(j, s, q)
  BY <1>1 DEF Contains
<1>3. \A s \in Sessions : \A q : q \in Planned'[s] <=> q \in Planned[s]
  BY <1>1, <1>2 DEF Mapped, MessagesByRow
<1>4. Planned' = Planned
  BY <1>3, SameMessages DEF Mapped, MessagesByRow
<1>5. \A s \in Sessions : Summarised[s] \subseteq Summarised'[s]
  BY <1>1, <1>2 DEF Mapped, MessagesByRow
<1>6. \A s \in Sessions : /\ Summarised'[s] \subseteq Planned[s]
                          /\ Abstract!Reaches(Summarised'[s], cursor'[s])
  BY <1>4 DEF Mapped, Reached
<1>7. Summarised' \in [Sessions -> SUBSET Nat] /\ cursor' \in [Sessions -> Nat]
  BY ConstantsAssumption DEF Mapped, MessagesByRow, StoreType
<1> QED BY <1>1, <1>4, <1>5, <1>6, <1>7 DEF Abstract!Settle

\* Planning closes nothing and adds rows of one session only.
LEMMA EnqueuePlans ==
  ASSUME StoreType, StoreType', Mapped, Mapped', NEW s \in Sessions,
         NEW f \in 0..MaxSeq, NEW obs \in 0..MaxSeq, f <= obs, Enqueue(s, f, obs)
  PROVE  Abstract!Plan(s)
<1> DEFINE m == NewWindows(f, obs)
<1>1. /\ total' = total + m /\ epoch' = epoch
      /\ jobs' = [j \in 1..(total + m) |->
                    IF j <= total THEN jobs[j]
                    ELSE NewJob(s, WindowStart(f, j - total), WindowEnd(f, obs, j - total))]
  BY DEF Enqueue, StoreJobs
<1>2. total \in Nat /\ total' \in Nat /\ 1..total \subseteq 1..total'
  BY EnqueueTyped DEF StoreType
<1> HIDE DEF m
<1>3. \A j \in 1..total : jobs'[j] = jobs[j]
  BY <1>1, <1>2
<1>4. \A j \in 1..total' : j \notin 1..total => jobs'[j].s = s /\ jobs'[j].status \notin Done
  <2>1. \A a, b : NewJob(s, a, b).s = s /\ NewJob(s, a, b).status \notin Done
    BY DEF NewJob, Done
  <2>2. \A j \in 1..total' : j \notin 1..total => \E a, b : jobs'[j] = NewJob(s, a, b)
    BY <1>1, <1>2
  <2> QED BY <2>1, <2>2
<1>5. \A j \in 1..total, r \in Sessions : \A q : Contains(j, r, q)' <=> Contains(j, r, q)
  BY <1>1, <1>3 DEF Contains
<1>6. \A r \in Sessions : \A q : q \in Summarised'[r] <=> q \in Summarised[r]
  BY <1>2, <1>3, <1>4, <1>5 DEF Mapped, MessagesByRow
<1>7. Summarised' = Summarised
  BY <1>6, SameMessages DEF Mapped, MessagesByRow
<1>8. \A r \in Sessions \ {s} : Planned'[r] = Planned[r]
  <2>0. \A r \in Sessions \ {s}, j \in 1..total' : \A q : Contains(j, r, q)' => j \in 1..total
    BY <1>4 DEF Contains
  <2>1. \A r \in Sessions \ {s} : \A q : q \in Planned'[r] <=> q \in Planned[r]
    BY <1>2, <1>5, <2>0 DEF Mapped, MessagesByRow
  <2> QED BY <2>1 DEF Mapped, MessagesByRow
<1>9. Planned[s] \subseteq Planned'[s]
  BY <1>2, <1>5 DEF Mapped, MessagesByRow
<1>10. cursor' = cursor
  <2>1. ASSUME NEW r \in Sessions PROVE cursor'[r] = cursor[r]
    <3>1. /\ Abstract!Reaches(Summarised[r], cursor[r])
          /\ Abstract!Reaches(Summarised[r], cursor'[r])
      BY <1>7 DEF Mapped, Reached
    <3>2. \A D, a, b : Abstract!Reaches(D, a) /\ Abstract!Reaches(D, b) => a = b
      BY DEF Abstract!Reaches
    <3> QED BY <3>1, <3>2
  <2> QED BY <2>1 DEF StoreType
<1>11. Planned' \in [Sessions -> SUBSET Nat] /\ Abstract!Gapless(Planned'[s])
  BY DEF Mapped, MessagesByRow, Reached
<1> QED BY <1>1, <1>7, <1>8, <1>9, <1>10, <1>11 DEF Abstract!Plan

\* A new epoch clears its sessions: no row is of the epoch it opens.
LEMMA NewEpochClears ==
  ASSUME StoreType, StoreType', RowsSound, Mapped, Mapped',
         NEW S \in SUBSET Sessions, NEW C, NewEpoch(S, C)
  PROVE  Abstract!Clear(S)
<1>1. /\ total' = total /\ total \in Nat
      /\ epoch' = [s \in Sessions |-> IF s \in S THEN epoch[s] + 1 ELSE epoch[s]]
      /\ cursor' = [s \in Sessions |-> IF s \in S THEN 0 ELSE cursor[s]]
  BY DEF NewEpoch, StoreType
<1>2. \A j \in 1..total :
        /\ jobs'[j].s = jobs[j].s /\ jobs'[j].e = jobs[j].e
        /\ Source(jobs'[j]) = Source(jobs[j])
        /\ jobs'[j].status \in Done <=> jobs[j].status \in Done
  <2>1. \A j \in 1..total :
          jobs[j] \in Job /\ (jobs'[j] = jobs[j]
                              \/ (jobs[j].status \notin Done
                                  /\ jobs'[j] = Released(jobs[j], "cancelled")))
    BY RowTyped DEF NewEpoch, Rows
  <2>2. "cancelled" \in Statuses /\ "cancelled" \notin Done
    BY DEF Statuses, Done
  <2> QED BY <2>1, <2>2, ReleasedRow DEF SameWindow, Source
<1>3. \A s \in S : \A q : q \notin Planned'[s] /\ q \notin Summarised'[s]
  <2>1. \A j \in 1..total, s \in S : ~(jobs'[j].s = s /\ jobs'[j].e = epoch'[s])
    <3>1. \A j \in 1..total : jobs[j].e <= epoch[jobs[j].s] /\ jobs[j].e \in Int
      BY RowTyped DEF RowsSound, Job
    <3>2. \A s \in Sessions : epoch[s] \in Int
      BY DEF StoreType
    <3> QED BY <1>1, <1>2, <3>1, <3>2
  <2> QED BY <1>1, <2>1 DEF Mapped, MessagesByRow, Contains
<1>4. \A s \in Sessions \ S, j \in 1..total : \A q : Contains(j, s, q)' <=> Contains(j, s, q)
  BY <1>1, <1>2 DEF Contains
<1>5. \A s \in Sessions \ S : \A q : /\ q \in Planned'[s] <=> q \in Planned[s]
                                     /\ q \in Summarised'[s] <=> q \in Summarised[s]
  BY <1>1, <1>2, <1>4 DEF Mapped, MessagesByRow
<1>6. \A s \in Sessions : /\ Planned'[s] = IF s \in S THEN {} ELSE Planned[s]
                          /\ Summarised'[s] = IF s \in S THEN {} ELSE Summarised[s]
  BY <1>3, <1>5 DEF Mapped, MessagesByRow
<1>7. /\ Planned' = [s \in Sessions |-> IF s \in S THEN {} ELSE Planned[s]]
      /\ Summarised' = [s \in Sessions |-> IF s \in S THEN {} ELSE Summarised[s]]
  BY <1>6 DEF Mapped, MessagesByRow
<1> QED BY <1>1, <1>7 DEF Abstract!Clear

\* The store and the scheduler implement SummaryProgress: through planners, workers
\* that come too late, restarts, clears and operators, a session only ever plans
\* messages in order, summarises planned messages for good and moves its cursor
\* to where they stop.
THEOREM ProgressRefinement == Spec => ImplementsProgress
<1>1. Init => Abstract!Init
  <2> SUFFICES ASSUME Init PROVE Abstract!Init
    OBVIOUS
  <2>1. \A s, e : Of(jobs, s, e) = {}
    BY DEF Init, Of
  <2>2. Planned = [s \in Sessions |-> {}] /\ Summarised = [s \in Sessions |-> {}]
    BY <2>1 DEF Planned, Summarised
  <2> QED BY <2>2 DEF Init, Abstract!Init
<1>2. TypeOK /\ WindowInv => StoreType /\ RowsSound /\ Mapped
  BY TypeSplit, PlannedIs, WindowsReach DEF Mapped, WindowInv
<1>3. /\ TypeOK /\ WindowInv /\ [Next]_vars
      /\ StoreType /\ RowsSound /\ Mapped /\ (StoreType /\ Mapped)'
      => [Abstract!Next]_(Abstract!vars)
  <2> SUFFICES ASSUME TypeOK, WindowInv, [Next]_vars, StoreType, RowsSound, Mapped,
                      StoreType', Mapped'
               PROVE  Abstract!Next
    OBVIOUS
  <2>1. StepKind
    BY NextPreserves
  <2>2. CASE Quiet
    BY <2>2, QuietSettles DEF Abstract!Next
  <2>3. ASSUME NEW s \in Sessions, NEW f \in 0..MaxSeq, NEW obs \in 0..MaxSeq,
               f <= obs, Enqueue(s, f, obs)
        PROVE  Abstract!Next
    BY <2>3, EnqueuePlans DEF Abstract!Next
  <2>4. ASSUME NEW S \in SUBSET Sessions, NEW C, NewEpoch(S, C) PROVE Abstract!Next
    BY <2>4, NewEpochClears DEF Abstract!Next
  <2> QED BY <2>1, <2>2, <2>3, <2>4 DEF StepKind
<1>4. Init => TypeOK /\ WindowInv
  BY InitHolds
<1>5. TypeOK /\ WindowInv /\ [Next]_vars => (TypeOK /\ WindowInv)'
  BY NextPreserves
<1> QED BY <1>1, <1>2, <1>3, <1>4, <1>5, PTL DEF Spec, ImplementsProgress, Abstract!Spec
=============================================================================
