------------------------ MODULE SummaryLedgerProofs ------------------------
(***************************************************************************)
(* Safety of the candidate ledger for every set of candidates, every limit *)
(* of attempts and any number of claims and faults.                        *)
(*                                                                         *)
(* The two databases are never written in one step, so the properties of   *)
(* the ledger hold because evidence only grows: a row, a merged key or a   *)
(* quarantined candidate that a worker has seen is still there when the    *)
(* worker writes it into a slot.                                           *)
(***************************************************************************)
EXTENDS SummaryLedger, TLAPS

Storing == {"staged", "checked", "finalize", "written"}
Ending  == {"commit", "recommit"}

\* What a worker's program counter says about its other fields.
Shape(w) ==
  /\ w.cur # None <=> w.step \in Storing
  /\ w.step \notin Ending \cup {"fail"} => w.out = "none"
  /\ w.step = "route" => \A k \in Slots : w.note[k] = "new" => k \in w.todo
  /\ w.step \in Storing \cup {"store"} =>
       \A k \in Slots : w.note[k] # "new" /\ (w.note[k] = "allow" => k \in w.todo)
  /\ w.step \in {"finalize", "written"} => w.note[w.cur] \in OwnerDispositions
  /\ w.step \in Ending /\ w.out = "none" =>
       \A k \in Slots : w.note[k] \notin {"new", "allow"}

\* What a worker has noted exists in the other databases.
NotesBacked(w) ==
  \A k \in Slots :
    /\ w.note[k] = "canonical" => mem[k].st # "none"
    /\ w.note[k] = "merged" => k \in merged
    /\ w.note[k] = "quarantined" => k \in evid

\* A worker that finalizes a row holds the claim that staged it.
OwnRow(w) == w.step = "finalize" =>
  w.cur \in Slots /\ mem[w.cur].st # "none" /\ mem[w.cur].by = w.gen
Backed(w) == NotesBacked(w) /\ OwnRow(w)

WorkerOK(w) == w \in Worker /\ Shape(w) /\ Backed(w)

\* What a slot says exists in the other databases.
SlotBacked(k) ==
  /\ slots[k].disp = "canonical" => slots[k].own = k
  /\ slots[k].disp = "merged" => slots[k].own = Pre
  /\ slots[k].disp = "quarantined" => k \in evid
  /\ slots[k].own = Pre => k \in merged
  /\ slots[k].own \in Slots => slots[k].own = k /\ mem[k].st # "none"
  /\ slots[k].st = "failed" => slots[k].disp = "failed"

\* A settled window has no slot a later step could touch.
Shut ==
  /\ job.status = "completed" => \A k \in Slots : slots[k].st \in {"absent", "committed"}
  /\ job.status = "abandoned" =>
       \A k \in Slots : slots[k].st \notin {"planned", "writing", "unknown"}

StoreOK ==
  /\ job \in Job /\ slots \in [Slots -> Slot]
  /\ \A k \in Slots : SlotBacked(k)
  /\ Shut

EvidenceOK == mem \in [Slots -> Memory] /\ merged \subseteq Slots /\ evid \subseteq Slots

RestOK == up \in BOOLEAN /\ faults \in 0..MaxFaults

\* The inductive invariant.
LedgerInv == StoreOK /\ EvidenceOK /\ RestOK /\ \A w \in workers : WorkerOK(w)

\* Evidence is never taken back, and a row keeps its claim and, but for a failed
\* read-back, its verdict.
Grows ==
  /\ merged \subseteq merged' /\ evid \subseteq evid'
  /\ \A k \in Slots :
       /\ mem[k].st # "none" => mem'[k].st # "none" /\ mem'[k].by = mem[k].by
       /\ mem[k].st = "accepted" => mem'[k] = mem[k] \/ TakenBack(k)
       /\ mem[k].st = "orphan" => mem'[k] = mem[k]

Final == job.status \in Settled => UNCHANGED <<job, slots>>

USE LedgerAssumption, NamesAssumption DEF None, Pre

-----------------------------------------------------------------------------
(* Preservation by the kinds of step *)

\* Workers that do not move stay sound while evidence grows.
LEMMA WorkersKept ==
  ASSUME LedgerInv, Grows, NEW v, WorkerOK(v)',
         workers' \subseteq workers \cup {v}
  PROVE  \A w \in workers' : WorkerOK(w)'
<1> SUFFICES ASSUME NEW w \in workers, w \in workers' PROVE WorkerOK(w)'
  OBVIOUS
<1>1. w \in Worker /\ Shape(w) /\ Backed(w)
  BY DEF LedgerInv, WorkerOK
<1>2. Backed(w)'
  BY <1>1 DEF Backed, NotesBacked, OwnRow, Grows
<1> QED BY <1>1, <1>2 DEF WorkerOK, Shape

\* So they do when a task ends and none moves.
LEMMA WorkersLeft ==
  ASSUME LedgerInv, Grows, workers' \subseteq workers
  PROVE  \A w \in workers' : WorkerOK(w)'
<1> SUFFICES ASSUME NEW w \in workers, w \in workers' PROVE WorkerOK(w)'
  OBVIOUS
<1>1. w \in Worker /\ Shape(w) /\ Backed(w)
  BY DEF LedgerInv, WorkerOK
<1>2. Backed(w)'
  BY <1>1 DEF Backed, NotesBacked, OwnRow, Grows
<1> QED BY <1>1, <1>2 DEF WorkerOK, Shape

\* Slots that do not change stay backed while evidence grows.
LEMMA SlotsKept ==
  ASSUME LedgerInv, Grows, UNCHANGED <<job, slots>>
  PROVE  StoreOK' /\ Final
<1>1. \A k \in Slots : SlotBacked(k)'
  BY DEF LedgerInv, StoreOK, SlotBacked, Grows
<1> QED BY <1>1 DEF LedgerInv, StoreOK, Shut, Final

\* A lease that expires, is recovered or handed out changes no slot.
LEMMA JobMoves ==
  ASSUME LedgerInv, UNCHANGED <<slots, mem, merged, evid>>, job' \in Job,
         job'.status \in Settled => job'.status = job.status,
         job.status \in Settled => job' = job
  PROVE  StoreOK' /\ EvidenceOK' /\ Grows /\ Final
<1>1. \A k \in Slots : SlotBacked(k)'
  BY DEF LedgerInv, StoreOK, SlotBacked
<1> QED BY <1>1 DEF LedgerInv, StoreOK, Shut, Final, EvidenceOK, Grows, Settled

\* Steps that leave the memory databases alone.
LEMMA NoEvidence ==
  ASSUME LedgerInv, UNCHANGED <<mem, merged, evid>>
  PROVE  EvidenceOK' /\ Grows
BY DEF LedgerInv, EvidenceOK, Grows

\* An injected fault is counted.
LEMMA FaultCounted ==
  ASSUME LedgerInv, Fault, up' \in BOOLEAN
  PROVE  RestOK'
<1>1. faults \in 0..MaxFaults
  BY DEF LedgerInv, RestOK
<1>2. faults' \in 0..MaxFaults
  BY <1>1 DEF Fault
<1> QED BY <1>2 DEF RestOK

-----------------------------------------------------------------------------
(* One lemma per action: the invariant, growing evidence, finality *)

Step == LedgerInv' /\ Grows /\ Final

\* claim_ready hands the window to a new worker.
LEMMA ClaimStep == ASSUME LedgerInv, Claim PROVE Step
<1>0. PICK v : v = [gen |-> job.gen + 1, note |-> [k \in Slots |-> "new"], todo |-> Slots,
                    step |-> "intents", cur |-> None, out |-> "none"]
  OBVIOUS
<1>1. job \in Job /\ job.status \in {"queued", "failed"}
  BY DEF LedgerInv, StoreOK, Claim
<1>2. job' \in Job /\ job'.status = "running"
  BY <1>1 DEF Claim, Job
<1>3. StoreOK' /\ EvidenceOK' /\ Grows /\ Final
  BY <1>1, <1>2, JobMoves DEF Claim, Settled
<1>4. v \in Worker
  BY <1>0, <1>1 DEF Claim, Worker, Notes, Job
<1>5. WorkerOK(v)'
  BY <1>0, <1>4 DEF WorkerOK, Shape, Backed, NotesBacked, OwnRow, Storing, Ending
<1>6. \A w \in workers' : WorkerOK(w)'
  BY <1>0, <1>3, <1>5, WorkersKept DEF Claim
<1> QED BY <1>3, <1>6 DEF Step, LedgerInv, RestOK, Claim

\* A lease runs out.
LEMMA ExpireStep == ASSUME LedgerInv, LeaseExpires PROVE Step
<1>1. job' \in Job /\ job.status = "running" /\ job'.status = "running"
  BY DEF LedgerInv, StoreOK, LeaseExpires, Job
<1>2. StoreOK' /\ EvidenceOK' /\ Grows /\ Final
  BY <1>1, JobMoves DEF LeaseExpires, Settled
<1> QED BY <1>2, WorkersLeft DEF Step, LedgerInv, RestOK, LeaseExpires

\* recover_expired_claims releases only a running row.
LEMMA RecoveredJob ==
  ASSUME LedgerInv
  PROVE  /\ Recovered \in Job
         /\ job.status # "running" => Recovered = job
         /\ job.status = "running" => Recovered.status \in {"running", "blocked", "queued"}
BY DEF LedgerInv, StoreOK, Recovered, Released, Job

\* recover_expired_claims keeps the ledger.
LEMMA RecoverStep == ASSUME LedgerInv, RecoverExpiredClaims PROVE Step
<1>1. job' \in Job /\ job.status = "running" /\ job'.status \in {"running", "blocked", "queued"}
  BY RecoveredJob DEF RecoverExpiredClaims
<1>2. StoreOK' /\ EvidenceOK' /\ Grows /\ Final
  BY <1>1, JobMoves DEF RecoverExpiredClaims, Settled
<1> QED BY <1>2, WorkersLeft DEF Step, LedgerInv, RestOK, RecoverExpiredClaims

\* A crash forgets the tasks and nothing else.
LEMMA CrashStep == ASSUME LedgerInv, Crash PROVE Step
<1>1. EvidenceOK' /\ Grows
  BY NoEvidence DEF Crash
<1>2. StoreOK' /\ Final
  BY <1>1, SlotsKept DEF Crash
<1>3. RestOK'
  BY FaultCounted, Zenon DEF Crash
<1> QED BY <1>1, <1>2, <1>3 DEF Step, LedgerInv, Crash

\* A stop gives the running claim back.
LEMMA StopStep == ASSUME LedgerInv, Stop PROVE Step
<1>0. job \in Job
  BY DEF LedgerInv, StoreOK
<1>1. /\ job' \in Job
      /\ job' = job \/ (job.status = "running" /\ job'.status = "queued")
  <2>1. CASE job' = job
    BY <1>0, <2>1
  <2>2. CASE /\ job.status = "running"
             /\ job' = [Released("queued") EXCEPT !.att = IF @ > 0 THEN @ - 1 ELSE 0]
    <3>1. PICK r : r = Released("queued")
      OBVIOUS
    <3>2. r \in Job /\ r.status = "queued"
      BY <1>0, <3>1 DEF Released, Job
    <3>3. PICK n : n = IF r.att > 0 THEN r.att - 1 ELSE 0
      OBVIOUS
    <3>4. n \in 0..MaxAttempts
      <4>1. r.att \in 0..MaxAttempts
        BY <3>2 DEF Job
      <4> QED BY <3>3, <4>1
    <3>5. job' = [r EXCEPT !.att = n]
      BY <2>2, <3>1, <3>3
    <3> QED BY <2>2, <3>2, <3>4, <3>5 DEF Job
  <2> QED BY <2>1, <2>2 DEF Stop
<1>2. StoreOK' /\ EvidenceOK' /\ Grows /\ Final
  BY <1>1, JobMoves DEF Stop, Settled
<1>3. RestOK'
  BY FaultCounted, Zenon DEF Stop
<1> QED BY <1>2, <1>3 DEF Step, LedgerInv, Stop

\* confirm_abandon_session_jobs closes every open slot.
LEMMA AbandonStep == ASSUME LedgerInv, Abandon PROVE Step
<1>1. job' \in Job /\ job'.status = "abandoned" /\ job.status \notin Settled
  BY DEF LedgerInv, StoreOK, Abandon, Job, Released, Settled
<1>2. slots' \in [Slots -> Slot]
  <2>1. ASSUME NEW k \in Slots
        PROVE  /\ slots[k] \in Slot
               /\ [slots[k] EXCEPT !.st = "failed", !.disp = "failed"] \in Slot
    BY DEF LedgerInv, StoreOK, Slot, Closed
  <2> QED BY <2>1 DEF Abandon
<1>3. EvidenceOK' /\ Grows
  BY NoEvidence DEF Abandon
<1>4. \A k \in Slots : SlotBacked(k)'
  <2> SUFFICES ASSUME NEW k \in Slots PROVE SlotBacked(k)'
    OBVIOUS
  <2>1. slots[k] \in Slot /\ SlotBacked(k) /\ slots[k].own = None
    BY DEF LedgerInv, StoreOK, Abandon
  <2>2. \/ slots'[k] = slots[k]
        \/ slots'[k].st = "failed" /\ slots'[k].disp = "failed" /\ slots'[k].own = None
    BY <2>1 DEF Abandon, Slot
  <2> QED BY <2>1, <2>2 DEF Abandon, SlotBacked
<1>5. Shut'
  BY <1>1 DEF LedgerInv, StoreOK, Abandon, Shut, Slot
<1> QED BY <1>1, <1>2, <1>3, <1>4, <1>5, WorkersLeft
        DEF Step, LedgerInv, StoreOK, RestOK, Abandon, Final

\* What the startup reconcile writes into a slot is backed.
LEMMA EvidenceBacked ==
  ASSUME LedgerInv, NEW k \in Slots
  PROVE  /\ Evidence(k) \in Slot
         /\ Evidence(k).st \in {"committed", "unknown"}
         /\ Evidence(k).disp = "canonical" => Evidence(k).own = k
         /\ Evidence(k).disp = "merged" => Evidence(k).own = Pre
         /\ Evidence(k).disp = "quarantined" => k \in evid
         /\ Evidence(k).own = Pre => k \in merged
         /\ Evidence(k).own \in Slots => Evidence(k).own = k /\ mem[k].st # "none"
BY DEF Evidence, Slot, Closed, OwnerDispositions

\* start() recovers leases and reconciles the open slots.
LEMMA RestartStep == ASSUME LedgerInv, Restart PROVE Step
<1> DEFINE open    == {k \in Slots : slots[k].st \in {"writing", "unknown"}}
           scanned == open # {} \/ (Recovered.status = "running"
                                    /\ \A k \in Slots : slots[k].st # "absent")
           after   == [k \in Slots |-> IF k \in open THEN Evidence(k) ELSE slots[k]]
           closed  == \A k \in Slots : after[k].st \in Closed
           failed  == \E k \in Slots : after[k].disp = "failed"
<1>1. /\ Recovered \in Job
      /\ job.status # "running" => Recovered = job
      /\ job.status = "running" => Recovered.status \in {"running", "blocked", "queued"}
  BY RecoveredJob
<1>2. job \in Job /\ slots \in [Slots -> Slot] /\ Shut /\ \A k \in Slots : SlotBacked(k)
  BY DEF LedgerInv, StoreOK
<1>3. EvidenceOK' /\ Grows
  BY NoEvidence DEF Restart
<1>4. \/ scanned /\ slots' = after
      \/ ~scanned /\ slots' = slots
  BY DEF Restart
<1>5. \/ job'.status = "unknown" /\ job' \in Job /\ scanned
      \/ scanned /\ closed /\ ~failed /\ job'.status = "completed" /\ job' \in Job
         /\ Recovered.status \in {"running", "unknown", "failed", "queued"}
      \/ job' = Recovered /\ (scanned => closed)
  <2>1. CASE scanned /\ ~closed
    <3>1. job' = [Recovered EXCEPT !.status = "unknown", !.live = FALSE]
      BY <2>1 DEF Restart
    <3> QED BY <1>1, <2>1, <3>1 DEF Job
  <2>2. CASE scanned /\ closed /\ ~failed
             /\ Recovered.status \in {"running", "unknown", "failed", "queued"}
    <3>1. job' = [Recovered EXCEPT !.status = "completed", !.live = FALSE]
      BY <2>2 DEF Restart
    <3> QED BY <1>1, <2>2, <3>1 DEF Job, Settled
  <2>3. CASE ~(scanned /\ ~closed)
             /\ ~(scanned /\ ~failed
                  /\ Recovered.status \in {"running", "unknown", "failed", "queued"})
    <3>1. job' = Recovered
      BY <2>3 DEF Restart
    <3> QED BY <2>3, <3>1
  <2> QED BY <2>1, <2>2, <2>3
<1>6. job.status \in Settled => ~scanned
  BY <1>1, <1>2 DEF Shut, Settled
<1>7. after \in [Slots -> Slot]
  BY <1>2, EvidenceBacked
<1>8. \A k \in Slots : SlotBacked(k)'
  <2> SUFFICES ASSUME NEW k \in Slots PROVE SlotBacked(k)'
    OBVIOUS
  <2>1. UNCHANGED <<mem, merged, evid>>
    BY DEF Restart
  <2>2. CASE slots'[k] = slots[k]
    BY <1>2, <2>1, <2>2 DEF SlotBacked
  <2>3. CASE slots'[k] = Evidence(k)
    BY <2>1, <2>3, EvidenceBacked DEF SlotBacked
  <2> QED BY <1>4, <2>2, <2>3
<1>9. Shut'
  <2>1. CASE job'.status = "unknown"
    BY <2>1 DEF Shut
  <2>2. CASE scanned /\ closed /\ ~failed /\ job'.status = "completed"
    <3>1. \A k \in Slots : slots'[k].st \in Closed /\ slots'[k].disp # "failed"
      BY <2>2, <1>4
    <3>2. \A k \in Slots : slots'[k].st = "committed"
      BY <3>1, <1>8 DEF SlotBacked, Closed
    <3> QED BY <2>2, <3>2 DEF Shut
  <2>3. CASE job' = Recovered
    <3>1. CASE job.status \in Settled
      BY <3>1, <2>3, <1>1, <1>2, <1>4, <1>6 DEF Shut, Settled
    <3>2. CASE job.status \notin Settled
      BY <3>2, <2>3, <1>1 DEF Shut, Settled
    <3> QED BY <3>1, <3>2
  <2> QED BY <2>1, <2>2, <2>3, <1>5
<1>10. Final
  <2> SUFFICES ASSUME job.status \in Settled PROVE UNCHANGED <<job, slots>>
    BY DEF Final
  <2>1. ~scanned /\ Recovered = job
    BY <1>1, <1>6 DEF Settled
  <2> QED BY <2>1, <1>4, <1>5
<1> QED BY <1>1, <1>2, <1>3, <1>4, <1>5, <1>7, <1>8, <1>9, <1>10, WorkersLeft
        DEF Step, LedgerInv, StoreOK, RestOK, Restart

-----------------------------------------------------------------------------
(* Steps of a worker *)

\* What the invariant says of one worker.
LEMMA OneWorker ==
  ASSUME LedgerInv, NEW w \in workers
  PROVE  w \in Worker /\ Shape(w) /\ Backed(w)
BY DEF LedgerInv, WorkerOK

\* A worker that moves and leaves the conversation database alone.
LEMMA Moved ==
  ASSUME LedgerInv, NEW w \in workers, NEW v, Become(w, v),
         v \in Worker, Shape(v), Backed(v)', EvidenceOK', Grows, RestOK',
         UNCHANGED <<job, slots>>
  PROVE  Step
<1>1. StoreOK' /\ Final
  BY SlotsKept
<1>2. WorkerOK(v)'
  BY DEF WorkerOK, Shape
<1>3. \A u \in workers' : WorkerOK(u)'
  BY <1>2, WorkersKept DEF Become, With
<1> QED BY <1>1, <1>3 DEF Step, LedgerInv

\* A worker that moves, keeps its notes and leaves both databases alone.
LEMMA MovedQuietly ==
  ASSUME LedgerInv, NEW w \in workers, NEW v, Become(w, v),
         v \in Worker, Shape(v), v.note = w.note, v.step # "finalize", RestOK',
         UNCHANGED <<job, slots, mem, merged, evid>>
  PROVE  Step
<1>1. EvidenceOK' /\ Grows
  BY NoEvidence
<1>2. Backed(v)'
  BY OneWorker DEF Backed, NotesBacked, OwnRow
<1> QED BY <1>1, <1>2, Moved

\* A worker that gives up is well formed.
LEMMA GivesUp ==
  ASSUME LedgerInv, NEW w \in workers, NEW v,
         \/ \E out \in {"nofacts", "mismatch", "unknown"} : v = Unknown(w, out)
         \/ \E out \in {"retry", "block"} : v = Failing(w, out)
  PROVE  v \in Worker /\ Shape(v) /\ v.note = w.note /\ v.step # "finalize"
<1>1. w \in Worker
  BY OneWorker
<1>2. CASE \E out \in {"nofacts", "mismatch", "unknown"} : v = Unknown(w, out)
  <2>1. PICK out \in {"nofacts", "mismatch", "unknown"} : v = Unknown(w, out)
    BY <1>2
  <2>2. /\ v \in Worker /\ v.note = w.note /\ v.step = "commit" /\ v.cur = None
        /\ v.out = out
    BY <1>1, <2>1 DEF Unknown, Worker
  <2> QED BY <2>2 DEF Shape, Storing, Ending
<1>3. CASE \E out \in {"retry", "block"} : v = Failing(w, out)
  <2>1. PICK out \in {"retry", "block"} : v = Failing(w, out)
    BY <1>3
  <2>2. /\ v \in Worker /\ v.note = w.note /\ v.step = "fail" /\ v.cur = None
        /\ v.out = out
    BY <1>1, <2>1 DEF Failing, Worker
  <2> QED BY <2>2 DEF Shape, Storing, Ending
<1> QED BY <1>2, <1>3

\* A worker that moves on to looking for owners.
LEMMA MovesTo ==
  ASSUME LedgerInv, NEW w \in workers, NEW v, w.out = "none", w.cur = None,
         NEW s \in {"find", "begin"}, v = [w EXCEPT !.step = s]
  PROVE  v \in Worker /\ Shape(v) /\ v.note = w.note /\ v.step # "finalize"
<1>1. w \in Worker
  BY OneWorker
<1>2. v \in Worker /\ v.note = w.note /\ v.step = s /\ v.cur = None /\ v.out = "none"
  BY <1>1 DEF Worker
<1> QED BY <1>2 DEF Shape, Storing, Ending

\* begin_candidate_intents plans slots only for a live claim.
LEMMA IntentsStep ==
  ASSUME LedgerInv, NEW w \in workers, BeginCandidateIntents(w) PROVE Step
<1>0. w.out = "none" /\ w.cur = None
  BY OneWorker DEF Shape, BeginCandidateIntents, Storing, Ending
<1>1. PICK v : /\ Become(w, v)
               /\ \/ v = [w EXCEPT !.step = "find"]
                  \/ \E out \in {"nofacts", "mismatch", "unknown"} : v = Unknown(w, out)
                  \/ \E out \in {"retry", "block"} : v = Failing(w, out)
  BY DEF BeginCandidateIntents
<1>2. v \in Worker /\ Shape(v) /\ v.note = w.note /\ v.step # "finalize"
  BY <1>0, <1>1, GivesUp, MovesTo
<1>3. RestOK' /\ UNCHANGED <<job, mem, merged, evid>>
  BY DEF BeginCandidateIntents, LedgerInv, RestOK
<1>4. CASE UNCHANGED slots
  BY <1>1, <1>2, <1>3, <1>4, MovedQuietly
<1>5. CASE /\ Matches(w)
           /\ slots' = [k \in Slots |-> [st |-> "planned", disp |-> "null", own |-> None]]
  <2>1. EvidenceOK' /\ Grows
    BY <1>3, NoEvidence
  <2>2. \A u \in workers' : WorkerOK(u)'
    <3>1. WorkerOK(v)'
      BY <1>2, <1>3, OneWorker DEF WorkerOK, Shape, Backed, NotesBacked, OwnRow
    <3> QED BY <1>1, <2>1, <3>1, WorkersKept DEF Become, With
  <2>3. slots' \in [Slots -> Slot] /\ \A k \in Slots : SlotBacked(k)'
    BY <1>5 DEF Slot, SlotBacked
  <2>4. StoreOK' /\ Final
    BY <1>3, <1>5, <2>3 DEF LedgerInv, StoreOK, Shut, Final, Matches, Settled
  <2> QED BY <1>3, <2>1, <2>2, <2>4 DEF Step, LedgerInv
<1> QED BY <1>4, <1>5 DEF BeginCandidateIntents

\* _find_completed_keys notes only owners that are there.
LEMMA FindStep ==
  ASSUME LedgerInv, NEW w \in workers, FindCompletedKeys(w) PROVE Step
<1>1. w \in Worker /\ w.out = "none" /\ w.cur = None
  BY OneWorker DEF Shape, FindCompletedKeys, Storing, Ending
<1>2. RestOK' /\ UNCHANGED <<job, slots, mem, merged, evid>>
  BY DEF FindCompletedKeys, LedgerInv, RestOK
<1>3. PICK note : note = [k \in Slots |-> Discovered(k)]
  OBVIOUS
<1>4. CASE Become(w, Failing(w, "block"))
  BY <1>2, <1>4, GivesUp, MovedQuietly
<1>5. CASE \E s \in {"owners", "begin"} : Become(w, [w EXCEPT !.note = note, !.step = s])
  <2>0. PICK s \in {"owners", "begin"} : Become(w, [w EXCEPT !.note = note, !.step = s])
    BY <1>5
  <2>1. PICK v : v = [w EXCEPT !.note = note, !.step = s] /\ Become(w, v)
    BY <2>0
  <2>2. note \in [Slots -> Notes]
    BY <1>3 DEF Discovered, Notes, OwnerDispositions
  <2>3. /\ v \in Worker /\ v.note = note /\ v.step = s /\ v.cur = None
        /\ v.out = "none"
    BY <1>1, <2>1, <2>2 DEF Worker
  <2>4. Shape(v)
    BY <2>3 DEF Shape, Storing, Ending
  <2>5. Backed(v)'
    BY <1>2, <1>3, <2>3 DEF Backed, NotesBacked, OwnRow, Discovered
  <2> QED BY <1>2, <2>1, <2>3, <2>4, <2>5, NoEvidence, Moved
<1> QED BY <1>3, <1>4, <1>5 DEF FindCompletedKeys

-----------------------------------------------------------------------------
(* Reconciling and closing the ledger *)

\* Releasing a claim types the job row.
LEMMA ReleasedJob ==
  ASSUME LedgerInv, NEW s \in {"queued", "running", "failed", "blocked", "unknown",
                               "completed", "abandoned"}
  PROVE  Released(s) \in Job /\ Released(s).status = s
BY DEF LedgerInv, StoreOK, Released, Job, Settled

\* _mark_unknown_claim forgets only what was open.
LEMMA UnknownMarked ==
  ASSUME LedgerInv, NEW w \in workers, Matches(w), MarkUnknown,
         UNCHANGED <<mem, merged, evid>>
  PROVE  StoreOK' /\ Final
<1>1. job' \in Job /\ job'.status = "unknown"
  BY ReleasedJob DEF MarkUnknown
<1>2. slots' \in [Slots -> Slot]
  BY DEF LedgerInv, StoreOK, MarkUnknown, Slot
<1>3. \A k \in Slots : SlotBacked(k)'
  <2> SUFFICES ASSUME NEW k \in Slots PROVE SlotBacked(k)'
    OBVIOUS
  <2>1. SlotBacked(k)
    BY DEF LedgerInv, StoreOK
  <2>2. \/ slots'[k] = slots[k]
        \/ slots'[k].st = "unknown" /\ slots'[k].disp = "null" /\ slots'[k].own = None
    BY DEF MarkUnknown
  <2> QED BY <2>1, <2>2 DEF SlotBacked
<1> QED BY <1>1, <1>2, <1>3 DEF StoreOK, Shut, Final, Matches, Settled

\* The owner a live outcome resolves to is there.
LEMMA ResolvedBacked ==
  ASSUME LedgerInv, NEW w \in workers, NEW k \in Slots
  PROVE  /\ Resolved(w, k) \in Slots \cup {None, Pre}
         /\ slots[k].own # None => Resolved(w, k) = slots[k].own
         /\ Resolved(w, k) = Pre => k \in merged
         /\ Resolved(w, k) \in Slots => Resolved(w, k) = k /\ mem[k].st # "none"
<1>1. slots[k] \in Slot /\ SlotBacked(k)
  BY DEF LedgerInv, StoreOK
<1>2. Backed(w)
  BY OneWorker
<1> QED BY <1>1, <1>2 DEF Resolved, Known, OwnerOf, SlotBacked, Backed, NotesBacked, Slot

\* reconcile_window records owners that are there and completes only a ledger
\* whose slots are all committed.
LEMMA Reconciled ==
  ASSUME LedgerInv, NEW w \in workers, NEW stopped, NEW goingOn,
         ReconcileWindow(w, stopped, goingOn), UNCHANGED <<mem, merged, evid>>
  PROVE  StoreOK' /\ Final /\ workers' \in {stopped, goingOn}
<1>1. CASE UNCHANGED <<job, slots>> /\ workers' = stopped
  BY <1>1, NoEvidence, SlotsKept
<1>2. CASE Matches(w) /\ MarkUnknown /\ workers' = stopped
  BY <1>2, UnknownMarked
<1>3. CASE /\ Matches(w) /\ ~(AllClosed /\ \E k \in Slots : slots[k].disp = "failed")
           /\ slots' = [k \in Slots |-> [slots[k] EXCEPT !.own = Resolved(w, k)]]
           /\ job' = IF AllClosed THEN Released("completed") ELSE job
           /\ workers' = IF AllClosed THEN stopped ELSE goingOn
  <2>1. ASSUME NEW k \in Slots
        PROVE  /\ slots[k] \in Slot /\ SlotBacked(k)
               /\ slots'[k] \in Slot /\ slots'[k].own = Resolved(w, k)
               /\ slots'[k].st = slots[k].st /\ slots'[k].disp = slots[k].disp
    <3>1. slots[k] \in Slot /\ SlotBacked(k)
      BY DEF LedgerInv, StoreOK
    <3>2. slots'[k] = [slots[k] EXCEPT !.own = Resolved(w, k)]
      BY <1>3
    <3> QED BY <3>1, <3>2, ResolvedBacked DEF Slot
  <2>2. slots' \in [Slots -> Slot]
    BY <1>3, <2>1
  <2>3. \A k \in Slots : SlotBacked(k)'
    BY <2>1, ResolvedBacked DEF SlotBacked
  <2>4. job' \in Job /\ (job'.status # "running" => AllClosed /\ job'.status = "completed")
    BY <1>3, ReleasedJob DEF LedgerInv, StoreOK, Matches
  <2>5. AllClosed => \A k \in Slots : slots'[k].st = "committed"
    <3> SUFFICES ASSUME AllClosed, NEW k \in Slots PROVE slots'[k].st = "committed"
      OBVIOUS
    <3>1. slots[k].st \in Closed /\ slots[k].disp # "failed"
      BY <1>3 DEF AllClosed
    <3>2. SlotBacked(k) /\ slots'[k].st = slots[k].st
      BY <2>1
    <3> QED BY <3>1, <3>2 DEF SlotBacked, Closed
  <2>6. Shut' /\ Final
    BY <1>3, <2>4, <2>5 DEF Shut, Final, Matches, Settled
  <2> QED BY <1>3, <2>2, <2>3, <2>4, <2>6 DEF StoreOK
<1> QED BY <1>1, <1>2, <1>3 DEF ReconcileWindow

\* _reconcile_discovered_owners
LEMMA OwnersStep ==
  ASSUME LedgerInv, NEW w \in workers, ReconcileOwners(w) PROVE Step
<1>0. w.out = "none" /\ w.cur = None
  BY OneWorker DEF Shape, ReconcileOwners, Storing, Ending
<1>1. PICK u, v : u = Unknown(w, "unknown") /\ v = [w EXCEPT !.step = "begin"]
  OBVIOUS
<1>2. /\ u \in Worker /\ Shape(u) /\ u.note = w.note /\ u.step # "finalize"
      /\ v \in Worker /\ Shape(v) /\ v.note = w.note /\ v.step # "finalize"
  BY <1>0, <1>1, GivesUp, MovesTo
<1>3. RestOK' /\ UNCHANGED <<mem, merged, evid>>
  BY DEF ReconcileOwners, LedgerInv, RestOK
<1>4. EvidenceOK' /\ Grows
  BY <1>3, NoEvidence
<1>5. StoreOK' /\ Final /\ workers' \in {With(w, u), With(w, v)}
  BY <1>1, <1>3, Reconciled DEF ReconcileOwners
<1>6. WorkerOK(u)' /\ WorkerOK(v)'
  BY <1>2, <1>3, OneWorker DEF WorkerOK, Shape, Backed, NotesBacked, OwnRow
<1>7. \A x \in workers' : WorkerOK(x)'
  BY <1>4, <1>5, <1>6, WorkersKept DEF With
<1> QED BY <1>3, <1>4, <1>5, <1>7 DEF Step, LedgerInv

\* A commit that failed records the owners and keeps the worker for one retry.
LEMMA CommitFailureStep ==
  ASSUME LedgerInv, NEW w \in workers, ReconcileCommitFailure(w) PROVE Step
<1>1. PICK v : v = [w EXCEPT !.step = "recommit"]
  OBVIOUS
<1>2. v \in Worker /\ Shape(v) /\ v.note = w.note /\ v.step # "finalize"
  <2>1. w \in Worker /\ Shape(w) /\ w.step = "commit"
    BY OneWorker DEF ReconcileCommitFailure
  <2>2. /\ v \in Worker /\ v.note = w.note /\ v.step = "recommit" /\ v.cur = w.cur
        /\ v.out = w.out
    BY <1>1, <2>1 DEF Worker
  <2> QED BY <2>1, <2>2 DEF Shape, Storing, Ending
<1>3. UNCHANGED <<mem, merged, evid>> /\ RestOK'
  BY FaultCounted DEF ReconcileCommitFailure, LedgerInv, RestOK
<1>4. EvidenceOK' /\ Grows
  BY <1>3, NoEvidence
<1>5. StoreOK' /\ Final /\ workers' \in {workers \ {w}, With(w, v)}
  BY <1>1, <1>3, Reconciled DEF ReconcileCommitFailure
<1>6. WorkerOK(v)'
  BY <1>2, <1>3, OneWorker DEF WorkerOK, Shape, Backed, NotesBacked, OwnRow
<1>7. \A x \in workers' : WorkerOK(x)'
  BY <1>4, <1>5, <1>6, WorkersKept DEF With
<1> QED BY <1>3, <1>4, <1>5, <1>7 DEF Step, LedgerInv

\* begin_candidate_write moves a slot of a live claim from planned to writing.
LEMMA BeginStep ==
  ASSUME LedgerInv, NEW w \in workers, BeginCandidateWrite(w) PROVE Step
<1>0. w \in Worker /\ w.out = "none" /\ w.cur = None /\ w.step = "begin"
  BY OneWorker DEF Shape, BeginCandidateWrite, Storing, Ending
<1>1. RestOK' /\ UNCHANGED <<job, mem, merged, evid>>
  BY DEF BeginCandidateWrite, LedgerInv, RestOK
<1>2. EvidenceOK' /\ Grows
  BY <1>1, NoEvidence
<1>3. PICK k \in w.todo :
        \/ Become(w, Unknown(w, "unknown")) /\ UNCHANGED slots
        \/ /\ Matches(w) /\ slots' = [slots EXCEPT ![k] = Begun(@)]
           /\ \/ Become(w, [w EXCEPT !.step = "route",
                            !.todo = {l \in Slots : w.note[l] = "new"}])
              \/ Become(w, [w EXCEPT !.todo = @ \ {k}])
  BY DEF BeginCandidateWrite
<1>4. CASE Become(w, Unknown(w, "unknown")) /\ UNCHANGED slots
  BY <1>1, <1>4, GivesUp, MovedQuietly
<1>5. CASE /\ Matches(w) /\ slots' = [slots EXCEPT ![k] = Begun(@)]
           /\ \/ Become(w, [w EXCEPT !.step = "route",
                            !.todo = {l \in Slots : w.note[l] = "new"}])
              \/ Become(w, [w EXCEPT !.todo = @ \ {k}])
  <2>1. PICK v : /\ Become(w, v)
                 /\ \/ v = [w EXCEPT !.step = "route",
                            !.todo = {l \in Slots : w.note[l] = "new"}]
                    \/ v = [w EXCEPT !.todo = @ \ {k}]
    BY <1>5
  <2>2. /\ v \in Worker /\ v.note = w.note /\ v.cur = None /\ v.out = "none"
        /\ \/ v.step = "begin"
           \/ v.step = "route" /\ v.todo = {l \in Slots : w.note[l] = "new"}
    <3>1. PICK t : t = {l \in Slots : w.note[l] = "new"}
      OBVIOUS
    <3>2. t \subseteq Slots /\ w.todo \ {k} \subseteq Slots
      BY <1>0, <3>1 DEF Worker
    <3>3. CASE v = [w EXCEPT !.step = "route", !.todo = t]
      BY <1>0, <3>1, <3>2, <3>3 DEF Worker
    <3>4. CASE v = [w EXCEPT !.todo = @ \ {k}]
      BY <1>0, <3>2, <3>4 DEF Worker
    <3> QED BY <2>1, <3>1, <3>3, <3>4
  <2>3. Shape(v)
    BY <2>2 DEF Shape, Storing, Ending
  <2>4. WorkerOK(v)'
    BY <1>1, <2>2, <2>3, OneWorker DEF WorkerOK, Shape, Backed, NotesBacked, OwnRow
  <2>5. \A x \in workers' : WorkerOK(x)'
    BY <1>2, <2>1, <2>4, WorkersKept DEF Become, With
  <2>6. ASSUME NEW l \in Slots
        PROVE  /\ slots[l] \in Slot /\ SlotBacked(l) /\ slots'[l] \in Slot
               /\ slots'[l].own = slots[l].own /\ slots'[l].disp = slots[l].disp
               /\ slots'[l].st \in {slots[l].st, "writing"}
    <3>1. slots \in [Slots -> Slot] /\ SlotBacked(l)
      BY DEF LedgerInv, StoreOK
    <3>2. slots'[l] \in {slots[l], [slots[l] EXCEPT !.st = "writing"]}
      BY <1>5, <3>1 DEF Begun
    <3> QED BY <3>1, <3>2 DEF Slot
  <2>7. slots' \in [Slots -> Slot]
    BY <1>5, <2>6 DEF LedgerInv, StoreOK
  <2>8. \A l \in Slots : SlotBacked(l)'
    BY <1>1, <2>6 DEF SlotBacked
  <2>9. StoreOK' /\ Final
    BY <1>1, <1>5, <2>7, <2>8 DEF LedgerInv, StoreOK, Shut, Final, Matches, Settled
  <2> QED BY <1>1, <1>2, <2>5, <2>9 DEF Step, LedgerInv
<1> QED BY <1>3, <1>4, <1>5

\* commit_window completes a window only when every slot it writes is backed.
LEMMA CommitStep ==
  ASSUME LedgerInv, NEW w \in workers, CommitWindow(w) PROVE Step
<1>0. w \in Worker /\ Shape(w) /\ Backed(w) /\ w.step \in Ending
  BY OneWorker DEF CommitWindow, Ending
<1>1. RestOK' /\ UNCHANGED <<mem, merged, evid>> /\ workers' \subseteq workers
  BY DEF CommitWindow, LedgerInv, RestOK, Leave
<1>2. EvidenceOK' /\ Grows /\ \A x \in workers' : WorkerOK(x)'
  BY <1>1, NoEvidence, WorkersLeft
<1>3. slots \in [Slots -> Slot] /\ job \in Job /\ \A k \in Slots : SlotBacked(k)
  BY DEF LedgerInv, StoreOK
<1>4. CASE UNCHANGED <<job, slots>>
  BY <1>1, <1>2, <1>4, SlotsKept DEF Step, LedgerInv
<1>5. CASE Matches(w) /\ MarkUnknown
  BY <1>1, <1>2, <1>5, UnknownMarked DEF Step, LedgerInv
<1>6. CASE /\ Matches(w) /\ ~Disagrees(w) /\ w.out = "nofacts"
           /\ job' = Released("completed") /\ UNCHANGED slots
  <2>1. job' \in Job /\ job'.status = "completed"
    BY <1>6, ReleasedJob
  <2>2. \A k \in Slots : slots'[k].st = "absent" /\ SlotBacked(k)'
    BY <1>1, <1>3, <1>6 DEF Disagrees, SlotBacked
  <2>3. StoreOK' /\ Final
    BY <1>3, <1>6, <2>1, <2>2 DEF StoreOK, Shut, Final, Matches, Settled
  <2> QED BY <1>1, <1>2, <2>3 DEF Step, LedgerInv
<1>7. CASE /\ Matches(w) /\ ~Disagrees(w) /\ w.out = "unknown"
           /\ job' = Released("unknown")
           /\ slots' = [k \in Slots |-> [slots[k] EXCEPT !.st = "unknown", !.disp = "null"]]
  <2>1. job' \in Job /\ job'.status = "unknown"
    BY <1>7, ReleasedJob
  <2>2. ASSUME NEW k \in Slots
        PROVE  /\ slots'[k] \in Slot /\ slots'[k].own = slots[k].own
               /\ slots'[k].st = "unknown" /\ slots'[k].disp = "null"
    <3>1. slots[k] \in Slot /\ slots'[k] = [slots[k] EXCEPT !.st = "unknown", !.disp = "null"]
      BY <1>3, <1>7
    <3> QED BY <3>1 DEF Slot
  <2>3. slots' \in [Slots -> Slot]
    BY <1>7, <2>2
  <2>4. \A k \in Slots : SlotBacked(k)'
    BY <1>1, <1>3, <2>2 DEF SlotBacked
  <2>5. StoreOK' /\ Final
    BY <1>7, <2>1, <2>3, <2>4 DEF StoreOK, Shut, Final, Matches, Settled
  <2> QED BY <1>1, <1>2, <2>5 DEF Step, LedgerInv
<1>8. CASE /\ Matches(w) /\ ~Disagrees(w) /\ w.out = "none"
           /\ job' = IF \E k \in Slots : w.note[k] = "failed" THEN RetryOrBlock
                                                             ELSE Released("completed")
           /\ slots' = [k \in Slots |-> CommittedSlot(w, k)]
  <2>1. /\ job' \in Job
        /\ \/ job'.status \in {"blocked", "failed"}
           \/ job'.status = "completed" /\ \A k \in Slots : w.note[k] # "failed"
    BY <1>8, ReleasedJob DEF RetryOrBlock
  <2>2. ASSUME NEW k \in Slots
        PROVE  slots'[k] \in Slot /\ SlotBacked(k)'
               /\ (w.note[k] # "failed" => slots'[k].st = "committed")
    <3>1. /\ w.note[k] \in {"quarantined", "discard", "failed", "canonical", "merged"}
          /\ slots[k].own \in {None, OwnerOf(k, w.note[k])}
      BY <1>0, <1>8 DEF Shape, Worker, Notes, OwnerDispositions, Disagrees, Ending
    <3>2. slots'[k] = CommittedSlot(w, k)
      BY <1>8
    <3>3. /\ slots'[k].disp = w.note[k]
          /\ slots'[k].own = OwnerOf(k, w.note[k])
          /\ slots'[k].st = IF w.note[k] = "failed" THEN "failed" ELSE "committed"
      BY <3>1, <3>2 DEF CommittedSlot
    <3>4. slots'[k] \in Slot
      BY <3>1, <3>2 DEF CommittedSlot, Slot, OwnerOf, Closed, OwnerDispositions
    <3>5. SlotBacked(k)'
      BY <1>0, <1>1, <3>1, <3>3 DEF SlotBacked, Backed, NotesBacked, OwnerOf
    <3> QED BY <3>3, <3>4, <3>5
  <2>3. slots' \in [Slots -> Slot]
    BY <1>8, <2>2
  <2>4. StoreOK' /\ Final
    BY <1>8, <2>1, <2>2, <2>3 DEF StoreOK, Shut, Final, Matches, Settled
  <2> QED BY <1>1, <1>2, <2>4 DEF Step, LedgerInv
<1> QED BY <1>4, <1>5, <1>6, <1>7, <1>8 DEF CommitWindow

\* fail_window releases the row and keeps the slots.
LEMMA FailStep ==
  ASSUME LedgerInv, NEW w \in workers, FailWindow(w) PROVE Step
<1>1. /\ job' \in Job
      /\ job' = job \/ (job.status = "running" /\ job'.status \in {"blocked", "failed"})
  BY ReleasedJob DEF FailWindow, RetryOrBlock, LedgerInv, StoreOK, Matches
<1>2. StoreOK' /\ EvidenceOK' /\ Grows /\ Final
  BY <1>1, JobMoves DEF FailWindow, Settled
<1> QED BY <1>2, WorkersLeft DEF Step, LedgerInv, RestOK, FailWindow, Leave

\* A task that ends in an error changes no database.
LEMMA LoseStep ==
  ASSUME LedgerInv, NEW w \in workers, LoseWorker(w) PROVE Step
<1>1. EvidenceOK' /\ Grows /\ UNCHANGED <<job, slots>> /\ workers' \subseteq workers
  BY NoEvidence DEF LoseWorker, Leave
<1>2. RestOK'
  BY FaultCounted DEF LoseWorker, LedgerInv, RestOK
<1> QED BY <1>1, <1>2, SlotsKept, WorkersLeft DEF Step, LedgerInv

-----------------------------------------------------------------------------
(* Side effects *)

\* _route_quality stages a quarantined candidate before it notes it.
LEMMA RouteStep ==
  ASSUME LedgerInv, NEW w \in workers, RouteQuality(w) PROVE Step
<1>0. /\ w \in Worker /\ Shape(w) /\ Backed(w) /\ w.step = "route"
      /\ w.out = "none" /\ w.cur = None
  BY OneWorker DEF Shape, RouteQuality, Storing, Ending
<1>1. RestOK' /\ UNCHANGED <<job, slots, mem, merged>>
  BY DEF RouteQuality, LedgerInv, RestOK
<1>2. CASE w.todo = {} /\ UNCHANGED evid /\ Become(w, [w EXCEPT !.step = "store", !.todo = Slots])
  <2>1. PICK v : v = [w EXCEPT !.step = "store", !.todo = Slots]
    OBVIOUS
  <2>2. /\ v \in Worker /\ v.note = w.note /\ v.todo = Slots /\ v.step = "store"
        /\ v.cur = None /\ v.out = "none"
    BY <1>0, <2>1 DEF Worker
  <2>3. Shape(v)
    BY <1>0, <1>2, <2>2 DEF Shape, Storing, Ending
  <2> QED BY <1>1, <1>2, <2>1, <2>2, <2>3, MovedQuietly
<1>3. CASE \E k \in w.todo, action \in {"allow", "quarantined", "discard"} :
             /\ evid' = IF action = "quarantined" THEN evid \cup {k} ELSE evid
             /\ Become(w, [w EXCEPT !.note[k] = action, !.todo = @ \ {k}])
  <2>1. PICK k \in w.todo, action \in {"allow", "quarantined", "discard"} :
             /\ evid' = IF action = "quarantined" THEN evid \cup {k} ELSE evid
             /\ Become(w, [w EXCEPT !.note[k] = action, !.todo = @ \ {k}])
    BY <1>3
  <2>2. PICK v : v = [w EXCEPT !.note[k] = action, !.todo = @ \ {k}]
    OBVIOUS
  <2>3. k \in Slots /\ w.note \in [Slots -> Notes] /\ w.todo \subseteq Slots
    BY <1>0 DEF Worker
  <2>4. /\ v \in Worker /\ v.note = [w.note EXCEPT ![k] = action]
        /\ v.todo = w.todo \ {k} /\ v.step = "route" /\ v.cur = None /\ v.out = "none"
    BY <1>0, <2>2, <2>3 DEF Worker, Notes
  <2>5. Shape(v)
    BY <1>0, <2>3, <2>4 DEF Shape, Storing, Ending
  <2>6. EvidenceOK' /\ Grows
    BY <1>1, <2>1, <2>3 DEF LedgerInv, EvidenceOK, Grows
  <2>7. Backed(v)'
    BY <1>0, <1>1, <2>1, <2>3, <2>4 DEF Backed, NotesBacked, OwnRow
  <2> QED BY <1>1, <2>1, <2>2, <2>4, <2>5, <2>6, <2>7, Moved
<1>4. CASE Become(w, Unknown(w, "unknown")) /\ UNCHANGED evid
  BY <1>1, <1>4, GivesUp, MovedQuietly
<1>5. CASE Become(w, Failing(w, "block")) /\ UNCHANGED evid
  BY <1>1, <1>5, GivesUp, MovedQuietly
<1> QED BY <1>2, <1>3, <1>4, <1>5 DEF RouteQuality

\* A worker that notes the outcome of one candidate leaves the fence with a
\* note that is backed.
LEMMA NotedStep ==
  ASSUME LedgerInv, NEW w \in workers, NEW k \in Slots,
         NEW note \in {"quarantined", "discard", "failed", "canonical", "merged"},
         w.step \in Storing \cup {"store"}, Become(w, Noted(w, k, note)),
         EvidenceOK', Grows, RestOK', UNCHANGED <<job, slots>>,
         note = "canonical" => mem'[k].st # "none",
         note = "merged" => k \in merged',
         note = "quarantined" => k \in evid'
  PROVE  Step
<1>1. PICK v : v = Noted(w, k, note)
  OBVIOUS
<1>2. w \in Worker /\ Shape(w) /\ Backed(w) /\ w.note \in [Slots -> Notes]
      /\ w.out = "none"
  BY OneWorker DEF Worker, Shape, Storing, Ending
<1>3. /\ v \in Worker /\ v.note = [w.note EXCEPT ![k] = note] /\ v.todo = w.todo \ {k}
      /\ v.step = "store" /\ v.cur = None /\ v.out = "none"
  BY <1>1, <1>2 DEF Worker, Noted, Notes, OwnerDispositions
<1>4. Shape(v)
  BY <1>2, <1>3 DEF Shape, Storing, Ending
<1>5. Backed(v)'
  BY <1>2, <1>3 DEF Backed, NotesBacked, OwnRow, Grows
<1> QED BY <1>1, <1>3, <1>4, <1>5, Moved

\* A write that failed is noted as an owner only when its row is accepted.
LEMMA WriteFailedStep ==
  ASSUME LedgerInv, NEW w \in workers, NEW k \in Slots,
         w.step \in Storing \cup {"store"}, Become(w, WriteFailed(w, k)),
         EvidenceOK', Grows, RestOK', UNCHANGED <<job, slots>>
  PROVE  Step
<1>1. CASE mem[k].st = "accepted"
  <2>1. Become(w, Noted(w, k, "canonical"))
    BY <1>1 DEF WriteFailed
  <2>2. mem'[k].st # "none"
    BY <1>1 DEF Grows
  <2> QED BY <2>1, <2>2, NotedStep
<1>2. CASE mem[k].st # "accepted"
  <2>1. Become(w, Noted(w, k, "failed"))
    BY <1>2 DEF WriteFailed
  <2> QED BY <2>1, NotedStep
<1> QED BY <1>1, <1>2

\* _store_one for a candidate that is decided already
LEMMA DecidedStep ==
  ASSUME LedgerInv, NEW w \in workers, StoreDecided(w) PROVE Step
<1>1. PICK k \in w.todo :
        /\ w.note[k] # "allow"
        /\ Become(w, Noted(w, k, w.note[k])) \/ Become(w, Noted(w, k, "failed"))
  BY DEF StoreDecided
<1>2. w \in Worker /\ Shape(w) /\ Backed(w) /\ w.step = "store"
  BY OneWorker DEF StoreDecided
<1>3. k \in Slots /\ w.note[k] \in {"quarantined", "discard", "failed", "canonical", "merged"}
  BY <1>1, <1>2 DEF Worker, Shape, Notes, OwnerDispositions
<1>4. RestOK' /\ UNCHANGED <<job, slots, mem, merged, evid>>
  BY DEF StoreDecided, LedgerInv, RestOK
<1>5. EvidenceOK' /\ Grows
  BY <1>4, NoEvidence
<1>6. CASE Become(w, Noted(w, k, w.note[k]))
  BY <1>2, <1>3, <1>4, <1>5, <1>6, NotedStep DEF Backed, NotesBacked
<1>7. CASE Become(w, Noted(w, k, "failed"))
  BY <1>2, <1>3, <1>4, <1>5, <1>7, NotedStep
<1> QED BY <1>1, <1>6, <1>7

\* _merge_or_write records the merge, or has a row, before it notes an owner.
LEMMA AllowedStep ==
  ASSUME LedgerInv, NEW w \in workers, StoreAllowed(w) PROVE Step
<1>0. /\ w \in Worker /\ Shape(w) /\ Backed(w) /\ w.step = "store"
      /\ w.out = "none" /\ w.todo \subseteq Slots /\ w.note \in [Slots -> Notes]
  BY OneWorker DEF Worker, Shape, StoreAllowed, Storing, Ending
<1>1. RestOK' /\ UNCHANGED <<job, slots, evid>>
  BY DEF StoreAllowed, LedgerInv, RestOK
<1>2. PICK k \in w.todo :
        /\ w.note[k] = "allow"
        /\ \/ Become(w, Noted(w, k, "failed")) /\ UNCHANGED <<mem, merged>>
           \/ /\ merged' = merged \cup {k} /\ UNCHANGED mem
              /\ Become(w, [w EXCEPT !.cur = k, !.note[k] = "merged", !.step = "written"])
           \/ /\ mem' = IF mem[k].st # "none" THEN mem
                        ELSE [mem EXCEPT ![k] = [st |-> "staged", by |-> w.gen]]
              /\ Become(w, [w EXCEPT !.cur = k, !.step = "staged"])
              /\ UNCHANGED merged
  BY DEF StoreAllowed
<1>3. k \in Slots /\ mem \in [Slots -> Memory] /\ merged \subseteq Slots /\ evid \subseteq Slots
  BY <1>0 DEF LedgerInv, EvidenceOK
<1>4. CASE Become(w, Noted(w, k, "failed")) /\ UNCHANGED <<mem, merged>>
  BY <1>0, <1>1, <1>3, <1>4, NoEvidence, NotedStep
<1>5. CASE /\ merged' = merged \cup {k} /\ UNCHANGED mem
           /\ Become(w, [w EXCEPT !.cur = k, !.note[k] = "merged", !.step = "written"])
  <2>1. PICK v : v = [w EXCEPT !.cur = k, !.note[k] = "merged", !.step = "written"]
    OBVIOUS
  <2>2. /\ v \in Worker /\ v.note = [w.note EXCEPT ![k] = "merged"]
        /\ v.todo = w.todo /\ v.step = "written" /\ v.cur = k /\ v.out = "none"
    BY <1>0, <1>3, <2>1 DEF Worker, Notes, OwnerDispositions
  <2>3. Shape(v)
    BY <1>0, <1>3, <2>2 DEF Shape, Storing, Ending, OwnerDispositions
  <2>4. EvidenceOK' /\ Grows
    BY <1>1, <1>3, <1>5 DEF EvidenceOK, Grows
  <2>5. Backed(v)'
    BY <1>0, <1>1, <1>3, <1>5, <2>2 DEF Backed, NotesBacked, OwnRow
  <2> QED BY <1>1, <1>5, <2>1, <2>2, <2>3, <2>4, <2>5, Moved
<1>6. CASE /\ mem' = IF mem[k].st # "none" THEN mem
                     ELSE [mem EXCEPT ![k] = [st |-> "staged", by |-> w.gen]]
           /\ Become(w, [w EXCEPT !.cur = k, !.step = "staged"])
           /\ UNCHANGED merged
  <2>1. PICK v : v = [w EXCEPT !.cur = k, !.step = "staged"]
    OBVIOUS
  <2>2. /\ v \in Worker /\ v.note = w.note
        /\ v.todo = w.todo /\ v.step = "staged" /\ v.cur = k /\ v.out = "none"
    BY <1>0, <1>3, <2>1 DEF Worker
  <2>3. Shape(v)
    BY <1>0, <1>3, <2>2 DEF Shape, Storing, Ending
  <2>4. mem' \in [Slots -> Memory]
    <3>1. [st |-> "staged", by |-> w.gen] \in Memory
      BY <1>0 DEF Worker, Memory
    <3> QED BY <1>3, <1>6, <3>1
  <2>5. EvidenceOK' /\ Grows
    BY <1>1, <1>3, <1>6, <2>4 DEF EvidenceOK, Grows
  <2>6. Backed(v)'
    BY <1>0, <1>1, <1>6, <2>2, <2>5 DEF Backed, NotesBacked, OwnRow, Grows
  <2> QED BY <1>1, <1>6, <2>1, <2>2, <2>3, <2>5, <2>6, Moved
<1> QED BY <1>2, <1>4, <1>5, <1>6

\* A flip touches only a staged row, so verdicts stand.
LEMMA FlipGrows ==
  ASSUME LedgerInv, NEW w \in workers, NEW k \in Slots, MayFlip(w, k),
         NEW s \in {"orphan", "accepted"}, mem' = [mem EXCEPT ![k].st = s],
         UNCHANGED <<merged, evid>>
  PROVE  EvidenceOK' /\ Grows /\ mem'[k].st = s /\ mem'[k].by = w.gen
<1>1. mem \in [Slots -> Memory] /\ mem[k] \in Memory
  BY DEF LedgerInv, EvidenceOK
<1>2. PICK r : r = [mem[k] EXCEPT !.st = s]
  OBVIOUS
<1>3. r \in Memory /\ r.st = s /\ r.by = mem[k].by
  BY <1>1, <1>2 DEF Memory
<1>4. mem' = [mem EXCEPT ![k] = r]
  BY <1>2
<1> QED BY <1>1, <1>3, <1>4 DEF LedgerInv, EvidenceOK, Grows, MayFlip

\* A worker that has its owner finalizes its row or waits for the last claim check.
LEMMA WrittenWorker ==
  ASSUME LedgerInv, NEW w \in workers, NEW k \in Slots, k = w.cur,
         w.step \in {"staged", "checked"}, NEW s \in {"finalize", "written"},
         Become(w, [w EXCEPT !.note[k] = "canonical", !.step = s]),
         EvidenceOK', Grows, RestOK', UNCHANGED <<job, slots>>, mem'[k].st # "none",
         s = "finalize" => mem'[k].by = w.gen
  PROVE  Step
<1>0. w \in Worker /\ Shape(w) /\ Backed(w) /\ w.out = "none" /\ w.note \in [Slots -> Notes]
  BY OneWorker DEF Worker, Shape, Storing, Ending
<1>1. PICK v : v = [w EXCEPT !.note[k] = "canonical", !.step = s]
  OBVIOUS
<1>2. /\ v \in Worker /\ v.note = [w.note EXCEPT ![k] = "canonical"] /\ v.gen = w.gen
      /\ v.todo = w.todo /\ v.step = s /\ v.cur = k /\ v.out = "none"
  BY <1>0, <1>1 DEF Worker, Notes, OwnerDispositions
<1>3. Shape(v)
  BY <1>0, <1>2 DEF Shape, Storing, Ending, OwnerDispositions
<1>4. Backed(v)'
  BY <1>0, <1>2 DEF Backed, NotesBacked, OwnRow, Grows
<1> QED BY <1>1, <1>2, <1>3, <1>4, Moved

\* A worker inside the fence writes one candidate.
LEMMA CurrentSlot ==
  ASSUME LedgerInv, NEW w \in workers, w.step \in Storing
  PROVE  w.cur \in Slots
BY OneWorker DEF Shape, Worker

\* _accept_summary_source_write
LEMMA AcceptStep ==
  ASSUME LedgerInv, NEW w \in workers, AcceptSource(w) PROVE Step
<1>0. PICK k : k = w.cur
  OBVIOUS
<1>1. w.step = "staged" /\ k \in Slots
  BY <1>0, CurrentSlot DEF AcceptSource, Storing
<1>2. RestOK' /\ UNCHANGED <<job, slots, merged, evid>>
  BY DEF AcceptSource, LedgerInv, RestOK
<1>3. CASE /\ mem[k].st = "accepted" /\ UNCHANGED mem
           /\ Become(w, [w EXCEPT !.note[k] = "canonical", !.step = "written"])
  BY <1>0, <1>1, <1>2, <1>3, NoEvidence, WrittenWorker
<1>4. CASE Become(w, WriteFailed(w, k)) /\ UNCHANGED mem
  BY <1>1, <1>2, <1>4, NoEvidence, WriteFailedStep DEF Storing
<1>5. CASE /\ MayFlip(w, k) /\ mem' = [mem EXCEPT ![k].st = "orphan"]
           /\ Become(w, WriteFailed(w, k))
  BY <1>1, <1>2, <1>5, FlipGrows, WriteFailedStep DEF Storing
<1>6. CASE Become(w, [w EXCEPT !.step = "checked"]) /\ UNCHANGED mem
  <2>0. w \in Worker /\ Shape(w)
    BY OneWorker
  <2>1. PICK v : v = [w EXCEPT !.step = "checked"]
    OBVIOUS
  <2>2. /\ v \in Worker /\ v.note = w.note /\ v.todo = w.todo
        /\ v.step = "checked" /\ v.cur = w.cur /\ v.out = w.out
    BY <2>0, <2>1 DEF Worker
  <2>3. Shape(v)
    BY <1>1, <2>0, <2>2 DEF Shape, Storing, Ending
  <2> QED BY <1>2, <1>6, <2>1, <2>2, <2>3, MovedQuietly
<1> QED BY <1>0, <1>3, <1>4, <1>5, <1>6 DEF AcceptSource

\* _activate_summary_source
LEMMA ActivateStep ==
  ASSUME LedgerInv, NEW w \in workers, ActivateSource(w) PROVE Step
<1>0. PICK k : k = w.cur
  OBVIOUS
<1>1. w.step = "checked" /\ k \in Slots
  BY <1>0, CurrentSlot DEF ActivateSource, Storing
<1>2. RestOK' /\ UNCHANGED <<job, slots, merged, evid>>
  BY DEF ActivateSource, LedgerInv, RestOK
<1>3. CASE /\ MayFlip(w, k) /\ mem' = [mem EXCEPT ![k].st = "accepted"]
           /\ Become(w, [w EXCEPT !.note[k] = "canonical", !.step = "finalize"])
  BY <1>0, <1>1, <1>2, <1>3, FlipGrows, WrittenWorker
<1>4. CASE Become(w, WriteFailed(w, k)) /\ UNCHANGED mem
  BY <1>1, <1>2, <1>4, NoEvidence, WriteFailedStep DEF Storing
<1> QED BY <1>0, <1>3, <1>4 DEF ActivateSource

\* A failed read-back touches only the row its own claim has staged.
LEMMA OrphanGrows ==
  ASSUME LedgerInv, NEW w \in workers, NEW k \in Slots, w.step = "finalize", k = w.cur,
         Fault, mem' = [mem EXCEPT ![k].st = "orphan"], UNCHANGED <<merged, evid>>
  PROVE  EvidenceOK' /\ Grows
<1>1. mem \in [Slots -> Memory] /\ mem[k] \in Memory /\ faults' # faults
  BY DEF LedgerInv, EvidenceOK, RestOK, Fault
<1>2. mem[k].by = w.gen
  BY OneWorker DEF Backed, OwnRow
<1>3. PICK r : r = [mem[k] EXCEPT !.st = "orphan"]
  OBVIOUS
<1>4. r \in Memory /\ r.st = "orphan" /\ r.by = mem[k].by
      /\ (mem[k].st = "orphan" => r = mem[k])
  BY <1>1, <1>3 DEF Memory
<1>5. mem'[k] = r /\ \A l \in Slots : l # k => mem'[l] = mem[l]
  BY <1>1, <1>3
<1>6. mem[k].st = "accepted" => TakenBack(k)
  BY <1>1, <1>2, <1>3, <1>5 DEF TakenBack
<1>7. EvidenceOK'
  <2>1. mem' = [mem EXCEPT ![k] = r]
    BY <1>3
  <2> QED BY <1>1, <1>4, <2>1 DEF LedgerInv, EvidenceOK
<1> QED BY <1>4, <1>5, <1>6, <1>7 DEF Grows

\* _finalize_summary_source_write
LEMMA FinalizeStep ==
  ASSUME LedgerInv, NEW w \in workers, FinalizeSource(w) PROVE Step
<1>0. PICK k : k = w.cur
  OBVIOUS
<1>1. w.step = "finalize" /\ k \in Slots
  BY <1>0, CurrentSlot DEF FinalizeSource, Storing
<1>2. UNCHANGED <<job, slots, merged, evid>> /\ RestOK'
  BY FaultCounted DEF FinalizeSource, LedgerInv, RestOK
<1>3. CASE Become(w, [w EXCEPT !.step = "written"]) /\ UNCHANGED mem
  <2>0. w \in Worker /\ Shape(w)
    BY OneWorker
  <2>1. PICK v : v = [w EXCEPT !.step = "written"]
    OBVIOUS
  <2>2. /\ v \in Worker /\ v.note = w.note /\ v.todo = w.todo
        /\ v.step = "written" /\ v.cur = w.cur /\ v.out = w.out
    BY <2>0, <2>1 DEF Worker
  <2>3. Shape(v)
    BY <1>1, <2>0, <2>2 DEF Shape, Storing, Ending
  <2> QED BY <1>2, <1>3, <2>1, <2>2, <2>3, MovedQuietly
<1>4. CASE Become(w, WriteFailed(w, k)) /\ UNCHANGED mem
  BY <1>1, <1>2, <1>4, NoEvidence, WriteFailedStep DEF Storing
<1>5. CASE /\ Fault /\ mem' = [mem EXCEPT ![k].st = "orphan"]
           /\ Become(w, Noted(w, k, "failed"))
  BY <1>0, <1>1, <1>2, <1>5, OrphanGrows, NotedStep DEF Storing
<1> QED BY <1>0, <1>3, <1>4, <1>5 DEF FinalizeSource

\* run_claim_side_effect after the write
LEMMA LeaveStep ==
  ASSUME LedgerInv, NEW w \in workers, LeaveFence(w) PROVE Step
<1>1. w.step = "written" /\ w.cur \in Slots /\ w.note[w.cur] \in OwnerDispositions /\ Backed(w)
  BY OneWorker, CurrentSlot DEF LeaveFence, Storing, Shape
<1>2. RestOK' /\ UNCHANGED <<job, slots, mem, merged, evid>>
  BY DEF LeaveFence, LedgerInv, RestOK
<1>3. EvidenceOK' /\ Grows
  BY <1>2, NoEvidence
<1>4. CASE Become(w, Noted(w, w.cur, w.note[w.cur]))
  BY <1>1, <1>2, <1>3, <1>4, NotedStep DEF Backed, NotesBacked, OwnerDispositions, Storing
<1>5. CASE Become(w, Noted(w, w.cur, "failed"))
  BY <1>1, <1>2, <1>3, <1>5, NotedStep DEF Storing
<1> QED BY <1>4, <1>5 DEF LeaveFence

\* An error of the memory store inside the fence
LEMMA ErrorStep ==
  ASSUME LedgerInv, NEW w \in workers, WriteError(w) PROVE Step
<1>1. PICK k : /\ Become(w, WriteFailed(w, k))
               /\ \/ w.step = "store" /\ k \in w.todo
                  \/ w.step \in Storing /\ k = w.cur
  BY DEF WriteError, Storing
<1>2. k \in Slots
  BY <1>1, OneWorker, CurrentSlot DEF Worker
<1>3. RestOK'
  BY FaultCounted DEF WriteError, LedgerInv, RestOK
<1>4. UNCHANGED <<job, slots>> /\ EvidenceOK' /\ Grows
  BY NoEvidence DEF WriteError
<1> QED BY <1>1, <1>2, <1>3, <1>4, WriteFailedStep

\* Every candidate is decided when the outcome is built.
LEMMA OutcomeStep ==
  ASSUME LedgerInv, NEW w \in workers, BuildOutcome(w) PROVE Step
<1>0. w \in Worker /\ Shape(w) /\ w.step = "store" /\ w.todo = {}
  BY OneWorker DEF BuildOutcome
<1>1. PICK v : v = [w EXCEPT !.step = "commit"]
  OBVIOUS
<1>2. /\ v \in Worker /\ v.note = w.note /\ v.step = "commit" /\ v.cur = w.cur
      /\ v.out = w.out
  BY <1>0, <1>1 DEF Worker
<1>3. Shape(v)
  BY <1>0, <1>2 DEF Shape, Storing, Ending
<1>4. RestOK' /\ UNCHANGED <<job, slots, mem, merged, evid>> /\ Become(w, v)
  BY <1>1 DEF BuildOutcome, LedgerInv, RestOK
<1> QED BY <1>2, <1>3, <1>4, MovedQuietly

-----------------------------------------------------------------------------
(* The theorems *)

\* The empty ledger of a queued window satisfies the invariant.
LEMMA InitHolds == Init => LedgerInv
<1> SUFFICES ASSUME Init PROVE LedgerInv
  OBVIOUS
<1>1. job \in Job /\ slots \in [Slots -> Slot] /\ Shut
  BY DEF Init, Job, Slot, Shut
<1>2. \A k \in Slots : SlotBacked(k)
  BY DEF Init, SlotBacked
<1>3. EvidenceOK
  BY DEF Init, EvidenceOK, Memory
<1>4. up \in BOOLEAN
  BY Zenon DEF Init
<1>5. faults \in 0..MaxFaults /\ workers = {}
  BY DEF Init
<1> QED BY <1>1, <1>2, <1>3, <1>4, <1>5 DEF LedgerInv, StoreOK, RestOK

\* A step that changes nothing keeps everything.
LEMMA StutterStep == ASSUME LedgerInv, UNCHANGED vars PROVE Step
<1>1. EvidenceOK' /\ Grows /\ RestOK'
  BY NoEvidence DEF vars, LedgerInv, RestOK
<1> QED BY <1>1, SlotsKept, WorkersLeft DEF vars, Step, LedgerInv

\* Every step of the system keeps the invariant, evidence and settled windows.
LEMMA NextStep == ASSUME LedgerInv, [Next]_vars PROVE Step
<1>1. CASE \E w \in workers : WorkerStep(w)
  <2>1. PICK w \in workers : WorkerStep(w)
    BY <1>1
  <2> QED BY <2>1, IntentsStep, FindStep, OwnersStep, BeginStep, RouteStep, DecidedStep,
             AllowedStep, AcceptStep, ActivateStep, FinalizeStep, LeaveStep, ErrorStep,
             OutcomeStep, CommitStep, FailStep, CommitFailureStep, LoseStep
          DEF WorkerStep
<1> QED BY <1>1, ClaimStep, ExpireStep, RecoverStep, CrashStep, StopStep, RestartStep,
           AbandonStep, StutterStep
        DEF Next

\* The inductive invariant holds of every behaviour.
LEMMA LedgerInvariant == Spec => []LedgerInv
<1>1. LedgerInv /\ [Next]_vars => LedgerInv'
  BY NextStep DEF Step
<1> QED BY InitHolds, <1>1, PTL DEF Spec

\* The invariant implies the safety properties of the ledger.
LEMMA InvariantImplies == LedgerInv => TypeOK /\ OwnersExist /\ CompletedIsBacked
<1> SUFFICES ASSUME LedgerInv PROVE TypeOK /\ OwnersExist /\ CompletedIsBacked
  OBVIOUS
<1>1. TypeOK
  BY DEF LedgerInv, StoreOK, EvidenceOK, RestOK, WorkerOK, Shape, Storing, TypeOK
<1>2. OwnersExist
  BY DEF LedgerInv, StoreOK, SlotBacked, OwnersExist
<1>3. CompletedIsBacked
  BY DEF LedgerInv, StoreOK, SlotBacked, Shut, CompletedIsBacked
<1> QED BY <1>1, <1>2, <1>3

\* For any number of candidates, attempts, claims and faults the ledger is typed:
\* in particular a worker holds the source lock exactly while it writes.
THEOREM LedgerTypes == Spec => []TypeOK
BY LedgerInvariant, InvariantImplies, PTL

\* The ledger never names an owner that is not in the memory store, although no
\* transaction spans the two databases (reconcile_window, commit_window,
\* reconcile_startup_candidates).
THEOREM OwnersAlwaysExist == Spec => []OwnersExist
BY LedgerInvariant, InvariantImplies, PTL

\* A completed window is closed and each of its dispositions is backed by what is
\* in the other databases, whatever crashes, lost leases and retries led there.
THEOREM CompletedAlwaysBacked == Spec => []CompletedIsBacked
BY LedgerInvariant, InvariantImplies, PTL

\* No late worker, retry or restart changes a completed or abandoned window.
THEOREM SettledForever == Spec => SettledIsFinal
<1>1. LedgerInv /\ [Next]_vars =>
        [job.status \in Settled => UNCHANGED <<job, slots>>]_vars
  BY NextStep DEF Step, Final
<1> QED BY LedgerInvariant, <1>1, PTL DEF Spec, SettledIsFinal

\* No late worker, retry or restart changes the verdict on a canonical row
\* (_apply_summary_source_state): a rejected row is never accepted, and an accepted one
\* is rejected only by the claim that accepted it, when its read-back fails
\* (_finalize_summary_source_write).
THEOREM VerdictForever == Spec => AcceptanceIsFinal
<1>1. LedgerInv /\ [Next]_vars =>
        [\A k \in Slots : /\ mem[k].st = "accepted" => mem'[k] = mem[k] \/ TakenBack(k)
                          /\ mem[k].st = "orphan" => mem'[k] = mem[k]]_vars
  BY NextStep DEF Step, Grows
<1> QED BY LedgerInvariant, <1>1, PTL DEF Spec, AcceptanceIsFinal

=============================================================================
