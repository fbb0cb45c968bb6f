----------------------- MODULE SummaryWindowsLeases -----------------------
(***************************************************************************)
(* Leases, capacity and sources of SummaryWindows, for every value of its  *)
(* constants.                                                              *)
(*                                                                         *)
(* Three invariants are added to the window invariant.  Holders: no two    *)
(* tasks carry the same token for the same row, and claims in flight count *)
(* against the parallelism of workers.  Capacity: the live leases stay     *)
(* within the caps.  Sources: what an open row, a quarantined candidate or *)
(* a worker inside the fence still needs is there.  Almost every step only *)
(* lets rows follow their old selves and tasks end or move on; those that  *)
(* do more have a lemma of their own.                                      *)
(***************************************************************************)
EXTENDS SummaryWindowsSafety, FiniteSetTheorems

-----------------------------------------------------------------------------
(* The invariants *)

\* The token tells the tasks that once claimed a row apart.
TokensDistinct ==
  \A c, d \in fetched \cup workers : c.j = d.j /\ c.tok = d.tok => c = d

\* A claim that is fetched already counts as a worker.
InFlight ==
  /\ IsFiniteSet(fetched) /\ IsFiniteSet(workers)
  /\ Cardinality(fetched) + Cardinality(workers) <= MaxParallel

Holders == TokensDistinct /\ InFlight

\* The caps on live leases.
Capacity ==
  /\ Cardinality(AllLive) <= MaxParallel
  /\ \A s \in Sessions : Cardinality(Live(s)) <= MaxPerSession

\* The source of row j can still be read: its epoch is current and, unless it
\* was edited, no message is missing.
SourceKept(j) ==
  Current(j) /\ (jobs[j].intact => Source(jobs[j]) \subseteq msgs[jobs[j].s])

\* Only a new epoch cancels rows.
CancelledIsOld == \A j \in 1..total : jobs[j].status = "cancelled" => ~Current(j)

\* The worker that holds the source lock has its source.
FencedHasSource == \A w \in workers : w.step = "fenced" => SourceKept(w.j)

Sources == CancelledIsOld /\ SourcesPreserved /\ QuarantineSourcesKept /\ FencedHasSource

-----------------------------------------------------------------------------
(* Steps that let rows follow their old selves *)

\* new may follow old in a step that claims nothing.
Follows(new, old) ==
  /\ SameWindow(new, old)
  /\ new.intact => old.intact
  /\ old.status \in Done => new.status = old.status
  /\ new.status = "cancelled" => old.status = "cancelled"
  /\ new.status = "running" /\ new.lease > 0 => old.status = "running" /\ old.lease > 0

RowsFollow ==
  /\ total' = total /\ epoch' = epoch
  /\ \A j \in 1..total : Follows(jobs'[j], jobs[j])

\* Tasks end, or one of them moves on.
TasksFollow ==
  \/ fetched' \subseteq fetched /\ workers' \subseteq workers
  \/ /\ fetched' = fetched
     /\ \E w \in workers, step \in Steps, out \in Verdicts : Move(w, step, out)

\* No task enters the fence.
FenceFollows == \A w \in workers' : w.step = "fenced" => w \in workers

\* No source is lost and nothing is quarantined.
SourcesFollow ==
  /\ \A s \in Sessions : msgs[s] \subseteq msgs'[s]
  /\ quar' \subseteq quar

\* The rows of a session that have a live lease, without the operators of the
\* claim loop.
LEMMA LiveIs ==
  ASSUME StoreType, NEW s \in Sessions
  PROVE  Live(s) = {j \in 1..total : /\ jobs[j].s = s /\ jobs[j].e = epoch[s]
                                     /\ jobs[j].status = "running" /\ jobs[j].lease > 0}
  BY RowTyped DEF Live, Of

\* There are finitely many of them.
LEMMA LiveFinite ==
  ASSUME StoreType
  PROVE  /\ AllLive \subseteq 1..total /\ IsFiniteSet(AllLive)
         /\ \A s \in Sessions : Live(s) \subseteq AllLive /\ IsFiniteSet(Live(s))
<1>1. \A s \in Sessions : Live(s) \subseteq 1..total
  BY LiveIs
<1>2. AllLive \subseteq 1..total /\ \A s \in Sessions : Live(s) \subseteq AllLive
  BY <1>1 DEF AllLive
<1>3. IsFiniteSet(1..total)
  BY FS_Interval DEF StoreType
<1> QED BY <1>1, <1>2, <1>3, FS_Subset

\* Fewer live leases stay within the caps.
LEMMA FewerLive ==
  ASSUME StoreType, StoreType', Capacity,
         \A s \in Sessions : Live(s)' \subseteq Live(s)
  PROVE  Capacity'
<1>1. AllLive' \subseteq AllLive
  BY DEF AllLive
<1>2. Cardinality(AllLive') <= Cardinality(AllLive)
  BY <1>1, LiveFinite, FS_Subset
<1>3. \A s \in Sessions : Cardinality(Live(s)') <= Cardinality(Live(s))
  BY LiveFinite, FS_Subset
<1>4. /\ Cardinality(AllLive) \in Nat /\ Cardinality(AllLive') \in Nat
      /\ \A s \in Sessions : Cardinality(Live(s)) \in Nat /\ Cardinality(Live(s)') \in Nat
  <2>1. IsFiniteSet(AllLive') /\ \A s \in Sessions : IsFiniteSet(Live(s)')
    BY <1>1, LiveFinite, FS_Subset
  <2> QED BY <2>1, LiveFinite, FS_CardinalityType
<1>5. MaxParallel \in Nat /\ MaxPerSession \in Nat
  BY ConstantsAssumption
<1> QED BY <1>2, <1>3, <1>4, <1>5 DEF Capacity

\* Rows that follow their old selves take no lease.
LEMMA FollowCapacity ==
  ASSUME StoreType, StoreType', Capacity, RowsFollow
  PROVE  Capacity'
<1>1. ASSUME NEW s \in Sessions PROVE Live(s)' \subseteq Live(s)
  <2>1. Live(s)' = {j \in 1..total' : /\ jobs'[j].s = s /\ jobs'[j].e = epoch'[s]
                                      /\ jobs'[j].status = "running" /\ jobs'[j].lease > 0}
    BY RowTyped DEF Live, Of, StoreType
  <2> QED BY <2>1, LiveIs DEF RowsFollow, Follows, SameWindow
<1> QED BY <1>1, FewerLive

\* Tasks that end or move on stay apart and within the parallelism.
LEMMA FollowHolders ==
  ASSUME RestType, Holders, TasksFollow
  PROVE  Holders'
<1>1. CASE fetched' \subseteq fetched /\ workers' \subseteq workers
  <2>1. TokensDistinct'
    BY <1>1 DEF Holders, TokensDistinct
  <2>2. /\ IsFiniteSet(fetched') /\ Cardinality(fetched') <= Cardinality(fetched)
        /\ IsFiniteSet(workers') /\ Cardinality(workers') <= Cardinality(workers)
    BY <1>1, FS_Subset DEF Holders, InFlight
  <2>3. /\ Cardinality(fetched') \in Nat /\ Cardinality(fetched) \in Nat
        /\ Cardinality(workers') \in Nat /\ Cardinality(workers) \in Nat
    BY <2>2, FS_CardinalityType DEF Holders, InFlight
  <2>4. InFlight'
    BY <2>2, <2>3, ConstantsAssumption DEF Holders, InFlight
  <2> QED BY <2>1, <2>4 DEF Holders
<1>2. ASSUME fetched' = fetched, NEW w \in workers, NEW step \in Steps,
             NEW out \in Verdicts, Move(w, step, out)
      PROVE  Holders'
  <2> DEFINE v == [w EXCEPT !.step = step, !.out = out]
  <2>1. w \in Worker
    BY DEF RestType
  <2>2. v.j = w.j /\ v.tok = w.tok
    BY <2>1 DEF Worker
  <2>3. workers' = (workers \ {w}) \cup {v}
    BY <1>2 DEF Move
  <2> HIDE DEF v
  <2>d. \A c \in fetched : c # w
    BY DEF RestType, Claim, Worker
  <2>4. TokensDistinct'
    <3> SUFFICES ASSUME NEW c \in fetched' \cup workers', NEW d \in fetched' \cup workers',
                        c.j = d.j, c.tok = d.tok
                 PROVE  c = d
      BY DEF TokensDistinct
    <3> DEFINE old(x) == IF x = v THEN w ELSE x
    <3>1. ASSUME NEW x \in fetched' \cup workers'
          PROVE  /\ old(x) \in fetched \cup workers /\ old(x).j = x.j /\ old(x).tok = x.tok
                 /\ old(x) = w => x = v
      BY <1>2, <2>2, <2>3, <2>d
    <3>2. old(c) = old(d)
      BY <3>1 DEF Holders, TokensDistinct
    <3> QED BY <3>1, <3>2
  <2>5. InFlight'
    <3>1. IsFiniteSet(workers \ {w}) /\ Cardinality(workers \ {w}) = Cardinality(workers) - 1
      BY FS_RemoveElement DEF Holders, InFlight
    <3>2. IsFiniteSet(workers') /\ Cardinality(workers') \in
             {Cardinality(workers \ {w}), Cardinality(workers \ {w}) + 1}
      BY <2>3, <3>1, FS_AddElement
    <3>3. Cardinality(workers) \in Nat /\ Cardinality(fetched) \in Nat
      BY FS_CardinalityType DEF Holders, InFlight
    <3> QED BY <1>2, <3>1, <3>2, <3>3, ConstantsAssumption DEF Holders, InFlight
  <2> QED BY <2>4, <2>5 DEF Holders
<1> QED BY <1>1, <1>2 DEF TasksFollow

\* A row in a kept epoch whose source could be read can still be read.
LEMMA FollowSource ==
  ASSUME StoreType, RowsFollow, \A s \in Sessions : msgs[s] \subseteq msgs'[s],
         NEW j \in 1..total, SourceKept(j)
  PROVE  SourceKept(j)'
<1>1. jobs[j] \in Job /\ Follows(jobs'[j], jobs[j])
  BY RowTyped DEF RowsFollow
<1>2. jobs[j].s \in Sessions
  BY <1>1 DEF Job
<1>3. Source(jobs'[j]) = Source(jobs[j]) /\ jobs'[j].s = jobs[j].s /\ jobs'[j].e = jobs[j].e
  BY <1>1 DEF Follows, SameWindow, Source
<1>4. Current(j)'
  BY <1>3 DEF SourceKept, Current, RowsFollow
<1>5. jobs'[j].intact => jobs[j].intact
  BY <1>1 DEF Follows
<1> QED BY <1>2, <1>3, <1>4, <1>5 DEF SourceKept

\* An open row of the current epoch was open before.
LEMMA FollowOpen ==
  ASSUME StoreType, CancelledIsOld, RowsFollow, NEW j \in 1..total, Current(j)',
         jobs'[j].status \in Open
  PROVE  Current(j) /\ jobs[j].status \in Open
<1>1. jobs[j] \in Job /\ Follows(jobs'[j], jobs[j])
  BY RowTyped DEF RowsFollow
<1>2. Current(j)
  BY <1>1 DEF Follows, SameWindow, Current, RowsFollow
<1>3. jobs[j].status \in Statuses /\ jobs[j].status # "cancelled"
  BY <1>1, <1>2 DEF CancelledIsOld, Job
<1>4. jobs[j].status \notin Done
  BY <1>1 DEF Follows, Done, Open
<1> QED BY <1>2, <1>3, <1>4 DEF Statuses, Done, Open

\* What a step that lets rows follow has to show for the sources.
LEMMA KeepSources ==
  ASSUME TypeOK, Sources, RowsFollow, StoreType',
         \A j \in 1..total :
           Current(j) /\ jobs[j].status \in Open /\ SourceKept(j) => SourceKept(j)',
         \A j \in quar' : SourceKept(j)',
         \A w \in workers' : w.step = "fenced" => SourceKept(w.j)'
  PROVE  Sources'
<1>0. StoreType /\ RestType
  BY TypeSplit
<1>r. Rows = 1..total /\ Rows' = 1..total /\ total' = total
  BY <1>0, RowTyped DEF StoreType, Rows, RowsFollow
<1>1. CancelledIsOld'
  BY <1>r DEF Sources, CancelledIsOld, RowsFollow, Follows, SameWindow, Current
<1>2. SourcesPreserved'
  <2> SUFFICES ASSUME NEW j \in 1..total, Current(j)', jobs'[j].status \in Open
               PROVE  SourceKept(j)'
    BY <1>r DEF SourcesPreserved, SourceKept
  <2>1. Current(j) /\ jobs[j].status \in Open
    BY <1>0, FollowOpen DEF Sources
  <2>2. SourceKept(j)
    BY <1>r, <2>1 DEF Sources, SourcesPreserved, SourceKept
  <2> QED BY <2>1, <2>2
<1>3. QuarantineSourcesKept'
  BY DEF QuarantineSourcesKept, SourceKept
<1>4. FencedHasSource'
  BY DEF FencedHasSource
<1> QED BY <1>1, <1>2, <1>3, <1>4 DEF Sources

\* Steps that lose no source keep all of them.
LEMMA FollowSources ==
  ASSUME TypeOK, StoreType', Sources, RowsFollow, SourcesFollow, FenceFollows
  PROVE  Sources'
<1>0. StoreType /\ RestType
  BY TypeSplit
<1>1. \A j \in 1..total : SourceKept(j) => SourceKept(j)'
  BY <1>0, FollowSource DEF SourcesFollow
<1>2. \A j \in quar' : j \in 1..total /\ SourceKept(j)
  BY <1>0 DEF SourcesFollow, RestType, Sources, QuarantineSourcesKept, SourceKept
<1>3. \A w \in workers' : w.step = "fenced" => w.j \in 1..total /\ SourceKept(w.j)
  BY <1>0 DEF FenceFollows, RestType, Sources, FencedHasSource
<1> QED BY <1>1, <1>2, <1>3, KeepSources

-----------------------------------------------------------------------------
(* Ordinary steps *)

LeaseInv == Holders /\ Capacity /\ Sources

Ordinary == RowsFollow /\ TasksFollow /\ FenceFollows /\ SourcesFollow

\* An ordinary step preserves the three invariants.
LEMMA OrdinaryKeeps ==
  ASSUME TypeOK, TypeOK', LeaseInv, Ordinary
  PROVE  LeaseInv'
<1>1. StoreType /\ RestType /\ StoreType'
  BY TypeSplit, TypeSplitPrime
<1>2. Holders'
  BY <1>1, FollowHolders DEF LeaseInv, Ordinary
<1>3. Capacity'
  BY <1>1, FollowCapacity DEF LeaseInv, Ordinary
<1>4. Sources'
  BY <1>1, FollowSources DEF LeaseInv, Ordinary
<1> QED BY <1>2, <1>3, <1>4 DEF LeaseInv

\* The action LeaseIsExclusive allows.
LeaseKept ==
  \A j \in Rows :
    /\ phase = "up" /\ jobs[j].status = "running" /\ jobs[j].lease > 0
    /\ jobs'[j].status # "running"
    => \/ epoch'[jobs[j].s] # epoch[jobs[j].s]
       \/ \E c \in fetched \cup workers :
            c.j = j /\ c.tok = jobs[j].tok
            /\ \/ c \notin fetched' \cup workers'
               \/ c \in workers /\ c.step = "owners"

\* No row with a live lease leaves "running".
Undisturbed ==
  \A j \in 1..total :
    jobs[j].status = "running" /\ jobs[j].lease > 0 => jobs'[j].status = "running"

\* A step that disturbs no lease is allowed.
LEMMA UndisturbedKept ==
  ASSUME StoreType, Undisturbed \/ phase # "up"
  PROVE  LeaseKept
  BY RowTyped DEF Undisturbed, LeaseKept

\* A fetched claim is no worker.
LEMMA ClaimIsNoWorker ==
  ASSUME RestType
  PROVE  \A c \in fetched, w \in workers : c # w
  BY DEF RestType, Claim, Worker

\* A row follows itself.
LEMMA SelfFollows ==
  ASSUME NEW job PROVE Follows(job, job)
  BY DEF Follows, SameWindow

\* A row that was not closed may be rewritten to a row without a lease.
LEMMA RewriteFollows ==
  ASSUME NEW job \in Job, NEW new, SameWindow(new, job), new.intact = job.intact,
         job.status \notin Done, new.status \notin {"running", "cancelled"}
  PROVE  Follows(new, job)
  BY DEF Follows

\* Rows left alone follow themselves.
LEMMA SameRowsFollow ==
  ASSUME jobs' = jobs, total' = total, epoch' = epoch
  PROVE  RowsFollow /\ Undisturbed
  BY SelfFollows DEF RowsFollow, Undisturbed

\* So do all rows but one that is replaced.
LEMMA OneRowFollows ==
  ASSUME StoreType, NEW j \in 1..total, NEW job, Follows(job, jobs[j]),
         jobs' = [jobs EXCEPT ![j] = job], total' = total, epoch' = epoch
  PROVE  /\ RowsFollow
         /\ jobs'[j] = job /\ \A k \in 1..total : k # j => jobs'[k] = jobs[k]
<1>1. jobs'[j] = job /\ \A k \in 1..total : k # j => jobs'[k] = jobs[k]
  BY RowTyped
<1> QED BY <1>1, SelfFollows DEF RowsFollow

\* Moving a worker to a step outside the fence.
LEMMA MoveFollows ==
  ASSUME RestType, NEW w \in workers, NEW step \in Steps \ {"fenced"}, NEW out \in Verdicts,
         Move(w, step, out), fetched' = fetched
  PROVE  TasksFollow /\ FenceFollows
<1> DEFINE v == [w EXCEPT !.step = step, !.out = out]
<1>1. v.step = step
  BY DEF RestType, Worker
<1>2. workers' = (workers \ {w}) \cup {v}
  BY DEF Move
<1> HIDE DEF v
<1>3. FenceFollows
  BY <1>1, <1>2 DEF FenceFollows
<1> QED BY <1>3 DEF TasksFollow

\* Tasks that only end.
LEMMA EndFollows ==
  ASSUME fetched' \subseteq fetched, workers' \subseteq workers
  PROVE  TasksFollow /\ FenceFollows
  BY DEF TasksFollow, FenceFollows

\* Messages and quarantine left alone.
LEMMA SameSourcesFollow ==
  ASSUME msgs' = msgs, quar' = quar PROVE SourcesFollow
  BY DEF SourcesFollow

-----------------------------------------------------------------------------
(* The steps that are ordinary *)

\* Worker steps that change the worker only.
LEMMA ThinkingOrdinary ==
  ASSUME TypeOK, NEW w \in workers,
         ReadSource(w) \/ Extract(w) \/ BuildOutcome(w) \/ LoseWorker(w)
  PROVE  Ordinary /\ LeaseKept
<1>0. StoreType /\ RestType
  BY TypeSplit
<1>1. UNCHANGED store /\ fetched' = fetched
  BY DEF ReadSource, Extract, BuildOutcome, LoseWorker
<1>2. RowsFollow /\ Undisturbed /\ SourcesFollow
  BY <1>1, SameRowsFollow, SameSourcesFollow DEF store
<1>3. TasksFollow /\ FenceFollows
  <2>1. CASE LoseWorker(w)
    BY <1>1, <2>1, EndFollows DEF LoseWorker
  <2>2. CASE ReadSource(w) \/ Extract(w) \/ BuildOutcome(w)
    <3>1. \E step \in Steps \ {"fenced"}, out \in Verdicts : Move(w, step, out)
      BY <2>2 DEF ReadSource, Extract, BuildOutcome, Steps, Verdicts
    <3> QED BY <1>0, <1>1, <3>1, MoveFollows
  <2> QED BY <2>1, <2>2
<1> QED BY <1>0, <1>2, <1>3, UndisturbedKept DEF Ordinary

\* Steps of the life cycle, of messages and of reviewers that touch no row.
LEMMA PhaseOrdinary ==
  ASSUME TypeOK, Pause \/ Stopped \/ Crash \/ Start \/ Started
  PROVE  Ordinary /\ LeaseKept
<1>0. StoreType
  BY TypeSplit
<1>1. UNCHANGED store /\ fetched' \subseteq fetched /\ workers' \subseteq workers
  BY DEF Pause, Stopped, Crash, Start, Started
<1>2. RowsFollow /\ Undisturbed /\ SourcesFollow
  BY <1>1, SameRowsFollow, SameSourcesFollow DEF store
<1> QED BY <1>0, <1>1, <1>2, EndFollows, UndisturbedKept DEF Ordinary

\* New messages, contexts read and reviews.
LEMMA MessageOrdinary ==
  ASSUME TypeOK,
         \/ \E s \in Sessions : AddMessage(s) \/ ReadContext(s)
         \/ \E j \in quar : ReviewQuarantine(j)
  PROVE  Ordinary /\ LeaseKept
<1>0. StoreType /\ RestType
  BY TypeSplit
<1>1. /\ jobs' = jobs /\ total' = total /\ epoch' = epoch /\ fetched' = fetched
      /\ workers' = workers
  BY DEF AddMessage, ReadContext, ReviewQuarantine, store
<1>2. SourcesFollow
  <2>1. \A s \in Sessions : msgs[s] \subseteq msgs'[s]
    BY <1>0 DEF AddMessage, ReadContext, ReviewQuarantine, store, RestType
  <2>2. quar' \subseteq quar
    BY DEF AddMessage, ReadContext, ReviewQuarantine, store
  <2> QED BY <2>1, <2>2 DEF SourcesFollow
<1>3. RowsFollow /\ Undisturbed
  BY <1>1, SameRowsFollow
<1> QED BY <1>0, <1>1, <1>2, <1>3, EndFollows, UndisturbedKept DEF Ordinary

\* Tainted rows follow their old selves.
LEMMA TaintFollows ==
  ASSUME StoreType, NEW s, NEW q, jobs' = Tainted(s, q), total' = total, epoch' = epoch
  PROVE  RowsFollow /\ Undisturbed
<1>1. ASSUME NEW j \in 1..total
      PROVE  Follows(jobs'[j], jobs[j]) /\ jobs'[j].status = jobs[j].status
  <2>1. jobs[j] \in Job /\ jobs'[j] \in {jobs[j], [jobs[j] EXCEPT !.intact = FALSE]}
    BY RowTyped DEF Tainted
  <2>2. CASE jobs'[j] = [jobs[j] EXCEPT !.intact = FALSE]
    <3>1. /\ SameWindow(jobs'[j], jobs[j]) /\ jobs'[j].status = jobs[j].status
          /\ jobs'[j].lease = jobs[j].lease /\ ~jobs'[j].intact
      BY <2>1, <2>2 DEF Job, SameWindow
    <3> QED BY <3>1 DEF Follows
  <2> QED BY <2>1, <2>2, SelfFollows
<1> QED BY <1>1 DEF RowsFollow, Undisturbed

\* An edit marks rows and loses no message.
LEMMA EditOrdinary ==
  ASSUME TypeOK, NEW s \in Sessions, EditMessage(s)
  PROVE  Ordinary /\ LeaseKept
<1>0. StoreType
  BY TypeSplit
<1>1. PICK q : jobs' = Tainted(s, q)
  BY DEF EditMessage
<1>2. RowsFollow /\ Undisturbed
  BY <1>0, <1>1, TaintFollows DEF EditMessage
<1>3. TasksFollow /\ FenceFollows /\ SourcesFollow
  BY EndFollows, SameSourcesFollow DEF EditMessage
<1> QED BY <1>0, <1>2, <1>3, UndisturbedKept DEF Ordinary

\* The heartbeat extends a lease that is alive.
LEMMA RenewOrdinary ==
  ASSUME TypeOK, NEW w \in workers, Renew(w)
  PROVE  Ordinary /\ LeaseKept
<1>0. StoreType /\ RestType
  BY TypeSplit
<1>1. w.j \in 1..total /\ jobs[w.j] \in Job
  BY <1>0, RowTyped DEF RestType
<1> DEFINE job == [jobs[w.j] EXCEPT !.lease = LeaseTicks]
<1>2. jobs' = [jobs EXCEPT ![w.j] = job] /\ jobs[w.j].status = "running" /\ jobs[w.j].lease > 0
  BY DEF Renew, Matches
<1>3. Follows(job, jobs[w.j]) /\ job.status = jobs[w.j].status
  <2>1. /\ SameWindow(job, jobs[w.j]) /\ job.status = jobs[w.j].status
        /\ job.intact = jobs[w.j].intact
    BY <1>1 DEF Job, SameWindow
  <2> HIDE DEF job
  <2> QED BY <1>2, <2>1 DEF Follows
<1> HIDE DEF job
<1>4. RowsFollow /\ Undisturbed
  <2>1. total' = total /\ epoch' = epoch
    BY DEF Renew
  <2>2. /\ RowsFollow
        /\ jobs'[w.j] = job /\ \A k \in 1..total : k # w.j => jobs'[k] = jobs[k]
    BY <1>0, <1>1, <1>2, <1>3, <2>1, OneRowFollows
  <2> QED BY <1>2, <1>3, <2>2 DEF Undisturbed
<1>5. TasksFollow /\ FenceFollows /\ SourcesFollow
  BY EndFollows, SameSourcesFollow DEF Renew
<1> QED BY <1>0, <1>4, <1>5, UndisturbedKept DEF Ordinary

\* The clock revives no lease.
LEMMA TickOrdinary ==
  ASSUME TypeOK, Tick
  PROVE  Ordinary /\ LeaseKept
<1>0. StoreType
  BY TypeSplit
<1>1. ASSUME NEW j \in 1..total
      PROVE  Follows(jobs'[j], jobs[j]) /\ jobs'[j].status = jobs[j].status
  <2>1. jobs[j] \in Job /\ jobs'[j] = Ticked(jobs[j])
    BY <1>0, RowTyped DEF Tick
  <2>2. jobs[j].lease \in Nat
    BY <2>1, ConstantsAssumption DEF Job
  <2>3. /\ SameWindow(jobs'[j], jobs[j]) /\ jobs'[j].status = jobs[j].status
        /\ jobs'[j].intact = jobs[j].intact
        /\ jobs'[j].lease = IF jobs[j].lease > 0 THEN jobs[j].lease - 1 ELSE 0
    BY <2>1 DEF Ticked, Job, SameWindow
  <2> QED BY <2>2, <2>3 DEF Follows
<1>2. RowsFollow /\ Undisturbed
  BY <1>1 DEF RowsFollow, Undisturbed, Tick
<1>3. TasksFollow /\ FenceFollows /\ SourcesFollow
  BY EndFollows, SameSourcesFollow DEF Tick
<1> QED BY <1>0, <1>2, <1>3, UndisturbedKept DEF Ordinary

\* The task c gives up the row it owns: no other row changes.
GivesUp(c) ==
  \A j \in 1..total : jobs'[j].status # jobs[j].status => j = c.j /\ jobs[j].tok = c.tok

\* Giving a row up is allowed to the task that owns it, when it ends.
LEMMA GivesUpKept ==
  ASSUME StoreType, NEW c \in fetched \cup workers, GivesUp(c),
         c \notin fetched' \cup workers' \/ (c \in workers /\ c.step = "owners")
  PROVE  LeaseKept
  BY RowTyped DEF GivesUp, LeaseKept

\* Replacing the row of a task that owns it.
LEMMA OwnRowFollows ==
  ASSUME StoreType, NEW c, c.j \in 1..total, jobs[c.j].tok = c.tok, NEW job,
         Follows(job, jobs[c.j]), jobs' = [jobs EXCEPT ![c.j] = job],
         total' = total, epoch' = epoch
  PROVE  RowsFollow /\ GivesUp(c)
<1>1. RowsFollow /\ \A k \in 1..total : k # c.j => jobs'[k] = jobs[k]
  BY OneRowFollows
<1> QED BY <1>1 DEF GivesUp

\* requeue_claim.
LEMMA RequeueFollows ==
  ASSUME StoreType, NEW c, c.j \in 1..total, Requeue(c)
  PROVE  RowsFollow /\ GivesUp(c) /\ SourcesFollow
<1>1. CASE ~(jobs[c.j].status = "running" /\ jobs[c.j].tok = c.tok)
  <2>1. UNCHANGED store
    BY <1>1 DEF Requeue
  <2> QED BY <2>1, SameRowsFollow, SameSourcesFollow DEF store, GivesUp
<1>2. CASE jobs[c.j].status = "running" /\ jobs[c.j].tok = c.tok
  <2> DEFINE r == Released(jobs[c.j], "queued")
  <2> DEFINE job == [r EXCEPT !.att = IF @ > 0 THEN @ - 1 ELSE 0, !.wait = 0]
  <2>1. /\ jobs' = [jobs EXCEPT ![c.j] = job] /\ total' = total /\ epoch' = epoch
        /\ msgs' = msgs /\ quar' = quar
    BY <1>2 DEF Requeue, StoreJob, StoreJobs
  <2>2. jobs[c.j] \in Job /\ "queued" \in Statuses
    BY RowTyped DEF Statuses
  <2>3. /\ r \in Job /\ SameWindow(r, jobs[c.j]) /\ r.status = "queued"
        /\ r.intact = jobs[c.j].intact
    BY <2>2, ReleasedRow
  <2> HIDE DEF r
  <2>4. SameWindow(job, r) /\ job.status = r.status /\ job.intact = r.intact
    BY <2>3 DEF Job, SameWindow
  <2> HIDE DEF job
  <2>5. Follows(job, jobs[c.j])
    BY <1>2, <2>2, <2>3, <2>4, RewriteFollows DEF Done, SameWindow
  <2> QED BY <1>2, <2>1, <2>5, OwnRowFollows, SameSourcesFollow
<1> QED BY <1>1, <1>2

\* The callers of requeue_claim: the task ends.
LEMMA GiveBackOrdinary ==
  ASSUME TypeOK,
         \/ \E c \in fetched : RequeueRejected(c)
         \/ \E w \in workers : CancelWorker(w) \/ CancelFencedWorker(w)
  PROVE  Ordinary /\ LeaseKept
<1>0. StoreType /\ RestType
  BY TypeSplit
<1>1. PICK c \in fetched \cup workers :
        /\ Requeue(c) /\ fetched' \subseteq fetched /\ workers' \subseteq workers
        /\ c \notin fetched' \cup workers'
  <2>1. CASE \E c \in fetched : RequeueRejected(c)
    BY <1>0, <2>1, ClaimIsNoWorker DEF RequeueRejected
  <2>2. CASE \E w \in workers : CancelWorker(w) \/ CancelFencedWorker(w)
    BY <1>0, <2>2, ClaimIsNoWorker DEF CancelWorker, CancelFencedWorker
  <2> QED BY <2>1, <2>2
<1>2. c.j \in 1..total
  BY <1>0 DEF RestType
<1>3. RowsFollow /\ GivesUp(c) /\ SourcesFollow
  BY <1>0, <1>1, <1>2, RequeueFollows
<1> QED BY <1>0, <1>1, <1>3, EndFollows, GivesUpKept DEF Ordinary

\* Recovery takes rows whose lease has run out.
LEMMA RecoverOrdinary ==
  ASSUME TypeOK, LoopRecover \/ StartRecover
  PROVE  Ordinary /\ LeaseKept
<1>0. StoreType
  BY TypeSplit
<1>1. RecoverExpiredClaims /\ fetched' = fetched /\ workers' = workers
  BY DEF LoopRecover, StartRecover
<1> DEFINE new(j) == IF jobs[j].att >= MaxAttempts THEN "blocked" ELSE "queued"
<1>2. /\ jobs' = [j \in Rows |-> IF j \in Expired THEN Released(jobs[j], new(j)) ELSE jobs[j]]
      /\ UNCHANGED <<epoch, msgs, total, rr, quar>>
  BY <1>1 DEF RecoverExpiredClaims, StoreJobs
<1>3. ASSUME NEW j \in 1..total
      PROVE  /\ Follows(jobs'[j], jobs[j])
             /\ jobs[j].status = "running" /\ jobs[j].lease > 0 => jobs'[j].status = "running"
  <2>1. jobs[j] \in Job /\ j \in Rows
    BY <1>0, RowTyped
  <2>2. CASE j \notin Expired
    BY <1>2, <2>1, <2>2, SelfFollows
  <2>3. CASE j \in Expired
    <3>1. /\ jobs[j].status = "running" /\ jobs[j].lease = 0 /\ new(j) \in Statuses
          /\ new(j) \notin {"running", "cancelled"}
      BY <2>3 DEF Expired, Statuses
    <3>2. jobs'[j] = Released(jobs[j], new(j))
      BY <1>2, <2>1, <2>3
    <3> HIDE DEF new
    <3>3. Follows(jobs'[j], jobs[j])
      BY <2>1, <3>1, <3>2, ReleasedRow, RewriteFollows DEF Done
    <3> QED BY <3>1, <3>3
  <2> QED BY <2>2, <2>3
<1> HIDE DEF new
<1>4. RowsFollow /\ Undisturbed
  BY <1>2, <1>3 DEF RowsFollow, Undisturbed
<1>5. TasksFollow /\ FenceFollows /\ SourcesFollow
  BY <1>1, <1>2, EndFollows, SameSourcesFollow
<1> QED BY <1>0, <1>4, <1>5, UndisturbedKept DEF Ordinary

\* A ledger entry changes nothing a lease or a source depends on.
LEMMA SetLedgerFollows ==
  ASSUME StoreType, NEW j \in 1..total, NEW l \in LedgerStates, SetLedger(j, l)
  PROVE  RowsFollow /\ Undisturbed
<1>1. jobs[j] \in Job
  BY RowTyped
<1> DEFINE job == [jobs[j] EXCEPT !.led = l]
<1>2. jobs' = [jobs EXCEPT ![j] = job] /\ total' = total /\ epoch' = epoch
  BY DEF SetLedger
<1>3. Follows(job, jobs[j]) /\ job.status = jobs[j].status
  BY <1>1 DEF Job, Follows, SameWindow
<1> HIDE DEF job
<1> QED BY <1>2, <1>3, OneRowFollows DEF Undisturbed

\* Marking the row of a live claim unknown gives it up.
LEMMA MarkUnknownFollows ==
  ASSUME StoreType, NEW c, c.j \in 1..total, Matches(c), MarkUnknown(c.j)
  PROVE  RowsFollow /\ GivesUp(c)
<1> DEFINE j == c.j
<1> DEFINE r == Released(jobs[j], "unknown")
<1> DEFINE l == IF jobs[j].led = "planned" THEN "open" ELSE jobs[j].led
<1> DEFINE job == Unsettled(jobs[j])
<1>1. jobs[j] \in Job /\ "unknown" \in Statuses
  BY RowTyped DEF Statuses
<1>2. /\ jobs' = [jobs EXCEPT ![j] = job] /\ job = [r EXCEPT !.led = l]
      /\ total' = total /\ epoch' = epoch
  BY DEF MarkUnknown, Unsettled
<1>3. /\ r \in Job /\ SameWindow(r, jobs[j]) /\ r.status = "unknown"
      /\ r.intact = jobs[j].intact
  BY <1>1, ReleasedRow
<1>4. l \in LedgerStates
  BY <1>1 DEF LedgerStates, Job
<1> HIDE DEF r, l
<1>5. SameWindow(job, r) /\ job.status = "unknown" /\ job.intact = r.intact
  BY <1>2, <1>3, <1>4, LedgerRow
<1> HIDE DEF job
<1>6. Follows(job, jobs[j])
  BY <1>1, <1>3, <1>5, RewriteFollows DEF Done, SameWindow, Matches
<1> QED BY <1>2, <1>6, OwnRowFollows DEF Matches

\* A worker's bookkeeping; only reconciling owners may give the row up.
LEMMA LedgerStepOrdinary ==
  ASSUME TypeOK, NEW w \in workers,
         BeginCandidateIntents(w) \/ ReconcileOwners(w) \/ BeginCandidateWrites(w)
  PROVE  Ordinary /\ LeaseKept
<1>0. StoreType /\ RestType
  BY TypeSplit
<1>1. w.j \in 1..total /\ jobs[w.j] \in Job
  BY <1>0, RowTyped DEF RestType
<1>2. \/ UNCHANGED store
      \/ \E l \in LedgerStates : SetLedger(w.j, l)
      \/ Matches(w) /\ MarkUnknown(w.j) /\ w.step = "owners"
  <2>1. CASE BeginCandidateIntents(w)
    BY <2>1 DEF BeginCandidateIntents, LedgerStates
  <2>2. CASE ReconcileOwners(w)
    BY <2>2 DEF ReconcileOwners
  <2>3. CASE BeginCandidateWrites(w)
    <3>1. jobs[w.j].led \in LedgerStates /\ "open" \in LedgerStates
      BY <1>1 DEF Job, LedgerStates
    <3> QED BY <2>3, <3>1 DEF BeginCandidateWrites
  <2> QED BY <2>1, <2>2, <2>3
<1>3. RowsFollow /\ (Undisturbed \/ (GivesUp(w) /\ w.step = "owners"))
  BY <1>0, <1>1, <1>2, SameRowsFollow, SetLedgerFollows, MarkUnknownFollows DEF store
<1>4. msgs' = msgs /\ quar' = quar
  BY <1>2 DEF store, SetLedger, MarkUnknown
<1>5. \E step \in Steps \ {"fenced"}, out \in Verdicts : Move(w, step, out)
  BY DEF BeginCandidateIntents, ReconcileOwners, BeginCandidateWrites, Steps, Verdicts
<1>6. fetched' = fetched
  BY DEF BeginCandidateIntents, ReconcileOwners, BeginCandidateWrites
<1>7. TasksFollow /\ FenceFollows /\ SourcesFollow
  BY <1>0, <1>4, <1>5, <1>6, MoveFollows, SameSourcesFollow
<1>8. LeaseKept
  BY <1>0, <1>3, UndisturbedKept, GivesUpKept
<1> QED BY <1>3, <1>7, <1>8 DEF Ordinary

\* The statuses an outcome leaves.
LEMMA SettledStatus ==
  ASSUME NEW job \in Job, NEW out \in Verdicts
  PROVE  Settled(job, out).status \in {"completed", "failed", "blocked", "unknown"}
<1>1. /\ {"completed", "unknown"} \subseteq Statuses
      /\ {"closed", "open"} \subseteq LedgerStates
  BY DEF Statuses, LedgerStates
<1>2. CASE out = "nofacts"
  BY <1>1, <1>2, ReleasedRow DEF Settled
<1>3. CASE out = "completed"
  <2> DEFINE r == Released(job, "completed")
  <2>1. Settled(job, out) = [r EXCEPT !.led = "closed"]
    BY <1>3 DEF Settled
  <2>2. r \in Job /\ r.status = "completed"
    BY <1>1, ReleasedRow
  <2> HIDE DEF r
  <2> QED BY <1>1, <2>1, <2>2, LedgerRow
<1>4. CASE out = "failed"
  <2> DEFINE r == RetryOrBlock(job)
  <2>1. Settled(job, out) = [r EXCEPT !.led = "closed"]
    BY <1>4 DEF Settled
  <2>2. r \in Job /\ r.status \in {"failed", "blocked"}
    BY RetryOrBlockRow
  <2> HIDE DEF r
  <2> QED BY <1>1, <2>1, <2>2, LedgerRow
<1>5. CASE out \notin {"nofacts", "completed", "failed"}
  <2> DEFINE r == Released(job, "unknown")
  <2>1. Settled(job, out) = [r EXCEPT !.led = "open"]
    BY <1>5 DEF Settled
  <2>2. r \in Job /\ r.status = "unknown"
    BY <1>1, ReleasedRow
  <2> HIDE DEF r
  <2> QED BY <1>1, <2>1, <2>2, LedgerRow
<1> QED BY <1>2, <1>3, <1>4, <1>5

\* commit_window and fail_window: the worker ends with its row.
LEMMA CloseOrdinary ==
  ASSUME TypeOK, NEW w \in workers, CommitWindow(w) \/ FailWindow(w)
  PROVE  Ordinary /\ LeaseKept
<1>0. StoreType /\ RestType
  BY TypeSplit
<1>1. w.j \in 1..total /\ jobs[w.j] \in Job /\ w.out \in Verdicts
  BY <1>0, RowTyped DEF RestType, Worker
<1>2. RowsFollow /\ GivesUp(w) /\ SourcesFollow
  <2>1. CASE UNCHANGED store
    BY <2>1, SameRowsFollow, SameSourcesFollow DEF store, GivesUp
  <2>2. CASE Matches(w) /\ MarkUnknown(w.j)
    BY <2>2, <1>0, <1>1, MarkUnknownFollows, SameSourcesFollow DEF MarkUnknown
  <2>3. ASSUME NEW job, SameWindow(job, jobs[w.j]), job.intact = jobs[w.j].intact,
               job.status \in {"completed", "failed", "blocked", "unknown"}, Matches(w),
               StoreJob(w.j, job), UNCHANGED <<epoch, msgs, total, rr, quar>>
        PROVE  RowsFollow /\ GivesUp(w) /\ SourcesFollow
    <3>1. jobs' = [jobs EXCEPT ![w.j] = job] /\ jobs[w.j].tok = w.tok
          /\ jobs[w.j].status \notin Done
      BY <2>3 DEF StoreJob, StoreJobs, Matches, Done
    <3>2. Follows(job, jobs[w.j])
      BY <1>1, <2>3, <3>1, RewriteFollows
    <3> QED BY <1>0, <1>1, <2>3, <3>1, <3>2, OwnRowFollows, SameSourcesFollow
  <2>4. CASE /\ Matches(w) /\ ((w.out = "nofacts") <=> (jobs[w.j].led = "none"))
             /\ StoreJob(w.j, Settled(jobs[w.j], w.out))
             /\ UNCHANGED <<epoch, msgs, total, rr, quar>>
    <3>1. /\ SameWindow(Settled(jobs[w.j], w.out), jobs[w.j])
          /\ Settled(jobs[w.j], w.out).intact = jobs[w.j].intact
          /\ Settled(jobs[w.j], w.out).status \in {"completed", "failed", "blocked", "unknown"}
      BY <2>4, <1>1, SettledRow, SettledStatus
    <3> QED BY <3>1, <2>3, <2>4
  <2>5. CASE Matches(w) /\ FailWindow(w)
    <3> DEFINE job == IF w.out = "block" THEN Released(jobs[w.j], "blocked")
                                        ELSE RetryOrBlock(jobs[w.j])
    <3>1. /\ SameWindow(job, jobs[w.j]) /\ job.status \in {"failed", "blocked"}
          /\ job.intact = jobs[w.j].intact
      <4>1. "blocked" \in Statuses
        BY DEF Statuses
      <4> QED BY <4>1, <1>1, ReleasedRow, RetryOrBlockRow
    <3>2. StoreJob(w.j, job) /\ UNCHANGED <<epoch, msgs, total, rr, quar>>
      BY <2>5 DEF FailWindow
    <3> HIDE DEF job
    <3> QED BY <3>1, <3>2, <2>3, <2>5
  <2>6. CASE ~Matches(w) /\ FailWindow(w)
    BY <2>6, <2>1 DEF FailWindow
  <2>7. CASE CommitWindow(w)
    <3>1. \/ UNCHANGED store
          \/ Matches(w) /\ MarkUnknown(w.j)
          \/ /\ Matches(w) /\ ((w.out = "nofacts") <=> (jobs[w.j].led = "none"))
             /\ StoreJob(w.j, Settled(jobs[w.j], w.out))
             /\ UNCHANGED <<epoch, msgs, total, rr, quar>>
      BY <2>7 DEF CommitWindow
    <3> QED BY <3>1, <2>1, <2>2, <2>4
  <2> QED BY <2>5, <2>6, <2>7
<1>3. workers' = workers \ {w} /\ fetched' = fetched
  BY DEF CommitWindow, FailWindow
<1>4. w \notin fetched' \cup workers'
  BY <1>0, <1>3, ClaimIsNoWorker
<1> QED BY <1>0, <1>2, <1>3, <1>4, EndFollows, GivesUpKept DEF Ordinary

\* Startup reconciliation runs while the scheduler is not up and revives no lease.
LEMMA ReconcileOrdinary ==
  ASSUME TypeOK, RowsSound, StartReconcile
  PROVE  Ordinary /\ LeaseKept
<1>0. StoreType
  BY TypeSplit
<1>1. PICK r \in [Scanned -> UNION {Reconciled(j) : j \in Scanned}] :
       /\ \A j \in Scanned : r[j] \in Reconciled(j)
       /\ jobs' = [j \in Rows |-> IF j \in Scanned THEN r[j] ELSE jobs[j]]
  BY DEF StartReconcile, StoreJobs
<1>2. ASSUME NEW j \in Scanned PROVE Follows(r[j], jobs[j])
  <2>1. jobs[j] \in Job /\ jobs[j].status \notin Done
    BY <1>0, RowTyped DEF Scanned, RowsSound, Done
  <2> DEFINE job == jobs[j]
  <2> DEFINE un == Released(job, "unknown")
  <2> DEFINE cl == [job EXCEPT !.led = "closed"]
  <2> DEFINE co == Released(cl, "completed")
  <2>2. r[j] \in {un, cl, co}
    BY <1>1 DEF Reconciled
  <2>3. {"unknown", "completed"} \subseteq Statuses /\ "closed" \in LedgerStates
    BY DEF Statuses, LedgerStates
  <2>4. SameWindow(un, job) /\ un.status = "unknown" /\ un.intact = job.intact
    BY <2>1, <2>3, ReleasedRow
  <2>5. /\ cl \in Job /\ SameWindow(cl, job) /\ cl.status = job.status
        /\ cl.intact = job.intact
    BY <2>1, <2>3, LedgerRow
  <2>6. cl.lease = job.lease
    BY <2>1 DEF Job
  <2> HIDE DEF cl
  <2>7. SameWindow(co, cl) /\ co.status = "completed" /\ co.intact = cl.intact
    BY <2>5, <2>3, ReleasedRow
  <2> HIDE DEF un, co
  <2>8. CASE r[j] = cl
    BY <2>5, <2>6, <2>8 DEF Follows
  <2>9. CASE r[j] \in {un, co}
    <3>1. /\ SameWindow(r[j], job) /\ r[j].intact = job.intact
          /\ r[j].status \in {"unknown", "completed"}
      BY <2>4, <2>5, <2>7, <2>9 DEF SameWindow
    <3> QED BY <2>1, <3>1, RewriteFollows
  <2> QED BY <2>2, <2>8, <2>9
<1>3. RowsFollow
  <2>1. \A j \in 1..total : Follows(jobs'[j], jobs[j])
    BY <1>0, <1>1, <1>2, RowTyped, SelfFollows
  <2> QED BY <2>1 DEF RowsFollow, StartReconcile
<1>4. TasksFollow /\ FenceFollows /\ SourcesFollow
  BY EndFollows, SameSourcesFollow DEF StartReconcile
<1> QED BY <1>0, <1>3, <1>4, UndisturbedKept DEF Ordinary, StartReconcile

\* Abandoning takes blocked and unknown rows, which have no lease.
LEMMA AbandonOrdinary ==
  ASSUME TypeOK, NEW s \in Sessions, ConfirmAbandon(s)
  PROVE  Ordinary /\ LeaseKept
<1>0. StoreType
  BY TypeSplit
<1> DEFINE new(j) == [Released(jobs[j], "abandoned") EXCEPT
                        !.led = IF @ = "none" THEN @ ELSE "closed"]
<1>1. PICK e \in 1..epoch[s] : \E A \in SUBSET Of(jobs, s, e) :
        /\ \A j \in A : jobs[j].status \in {"blocked", "unknown"}
        /\ jobs' = [j \in Rows |-> IF j \in A THEN new(j) ELSE jobs[j]]
  BY DEF ConfirmAbandon, StoreJobs
<1>2. PICK A \in SUBSET Of(jobs, s, e) :
        /\ \A j \in A : jobs[j].status \in {"blocked", "unknown"}
        /\ jobs' = [j \in Rows |-> IF j \in A THEN new(j) ELSE jobs[j]]
  BY <1>1
<1>3. ASSUME NEW j \in A PROVE Follows(new(j), jobs[j]) /\ jobs[j].status # "running"
  <2>1. jobs[j] \in Job /\ jobs[j].status \in {"blocked", "unknown"}
    BY <1>0, <1>2, RowTyped DEF Of
  <2> DEFINE r == Released(jobs[j], "abandoned")
  <2> DEFINE l == IF r.led = "none" THEN r.led ELSE "closed"
  <2>2. "abandoned" \in Statuses
    BY DEF Statuses
  <2>3. /\ r \in Job /\ SameWindow(r, jobs[j]) /\ r.status = "abandoned"
        /\ r.intact = jobs[j].intact
    BY <2>1, <2>2, ReleasedRow
  <2>4. new(j) = [r EXCEPT !.led = l]
    OBVIOUS
  <2> HIDE DEF r, new
  <2>5. l \in LedgerStates
    BY DEF LedgerStates
  <2> HIDE DEF l
  <2>6. SameWindow(new(j), r) /\ new(j).status = "abandoned" /\ new(j).intact = r.intact
    BY <2>3, <2>4, <2>5, LedgerRow
  <2> QED BY <2>1, <2>3, <2>6, RewriteFollows DEF SameWindow, Done
<1> HIDE DEF new
<1>4. RowsFollow /\ Undisturbed
  <2>1. \A j \in 1..total : /\ Follows(jobs'[j], jobs[j])
                            /\ jobs[j].status = "running" => jobs'[j].status = "running"
    BY <1>0, <1>2, <1>3, RowTyped, SelfFollows
  <2>2. total' = total /\ epoch' = epoch
    BY DEF ConfirmAbandon
  <2> QED BY <2>1, <2>2 DEF RowsFollow, Undisturbed
<1>5. TasksFollow /\ FenceFollows /\ SourcesFollow
  BY EndFollows, SameSourcesFollow DEF ConfirmAbandon
<1> QED BY <1>0, <1>4, <1>5, UndisturbedKept DEF Ordinary

-----------------------------------------------------------------------------
(* The source lock *)

\* A claim that passes the fence has its source: its row is open and current.
LEMMA MatchedHasSource ==
  ASSUME StoreType, SourcesPreserved, NEW c, c.j \in 1..total, Matches(c)
  PROVE  SourceKept(c.j)
<1>1. c.j \in Rows /\ Current(c.j) /\ jobs[c.j].status \in Open
  BY RowTyped DEF Matches, Open
<1> QED BY <1>1 DEF SourcesPreserved, SourceKept

\* Taking the source lock, and the side effect under it: what is staged in the
\* quarantine store had its source when the lock was taken and has it still.
LEMMA FenceStep ==
  ASSUME TypeOK, TypeOK', LeaseInv, NEW w \in workers, EnterFence(w) \/ RunSideEffect(w)
  PROVE  LeaseInv' /\ LeaseKept
<1>0. StoreType /\ RestType /\ StoreType' /\ w.j \in 1..total /\ w \in Worker
  BY TypeSplit, TypeSplitPrime DEF RestType
<1>1. /\ jobs' = jobs /\ total' = total /\ epoch' = epoch /\ msgs' = msgs
      /\ fetched' = fetched
  BY DEF EnterFence, RunSideEffect, store
<1>2. RowsFollow /\ Undisturbed
  BY <1>1, SameRowsFollow
<1>3. \E step \in Steps, out \in Verdicts :
        Move(w, step, out) /\ (step = "fenced" => EnterFence(w) /\ Matches(w))
  <2>1. CASE EnterFence(w)
    BY <2>1 DEF EnterFence, Steps, Verdicts
  <2>2. CASE RunSideEffect(w)
    BY <2>2 DEF RunSideEffect, Steps, Verdicts
  <2> QED BY <2>1, <2>2
<1>4. PICK step \in Steps, out \in Verdicts :
        Move(w, step, out) /\ (step = "fenced" => EnterFence(w) /\ Matches(w))
  BY <1>3
<1>5. Holders' /\ Capacity'
  BY <1>0, <1>1, <1>2, <1>4, FollowHolders, FollowCapacity DEF TasksFollow, LeaseInv
<1>6. \A j \in 1..total : SourceKept(j) => SourceKept(j)'
  BY <1>1 DEF SourceKept, Current
<1>7. \A j \in quar' : SourceKept(j)'
  <2>1. \A j \in quar : j \in 1..total /\ SourceKept(j)
    BY <1>0 DEF RestType, LeaseInv, Sources, QuarantineSourcesKept, SourceKept
  <2>2. CASE EnterFence(w)
    BY <1>6, <2>1, <2>2 DEF EnterFence, store
  <2>3. CASE RunSideEffect(w)
    <3>1. SourceKept(w.j)
      BY <2>3 DEF RunSideEffect, LeaseInv, Sources, FencedHasSource
    <3>2. quar' \subseteq quar \cup {w.j}
      BY <2>3 DEF RunSideEffect
    <3> QED BY <1>0, <1>6, <2>1, <3>1, <3>2
  <2> QED BY <2>2, <2>3
<1>8. ASSUME NEW v \in workers', v.step = "fenced" PROVE SourceKept(v.j)'
  <2> DEFINE u == [w EXCEPT !.step = step, !.out = out]
  <2>1. u.step = step /\ u.j = w.j
    BY <1>0 DEF Worker
  <2>2. v = u \/ v \in workers
    BY <1>4 DEF Move
  <2> HIDE DEF u
  <2>3. CASE v = u
    <3>1. SourceKept(w.j)
      BY <1>0, <1>4, <1>8, <2>1, <2>3, MatchedHasSource DEF LeaseInv, Sources
    <3> QED BY <1>0, <1>6, <2>1, <2>3, <3>1
  <2>4. CASE v \in workers
    <3>1. v.j \in 1..total /\ SourceKept(v.j)
      BY <1>0, <1>8, <2>4 DEF RestType, LeaseInv, Sources, FencedHasSource
    <3> QED BY <1>6, <3>1
  <2> QED BY <2>2, <2>3, <2>4
<1>9. Sources'
  BY <1>0, <1>2, <1>6, <1>7, <1>8, KeepSources DEF LeaseInv
<1> QED BY <1>0, <1>2, <1>5, <1>9, UndisturbedKept DEF LeaseInv

-----------------------------------------------------------------------------
(* Messages that go *)

\* Trimming waits for the source lock, for the quarantine and for every row of
\* the epoch, so what it deletes nobody needs.
LEMMA TrimStep ==
  ASSUME TypeOK, TypeOK', LeaseInv, NEW s \in Sessions, TrimIfSafe(s)
  PROVE  LeaseInv' /\ LeaseKept
<1>0. StoreType /\ RestType /\ StoreType'
  BY TypeSplit, TypeSplitPrime
<1>1. /\ jobs' = jobs /\ total' = total /\ epoch' = epoch /\ quar' = quar
      /\ fetched' = fetched /\ workers' = workers
  BY DEF TrimIfSafe
<1>2. RowsFollow /\ Undisturbed /\ TasksFollow
  BY <1>1, SameRowsFollow, EndFollows
<1>3. Holders' /\ Capacity'
  BY <1>0, <1>2, FollowHolders, FollowCapacity DEF LeaseInv
<1>4. /\ \A r \in Sessions : r # s => msgs'[r] = msgs[r]
      /\ SourceLockFree(s) /\ ~HasPendingQuarantine(s) /\ ~HasTrimBlocker(s, epoch[s])
  <2>1. PICK e \in 1..epoch[s], n \in 1..MaxSeq :
          LET low == {q \in msgs[s] : e = epoch[s] /\ q <= cursor[s]}
              cut == {q \in low : Cardinality({p \in low : p <= q}) <= n} IN
          /\ SourceLockFree(s) /\ ~HasPendingQuarantine(s) /\ ~HasTrimBlocker(s, e)
          /\ cut # {} /\ msgs' = [msgs EXCEPT ![s] = @ \ cut]
    BY DEF TrimIfSafe
  <2>2. e = epoch[s]
    BY <2>1
  <2>3. \E X : msgs' = [msgs EXCEPT ![s] = X]
    BY <2>1
  <2>4. \A r \in Sessions : r # s => msgs'[r] = msgs[r]
    BY <1>0, <2>3 DEF RestType
  <2> QED BY <2>1, <2>2, <2>4
<1>5. \A j \in 1..total : jobs[j].s # s /\ SourceKept(j) => SourceKept(j)'
  <2>1. \A j \in 1..total : jobs[j].s \in Sessions
    BY <1>0, RowTyped DEF Job
  <2> QED BY <1>1, <1>4, <2>1 DEF SourceKept, Current
<1>6. \A j \in 1..total : Current(j) /\ jobs[j].status \in Open => jobs[j].s # s
  BY <1>0, <1>4, RowTyped DEF HasTrimBlocker, Of, Current, Open, Done
<1>7. \A j \in quar' : SourceKept(j)'
  <2>1. \A j \in quar : j \in 1..total /\ SourceKept(j) /\ jobs[j].s # s
    BY <1>0, <1>4 DEF RestType, LeaseInv, Sources, QuarantineSourcesKept, SourceKept,
                      HasPendingQuarantine
  <2> QED BY <1>1, <1>5, <2>1
<1>8. \A w \in workers' : w.step = "fenced" => SourceKept(w.j)'
  <2>1. \A w \in workers : w.step = "fenced" =>
           w.j \in 1..total /\ SourceKept(w.j) /\ jobs[w.j].s # s
    BY <1>0, <1>4 DEF RestType, LeaseInv, Sources, FencedHasSource, SourceLockFree
  <2> QED BY <1>1, <1>5, <2>1
<1>9. Sources'
  BY <1>0, <1>2, <1>5, <1>6, <1>7, <1>8, KeepSources DEF LeaseInv
<1> QED BY <1>0, <1>2, <1>3, <1>9, UndisturbedKept DEF LeaseInv

\* Deleting a single message marks every row whose source it was part of.
LEMMA DeleteStep ==
  ASSUME TypeOK, TypeOK', LeaseInv, NEW s \in Sessions, DeleteMessage(s)
  PROVE  LeaseInv' /\ LeaseKept
<1>0. StoreType /\ RestType /\ StoreType'
  BY TypeSplit, TypeSplitPrime
<1>1. PICK q \in msgs[s] : jobs' = Tainted(s, q) /\ msgs' = [msgs EXCEPT ![s] = @ \ {q}]
  BY DEF DeleteMessage
<1>2. /\ total' = total /\ epoch' = epoch /\ quar' = quar /\ fetched' = fetched
      /\ workers' = workers
  BY DEF DeleteMessage
<1>3. RowsFollow /\ Undisturbed /\ TasksFollow
  BY <1>0, <1>1, <1>2, TaintFollows, EndFollows
<1>4. Holders' /\ Capacity'
  BY <1>0, <1>3, FollowHolders, FollowCapacity DEF LeaseInv
<1>5. ASSUME NEW j \in 1..total, SourceKept(j) PROVE SourceKept(j)'
  <2>1. jobs[j] \in Job /\ Current(j) /\ jobs[j].s \in Sessions
    BY <1>0, <1>5, RowTyped DEF SourceKept, Job
  <2>2. Follows(jobs'[j], jobs[j])
    BY <1>3 DEF RowsFollow
  <2>3. /\ jobs'[j].s = jobs[j].s /\ Source(jobs'[j]) = Source(jobs[j])
        /\ jobs'[j].intact => jobs[j].intact
    BY <2>2 DEF Follows, SameWindow, Source
  <2>4. Current(j)'
    BY <1>2, <2>1, <2>2 DEF Current, Follows, SameWindow
  <2>5. ASSUME jobs'[j].intact PROVE Source(jobs[j]) \subseteq msgs'[jobs[j].s]
    <3>1. Source(jobs[j]) \subseteq msgs[jobs[j].s]
      BY <1>5, <2>3, <2>5 DEF SourceKept
    <3>2. CASE jobs[j].s # s
      BY <1>0, <1>1, <2>1, <3>1, <3>2 DEF RestType
    <3>3. CASE jobs[j].s = s
      <4>1. ~Covers(jobs[j], q)
        <5> SUFFICES ASSUME Covers(jobs[j], q) PROVE FALSE
          OBVIOUS
        <5>1. jobs'[j] = [jobs[j] EXCEPT !.intact = FALSE]
          BY <1>0, <1>1, <2>1, <3>3, RowTyped DEF Tainted
        <5> QED BY <2>1, <2>5, <5>1 DEF Job
      <4>2. q \notin Source(jobs[j])
        <5>1. jobs[j].start \in Int /\ jobs[j].end \in Int
          BY <2>1, ConstantsAssumption DEF Job
        <5> QED BY <4>1, <5>1 DEF Covers, Source
      <4>3. msgs'[s] = msgs[s] \ {q}
        BY <1>0, <1>1 DEF RestType
      <4> QED BY <3>1, <3>3, <4>2, <4>3
    <3> QED BY <3>2, <3>3
  <2> QED BY <2>3, <2>4, <2>5 DEF SourceKept
<1>6. \A j \in quar' : SourceKept(j)'
  BY <1>0, <1>2, <1>5 DEF RestType, LeaseInv, Sources, QuarantineSourcesKept, SourceKept
<1>7. \A w \in workers' : w.step = "fenced" => SourceKept(w.j)'
  BY <1>0, <1>2, <1>5 DEF RestType, LeaseInv, Sources, FencedHasSource
<1>8. Sources'
  BY <1>0, <1>3, <1>5, <1>6, <1>7, KeepSources DEF LeaseInv
<1> QED BY <1>0, <1>3, <1>4, <1>8, UndisturbedKept DEF LeaseInv

\* A clear or a clean-up ends the epoch of sessions nobody quarantined from or
\* works on under the lock: their rows are old from then on.
LEMMA NewEpochKeeps ==
  ASSUME TypeOK, TypeOK', RowsSound, LeaseInv, NEW S \in SUBSET Sessions, NEW C, NewEpoch(S, C),
         \A j \in 1..total : j \in C => jobs[j].s \in S,
         \A s \in S : SourceLockFree(s) /\ ~HasPendingQuarantine(s)
  PROVE  LeaseInv' /\ LeaseKept
<1>0. StoreType /\ RestType /\ StoreType'
  BY TypeSplit, TypeSplitPrime
<1>r. Rows = 1..total /\ Rows' = 1..total /\ total' = total
  BY <1>0, RowTyped DEF StoreType, Rows, NewEpoch
<1>1. fetched' = fetched /\ workers' = workers /\ quar' = quar
  BY DEF NewEpoch
<1>2. \A j \in 1..total : jobs[j] \in Job /\ jobs[j].s \in Sessions
  BY <1>0, RowTyped DEF Job
<1>3. ASSUME NEW j \in 1..total
      PROVE  jobs'[j].s = jobs[j].s /\ jobs'[j].e = jobs[j].e
  <2>1. "cancelled" \in Statuses
    BY DEF Statuses
  <2>2. jobs'[j] \in {jobs[j], Released(jobs[j], "cancelled")}
    BY <1>r DEF NewEpoch
  <2>3. SameWindow(Released(jobs[j], "cancelled"), jobs[j])
    BY <1>2, <2>1, ReleasedRow
  <2> QED BY <2>2, <2>3 DEF SameWindow
<1>4. \A j \in 1..total : jobs[j].s \notin S => jobs'[j] = jobs[j]
  BY <1>r DEF NewEpoch
<1>5. \A s \in Sessions : s \notin S => epoch'[s] = epoch[s] /\ msgs'[s] = msgs[s]
  BY DEF NewEpoch
<1>6. \A s \in S : epoch[s] \in Int /\ epoch'[s] = epoch[s] + 1
  BY <1>0, ConstantsAssumption DEF NewEpoch, StoreType
<1>7. \A j \in 1..total : jobs[j].s \in S => ~Current(j)'
  <2>1. \A j \in 1..total : jobs[j].e \in Int /\ jobs[j].e <= epoch[jobs[j].s]
    BY <1>2, ConstantsAssumption DEF Job, RowsSound
  <2> QED BY <1>3, <1>6, <2>1 DEF Current
<1>8. \A j \in 1..total : jobs[j].s \notin S => (Current(j)' <=> Current(j))
  BY <1>2, <1>4, <1>5 DEF Current
<1>9. \A j \in 1..total : jobs[j].s \notin S /\ SourceKept(j) => SourceKept(j)'
  BY <1>2, <1>4, <1>5, <1>8 DEF SourceKept
<1>10. Holders'
  BY <1>0, <1>1, EndFollows, FollowHolders DEF LeaseInv
<1>11. Capacity'
  <2>1. ASSUME NEW s \in Sessions PROVE Live(s)' \subseteq Live(s)
    <3>1. Live(s)' = {j \in 1..total' : /\ jobs'[j].s = s /\ jobs'[j].e = epoch'[s]
                                        /\ jobs'[j].status = "running" /\ jobs'[j].lease > 0}
      BY <1>0, RowTyped DEF Live, Of, StoreType
    <3>2. \A j \in Live(s)' : j \in 1..total /\ Current(j)' /\ jobs'[j].s = s
      BY <1>r, <3>1 DEF Current
    <3>3. \A j \in Live(s)' : jobs'[j] = jobs[j] /\ epoch'[s] = epoch[s]
      BY <1>3, <1>4, <1>5, <1>7, <3>2
    <3> QED BY <1>0, <1>r, <3>1, <3>3, LiveIs
  <2> QED BY <1>0, <2>1, FewerLive DEF LeaseInv
<1>12. CancelledIsOld'
  <2>1. \A j \in 1..total : jobs[j].status = "cancelled" => ~Current(j)
    BY DEF LeaseInv, Sources, CancelledIsOld
  <2> QED BY <1>r, <1>4, <1>7, <1>8, <2>1 DEF CancelledIsOld
<1>13. SourcesPreserved'
  <2> SUFFICES ASSUME NEW j \in 1..total, Current(j)', jobs'[j].status \in Open
               PROVE  SourceKept(j)'
    BY <1>r DEF SourcesPreserved, SourceKept
  <2>1. jobs[j].s \notin S
    BY <1>7
  <2>2. SourceKept(j)
    BY <1>r, <1>4, <1>8, <2>1 DEF LeaseInv, Sources, SourcesPreserved, SourceKept
  <2> QED BY <1>9, <2>1, <2>2
<1>14. QuarantineSourcesKept'
  <2>1. \A j \in quar : j \in 1..total /\ SourceKept(j) /\ jobs[j].s \notin S
    BY <1>0 DEF RestType, LeaseInv, Sources, QuarantineSourcesKept, SourceKept,
                HasPendingQuarantine
  <2> QED BY <1>1, <1>9, <2>1 DEF QuarantineSourcesKept, SourceKept
<1>15. FencedHasSource'
  <2>1. \A w \in workers : w.step = "fenced" =>
           w.j \in 1..total /\ SourceKept(w.j) /\ jobs[w.j].s \notin S
    BY <1>0 DEF RestType, LeaseInv, Sources, FencedHasSource, SourceLockFree
  <2> QED BY <1>1, <1>9, <2>1 DEF FencedHasSource
<1>16. LeaseKept
  <2>1. \A j \in 1..total : jobs[j].s \in S => epoch'[jobs[j].s] # epoch[jobs[j].s]
    BY <1>6
  <2> QED BY <1>r, <1>4, <2>1 DEF LeaseKept
<1> QED BY <1>10, <1>11, <1>12, <1>13, <1>14, <1>15, <1>16 DEF LeaseInv, Sources

\* Clearing a session and deleting old ones.
LEMMA NewEpochLeases ==
  ASSUME TypeOK, TypeOK', RowsSound, LeaseInv,
         DeleteOldSessions \/ \E s \in Sessions : ClearSession(s)
  PROVE  LeaseInv' /\ LeaseKept
<1>0. Rows = 1..total
  BY TypeSplit, RowTyped
<1>1. ASSUME NEW s \in Sessions, ClearSession(s) PROVE LeaseInv' /\ LeaseKept
  <2>1. \A j \in 1..total : j \in Of(jobs, s, epoch[s]) => jobs[j].s \in {s}
    BY DEF Of
  <2> QED BY <1>1, <2>1, NewEpochKeeps DEF ClearSession
<1>2. CASE DeleteOldSessions
  <2>1. PICK S \in SUBSET Sessions :
          LET gone == {s \in S : ~HasPendingQuarantine(s)} IN
          /\ \A s \in S : SourceLockFree(s)
          /\ NewEpoch(gone, {j \in Rows : jobs[j].s \in gone})
    BY <1>2 DEF DeleteOldSessions
  <2> DEFINE gone == {s \in S : ~HasPendingQuarantine(s)}
  <2> DEFINE C == {j \in Rows : jobs[j].s \in gone}
  <2>2. /\ gone \in SUBSET Sessions /\ NewEpoch(gone, C)
        /\ \A s \in gone : SourceLockFree(s) /\ ~HasPendingQuarantine(s)
        /\ \A j \in 1..total : j \in C => jobs[j].s \in gone
    BY <2>1
  <2> HIDE DEF gone, C
  <2> QED BY <2>2, NewEpochKeeps
<1> QED BY <1>1, <1>2

-----------------------------------------------------------------------------
(* Planning *)

\* What plan_and_enqueue_windows adds: rows without lease whose source is there
\* unless they are marked.
LEMMA EnqueueRows ==
  ASSUME StoreType, NEW s \in Sessions, NEW f \in 0..MaxSeq, NEW obs \in 0..MaxSeq,
         f <= obs, Enqueue(s, f, obs)
  PROVE  /\ \A j \in 1..total : jobs'[j] = jobs[j]
         /\ \A j \in 1..total' : j \notin 1..total =>
              /\ jobs'[j].s = s /\ jobs'[j].status \in {"queued", "blocked"}
              /\ jobs'[j].intact => Source(jobs'[j]) \subseteq msgs[s]
<1> DEFINE m == NewWindows(f, obs)
<1>1. /\ total' = total + m
      /\ jobs' = [j \in 1..(total + m) |->
                    IF j <= total THEN jobs[j]
                    ELSE NewJob(s, WindowStart(f, j - total), WindowEnd(f, obs, j - total))]
  BY DEF Enqueue, StoreJobs
<1>2. total \in Nat /\ total' \in Nat /\ 1..total \subseteq 1..total'
  BY EnqueueTyped DEF StoreType
<1> HIDE DEF m
<1>3. \A j \in 1..total : jobs'[j] = jobs[j]
  BY <1>1, <1>2
<1>4. ASSUME NEW a, NEW b
      PROVE  /\ NewJob(s, a, b).s = s /\ NewJob(s, a, b).status \in {"queued", "blocked"}
             /\ NewJob(s, a, b).intact => Source(NewJob(s, a, b)) \subseteq msgs[s]
  BY DEF NewJob, Source
<1>5. \A j \in 1..total' : j \notin 1..total => \E a, b : jobs'[j] = NewJob(s, a, b)
  BY <1>1, <1>2
<1> QED BY <1>3, <1>4, <1>5

\* Planning touches no existing row and claims nothing.
LEMMA EnqueueKeeps ==
  ASSUME TypeOK, TypeOK', LeaseInv,
         NEW s \in Sessions, NEW f \in 0..MaxSeq, NEW obs \in 0..MaxSeq,
         f <= obs, Enqueue(s, f, obs), fetched' = fetched, workers' = workers
  PROVE  LeaseInv' /\ LeaseKept
<1>0. StoreType /\ RestType /\ StoreType'
  BY TypeSplit, TypeSplitPrime
<1>1. 1..total \subseteq 1..total' /\ epoch' = epoch /\ msgs' = msgs /\ quar' = quar
  BY <1>0, EnqueueTyped
<1>2. Rows = 1..total /\ Rows' = 1..total'
  BY <1>0, RowTyped DEF StoreType, Rows
<1>3. /\ \A j \in 1..total : jobs'[j] = jobs[j]
      /\ \A j \in 1..total' : j \notin 1..total =>
           /\ jobs'[j].s = s /\ jobs'[j].status \in {"queued", "blocked"}
           /\ jobs'[j].intact => Source(jobs'[j]) \subseteq msgs[s]
  BY <1>0, EnqueueRows
<1>4. \A j \in 1..total : SourceKept(j) => SourceKept(j)'
  BY <1>1, <1>3 DEF SourceKept, Current
<1>5. Holders'
  BY <1>0, EndFollows, FollowHolders DEF LeaseInv
<1>6. Capacity'
  <2>1. ASSUME NEW r \in Sessions PROVE Live(r)' \subseteq Live(r)
    <3>1. Live(r)' = {j \in 1..total' : /\ jobs'[j].s = r /\ jobs'[j].e = epoch'[r]
                                        /\ jobs'[j].status = "running" /\ jobs'[j].lease > 0}
      BY <1>0, RowTyped DEF Live, Of, StoreType
    <3>2. \A j \in Live(r)' : j \in 1..total
      BY <1>3, <3>1
    <3> QED BY <1>0, <1>1, <1>3, <3>1, <3>2, LiveIs
  <2> QED BY <1>0, <2>1, FewerLive DEF LeaseInv
<1>7. CancelledIsOld'
  BY <1>1, <1>3 DEF CancelledIsOld, LeaseInv, Sources, Current
<1>8. SourcesPreserved'
  <2> SUFFICES ASSUME NEW j \in 1..total', Current(j)', jobs'[j].status \in Open, jobs'[j].intact
               PROVE  Source(jobs'[j]) \subseteq msgs'[jobs'[j].s]
    BY <1>2 DEF SourcesPreserved
  <2>1. CASE j \in 1..total
    <3>1. Current(j)
      BY <1>1, <1>3, <2>1 DEF Current
    <3> QED BY <1>1, <1>2, <1>3, <2>1, <3>1 DEF LeaseInv, Sources, SourcesPreserved
  <2>2. CASE j \notin 1..total
    BY <1>1, <1>3, <2>2
  <2> QED BY <2>1, <2>2
<1>9. QuarantineSourcesKept'
  <2>1. \A j \in quar : j \in 1..total /\ SourceKept(j)
    BY <1>0 DEF RestType, LeaseInv, Sources, QuarantineSourcesKept, SourceKept
  <2> QED BY <1>1, <1>4, <2>1 DEF QuarantineSourcesKept, SourceKept
<1>10. FencedHasSource'
  <2>1. \A w \in workers : w.step = "fenced" => w.j \in 1..total /\ SourceKept(w.j)
    BY <1>0 DEF RestType, LeaseInv, Sources, FencedHasSource
  <2> QED BY <1>4, <2>1 DEF FencedHasSource
<1>11. LeaseKept
  BY <1>0, <1>3, UndisturbedKept DEF Undisturbed
<1> QED BY <1>5, <1>6, <1>7, <1>8, <1>9, <1>10, <1>11 DEF LeaseInv, Sources

\* A planning request, refused or accepted.
LEMMA PlanLeases ==
  ASSUME TypeOK, TypeOK', LeaseInv, (\E r \in reqs : Plan(r)) \/ StartPlan
  PROVE  LeaseInv' /\ LeaseKept
<1>0. StoreType /\ RestType /\ fetched' = fetched /\ workers' = workers
  BY TypeSplit DEF Plan, StartPlan
<1>1. CASE UNCHANGED store
  <2>1. Ordinary /\ LeaseKept
    BY <1>0, <1>1, SameRowsFollow, SameSourcesFollow, EndFollows, UndisturbedKept
       DEF store, Ordinary
  <2> QED BY <2>1, OrdinaryKeeps
<1>2. CASE \E s \in Sessions, f \in 0..MaxSeq, obs \in 0..MaxSeq :
              f <= obs /\ Enqueue(s, f, obs)
  BY <1>0, <1>2, EnqueueKeeps
<1>3. ASSUME NEW r \in reqs, Plan(r) PROVE LeaseInv' /\ LeaseKept
  <2>1. r.s \in Sessions /\ r.end \in 0..MaxSeq
    BY <1>0 DEF RestType, Request
  <2> QED BY <1>1, <1>2, <1>3, <2>1 DEF Plan, Accepted
<1>4. CASE StartPlan
  <2>1. \/ UNCHANGED store
        \/ \E s \in todo, obs \in 0..MaxSeq, f \in 0..MaxSeq : f <= obs /\ Enqueue(s, f, obs)
    BY <1>4, ConstantsAssumption DEF StartPlan
  <2>2. todo \subseteq Sessions
    BY <1>0 DEF RestType
  <2> QED BY <1>1, <1>2, <2>1, <2>2
<1> QED BY <1>3, <1>4

-----------------------------------------------------------------------------
(* Claiming *)

\* A set whose members all are values of f on S is no larger than S.
LEMMA ImageBound ==
  ASSUME NEW S, IsFiniteSet(S), NEW f, NEW T, \A t \in T : \E x \in S : t = f[x]
  PROVE  IsFiniteSet(T) /\ Cardinality(T) <= Cardinality(S) /\ Cardinality(T) \in Nat
<1> DEFINE U == {f[x] : x \in S}
<1> DEFINE g == [x \in S |-> f[x]]
<1>1. g \in Surjection(S, U)
  BY DEF Surjection
<1>2. IsFiniteSet(U) /\ Cardinality(U) <= Cardinality(S)
  BY <1>1, FS_Surjection
<1>3. T \in SUBSET U
  OBVIOUS
<1>4. IsFiniteSet(T) /\ Cardinality(T) <= Cardinality(U)
  BY <1>2, <1>3, FS_Subset
<1>5. Cardinality(T) \in Nat /\ Cardinality(U) \in Nat /\ Cardinality(S) \in Nat
  BY <1>2, <1>4, FS_CardinalityType
<1> QED BY <1>2, <1>4, <1>5

\* Registering turns each claim into one worker or one rejected claim: tokens
\* stay apart and the number in flight does not grow.
LEMMA RegisterLeases ==
  ASSUME TypeOK, TypeOK', LeaseInv, Register
  PROVE  LeaseInv' /\ LeaseKept
<1>0. StoreType /\ RestType /\ StoreType'
  BY TypeSplit, TypeSplitPrime
<1> DEFINE rec(c) == [j |-> c.j, tok |-> c.tok, step |-> "read", out |-> "none"]
<1> DEFINE rej(c) == [c EXCEPT !.rejected = TRUE]
<1>1. \E A \in SUBSET fetched : /\ \A w \in workers' : w \in workers \/ \E c \in A : w = rec(c)
                               /\ \A d \in fetched' : \E c \in fetched \ A : d = rej(c)
  <2> DEFINE A == {d \in fetched :
                     Cardinality({w \in workers : jobs[w.j].s = jobs[d.j].s}) < MaxPerSession}
  <2>1. \A w \in workers' : w \in workers \/ \E c \in A : w = rec(c)
    BY DEF Register
  <2>2. \A d \in fetched' : \E c \in fetched \ A : d = rej(c)
    BY DEF Register
  <2> QED BY <2>1, <2>2
<1>2. PICK A \in SUBSET fetched :
        /\ \A w \in workers' : w \in workers \/ \E c \in A : w = rec(c)
        /\ \A d \in fetched' : \E c \in fetched \ A : d = rej(c)
  BY <1>1
<1>3. UNCHANGED store
  BY DEF Register
<1>4. \A c \in fetched : /\ rec(c).j = c.j /\ rec(c).tok = c.tok /\ rec(c).step # "fenced"
                         /\ rej(c).j = c.j /\ rej(c).tok = c.tok
  BY <1>0 DEF RestType, Claim
<1>5. TokensDistinct'
  <2> DEFINE new(o) == IF o \in workers THEN o ELSE IF o \in A THEN rec(o) ELSE rej(o)
  <2>1. ASSUME NEW x \in fetched' \cup workers'
        PROVE  \E o \in fetched \cup workers : o.j = x.j /\ o.tok = x.tok /\ x = new(o)
    <3> HIDE DEF rec, rej
    <3>1. \A c \in fetched : c \notin workers
      BY <1>0, ClaimIsNoWorker
    <3>2. CASE x \in workers
      BY <3>2
    <3>3. ASSUME NEW c \in A, x = rec(c)
          PROVE  \E o \in fetched \cup workers : o.j = x.j /\ o.tok = x.tok /\ x = new(o)
      BY <1>4, <3>1, <3>3
    <3>4. ASSUME NEW c \in fetched \ A, x = rej(c)
          PROVE  \E o \in fetched \cup workers : o.j = x.j /\ o.tok = x.tok /\ x = new(o)
      BY <1>4, <3>1, <3>4
    <3> QED BY <1>2, <3>2, <3>3, <3>4
  <2> HIDE DEF new
  <2>2. \A c, d \in fetched \cup workers : c.j = d.j /\ c.tok = d.tok => c = d
    BY DEF LeaseInv, Holders, TokensDistinct
  <2>3. ASSUME NEW x \in fetched' \cup workers', NEW y \in fetched' \cup workers',
               x.j = y.j, x.tok = y.tok
        PROVE  x = y
    <3>1. PICK o \in fetched \cup workers : o.j = x.j /\ o.tok = x.tok /\ x = new(o)
      BY <2>1
    <3>2. PICK p \in fetched \cup workers : p.j = y.j /\ p.tok = y.tok /\ y = new(p)
      BY <2>1
    <3>3. o = p
      BY <2>2, <2>3, <3>1, <3>2
    <3> QED BY <3>1, <3>2, <3>3
  <2> QED BY <2>3 DEF TokensDistinct
<1>6. InFlight'
  <2>1. IsFiniteSet(fetched) /\ IsFiniteSet(workers)
    BY DEF LeaseInv, Holders, InFlight
  <2>2. /\ IsFiniteSet(A) /\ IsFiniteSet(fetched \ A)
        /\ Cardinality(A) + Cardinality(fetched \ A) = Cardinality(fetched)
        /\ Cardinality(A) \in Nat /\ Cardinality(fetched \ A) \in Nat
    <3>1. IsFiniteSet(A) /\ IsFiniteSet(fetched \ A)
      BY <2>1, FS_Subset
    <3>2. A \cup (fetched \ A) = fetched /\ A \cap (fetched \ A) = {}
      OBVIOUS
    <3>3. Cardinality(fetched) = Cardinality(A) + Cardinality(fetched \ A) - Cardinality({})
      BY <3>1, <3>2, FS_Union
    <3>4. Cardinality({}) = 0
      BY FS_EmptySet
    <3>5. Cardinality(A) \in Nat /\ Cardinality(fetched \ A) \in Nat
      BY <3>1, FS_CardinalityType
    <3> QED BY <3>1, <3>3, <3>4, <3>5
  <2> DEFINE W == {rec(c) : c \in A}
  <2>3. /\ IsFiniteSet(W) /\ Cardinality(W) <= Cardinality(A) /\ Cardinality(W) \in Nat
    <3> DEFINE f == [c \in A |-> rec(c)]
    <3>1. \A w \in W : \E c \in A : w = f[c]
      OBVIOUS
    <3> HIDE DEF f, W
    <3> QED BY <2>2, <3>1, ImageBound
  <2>4. /\ IsFiniteSet(fetched') /\ Cardinality(fetched') <= Cardinality(fetched \ A)
        /\ Cardinality(fetched') \in Nat
    <3> DEFINE f == [c \in fetched \ A |-> rej(c)]
    <3>1. \A d \in fetched' : \E c \in fetched \ A : d = f[c]
      BY <1>2
    <3> HIDE DEF f
    <3> QED BY <2>2, <3>1, ImageBound
  <2>5. workers' \in SUBSET (workers \cup W)
    BY <1>2
  <2> HIDE DEF W
  <2>6. /\ IsFiniteSet(workers \cup W)
        /\ Cardinality(workers \cup W) <= Cardinality(workers) + Cardinality(W)
        /\ Cardinality(workers \cup W) \in Nat /\ Cardinality(workers) \in Nat
    <3>1. /\ IsFiniteSet(workers \cup W)
          /\ Cardinality(workers \cup W) =
               Cardinality(workers) + Cardinality(W) - Cardinality(workers \cap W)
      BY <2>1, <2>3, FS_Union
    <3>2. /\ Cardinality(workers \cap W) \in Nat /\ Cardinality(workers) \in Nat
          /\ Cardinality(workers \cup W) \in Nat
      BY <2>1, <3>1, FS_Intersection, FS_CardinalityType
    <3> QED BY <2>3, <3>1, <3>2
  <2>7. /\ IsFiniteSet(workers') /\ Cardinality(workers') <= Cardinality(workers \cup W)
        /\ Cardinality(workers') \in Nat
    <3>1. IsFiniteSet(workers') /\ Cardinality(workers') <= Cardinality(workers \cup W)
      BY <2>5, <2>6, FS_Subset
    <3> QED BY <3>1, FS_CardinalityType
  <2>8. Cardinality(fetched) + Cardinality(workers) <= MaxParallel
    BY DEF LeaseInv, Holders, InFlight
  <2>9. Cardinality(fetched') + Cardinality(workers') <= MaxParallel
    BY <2>2, <2>3, <2>4, <2>6, <2>7, <2>8, ConstantsAssumption
  <2> QED BY <2>4, <2>7, <2>9 DEF InFlight
<1>7. RowsFollow /\ Undisturbed /\ SourcesFollow
  BY <1>3, SameRowsFollow, SameSourcesFollow DEF store
<1>8. FenceFollows
  BY <1>2, <1>4 DEF FenceFollows
<1>9. Capacity' /\ Sources'
  BY <1>0, <1>7, <1>8, FollowCapacity, FollowSources DEF LeaseInv
<1> QED BY <1>0, <1>5, <1>6, <1>7, <1>9, UndisturbedKept DEF LeaseInv, Holders

\* The batch of a claim: rows C that were waiting become running with a token
\* nobody holds for them.
IsClaim(C) ==
  /\ C \subseteq 1..total
  /\ \A j \in C : jobs[j].status \in {"queued", "failed"} /\ FreshToken(j) \notin Held(j)
  /\ \A j, k \in C : jobs[j].s = jobs[k].s => j = k
  /\ \A j \in C : Cardinality(Live(jobs[j].s)) < MaxPerSession
  /\ Cardinality(C) <= MaxParallel - Cardinality(workers)
  /\ Cardinality(C) <= MaxParallel - Cardinality(AllLive)
  /\ \A j \in 1..total : j \notin C => jobs'[j] = jobs[j]
  /\ \A j \in C : /\ SameWindow(jobs'[j], jobs[j]) /\ jobs'[j].intact = jobs[j].intact
                  /\ jobs'[j].status = "running"
  /\ fetched' = {[j |-> j, tok |-> FreshToken(j), rejected |-> FALSE] : j \in C}

\* claim_ready claims such a batch, at most one row of each session.
LEMMA ClaimIsClaim ==
  ASSUME TypeOK, ClaimReady
  PROVE  \E C : IsClaim(C)
<1>0. StoreType
  BY TypeSplit
<1>1. PICK C \in SUBSET Claimable :
       /\ IsBatch(C)
       /\ \A j \in C : \E u \in Tokens : u \notin Held(j)
       /\ jobs' = [j \in Rows |-> IF j \in C THEN Claimed(jobs[j], FreshToken(j))
                                            ELSE jobs[j]]
       /\ fetched' = {[j |-> j, tok |-> FreshToken(j), rejected |-> FALSE] : j \in C}
  BY DEF ClaimReady
<1>2. C \subseteq 1..total /\ \A j \in C : j \in Ready /\ jobs[j].status \in {"queued", "failed"}
  BY <1>0, <1>1, RowTyped DEF Claimable, Ready
<1>3. \A j \in C : FreshToken(j) \notin Held(j)
  BY <1>1 DEF FreshToken
<1>4. \A j, k \in C : jobs[j].s = jobs[k].s => j = k
  <2>1. \A j, k \in C : jobs[j].s = jobs[k].s => j <= k
    BY <1>1, <1>2 DEF Claimable
  <2>2. \A j \in C : j \in Int
    BY <1>0, <1>2 DEF StoreType
  <2>3. \A j, k \in C : jobs[j].s = jobs[k].s => j <= k /\ k <= j
    BY <2>1
  <2> QED BY <2>2, <2>3
<1>5. \A j \in C : Cardinality(Live(jobs[j].s)) < MaxPerSession
  BY <1>1 DEF Claimable
<1>6. /\ Cardinality(C) <= MaxParallel - Cardinality(workers)
      /\ Cardinality(C) <= MaxParallel - Cardinality(AllLive)
  BY <1>1 DEF IsBatch
<1>7. \A j \in 1..total : j \notin C => jobs'[j] = jobs[j]
  BY <1>0, <1>1, RowTyped
<1>8. ASSUME NEW j \in C
      PROVE  /\ SameWindow(jobs'[j], jobs[j]) /\ jobs'[j].intact = jobs[j].intact
             /\ jobs'[j].status = "running"
  <2>1. jobs[j] \in Job /\ jobs'[j] = Claimed(jobs[j], FreshToken(j))
    BY <1>0, <1>1, <1>2, RowTyped
  <2> QED BY <2>1 DEF Claimed, Job, SameWindow
<1>9. IsClaim(C)
  BY <1>1, <1>2, <1>3, <1>4, <1>5, <1>6, <1>7, <1>8 DEF IsClaim
<1> QED BY <1>9

\* The new tokens are told apart from those of every task that still runs.
LEMMA ClaimHolders ==
  ASSUME TypeOK, Holders, NEW C, IsClaim(C), workers' = workers
  PROVE  Holders' /\ IsFiniteSet(C) /\ Cardinality(C) \in Nat
<1>0. total \in Nat /\ MaxParallel \in Nat
  BY TypeSplit, ConstantsAssumption DEF StoreType
<1> DEFINE rec(j) == [j |-> j, tok |-> FreshToken(j), rejected |-> FALSE]
<1>1. fetched' = {rec(j) : j \in C}
  BY DEF IsClaim
<1>2. IsFiniteSet(C) /\ Cardinality(C) \in Nat
  <2>1. IsFiniteSet(1..total) /\ C \in SUBSET (1..total)
    BY <1>0, FS_Interval DEF IsClaim
  <2>2. IsFiniteSet(C)
    BY <2>1, FS_Subset
  <2> QED BY <2>2, FS_CardinalityType
<1>3. \A j \in C : rec(j).j = j /\ rec(j).tok = FreshToken(j)
  OBVIOUS
<1>4. \A j \in C, w \in workers : ~(w.j = j /\ w.tok = FreshToken(j))
  BY DEF IsClaim, Held
<1>5. \A w, v \in workers : w.j = v.j /\ w.tok = v.tok => w = v
  BY DEF Holders, TokensDistinct
<1>6. TokensDistinct'
  <2> SUFFICES ASSUME NEW x \in fetched' \cup workers, NEW y \in fetched' \cup workers,
                      x.j = y.j, x.tok = y.tok
               PROVE  x = y
    BY DEF TokensDistinct
  <2> HIDE DEF rec
  <2>1. CASE x \in workers /\ y \in workers
    BY <1>5, <2>1
  <2>2. CASE x \in fetched' /\ y \in fetched'
    <3>1. PICK i \in C : x = rec(i)
      BY <1>1, <2>2
    <3>2. PICK k \in C : y = rec(k)
      BY <1>1, <2>2
    <3> QED BY <1>3, <3>1, <3>2
  <2>3. CASE x \in fetched' /\ y \in workers
    <3>1. PICK i \in C : x = rec(i)
      BY <1>1, <2>3
    <3> QED BY <1>3, <1>4, <2>3, <3>1
  <2>4. CASE x \in workers /\ y \in fetched'
    <3>1. PICK i \in C : y = rec(i)
      BY <1>1, <2>4
    <3> QED BY <1>3, <1>4, <2>4, <3>1
  <2> QED BY <2>1, <2>2, <2>3, <2>4
<1>7. /\ IsFiniteSet(fetched') /\ Cardinality(fetched') <= Cardinality(C)
      /\ Cardinality(fetched') \in Nat
  <2> DEFINE f == [j \in C |-> rec(j)]
  <2>1. \A d \in fetched' : \E j \in C : d = f[j]
    BY <1>1
  <2> HIDE DEF f
  <2> QED BY <1>2, <2>1, ImageBound
<1>8. IsFiniteSet(workers) /\ Cardinality(workers) \in Nat
  BY FS_CardinalityType DEF Holders, InFlight
<1>9. Cardinality(C) <= MaxParallel - Cardinality(workers)
  BY DEF IsClaim
<1>10. Cardinality(fetched') + Cardinality(workers) <= MaxParallel
  BY <1>0, <1>2, <1>7, <1>8, <1>9
<1>11. InFlight'
  BY <1>7, <1>8, <1>10 DEF InFlight
<1> QED BY <1>2, <1>6, <1>11 DEF Holders

\* A batch fits below the caps: it adds one row at most to a session, and no
\* more rows than leases are free.
LEMMA ClaimCapacity ==
  ASSUME StoreType, StoreType', Capacity, NEW C, IsClaim(C), IsFiniteSet(C),
         Cardinality(C) \in Nat, total' = total, epoch' = epoch
  PROVE  Capacity'
<1>0. /\ AllLive \subseteq 1..total /\ IsFiniteSet(AllLive) /\ Cardinality(AllLive) \in Nat
      /\ \A s \in Sessions : IsFiniteSet(Live(s)) /\ Cardinality(Live(s)) \in Nat
  BY LiveFinite, FS_CardinalityType
<1>1. MaxParallel \in Nat /\ MaxPerSession \in Nat
  BY ConstantsAssumption
<1>2. ASSUME NEW s \in Sessions
      PROVE  Live(s)' \subseteq Live(s) \cup {j \in C : jobs[j].s = s}
  <2>1. Live(s)' = {j \in 1..total' : /\ jobs'[j].s = s /\ jobs'[j].e = epoch'[s]
                                      /\ jobs'[j].status = "running" /\ jobs'[j].lease > 0}
    BY RowTyped DEF Live, Of, StoreType
  <2>2. ASSUME NEW j \in Live(s)', j \notin C PROVE j \in Live(s)
    BY <2>1, <2>2, LiveIs DEF IsClaim
  <2>3. ASSUME NEW j \in Live(s)', j \in C PROVE jobs[j].s = s
    BY <2>1, <2>3 DEF IsClaim, SameWindow
  <2> QED BY <2>2, <2>3
<1>3. ASSUME NEW s \in Sessions PROVE Cardinality(Live(s)') <= MaxPerSession
  <2>1. CASE \A j \in C : jobs[j].s # s
    <3>1. Live(s)' \in SUBSET Live(s)
      BY <1>2, <2>1
    <3>2. Cardinality(Live(s)') <= Cardinality(Live(s)) /\ IsFiniteSet(Live(s)')
      BY <1>0, <3>1, FS_Subset
    <3>3. Cardinality(Live(s)') \in Nat /\ Cardinality(Live(s)) <= MaxPerSession
      BY <3>2, FS_CardinalityType DEF Capacity
    <3> QED BY <1>0, <1>1, <3>2, <3>3
  <2>2. ASSUME NEW j \in C, jobs[j].s = s PROVE Cardinality(Live(s)') <= MaxPerSession
    <3>1. Live(s)' \in SUBSET (Live(s) \cup {j})
      <4>1. \A k \in C : jobs[k].s = s => k = j
        BY <2>2 DEF IsClaim
      <4>2. Live(s)' \subseteq Live(s) \cup {k \in C : jobs[k].s = s}
        BY <1>2
      <4> QED BY <4>1, <4>2
    <3>2. /\ IsFiniteSet(Live(s) \cup {j})
          /\ Cardinality(Live(s) \cup {j}) \in {Cardinality(Live(s)), Cardinality(Live(s)) + 1}
      BY <1>0, FS_AddElement
    <3>3. Cardinality(Live(s)') <= Cardinality(Live(s) \cup {j}) /\ IsFiniteSet(Live(s)')
      BY <3>1, <3>2, FS_Subset
    <3>4. Cardinality(Live(s)') \in Nat
      BY <3>3, FS_CardinalityType
    <3>5. Cardinality(Live(s)) < MaxPerSession
      BY <2>2 DEF IsClaim
    <3> QED BY <1>0, <1>1, <3>2, <3>3, <3>4, <3>5
  <2> QED BY <2>1, <2>2
<1>4. Cardinality(AllLive') <= MaxParallel
  <2>1. AllLive' \in SUBSET (AllLive \cup C)
    <3>1. AllLive' = UNION {Live(s)' : s \in Sessions}
      BY DEF AllLive
    <3> QED BY <1>2, <3>1 DEF AllLive
  <2>2. /\ IsFiniteSet(AllLive \cup C) /\ Cardinality(AllLive \cup C) \in Nat
        /\ Cardinality(AllLive \cup C) <= Cardinality(AllLive) + Cardinality(C)
    <3>1. /\ IsFiniteSet(AllLive \cup C)
          /\ Cardinality(AllLive \cup C) =
               Cardinality(AllLive) + Cardinality(C) - Cardinality(AllLive \cap C)
      BY <1>0, FS_Union
    <3>2. Cardinality(AllLive \cap C) \in Nat /\ Cardinality(AllLive \cup C) \in Nat
      BY <1>0, <3>1, FS_Intersection, FS_CardinalityType
    <3> QED BY <1>0, <3>1, <3>2
  <2>3. Cardinality(AllLive') <= Cardinality(AllLive \cup C) /\ IsFiniteSet(AllLive')
    BY <2>1, <2>2, FS_Subset
  <2>4. Cardinality(AllLive') \in Nat
    BY <2>3, FS_CardinalityType
  <2>5. Cardinality(C) <= MaxParallel - Cardinality(AllLive)
    BY DEF IsClaim
  <2> QED BY <1>0, <1>1, <2>2, <2>3, <2>4, <2>5
<1> QED BY <1>3, <1>4 DEF Capacity

\* Claiming keeps the sources and disturbs no lease.
LEMMA ClaimLeases ==
  ASSUME TypeOK, TypeOK', LeaseInv, ClaimReady
  PROVE  LeaseInv' /\ LeaseKept
<1>0. StoreType /\ RestType /\ StoreType'
  BY TypeSplit, TypeSplitPrime
<1>1. PICK C : IsClaim(C)
  BY ClaimIsClaim
<1>2. /\ total' = total /\ epoch' = epoch /\ msgs' = msgs /\ quar' = quar
      /\ workers' = workers
  BY DEF ClaimReady
<1>3. Rows = 1..total /\ Rows' = 1..total
  BY <1>0, <1>2, RowTyped DEF StoreType, Rows
<1>4. Holders' /\ IsFiniteSet(C) /\ Cardinality(C) \in Nat
  BY <1>1, <1>2, ClaimHolders DEF LeaseInv
<1>5. Capacity'
  BY <1>0, <1>1, <1>2, <1>4, ClaimCapacity DEF LeaseInv
<1>6. ASSUME NEW j \in 1..total
      PROVE  /\ Current(j)' <=> Current(j)
             /\ Source(jobs'[j]) = Source(jobs[j]) /\ jobs'[j].s = jobs[j].s
             /\ jobs'[j].intact = jobs[j].intact
             /\ \/ jobs'[j].status = jobs[j].status
                \/ jobs[j].status \in {"queued", "failed"} /\ jobs'[j].status = "running"
  <2>1. CASE j \notin C
    BY <1>1, <1>2, <2>1 DEF IsClaim, Current
  <2>2. CASE j \in C
    BY <1>1, <1>2, <2>2 DEF IsClaim, Current, SameWindow, Source
  <2> QED BY <2>1, <2>2
<1>7. \A j \in 1..total : SourceKept(j) => SourceKept(j)'
  BY <1>2, <1>6 DEF SourceKept
<1>8. CancelledIsOld'
  BY <1>2, <1>6 DEF LeaseInv, Sources, CancelledIsOld
<1>9. SourcesPreserved'
  <2> SUFFICES ASSUME NEW j \in 1..total, Current(j)', jobs'[j].status \in Open
               PROVE  SourceKept(j)'
    BY <1>3 DEF SourcesPreserved, SourceKept
  <2>1. Current(j) /\ jobs[j].status \in Open
    BY <1>6 DEF Open
  <2>2. SourceKept(j)
    BY <1>3, <2>1 DEF LeaseInv, Sources, SourcesPreserved, SourceKept
  <2> QED BY <1>7, <2>2
<1>10. QuarantineSourcesKept'
  <2>1. \A j \in quar : j \in 1..total /\ SourceKept(j)
    BY <1>0 DEF RestType, LeaseInv, Sources, QuarantineSourcesKept, SourceKept
  <2> QED BY <1>2, <1>7, <2>1 DEF QuarantineSourcesKept, SourceKept
<1>11. FencedHasSource'
  <2>1. \A w \in workers : w.step = "fenced" => w.j \in 1..total /\ SourceKept(w.j)
    BY <1>0 DEF RestType, LeaseInv, Sources, FencedHasSource
  <2> QED BY <1>2, <1>7, <2>1 DEF FencedHasSource
<1>12. LeaseKept
  BY <1>0, <1>6, UndisturbedKept DEF Undisturbed
<1> QED BY <1>4, <1>5, <1>8, <1>9, <1>10, <1>11, <1>12 DEF LeaseInv, Sources

-----------------------------------------------------------------------------
(* Theorems *)

\* Every step, of whatever actor, preserves the three invariants and takes a
\* live lease from nobody but its holder.
LEMMA NextKeepsLeases ==
  ASSUME TypeOK, WindowInv, LeaseInv, [Next]_vars
  PROVE  LeaseInv' /\ LeaseKept
<1>0. StoreType /\ RestType /\ RowsSound /\ TypeOK'
  BY TypeSplit, NextPreserves DEF WindowInv
<1>o. ASSUME Ordinary, LeaseKept PROVE LeaseInv' /\ LeaseKept
  BY <1>0, <1>o, OrdinaryKeeps
<1>1. CASE UNCHANGED vars
  <2>1. Ordinary /\ LeaseKept
    BY <1>0, <1>1, SameRowsFollow, SameSourcesFollow, EndFollows, UndisturbedKept
       DEF vars, store, Ordinary
  <2> QED BY <1>o, <2>1
<1>2. ASSUME NEW s \in Sessions, SessionStep(s) PROVE LeaseInv' /\ LeaseKept
  <2>1. CASE ClearSession(s)
    BY <1>0, <2>1, NewEpochLeases
  <2>2. CASE AddMessage(s) \/ ReadContext(s)
    BY <1>o, <2>2, MessageOrdinary
  <2>3. CASE TrimIfSafe(s)
    BY <1>0, <2>3, TrimStep
  <2>4. CASE EditMessage(s)
    BY <1>o, <2>4, EditOrdinary
  <2>5. CASE DeleteMessage(s)
    BY <1>0, <2>5, DeleteStep
  <2>6. CASE ConfirmAbandon(s)
    BY <1>o, <2>6, AbandonOrdinary
  <2> QED BY <1>2, <2>1, <2>2, <2>3, <2>4, <2>5, <2>6 DEF SessionStep
<1>3. CASE \E r \in reqs : Plan(r)
  BY <1>0, <1>3, PlanLeases
<1>4. CASE LoopStep
  <2>1. CASE LoopRecover
    BY <1>o, <2>1, RecoverOrdinary
  <2>2. CASE ClaimReady
    BY <1>0, <2>2, ClaimLeases
  <2>3. CASE Register
    BY <1>0, <2>3, RegisterLeases
  <2>4. CASE \E c \in fetched : RequeueRejected(c)
    BY <1>o, <2>4, GiveBackOrdinary
  <2> QED BY <1>4, <2>1, <2>2, <2>3, <2>4 DEF LoopStep
<1>5. CASE Tick
  BY <1>o, <1>5, TickOrdinary
<1>6. CASE StartStep \/ Pause \/ Crash
  <2>1. CASE StartRecover
    BY <1>o, <2>1, RecoverOrdinary
  <2>2. CASE StartReconcile
    BY <1>0, <1>o, <2>2, ReconcileOrdinary
  <2>3. CASE StartPlan
    BY <1>0, <2>3, PlanLeases
  <2>4. CASE Pause \/ Stopped \/ Crash \/ Start \/ Started
    BY <1>o, <2>4, PhaseOrdinary
  <2> QED BY <1>6, <2>1, <2>2, <2>3, <2>4 DEF StartStep
<1>7. CASE DeleteOldSessions
  BY <1>0, <1>7, NewEpochLeases
<1>8. ASSUME NEW w \in workers,
             WorkerStep(w) \/ Renew(w) \/ LoseWorker(w) \/ CancelFencedWorker(w)
      PROVE  LeaseInv' /\ LeaseKept
  <2>1. CASE ReadSource(w) \/ Extract(w) \/ BuildOutcome(w) \/ LoseWorker(w)
    BY <1>o, <2>1, ThinkingOrdinary
  <2>2. CASE EnterFence(w) \/ RunSideEffect(w)
    BY <1>0, <2>2, FenceStep
  <2>3. CASE BeginCandidateIntents(w) \/ ReconcileOwners(w) \/ BeginCandidateWrites(w)
    BY <1>o, <2>3, LedgerStepOrdinary
  <2>4. CASE CommitWindow(w) \/ FailWindow(w)
    BY <1>o, <2>4, CloseOrdinary
  <2>5. CASE CancelWorker(w) \/ CancelFencedWorker(w)
    BY <1>o, <2>5, GiveBackOrdinary
  <2>6. CASE Renew(w)
    BY <1>o, <2>6, RenewOrdinary
  <2> QED BY <1>8, <2>1, <2>2, <2>3, <2>4, <2>5, <2>6 DEF WorkerStep
<1>9. CASE \E j \in quar : ReviewQuarantine(j)
  BY <1>o, <1>9, MessageOrdinary
<1> QED BY <1>1, <1>2, <1>3, <1>4, <1>5, <1>6, <1>7, <1>8, <1>9 DEF Next

\* Nothing is claimed, quarantined or planned at first.
LEMMA InitLeases == Init => LeaseInv
<1> SUFFICES ASSUME Init PROVE LeaseInv
  OBVIOUS
<1>1. fetched = {} /\ workers = {} /\ quar = {} /\ 1..total = {} /\ Rows = {}
  BY DEF Init, Rows
<1>2. IsFiniteSet({}) /\ Cardinality({}) = 0
  BY FS_EmptySet
<1>3. Holders
  BY <1>1, <1>2, ConstantsAssumption DEF Holders, TokensDistinct, InFlight
<1>4. Capacity
  <2>1. AllLive = {} /\ \A s \in Sessions : Live(s) = {}
    BY <1>1 DEF AllLive, Live, Of, Rows
  <2> QED BY <1>2, <2>1, ConstantsAssumption DEF Capacity
<1>5. Sources
  BY <1>1 DEF Sources, CancelledIsOld, SourcesPreserved, QuarantineSourcesKept, FencedHasSource
<1> QED BY <1>3, <1>4, <1>5 DEF LeaseInv

\* What the three invariants say about holders and caps.
LEMMA LeaseConsequences ==
  ASSUME LeaseInv
  PROVE  OneLiveHolder /\ ParallelCaps /\ SourcesPreserved /\ QuarantineSourcesKept
<1>1. OneLiveHolder
  BY DEF LeaseInv, Holders, TokensDistinct, OneLiveHolder, Matches
<1>2. Cardinality(workers) <= MaxParallel
  <2>1. /\ Cardinality(workers) \in Nat /\ Cardinality(fetched) \in Nat
        /\ Cardinality(fetched) + Cardinality(workers) <= MaxParallel
    BY FS_CardinalityType DEF LeaseInv, Holders, InFlight
  <2> QED BY <2>1, ConstantsAssumption
<1> QED BY <1>1, <1>2 DEF LeaseInv, Capacity, ParallelCaps, Sources

\* The inductive invariant of the module holds throughout.
THEOREM LeaseInvariance == Spec => [](TypeOK /\ WindowInv /\ LeaseInv)
<1>1. Init => TypeOK /\ WindowInv /\ LeaseInv
  BY InitHolds, InitLeases
<1>2. TypeOK /\ WindowInv /\ LeaseInv /\ [Next]_vars => (TypeOK /\ WindowInv /\ LeaseInv)'
  BY NextPreserves, NextKeepsLeases
<1> QED BY <1>1, <1>2, PTL DEF Spec

\* Of all tasks that once claimed a row at most one passes the fence of
\* _claim_matches, whatever leases expire and are recovered meanwhile.
THEOREM SingleHolder == Spec => []OneLiveHolder
<1>1. TypeOK /\ WindowInv /\ LeaseInv => OneLiveHolder
  BY LeaseConsequences
<1> QED BY <1>1, LeaseInvariance, PTL

\* Workers and live leases stay within the configured parallelism, claims that
\* are fetched and not yet registered included.
THEOREM CapsRespected == Spec => []ParallelCaps
<1>1. TypeOK /\ WindowInv /\ LeaseInv => ParallelCaps
  BY LeaseConsequences
<1> QED BY <1>1, LeaseInvariance, PTL

\* No trim and no clear takes a message that an open window of the current
\* epoch still needs.
THEOREM OpenSourcesKept == Spec => []SourcesPreserved
<1>1. TypeOK /\ WindowInv /\ LeaseInv => SourcesPreserved
  BY LeaseConsequences
<1> QED BY <1>1, LeaseInvariance, PTL

\* A candidate staged under the source lock keeps its epoch and its source
\* until it is reviewed.
THEOREM QuarantineChecked == Spec => []QuarantineSourcesKept
<1>1. TypeOK /\ WindowInv /\ LeaseInv => QuarantineSourcesKept
  BY LeaseConsequences
<1> QED BY <1>1, LeaseInvariance, PTL

\* While the scheduler is up, a live lease ends with its holder or with the
\* epoch of its session, and in no other way.
THEOREM LeaseExclusion == Spec => LeaseIsExclusive
<1>1. TypeOK /\ WindowInv /\ LeaseInv /\ [Next]_vars =>
        [\A j \in Rows :
           /\ phase = "up" /\ jobs[j].status = "running" /\ jobs[j].lease > 0
           /\ jobs'[j].status # "running"
           => \/ epoch'[jobs[j].s] # epoch[jobs[j].s]
              \/ \E c \in fetched \cup workers :
                   c.j = j /\ c.tok = jobs[j].tok
                   /\ \/ c \notin fetched' \cup workers'
                      \/ c \in workers /\ c.step = "owners"]_vars
  BY NextKeepsLeases DEF LeaseKept
<1> QED BY <1>1, LeaseInvariance, PTL DEF Spec, LeaseIsExclusive
=============================================================================
