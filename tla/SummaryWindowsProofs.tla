----------------------- MODULE SummaryWindowsProofs -----------------------
(***************************************************************************)
(* Proofs about SummaryWindows for every value of its constants.           *)
(*                                                                         *)
(* A step of the store is one of three kinds: a quiet step, which changes  *)
(* no window and reopens none, and moves a cursor only the way             *)
(* _advance_cursor does; an Enqueue, which appends windows at the          *)
(* frontier; and a NewEpoch, which fences a session.  Each action is shown *)
(* to be of one kind, and each kind to preserve the window invariant.      *)
(***************************************************************************)
EXTENDS SummaryWindows, TLAPS

-----------------------------------------------------------------------------
(* Window arithmetic *)

\* Multiples of the window size grow with the factor.
LEMMA ScaleMonotone ==
  ASSUME NEW a \in Int, NEW b \in Int, a <= b
  PROVE  a * WindowSize <= b * WindowSize
  BY ConstantsAssumption

\* FullWindows is the number of full windows that fit.
LEMMA FullFit ==
  ASSUME NEW f \in Nat, NEW obs \in Nat, f <= obs
  PROVE  /\ FullWindows(f, obs) \in Nat
         /\ FullWindows(f, obs) * WindowSize <= obs - f
         /\ obs - f < FullWindows(f, obs) * WindowSize + WindowSize
  BY ConstantsAssumption DEF FullWindows

\* Each new window is non-empty and lies between the frontier and the high
\* water, and consecutive ones touch.
LEMMA WindowBounds ==
  ASSUME NEW f \in Nat, NEW obs \in Nat, f <= obs,
         NEW k \in 1..NewWindows(f, obs)
  PROVE  /\ WindowStart(f, k) \in Nat /\ WindowEnd(f, obs, k) \in Nat
         /\ f <= WindowStart(f, k)
         /\ WindowStart(f, k) < WindowEnd(f, obs, k)
         /\ WindowEnd(f, obs, k) <= obs
         /\ NewWindows(f, obs) \in Nat
<1> DEFINE n == FullWindows(f, obs)
<1>1. n \in Nat /\ n * WindowSize <= obs - f
  BY FullFit
<1>2. NewWindows(f, obs) \in {n, n + 1} /\ k \in Nat /\ k >= 1 /\ k <= n + 1
  BY <1>1 DEF NewWindows
<1>3. /\ (k - 1) * WindowSize <= n * WindowSize
      /\ 0 * WindowSize <= (k - 1) * WindowSize
  BY <1>1, <1>2, ScaleMonotone
<1>4. k * WindowSize = (k - 1) * WindowSize + WindowSize
  BY <1>2, ConstantsAssumption
<1>5. (k - 1) * WindowSize \in Nat /\ k * WindowSize \in Nat
  BY <1>2, ConstantsAssumption
<1>6. CASE k <= n
  <2>1. k * WindowSize <= n * WindowSize
    BY <1>6, <1>1, <1>2, ScaleMonotone
  <2> QED BY <2>1, <1>1, <1>2, <1>3, <1>4, <1>5, <1>6, ConstantsAssumption
       DEF WindowStart, WindowEnd
<1>7. CASE k = n + 1
  <2>1. (obs - f) - n * WindowSize >= 2
    BY <1>1, <1>2, <1>7 DEF NewWindows
  <2> QED BY <2>1, <1>1, <1>2, <1>3, <1>5, <1>7, ConstantsAssumption
       DEF WindowStart, WindowEnd
<1> QED BY <1>1, <1>2, <1>6, <1>7

\* A later window starts where an earlier one has ended.
LEMMA WindowsOrdered ==
  ASSUME NEW f \in Nat, NEW obs \in Nat, f <= obs,
         NEW i \in 1..NewWindows(f, obs), NEW k \in 1..NewWindows(f, obs), i < k
  PROVE  WindowEnd(f, obs, i) <= WindowStart(f, k)
<1> DEFINE n == FullWindows(f, obs)
<1>1. n \in Nat /\ NewWindows(f, obs) \in {n, n + 1}
  BY FullFit DEF NewWindows
<1>2. i \in Nat /\ k \in Nat /\ i <= n /\ i <= k - 1
  BY <1>1
<1>3. i * WindowSize <= (k - 1) * WindowSize
  BY <1>2, ScaleMonotone
<1>4. i * WindowSize \in Int /\ (k - 1) * WindowSize \in Int
  BY <1>2, ConstantsAssumption
<1> QED BY <1>2, <1>3, <1>4 DEF WindowStart, WindowEnd

\* Where the new windows stop: the frontier they leave behind.
NewFrontier(f, obs) ==
  IF NewWindows(f, obs) = 0 THEN f ELSE WindowEnd(f, obs, NewWindows(f, obs))

\* Every message up to the new frontier lies in one of the new windows.
LEMMA WindowsCover ==
  ASSUME NEW f \in Nat, NEW obs \in Nat, f <= obs,
         NEW q \in (f + 1)..NewFrontier(f, obs)
  PROVE  \E k \in 1..NewWindows(f, obs) :
           WindowStart(f, k) < q /\ q <= WindowEnd(f, obs, k)
<1> DEFINE n == FullWindows(f, obs)
<1> DEFINE m == NewWindows(f, obs)
<1> DEFINE d == (q - f - 1) \div WindowSize
<1>1. n \in Nat /\ m \in {n, n + 1} /\ WindowSize \in Nat /\ WindowSize >= 2
  BY FullFit, ConstantsAssumption DEF NewWindows
<1>2. m # 0 /\ m \in Nat /\ m >= 1
  BY <1>1 DEF NewFrontier
<1>3. NewFrontier(f, obs) = WindowEnd(f, obs, m) /\ WindowEnd(f, obs, m) \in Nat
      /\ WindowEnd(f, obs, m) <= obs
  BY <1>2, WindowBounds DEF NewFrontier
<1>4. q \in Nat /\ q >= f + 1 /\ q <= WindowEnd(f, obs, m) /\ q <= obs
  BY <1>3
<1>5. d \in Nat /\ d * WindowSize <= q - f - 1 /\ q - f - 1 < d * WindowSize + WindowSize
  BY <1>1, <1>4
<1> HIDE DEF d
<1>6. (d + 1) * WindowSize = d * WindowSize + WindowSize /\ d * WindowSize \in Nat
  BY <1>1, <1>5
<1>7. d + 1 <= m
  <2>1. CASE d < n
    BY <2>1, <1>1, <1>5
  <2>2. CASE d >= n
    <3>1. n * WindowSize <= d * WindowSize /\ n * WindowSize \in Nat
      BY <2>2, <1>1, <1>5, ScaleMonotone
    <3>2. CASE m = n
      BY <3>1, <3>2, <1>1, <1>4, <1>5, <1>6 DEF WindowEnd
    <3>3. CASE m = n + 1
      <4>1. obs - f < n * WindowSize + WindowSize
        BY FullFit
      <4>2. d * WindowSize < (n + 1) * WindowSize
        BY <4>1, <1>1, <1>4, <1>5
      <4>3. d < n + 1
        <5>1. CASE d >= n + 1
          BY <5>1, <4>2, <1>1, <1>5, <1>6, ScaleMonotone
        <5> QED BY <5>1, <1>1, <1>5
      <4> QED BY <4>3, <3>3, <1>1, <1>5
    <3> QED BY <3>2, <3>3, <1>1
  <2> QED BY <2>1, <2>2, <1>1, <1>5
<1>8. WindowStart(f, d + 1) < q
  BY <1>4, <1>5, <1>6 DEF WindowStart
<1>9. q <= WindowEnd(f, obs, d + 1)
  BY <1>1, <1>4, <1>5, <1>6 DEF WindowEnd
<1> QED BY <1>2, <1>5, <1>7, <1>8, <1>9

-----------------------------------------------------------------------------
(* The window invariant *)

\* Windows are non-empty and of an epoch that has begun; a closed row has a
\* closed ledger.
RowsSound ==
  \A j \in 1..total :
    /\ jobs[j].start < jobs[j].end
    /\ jobs[j].e <= epoch[jobs[j].s]
    /\ jobs[j].status \in Done => jobs[j].led \in {"none", "closed"}

WindowInv == /\ RowsSound /\ WindowsDisjoint /\ CursorCovered /\ CursorTight
             /\ FrontierDefined

\* The typing facts the window invariant needs.
StoreType ==
  /\ epoch \in [Sessions -> 1..MaxEpoch]
  /\ cursor \in [Sessions -> 0..MaxSeq]
  /\ total \in Nat /\ jobs \in [1..total -> Job]

SameWindow(a, b) == a.s = b.s /\ a.e = b.e /\ a.start = b.start /\ a.end = b.end

\* A step that changes no window, reopens none, and moves a cursor only over
\* closed windows; where it does not, it closes none.
Quiet ==
  /\ total' = total /\ epoch' = epoch
  /\ \A j \in 1..total :
       /\ SameWindow(jobs'[j], jobs[j])
       /\ jobs[j].status \in Done => jobs'[j].status = jobs[j].status
       /\ jobs'[j].status \in Done => jobs'[j].led \in {"none", "closed"}
  /\ \A s \in Sessions :
       \/ StopsAt(jobs', s, epoch[s], cursor[s], cursor'[s])
       \/ /\ cursor'[s] = cursor[s]
          /\ \A j \in 1..total :
               jobs[j].s = s /\ jobs[j].e = epoch[s] /\ jobs'[j].status \in Done
                 => jobs[j].status \in Done

\* A quiet step preserves the window invariant.
LEMMA QuietPreserves ==
  ASSUME StoreType, StoreType', WindowInv, Quiet
  PROVE  WindowInv'
<1>0. /\ DOMAIN jobs = 1..total /\ DOMAIN jobs' = 1..total
      /\ \A s \in Sessions : Of(jobs', s, epoch'[s]) = Of(jobs, s, epoch[s])
      /\ \A s \in Sessions : Of(jobs', s, epoch[s]) = Of(jobs, s, epoch[s])
  BY DEF Quiet, SameWindow, Of, StoreType
<1>t. /\ \A s \in Sessions : cursor[s] \in 0..MaxSeq /\ cursor'[s] \in 0..MaxSeq
      /\ \A j \in 1..total : jobs[j].start \in Nat /\ jobs[j].end \in Nat
      /\ MaxSeq \in Nat
  <2>1. \A j \in 1..total : jobs[j] \in Job
    BY DEF StoreType
  <2>2. MaxSeq \in Nat
    BY ConstantsAssumption
  <2>3. \A j \in 1..total : jobs[j].start \in 0..MaxSeq /\ jobs[j].end \in 0..MaxSeq
    BY <2>1 DEF Job
  <2> QED BY <2>2, <2>3 DEF StoreType
<1>w. \A j \in 1..total : SameWindow(jobs'[j], jobs[j])
  BY DEF Quiet
<1>1. RowsSound'
  BY <1>w DEF WindowInv, RowsSound, Quiet, SameWindow
<1>2. WindowsDisjoint'
  BY <1>0, <1>w DEF WindowInv, WindowsDisjoint, SameWindow, Rows
<1>3. ASSUME NEW s \in Sessions PROVE cursor'[s] >= cursor[s]
  BY <1>t DEF Quiet, StopsAt
<1>4. CursorCovered'
  <2> SUFFICES ASSUME NEW s \in Sessions, NEW q \in 1..cursor'[s]
               PROVE  \E j \in Of(jobs', s, epoch'[s]) :
                        jobs'[j].status \in Done /\ Covers(jobs'[j], q)
    BY DEF CursorCovered
  <2>1. CASE q <= cursor[s]
    <3>1. PICK j \in Of(jobs, s, epoch[s]) :
                 jobs[j].status \in Done /\ Covers(jobs[j], q)
      BY <2>1, <1>t DEF WindowInv, CursorCovered
    <3> QED BY <3>1, <1>0, <1>w DEF Quiet, SameWindow, Covers, Of
  <2>2. CASE q > cursor[s]
    <3>1. StopsAt(jobs', s, epoch[s], cursor[s], cursor'[s])
      BY <2>2, <1>t DEF Quiet
    <3>2. q \in (cursor[s] + 1)..cursor'[s]
      BY <2>2, <1>t
    <3> QED BY <3>1, <3>2 DEF StopsAt, Quiet
  <2> QED BY <2>1, <2>2, <1>t
<1>5. CursorTight'
  <2> SUFFICES ASSUME NEW s \in Sessions, NEW j \in Of(jobs', s, epoch'[s]),
                      jobs'[j].status \in Done
               PROVE  jobs'[j].start # cursor'[s]
    BY DEF CursorTight
  <2>1. j \in Of(jobs, s, epoch[s]) /\ j \in Of(jobs', s, epoch[s])
    BY <1>0
  <2>2. CASE StopsAt(jobs', s, epoch[s], cursor[s], cursor'[s])
    BY <2>1, <2>2 DEF StopsAt
  <2>3. CASE cursor'[s] = cursor[s] /\ jobs[j].status \in Done
    BY <2>1, <2>3, <1>0, <1>w DEF WindowInv, CursorTight, SameWindow, Of
  <2> QED BY <2>1, <2>2, <2>3, <1>0 DEF Quiet, Of
<1>6. FrontierDefined'
  <2> SUFFICES ASSUME NEW s \in Sessions
               PROVE  \E f \in 0..MaxSeq : FrontierAt(s, f)'
    BY DEF FrontierDefined
  <2>1. PICK f \in 0..MaxSeq : FrontierAt(s, f)
    BY DEF WindowInv, FrontierDefined
  <2> DEFINE W == Of(jobs, s, epoch[s])
  <2> DEFINE c == cursor[s]
  <2> DEFINE t == cursor'[s]
  <2>2. \A j \in W : /\ jobs[j].start \in Nat /\ jobs[j].end \in Nat
                     /\ jobs'[j].start = jobs[j].start /\ jobs'[j].end = jobs[j].end
                     /\ jobs[j].start < jobs[j].end
    BY <1>0, <1>t, <1>w DEF Of, SameWindow, WindowInv, RowsSound
  <2>f. /\ f >= c
        /\ \A j \in W : jobs[j].end > c => c <= jobs[j].start /\ jobs[j].end <= f
        /\ \A q \in (c + 1)..f : \E j \in W :
              Covers(jobs[j], q) /\ \A k \in W : Covers(jobs[k], q) => k = j
    BY <2>1 DEF FrontierAt
  <2>g. SUFFICES
           /\ f >= t
           /\ \A j \in W : jobs[j].end > t => t <= jobs[j].start /\ jobs[j].end <= f
           /\ \A q \in (t + 1)..f : \E j \in W :
                 Covers(jobs[j], q) /\ \A k \in W : Covers(jobs[k], q) => k = j
    <3>1. Of(jobs', s, epoch'[s]) = W
      BY <1>0
    <3>2. \A j \in W, q \in Int : Covers(jobs'[j], q) <=> Covers(jobs[j], q)
      BY <2>2 DEF Covers
    <3>3. FrontierAt(s, f)'
      BY <2>g, <3>1, <3>2, <2>2, <1>t DEF FrontierAt
    <3> QED BY <3>3
  <2> HIDE DEF W, c, t
  <2>5. c \in Nat /\ t \in Nat /\ f \in Nat
    BY <1>t DEF c, t
  <2>3. CASE t = c
    BY <2>3, <2>f
  <2>4. CASE t > c
    <3>1. StopsAt(jobs', s, epoch[s], c, t)
      BY <2>4, <2>5 DEF Quiet, c, t
    <3>2. t \in (c + 1)..t
      BY <2>4, <2>5
    <3>3. PICK d \in W : Covers(jobs[d], t) /\ jobs[d].end <= t
      BY <3>1, <3>2, <2>2, <1>0 DEF StopsAt, Covers, W
    <3>4. jobs[d].end = t /\ jobs[d].end <= f
      BY <3>3, <2>f, <2>2, <2>4, <2>5 DEF Covers
    <3>5. ASSUME NEW j \in W, jobs[j].end > t
          PROVE  t <= jobs[j].start /\ jobs[j].end <= f
      <4>1. jobs[j].end <= f
        BY <3>5, <2>f, <2>2, <2>4, <2>5
      <4>2. jobs[j].end <= jobs[d].start \/ jobs[d].end <= jobs[j].start
        <5>1. j # d /\ j \in Rows /\ d \in Rows /\ jobs[j].s = jobs[d].s /\ jobs[j].e = jobs[d].e
          BY <3>4, <3>5, <2>2, <2>5, <1>0 DEF W, Of, Rows
        <5> QED BY <5>1 DEF WindowInv, WindowsDisjoint
      <4> QED BY <4>1, <4>2, <3>4, <3>5, <2>2, <2>5
    <3>6. \A q \in (t + 1)..f : q \in (c + 1)..f
      BY <2>4, <2>5
    <3> QED BY <3>4, <3>5, <3>6, <2>f
  <2> QED BY <2>3, <2>4, <2>5, <1>3 DEF c, t
<1> QED BY <1>1, <1>2, <1>4, <1>5, <1>6 DEF WindowInv

\* Appending the windows planned at the frontier preserves it: the cursor stays,
\* for no new window is closed, and the frontier moves to the last new window.
LEMMA EnqueuePreserves ==
  ASSUME StoreType, StoreType', WindowInv,
         NEW s \in Sessions, NEW f \in 0..MaxSeq, NEW obs \in 0..MaxSeq,
         f <= obs, FrontierAt(s, f), Enqueue(s, f, obs)
  PROVE  WindowInv'
<1> DEFINE m == NewWindows(f, obs)
<1> DEFINE e == epoch[s]
<1> DEFINE ws(k) == WindowStart(f, k)
<1> DEFINE we(k) == WindowEnd(f, obs, k)
<1>n. MaxSeq \in Nat /\ f \in Nat /\ obs \in Nat /\ total \in Nat
  BY ConstantsAssumption DEF StoreType
<1>m. m \in Nat
  BY <1>n, FullFit DEF NewWindows
<1>b. \A k \in 1..m : /\ ws(k) \in Nat /\ we(k) \in Nat /\ f <= ws(k)
                      /\ ws(k) < we(k) /\ we(k) <= obs
  BY <1>n, WindowBounds
<1>o. \A i, k \in 1..m : i < k => we(i) <= ws(k)
  BY <1>n, WindowsOrdered
<1>c. \A q \in (f + 1)..NewFrontier(f, obs) : \E k \in 1..m : ws(k) < q /\ q <= we(k)
  BY <1>n, WindowsCover
<1>v. NewFrontier(f, obs) = IF m = 0 THEN f ELSE we(m)
  BY DEF NewFrontier
<1>d. total' = total + m /\ epoch' = epoch
      /\ DOMAIN jobs = 1..total /\ DOMAIN jobs' = 1..(total + m)
  BY DEF Enqueue, StoreType
<1>j. jobs' = [j \in 1..(total + m) |->
                  IF j <= total THEN jobs[j] ELSE NewJob(s, ws(j - total), we(j - total))]
  BY DEF Enqueue, StoreJobs
<1>p. \A j \in 1..total : jobs'[j] = jobs[j]
  BY <1>j, <1>n, <1>m
<1>q. \A k \in 1..m : /\ total + k \in 1..(total + m)
                      /\ jobs'[total + k].s = s /\ jobs'[total + k].e = e
                      /\ jobs'[total + k].start = ws(k) /\ jobs'[total + k].end = we(k)
                      /\ jobs'[total + k].status \notin Done
  <2> TAKE k \in 1..m
  <2>1. total + k \in 1..(total + m) /\ ~(total + k <= total) /\ (total + k) - total = k
    BY <1>n, <1>m
  <2>2. jobs'[total + k] = NewJob(s, ws(k), we(k))
    BY <1>j, <2>1
  <2> QED BY <2>1, <2>2 DEF NewJob, Done
<1>r. \A j \in 1..(total + m) : j \in 1..total \/ \E k \in 1..m : j = total + k
  <2> SUFFICES ASSUME NEW j \in 1..(total + m), j \notin 1..total
               PROVE  \E k \in 1..m : j = total + k
    OBVIOUS
  <2>1. j - total \in 1..m /\ j = total + (j - total)
    BY <1>n, <1>m
  <2> QED BY <2>1
<1>x. StopsAt(jobs', s, e, cursor[s], cursor'[s])
      /\ \A r \in Sessions : r # s => cursor'[r] = cursor[r]
  BY DEF Enqueue, StoreJobs
<1>F. /\ f >= cursor[s]
      /\ \A j \in Of(jobs, s, e) : jobs[j].end > cursor[s] =>
                   cursor[s] <= jobs[j].start /\ jobs[j].end <= f
      /\ \A q \in (cursor[s] + 1)..f :
            \E j \in Of(jobs, s, e) : Covers(jobs[j], q)
  BY DEF FrontierAt
<1> HIDE DEF m, e, ws, we
<1>t. /\ \A r \in Sessions : cursor[r] \in Nat /\ cursor'[r] \in Nat
      /\ \A j \in 1..total : jobs[j].start \in Nat /\ jobs[j].end \in Nat
      /\ \A j \in 1..(total + m) : jobs'[j].start \in Nat /\ jobs'[j].end \in Nat
  <2>1. \A j \in 1..total : jobs[j] \in Job
    BY DEF StoreType
  <2>2. \A j \in 1..total : jobs[j].start \in 0..MaxSeq /\ jobs[j].end \in 0..MaxSeq
    BY <2>1 DEF Job
  <2>3. \A j \in 1..total : jobs[j].start \in Nat /\ jobs[j].end \in Nat
    BY <2>2, <1>n
  <2>4. \A r \in Sessions : cursor[r] \in Nat /\ cursor'[r] \in Nat
    BY <1>n DEF StoreType
  <2>5. \A j \in 1..(total + m) : jobs'[j].start \in Nat /\ jobs'[j].end \in Nat
    BY <2>3, <1>p, <1>q, <1>r, <1>b
  <2> QED BY <2>3, <2>4, <2>5
<1>y. cursor'[s] = cursor[s]
  <2>1. SUFFICES ASSUME cursor'[s] # cursor[s] PROVE FALSE
    OBVIOUS
  <2>2. cursor[s] + 1 \in (cursor[s] + 1)..cursor'[s]
    BY <2>1, <1>x, <1>t DEF StopsAt
  <2>3. PICK j \in Of(jobs', s, e) : /\ jobs'[j].status \in Done
                                     /\ Covers(jobs'[j], cursor[s] + 1)
                                     /\ cursor[s] <= jobs'[j].start
    BY <2>2, <1>x DEF StopsAt
  <2>4. j \in 1..total /\ jobs'[j] = jobs[j]
    BY <2>3, <1>p, <1>q, <1>r, <1>d DEF Of
  <2>5. jobs[j].start = cursor[s]
    BY <2>3, <2>4, <1>t DEF Covers
  <2>6. j \in Of(jobs, s, e)
    BY <2>3, <2>4, <1>d DEF Of
  <2> QED BY <2>3, <2>4, <2>5, <2>6 DEF WindowInv, CursorTight, e
<1>z. \A r \in Sessions : cursor'[r] = cursor[r]
  BY <1>x, <1>y
<1>h. /\ \A r \in Sessions : \A j \in 1..total :
            j \in Of(jobs', r, epoch'[r]) <=> j \in Of(jobs, r, epoch[r])
      /\ \A r \in Sessions : Of(jobs, r, epoch[r]) \subseteq 1..total
      /\ \A r \in Sessions : r # s => Of(jobs', r, epoch'[r]) = Of(jobs, r, epoch[r])
  <2>0. \A j \in 1..total : j \in 1..(total + m)
    BY <1>n, <1>m
  <2>1. \A r \in Sessions : \A j \in 1..total :
            j \in Of(jobs', r, epoch'[r]) <=> j \in Of(jobs, r, epoch[r])
    BY <2>0, <1>d, <1>p DEF Of
  <2>2. \A r \in Sessions : Of(jobs, r, epoch[r]) \subseteq 1..total
    BY <1>d DEF Of
  <2>3. \A r \in Sessions : r # s => Of(jobs', r, epoch'[r]) \subseteq 1..total
    BY <1>d, <1>q, <1>r DEF Of
  <2> QED BY <2>1, <2>2, <2>3
<1>k. ASSUME NEW j \in 1..total, jobs[j].s = s, jobs[j].e = e PROVE jobs[j].end <= f
  <2>1. j \in Of(jobs, s, e)
    BY <1>k, <1>d DEF Of
  <2> QED BY <2>1, <1>F, <1>t, <1>n
<1>1. RowsSound'
  <2>1. \A j \in 1..total : jobs'[j].start < jobs'[j].end /\ jobs'[j].e <= epoch'[jobs'[j].s]
            /\ (jobs'[j].status \in Done => jobs'[j].led \in {"none", "closed"})
    BY <1>p, <1>d DEF WindowInv, RowsSound
  <2>2. e \in Int
    BY ConstantsAssumption DEF StoreType, e
  <2>3. \A k \in 1..m : /\ jobs'[total + k].start < jobs'[total + k].end
                        /\ jobs'[total + k].e <= epoch'[jobs'[total + k].s]
                        /\ jobs'[total + k].status \notin Done
    BY <2>2, <1>q, <1>b, <1>d DEF e
  <2> QED BY <2>1, <2>3, <1>r, <1>d DEF RowsSound
<1>2. WindowsDisjoint'
  <2> SUFFICES ASSUME NEW i \in 1..(total + m), NEW j \in 1..(total + m),
                      i # j, jobs'[i].s = jobs'[j].s, jobs'[i].e = jobs'[j].e
               PROVE  jobs'[i].end <= jobs'[j].start \/ jobs'[j].end <= jobs'[i].start
    BY <1>d DEF WindowsDisjoint, Rows
  <2>1. CASE i \in 1..total /\ j \in 1..total
    BY <2>1, <1>p, <1>d DEF WindowInv, WindowsDisjoint, Rows
  <2>2. ASSUME NEW a \in 1..total, NEW k \in 1..m, jobs'[a].s = s, jobs'[a].e = e
        PROVE  jobs'[a].end <= jobs'[total + k].start
    BY <2>2, <1>k, <1>p, <1>q, <1>b, <1>t, <1>n
  <2>3. CASE i \in 1..total /\ \E k \in 1..m : j = total + k
    BY <2>3, <2>2, <1>q
  <2>4. CASE j \in 1..total /\ \E k \in 1..m : i = total + k
    BY <2>4, <2>2, <1>q
  <2>5. CASE (\E k \in 1..m : i = total + k) /\ \E k \in 1..m : j = total + k
    <3>1. PICK a \in 1..m : i = total + a
      BY <2>5
    <3>2. PICK b \in 1..m : j = total + b
      BY <2>5
    <3>3. a < b \/ b < a
      BY <3>1, <3>2, <1>n, <1>m
    <3> QED BY <3>1, <3>2, <3>3, <1>o, <1>q
  <2> QED BY <2>1, <2>3, <2>4, <2>5, <1>r
<1>3. CursorCovered'
  <2> SUFFICES ASSUME NEW r \in Sessions, NEW q \in 1..cursor[r]
               PROVE  \E j \in Of(jobs', r, epoch'[r]) :
                        jobs'[j].status \in Done /\ Covers(jobs'[j], q)
    BY <1>z DEF CursorCovered
  <2>1. PICK j \in Of(jobs, r, epoch[r]) : jobs[j].status \in Done /\ Covers(jobs[j], q)
    BY DEF WindowInv, CursorCovered
  <2> QED BY <2>1, <1>h, <1>p
<1>4. CursorTight'
  <2> SUFFICES ASSUME NEW r \in Sessions, NEW j \in Of(jobs', r, epoch'[r]),
                      jobs'[j].status \in Done
               PROVE  jobs'[j].start # cursor[r]
    BY <1>z DEF CursorTight
  <2>1. j \in 1..(total + m)
    BY <1>d DEF Of
  <2>2. j \in 1..total
    BY <2>1, <1>q, <1>r
  <2> QED BY <2>2, <1>h, <1>p DEF WindowInv, CursorTight
<1>5. FrontierDefined'
  <2> DEFINE g == NewFrontier(f, obs)
  <2>g. g \in Nat /\ f <= g /\ g <= obs /\ g \in 0..MaxSeq
        /\ \A k \in 1..m : we(k) <= g
    <3>1. CASE m = 0
      BY <3>1, <1>v, <1>n
    <3>2. CASE m # 0
      <4>1. m \in 1..m /\ g = we(m)
        BY <3>2, <1>v, <1>m
      <4>2. \A k \in 1..m : k = m \/ k < m
        BY <1>m
      <4>3. \A k \in 1..m : we(k) <= g
        BY <4>1, <4>2, <1>o, <1>b
      <4> QED BY <4>1, <4>3, <1>b, <1>n
    <3> QED BY <3>1, <3>2
  <2> HIDE DEF g
  <2> SUFFICES ASSUME NEW r \in Sessions
               PROVE  \E h \in 0..MaxSeq : FrontierAt(r, h)'
    BY DEF FrontierDefined
  <2>1. CASE r # s
    <3>1. PICK h \in 0..MaxSeq : FrontierAt(r, h)
      BY DEF WindowInv, FrontierDefined
    <3>2. \A j \in Of(jobs, r, epoch[r]) : jobs'[j] = jobs[j]
      BY <1>h, <1>p
    <3>3. FrontierAt(r, h)'
      BY <3>1, <3>2, <2>1, <1>h, <1>z DEF FrontierAt
    <3> QED BY <3>3
  <2>2. CASE r = s
    <3> DEFINE V == Of(jobs', s, epoch'[s])
    <3>1. \A j \in V : j \in 1..(total + m) /\ jobs'[j].s = s /\ jobs'[j].e = e
      BY <1>d DEF Of, e
    <3>o. \A j \in 1..total : jobs'[j].s = s /\ jobs'[j].e = e => j \in Of(jobs, s, e) /\ j \in V
      BY <1>d, <1>p, <1>h DEF Of, e
    <3>n. \A k \in 1..m : total + k \in V
      BY <1>q, <1>d DEF Of, e
    <3> HIDE DEF V
    <3>2. \A j \in V : jobs'[j].end > cursor[s] => cursor[s] <= jobs'[j].start /\ jobs'[j].end <= g
      <4> TAKE j \in V
      <4>1. CASE j \in 1..total
        BY <4>1, <3>1, <3>o, <1>F, <1>p, <1>t, <1>n, <2>g
      <4>2. CASE \E k \in 1..m : j = total + k
        BY <4>2, <1>q, <1>b, <2>g, <1>F, <1>t, <1>n
      <4> QED BY <4>1, <4>2, <3>1, <1>r
    <3>3. \A q \in (cursor[s] + 1)..g : \E j \in V : Covers(jobs'[j], q)
      <4> TAKE q \in (cursor[s] + 1)..g
      <4>1. CASE q <= f
        <5>1. q \in (cursor[s] + 1)..f
          BY <4>1, <1>n, <1>t, <2>g
        <5>2. PICK j \in Of(jobs, s, e) : Covers(jobs[j], q)
          BY <5>1, <1>F
        <5>3. j \in 1..total /\ j \in V
          BY <5>2, <1>h DEF e, V
        <5> QED BY <5>2, <5>3, <1>p
      <4>2. CASE q > f
        <5>1. q \in (f + 1)..g
          BY <4>2, <1>n, <1>t, <2>g
        <5>2. PICK k \in 1..m : ws(k) < q /\ q <= we(k)
          BY <5>1, <1>c DEF g
        <5>3. Covers(jobs'[total + k], q)
          BY <5>2, <1>q DEF Covers
        <5> QED BY <5>3, <3>n
      <4> QED BY <4>1, <4>2, <1>n, <1>t
    <3>4. \A q \in Int : \A i, j \in V : Covers(jobs'[i], q) /\ Covers(jobs'[j], q) => i = j
      <4> SUFFICES ASSUME NEW q \in Int, NEW i \in V, NEW j \in V,
                          Covers(jobs'[i], q), Covers(jobs'[j], q), i # j
                   PROVE  FALSE
        OBVIOUS
      <4>1. jobs'[i].end <= jobs'[j].start \/ jobs'[j].end <= jobs'[i].start
        BY <1>2, <1>d, <3>1 DEF WindowsDisjoint, Rows
      <4>2. /\ jobs'[i].start \in Nat /\ jobs'[i].end \in Nat
            /\ jobs'[j].start \in Nat /\ jobs'[j].end \in Nat
        BY <3>1, <1>t
      <4> QED BY <4>1, <4>2 DEF Covers
    <3>5. g >= cursor[s]
      BY <2>g, <1>F, <1>t, <1>n
    <3>6. FrontierAt(s, g)'
      <4>1. \A q \in (cursor[s] + 1)..g :
              \E j \in V : Covers(jobs'[j], q) /\ \A k \in V : Covers(jobs'[k], q) => k = j
        BY <3>3, <3>4
      <4> QED BY <4>1, <3>2, <3>5, <1>y DEF FrontierAt, V
    <3> QED BY <3>6, <2>2, <2>g
  <2> QED BY <2>1, <2>2
<1> QED BY <1>1, <1>2, <1>3, <1>4, <1>5 DEF WindowInv

\* A new epoch of the sessions S preserves it: the new epochs have no rows yet,
\* and cancelling closes nothing and reopens nothing.
LEMMA NewEpochPreserves ==
  ASSUME StoreType, StoreType', WindowInv, NEW S \in SUBSET Sessions, NEW C,
         NewEpoch(S, C)
  PROVE  WindowInv'
<1>d. total' = total /\ DOMAIN jobs = 1..total /\ DOMAIN jobs' = 1..total
  BY DEF NewEpoch, StoreType
<1>j. \A j \in 1..total :
        /\ SameWindow(jobs'[j], jobs[j])
        /\ jobs[j].status \in Done => jobs'[j] = jobs[j]
        /\ jobs'[j].status \in Done => jobs[j].status \in Done
  <2> TAKE j \in 1..total
  <2>1. jobs[j] \in Job /\ j \in Rows
    BY <1>d DEF StoreType, Rows
  <2>2. SameWindow(Released(jobs[j], "cancelled"), jobs[j])
        /\ Released(jobs[j], "cancelled").status = "cancelled"
    BY <2>1 DEF Job, Released, SameWindow
  <2>3. jobs'[j] = IF j \in C /\ jobs[j].status \notin Done
                   THEN Released(jobs[j], "cancelled") ELSE jobs[j]
    BY <2>1 DEF NewEpoch
  <2>4. SameWindow(jobs[j], jobs[j])
    BY DEF SameWindow
  <2> QED BY <2>2, <2>3, <2>4 DEF Done
<1>s. \A r \in Sessions : r \in S => cursor'[r] = 0 /\ epoch'[r] = epoch[r] + 1
  BY DEF NewEpoch
<1>u. \A r \in Sessions : r \notin S => cursor'[r] = cursor[r] /\ epoch'[r] = epoch[r]
  BY DEF NewEpoch
<1>t. /\ \A r \in Sessions : epoch[r] \in Int
      /\ \A j \in 1..total : jobs[j].s \in Sessions /\ jobs[j].e \in Int
      /\ 0 \in 0..MaxSeq
  <2>1. \A j \in 1..total : jobs[j] \in Job
    BY DEF StoreType
  <2>2. \A j \in 1..total : jobs[j].s \in Sessions /\ jobs[j].e \in 1..MaxEpoch
    BY <2>1 DEF Job
  <2> QED BY <2>2, ConstantsAssumption DEF StoreType
<1>e. \A r \in Sessions : r \in S => Of(jobs', r, epoch'[r]) = {}
  BY <1>d, <1>j, <1>s, <1>t DEF Of, SameWindow, WindowInv, RowsSound
<1>k. \A r \in Sessions : r \notin S => Of(jobs', r, epoch'[r]) = Of(jobs, r, epoch[r])
  BY <1>d, <1>j, <1>u DEF Of, SameWindow
<1>h. \A r \in Sessions : Of(jobs, r, epoch[r]) \subseteq 1..total
  BY <1>d DEF Of
<1>1. RowsSound'
  <2> SUFFICES ASSUME NEW j \in 1..total
               PROVE  /\ jobs'[j].start < jobs'[j].end
                      /\ jobs'[j].e <= epoch'[jobs'[j].s]
                      /\ jobs'[j].status \in Done => jobs'[j].led \in {"none", "closed"}
    BY <1>d DEF RowsSound
  <2>1. jobs'[j].e <= epoch'[jobs'[j].s]
    BY <1>j, <1>s, <1>u, <1>t DEF SameWindow, WindowInv, RowsSound
  <2> QED BY <2>1, <1>j DEF SameWindow, WindowInv, RowsSound
<1>2. WindowsDisjoint'
  BY <1>d, <1>j DEF WindowInv, WindowsDisjoint, SameWindow, Rows
<1>3. CursorCovered'
  <2> SUFFICES ASSUME NEW r \in Sessions, NEW q \in 1..cursor'[r]
               PROVE  \E j \in Of(jobs', r, epoch'[r]) :
                        jobs'[j].status \in Done /\ Covers(jobs'[j], q)
    BY DEF CursorCovered
  <2>1. r \notin S
    BY <1>s
  <2>2. PICK j \in Of(jobs, r, epoch[r]) : jobs[j].status \in Done /\ Covers(jobs[j], q)
    BY <2>1, <1>u DEF WindowInv, CursorCovered
  <2> QED BY <2>1, <2>2, <1>h, <1>j, <1>k
<1>4. CursorTight'
  <2> SUFFICES ASSUME NEW r \in Sessions, NEW j \in Of(jobs', r, epoch'[r]),
                      jobs'[j].status \in Done
               PROVE  jobs'[j].start # cursor'[r]
    BY DEF CursorTight
  <2>1. r \notin S /\ j \in Of(jobs, r, epoch[r]) /\ j \in 1..total
    BY <1>e, <1>k, <1>h
  <2> QED BY <2>1, <1>j, <1>u DEF WindowInv, CursorTight
<1>5. FrontierDefined'
  <2> SUFFICES ASSUME NEW r \in Sessions
               PROVE  \E f \in 0..MaxSeq : FrontierAt(r, f)'
    BY DEF FrontierDefined
  <2>1. CASE r \in S
    <3>1. FrontierAt(r, 0)'
      BY <2>1, <1>e, <1>s DEF FrontierAt
    <3> QED BY <3>1, <1>t
  <2>2. CASE r \notin S
    <3>1. PICK f \in 0..MaxSeq : FrontierAt(r, f)
      BY DEF WindowInv, FrontierDefined
    <3>2. \A j \in Of(jobs, r, epoch[r]) :
            jobs'[j].start = jobs[j].start /\ jobs'[j].end = jobs[j].end
      BY <1>h, <1>j DEF SameWindow
    <3>3. \A j \in Of(jobs, r, epoch[r]), q \in Int : Covers(jobs'[j], q) <=> Covers(jobs[j], q)
      BY <3>2 DEF Covers
    <3>4. FrontierAt(r, f)'
      <4>1. (cursor[r] + 1)..f \subseteq Int
        OBVIOUS
      <4> QED BY <3>1, <3>2, <3>3, <4>1, <2>2, <1>k, <1>u DEF FrontierAt
    <3> QED BY <3>4
  <2> QED BY <2>1, <2>2
<1> QED BY <1>1, <1>2, <1>3, <1>4, <1>5 DEF WindowInv
=============================================================================
