------------------------ MODULE ReconsolidationProofs ------------------------
(***************************************************************************)
(* The safety of the review of reconsolidation candidates, for every number *)
(* of candidates, requests, other writers and faults, and the proof that    *)
(* it implements MemoryReview.                                             *)
(***************************************************************************)
EXTENDS Reconsolidation, TLAPS

Applying(c) == task[c] \in {"apply", "apply_refused", "apply_verify"}
Undoing(c)  == task[c] \in {"undo", "undo_refused", "undo_verify", "undo_close"}

\* What the step, the status, the intents and the effect of a candidate say of each other.
Local(c) ==
  /\ Snapshot(c)
  /\ Applying(c) => aop[c] = "pending"
  /\ Undoing(c) => rop[c] = "pending"
  /\ aop[c] = "pending" => cand[c].status = "pending"
  /\ rop[c] # "none" => cand[c].status = "approved"
  /\ task[c] \in {"apply", "apply_refused"} => effect[c] = "none"
  /\ task[c] \in {"undo", "undo_refused"} => effect[c] = "done"
  /\ task[c] \in {"undo_verify", "undo_close"} => effect[c] = "undone"
  /\ cand[c].status \in {"none", "rejected"} => effect[c] = "none"
  /\ cand[c].status = "approved" => effect[c] # "none"
  /\ cand[c].status = "rolled_back" => effect[c] = "undone"
  /\ effect[c] = "undone" => cand[c].status \in {"approved", "rolled_back"}
  /\ effect[c] = "done" /\ cand[c].status = "pending" => aop[c] = "pending"
  /\ effect[c] = "undone" /\ cand[c].status = "approved" => rop[c] # "none"

\* Revisions only grow, and what a candidate remembers of a revision is true of it.
RevOf(c) ==
  /\ cand[c].src <= row.rev /\ cand[c].arev <= row.rev
  /\ effect[c] # "none" => cand[c].src < row.rev
  /\ cand[c].arev # 0 => cand[c].src < cand[c].arev
  /\ effect[c] = "undone" => cand[c].arev # 0 /\ cand[c].arev < row.rev
  /\ cand[c].status # "none" /\ cand[c].src = row.rev =>
       cand[c].old = row.text /\ cand[c].oldmeta.mark = row.meta.mark
  /\ cand[c].arev # 0 /\ cand[c].arev = row.rev =>
       cand[c].proposed = row.text /\ row.meta.mark = c
Revs == \A c \in Cands : RevOf(c)

\* Two candidates never overwrite the same revision.
OneWriter == \A c, d \in Cands :
  effect[c] # "none" /\ effect[d] # "none" /\ cand[c].src = cand[d].src => c = d

\* The mark m found at revision r was written before r, and not before a candidate whose
\* write still stands.
MarkOK(r, m) ==
  /\ m # 0 => effect[m] # "none" /\ cand[m].src < r
  /\ \A c \in Cands : effect[c] = "done" /\ cand[c].src < r =>
       m # 0 /\ cand[c].src <= cand[m].src
Marks ==
  /\ MarkOK(row.rev, row.meta.mark)
  /\ \A c \in Cands : cand[c].status # "none" => MarkOK(cand[c].src, cand[c].oldmeta.mark)

\* The recovery is alone with the memory and has one intent at a time.
Passing == phase \in {"applies", "rollbacks"}
PassOf(c) ==
  /\ phase = "down" => task[c] = "idle"
  /\ Passing /\ task[c] # "idle" => c \in todo
  /\ phase = "applies" => ~Undoing(c)
  /\ phase = "rollbacks" => ~Applying(c)
  /\ phase = "applies" /\ c \in todo => aop[c] = "pending"
  /\ phase = "rollbacks" /\ c \in todo => rop[c] = "pending"
  /\ Passing /\ task[c] # "idle" => Live
  /\ phase = "applies" /\ task[c] = "apply" =>
       row.rev = cand[c].src /\ row.meta = cand[c].oldmeta
  /\ phase = "applies" /\ task[c] = "apply_verify" =>
       /\ row.text = cand[c].proposed /\ row.rev = cand[c].src + 1 /\ effect[c] = "done"
       /\ row.meta.summary = "none" => row.meta = Target(c)
Pass ==
  /\ \A c \in Cands : PassOf(c)
  /\ Passing => \A c, d \in Cands : task[c] # "idle" /\ task[d] # "idle" => c = d
Settled ==
  /\ since <= faults
  /\ since = faults /\ Passing => \A c \in Cands : aop[c] = "pending" =>
       \/ phase = "applies" /\ c \in todo
       \/ effect[c] = "done" /\ row.meta.summary # "none"
  /\ since = faults /\ phase = "rollbacks" => \A c \in Cands : rop[c] = "pending" => c \in todo

Typed ==
  /\ row \in Row /\ cand \in [Cands -> Cand]
  /\ aop \in [Cands -> {"none", "pending", "blocked"}]
  /\ rop \in [Cands -> {"none", "pending", "blocked"}]
  /\ task \in [Cands -> Steps] /\ asked \subseteq Cands /\ todo \subseteq Cands
  /\ phase \in {"up", "down", "applies", "rollbacks"}
  /\ faults \in 0..MaxFaults /\ since \in 0..MaxFaults
  /\ effect \in [Cands -> {"none", "done", "undone"}] /\ calm \in {"yes", "no"}

History == Revs /\ OneWriter /\ Marks
IInv == Typed /\ (\A c \in Cands : Local(c)) /\ History /\ Pass /\ Settled

-----------------------------------------------------------------------------
(***************************************************************************)
(* Facts about the types.                                                  *)
(***************************************************************************)

\* The fields of the memory and of a candidate.
LEMMA Fields ==
  ASSUME Typed
  PROVE  /\ row.rev \in Nat /\ row.text \in Texts /\ row.meta \in Meta
         /\ row.meta.mark \in {0} \cup Cands /\ row.state \in {"live", "gone"}
         /\ \A c \in Cands :
              /\ cand[c] \in Cand /\ cand[c].src \in Nat /\ cand[c].arev \in Nat
              /\ cand[c].old \in Texts /\ cand[c].proposed \in Texts
              /\ cand[c].oldmeta \in Meta /\ cand[c].oldmeta.mark \in {0} \cup Cands
              /\ cand[c].ameta \in Meta
  BY DEF Typed, Row, Cand, Meta

\* Candidates are positive numbers.
LEMMA CandsNat == Cands \subseteq Nat /\ 0 \notin Cands
  BY ReviewAssumption DEF Cands

\* Setting the status of a candidate.
LEMMA SetStatus ==
  ASSUME Typed, NEW c \in Cands,
         NEW s \in {"none", "pending", "approved", "rejected", "failed", "rolled_back"},
         cand' = [cand EXCEPT ![c].status = s]
  PROVE  /\ cand' \in [Cands -> Cand]
         /\ cand'[c] = [cand[c] EXCEPT !.status = s]
         /\ cand'[c].status = s /\ cand'[c].src = cand[c].src /\ cand'[c].old = cand[c].old
         /\ cand'[c].oldmeta = cand[c].oldmeta /\ cand'[c].proposed = cand[c].proposed
         /\ cand'[c].arev = cand[c].arev
         /\ \A d \in Cands : d # c => cand'[d] = cand[d]
<1>1. cand[c] \in Cand
  BY Fields
<1>2. [cand[c] EXCEPT !.status = s] \in Cand
  BY <1>1 DEF Cand
<1>3. cand' = [cand EXCEPT ![c] = [cand[c] EXCEPT !.status = s]]
  OBVIOUS
<1> QED
  BY <1>1, <1>2, <1>3 DEF Typed, Cand

\* Approving a candidate.
LEMMA SetApproved ==
  ASSUME Typed, NEW c \in Cands, cand' = Approved(c)
  PROVE  /\ cand' \in [Cands -> Cand]
         /\ cand'[c].status = "approved" /\ cand'[c].src = cand[c].src
         /\ cand'[c].old = cand[c].old /\ cand'[c].oldmeta = cand[c].oldmeta
         /\ cand'[c].proposed = cand[c].proposed /\ cand'[c].arev = row.rev
         /\ \A d \in Cands : d # c => cand'[d] = cand[d]
<1> DEFINE new == [cand[c] EXCEPT !.status = "approved", !.arev = row.rev, !.ameta = row.meta]
<1>1. cand[c] \in Cand /\ row.rev \in Nat /\ row.meta \in Meta
  BY Fields
<1>2. new \in Cand
  BY <1>1 DEF Cand
<1>3. cand' = [cand EXCEPT ![c] = new]
  BY DEF Approved
<1> QED
  BY <1>1, <1>2, <1>3 DEF Typed, Cand

\* Overwriting the memory.
LEMMA Overwrites ==
  ASSUME Typed, NEW text \in Texts, NEW m \in Meta, row' = Overwritten(text, m)
  PROVE  /\ row' \in Row /\ row'.state = row.state /\ row'.text = text
         /\ row'.rev = row.rev + 1 /\ row'.meta = Merged(m, text)
         /\ row'.meta.mark = IF m.mark = 0 THEN row.meta.mark ELSE m.mark
         /\ row'.meta.summary = "none" <=> row.meta.summary = "none" /\ m.summary = "none"
<1>1. row \in Row /\ row.rev \in Nat /\ row.meta \in Meta
  BY Fields DEF Typed
<1>2. Merged(m, text) \in Meta
  BY <1>1 DEF Merged, Meta
<1> DEFINE mm == Merged(m, text)
<1>3. row' = [state |-> row.state, text |-> text, rev |-> row.rev + 1, meta |-> mm]
  <2> HIDE DEF mm
  <2>1. row' = [row EXCEPT !.text = text, !.rev = row.rev + 1, !.meta = mm]
    BY DEF Overwritten, mm
  <2> QED
    BY <1>1, <2>1 DEF Row
<1>4. "none" \notin Texts
  BY ReviewAssumption
<1>5. row' \in Row /\ row'.state = row.state /\ row'.text = text
      /\ row'.rev = row.rev + 1 /\ row'.meta = Merged(m, text)
  <2> HIDE DEF mm
  <2>1. mm \in Meta /\ row.state \in {"live", "gone"} /\ row.rev + 1 \in Nat
    BY <1>1, <1>2 DEF mm, Row
  <2>2. row' \in Row
    BY <1>3, <2>1 DEF Row
  <2>3. row'.state = row.state /\ row'.text = text /\ row'.rev = row.rev + 1 /\ row'.meta = mm
    BY <1>3
  <2> QED
    BY <2>2, <2>3 DEF mm
<1>6. row'.meta.mark = IF m.mark = 0 THEN row.meta.mark ELSE m.mark
  BY <1>5 DEF Merged
<1>7. row'.meta.summary = IF row.meta.summary = "none" /\ m.summary = "none"
                          THEN "none" ELSE text
  BY <1>5 DEF Merged
<1>8. text # "none"
  BY <1>4
<1> QED
  BY <1>5, <1>6, <1>7, <1>8

-----------------------------------------------------------------------------
(***************************************************************************)
(* Steps that leave the past alone.                                        *)
(***************************************************************************)

Still ==
  /\ row'.rev = row.rev /\ row'.text = row.text /\ row'.meta.mark = row.meta.mark
  /\ effect' = effect
  /\ \A c \in Cands :
       /\ cand'[c].src = cand[c].src /\ cand'[c].old = cand[c].old
       /\ cand'[c].oldmeta = cand[c].oldmeta /\ cand'[c].proposed = cand[c].proposed
       /\ cand'[c].arev = cand[c].arev
       /\ cand'[c].status = "none" <=> cand[c].status = "none"

\* A step that leaves row, snapshots and effects alone keeps the history.
LEMMA StillKeeps ==
  ASSUME Typed, History, Still
  PROVE  History'
<1>1. Revs'
  BY DEF Still, History, Revs, RevOf
<1>2. OneWriter'
  BY DEF Still, History, OneWriter
<1>3. MarkOK(row.rev, row.meta.mark)'
  <2>1. row.rev \in Nat /\ row.meta.mark \in {0} \cup Cands /\ MarkOK(row.rev, row.meta.mark)
    BY Fields DEF History, Marks
  <2> QED
    BY <2>1 DEF Still, MarkOK
<1>4. ASSUME NEW c \in Cands, cand'[c].status # "none"
      PROVE  MarkOK(cand[c].src, cand[c].oldmeta.mark)'
  <2>1. MarkOK(cand[c].src, cand[c].oldmeta.mark) /\ cand[c].oldmeta.mark \in {0} \cup Cands
    BY <1>4, Fields DEF History, Marks, Still
  <2> QED
    BY <2>1, <1>4 DEF Still, MarkOK
<1> QED
  BY <1>1, <1>2, <1>3, <1>4 DEF History, Marks

-----------------------------------------------------------------------------
(***************************************************************************)
(* Steps of one candidate.                                                 *)
(***************************************************************************)

Same(d) == /\ cand'[d] = cand[d] /\ aop'[d] = aop[d] /\ rop'[d] = rop[d]
           /\ task'[d] = task[d] /\ effect'[d] = effect[d]
OthersSame(c) == \A d \in Cands : d # c => Same(d)
SameSnap(c) ==
  /\ cand'[c].src = cand[c].src /\ cand'[c].old = cand[c].old
  /\ cand'[c].oldmeta = cand[c].oldmeta /\ cand'[c].proposed = cand[c].proposed
  /\ cand'[c].arev = cand[c].arev
  /\ cand'[c].status = "none" <=> cand[c].status = "none"

\* The other candidates stay as they are.
LEMMA LocalStep ==
  ASSUME NEW c \in Cands, \A d \in Cands : Local(d), OthersSame(c), Local(c)'
  PROVE  \A d \in Cands : Local(d)'
<1>1. ASSUME NEW d \in Cands, d # c PROVE Local(d)'
  <2>1. Same(d) /\ Local(d)
    BY <1>1 DEF OthersSame
  <2> QED
    BY <2>1 DEF Same, Local, Snapshot, Applying, Undoing
<1> QED
  BY <1>1

\* A step on the candidate store alone: only its own candidate has to be looked at.
LEMMA StoreStep ==
  ASSUME IInv, NEW c \in Cands, Typed', row' = row, effect' = effect, OthersSame(c),
         SameSnap(c), Local(c)', Pass', Settled'
  PROVE  IInv'
<1>1. \A d \in Cands : Local(d)'
  BY LocalStep DEF IInv
<1>2. Still
  BY DEF OthersSame, Same, SameSnap, Still
<1> QED
  BY <1>1, <1>2, StillKeeps DEF IInv

\* While the plugin is up there is nothing to say about a recovery.
LEMMA UpKeeps ==
  ASSUME Typed, Typed', Settled, phase = "up", phase' = "up", since' = since,
         faults' \in {faults, faults + 1}
  PROVE  Pass' /\ Settled'
<1>1. faults \in Nat /\ since \in Nat
  BY ReviewAssumption DEF Typed
<1> QED
  BY <1>1 DEF Pass, PassOf, Passing, Settled

\* The handling of an intent ends, in a request or in a pass.
LEMMA DoneKeeps ==
  ASSUME IInv, NEW c \in Cands, phase' = phase, todo' = todo \ {c}, task'[c] = "idle",
         OthersSame(c), row' = row, since' = since, faults' \in {faults, faults + 1},
         phase = "applies" /\ faults' = since /\ aop'[c] = "pending" =>
           effect'[c] = "done" /\ row.meta.summary # "none",
         phase = "rollbacks" /\ faults' = since =>
           rop'[c] # "pending" /\ aop'[c] = aop[c] /\ effect'[c] = effect[c]
  PROVE  Pass' /\ Settled'
<1> USE DEF IInv
<1>1. faults \in Nat /\ since \in Nat
  BY ReviewAssumption DEF Typed
<1>2. ASSUME NEW d \in Cands PROVE PassOf(d)'
  <2>1. CASE d = c
    <3>1. task'[d] = "idle" /\ d \notin todo'
      BY <2>1
    <3> QED
      BY <3>1 DEF PassOf, Passing, Applying, Undoing
  <2>2. CASE d # c
    <3>1. Same(d) /\ PassOf(d) /\ (d \in todo' <=> d \in todo)
      BY <2>2 DEF OthersSame, Pass
    <3> QED
      BY <3>1 DEF Same, PassOf, Passing, Applying, Undoing, Live, Target
  <2> QED
    BY <2>1, <2>2
<1>3. Passing' => \A d, e \in Cands : task'[d] # "idle" /\ task'[e] # "idle" => d = e
  <2>1. Passing' <=> Passing
    BY DEF Passing
  <2>2. \A d \in Cands : task'[d] # "idle" => d # c /\ task[d] # "idle"
    BY DEF OthersSame, Same
  <2> QED
    BY <2>1, <2>2 DEF Pass
<1>4. since' <= faults'
  BY <1>1 DEF Settled
<1>5. ASSUME since' = faults', Passing', NEW d \in Cands, aop'[d] = "pending"
      PROVE  \/ phase' = "applies" /\ d \in todo'
             \/ effect'[d] = "done" /\ row'.meta.summary # "none"
  <2>1. faults' = faults /\ since = faults /\ Passing
    BY <1>1, <1>5 DEF Settled, Passing
  <2>2. CASE d = c
    BY <1>5, <2>1, <2>2 DEF Settled, Passing
  <2>3. CASE d # c
    BY <1>5, <2>1, <2>3 DEF Settled, Passing, OthersSame, Same
  <2> QED
    BY <2>2, <2>3
<1>6. ASSUME since' = faults', phase' = "rollbacks", NEW d \in Cands, rop'[d] = "pending"
      PROVE  d \in todo'
  <2>1. faults' = faults /\ since = faults
    BY <1>1, <1>6 DEF Settled
  <2> QED
    BY <1>6, <2>1 DEF Settled, OthersSame, Same
<1> QED
  BY <1>2, <1>3, <1>4, <1>5, <1>6 DEF Pass, Settled

\* The handling of an intent goes on; in a pass all other tasks are idle.
LEMMA GoKeeps ==
  ASSUME IInv, NEW c \in Cands, phase' = phase, todo' = todo, OthersSame(c),
         aop'[c] = aop[c], rop'[c] = rop[c], since' = since, faults' \in {faults, faults + 1},
         Passing => \A d \in Cands : d # c => task[d] = "idle",
         row.meta.summary # "none" => row'.meta.summary # "none",
         effect[c] = "done" => effect'[c] = "done" \/ aop[c] # "pending",
         phase = "down" => task'[c] = "idle",
         PassOf(c)'
  PROVE  Pass' /\ Settled'
<1> USE DEF IInv
<1>1. faults \in Nat /\ since \in Nat
  BY ReviewAssumption DEF Typed
<1>2. ASSUME NEW d \in Cands, d # c PROVE PassOf(d)'
  <2>1. Same(d) /\ PassOf(d)
    BY <1>2 DEF OthersSame, Pass
  <2> QED
    BY <1>2, <2>1 DEF Same, PassOf, Passing, Applying, Undoing
<1>3. Passing' => \A d, e \in Cands : task'[d] # "idle" /\ task'[e] # "idle" => d = e
  <2>1. Passing' <=> Passing
    BY DEF Passing
  <2>2. Passing => \A d \in Cands : task'[d] # "idle" => d = c
    BY DEF OthersSame, Same
  <2> QED
    BY <2>1, <2>2
<1>4. since' <= faults'
  BY <1>1 DEF Settled
<1>5. ASSUME since' = faults', Passing', NEW d \in Cands, aop'[d] = "pending"
      PROVE  \/ phase' = "applies" /\ d \in todo'
             \/ effect'[d] = "done" /\ row'.meta.summary # "none"
  <2>1. faults' = faults /\ since = faults /\ Passing
    BY <1>1, <1>5 DEF Settled, Passing
  <2>2. aop[d] = "pending" /\ (effect[d] = "done" => effect'[d] = "done")
    BY <1>5 DEF OthersSame, Same
  <2> QED
    BY <1>5, <2>1, <2>2 DEF Settled
<1>6. ASSUME since' = faults', phase' = "rollbacks", NEW d \in Cands, rop'[d] = "pending"
      PROVE  d \in todo'
  <2>1. faults' = faults /\ since = faults
    BY <1>1, <1>6 DEF Settled
  <2>2. rop[d] = "pending"
    BY <1>6 DEF OthersSame, Same
  <2> QED
    BY <1>6, <2>1, <2>2 DEF Settled
<1> QED
  BY <1>2, <1>3, <1>4, <1>5, <1>6 DEF Pass, Settled

-----------------------------------------------------------------------------
(***************************************************************************)
(* Requests.                                                               *)
(***************************************************************************)

\* Counting faults.
LEMMA FaultTyped ==
  ASSUME Typed, Fault \/ NoFault
  PROVE  /\ faults' \in 0..MaxFaults /\ calm' \in {"yes", "no"}
         /\ faults' \in {faults, faults + 1} /\ (Fault => faults' = faults + 1)
  BY ReviewAssumption DEF Typed, Fault, NoFault

\* A rejection closes a pending candidate without an intent.
LEMMA RejectStep ==
  ASSUME IInv, NEW c \in Cands, Reject(c)
  PROVE  IInv'
<1> USE DEF IInv
<1>1. cand' = [cand EXCEPT ![c].status = "rejected"] /\ cand[c].status = "pending"
      /\ aop[c] = "none" /\ NoFault
      /\ UNCHANGED <<row, aop, rop, task, asked, phase, todo, effect, since>> /\ phase = "up"
  BY DEF Reject
<1>2. Typed'
  BY <1>1, SetStatus, FaultTyped DEF Typed
<1>3. OthersSame(c) /\ SameSnap(c) /\ cand'[c].status = "rejected"
  <2>1. /\ cand'[c].status = "rejected" /\ \A d \in Cands : d # c => cand'[d] = cand[d]
        /\ cand'[c].src = cand[c].src /\ cand'[c].old = cand[c].old
        /\ cand'[c].oldmeta = cand[c].oldmeta /\ cand'[c].proposed = cand[c].proposed
        /\ cand'[c].arev = cand[c].arev
    BY <1>1, SetStatus
  <2>2. OthersSame(c)
    BY <1>1, <2>1 DEF OthersSame, Same
  <2>3. SameSnap(c)
    BY <1>1, <2>1 DEF SameSnap
  <2> QED BY <2>1, <2>2, <2>3
<1>4. Local(c)'
  BY <1>1, <1>3 DEF Local, SameSnap, Snapshot, Applying, Undoing, Typed
<1>5. Pass' /\ Settled'
  BY <1>1, <1>2, UpKeeps DEF NoFault
<1> QED
  BY <1>1, <1>2, <1>3, <1>4, <1>5, StoreStep

\* An approval records its intent before anything else.
LEMMA BeginApplyStep ==
  ASSUME IInv, NEW c \in Cands, BeginApply(c)
  PROVE  IInv'
<1> USE DEF IInv
<1>1. /\ aop' = [aop EXCEPT ![c] = "pending"] /\ task' = [task EXCEPT ![c] = "apply"]
      /\ cand[c].status = "pending" /\ aop[c] = "none" /\ NoFault /\ phase = "up"
      /\ UNCHANGED <<row, cand, rop, asked, phase, todo, effect, since>>
  BY DEF BeginApply, Step
<1>2. Typed'
  BY <1>1, FaultTyped DEF Typed, Steps
<1>3. OthersSame(c) /\ SameSnap(c)
  BY <1>1 DEF OthersSame, Same, SameSnap, Typed
<1>4. Local(c)'
  <2>1. Local(c) /\ aop'[c] = "pending" /\ task'[c] = "apply" /\ effect[c] \in {"none", "done", "undone"}
    BY <1>1 DEF Typed
  <2> QED
    BY <1>1, <2>1 DEF Local, Snapshot, Applying, Undoing
<1>5. Pass' /\ Settled'
  BY <1>1, <1>2, UpKeeps DEF NoFault
<1> QED
  BY <1>1, <1>2, <1>3, <1>4, <1>5, StoreStep

\* A refused write rejects the candidate and withdraws the intent.
LEMMA ApplyRefusedStep ==
  ASSUME IInv, NEW c \in Cands, ApplyRefused(c)
  PROVE  IInv'
<1> USE DEF IInv
<1>1. /\ cand' = [cand EXCEPT ![c].status = "rejected"] /\ aop' = [aop EXCEPT ![c] = "none"]
      /\ task' = [task EXCEPT ![c] = "idle"] /\ todo' = todo \ {c} /\ NoFault
      /\ task[c] = "apply_refused"
      /\ UNCHANGED <<row, rop, asked, phase, effect, since>>
  BY DEF ApplyRefused, Done, Step
<1>2. Typed'
  BY <1>1, SetStatus, FaultTyped DEF Typed, Steps
<1>3. OthersSame(c) /\ SameSnap(c) /\ cand'[c].status = "rejected" /\ aop'[c] = "none"
      /\ task'[c] = "idle" /\ cand[c].status = "pending"
  <2>1. cand[c].status = "pending"
    BY <1>1 DEF Local, Applying
  <2> QED
    BY <1>1, <2>1, SetStatus DEF OthersSame, Same, SameSnap, Typed
<1>4. Local(c)'
  BY <1>1, <1>3 DEF Local, SameSnap, Snapshot, Applying, Undoing
<1>5. phase # "rollbacks"
  BY <1>1 DEF Pass, PassOf, Applying
<1>6. Pass' /\ Settled'
  BY <1>1, <1>3, <1>5, DoneKeeps DEF NoFault
<1> QED
  BY <1>1, <1>2, <1>3, <1>4, <1>6, StoreStep

\* A rollback request only waits.
LEMMA AskUndoStep ==
  ASSUME IInv, NEW c \in Cands, AskUndo(c)
  PROVE  IInv'
<1> USE DEF IInv
<1>1. /\ asked' = asked \cup {c} /\ NoFault /\ phase = "up"
      /\ UNCHANGED <<row, cand, aop, rop, task, phase, todo, effect, since>>
  BY DEF AskUndo, store
<1>2. Typed'
  BY <1>1, FaultTyped DEF Typed
<1>3. OthersSame(c) /\ SameSnap(c)
  BY <1>1 DEF OthersSame, Same, SameSnap
<1>4. Local(c)'
  BY <1>1 DEF Local, Snapshot, Applying, Undoing
<1>5. Pass' /\ Settled'
  BY <1>1, <1>2, UpKeeps DEF NoFault
<1> QED
  BY <1>1, <1>2, <1>3, <1>4, <1>5, StoreStep

\* A rollback records its intent before it writes.
LEMMA BeginUndoStep ==
  ASSUME IInv, NEW c \in Cands, BeginUndo(c)
  PROVE  IInv'
<1> USE DEF IInv
<1>1. /\ asked' = asked \ {c} /\ NoFault /\ phase = "up"
      /\ UNCHANGED <<row, cand, aop, phase, todo, effect, since>>
      /\ \/ MayUndo(c) /\ rop' = [rop EXCEPT ![c] = "pending"]
            /\ task' = [task EXCEPT ![c] = "undo"]
         \/ UNCHANGED <<rop, task>>
  BY DEF BeginUndo, Step
<1>2. Typed'
  BY <1>1, FaultTyped DEF Typed, Steps
<1>3. OthersSame(c) /\ SameSnap(c)
  BY <1>1 DEF OthersSame, Same, SameSnap, Typed
<1>4. Local(c)'
  <2>1. CASE MayUndo(c) /\ rop' = [rop EXCEPT ![c] = "pending"]
             /\ task' = [task EXCEPT ![c] = "undo"]
    <3>1. rop'[c] = "pending" /\ task'[c] = "undo" /\ rop[c] = "none"
          /\ cand[c].status = "approved" /\ effect[c] \in {"none", "done", "undone"}
      BY <2>1 DEF MayUndo, Typed
    <3> QED
      BY <1>1, <3>1 DEF Local, Snapshot, Applying, Undoing
  <2>2. CASE UNCHANGED <<rop, task>>
    BY <1>1, <2>2 DEF Local, Snapshot, Applying, Undoing
  <2> QED
    BY <1>1, <2>1, <2>2
<1>5. Pass' /\ Settled'
  BY <1>1, <1>2, UpKeeps DEF NoFault
<1> QED
  BY <1>1, <1>2, <1>3, <1>4, <1>5, StoreStep

\* A refused rollback withdraws its intent, or blocks it when a start met the refusal.
LEMMA UndoRefusedStep ==
  ASSUME IInv, NEW c \in Cands, UndoRefused(c)
  PROVE  IInv'
<1> USE DEF IInv
<1>1. /\ rop' = [rop EXCEPT ![c] = IF phase = "up" THEN "none" ELSE "blocked"]
      /\ task' = [task EXCEPT ![c] = "idle"] /\ todo' = todo \ {c} /\ NoFault
      /\ task[c] = "undo_refused"
      /\ UNCHANGED <<row, cand, aop, asked, phase, effect, since>>
  BY DEF UndoRefused, Done, Step
<1>2. Typed'
  BY <1>1, FaultTyped DEF Typed, Steps
<1>3. OthersSame(c) /\ SameSnap(c) /\ task'[c] = "idle" /\ rop'[c] \in {"none", "blocked"}
  BY <1>1 DEF OthersSame, Same, SameSnap, Typed
<1>4. Local(c)'
  <2>1. Local(c) /\ rop[c] = "pending" /\ cand[c].status = "approved" /\ effect[c] = "done"
    BY <1>1 DEF Local, Undoing
  <2> QED
    BY <1>1, <1>3, <2>1 DEF Local, Snapshot, Applying, Undoing
<1>5. phase # "applies"
  BY <1>1 DEF Pass, PassOf, Undoing
<1>6. Pass' /\ Settled'
  BY <1>1, <1>3, <1>5, DoneKeeps DEF NoFault
<1> QED
  BY <1>1, <1>2, <1>3, <1>4, <1>6, StoreStep

\* Verifying a rollback reads the row and blocks the intent when it does not match.
LEMMA UndoVerifyStep ==
  ASSUME IInv, NEW c \in Cands, UndoVerify(c)
  PROVE  IInv'
<1> USE DEF IInv
<1>1. /\ task[c] = "undo_verify" /\ (Fault \/ NoFault)
      /\ UNCHANGED <<row, cand, aop, asked, phase, effect, since>>
  BY DEF UndoVerify
<1>2. Local(c) /\ rop[c] = "pending" /\ cand[c].status = "approved" /\ effect[c] = "undone"
  BY <1>1 DEF Local, Undoing
<1>3. phase # "applies" /\ phase # "down"
  BY <1>1 DEF Pass, PassOf, Undoing
<1>4. CASE task' = [task EXCEPT ![c] = "undo_close"] /\ UNCHANGED <<rop, todo>> /\ Live
  <2>1. Typed'
    BY <1>1, <1>4, FaultTyped DEF Typed, Steps
  <2>2. OthersSame(c) /\ SameSnap(c) /\ task'[c] = "undo_close"
    BY <1>1, <1>4 DEF OthersSame, Same, SameSnap, Typed
  <2>3. Local(c)'
    BY <1>1, <1>2, <1>4, <2>2 DEF Local, Snapshot, Applying, Undoing
  <2>4. Passing => (c \in todo /\ \A d \in Cands : d # c => task[d] = "idle")
    BY <1>1 DEF Pass, PassOf
  <2>5. PassOf(c)'
    BY <1>1, <1>2, <1>3, <1>4, <2>2, <2>4 DEF PassOf, Passing, Applying, Undoing, Live
  <2>6. faults' \in {faults, faults + 1}
    BY <1>1, FaultTyped
  <2>7. Pass' /\ Settled'
    BY <1>1, <1>3, <1>4, <2>2, <2>4, <2>5, <2>6, GoKeeps
  <2> QED
    BY <1>1, <2>1, <2>2, <2>3, <2>7, StoreStep
<1>5. CASE rop' = [rop EXCEPT ![c] = "blocked"] /\ task' = [task EXCEPT ![c] = "idle"]
           /\ todo' = todo \ {c}
  <2>1. Typed'
    BY <1>1, <1>5, FaultTyped DEF Typed, Steps
  <2>2. OthersSame(c) /\ SameSnap(c) /\ task'[c] = "idle" /\ rop'[c] = "blocked"
    BY <1>1, <1>5 DEF OthersSame, Same, SameSnap, Typed
  <2>3. Local(c)'
    BY <1>1, <1>2, <2>2 DEF Local, Snapshot, Applying, Undoing
  <2>4. faults' \in {faults, faults + 1}
    BY <1>1, FaultTyped
  <2>5. Pass' /\ Settled'
    BY <1>1, <1>3, <1>5, <2>2, <2>4, DoneKeeps
  <2> QED
    BY <1>1, <2>1, <2>2, <2>3, <2>5, StoreStep
<1> QED
  BY <1>4, <1>5 DEF UndoVerify, Done, Step

\* Closing a rollback follows its verified write.
LEMMA UndoCloseStep ==
  ASSUME IInv, NEW c \in Cands, UndoClose(c)
  PROVE  IInv'
<1> USE DEF IInv
<1>1. /\ task[c] = "undo_close" /\ NoFault /\ todo' = todo \ {c}
      /\ task' = [task EXCEPT ![c] = "idle"]
      /\ UNCHANGED <<row, aop, asked, phase, effect, since>>
  BY DEF UndoClose, Done, Step
<1>2. Local(c) /\ rop[c] = "pending" /\ cand[c].status = "approved" /\ effect[c] = "undone"
  BY <1>1 DEF Local, Undoing
<1>3. phase # "applies" /\ (phase = "rollbacks" => Live)
  BY <1>1 DEF Pass, PassOf, Undoing, Passing
<1>4. CASE Live /\ cand' = [cand EXCEPT ![c].status = "rolled_back"]
           /\ rop' = [rop EXCEPT ![c] = "none"]
  <2>1. Typed'
    BY <1>1, <1>4, SetStatus, FaultTyped DEF Typed, Steps
  <2>2. OthersSame(c) /\ SameSnap(c) /\ task'[c] = "idle" /\ rop'[c] = "none"
        /\ cand'[c].status = "rolled_back"
    BY <1>1, <1>2, <1>4, SetStatus DEF OthersSame, Same, SameSnap, Typed
  <2>3. Local(c)'
    BY <1>1, <1>2, <2>2 DEF Local, SameSnap, Snapshot, Applying, Undoing
  <2>4. Pass' /\ Settled'
    BY <1>1, <1>3, <2>2, DoneKeeps DEF NoFault
  <2> QED
    BY <1>1, <2>1, <2>2, <2>3, <2>4, StoreStep
<1>5. CASE ~Live /\ UNCHANGED <<cand, rop>>
  <2>1. Typed'
    BY <1>1, <1>5, FaultTyped DEF Typed, Steps
  <2>2. OthersSame(c) /\ SameSnap(c) /\ task'[c] = "idle"
    BY <1>1, <1>5 DEF OthersSame, Same, SameSnap, Typed
  <2>3. Local(c)'
    BY <1>1, <1>2, <1>5, <2>2 DEF Local, Snapshot, Applying, Undoing
  <2>4. Pass' /\ Settled'
    BY <1>1, <1>3, <1>5, <2>2, DoneKeeps DEF NoFault
  <2> QED
    BY <1>1, <2>1, <2>2, <2>3, <2>4, StoreStep
<1> QED
  BY <1>4, <1>5 DEF UndoClose

\* An aborted request leaves its intent to the next start.
LEMMA AbortStep ==
  ASSUME IInv, NEW c \in Cands, Abort(c)
  PROVE  IInv'
<1> USE DEF IInv
<1>1. /\ Fault /\ todo' = todo \ {c} /\ task' = [task EXCEPT ![c] = "idle"]
      /\ UNCHANGED <<row, cand, aop, rop, asked, phase, effect, since>>
  BY DEF Abort, Done, Step, store
<1>2. Typed'
  BY <1>1, FaultTyped DEF Typed, Steps
<1>3. OthersSame(c) /\ SameSnap(c) /\ task'[c] = "idle"
  BY <1>1 DEF OthersSame, Same, SameSnap, Typed
<1>4. Local(c)'
  BY <1>1, <1>3 DEF Local, Snapshot, Applying, Undoing
<1>5. faults' = faults + 1 /\ faults' # since
  BY <1>1, ReviewAssumption DEF Fault, Settled, Typed
<1>6. Pass' /\ Settled'
  BY <1>1, <1>3, <1>5, DoneKeeps
<1> QED
  BY <1>1, <1>2, <1>3, <1>4, <1>6, StoreStep

-----------------------------------------------------------------------------
(***************************************************************************)
(* Verdicts on the writes of approvals.                                    *)
(***************************************************************************)

\* The metadata an approval writes.
LEMMA TargetFields ==
  ASSUME Typed, NEW c \in Cands
  PROVE  /\ Target(c) \in Meta /\ Target(c).mark = c
         /\ Target(c).summary = cand[c].oldmeta.summary
         /\ Target(c) = [recalls |-> cand[c].oldmeta.recalls, mark |-> c,
                         summary |-> cand[c].oldmeta.summary,
                         importance |-> cand[c].oldmeta.importance]
<1>1. cand[c].oldmeta \in Meta
  BY Fields
<1> QED
  BY <1>1 DEF Target, Meta

\* A memory that carries the mark of an open approval was written by it.
LEMMA MarkedIsDone ==
  ASSUME IInv, NEW c \in Cands, aop[c] = "pending", row.meta.mark = c
  PROVE  effect[c] = "done" /\ cand[c].src < row.rev
<1> USE DEF IInv
<1>1. c # 0 /\ MarkOK(row.rev, c)
  BY CandsNat DEF History, Marks
<1>2. effect[c] # "none" /\ cand[c].src < row.rev
  BY <1>1 DEF MarkOK
<1>3. Local(c) /\ effect[c] \in {"none", "done", "undone"}
  BY DEF Typed
<1> QED
  BY <1>2, <1>3 DEF Local

\* A verified approval closes its intent, by the request or by a start.
LEMMA ApproveStep ==
  ASSUME IInv, NEW c \in Cands, cand' = Approved(c), aop' = [aop EXCEPT ![c] = "none"],
         task' = [task EXCEPT ![c] = "idle"], todo' = todo \ {c}, NoFault,
         IsApplied(c), aop[c] = "pending", phase # "rollbacks",
         UNCHANGED <<row, rop, asked, phase, effect, since>>
  PROVE  IInv'
<1> USE DEF IInv
<1>1. row.text = cand[c].proposed /\ row.meta.mark = c
  BY TargetFields DEF IsApplied
<1>2. effect[c] = "done" /\ cand[c].src < row.rev /\ row.rev \in Nat /\ cand[c].src \in Nat
  BY <1>1, MarkedIsDone, Fields
<1>3. Typed'
  BY SetApproved, FaultTyped DEF Typed, Steps
<1>4. /\ OthersSame(c) /\ cand'[c].status = "approved" /\ cand'[c].src = cand[c].src
      /\ cand'[c].old = cand[c].old /\ cand'[c].oldmeta = cand[c].oldmeta
      /\ cand'[c].proposed = cand[c].proposed /\ cand'[c].arev = row.rev
      /\ aop'[c] = "none" /\ task'[c] = "idle"
  BY SetApproved DEF OthersSame, Same, Typed
<1>5. Local(c) /\ cand[c].status = "pending" /\ RevOf(c)
  BY DEF Local, History, Revs
<1>6. Local(c)'
  BY <1>2, <1>4, <1>5 DEF Local, Snapshot, Applying, Undoing
<1>7. \A d \in Cands : Local(d)'
  BY <1>4, <1>6, LocalStep
<1>8. \A d \in Cands : /\ cand'[d].src = cand[d].src /\ cand'[d].oldmeta = cand[d].oldmeta
                       /\ cand'[d].status = "none" <=> cand[d].status = "none"
  BY <1>4, <1>5 DEF OthersSame, Same
<1>9. Revs'
  <2>1. RevOf(c)'
    BY <1>1, <1>2, <1>4 DEF RevOf
  <2>2. ASSUME NEW d \in Cands, d # c PROVE RevOf(d)'
    BY <1>4, <2>2 DEF RevOf, OthersSame, Same, History, Revs
  <2> QED
    BY <2>1, <2>2 DEF Revs
<1>10. OneWriter'
  BY <1>8 DEF History, OneWriter
<1>11. MarkOK(row.rev, row.meta.mark)'
  <2>1. row.meta.mark \in {0} \cup Cands /\ MarkOK(row.rev, row.meta.mark)
    BY Fields DEF History, Marks
  <2> QED
    BY <1>8, <2>1 DEF MarkOK
<1>12. ASSUME NEW d \in Cands, cand'[d].status # "none"
       PROVE  MarkOK(cand[d].src, cand[d].oldmeta.mark)'
  <2>1. MarkOK(cand[d].src, cand[d].oldmeta.mark) /\ cand[d].oldmeta.mark \in {0} \cup Cands
    BY <1>8, <1>12, Fields DEF History, Marks
  <2> QED
    BY <2>1, <1>8 DEF MarkOK
<1>13. Pass' /\ Settled'
  BY <1>4, DoneKeeps DEF NoFault
<1> QED
  BY <1>3, <1>7, <1>9, <1>10, <1>11, <1>12, <1>13 DEF History, Marks

\* An approval is verified against the row it reads back.
LEMMA ApplyVerifyStep ==
  ASSUME IInv, NEW c \in Cands, ApplyVerify(c)
  PROVE  IInv'
<1> USE DEF IInv
<1>1. /\ task[c] = "apply_verify" /\ task' = [task EXCEPT ![c] = "idle"] /\ todo' = todo \ {c}
      /\ NoFault /\ UNCHANGED <<row, rop, asked, phase, effect, since>>
  BY DEF ApplyVerify, Done, Step
<1>2. aop[c] = "pending" /\ phase # "rollbacks"
  BY <1>1 DEF Local, Applying, Pass, PassOf
<1>3. CASE Live /\ row.rev # cand[c].src /\ IsApplied(c)
  <2>1. cand' = Approved(c) /\ aop' = [aop EXCEPT ![c] = "none"]
    BY <1>3 DEF ApplyVerify
  <2> QED
    BY <1>1, <1>2, <1>3, <2>1, ApproveStep
<1>4. CASE ~(Live /\ row.rev # cand[c].src /\ IsApplied(c))
  <2>1. UNCHANGED <<cand, aop>>
    BY <1>4 DEF ApplyVerify
  <2>2. Typed'
    BY <1>1, <2>1, FaultTyped DEF Typed, Steps
  <2>3. OthersSame(c) /\ SameSnap(c) /\ task'[c] = "idle"
    BY <1>1, <2>1 DEF OthersSame, Same, SameSnap, Typed
  <2>4. Local(c)'
    BY <1>1, <2>1, <2>3 DEF Local, Snapshot, Applying, Undoing
  <2>5. phase = "applies" => effect[c] = "done" /\ row.meta.summary # "none"
    <3>1. SUFFICES ASSUME phase = "applies"
                   PROVE  effect[c] = "done" /\ row.meta.summary # "none"
      OBVIOUS
    <3>2. PassOf(c) /\ cand[c].src \in Nat
      BY Fields DEF Pass
    <3> QED
      BY <1>1, <1>4, <3>1, <3>2 DEF PassOf, Passing, IsApplied
  <2>6. Pass' /\ Settled'
    BY <1>1, <1>2, <2>1, <2>3, <2>5, DoneKeeps DEF NoFault
  <2> QED
    BY <1>1, <2>1, <2>2, <2>3, <2>4, <2>6, StoreStep
<1> QED
  BY <1>3, <1>4

\* A start that cannot tell whether the write happened fails the candidate.
LEMMA BlockStep ==
  ASSUME IInv, NEW c \in Cands, cand' = [cand EXCEPT ![c].status = "failed"],
         aop' = [aop EXCEPT ![c] = "blocked"], task' = [task EXCEPT ![c] = "idle"],
         todo' = todo \ {c}, Fault \/ NoFault, aop[c] = "pending", phase = "applies",
         task[c] = "idle", UNCHANGED <<row, rop, asked, phase, effect, since>>
  PROVE  IInv'
<1> USE DEF IInv
<1>1. Typed'
  BY SetStatus, FaultTyped DEF Typed, Steps
<1>2. Local(c) /\ cand[c].status = "pending"
  BY DEF Local
<1>3. OthersSame(c) /\ SameSnap(c) /\ task'[c] = "idle" /\ aop'[c] = "blocked"
      /\ cand'[c].status = "failed"
  BY <1>2, SetStatus DEF OthersSame, Same, SameSnap, Typed
<1>4. Local(c)'
  BY <1>2, <1>3 DEF Local, SameSnap, Snapshot, Applying, Undoing
<1>5. faults' \in {faults, faults + 1}
  BY FaultTyped
<1>6. Pass' /\ Settled'
  BY <1>3, <1>5, DoneKeeps
<1> QED
  BY <1>1, <1>3, <1>4, <1>6, StoreStep

\* A start takes an apply intent up again.
LEMMA RecoverApplyStep ==
  ASSUME IInv, NEW c \in Cands, RecoverApply(c)
  PROVE  IInv'
<1> USE DEF IInv
<1>1. /\ phase = "applies" /\ c \in todo /\ \A d \in Cands : task[d] = "idle"
      /\ UNCHANGED <<row, rop, asked, phase, effect, since>>
  BY DEF RecoverApply, Quiet
<1>2. aop[c] = "pending"
  BY <1>1 DEF Pass, PassOf
<1>3. CASE (Fault \/ NoFault) /\ BlockApply(c) /\ Done(c)
  <2>1. /\ cand' = [cand EXCEPT ![c].status = "failed"] /\ aop' = [aop EXCEPT ![c] = "blocked"]
        /\ task' = [task EXCEPT ![c] = "idle"] /\ todo' = todo \ {c}
    BY <1>3 DEF BlockApply, Done, Step
  <2> QED
    BY <1>1, <1>2, <1>3, <2>1, BlockStep
<1>4. CASE IsApplied(c) /\ cand' = Approved(c) /\ aop' = [aop EXCEPT ![c] = "none"]
           /\ Done(c) /\ NoFault
  <2>1. task' = [task EXCEPT ![c] = "idle"] /\ todo' = todo \ {c}
    BY <1>4 DEF Done, Step
  <2> QED
    BY <1>1, <1>2, <1>4, <2>1, ApproveStep
<1>5. CASE Live /\ row.rev = cand[c].src /\ IsRestored(c) /\ Step(c, "apply")
           /\ UNCHANGED <<cand, aop, todo>> /\ NoFault
  <2>1. task' = [task EXCEPT ![c] = "apply"]
    BY <1>5 DEF Step
  <2>2. Typed'
    BY <1>1, <1>5, <2>1, FaultTyped DEF Typed, Steps
  <2>3. OthersSame(c) /\ SameSnap(c) /\ task'[c] = "apply"
    BY <1>1, <1>5, <2>1 DEF OthersSame, Same, SameSnap, Typed
  <2>4. effect[c] = "none"
    BY <1>5, Fields DEF History, Revs, RevOf
  <2>5. Local(c)'
    BY <1>1, <1>2, <1>5, <2>3, <2>4 DEF Local, Snapshot, Applying, Undoing
  <2>6. PassOf(c)'
    BY <1>1, <1>2, <1>5, <2>3 DEF PassOf, Passing, Applying, Undoing, Live, IsRestored
  <2>7. Pass' /\ Settled'
    BY <1>1, <1>5, <2>3, <2>6, GoKeeps DEF NoFault
  <2> QED
    BY <1>1, <2>2, <2>3, <2>5, <2>7, StoreStep
<1> QED
  BY <1>3, <1>4, <1>5 DEF RecoverApply

\* A start takes a rollback intent up again.
LEMMA RecoverUndoStep ==
  ASSUME IInv, NEW c \in Cands, RecoverUndo(c)
  PROVE  IInv'
<1> USE DEF IInv
<1>1. /\ phase = "rollbacks" /\ c \in todo /\ \A d \in Cands : task[d] = "idle"
      /\ UNCHANGED <<row, cand, aop, asked, phase, effect, since>>
  BY DEF RecoverUndo, Quiet
<1>2. Local(c) /\ rop[c] = "pending" /\ cand[c].status = "approved" /\ effect[c] # "none"
  BY <1>1 DEF Pass, PassOf, Local
<1>3. row.rev \in Nat /\ cand[c].src \in Nat /\ cand[c].arev \in Nat
      /\ cand[c].oldmeta.mark \in {0} \cup Cands /\ effect[c] \in {"none", "done", "undone"}
  BY Fields DEF Typed
<1>4. CASE (Fault \/ NoFault) /\ rop' = [rop EXCEPT ![c] = "blocked"] /\ Done(c)
  <2>1. task' = [task EXCEPT ![c] = "idle"] /\ todo' = todo \ {c}
    BY <1>4 DEF Done, Step
  <2>2. Typed'
    BY <1>1, <1>4, <2>1, FaultTyped DEF Typed, Steps
  <2>3. OthersSame(c) /\ SameSnap(c) /\ task'[c] = "idle" /\ rop'[c] = "blocked"
    BY <1>1, <1>4, <2>1 DEF OthersSame, Same, SameSnap, Typed
  <2>4. Local(c)'
    BY <1>1, <1>2, <2>3 DEF Local, Snapshot, Applying, Undoing
  <2>5. faults' \in {faults, faults + 1}
    BY <1>4, FaultTyped
  <2>6. Pass' /\ Settled'
    BY <1>1, <2>1, <2>3, <2>5, DoneKeeps
  <2> QED
    BY <1>1, <2>2, <2>3, <2>4, <2>6, StoreStep
<1>5. ASSUME NEW s \in {"undo", "undo_close"}, Step(c, s), Live, NoFault,
             UNCHANGED <<rop, todo>>, effect[c] = IF s = "undo" THEN "done" ELSE "undone"
      PROVE  IInv'
  <2>1. task' = [task EXCEPT ![c] = s]
    BY <1>5 DEF Step
  <2>2. Typed'
    BY <1>1, <1>5, <2>1, FaultTyped DEF Typed, Steps
  <2>3. OthersSame(c) /\ SameSnap(c) /\ task'[c] = s
    BY <1>1, <1>5, <2>1 DEF OthersSame, Same, SameSnap, Typed
  <2>4. Local(c)'
    BY <1>1, <1>2, <1>5, <2>3 DEF Local, Snapshot, Applying, Undoing
  <2>5. PassOf(c)'
    BY <1>1, <1>2, <1>5, <2>3 DEF PassOf, Passing, Applying, Undoing, Live
  <2>6. Pass' /\ Settled'
    BY <1>1, <1>5, <2>3, <2>5, GoKeeps DEF NoFault
  <2> QED
    BY <1>1, <2>2, <2>3, <2>4, <2>6, StoreStep
<1>6. CASE Live /\ row.rev = cand[c].arev /\ Step(c, "undo") /\ UNCHANGED <<rop, todo>> /\ NoFault
  <2>1. effect[c] = "done"
    BY <1>2, <1>3, <1>6 DEF History, Revs, RevOf
  <2> QED
    BY <1>5, <1>6, <2>1
\* A memory that looks as before the candidate, at a later revision, was written back:
\* otherwise it would carry a mark at least as young as the candidate.
<1>7. CASE Live /\ IsRestored(c) /\ Step(c, "undo_close") /\ UNCHANGED <<rop, todo>> /\ NoFault
  <2>1. effect[c] = "undone"
    <3>1. SUFFICES ASSUME effect[c] = "done" PROVE FALSE
      BY <1>2, <1>3
    <3>2. /\ row.meta.mark = cand[c].oldmeta.mark /\ cand[c].src < row.rev
          /\ MarkOK(row.rev, row.meta.mark) /\ MarkOK(cand[c].src, cand[c].oldmeta.mark)
      BY <1>2, <1>7 DEF IsRestored, History, Revs, RevOf, Marks
    <3>3. row.meta.mark # 0 /\ cand[c].src <= cand[row.meta.mark].src
      BY <3>1, <3>2 DEF MarkOK
    <3>4. cand[row.meta.mark].src < cand[c].src
      BY <3>2, <3>3 DEF MarkOK
    <3>5. cand[row.meta.mark].src \in Nat
      BY <3>3, Fields
    <3> QED
      BY <1>3, <3>3, <3>4, <3>5
  <2> QED
    BY <1>5, <1>7, <2>1
<1> QED
  BY <1>4, <1>6, <1>7 DEF RecoverUndo

-----------------------------------------------------------------------------
(***************************************************************************)
(* Writes of the memory.                                                   *)
(***************************************************************************)

\* What a write must do to keep the history: c is the candidate on whose behalf it is made.
LEMMA WriteRevs ==
  ASSUME Typed, History, row'.rev = row.rev + 1, cand' = cand,
         \A d \in Cands : effect'[d] = "undone" => cand[d].arev # 0
  PROVE  Revs'
<1> SUFFICES ASSUME NEW d \in Cands PROVE RevOf(d)'
  BY DEF Revs
<1>1. row.rev \in Nat /\ cand[d].src \in Nat /\ cand[d].arev \in Nat /\ RevOf(d)
  BY Fields DEF History, Revs
<1> QED
  BY <1>1 DEF RevOf

\* A write of another writer makes a new revision and keeps the history.
LEMMA EditHistory ==
  ASSUME Typed, History, row'.rev = row.rev + 1, cand' = cand, effect' = effect,
         row'.meta.mark = row.meta.mark
  PROVE  History'
<1>1. Revs'
  BY WriteRevs DEF History, Revs, RevOf
<1>2. OneWriter'
  BY DEF History, OneWriter
<1>3. MarkOK(row.rev, row.meta.mark)'
  <2>1. row.rev \in Nat /\ row.meta.mark \in {0} \cup Cands /\ MarkOK(row.rev, row.meta.mark)
        /\ (\A d \in Cands : cand[d].src \in Nat /\ RevOf(d))
    BY Fields DEF History, Marks, Revs
  <2>2. \A d \in Cands : effect[d] = "done" => cand[d].src < row.rev
    BY <2>1 DEF RevOf
  <2> QED
    BY <2>1, <2>2 DEF MarkOK
<1>4. ASSUME NEW d \in Cands, cand'[d].status # "none"
      PROVE  MarkOK(cand[d].src, cand[d].oldmeta.mark)'
  <2>1. MarkOK(cand[d].src, cand[d].oldmeta.mark)
    BY <1>4 DEF History, Marks
  <2> QED
    BY <2>1 DEF MarkOK
<1> QED
  BY <1>1, <1>2, <1>3, <1>4 DEF History, Marks

\* The write of an approval adds its effect to the history.
LEMMA ApplyHistory ==
  ASSUME Typed, History, NEW c \in Cands, row'.rev = row.rev + 1, cand' = cand,
         effect[c] = "none", effect' = [effect EXCEPT ![c] = "done"],
         cand[c].src = row.rev, row'.meta.mark = c
  PROVE  History'
<1>1. /\ row.rev \in Nat /\ \A d \in Cands : cand[d].src \in Nat /\ RevOf(d)
      /\ \A d \in Cands : cand[d].oldmeta.mark \in {0} \cup Cands
  BY Fields DEF History, Revs
<1>2. effect'[c] = "done" /\ \A d \in Cands : d # c => effect'[d] = effect[d]
  BY DEF Typed
<1>3. Revs'
  BY <1>1, <1>2, WriteRevs DEF RevOf
<1>4. \A d \in Cands : effect[d] # "none" => cand[d].src < row.rev
  BY <1>1 DEF RevOf
<1>5. OneWriter'
  BY <1>1, <1>2, <1>4 DEF History, OneWriter
<1>6. MarkOK(row.rev, row.meta.mark)'
  BY <1>1, <1>2, <1>4, CandsNat DEF MarkOK
<1>7. ASSUME NEW d \in Cands, cand'[d].status # "none"
      PROVE  MarkOK(cand[d].src, cand[d].oldmeta.mark)'
  <2>1. MarkOK(cand[d].src, cand[d].oldmeta.mark)
    BY <1>7 DEF History, Marks
  <2>2. cand[d].src <= row.rev
    BY <1>1 DEF RevOf
  <2> QED
    BY <1>1, <1>2, <2>1, <2>2 DEF MarkOK
<1> QED
  BY <1>3, <1>5, <1>6, <1>7 DEF History, Marks

\* The mark of the memory after a rollback is that of the newest write that still stands.
LEMMA UndoHistory ==
  ASSUME Typed, History, NEW c \in Cands, row'.rev = row.rev + 1, cand' = cand,
         effect[c] = "done", effect' = [effect EXCEPT ![c] = "undone"],
         cand[c].arev # 0, cand[c].arev = row.rev, cand[c].status # "none",
         row'.meta.mark = IF cand[c].oldmeta.mark = 0 THEN row.meta.mark
                                                    ELSE cand[c].oldmeta.mark
  PROVE  History'
<1>1. /\ row.rev \in Nat /\ \A d \in Cands : cand[d].src \in Nat /\ RevOf(d)
      /\ \A d \in Cands : cand[d].oldmeta.mark \in {0} \cup Cands
  BY Fields DEF History, Revs
<1>2. effect'[c] = "undone" /\ \A d \in Cands : d # c => effect'[d] = effect[d]
  BY DEF Typed
<1>3. Revs'
  <2>1. \A d \in Cands : effect'[d] = "undone" => cand[d].arev # 0
    BY <1>1, <1>2 DEF RevOf
  <2> QED
    BY <2>1, WriteRevs
<1>4. \A d \in Cands : effect'[d] # "none" <=> effect[d] # "none"
  BY <1>2
<1>5. OneWriter'
  BY <1>4 DEF History, OneWriter
<1>6. row.meta.mark = c /\ cand[c].src < row.rev
  BY <1>1 DEF RevOf
<1>7. \A d \in Cands : effect'[d] = "done" => d # c /\ effect[d] = "done" /\ cand[d].src < row.rev
  BY <1>1, <1>2 DEF RevOf
<1>8. \A d \in Cands : effect'[d] = "done" => cand[d].src <= cand[c].src
  <2>1. MarkOK(row.rev, c)
    BY <1>6 DEF History, Marks
  <2> QED
    BY <1>7, <2>1 DEF MarkOK
<1>9. MarkOK(row.rev, row.meta.mark)'
  <2>1. CASE cand[c].oldmeta.mark = 0
    <3>1. row'.meta.mark = c
      BY <1>6, <2>1
    <3> QED
      BY <1>1, <1>2, <1>6, <1>8, <3>1, CandsNat DEF MarkOK
  <2>2. CASE cand[c].oldmeta.mark # 0
    <3> DEFINE m == cand[c].oldmeta.mark
    <3>1. row'.meta.mark = m /\ m \in Cands /\ MarkOK(cand[c].src, m)
      BY <1>1, <2>2 DEF History, Marks
    <3>2. effect[m] # "none" /\ cand[m].src < cand[c].src /\ cand[m].src \in Nat
      BY <1>1, <2>2, <3>1 DEF MarkOK
    <3>3. \A d \in Cands : effect'[d] = "done" => cand[d].src < cand[c].src
      BY <1>1, <1>7, <1>8 DEF History, OneWriter
    <3>4. \A d \in Cands : effect'[d] = "done" => cand[d].src <= cand[m].src
      BY <1>7, <3>1, <3>3 DEF MarkOK
    <3>5. effect'[m] # "none" /\ m # 0
      BY <1>4, <2>2, <3>1, <3>2
    <3> HIDE DEF m
    <3>6. cand[m].src < row.rev + 1
      BY <1>1, <1>6, <3>2
    <3> QED
      BY <3>1, <3>4, <3>5, <3>6 DEF MarkOK
  <2> QED
    BY <2>1, <2>2
<1>10. ASSUME NEW d \in Cands, cand'[d].status # "none"
       PROVE  MarkOK(cand[d].src, cand[d].oldmeta.mark)'
  <2>1. MarkOK(cand[d].src, cand[d].oldmeta.mark)
    BY <1>10 DEF History, Marks
  <2> QED
    BY <1>1, <1>4, <1>7, <2>1 DEF MarkOK
<1> QED
  BY <1>3, <1>5, <1>9, <1>10 DEF History, Marks

\* The write of an approval happens at most once and at its source revision.
LEMMA ApplyStep ==
  ASSUME IInv, NEW c \in Cands, Apply(c)
  PROVE  IInv'
<1> USE DEF IInv
<1>1. /\ task[c] = "apply" /\ UNCHANGED <<cand, aop, rop, asked, phase, todo, since>>
      /\ (Fault \/ NoFault)
  BY DEF Apply, store
<1>2. Local(c) /\ aop[c] = "pending" /\ cand[c].status = "pending" /\ effect[c] = "none"
  BY <1>1 DEF Local, Applying
<1>3. /\ PassOf(c) /\ phase # "rollbacks" /\ phase # "down" /\ (Passing => Live /\ c \in todo)
      /\ (Passing => \A d \in Cands : d # c => task[d] = "idle")
  BY <1>1 DEF Pass, PassOf, Applying
<1>4. faults' \in {faults, faults + 1} /\ faults' \in 0..MaxFaults /\ calm' \in {"yes", "no"}
  BY <1>1, FaultTyped
<1>5. CASE Step(c, "apply_refused") /\ UNCHANGED <<row, effect>>
  <2>1. task' = [task EXCEPT ![c] = "apply_refused"]
    BY <1>5 DEF Step
  <2>2. Typed'
    BY <1>1, <1>4, <1>5, <2>1 DEF Typed, Steps
  <2>3. OthersSame(c) /\ SameSnap(c) /\ task'[c] = "apply_refused"
    BY <1>1, <1>5, <2>1 DEF OthersSame, Same, SameSnap, Typed
  <2>4. Local(c)'
    BY <1>1, <1>2, <1>5, <2>3 DEF Local, Snapshot, Applying, Undoing
  <2>5. PassOf(c)'
    BY <1>1, <1>2, <1>3, <1>5, <2>3 DEF PassOf, Passing, Applying, Undoing, Live
  <2>6. Pass' /\ Settled'
    BY <1>1, <1>3, <1>4, <1>5, <2>3, <2>5, GoKeeps
  <2> QED
    BY <1>1, <1>5, <2>2, <2>3, <2>4, <2>6, StoreStep
<1>6. CASE /\ CasOK(cand[c].src) /\ row' = Overwritten(cand[c].proposed, Target(c))
           /\ effect' = [effect EXCEPT ![c] = "done"] /\ Step(c, "apply_verify")
  <2>1. task' = [task EXCEPT ![c] = "apply_verify"] /\ Live /\ row.rev = cand[c].src
    BY <1>6 DEF Step, CasOK
  <2>2. cand[c].proposed \in Texts /\ Target(c) \in Meta /\ cand[c].src \in Nat /\ row.rev \in Nat
    BY Fields, TargetFields
  <2>3. /\ row' \in Row /\ row'.state = row.state /\ row'.text = cand[c].proposed
        /\ row'.rev = row.rev + 1 /\ row'.meta = Merged(Target(c), cand[c].proposed)
        /\ row'.meta.mark = c
        /\ (row'.meta.summary = "none" <=> row.meta.summary = "none" /\ Target(c).summary = "none")
    BY <1>6, <2>2, Overwrites, TargetFields, CandsNat
  <2>4. Typed'
    BY <1>1, <1>4, <1>6, <2>1, <2>3 DEF Typed, Steps
  <2>5. OthersSame(c) /\ task'[c] = "apply_verify" /\ effect'[c] = "done"
    BY <1>1, <1>6, <2>1 DEF OthersSame, Same, Typed
  <2>6. Local(c)'
    BY <1>1, <1>2, <2>5 DEF Local, Snapshot, Applying, Undoing
  <2>7. \A d \in Cands : Local(d)'
    BY <2>5, <2>6, LocalStep
  <2>8. History'
    BY <1>1, <1>2, <1>6, <2>1, <2>3, ApplyHistory
  <2>9. phase = "applies" /\ row'.meta.summary = "none" => row'.meta = Target(c)'
    <3>1. SUFFICES ASSUME phase = "applies", row'.meta.summary = "none"
                   PROVE  row'.meta = Target(c)
      BY <1>1 DEF Target
    <3>2. row.meta.summary = "none" /\ cand[c].oldmeta.summary = "none" /\ c # 0
      BY <2>3, <3>1, TargetFields, CandsNat
    <3>3. Merged(Target(c), cand[c].proposed) =
            [recalls |-> cand[c].oldmeta.recalls, mark |-> c, summary |-> "none",
             importance |-> cand[c].oldmeta.importance]
      BY <3>2, TargetFields DEF Merged
    <3> QED
      BY <2>3, <3>2, <3>3, TargetFields
  <2>10. PassOf(c)'
    BY <1>1, <1>2, <1>3, <2>1, <2>2, <2>3, <2>5, <2>9
    DEF PassOf, Passing, Applying, Undoing, Live
  <2>11. Pass' /\ Settled'
    BY <1>1, <1>2, <1>3, <1>4, <2>3, <2>5, <2>10, GoKeeps
  <2> QED
    BY <2>4, <2>7, <2>8, <2>11
<1> QED
  BY <1>5, <1>6 DEF Apply

\* The write of a rollback happens at most once and on the applied state.
LEMMA UndoStep ==
  ASSUME IInv, NEW c \in Cands, Undo(c)
  PROVE  IInv'
<1> USE DEF IInv
<1>1. /\ task[c] = "undo" /\ UNCHANGED <<cand, aop, rop, asked, phase, todo, since>>
      /\ (Fault \/ NoFault)
  BY DEF Undo, store
<1>2. Local(c) /\ rop[c] = "pending" /\ cand[c].status = "approved" /\ effect[c] = "done"
      /\ aop[c] # "pending" /\ cand[c].arev # 0
  BY <1>1 DEF Local, Undoing, Snapshot
<1>3. /\ PassOf(c) /\ phase # "applies" /\ phase # "down" /\ (Passing => Live /\ c \in todo)
      /\ (Passing => \A d \in Cands : d # c => task[d] = "idle")
  BY <1>1 DEF Pass, PassOf, Undoing
<1>4. faults' \in {faults, faults + 1} /\ faults' \in 0..MaxFaults /\ calm' \in {"yes", "no"}
  BY <1>1, FaultTyped
<1>5. CASE Step(c, "undo_refused") /\ UNCHANGED <<row, effect>>
  <2>1. task' = [task EXCEPT ![c] = "undo_refused"]
    BY <1>5 DEF Step
  <2>2. Typed'
    BY <1>1, <1>4, <1>5, <2>1 DEF Typed, Steps
  <2>3. OthersSame(c) /\ SameSnap(c) /\ task'[c] = "undo_refused"
    BY <1>1, <1>5, <2>1 DEF OthersSame, Same, SameSnap, Typed
  <2>4. Local(c)'
    BY <1>1, <1>2, <1>5, <2>3 DEF Local, Snapshot, Applying, Undoing
  <2>5. PassOf(c)'
    BY <1>1, <1>2, <1>3, <1>5, <2>3 DEF PassOf, Passing, Applying, Undoing, Live
  <2>6. Pass' /\ Settled'
    BY <1>1, <1>3, <1>4, <1>5, <2>3, <2>5, GoKeeps
  <2> QED
    BY <1>1, <1>5, <2>2, <2>3, <2>4, <2>6, StoreStep
<1>6. CASE /\ CasOK(cand[c].arev) /\ row' = Overwritten(cand[c].old, cand[c].oldmeta)
           /\ effect' = [effect EXCEPT ![c] = "undone"] /\ Step(c, "undo_verify")
  <2>1. task' = [task EXCEPT ![c] = "undo_verify"] /\ Live /\ row.rev = cand[c].arev
    BY <1>6 DEF Step, CasOK
  <2>2. cand[c].old \in Texts /\ cand[c].oldmeta \in Meta
    BY Fields
  <2>3. /\ row' \in Row /\ row'.state = row.state /\ row'.rev = row.rev + 1
        /\ row'.meta.mark = IF cand[c].oldmeta.mark = 0 THEN row.meta.mark
                                                      ELSE cand[c].oldmeta.mark
        /\ (row'.meta.summary = "none" => row.meta.summary = "none")
    BY <1>6, <2>2, Overwrites
  <2>4. Typed'
    BY <1>1, <1>4, <1>6, <2>1, <2>3 DEF Typed, Steps
  <2>5. OthersSame(c) /\ task'[c] = "undo_verify" /\ effect'[c] = "undone"
    BY <1>1, <1>6, <2>1 DEF OthersSame, Same, Typed
  <2>6. Local(c)'
    BY <1>1, <1>2, <2>5 DEF Local, Snapshot, Applying, Undoing
  <2>7. \A d \in Cands : Local(d)'
    BY <2>5, <2>6, LocalStep
  <2>8. History'
    BY <1>1, <1>2, <1>6, <2>1, <2>3, UndoHistory
  <2>9. PassOf(c)'
    BY <1>1, <1>2, <1>3, <2>1, <2>3, <2>5 DEF PassOf, Passing, Applying, Undoing, Live
  <2>10. Pass' /\ Settled'
    BY <1>1, <1>2, <1>3, <1>4, <2>3, <2>5, <2>9, GoKeeps
  <2> QED
    BY <2>4, <2>7, <2>8, <2>10
<1> QED
  BY <1>5, <1>6 DEF Undo

\* A proposal snapshots the row it was made from.
LEMMA ProposeStep ==
  ASSUME IInv, NEW c \in Cands, NEW text \in Texts, Propose(c, text)
  PROVE  IInv'
<1> USE DEF IInv
<1> DEFINE new == [status |-> "pending", src |-> row.rev, old |-> row.text,
                   oldmeta |-> row.meta, proposed |-> text, arev |-> 0, ameta |-> row.meta]
<1>1. /\ phase = "up" /\ cand[c].status = "none" /\ cand' = [cand EXCEPT ![c] = new] /\ NoFault
      /\ UNCHANGED <<row, aop, rop, task, asked, phase, todo, effect, since>>
  BY DEF Propose
<1>2. row.rev \in Nat /\ row.text \in Texts /\ row.meta \in Meta /\ row.meta.mark \in {0} \cup Cands
      /\ \A d \in Cands : cand[d].oldmeta.mark \in {0} \cup Cands
  BY Fields
<1>3. new \in Cand
  BY <1>2 DEF Cand
<1>4. cand'[c] = new /\ \A d \in Cands : d # c => cand'[d] = cand[d]
  BY <1>1 DEF Typed
<1>5. /\ cand'[c].status = "pending" /\ cand'[c].src = row.rev /\ cand'[c].old = row.text
      /\ cand'[c].oldmeta = row.meta /\ cand'[c].arev = 0
  BY <1>4
<1> HIDE DEF new
<1>6. Typed'
  BY <1>1, <1>3, FaultTyped DEF Typed
<1>7. effect[c] = "none" /\ Local(c)
  BY <1>1 DEF Local
<1>8. OthersSame(c)
  BY <1>1, <1>4 DEF OthersSame, Same
<1>9. Local(c)'
  BY <1>1, <1>5, <1>7 DEF Local, Snapshot, Applying, Undoing
<1>10. \A d \in Cands : Local(d)'
  BY <1>8, <1>9, LocalStep
<1>11. Revs'
  <2>1. RevOf(c)'
    BY <1>1, <1>2, <1>5, <1>7 DEF RevOf
  <2>2. ASSUME NEW d \in Cands, d # c PROVE RevOf(d)'
    BY <1>1, <1>4, <2>2 DEF RevOf, History, Revs
  <2> QED
    BY <2>1, <2>2 DEF Revs
<1>12. OneWriter'
  BY <1>1, <1>4, <1>7 DEF History, OneWriter
<1>13. ASSUME NEW r, NEW m \in {0} \cup Cands, MarkOK(r, m)
       PROVE  /\ m # 0 => effect'[m] # "none" /\ cand'[m].src < r
              /\ \A d \in Cands : effect'[d] = "done" /\ cand'[d].src < r =>
                   m # 0 /\ cand'[d].src <= cand'[m].src
  <2>1. m # 0 => m # c /\ cand'[m] = cand[m]
    BY <1>4, <1>7, <1>13 DEF MarkOK
  <2> QED
    BY <1>1, <1>4, <1>7, <1>13, <2>1 DEF MarkOK
<1>14. MarkOK(row.rev, row.meta.mark)'
  <2>1. MarkOK(row.rev, row.meta.mark)
    BY DEF History, Marks
  <2> QED
    BY <1>1, <1>2, <1>13, <2>1 DEF MarkOK
<1>15. ASSUME NEW d \in Cands, cand'[d].status # "none"
       PROVE  MarkOK(cand[d].src, cand[d].oldmeta.mark)'
  <2>1. CASE d = c
    <3>1. cand'[d].src = row'.rev /\ cand'[d].oldmeta.mark = row'.meta.mark
      BY <1>1, <1>5, <2>1
    <3> QED
      BY <1>14, <3>1 DEF MarkOK
  <2>2. CASE d # c
    <3>1. MarkOK(cand[d].src, cand[d].oldmeta.mark) /\ cand'[d] = cand[d]
      BY <1>4, <1>15, <2>2 DEF History, Marks
    <3> DEFINE r == cand[d].src
               m == cand[d].oldmeta.mark
    <3>2. m \in {0} \cup Cands /\ MarkOK(r, m)
      BY <1>2, <3>1
    <3> HIDE DEF r, m
    <3>3. /\ m # 0 => effect'[m] # "none" /\ cand'[m].src < r
          /\ \A e \in Cands : effect'[e] = "done" /\ cand'[e].src < r =>
               m # 0 /\ cand'[e].src <= cand'[m].src
      BY <1>13, <3>2
    <3>4. cand'[d].src = r /\ cand'[d].oldmeta.mark = m
      BY <3>1 DEF r, m
    <3> QED
      BY <3>3, <3>4 DEF MarkOK
  <2> QED
    BY <2>1, <2>2
<1>16. Pass' /\ Settled'
  BY <1>1, <1>6, UpKeeps DEF NoFault
<1> QED
  BY <1>6, <1>10, <1>11, <1>12, <1>14, <1>15, <1>16 DEF History, Marks

-----------------------------------------------------------------------------
(***************************************************************************)
(* Other writers, the end of the process and the frame of the recovery.    *)
(***************************************************************************)

\* Requests that end leave what is known of a candidate.
LEMMA LocalSame ==
  ASSUME \A c \in Cands : Local(c), cand' = cand, aop' = aop, rop' = rop, effect' = effect,
         \A c \in Cands : task'[c] = task[c] \/ task'[c] = "idle"
  PROVE  \A c \in Cands : Local(c)'
<1> SUFFICES ASSUME NEW c \in Cands PROVE Local(c)'
  OBVIOUS
<1>1. Local(c) /\ (task'[c] = task[c] \/ task'[c] = "idle")
  OBVIOUS
<1> QED
  BY <1>1 DEF Local, Snapshot, Applying, Undoing

\* An edit keeps the mark of the last approval.
LEMMA EditStep ==
  ASSUME IInv, NEW text \in Texts, NEW level \in {"low", "high"}, Edit(text, level)
  PROVE  IInv'
<1> USE DEF IInv
<1> DEFINE m == [row.meta EXCEPT !.importance = level]
<1>1. /\ phase = "up" /\ row' = Overwritten(text, m) /\ calm' = "no"
      /\ UNCHANGED <<cand, aop, rop, task, asked, phase, todo, faults, effect, since>>
  BY DEF Edit, store
<1>2. m \in Meta /\ m.mark = row.meta.mark
  <2>1. row.meta \in Meta
    BY Fields
  <2> QED
    BY <2>1 DEF Meta
<1> HIDE DEF m
<1>3. row' \in Row /\ row'.rev = row.rev + 1 /\ row'.meta.mark = row.meta.mark
  BY <1>1, <1>2, Overwrites
<1>4. Typed'
  BY <1>1, <1>3 DEF Typed
<1>5. \A c \in Cands : Local(c)'
  BY <1>1, LocalSame
<1>6. History'
  BY <1>1, <1>3, EditHistory
<1>7. Pass' /\ Settled'
  BY <1>1, <1>4, UpKeeps
<1> QED
  BY <1>4, <1>5, <1>6, <1>7

\* A counted recall changes metadata and makes no new revision.
LEMMA RecallStep ==
  ASSUME IInv, Recall
  PROVE  IInv'
<1> USE DEF IInv
<1>1. /\ phase = "up" /\ row' = [row EXCEPT !.meta.recalls = row.meta.recalls + 1]
      /\ row.meta.recalls < MaxRecall /\ calm' \in {"yes", "no"}
      /\ UNCHANGED <<cand, aop, rop, task, asked, phase, todo, faults, effect, since>>
  BY DEF Recall, store, Typed
<1>2. row \in Row /\ row.meta \in Meta /\ MaxRecall \in Nat
  BY Fields, ReviewAssumption DEF Typed
<1>3. [row.meta EXCEPT !.recalls = row.meta.recalls + 1] \in Meta
  BY <1>1, <1>2 DEF Meta
<1>4. row' = [row EXCEPT !.meta = [row.meta EXCEPT !.recalls = row.meta.recalls + 1]]
  BY <1>1
<1>5. row' \in Row /\ row'.rev = row.rev /\ row'.text = row.text
      /\ row'.meta = [row.meta EXCEPT !.recalls = row.meta.recalls + 1]
  BY <1>2, <1>3, <1>4 DEF Row
<1>6. row'.meta.mark = row.meta.mark
  BY <1>2, <1>5 DEF Meta
<1>7. Typed'
  BY <1>1, <1>5 DEF Typed
<1>8. History'
  BY <1>1, <1>5, <1>6, StillKeeps DEF Still
<1> QED
  BY <1>1, <1>7, <1>8, LocalSame, UpKeeps

\* A deletion leaves every candidate as it is.
LEMMA DeleteStep ==
  ASSUME IInv, Delete
  PROVE  IInv'
<1> USE DEF IInv
<1>1. /\ phase = "up" /\ row' = [row EXCEPT !.state = "gone"] /\ calm' = "no"
      /\ UNCHANGED <<cand, aop, rop, task, asked, phase, todo, faults, effect, since>>
  BY DEF Delete, store
<1>2. row' \in Row /\ row'.rev = row.rev /\ row'.text = row.text /\ row'.meta = row.meta
  BY <1>1 DEF Row, Typed
<1>3. Typed'
  BY <1>1, <1>2 DEF Typed
<1>4. History'
  BY <1>1, <1>2, StillKeeps DEF Still
<1> QED
  BY <1>1, <1>3, <1>4, LocalSame, UpKeeps

\* Steps that only move the recovery.
LEMMA FrameStep ==
  ASSUME IInv, UNCHANGED <<row, cand, aop, rop, effect>>, Typed', Pass', Settled',
         \A c \in Cands : task'[c] = task[c] \/ task'[c] = "idle"
  PROVE  IInv'
  BY LocalSame, StillKeeps DEF IInv, Still

\* A crash forgets requests and the pass only.
LEMMA CrashStep ==
  ASSUME IInv, Crash
  PROVE  IInv'
<1> USE DEF IInv
<1>1. /\ Fault /\ phase' = "down" /\ task' = [c \in Cands |-> "idle"] /\ asked' = {} /\ todo' = {}
      /\ UNCHANGED <<row, cand, aop, rop, effect, since>>
  BY DEF Crash, store
<1>2. Typed' /\ faults' = faults + 1 /\ faults \in Nat /\ since \in Nat
  BY <1>1, FaultTyped, ReviewAssumption DEF Typed, Steps
<1>3. Pass' /\ Settled'
  BY <1>1, <1>2 DEF Pass, PassOf, Passing, Applying, Undoing, Settled
<1> QED
  BY <1>1, <1>2, <1>3, FrameStep

\* So does stopping.
LEMMA StopStep ==
  ASSUME IInv, Stop
  PROVE  IInv'
<1> USE DEF IInv
<1>1. /\ NoFault /\ phase' = "down" /\ asked' = {} /\ \A c \in Cands : task[c] = "idle"
      /\ UNCHANGED <<row, cand, aop, rop, task, todo, effect, since>>
  BY DEF Stop, store, Quiet
<1>2. Typed'
  BY <1>1, FaultTyped DEF Typed
<1>3. Pass' /\ Settled'
  BY <1>1 DEF Pass, PassOf, Passing, Applying, Undoing, Settled, NoFault
<1> QED
  BY <1>1, <1>2, <1>3, FrameStep

\* A start collects the open apply intents.
LEMMA StartStep ==
  ASSUME IInv, Start
  PROVE  IInv'
<1> USE DEF IInv
<1>1. /\ phase = "down" /\ phase' = "applies" /\ todo' = PendingApplies /\ since' = faults
      /\ faults' = faults /\ calm' = calm /\ UNCHANGED <<row, cand, aop, rop, task, asked, effect>>
  BY DEF Start, store, NoFault
<1>2. Typed' /\ faults \in Nat
  BY <1>1, ReviewAssumption DEF Typed, PendingApplies
<1>3. \A c \in Cands : task'[c] = "idle" /\ (c \in todo' <=> aop'[c] = "pending")
  BY <1>1 DEF Pass, PassOf, PendingApplies
<1>4. Pass' /\ Settled'
  BY <1>1, <1>2, <1>3 DEF Pass, PassOf, Passing, Applying, Undoing, Settled
<1> QED
  BY <1>1, <1>2, <1>4, FrameStep

\* After them it collects the rollback intents.
LEMMA NextPassStep ==
  ASSUME IInv, NextPass
  PROVE  IInv'
<1> USE DEF IInv
<1>1. /\ phase = "applies" /\ todo = {} /\ (Fault \/ NoFault)
      /\ UNCHANGED <<row, cand, aop, rop, task, asked, effect, since>>
  BY DEF NextPass, store
<1>2. faults' \in 0..MaxFaults /\ calm' \in {"yes", "no"} /\ faults' \in {faults, faults + 1}
      /\ faults \in Nat /\ since \in Nat
  BY <1>1, FaultTyped, ReviewAssumption DEF Typed
<1>3. \A c \in Cands : task'[c] = "idle"
  BY <1>1 DEF Pass, PassOf, Passing
<1>4. CASE phase' = "rollbacks" /\ todo' = PendingRollbacks /\ NoFault
  <2>1. Typed' /\ faults' = faults
    BY <1>1, <1>2, <1>4 DEF Typed, PendingRollbacks, NoFault
  <2>2. \A c \in Cands : c \in todo' <=> rop'[c] = "pending"
    BY <1>1, <1>4 DEF PendingRollbacks
  <2>3. Pass'
    BY <1>3, <1>4, <2>2 DEF Pass, PassOf, Passing, Applying, Undoing
  <2>4. Settled'
    BY <1>1, <1>2, <1>4, <2>1, <2>2 DEF Settled, Passing
  <2> QED
    BY <1>1, <2>1, <2>3, <2>4, FrameStep
<1>5. CASE phase' = "up" /\ UNCHANGED todo
  <2>1. Typed'
    BY <1>1, <1>2, <1>5 DEF Typed
  <2>2. Pass' /\ Settled'
    BY <1>1, <1>2, <1>3, <1>5 DEF Pass, PassOf, Passing, Applying, Undoing, Settled
  <2> QED
    BY <1>1, <2>1, <2>2, FrameStep
<1> QED
  BY <1>4, <1>5 DEF NextPass

\* The end of a start: every intent it collected was visited.
LEMMA FinishRecoveryStep ==
  ASSUME IInv, FinishRecovery
  PROVE  IInv'
<1> USE DEF IInv
<1>1. /\ phase' = "up" /\ faults' = faults /\ calm' = calm
      /\ UNCHANGED <<row, cand, aop, rop, task, asked, todo, effect, since>>
  BY DEF FinishRecovery, store, NoFault
<1>2. Typed'
  BY <1>1 DEF Typed
<1>3. Pass' /\ Settled'
  BY <1>1 DEF Pass, PassOf, Passing, Applying, Undoing, Settled
<1> QED
  BY <1>1, <1>2, <1>3, FrameStep

-----------------------------------------------------------------------------
(***************************************************************************)
(* The invariant.                                                          *)
(***************************************************************************)

\* The invariant holds at first.
LEMMA InitInv == Init => IInv
<1> SUFFICES ASSUME Init PROVE IInv
  OBVIOUS
<1>1. PICK t \in Texts, k \in Summaries :
        row = [state |-> "live", text |-> t, rev |-> 1,
               meta |-> [recalls |-> 0, mark |-> 0,
                         summary |-> IF k = "yes" THEN t ELSE "none", importance |-> "low"]]
  BY DEF Init
<1>2. row.meta \in Meta
  BY <1>1, ReviewAssumption DEF Meta
<1>3. row \in Row /\ row.rev = 1 /\ row.meta.mark = 0 /\ row.text \in Texts
  BY <1>1, <1>2 DEF Row
<1> DEFINE new == [status |-> "none", src |-> 0, old |-> row.text, oldmeta |-> row.meta,
                   proposed |-> row.text, arev |-> 0, ameta |-> row.meta]
<1>4. cand = [c \in Cands |-> new]
  BY DEF Init
<1>5. new \in Cand
  BY <1>2, <1>3 DEF Cand
<1>6. new.status = "none" /\ new.src = 0 /\ new.arev = 0
  OBVIOUS
<1> HIDE DEF new
<1>7. \A c \in Cands : /\ cand[c].status = "none" /\ cand[c].src = 0 /\ cand[c].arev = 0
                       /\ aop[c] = "none" /\ rop[c] = "none" /\ task[c] = "idle"
                       /\ effect[c] = "none"
  BY <1>4, <1>6 DEF Init
<1>8. Typed
  BY <1>3, <1>4, <1>5, ReviewAssumption DEF Init, Typed, Steps
<1>9. \A c \in Cands : Local(c)
  BY <1>7 DEF Local, Snapshot, Applying, Undoing
<1>10. Revs /\ OneWriter
  BY <1>3, <1>7 DEF Revs, RevOf, OneWriter
<1>11. Marks
  BY <1>3, <1>7 DEF Marks, MarkOK
<1>12. phase = "up" /\ since = 0 /\ faults = 0
  BY DEF Init
<1>13. Pass /\ Settled
  BY <1>7, <1>12 DEF Pass, PassOf, Passing, Applying, Undoing, Settled
<1> QED
  BY <1>8, <1>9, <1>10, <1>11, <1>13 DEF IInv, History

\* Every step preserves it.
LEMMA NextInv == IInv /\ [Next]_vars => IInv'
<1> SUFFICES ASSUME IInv, [Next]_vars PROVE IInv'
  OBVIOUS
<1>1. ASSUME NEW c \in Cands, Review(c) PROVE IInv'
  BY <1>1, RejectStep, BeginApplyStep, ApplyStep, ApplyRefusedStep, ApplyVerifyStep,
     AskUndoStep, BeginUndoStep, UndoStep, UndoRefusedStep, UndoVerifyStep, UndoCloseStep,
     AbortStep, RecoverApplyStep, RecoverUndoStep DEF Review
<1>2. ASSUME UNCHANGED vars PROVE IInv'
  <2>1. UNCHANGED <<row, cand, aop, rop, task, asked, phase, todo, faults, effect, calm, since>>
    BY <1>2 DEF vars
  <2>2. Typed'
    BY <2>1 DEF IInv, Typed
  <2>3. Pass' /\ Settled'
    BY <2>1 DEF IInv, Pass, PassOf, Passing, Applying, Undoing, Settled, Live, Target
  <2> QED
    BY <2>1, <2>2, <2>3, FrameStep
<1> QED
  BY <1>1, <1>2, ProposeStep, EditStep, RecallStep, DeleteStep, CrashStep, StopStep, StartStep,
     NextPassStep, FinishRecoveryStep DEF Next

\* The inductive invariant of the review holds in every reachable state.
THEOREM Invariance == Spec => []IInv
<1> QED
  BY InitInv, NextInv, PTL DEF Spec

\* Every variable keeps its type, and a candidate remembers an applied revision exactly
\* when complete_apply has approved it.
THEOREM ReviewTypes == Spec => []TypeOK
<1>1. IInv => TypeOK
  BY DEF IInv, Typed, TypeOK, Local
<1> QED
  BY <1>1, Invariance, PTL

\* begin_apply and begin_rollback come before the write they announce: no text of a
\* candidate without verdict is ever in the memory without an intent in the store.
THEOREM WritesAlwaysIntended == Spec => []WritesAreIntended
<1>1. IInv => WritesAreIntended
  BY DEF IInv, Local, WritesAreIntended
<1> QED
  BY <1>1, Invariance, PTL

\* The status complete_apply, complete_rollback, transition and the recovery write agrees
\* with what the candidate did to the text.
THEOREM VerdictsAlwaysTrue == Spec => []VerdictsAreTrue
<1>1. IInv => VerdictsAreTrue
  BY DEF IInv, Local, VerdictsAreTrue
<1> QED
  BY <1>1, Invariance, PTL

\* recover_incomplete_applies and recover_incomplete_rollbacks leave no intent pending, but
\* for a write they retried themselves on a row with a summary.
THEOREM RecoveryAlwaysSettles == Spec => []RecoverySettles
<1>1. IInv => RecoverySettles
  <2> SUFFICES ASSUME IInv, phase = "rollbacks", todo = {}, faults = since
               PROVE  /\ PendingRollbacks = {}
                      /\ \A c \in PendingApplies : effect[c] = "done" /\ row.meta.summary # "none"
    BY DEF RecoverySettles
  <2> QED
    BY DEF IInv, Settled, Passing, PendingRollbacks, PendingApplies
<1> QED
  BY <1>1, Invariance, PTL

-----------------------------------------------------------------------------
(***************************************************************************)
(* The refinement.                                                         *)
(***************************************************************************)

AbstractSame == UNCHANGED <<row.state, row.text, row.rev, Proposals, effect, Verdicts>>

\* The refinement mapping, field by field.
LEMMA VerdictOf ==
  \A c \in Cands : /\ Verdicts[c] = cand[c].status /\ Proposals[c].base = cand[c].src
                   /\ Proposals[c].before = cand[c].old
                   /\ Proposals[c].after = cand[c].proposed
  BY DEF Verdicts, Proposals

\* What changes neither row, candidates nor effects is a stutter of MemoryReview.
LEMMA SameStep ==
  ASSUME UNCHANGED <<row, cand, effect>>
  PROVE  AbstractSame
  BY DEF AbstractSame, Proposals, Verdicts

\* The write of an approval is Apply or not visible.
LEMMA ApplyRefines ==
  ASSUME IInv, NEW c \in Cands, Apply(c)
  PROVE  Abstract!Next \/ AbstractSame
<1> USE DEF IInv
<1>1. task[c] = "apply" /\ cand' = cand
  BY DEF Apply, store
<1>2. CASE UNCHANGED <<row, effect>>
  BY <1>1, <1>2, SameStep
<1>3. CASE /\ CasOK(cand[c].src) /\ row' = Overwritten(cand[c].proposed, Target(c))
           /\ effect' = [effect EXCEPT ![c] = "done"]
  <2>1. cand[c].status = "pending" /\ effect[c] = "none" /\ row.state = "live"
        /\ row.rev = cand[c].src
    BY <1>1, <1>3 DEF Local, Applying, CasOK, Live
  <2>2. row.text = cand[c].old
    BY <2>1 DEF History, Revs, RevOf
  <2>3. cand[c].proposed \in Texts /\ Target(c) \in Meta
    BY Fields, TargetFields
  <2>4. row'.state = row.state /\ row'.text = cand[c].proposed /\ row'.rev = row.rev + 1
    BY <1>3, <2>3, Overwrites
  <2>5. Proposals' = Proposals /\ Verdicts' = Verdicts
    BY <1>1 DEF Proposals, Verdicts
  <2>6. Abstract!Apply(c)
    <3>1. /\ Verdicts[c] = "pending" /\ Proposals[c].base = cand[c].src
          /\ Proposals[c].before = cand[c].old /\ Proposals[c].after = cand[c].proposed
      BY <2>1, VerdictOf
    <3> QED
      BY <1>3, <2>1, <2>2, <2>4, <2>5, <3>1 DEF Abstract!Apply
  <2> QED
    BY <2>6 DEF Abstract!Next
<1> QED
  BY <1>2, <1>3 DEF Apply

\* The write of a rollback is Undo or not visible.
LEMMA UndoRefines ==
  ASSUME IInv, NEW c \in Cands, Undo(c)
  PROVE  Abstract!Next \/ AbstractSame
<1> USE DEF IInv
<1>1. task[c] = "undo" /\ cand' = cand
  BY DEF Undo, store
<1>2. CASE UNCHANGED <<row, effect>>
  BY <1>1, <1>2, SameStep
<1>3. CASE /\ CasOK(cand[c].arev) /\ row' = Overwritten(cand[c].old, cand[c].oldmeta)
           /\ effect' = [effect EXCEPT ![c] = "undone"]
  <2>1. cand[c].status = "approved" /\ effect[c] = "done" /\ row.state = "live"
        /\ row.rev = cand[c].arev /\ cand[c].arev # 0
    BY <1>1, <1>3 DEF Local, Undoing, Snapshot, CasOK, Live
  <2>2. row.text = cand[c].proposed
    BY <2>1 DEF History, Revs, RevOf
  <2>3. cand[c].old \in Texts /\ cand[c].oldmeta \in Meta
    BY Fields
  <2>4. row'.state = row.state /\ row'.text = cand[c].old /\ row'.rev = row.rev + 1
    BY <1>3, <2>3, Overwrites
  <2>5. Proposals' = Proposals /\ Verdicts' = Verdicts
    BY <1>1 DEF Proposals, Verdicts
  <2>6. Abstract!Undo(c)
    <3>1. /\ Verdicts[c] = "approved" /\ Proposals[c].base = cand[c].src
          /\ Proposals[c].before = cand[c].old /\ Proposals[c].after = cand[c].proposed
      BY <2>1, VerdictOf
    <3> QED
      BY <1>3, <2>1, <2>2, <2>4, <2>5, <3>1 DEF Abstract!Undo
  <2> QED
    BY <2>6 DEF Abstract!Next
<1> QED
  BY <1>2, <1>3 DEF Undo

\* A proposal is Propose.
LEMMA ProposeRefines ==
  ASSUME IInv, NEW c \in Cands, NEW text \in Texts, Propose(c, text)
  PROVE  Abstract!Next
<1> USE DEF IInv
<1> DEFINE new == [status |-> "pending", src |-> row.rev, old |-> row.text,
                   oldmeta |-> row.meta, proposed |-> text, arev |-> 0, ameta |-> row.meta]
<1>1. /\ row.state = "live" /\ text # row.text /\ cand[c].status = "none"
      /\ cand' = [cand EXCEPT ![c] = new] /\ UNCHANGED <<row, effect>>
  BY DEF Propose, Live
<1>2. cand'[c] = new /\ \A d \in Cands : d # c => cand'[d] = cand[d]
  BY <1>1 DEF Typed
<1> DEFINE prop == [base |-> row.rev, before |-> row.text, after |-> text]
<1>3. Proposals' = [Proposals EXCEPT ![c] = prop]
  <2>1. cand'[c].src = row.rev /\ cand'[c].old = row.text /\ cand'[c].proposed = text
    BY <1>2
  <2>2. \A d \in Cands : Proposals'[d] = IF d = c THEN prop ELSE Proposals[d]
    BY <1>2, <2>1 DEF Proposals
  <2> HIDE DEF prop
  <2>3. Proposals' = [d \in Cands |-> Proposals'[d]] /\ Proposals = [d \in Cands |-> Proposals[d]]
    BY DEF Proposals
  <2> QED
    BY <2>2, <2>3
<1>4. Verdicts' = [Verdicts EXCEPT ![c] = "pending"]
  <2>1. cand'[c].status = "pending"
    BY <1>2
  <2> HIDE DEF new
  <2> QED
    BY <1>2, <2>1 DEF Verdicts
<1>5. Abstract!Propose(c, text)
  BY <1>1, <1>3, <1>4, VerdictOf DEF Abstract!Propose
<1> QED
  BY <1>5 DEF Abstract!Next

\* A step that gives a verdict is Conclude or not visible.
LEMMA VerdictRefines ==
  ASSUME IInv, NEW c \in Cands,
         Reject(c) \/ ApplyRefused(c) \/ ApplyVerify(c) \/ UndoClose(c) \/ RecoverApply(c)
  PROVE  Abstract!Next \/ AbstractSame
<1> USE DEF IInv
<1>1. UNCHANGED <<row, effect>>
  BY DEF Reject, ApplyRefused, ApplyVerify, UndoClose, RecoverApply
<1>2. Local(c)
  OBVIOUS
<1>3. ASSUME NEW v \in {"rejected", "failed", "rolled_back"},
             cand' = [cand EXCEPT ![c].status = v],
             \/ cand[c].status = "pending" /\ v = "rejected" /\ effect[c] = "none"
             \/ cand[c].status = "pending" /\ v = "failed"
             \/ cand[c].status = "approved" /\ v = "rolled_back" /\ effect[c] = "undone"
      PROVE  Abstract!Next
  <2>1. /\ cand'[c].status = v /\ cand'[c].src = cand[c].src /\ cand'[c].old = cand[c].old
        /\ cand'[c].proposed = cand[c].proposed /\ \A d \in Cands : d # c => cand'[d] = cand[d]
    BY <1>3, SetStatus
  <2>2. Proposals' = Proposals /\ Verdicts' = [Verdicts EXCEPT ![c] = v]
    BY <2>1 DEF Proposals, Verdicts
  <2>3. Abstract!Conclude(c, v)
    BY <1>1, <1>3, <2>2, VerdictOf DEF Abstract!Conclude
  <2> QED
    BY <2>3 DEF Abstract!Next
<1>4. ASSUME cand' = Approved(c), IsApplied(c), aop[c] = "pending"
      PROVE  Abstract!Next
  <2>1. /\ cand'[c].status = "approved" /\ cand'[c].src = cand[c].src
        /\ cand'[c].old = cand[c].old /\ cand'[c].proposed = cand[c].proposed
        /\ \A d \in Cands : d # c => cand'[d] = cand[d]
    BY <1>4, SetApproved
  <2>2. Proposals' = Proposals /\ Verdicts' = [Verdicts EXCEPT ![c] = "approved"]
    BY <2>1 DEF Proposals, Verdicts
  <2>3. row.meta.mark = c
    BY <1>4, TargetFields DEF IsApplied
  <2>4. effect[c] = "done" /\ cand[c].status = "pending"
    BY <1>4, <2>3, MarkedIsDone DEF Local
  <2>5. Abstract!Conclude(c, "approved")
    BY <1>1, <2>2, <2>4, VerdictOf DEF Abstract!Conclude
  <2> QED
    BY <2>5 DEF Abstract!Next
<1>5. CASE Reject(c)
  <2>1. /\ cand' = [cand EXCEPT ![c].status = "rejected"] /\ cand[c].status = "pending"
        /\ aop[c] = "none" /\ effect[c] \in {"none", "done", "undone"}
    BY <1>5 DEF Reject, Typed
  <2>2. effect[c] = "none"
    BY <1>2, <2>1 DEF Local
  <2> QED
    BY <1>3, <2>1, <2>2
<1>6. CASE ApplyRefused(c)
  <2>1. cand' = [cand EXCEPT ![c].status = "rejected"] /\ task[c] = "apply_refused"
    BY <1>6 DEF ApplyRefused
  <2>2. cand[c].status = "pending" /\ effect[c] = "none"
    BY <1>2, <2>1 DEF Local, Applying
  <2> QED
    BY <1>3, <2>1, <2>2
<1>7. CASE ApplyVerify(c)
  <2>1. aop[c] = "pending"
    BY <1>2, <1>7 DEF ApplyVerify, Local, Applying
  <2>2. cand' = cand \/ (cand' = Approved(c) /\ IsApplied(c))
    BY <1>7 DEF ApplyVerify
  <2> QED
    BY <1>1, <1>4, <2>1, <2>2, SameStep
<1>8. CASE UndoClose(c)
  <2>1. task[c] = "undo_close" /\
        (cand' = cand \/ cand' = [cand EXCEPT ![c].status = "rolled_back"])
    BY <1>8 DEF UndoClose
  <2>2. cand[c].status = "approved" /\ effect[c] = "undone"
    BY <1>2, <2>1 DEF Local, Undoing
  <2> QED
    BY <1>1, <1>3, <2>1, <2>2, SameStep
<1>9. CASE RecoverApply(c)
  <2>1. phase = "applies" /\ c \in todo
    BY <1>9 DEF RecoverApply
  <2>2. aop[c] = "pending" /\ cand[c].status = "pending"
    BY <1>2, <2>1 DEF Pass, PassOf, Local
  <2>3. \/ cand' = cand \/ (cand' = Approved(c) /\ IsApplied(c))
        \/ cand' = [cand EXCEPT ![c].status = "failed"]
    BY <1>9 DEF RecoverApply, BlockApply
  <2> QED
    BY <1>1, <1>3, <1>4, <2>2, <2>3, SameStep
<1> QED
  BY <1>5, <1>6, <1>7, <1>8, <1>9

\* Other writers are Edit and Delete.
LEMMA WriterRefines ==
  ASSUME IInv,
         \/ \E text \in Texts, level \in {"low", "high"} : Edit(text, level)
         \/ Recall \/ Delete
  PROVE  Abstract!Next \/ AbstractSame
<1> USE DEF IInv
<1>1. cand' = cand /\ effect' = effect
  BY DEF Edit, Recall, Delete, store
<1>2. Proposals' = Proposals /\ Verdicts' = Verdicts
  BY <1>1 DEF Proposals, Verdicts
<1>3. ASSUME NEW text \in Texts, NEW level \in {"low", "high"}, Edit(text, level)
      PROVE  Abstract!Next
  <2> DEFINE m == [row.meta EXCEPT !.importance = level]
  <2>1. row.state = "live" /\ row' = Overwritten(text, m)
    BY <1>3 DEF Edit, Live
  <2>2. m \in Meta
    BY Fields DEF Meta
  <2> HIDE DEF m
  <2>3. row'.state = row.state /\ row'.text = text /\ row'.rev = row.rev + 1
    BY <2>1, <2>2, Overwrites
  <2>4. Abstract!Edit(text)
    BY <1>1, <1>2, <2>1, <2>3 DEF Abstract!Edit
  <2> QED
    BY <2>4 DEF Abstract!Next
<1>4. CASE Recall
  <2>1. row \in Row /\ row' = [row EXCEPT !.meta.recalls = row.meta.recalls + 1]
    BY <1>4 DEF Recall, Typed
  <2>2. row'.state = row.state /\ row'.text = row.text /\ row'.rev = row.rev
    BY <2>1 DEF Row
  <2> QED
    BY <1>1, <1>2, <2>2 DEF AbstractSame
<1>5. CASE Delete
  <2>1. row \in Row /\ row.state = "live" /\ row' = [row EXCEPT !.state = "gone"]
    BY <1>5 DEF Delete, Live, Typed
  <2>2. row'.state = "gone" /\ row'.text = row.text /\ row'.rev = row.rev
    BY <2>1 DEF Row
  <2>3. Abstract!Delete
    BY <1>1, <1>2, <2>1, <2>2 DEF Abstract!Delete
  <2> QED
    BY <2>3 DEF Abstract!Next
<1> QED
  BY <1>3, <1>4, <1>5

\* Every step is a step of MemoryReview or a stutter.
LEMMA StepRefines == IInv /\ [Next]_vars => [Abstract!Next]_(Abstract!vars)
<1> SUFFICES ASSUME IInv, [Next]_vars PROVE Abstract!Next \/ AbstractSame
  BY DEF Abstract!vars, AbstractSame
<1>1. ASSUME NEW c \in Cands, Review(c) PROVE Abstract!Next \/ AbstractSame
  <2>1. CASE \/ BeginApply(c) \/ AskUndo(c) \/ BeginUndo(c) \/ UndoRefused(c)
             \/ UndoVerify(c) \/ Abort(c) \/ RecoverUndo(c)
    <3>1. UNCHANGED <<row, cand, effect>>
      BY <2>1 DEF BeginApply, AskUndo, BeginUndo, UndoRefused, UndoVerify, Abort, RecoverUndo, store
    <3> QED
      BY <3>1, SameStep
  <2> QED
    BY <1>1, <2>1, ApplyRefines, UndoRefines, VerdictRefines DEF Review
<1>2. CASE Crash \/ Stop \/ Start \/ NextPass \/ FinishRecovery \/ UNCHANGED vars
  <2>1. UNCHANGED <<row, cand, effect>>
    BY <1>2 DEF Crash, Stop, Start, NextPass, FinishRecovery, store, vars
  <2> QED
    BY <2>1, SameStep
<1> QED
  BY <1>1, <1>2, ProposeRefines, WriterRefines DEF Next

\* The initial states correspond.
LEMMA InitRefines == Init => Abstract!Init
<1> SUFFICES ASSUME Init PROVE Abstract!Init
  OBVIOUS
<1>1. PICK t \in Texts, k \in Summaries :
        row = [state |-> "live", text |-> t, rev |-> 1,
               meta |-> [recalls |-> 0, mark |-> 0,
                         summary |-> IF k = "yes" THEN t ELSE "none", importance |-> "low"]]
  BY DEF Init
<1>2. row.state = "live" /\ row.text \in Texts /\ row.rev = 1
  BY <1>1
<1>3. Proposals = [c \in Cands |-> [base |-> 0, before |-> row.text, after |-> row.text]]
      /\ Verdicts = [c \in Cands |-> "none"]
  BY DEF Init, Proposals, Verdicts
<1> QED
  BY <1>2, <1>3 DEF Init, Abstract!Init

\* The stores, requests and recovery of the review implement MemoryReview.
THEOREM ReviewRefinement == Spec => ImplementsReview
<1> QED
  BY InitRefines, StepRefines, Invariance, PTL DEF Spec, ImplementsReview, Abstract!Spec
=============================================================================
