--------------------------- MODULE SummaryProgress ---------------------------
(***************************************************************************)
(* What the summary store promises about the messages of its sessions,     *)
(* without windows, claims, workers, requests or restarts: within an epoch *)
(* messages are planned in order and without gap, each is summarised (or   *)
(* given up) at most once and for good, and the cursor is always exactly   *)
(* as far as the summarised messages reach without gap.  Only a new epoch  *)
(* starts over.                                                            *)
(***************************************************************************)
EXTENDS Integers

CONSTANT Sessions

VARIABLES
  epoch,    \* epoch of each session
  planned,  \* messages of the epoch that lie in a window
  done,     \* those whose window is completed or abandoned
  cursor

vars == <<epoch, planned, done, cursor>>

\* Without gap from the first message on.
Gapless(P) == \A q \in P : 1..q \subseteq P

\* From the first message on, D reaches exactly as far as n.
Reaches(D, n) == n \in Nat /\ 1..n \subseteq D /\ n + 1 \notin D

Init ==
  /\ epoch = [s \in Sessions |-> 1] /\ cursor = [s \in Sessions |-> 0]
  /\ planned = [s \in Sessions |-> {}] /\ done = [s \in Sessions |-> {}]

\* Messages that follow those already planned are planned.
Plan(s) ==
  /\ planned' \in [Sessions -> SUBSET Nat]
  /\ planned[s] \subseteq planned'[s] /\ Gapless(planned'[s])
  /\ \A r \in Sessions \ {s} : planned'[r] = planned[r]
  /\ UNCHANGED <<epoch, done, cursor>>

\* Planned messages are summarised, and the cursors follow.
Settle ==
  /\ done' \in [Sessions -> SUBSET Nat] /\ cursor' \in [Sessions -> Nat]
  /\ \A s \in Sessions : /\ done[s] \subseteq done'[s] /\ done'[s] \subseteq planned[s]
                         /\ Reaches(done'[s], cursor'[s])
  /\ UNCHANGED <<epoch, planned>>

\* The sessions S start over.
Clear(S) ==
  /\ epoch'   = [s \in Sessions |-> IF s \in S THEN epoch[s] + 1 ELSE epoch[s]]
  /\ planned' = [s \in Sessions |-> IF s \in S THEN {} ELSE planned[s]]
  /\ done'    = [s \in Sessions |-> IF s \in S THEN {} ELSE done[s]]
  /\ cursor'  = [s \in Sessions |-> IF s \in S THEN 0 ELSE cursor[s]]

Next ==
  \/ \E s \in Sessions : Plan(s)
  \/ Settle
  \/ \E S \in SUBSET Sessions : Clear(S)

Spec == Init /\ [][Next]_vars
=============================================================================
