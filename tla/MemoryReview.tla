---------------------------- MODULE MemoryReview ----------------------------
(***************************************************************************)
(* What the review of reconsolidation candidates promises, without         *)
(* requests, intents, restarts or metadata: a candidate changes the memory *)
(* at most once, only the version it was made from, and is taken back at   *)
(* most once, only while the memory is still what it made of it; the       *)
(* verdict a reviewer sees agrees with what happened.                      *)
(***************************************************************************)
EXTENDS Integers

CONSTANTS Texts, Cands

VARIABLES
  state,     \* "live", or "gone" once the memory is deleted
  text,
  version,   \* revision of the memory
  proposal,  \* [base, before, after] of every candidate
  effect,    \* what a candidate has done to the memory: "none", "done", "undone"
  verdict    \* what the reviewers are told

vars == <<state, text, version, proposal, effect, verdict>>

Init ==
  /\ state = "live" /\ text \in Texts /\ version = 1
  /\ proposal = [c \in Cands |-> [base |-> 0, before |-> text, after |-> text]]
  /\ effect = [c \in Cands |-> "none"]
  /\ verdict = [c \in Cands |-> "none"]

Propose(c, t) ==
  /\ state = "live" /\ verdict[c] = "none" /\ t # text
  /\ proposal' = [proposal EXCEPT ![c] = [base |-> version, before |-> text, after |-> t]]
  /\ verdict' = [verdict EXCEPT ![c] = "pending"]
  /\ UNCHANGED <<state, text, version, effect>>

Apply(c) ==
  /\ state = "live" /\ verdict[c] = "pending" /\ effect[c] = "none"
  /\ version = proposal[c].base /\ text = proposal[c].before
  /\ text' = proposal[c].after /\ version' = version + 1
  /\ effect' = [effect EXCEPT ![c] = "done"]
  /\ UNCHANGED <<state, proposal, verdict>>

Undo(c) ==
  /\ state = "live" /\ verdict[c] = "approved" /\ effect[c] = "done"
  /\ text = proposal[c].after
  /\ text' = proposal[c].before /\ version' = version + 1
  /\ effect' = [effect EXCEPT ![c] = "undone"]
  /\ UNCHANGED <<state, proposal, verdict>>

Conclude(c, v) ==
  /\ \/ verdict[c] = "pending" /\ v = "approved" /\ effect[c] = "done"
     \/ verdict[c] = "pending" /\ v = "rejected" /\ effect[c] = "none"
     \/ verdict[c] = "pending" /\ v = "failed"
     \/ verdict[c] = "approved" /\ v = "rolled_back" /\ effect[c] = "undone"
  /\ verdict' = [verdict EXCEPT ![c] = v]
  /\ UNCHANGED <<state, text, version, proposal, effect>>

\* Every other writer of the memory.
Edit(t) ==
  /\ state = "live" /\ text' = t /\ version' = version + 1
  /\ UNCHANGED <<state, proposal, effect, verdict>>
Delete ==
  /\ state = "live" /\ state' = "gone"
  /\ UNCHANGED <<text, version, proposal, effect, verdict>>

Next ==
  \/ \E c \in Cands : Apply(c) \/ Undo(c)
  \/ \E c \in Cands, t \in Texts : Propose(c, t)
  \/ \E c \in Cands, v \in {"approved", "rejected", "failed", "rolled_back"} : Conclude(c, v)
  \/ \E t \in Texts : Edit(t)
  \/ Delete

Spec == Init /\ [][Next]_vars
=============================================================================
