-------------------------- MODULE MCSummaryLedger --------------------------
(* Instances of SummaryLedger for model checking; the bounds are in the cfgs. *)
EXTENDS SummaryLedger
=============================================================================
