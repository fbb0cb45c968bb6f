-------------------------- MODULE MCSummaryWindows --------------------------
(* Instances of SummaryWindows for TLC; the bounds are in the cfg files. *)
EXTENDS SummaryWindows
=============================================================================
