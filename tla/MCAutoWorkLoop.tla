---------------------------- MODULE MCAutoWorkLoop ----------------------------
(* AutoWorkLoop with a few calls and two goroutines of either kind. *)
EXTENDS AutoWorkLoop
=============================================================================
