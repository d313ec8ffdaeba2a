-------------------------- MODULE MCSessionMessages --------------------------
(* Instances of SessionMessages for TLC. *)
EXTENDS SessionMessages
=============================================================================
