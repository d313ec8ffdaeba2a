---------------------------- MODULE MCAttemptLease ----------------------------
(* Small instances of AttemptLease. *)
EXTENDS AttemptLease

CONSTANTS w1, w2

MCWorker == {w1, w2}
=============================================================================
