--------------------------- MODULE MCJobLifecycle ---------------------------
(* Small instances of JobLifecycle. *)
EXTENDS JobLifecycle

CONSTANTS t1, k1

MCTask == {t1}
MCContract == {k1}
=============================================================================
