--------------------------- MODULE MCLedgerClients ---------------------------
(* Small instances of LedgerClients. *)
EXTENDS LedgerClients, TLC

CONSTANTS t1, t2, k1, k2, c1, c2

MCTask == {t1, t2}
MCContract == {k1, k2}
MCClient == {c1, c2}

Symmetry == Permutations(Contract) \cup Permutations(Client) \cup Permutations(Task)
=============================================================================
