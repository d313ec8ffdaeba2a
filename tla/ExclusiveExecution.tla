------------------------- MODULE ExclusiveExecution -------------------------
(***************************************************************************)
(* What the attempt machinery of internal/queue promises to everything     *)
(* that relies on it: at any time at most one authority may write for a    *)
(* job; an authority is handed out once and never comes back after it is   *)
(* lost; and only its holder adds accepted tasks or finishes the job.      *)
(***************************************************************************)
CONSTANTS Permit, Nobody, Task

VARIABLES
    writer,    \* the authority that may write now, or Nobody
    issued,    \* every authority handed out so far
    accepted,  \* the tasks that count as done
    finished   \* the job is completed

vars == <<writer, issued, accepted, finished>>

Init ==
    /\ writer = Nobody
    /\ issued = {}
    /\ accepted = {}
    /\ finished = FALSE

\* A worker claims: only into a vacancy, and only with a fresh authority.
Grant ==
    /\ writer = Nobody /\ ~finished
    /\ \E a \in Permit \ issued : writer' = a /\ issued' = issued \cup {a}
    /\ UNCHANGED <<accepted, finished>>

\* The authority ends: lease lost, revoked, suspended, failed.
Lose ==
    /\ writer # Nobody
    /\ writer' = Nobody
    /\ UNCHANGED <<issued, accepted, finished>>

Accept ==
    /\ writer # Nobody
    /\ \E t \in Task \ accepted : accepted' = accepted \cup {t}
    /\ UNCHANGED <<writer, issued, finished>>

Finish ==
    /\ writer # Nobody
    /\ finished' = TRUE
    /\ writer' = Nobody
    /\ UNCHANGED <<issued, accepted>>

\* The owner approves another plan, while nobody writes or after taking the
\* pen away: work may be dropped, never credited.
Reapprove ==
    /\ ~finished
    /\ writer' = Nobody
    /\ accepted' \in SUBSET accepted
    /\ UNCHANGED <<issued, finished>>

Next == Grant \/ Lose \/ Accept \/ Finish \/ Reapprove

Spec == Init /\ [][Next]_vars
=============================================================================
