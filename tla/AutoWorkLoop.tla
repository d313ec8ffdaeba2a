----------------------------- MODULE AutoWorkLoop -----------------------------
(***************************************************************************)
(* The goroutines behind auto-work (internal/api/scrum_global_autowork.go  *)
(* and scrum_play_autorun.go).  Calls of refreshScrumAutoWorkAsync, by a   *)
(* ticker and by handlers, are coalesced: the first starts a goroutine     *)
(* that scans, later ones leave a note for it.  Handlers also start        *)
(* goroutines that refresh one project and then scan by themselves.  All   *)
(* of them work under scrumAutoWorkMu; what they do there is the module    *)
(* ScrumPlay.                                                              *)
(***************************************************************************)
EXTENDS FiniteSets

CONSTANTS
    Request,    \* calls of refreshScrumAutoWorkAsync
    Loop,       \* goroutines it may start
    Refresher,  \* goroutines of refreshScrumPlayQueueForProjectAsync
    Nobody

ASSUME LoopAssumption == Nobody \notin Loop \cup Refresher

VARIABLES
    flags,      \* scrumAutoWorkAsyncRunning and scrumAutoWorkAsyncPending
    loop,       \* where each scanning goroutine is
    refresher,  \* where each refreshing goroutine is
    mutex,      \* the holder of scrumAutoWorkMu
    request,    \* what became of each call: a scan that began later serves it
    down        \* the lifecycle of the server has ended

vars == <<flags, loop, refresher, mutex, request, down>>

TypeOK ==
    /\ flags \in [running : BOOLEAN, pending : BOOLEAN]
    /\ loop \in [Loop -> {"none", "waiting", "scanning", "scanned"}]
    /\ refresher \in [Refresher -> {"none", "waiting", "starting", "next", "scanning", "over"}]
    /\ mutex \in Loop \cup Refresher \cup {Nobody}
    /\ request \in [Request -> {"none", "asked", "served"}]
    /\ down \in BOOLEAN

Init ==
    /\ flags = [running |-> FALSE, pending |-> FALSE]
    /\ loop = [l \in Loop |-> "none"]
    /\ refresher = [f \in Refresher |-> "none"]
    /\ mutex = Nobody
    /\ request = [r \in Request |-> "none"]
    /\ down = FALSE

\* scrumAutoWorkAsyncPending = true.
Noted == flags' = [flags EXCEPT !.pending = TRUE]

\* refreshScrumAutoWorkAsync, under scrumAutoWorkAsyncMu.
Ask(r) ==
    /\ ~down /\ request[r] = "none"
    /\ request' = [request EXCEPT ![r] = "asked"]
    /\ \/ flags.running /\ Noted /\ UNCHANGED loop
       \/ /\ ~flags.running
          /\ flags' = [flags EXCEPT !.running = TRUE]
          /\ \E l \in Loop : loop[l] = "none" /\ loop' = [loop EXCEPT ![l] = "waiting"]
    /\ UNCHANGED <<refresher, mutex, down>>

\* refreshScrumAutoWork locks scrumAutoWorkMu; calls until now are served by it.
BeginScan(l) ==
    /\ loop[l] = "waiting" /\ mutex = Nobody
    /\ mutex' = l
    /\ loop' = [loop EXCEPT ![l] = "scanning"]
    /\ request' = [r \in Request |-> IF request[r] = "asked" THEN "served" ELSE request[r]]
    /\ UNCHANGED <<flags, refresher, down>>

\* It returns, with an error or without.
EndScan(l) ==
    /\ loop[l] = "scanning"
    /\ mutex' = Nobody
    /\ loop' = [loop EXCEPT ![l] = "scanned"]
    /\ UNCHANGED <<flags, refresher, request, down>>

\* One more scan if somebody asked for it and the server lives, the end otherwise.
Finished(l) ==
    /\ flags' = [running |-> flags.pending /\ ~down, pending |-> FALSE]
    /\ loop' = [loop EXCEPT ![l] = IF flags.pending /\ ~down THEN "waiting" ELSE "none"]

\* The end of the loop's body, under scrumAutoWorkAsyncMu.
GoOn(l) ==
    /\ loop[l] = "scanned"
    /\ Finished(l)
    /\ UNCHANGED <<refresher, mutex, request, down>>

\* A handler starts a refresh of its project.
Spawn(f) ==
    /\ ~down /\ refresher[f] = "none"
    /\ refresher' = [refresher EXCEPT ![f] = "waiting"]
    /\ UNCHANGED <<flags, loop, mutex, request, down>>

\* kickoffAutoWorkAfterReconcile, then refreshScrumAutoWork, each under the mutex.
Lock(f) ==
    /\ mutex = Nobody
    /\ mutex' = f
    /\ \/ refresher[f] = "waiting" /\ refresher' = [refresher EXCEPT ![f] = "starting"]
       \/ refresher[f] = "next" /\ refresher' = [refresher EXCEPT ![f] = "scanning"]
    /\ UNCHANGED <<flags, loop, request, down>>

\* Mutant of Unlock: a refresh that fails keeps the mutex.
UnlockUnlessFailed(f) ==
    /\ mutex = f /\ refresher[f] # "over"
    /\ \E at \in IF refresher[f] = "starting" THEN {"next", "over"} ELSE {"over"} :
        /\ refresher' = [refresher EXCEPT ![f] = at]
        /\ mutex' = IF refresher[f] = "starting" /\ at = "over" THEN f ELSE Nobody
    /\ UNCHANGED <<flags, loop, request, down>>

\* A refresh that failed does not scan.
Unlock(f) ==
    /\ mutex = f
    /\ mutex' = Nobody
    /\ \E at \in IF refresher[f] = "starting" THEN {"next", "over"} ELSE {"over"} :
          refresher' = [refresher EXCEPT ![f] = at]
    /\ UNCHANGED <<flags, loop, request, down>>

\* The lifecycle context is cancelled.
ShutDown ==
    /\ ~down
    /\ down' = TRUE
    /\ UNCHANGED <<flags, loop, refresher, mutex, request>>

Next ==
    \/ \E r \in Request : Ask(r)
    \/ \E l \in Loop : BeginScan(l) \/ EndScan(l) \/ GoOn(l)
    \/ \E f \in Refresher : Spawn(f) \/ Lock(f) \/ Unlock(f)
    \/ ShutDown

Spec == Init /\ [][Next]_vars

\* Goroutines are scheduled, scans return, and a mutex of Go is handed to whoever
\* waits for long.
FairSpec ==
    /\ Spec
    /\ \A l \in Loop : SF_vars(BeginScan(l)) /\ WF_vars(EndScan(l)) /\ WF_vars(GoOn(l))
    /\ \A f \in Refresher : WF_vars(Unlock(f))

-----------------------------------------------------------------------------
(* Properties. *)

\* Every call is followed by a scan that began after it, unless the server ends.
CallsAreServed ==
    \A r \in Request : request[r] = "asked" ~> request[r] = "served" \/ down

=============================================================================
