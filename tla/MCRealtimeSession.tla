--------------------------- MODULE MCRealtimeSession --------------------------
(* Small instances of RealtimeSession. *)
EXTENDS RealtimeSession

CONSTANTS c1, jobs, scrum, x

MCClient == {c1}
MCInterest == [c \in MCClient |-> {jobs}]
MCAnnounce == [topics |-> {jobs}, key |-> NoKey, content |-> x]
MCMessage == {MCAnnounce, [topics |-> {scrum}, key |-> NoKey, content |-> x]}
=============================================================================
