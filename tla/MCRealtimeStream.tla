--------------------------- MODULE MCRealtimeStream ---------------------------
(* Small instances of RealtimeStream. *)
EXTENDS RealtimeStream

CONSTANTS c1, jobs, scrum, card, x, y

MCClient == {c1}
MCInterest == [c \in MCClient |-> {jobs}]
MCMessage ==
    {[topics |-> {jobs}, key |-> NoKey, content |-> x]}
      \cup {[topics |-> {scrum}, key |-> card, content |-> d] : d \in {x, y}}
=============================================================================
