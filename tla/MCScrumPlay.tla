----------------------------- MODULE MCScrumPlay -----------------------------
(* Instances of ScrumPlay for TLC. *)
EXTENDS ScrumPlay, TLC

CONSTANTS p1, p2, c1, c2, c3

\* Cards of one project.
OneProject == [c \in Card |-> p1]

\* Cards of two projects.
TwoProjects == [c \in Card |-> IF c = c1 THEN p1 ELSE p2]

\* Cards of one project are interchangeable, and so are jobs.
Symmetry == Permutations(Card) \cup Permutations(Job)
=============================================================================
