---------------------------- MODULE WorkspaceApply ----------------------------
(***************************************************************************)
(* How a prepared reconciliation changes the files of a workspace          *)
(* (internal/workspace/apply.go, reconciliation.go).                       *)
(*                                                                         *)
(* A plan says for some paths what the file there shall be.  Moves come    *)
(* first, then the sources that moves leave behind, then the other files in *)
(* the order of their paths.  A file is installed by renaming a finished   *)
(* temporary file, so that each task is one step.  Contents stand for bytes *)
(* and permissions; directories, and the temporary file a crash may leave, *)
(* are left out.                                                           *)
(***************************************************************************)
EXTENDS Naturals, Sequences

CONSTANTS
    MaxPath,   \* bound on the paths of the workspace
    Content,   \* contents of files
    Absent     \* no file there

ASSUME PathAssumption == MaxPath \in Nat /\ Absent \notin Content

Path == 1..MaxPath   \* in the order of their names
NoPath == 0

Files == [Path -> Content \cup {Absent}]

\* DesiredFile; content is Absent if the file shall not be present.
Desired == [content : Content \cup {Absent}, from : Path \cup {NoPath},
            preserve : BOOLEAN, createOnly : BOOLEAN]

Present(d) == d.content # Absent

\* validateDesiredFiles.
ValidPlan(plan) ==
    \A p \in DOMAIN plan :
        LET d == plan[p]
        IN  /\ ~Present(d) => d.from = NoPath /\ ~d.preserve /\ ~d.createOnly
            /\ d.preserve => d.from = NoPath
            /\ d.createOnly => ~d.preserve /\ d.from = NoPath
            /\ d.from # p
            /\ \A q \in DOMAIN plan : d.from # NoPath /\ plan[q].from = d.from => q = p

\* Change; kind "none" is the absence of one.
Change == [kind : {"none", "create", "replace", "delete", "move"},
           path : Path \cup {NoPath}, source : Path \cup {NoPath}]

NoChange == [kind |-> "none", path |-> NoPath, source |-> NoPath]

-----------------------------------------------------------------------------
MoveTargets(plan) == {p \in DOMAIN plan : plan[p].from # NoPath}

InOrder(S) == SelectSeq([i \in Path |-> i], LAMBDA p : p \in S)

Tasks(kind, paths) == [i \in 1..Len(paths) |-> [kind |-> kind, path |-> paths[i]]]

\* The sources of moves that are not targets of moves, by target.
Abandoned(plan) == {p \in MoveTargets(plan) : plan[p].from \notin MoveTargets(plan)}

\* applyReconciliation: the order of the work.
Work(plan) ==
    Tasks("move", InOrder(MoveTargets(plan)))
      \o Tasks("abandon", InOrder(Abandoned(plan)))
      \o Tasks("file", InOrder(DOMAIN plan \ MoveTargets(plan)))

\* recordVerifiedChange: what a task did; failed: it refused to.
Nothing(files) == [files |-> files, change |-> NoChange, failed |-> FALSE]
Refused(files) == [files |-> files, change |-> NoChange, failed |-> TRUE]

\* applyFile, where the destination does not have the content yet.
Install(files, p, content) ==
    [files |-> [files EXCEPT ![p] = content],
     change |-> [kind |-> IF files[p] = Absent THEN "create" ELSE "replace",
                 path |-> p, source |-> NoPath],
     failed |-> FALSE]

\* applyDeletion.
Delete(files, p) ==
    IF files[p] = Absent THEN Nothing(files)
    ELSE [files |-> [files EXCEPT ![p] = Absent],
          change |-> [kind |-> "delete", path |-> p, source |-> NoPath], failed |-> FALSE]

\* applyRenameFromMatchingSource is tried for a source that is no target, and
\* succeeds if the source has the desired content.
Movable(files, plan, p) ==
    plan[p].from \notin MoveTargets(plan) /\ files[plan[p].from] = plan[p].content

Move(files, plan, p) ==
    [files |-> [files EXCEPT ![p] = plan[p].content, ![plan[p].from] = Absent],
     change |-> [kind |-> "move", path |-> p, source |-> plan[p].from],
     failed |-> FALSE]

\* applyMoves: a destination that is settled is left alone.
MoveTask(files, plan, p) ==
    IF files[p] = plan[p].content THEN Nothing(files)
    ELSE IF Movable(files, plan, p) THEN Move(files, plan, p)
    ELSE Install(files, p, plan[p].content)

\* applyRequiredFile, applyFile and applyDeletion.
FileTask(files, plan, p) ==
    LET d == plan[p]
    IN  IF ~Present(d) THEN Delete(files, p)
        ELSE IF d.preserve /\ files[p] # Absent THEN Nothing(files)
        ELSE IF d.createOnly /\ files[p] # Absent THEN Refused(files)
        ELSE IF files[p] = d.content THEN Nothing(files)
        ELSE Install(files, p, d.content)

Perform(files, plan, task) ==
    CASE task.kind = "move" -> MoveTask(files, plan, task.path)
      [] task.kind = "abandon" -> Delete(files, plan[task.path].from)
      [] task.kind = "file" -> FileTask(files, plan, task.path)

-----------------------------------------------------------------------------
\* What a plan asks for: every file of it as desired, and no source of a move
\* left that the plan does not want.
Meets(files, plan) ==
    /\ \A p \in DOMAIN plan :
          IF plan[p].preserve THEN files[p] # Absent ELSE files[p] = plan[p].content
    /\ \A p \in MoveTargets(plan) : plan[p].from \notin DOMAIN plan => files[plan[p].from] = Absent

\* What an observer makes of a change: contents are those of the plan.
Learned(known, plan, change) ==
    CASE change.kind \in {"create", "replace"} ->
            [known EXCEPT ![change.path] = plan[change.path].content]
      [] change.kind = "delete" -> [known EXCEPT ![change.path] = Absent]
      [] change.kind = "move" ->
            [known EXCEPT ![change.path] = plan[change.path].content, ![change.source] = Absent]
      [] OTHER -> known

=============================================================================
