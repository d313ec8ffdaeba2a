------------------------ MODULE MCWorkspaceTransport ------------------------
(* An instance of WorkspaceTransport: two callers, a connection that is made *)
(* anew whenever it has gone, a directory of two paths.                     *)
EXTENDS WorkspaceTransport, TLC

LOCAL INSTANCE SequencesExt

CONSTANTS w1, w2, x, y

File(content, from) ==
    [content |-> content, from |-> from, preserve |-> FALSE, createOnly |-> FALSE]

\* A file moves and another takes its place; a file goes and one is created
\* that must not exist yet.
MCPlans ==
    {1 :> File(x, NoPath) @@ 2 :> File(x, 1),
     1 :> File(Absent, NoPath) @@ 2 :> [File(x, NoPath) EXCEPT !.createOnly = TRUE]}

-----------------------------------------------------------------------------
(* applyReconciliation on its own: from every state of two paths and for    *)
(* every valid plan over two contents, among them files that change places, *)
(* the work brings about the plan or refuses to replace a file that it may  *)
(* only create, and what it reports is what it did.                         *)

Contents == {x, y, Absent}

AllPlans ==
    LET D == [content : Contents, from : Path \cup {NoPath},
              preserve : BOOLEAN, createOnly : BOOLEAN]
    IN  {plan \in UNION {[P -> D] : P \in SUBSET Path} : ValidPlan(plan)}

\* All tasks in turn, up to the first that refuses; known follows the reports.
Reconcile(before, plan) ==
    FoldLeft(LAMBDA r, task :
                IF r.failed THEN r
                ELSE LET done == Perform(r.files, plan, task)
                     IN  [files |-> done.files, failed |-> done.failed,
                          known |-> Learned(r.known, plan, done.change)],
             [files |-> before, failed |-> FALSE, known |-> before], Work(plan))

ASSUME ReconciliationIsRight ==
    \A plan \in AllPlans, before \in [Path -> Contents] :
        LET after == Reconcile(before, plan)
        IN  /\ after.known = after.files
            /\ after.failed \/ Meets(after.files, plan)
            /\ after.failed => \E p \in DOMAIN plan : plan[p].createOnly

=============================================================================
