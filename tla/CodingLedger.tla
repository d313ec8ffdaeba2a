---------------------------- MODULE CodingLedger ----------------------------
(***************************************************************************)
(* The coding ledger of one job (internal/queue/coding_plan_*.go and the   *)
(* coding_ledger triggers of database/setup.sql): a plan that is edited in *)
(* numbered revisions, frozen by its owner, executed task by task, and     *)
(* reopened when the job is replanned.                                     *)
(*                                                                         *)
(* Each operation is one PostgreSQL transaction that locks the ledger row, *)
(* hence one action here.  The operators take the revision the caller      *)
(* names; who calls them, and when, is the business of the modules that    *)
(* extend this one (LedgerClients, JobLifecycle).                          *)
(***************************************************************************)
EXTENDS Naturals

CONSTANTS
    Task,         \* the identities of ledger items
    Contract,     \* what an item asks for: its payload without review state,
                  \* rank, priority, rationale and provenance
    NoContract,   \* the contract of an item that is not in the plan
    MaxRevision   \* bound on ledger revisions

ASSUME ContractAssumption == NoContract \notin Contract

ASSUME MaxRevisionAssumption == MaxRevision \in Nat

VARIABLES
    ledger,    \* row of coding_ledgers
    plan,      \* items of the current revision
    approved,  \* contract of each active task in the last frozen revision
    tasks      \* rows of coding_agent_tasks of the last frozen revision

ledgerVars == <<ledger, plan, approved, tasks>>

LedgerState == {"absent", "proposed", "frozen", "revising", "completed", "cancelled"}

\* frozen is the column frozen_revision, lastFrozen the greatest revision
\* whose own state is 'frozen'; 0 stands for NULL in both.
Ledger == [state : LedgerState, revision : Nat, frozen : Nat, lastFrozen : Nat]

Item == [disposition : {"absent", "active", "tombstoned"},
         contract : Contract \cup {NoContract},
         agreed : BOOLEAN]

TaskState == {"none", "ready", "accepted", "cancelled"}

\* The type of the ledger and of its task rows.
LedgerTypeOK ==
    /\ ledger \in Ledger
    /\ plan \in [Task -> Item]
    /\ approved \in [Task -> Contract \cup {NoContract}]
    /\ tasks \in [Task -> TaskState]

AbsentItem == [disposition |-> "absent", contract |-> NoContract, agreed |-> FALSE]

ActiveItem(c) == [disposition |-> "active", contract |-> c, agreed |-> FALSE]

IsActive(item) == item.disposition = "active"

LedgerInit ==
    /\ ledger = [state |-> "absent", revision |-> 0, frozen |-> 0, lastFrozen |-> 0]
    /\ plan = [t \in Task |-> AbsentItem]
    /\ approved = [t \in Task |-> NoContract]
    /\ tasks = [t \in Task |-> "none"]

-----------------------------------------------------------------------------
(* Edits: the results an operation of a mutation can have on one item. *)

Added(item) == {ActiveItem(c) : c \in {d \in Contract : item.disposition = "absent"}}

\* Mutant of Amended: the agreement survives the new contract.
AmendedInPlace(item) ==
    {[item EXCEPT !.contract = c] : c \in {d \in Contract : IsActive(item)}}

Amended(item) == {ActiveItem(c) : c \in {d \in Contract : IsActive(item)}}

Removed(item) ==
    {i \in {[item EXCEPT !.disposition = "tombstoned", !.agreed = FALSE]} : IsActive(item)}

\* A tombstoned item returns as it was.  An active item whose task was
\* accepted in the last frozen revision goes back to the accepted contract.
\* Either way it has to be reviewed again.
Restored(t, item) ==
    {ActiveItem(c) : c \in {d \in Contract :
        \/ item.disposition = "tombstoned" /\ d = item.contract
        \/ IsActive(item) /\ tasks[t] = "accepted" /\ d = approved[t]}}

Reviewed(item, agree) == {i \in {[item EXCEPT !.agreed = agree]} : IsActive(item)}

\* A changed rank has to be agreed to again.
Reordered(item) == {i \in {[item EXCEPT !.agreed = FALSE]} : IsActive(item)}

\* What one mutation can make of task t without agreeing to it, and what it
\* can make of it when the last operation on the item is an agreement.  A
\* longer list of operations has the result of several mutations, and the
\* removal and restoration of an item are never in the same mutation.
Changed(t) ==
    {plan[t]} \cup Added(plan[t]) \cup Amended(plan[t]) \cup Removed(plan[t])
      \cup Restored(t, plan[t]) \cup Reviewed(plan[t], FALSE) \cup Reordered(plan[t])

Agreed(t) == UNION {Reviewed(item, TRUE) : item \in Changed(t)}

Mutated(t) == Changed(t) \cup Agreed(t)

-----------------------------------------------------------------------------
(* Operations. *)

\* CreateCodingLedger: one ledger per job; no item starts out agreed.
CreateCodingLedger(items) ==
    /\ ledger.state = "absent"
    /\ MaxRevision > 0
    /\ ledger' = [ledger EXCEPT !.state = "proposed", !.revision = 1]
    /\ plan' = items
    /\ UNCHANGED <<approved, tasks>>

\* Mutant of ExactRevision: any revision the ledger ever had will do.
SomeRevision(base) == base <= ledger.revision /\ ledger.revision < MaxRevision

\* Every write of a new revision names the revision it was made from.
ExactRevision(base) == base = ledger.revision /\ ledger.revision < MaxRevision

\* Mutant of NextRevision: a second proposal reuses the number of the first.
NextProposal(base, state) ==
    /\ ExactRevision(base)
    /\ ledger' = [ledger EXCEPT !.state = state,
                                !.revision = IF ledger.state = state THEN @ ELSE @ + 1]

NextRevision(base, state) ==
    /\ ExactRevision(base)
    /\ ledger' = [ledger EXCEPT !.state = state, !.revision = ledger.revision + 1]

Editable == ledger.state \in {"proposed", "revising"}

ApplyCodingLedgerMutation(base, items) ==
    /\ Editable
    /\ NextRevision(base, "proposed")
    /\ plan' = items
    /\ UNCHANGED <<approved, tasks>>

\* ProposeUnchangedCodingLedger: a reopened plan is offered again as it is.
ProposeUnchanged(base) ==
    /\ ledger.state = "revising"
    /\ NextRevision(base, "proposed")
    /\ UNCHANGED <<plan, approved, tasks>>

\* Mutants of FrozenRow: acceptance is carried over to whatever the task asks
\* for now; is not carried over at all; removed tasks get a row.
FrozenRowByName(t) ==
    IF ~IsActive(plan[t]) THEN "none" ELSE IF tasks[t] = "accepted" THEN "accepted" ELSE "ready"

FrozenRowAfresh(t) == IF IsActive(plan[t]) THEN "ready" ELSE "none"

FrozenRowOfRemoved(t) ==
    IF plan[t].disposition = "absent" THEN "none"
    ELSE IF tasks[t] = "accepted" /\ approved[t] = plan[t].contract THEN "accepted"
    ELSE "ready"

\* The row a freeze writes for task t: accepted work is carried over only
\* when the contract is the one that was accepted.
FrozenRow(t) ==
    IF ~IsActive(plan[t]) THEN "none"
    ELSE IF tasks[t] = "accepted" /\ approved[t] = plan[t].contract THEN "accepted"
    ELSE "ready"

FrozenContract(t) == IF IsActive(plan[t]) THEN plan[t].contract ELSE NoContract

\* freezeCodingLedgerTx.
FreezeCodingLedger(base) ==
    /\ ledger.state = "proposed"
    /\ ExactRevision(base)
    /\ \E t \in Task : IsActive(plan[t])
    /\ \A t \in Task : IsActive(plan[t]) => plan[t].agreed
    /\ ledger' = [state |-> "frozen", revision |-> ledger.revision + 1,
                  frozen |-> ledger.revision + 1, lastFrozen |-> ledger.revision + 1]
    /\ approved' = [t \in Task |-> FrozenContract(t)]
    /\ tasks' = [t \in Task |-> FrozenRow(t)]
    /\ UNCHANGED plan

\* transitionCodingAuthorityTx, Superseded: a new generation of the job
\* reopens a frozen plan and leaves one under discussion alone.  A finished
\* ledger refuses the transaction that asks for it.
SupersedeCodingAuthority ==
    /\ ledger.state \notin {"completed", "cancelled"}
    /\ ledger' = IF ledger.state = "frozen"
                 THEN [ledger EXCEPT !.state = "revising", !.frozen = 0] ELSE ledger
    /\ UNCHANGED <<plan, approved, tasks>>

\* Mutant of CancelledRow: looks at frozen_revision, NULL in a reopened ledger.
CancelledFrozenRow(t) ==
    IF tasks[t] = "ready" /\ ledger.frozen # 0 THEN "cancelled" ELSE tasks[t]

CancelledRow(t) == IF tasks[t] = "ready" THEN "cancelled" ELSE tasks[t]

\* transitionCodingAuthorityTx, Canceled: the job is cancelled.
CancelCodingAuthority ==
    /\ ledger.state \notin {"completed", "cancelled"}
    /\ IF ledger.state = "absent" THEN UNCHANGED <<ledger, tasks>>
       ELSE /\ ledger' = [ledger EXCEPT !.state = "cancelled", !.frozen = ledger.lastFrozen]
            /\ tasks' = [t \in Task |-> CancelledRow(t)]
    /\ UNCHANGED <<plan, approved>>

\* AcceptCodingLedgerTask: from ready only; accepted rows never change.
AcceptTask(t) ==
    /\ ledger.state = "frozen"
    /\ tasks[t] = "ready"
    /\ tasks' = [tasks EXCEPT ![t] = "accepted"]
    /\ UNCHANGED <<ledger, plan, approved>>

AllAccepted == \A t \in Task : tasks[t] \in {"none", "accepted"}

\* requireCodingAgentCompletionTx: part of completing the execution step.
CompleteCodingLedger ==
    /\ ledger.state = "frozen"
    /\ AllAccepted
    /\ ledger' = [ledger EXCEPT !.state = "completed"]
    /\ UNCHANGED <<plan, approved, tasks>>

=============================================================================
