---------------------------- MODULE LedgerClients ----------------------------
(***************************************************************************)
(* Several clients of one coding ledger: the planner loop of a worker      *)
(* (internal/worker/coding_agent_planning.go) and owners at the plan       *)
(* review API (internal/api/coding_plan.go).  A client reads a revision,   *)
(* takes its time, and then sends a command that names the revision it     *)
(* read.  Planner writes carry no step authority, so the revision number   *)
(* is all that protects the plan from commands composed against an older   *)
(* one.                                                                    *)
(*                                                                         *)
(* The job's own transitions (replan, cancel, task acceptance, completion) *)
(* appear here without their job-side guards, which JobLifecycle adds.     *)
(***************************************************************************)
EXTENDS CodingLedger

CONSTANT Client

VARIABLES
    view,       \* what each client has on screen: a revision and its items
    delivered,  \* history: the contract each task was accepted under, if any,
                \* as the set of <<task, contract>> a worker got accepted
    signed      \* history: <<task, contract>> that some client agreed to

clientVars == <<view, delivered, signed>>
vars == <<ledgerVars, clientVars>>

NoView == [revision |-> 0, plan |-> [t \in Task |-> AbsentItem]]

Pairs == Task \X (Contract \cup {NoContract})

TypeOK ==
    /\ LedgerTypeOK
    /\ view \in [Client -> [revision : Nat, plan : [Task -> Item]]]
    /\ delivered \in SUBSET Pairs
    /\ signed \in SUBSET Pairs

Init ==
    /\ LedgerInit
    /\ view = [c \in Client |-> NoView]
    /\ delivered = {}
    /\ signed = {}

\* GetCodingPlan / CurrentCodingLedger: a client loads the current revision.
Read(c) ==
    /\ ledger.state # "absent"
    /\ view' = [view EXCEPT ![c] = [revision |-> ledger.revision, plan |-> plan]]
    /\ UNCHANGED <<ledgerVars, delivered, signed>>

Create ==
    /\ \E items \in [Task -> {AbsentItem} \cup {ActiveItem(k) : k \in Contract}] :
          /\ \E t \in Task : IsActive(items[t])
          /\ CreateCodingLedger(items)
    /\ UNCHANGED clientVars

\* The contract client c means when it agrees to task t: the one it sends
\* along, or, for a bare review, the one it has on screen.
MeantContract(c, t, item) ==
    IF item.contract = plan[t].contract THEN view[c].plan[t].contract ELSE item.contract

\* Mutations of one item, without and with an agreement; edits of several
\* items are several mutations.
Edit(c) ==
    /\ \E t \in Task : \E item \in Changed(t) :
          ApplyCodingLedgerMutation(view[c].revision, [plan EXCEPT ![t] = item])
    /\ UNCHANGED clientVars

Agree(c) ==
    \E t \in Task : \E item \in Agreed(t) :
        /\ ApplyCodingLedgerMutation(view[c].revision, [plan EXCEPT ![t] = item])
        /\ signed' = signed \cup {<<t, MeantContract(c, t, item)>>}
        /\ UNCHANGED <<view, delivered>>

Repropose(c) ==
    /\ ProposeUnchanged(view[c].revision)
    /\ UNCHANGED clientVars

Freeze(c) ==
    /\ FreezeCodingLedger(view[c].revision)
    /\ UNCHANGED clientVars

Reopen ==
    /\ ledger.state = "frozen"
    /\ SupersedeCodingAuthority
    /\ UNCHANGED clientVars

Cancel ==
    /\ ledger.state # "absent"
    /\ CancelCodingAuthority
    /\ UNCHANGED clientVars

Accept ==
    \E t \in Task :
        /\ AcceptTask(t)
        /\ delivered' = delivered \cup {<<t, approved[t]>>}
        /\ UNCHANGED <<view, signed>>

Complete ==
    /\ CompleteCodingLedger
    /\ UNCHANGED clientVars

Next ==
    \/ Create
    \/ Reopen
    \/ Cancel
    \/ Accept
    \/ Complete
    \/ \E c \in Client : Read(c) \/ Edit(c) \/ Agree(c) \/ Repropose(c) \/ Freeze(c)

Spec == Init /\ [][Next]_vars

-----------------------------------------------------------------------------
(* Properties. *)

\* A revision number names one content of the plan for good: a client whose
\* revision is the current one is looking at the current items.  Every exact
\* revision check in coding_plan_*.go rests on this.
RevisionNamesContents ==
    \A c \in Client : ledger.revision > 0 /\ view[c].revision = ledger.revision
                       => view[c].plan = plan

\* An owner who freezes the plan approves exactly the items on their screen,
\* however many planner and owner commands ran in between (the expected
\* revision of freezeCodingLedgerTx).
FreezeApprovesWhatWasShown ==
    [][ledger.state # "frozen" /\ ledger'.state = "frozen" =>
         \E c \in Client :
            \A t \in Task :
               approved'[t] = IF IsActive(view[c].plan[t]) THEN view[c].plan[t].contract
                              ELSE NoContract]_vars

\* No task contract is executed that no client ever agreed to: an edit after
\* the review resets the review (applyCodingLedgerOperationsWithRestores).
ApprovedWasSigned ==
    \A t \in Task : approved[t] # NoContract => <<t, approved[t]>> \in signed

\* A row counts as accepted only for the contract some worker really got
\* accepted, across any number of reopenings, amendments, removals,
\* restorations and freezes (createFrozenCodingAgentTasksTx carries rows over).
AcceptedWasDelivered ==
    \A t \in Task : tasks[t] = "accepted" => <<t, approved[t]>> \in delivered

\* Accepted work is not asked for again while the approved contract stays the
\* same from one frozen revision to the next.
AcceptedWorkIsKept ==
    [][\A t \in Task : tasks[t] = "accepted" /\ approved'[t] = approved[t]
                       => tasks'[t] = "accepted"]_vars

\* While tasks run, and after they are done, the plan is the approved one and
\* its rows are exactly the active tasks.
ExecutedPlanIsApproved ==
    ledger.state \in {"frozen", "completed"} =>
        /\ ledger.frozen = ledger.revision
        /\ \A t \in Task : /\ approved[t] = FrozenContract(t)
                            /\ tasks[t] = "none" <=> approved[t] = NoContract

\* A completed ledger has something to show: every approved contract was
\* delivered, and there is at least one.
CompletedWasDelivered ==
    ledger.state = "completed" =>
        /\ \E t \in Task : approved[t] # NoContract
        /\ \A t \in Task : approved[t] # NoContract => <<t, approved[t]>> \in delivered

\* Cancelling leaves no task to pick up, also when the plan had been reopened
\* and frozen_revision was NULL at the time.
CancelledLeavesNothingReady ==
    ledger.state = "cancelled" => \A t \in Task : tasks[t] # "ready"

=============================================================================
