-------------------------- MODULE SessionMessages ---------------------------
(***************************************************************************)
(* What becomes of the messages an owner sends to a coding job in Agents   *)
(* mode while it runs (internal/queue/channel_session_message_*.go,        *)
(* coding_planning_amendments.go and the workers that drain them).         *)
(*                                                                         *)
(* A message admitted during planning is drained by the planner.  One      *)
(* admitted during execution is bound to the frozen revision it was sent   *)
(* to; it is answered at once, or queued as an amendment that reopens      *)
(* planning at the next task boundary under the identity                   *)
(* redirect_operation_id, survives further generations, and is settled by  *)
(* whichever planner gets to it.                                           *)
(*                                                                         *)
(* The job is reduced to its phase: steps, attempts and leases are the     *)
(* matter of JobLifecycle.  A runtime is the process of a worker that has  *)
(* claimed the open step and holds the workspace mutation fence, so there  *)
(* is one at a time; it may have lost its attempt without knowing it yet.  *)
(***************************************************************************)
EXTENDS Naturals

CONSTANTS
    MaxMessage,     \* bound on the messages admitted
    MaxGeneration,  \* bound on the generations the owner asks for
    MaxEdited,      \* bound on the ledger revisions the owner writes
    MaxTask,        \* bound on the tasks left to accept
    MaxLoss         \* bound on lost leases and crashed workers

ASSUME MessageBoundsAssumption ==
    /\ MaxMessage \in Nat /\ MaxGeneration \in Nat \ {0} /\ MaxEdited \in Nat
    /\ MaxTask \in Nat \ {0} /\ MaxLoss \in Nat

VARIABLES
    phase,       \* status of the job and of the step that is open
    generation,  \* current_generation of the job
    cause,       \* operation that started the current generation
    ledger,      \* row of coding_ledgers
    recorded,    \* operation_id of the ledger revisions
    todo,        \* tasks of the frozen plan that are not accepted
    message,     \* intake, amendment and resolution of each message
    redirect,    \* observed revision of the replan registered for a message
    runtime,     \* the worker
    losses       \* attempts lost so far

vars == <<phase, generation, cause, ledger, recorded, todo, message, redirect, runtime, losses>>

Message == 1..MaxMessage   \* in the order of created_at

\* planning and executing: running, claimed or not; review: the proposal is
\* ready; held: a new generation that InterruptJob left waiting; paused: an
\* interrupted execution; asked: either step waits for an answer.
Open == {"planning", "review", "held", "executing", "paused", "asked"}
Ended == {"failed", "completed", "canceled"}

\* Who wrote a ledger revision or asked for a generation: the replan of a
\* generation, a drained message, the redirection of an amendment.
Operation == {"generation", "message", "redirect"} \X Nat
None == <<"generation", 0>>

Planning == {"turn", "write", "drain", "resolve", "ready"}
Executing == {"run", "interpret", "accept", "boundary", "consume", "amend", "commit", "error"}

Idle == [pc |-> "idle", live |-> FALSE, msg |-> 0, op |-> None, back |-> "idle"]

\* The type of every variable.
TypeOK ==
    /\ phase \in Open \cup Ended
    /\ generation \in Nat \ {0}
    /\ cause \in Operation
    /\ ledger \in [state : {"absent", "proposed", "revising", "frozen", "completed", "cancelled"},
                   revision : Nat]
    /\ recorded \subseteq Operation
    /\ todo \in 0..MaxTask
    /\ message \in [Message -> [generation : Nat, bound : Nat, queued : BOOLEAN,
                                outcome : {"absent", "open", "answer", "failed", "planning", "retired"}]]
    /\ redirect \in [Message -> Nat]
    /\ runtime \in [pc : {"idle"} \cup Planning \cup Executing, live : BOOLEAN, msg : 0..MaxMessage,
                    op : Operation, back : {"idle", "run", "amend"}]
    /\ losses \in 0..MaxLoss

Init ==
    /\ phase = "planning"
    /\ generation = 1
    /\ cause = <<"generation", 1>>
    /\ ledger = [state |-> "absent", revision |-> 0]
    /\ recorded = {}
    /\ todo = 1
    /\ message = [m \in Message |-> [generation |-> 0, bound |-> 0, queued |-> FALSE, outcome |-> "absent"]]
    /\ redirect = [m \in Message |-> 0]
    /\ runtime = Idle
    /\ losses = 0

-----------------------------------------------------------------------------
(* Messages. *)

Pending(m) == message[m].outcome = "open"

\* requireNoPendingChannelSessionMessagesTx: only this generation counts.
NonePending == \A m \in Message : Pending(m) => message[m].generation # generation

\* Mutant of Readable: a planner reads its own generation only.
ReadableNow(m, planning) ==
    /\ Pending(m)
    /\ message[m].generation = generation
    /\ planning \/ ~message[m].queued

\* The WHERE clause of NextChannelSessionMessage.
Readable(m, planning) ==
    /\ Pending(m)
    /\ \/ message[m].generation = generation
       \/ planning /\ message[m].generation < generation /\ message[m].bound > 0
    /\ planning \/ ~message[m].queued

ReadableSet(planning) == {m \in Message : Readable(m, planning)}

\* ORDER BY created_at, operation_id LIMIT 1.
Oldest(m, S) == m \in S /\ \A k \in S : m <= k

Settle(m, outcome) == message' = [message EXCEPT ![m] = [@ EXCEPT !.outcome = outcome]]

\* Mutant of Retired: bound messages go with the generation as well.
RetiredWhole(terminal) ==
    [m \in Message |->
        IF Pending(m) /\ message[m].generation = generation
        THEN [message[m] EXCEPT !.outcome = "retired"] ELSE message[m]]

\* retireChannelSessionMessagesTx.
Retired(terminal) ==
    [m \in Message |->
        IF /\ Pending(m)
           /\ \/ message[m].generation = generation
              \/ terminal /\ message[m].generation < generation /\ message[m].bound > 0
           /\ terminal \/ message[m].bound = 0
        THEN [message[m] EXCEPT !.outcome = "retired"] ELSE message[m]]

\* applyReplanJobTx and the planning branch of interruptJobTx.
StartGeneration(next, operation) ==
    /\ generation' = generation + 1
    /\ phase' = next
    /\ cause' = operation
    /\ ledger' = [ledger EXCEPT !.state = IF ledger.state = "frozen" THEN "revising" ELSE ledger.state]
    /\ message' = Retired(FALSE)

Revoke == runtime' = [runtime EXCEPT !.live = FALSE]

-----------------------------------------------------------------------------
(* The planner: runAgentPlanningAction and finishPlanningConversation. *)

At(pc) == runtime.pc = pc
Live(S) == runtime.live /\ phase \in S

StartPlanning ==
    /\ phase = "planning" /\ runtime = Idle
    /\ runtime' = [Idle EXCEPT !.pc = "turn", !.live = TRUE]
    /\ UNCHANGED <<phase, generation, cause, ledger, recorded, todo, message, redirect, losses>>

\* The turn that started the generation, unless a revision of it exists.
PlanTurn ==
    /\ At("turn") /\ Live({"planning"})
    /\ runtime' = IF cause \in recorded THEN [runtime EXCEPT !.pc = "drain"]
                  ELSE [runtime EXCEPT !.pc = "write", !.op = cause]
    /\ UNCHANGED <<phase, generation, cause, ledger, recorded, todo, message, redirect, losses>>

\* Mutant of Written: the planner goes on to the next message at once.
WrittenUnresolved == "drain"

Written == IF runtime.op[1] = "message" THEN "resolve" ELSE "drain"

\* create- and applyCodingLedgerPlanningTransaction.  The ledger knows nothing
\* of attempts: a planner that was superseded still writes.
WriteRevision ==
    /\ At("write")
    /\ ~Live({"asked"})
    /\ ledger.state \in {"absent", "proposed", "revising"}
    /\ ledger' = [state |-> "proposed", revision |-> ledger.revision + 1]
    /\ recorded' = recorded \cup {runtime.op}
    /\ runtime' = [runtime EXCEPT !.pc = Written, !.op = None]
    /\ UNCHANGED <<phase, generation, cause, todo, message, redirect, losses>>

\* The model proposes no change to a ledger that is already proposed.
WriteNothing ==
    /\ At("write") /\ ~Live({"asked"})
    /\ ledger.state = "proposed"
    /\ runtime' = [runtime EXCEPT !.pc = Written, !.op = None]
    /\ UNCHANGED <<phase, generation, cause, ledger, recorded, todo, message, redirect, losses>>

\* Mutant of Incorporated: the receipt of the redirection is not looked for.
IncorporatedByMessage(m) == <<"message", m>> \in recorded

\* CodingLedgerRevisionForOperation for the message and its redirection.
Incorporated(m) ==
    \/ <<"message", m>> \in recorded
    \/ message[m].bound > 0 /\ <<"redirect", m>> \in recorded

Drain ==
    /\ At("drain") /\ Live({"planning"})
    /\ \/ /\ ReadableSet(TRUE) = {}
          /\ runtime' = [runtime EXCEPT !.pc = "ready"]
       \/ \E m \in Message :
             /\ Oldest(m, ReadableSet(TRUE))
             /\ runtime' = IF Incorporated(m) THEN [runtime EXCEPT !.pc = "resolve", !.msg = m]
                           ELSE [runtime EXCEPT !.pc = "write", !.msg = m, !.op = <<"message", m>>]
    /\ UNCHANGED <<phase, generation, cause, ledger, recorded, todo, message, redirect, losses>>

\* ResolvePlanningSessionMessage with
\* requireCodingPlanningAmendmentTransitionTx and the trigger on resolutions.
ResolvePlanning ==
    /\ At("resolve") /\ Live({"planning"})
    /\ LET m == runtime.msg
       IN  /\ Pending(m)
           /\ ledger.state = "proposed"
           /\ message[m].bound > 0 => /\ generation > message[m].generation
                                      /\ ledger.revision >= message[m].bound
           /\ Settle(m, "planning")
    /\ runtime' = [runtime EXCEPT !.pc = "drain", !.msg = 0]
    /\ UNCHANGED <<phase, generation, cause, ledger, recorded, todo, redirect, losses>>

\* MarkCodingLedgerReviewReady; refused, the planner drains once more.
MarkReviewReady ==
    /\ At("ready") /\ Live({"planning"})
    /\ IF NonePending
       THEN ledger.state = "proposed" /\ phase' = "review" /\ runtime' = Idle
       ELSE UNCHANGED phase /\ runtime' = [runtime EXCEPT !.pc = "drain"]
    /\ UNCHANGED <<generation, cause, ledger, recorded, todo, message, redirect, losses>>

-----------------------------------------------------------------------------
(* The executor: runCodingTaskLoop, runWithSessionMessages and             *)
(* transitionAfterSessionMessages.                                         *)

StartExecution ==
    /\ phase = "executing" /\ runtime = Idle
    /\ runtime' = [Idle EXCEPT !.pc = "run", !.live = TRUE]
    /\ UNCHANGED <<phase, generation, cause, ledger, recorded, todo, message, redirect, losses>>

\* consume: the next message is read, beside the task or before completion.
Consume ==
    /\ At("run") \/ At("consume")
    /\ Live({"executing"})
    /\ \E m \in Message :
          /\ Oldest(m, ReadableSet(FALSE))
          /\ runtime' = [runtime EXCEPT !.pc = "interpret", !.msg = m,
                                        !.back = IF At("run") THEN "run" ELSE "amend"]
    /\ UNCHANGED <<phase, generation, cause, ledger, recorded, todo, message, redirect, losses>>

NothingToConsume ==
    /\ At("consume") /\ Live({"executing"})
    /\ ReadableSet(FALSE) = {}
    /\ runtime' = [runtime EXCEPT !.pc = "amend"]
    /\ UNCHANGED <<phase, generation, cause, ledger, recorded, todo, message, redirect, losses>>

\* resolveChannelSessionMessage, also while the provider waits for an answer:
\* a reply or a recorded failure settles the message; a request for a change
\* is queued if the message is bound, and otherwise meets a replan without
\* observed revision, which is refused.
Interpret ==
    /\ At("interpret") /\ Live({"executing", "asked"})
    /\ LET m == runtime.msg
           fits == message[m].bound > 0 /\ ledger = [state |-> "frozen", revision |-> message[m].bound]
       IN  /\ Pending(m)
           /\ \/ \E outcome \in {"answer", "failed"} : Settle(m, outcome)
              \/ fits /\ message' = [message EXCEPT ![m] = [@ EXCEPT !.queued = TRUE]]
              \/ ~fits /\ UNCHANGED message
           /\ runtime' = [runtime EXCEPT !.pc = IF message' = message THEN "error" ELSE runtime.back,
                                         !.msg = 0, !.back = "idle"]
    /\ UNCHANGED <<phase, generation, cause, ledger, recorded, todo, redirect, losses>>

\* The task, or the review of the goal after the last one, is done and no
\* message is left to consume.
Done ==
    /\ At("run") /\ Live({"executing"})
    /\ ReadableSet(FALSE) = {}
    /\ runtime' = [runtime EXCEPT !.pc = IF todo > 0 THEN "accept" ELSE "consume"]
    /\ UNCHANGED <<phase, generation, cause, ledger, recorded, todo, message, redirect, losses>>

AcceptTask ==
    /\ At("accept") /\ Live({"executing"})
    /\ todo' = todo - 1
    /\ runtime' = [runtime EXCEPT !.pc = "boundary"]
    /\ UNCHANGED <<phase, generation, cause, ledger, recorded, message, redirect, losses>>

\* Mutant of Amendments: those of this generation.
AmendmentsNow == {m \in Message : Pending(m) /\ message[m].queued /\ message[m].generation = generation}

Amendments == {m \in Message : Pending(m) /\ message[m].queued /\ message[m].generation <= generation}

\* ReplanPendingCodingAmendments: nothing queued, the loop goes on.
NoAmendments ==
    /\ At("boundary") \/ At("amend")
    /\ Live({"executing"})
    /\ Amendments = {}
    /\ runtime' = [runtime EXCEPT !.pc = IF At("boundary") THEN "run" ELSE "commit"]
    /\ UNCHANGED <<phase, generation, cause, ledger, recorded, todo, message, redirect, losses>>

\* The oldest amendment reopens planning; its redirection is a replan_job
\* operation with the revision as part of its payload.  A registered operation
\* is replayed if the payload is the same and refused if it is not.
ReplanAmendments ==
    /\ At("boundary") \/ At("amend")
    /\ Live({"executing"})
    /\ \E m \in Message :
          /\ Oldest(m, Amendments)
          /\ IF redirect[m] = 0
             THEN /\ StartGeneration("planning", <<"redirect", m>>)
                  /\ redirect' = [redirect EXCEPT ![m] = ledger.revision]
                  /\ runtime' = Idle
             ELSE /\ runtime' = IF redirect[m] = ledger.revision THEN Idle
                                ELSE [runtime EXCEPT !.pc = "error"]
                  /\ UNCHANGED <<phase, generation, cause, ledger, message, redirect>>
    /\ UNCHANGED <<recorded, todo, losses>>

\* CompleteStep; refused, the executor consumes once more.
CompleteStep ==
    /\ At("commit") /\ Live({"executing"})
    /\ IF NonePending
       THEN /\ phase' = "completed"
            /\ ledger' = [ledger EXCEPT !.state = "completed"]
            /\ runtime' = Idle
       ELSE /\ runtime' = [runtime EXCEPT !.pc = "consume"]
            /\ UNCHANGED <<phase, ledger>>
    /\ UNCHANGED <<generation, cause, recorded, todo, message, redirect, losses>>

Calling == At("write") \/ At("run") \/ (At("interpret") /\ runtime.back = "run")

\* WaitForCodingNativeInput, from the goroutine that runs the provider; the
\* attempt goes on.
WaitForNativeInput ==
    /\ Calling /\ Live({"planning", "executing"})
    /\ phase' = "asked"
    /\ UNCHANGED <<generation, cause, ledger, recorded, todo, message, redirect, runtime, losses>>

\* WaitForCodingExecutionInput closes the attempt.
WaitForExecutionInput ==
    /\ At("write") \/ At("run")
    /\ Live({"planning", "executing"})
    /\ phase' = "asked"
    /\ runtime' = Idle
    /\ UNCHANGED <<generation, cause, ledger, recorded, todo, message, redirect, losses>>

\* FailStep, after whatever error the runtime met.
FailStep ==
    /\ ~At("idle") /\ Live({"planning", "executing", "asked"})
    /\ phase' = "failed"
    /\ message' = Retired(TRUE)
    /\ runtime' = Idle
    /\ UNCHANGED <<generation, cause, ledger, recorded, todo, redirect, losses>>

\* The lease runs out.
LoseAttempt ==
    /\ runtime.live /\ losses < MaxLoss
    /\ losses' = losses + 1
    /\ Revoke
    /\ UNCHANGED <<phase, generation, cause, ledger, recorded, todo, message, redirect>>

\* watchStepControl, a refused call or a crash ends a runtime without attempt.
Stop ==
    /\ ~At("idle") /\ ~runtime.live
    /\ runtime' = Idle
    /\ UNCHANGED <<phase, generation, cause, ledger, recorded, todo, message, redirect, losses>>

-----------------------------------------------------------------------------
(* The owner. *)

Bound == IF ledger.state = "frozen" THEN ledger.revision ELSE 0

\* submitChannelSessionMessageTx; a repetition finds the intake and changes
\* nothing.
SubmitMessage(m) ==
    /\ phase \in {"planning", "executing"}
    /\ message[m].outcome = "absent"
    /\ \A k \in Message : k < m => message[k].outcome # "absent"
    /\ message' = [message EXCEPT ![m] =
          [generation |-> generation, bound |-> Bound, queued |-> FALSE, outcome |-> "open"]]
    /\ UNCHANGED <<phase, generation, cause, ledger, recorded, todo, redirect, runtime, losses>>

ReplanJob ==
    /\ phase \in Open /\ generation < MaxGeneration
    /\ StartGeneration("planning", <<"generation", generation + 1>>)
    /\ Revoke
    /\ UNCHANGED <<recorded, todo, redirect, losses>>

InterruptPlanning ==
    /\ phase = "planning" /\ generation < MaxGeneration
    /\ StartGeneration("held", <<"generation", generation + 1>>)
    /\ Revoke
    /\ UNCHANGED <<recorded, todo, redirect, losses>>

PauseJob ==
    /\ phase = "executing"
    /\ phase' = "paused"
    /\ Revoke
    /\ UNCHANGED <<generation, cause, ledger, recorded, todo, message, redirect, losses>>

\* resumeFrozenCodingTx, after a pause or a failure.
ResumeJob ==
    /\ phase = "paused" \/ (phase = "failed" /\ ledger.state = "frozen")
    /\ phase' = "executing"
    /\ UNCHANGED <<generation, cause, ledger, recorded, todo, message, redirect, runtime, losses>>

\* The reply to a question, of the planner or of the executor.
ReplyToInput ==
    /\ phase = "asked"
    /\ phase' = IF ledger.state = "frozen" THEN "executing" ELSE "planning"
    /\ UNCHANGED <<generation, cause, ledger, recorded, todo, message, redirect, runtime, losses>>

\* ApplyCodingLedgerControl.
EditLedger ==
    /\ phase \in Open
    /\ ledger.state \in {"proposed", "revising"} /\ ledger.revision < MaxEdited
    /\ ledger' = [state |-> "proposed", revision |-> ledger.revision + 1]
    /\ UNCHANGED <<phase, generation, cause, recorded, todo, message, redirect, runtime, losses>>

\* FreezeAndStartCodingLedger, whatever the planning step waits for.  Accepted
\* tasks stay accepted, new and amended ones are ready.
FreezeAndStart ==
    /\ phase \in {"review", "held", "asked"}
    /\ ledger.state = "proposed"
    /\ ledger' = [state |-> "frozen", revision |-> ledger.revision + 1]
    /\ \E n \in todo..MaxTask : todo' = n
    /\ phase' = "executing"
    /\ Revoke
    /\ UNCHANGED <<generation, cause, recorded, message, redirect, losses>>

CancelJob ==
    /\ phase \in Open
    /\ phase' = "canceled"
    /\ ledger' = [ledger EXCEPT !.state = IF ledger.state = "absent" THEN "absent" ELSE "cancelled"]
    /\ message' = Retired(TRUE)
    /\ Revoke
    /\ UNCHANGED <<generation, cause, recorded, todo, redirect, losses>>

-----------------------------------------------------------------------------
Planner ==
    \/ StartPlanning \/ PlanTurn \/ WriteRevision \/ WriteNothing
    \/ Drain \/ ResolvePlanning \/ MarkReviewReady

Executor ==
    \/ StartExecution \/ Consume \/ NothingToConsume \/ Interpret \/ Done \/ AcceptTask
    \/ NoAmendments \/ ReplanAmendments \/ CompleteStep

Worker == Planner \/ Executor \/ Stop

Trouble == WaitForNativeInput \/ WaitForExecutionInput \/ FailStep \/ LoseAttempt

Owner ==
    \/ \E m \in Message : SubmitMessage(m)
    \/ ReplanJob \/ InterruptPlanning \/ PauseJob \/ ResumeJob \/ ReplyToInput
    \/ EditLedger \/ FreezeAndStart \/ CancelJob

Next == Worker \/ Trouble \/ Owner

Spec == Init /\ [][Next]_vars

\* A worker polls for claimable steps and goes on with the step it has; a
\* runtime at "error" goes on to FailStep.  Owners and failures owe nothing.
FairSpec == Spec /\ WF_vars(Worker) /\ WF_vars(At("error") /\ FailStep)

-----------------------------------------------------------------------------
(* Properties. *)

\* The owner is asked to review a proposal only when every message sent so far
\* is settled, those sent to earlier generations included, however planning
\* was interrupted, lost or superseded on the way.
ReviewOwesNothing == phase = "review" => \A m \in Message : ~Pending(m)

\* "consumes the initial replan amendment only once via its existing operation
\* receipt" (docs/EVIDENCE_LEDGER.md:7155): once the redirection of a message
\* has entered the plan, the message itself never does, whichever planner was
\* lost or superseded in between.
RedirectionEntersOnce ==
    [][\A m \in Message :
         <<"redirect", m>> \in recorded /\ <<"message", m>> \in recorded' => <<"message", m>> \in recorded]_vars

\* An amendment the owner was told is queued is not forgotten: no job completes
\* while one is open.
CompletedJobHasNoAmendment ==
    phase = "completed" => \A m \in Message : ~(Pending(m) /\ message[m].queued)

\* Bound input survives on the same job: it is retired by a terminal control
\* only, never by an interruption or a replan.
BoundInputSurvives ==
    [][\A m \in Message :
         message[m].bound > 0 /\ message[m].outcome = "open" /\ message'[m].outcome = "retired"
           => phase' \in {"failed", "canceled"}]_vars

\* A cancelled or failed job owes no answer, not even to earlier generations.
EndedJobOwesNothing ==
    phase \in {"canceled", "failed"} => \A m \in Message : ~Pending(m)

\* A job that is left to run gets through its messages: it settles them, or it
\* comes to a point where the owner is asked or the job ends.
MessagesAreWorkedOff ==
    \A m \in Message :
        Pending(m) ~> (~Pending(m) \/ phase \notin {"planning", "executing"})

=============================================================================
