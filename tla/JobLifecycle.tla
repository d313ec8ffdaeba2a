---------------------------- MODULE JobLifecycle ----------------------------
(***************************************************************************)
(* One coding job in Agents mode (internal/queue): its generations, the    *)
(* planning and execution steps of each generation, the leased attempts    *)
(* under which workers run a step, the owner's lifecycle commands, and the *)
(* coding ledger they act upon.                                            *)
(*                                                                         *)
(* Every operation is a transaction on the locked job row, hence one       *)
(* action; a refused or rolled back command changes nothing and is no      *)
(* step.  Workers have no state of their own: whoever was issued attempt n *)
(* of step s may present the authority <<s, n>> at any later time, crashed *)
(* and restarted, late, or twice, so the actions of a worker are           *)
(* quantified over all attempts ever issued and rely on the guards of the  *)
(* repository alone.  Writes of the planner to the ledger carry no         *)
(* authority at all and are enabled whenever the ledger accepts them.      *)
(***************************************************************************)
EXTENDS CodingLedger

CONSTANTS
    MaxStep,        \* bound on rows of job_steps
    MaxAttempt,     \* bound on the attempts of a step
    MaxGeneration   \* bound on the generations of the job

ASSUME LifecycleBoundsAssumption ==
    /\ MaxStep \in Nat /\ MaxStep >= 2
    /\ MaxAttempt \in Nat
    /\ MaxGeneration \in Nat /\ MaxGeneration >= 1

VARIABLES
    job,      \* row of jobs: status and current_generation
    step,     \* rows of job_steps, by id
    attempt,  \* status of the rows of job_step_attempts, by step and number
    expired,  \* steps whose current attempt is active past its expires_at
    input,    \* latest parsed response of each open step, and whether it was replied to
    paused,   \* open steps named by a recorded interrupt_job operation
    asking,   \* history: steps that were put to wait for a reply of the owner
    journal,  \* tasks whose latest verdict of this generation is task_accepted
    pending   \* an unresolved channel message of the current generation exists

jobVars == <<job, step, attempt, expired, input, paused, asking, journal, pending>>
vars == <<ledgerVars, jobVars>>

StepId == 1..MaxStep
AttemptNo == 0..MaxAttempt     \* 0: never claimed
Generation == 0..MaxGeneration \* 0: NULL

Open == {"pending", "running", "waiting_input"}
Terminal == {"completed", "failed", "canceled"}

Step == [action : {"v3_coding_plan", "v3_coding"}, generation : Generation,
         status : Open \cup Terminal \cup {"absent"}, attempt : AttemptNo,
         worker : BOOLEAN, superseded : Generation]

AttemptStatus == {"none", "active", "completed", "failed", "waiting_input",
                  "canceled", "superseded", "expired"}

\* none: no response, or one that asks for nothing; question: a question or a
\* permission request; native: a request the provider is blocked on;
\* incomplete: task_incomplete or planning_incomplete.
InputKind == {"none", "question", "native", "incomplete"}

TypeOK ==
    /\ LedgerTypeOK
    /\ job \in [status : Open \cup Terminal, generation : 1..MaxGeneration]
    /\ step \in [StepId -> Step]
    /\ attempt \in [StepId -> [AttemptNo -> AttemptStatus]]
    /\ expired \in SUBSET StepId
    /\ input \in [StepId -> [kind : InputKind, replied : BOOLEAN]]
    /\ paused \in SUBSET StepId
    /\ asking \in SUBSET StepId
    /\ journal \in SUBSET Task
    /\ pending \in BOOLEAN

NewStep(action, generation, status) ==
    [action |-> action, generation |-> generation, status |-> status,
     attempt |-> 0, worker |-> FALSE, superseded |-> 0]

AbsentStep == NewStep("v3_coding", 0, "absent")

NoInput == [kind |-> "none", replied |-> FALSE]

Init ==
    /\ LedgerInit
    /\ job = [status |-> "pending", generation |-> 1]
    /\ step = [s \in StepId |->
                  IF s = 1 THEN NewStep("v3_coding_plan", 1, "pending")
                  ELSE IF s = 2 THEN NewStep("v3_coding", 1, "pending")
                  ELSE AbsentStep]
    /\ attempt = [s \in StepId |-> [n \in AttemptNo |-> "none"]]
    /\ expired = {}
    /\ input = [s \in StepId |-> NoInput]
    /\ paused = {}
    /\ asking = {}
    /\ journal = {}
    /\ pending = FALSE

-----------------------------------------------------------------------------
(* Steps and the authority over them. *)

SortIndex(action) == IF action = "v3_coding_plan" THEN 5 ELSE 10

Live(s) == step[s].status # "absent" /\ step[s].superseded = 0

Current(s) == Live(s) /\ step[s].generation = job.generation

CurrentAttempt(s) == attempt[s][step[s].attempt]

\* lockStepAttemptAuthorityTx: the authority <<s, n>> is still the step's own.
Authority(s, n) ==
    /\ Current(s)
    /\ n = step[s].attempt
    /\ n > 0
    /\ step[s].worker

\* Mutant of Active: the status of the attempt is looked at, its deadline not.
ActiveUndated(s, n) == Authority(s, n) /\ attempt[s][n] = "active"

\* requireLockedStepAttemptActiveTx.
Active(s, n) == Authority(s, n) /\ attempt[s][n] = "active" /\ s \notin expired

\* The state in which a worker may write: everything is running.
Executing(s, n) ==
    Active(s, n) /\ step[s].status = "running" /\ job.status = "running"

\* codingNativeInputWaitingTx: the worker holds its lease across the wait.
NativeWaiting(s) ==
    /\ job.status = "waiting_input"
    /\ step[s].status = "waiting_input"
    /\ input[s].kind = "native" /\ ~input[s].replied

Predecessors(s) ==
    {p \in StepId : Live(p) /\ SortIndex(step[p].action) < SortIndex(step[s].action)}

\* Mutant of Vacant: a resumed step is not offered again.
Abandoned(s) ==
    \/ step[s].status = "pending" /\ step[s].attempt = 0
    \/ step[s].status = "running" /\ CurrentAttempt(s) = "active" /\ s \in expired

\* The step was never claimed, its holder lost the lease, or it was resumed.
Vacant(s) ==
    \/ step[s].status = "pending" /\ step[s].attempt = 0
    \/ step[s].status = "running" /\ CurrentAttempt(s) = "active" /\ s \in expired
    \/ /\ step[s].status = "running" /\ CurrentAttempt(s) = "waiting_input"
       /\ step[s].action = "v3_coding"

\* The WHERE clause of ClaimNextStep.
Claimable(s) ==
    /\ job.status \in {"pending", "running"}
    /\ Current(s)
    /\ Vacant(s)
    /\ \A p \in Predecessors(s) : step[p].status = "completed"

\* Its ORDER BY sort_index, id.
Before(r, s) ==
    \/ SortIndex(step[r].action) < SortIndex(step[s].action)
    \/ SortIndex(step[r].action) = SortIndex(step[s].action) /\ r < s

\* Responses to, interruptions of and waits in a step that has ended are never
\* read again; the model forgets them.
ForgetInputs(S) ==
    /\ input' = [s \in StepId |-> IF s \in S THEN NoInput ELSE input[s]]
    /\ paused' = paused \ S
    /\ asking' = asking \ S
    /\ expired' = expired \ S

-----------------------------------------------------------------------------
(* Operations of workers. *)

\* ClaimNextStep.  The claim stands whether or not the worker learns of it.
ClaimNextStep(s) ==
    /\ Claimable(s)
    /\ \A r \in StepId : Claimable(r) => ~Before(r, s)
    /\ step[s].attempt < MaxAttempt
    /\ attempt' = [attempt EXCEPT ![s] =
          [n \in AttemptNo |->
              IF n = step[s].attempt + 1 THEN "active"
              ELSE IF n = step[s].attempt /\ @[n] = "active" THEN "expired"
              ELSE @[n]]]
    /\ step' = [step EXCEPT ![s] =
          [@ EXCEPT !.status = "running", !.attempt = step[s].attempt + 1, !.worker = TRUE]]
    /\ job' = [job EXCEPT !.status = "running"]
    /\ expired' = expired \ {s}
    /\ UNCHANGED <<ledgerVars, input, paused, asking, journal, pending>>

\* The lease runs out: the holder crashed, is cut off or is too slow.  A lease
\* that is renewed in time (RenewStepAttempt) is one that does not expire.
LeaseExpires(s) ==
    /\ step[s].status \in Open
    /\ step[s].attempt > 0
    /\ CurrentAttempt(s) = "active"
    /\ expired' = expired \cup {s}
    /\ s \notin expired
    /\ UNCHANGED <<ledgerVars, job, step, attempt, input, paused, asking, journal, pending>>

\* CodingAgentEvidence.Append of a parsed response.  The planner records only
\* planning_incomplete this way.
Respond(s, n, kind) ==
    /\ Executing(s, n)
    /\ step[s].action = "v3_coding_plan" => kind = "incomplete"
    /\ input' = [input EXCEPT ![s] = [kind |-> kind, replied |-> FALSE]]
    /\ UNCHANGED <<ledgerVars, job, step, attempt, expired, paused, asking, journal, pending>>

\* CodingAgentEvidence.Append of task_accepted or task_reviewed.
Review(s, n, t, accepted) ==
    /\ Executing(s, n)
    /\ step[s].action = "v3_coding"
    /\ tasks[t] = "ready"
    /\ journal' = IF accepted THEN journal \cup {t} ELSE journal \ {t}
    /\ UNCHANGED <<ledgerVars, job, step, attempt, expired, input, paused, asking, pending>>

\* AcceptCodingLedgerTask, with the trigger that wants the verdict first.
AcceptCodingLedgerTask(s, n, t) ==
    /\ Executing(s, n)
    /\ step[s].action = "v3_coding"
    /\ t \in journal
    /\ AcceptTask(t)
    /\ UNCHANGED jobVars

\* Mutant of Suspend: the job keeps its status.
SuspendStepOnly(s, n, status) ==
    /\ attempt' = [attempt EXCEPT ![s] = [@ EXCEPT ![n] = status]]
    /\ step' = [step EXCEPT ![s] = [@ EXCEPT !.status = "waiting_input", !.worker = FALSE]]
    /\ UNCHANGED job

\* The attempt ends and the step waits without a worker.
Suspend(s, n, status) ==
    /\ attempt' = [attempt EXCEPT ![s] = [@ EXCEPT ![n] = status]]
    /\ step' = [step EXCEPT ![s] = [@ EXCEPT !.status = "waiting_input", !.worker = FALSE]]
    /\ job' = [job EXCEPT !.status = "waiting_input"]

\* WaitForCodingExecutionInput, which the worker calls after it recorded a
\* question or incomplete work.
WaitForCodingExecutionInput(s, n) ==
    /\ Executing(s, n)
    /\ input[s].kind \in {"question", "incomplete"} /\ ~input[s].replied
    /\ Suspend(s, n, "waiting_input")
    /\ asking' = asking \cup {s}
    /\ UNCHANGED <<ledgerVars, expired, input, paused, journal, pending>>

\* WaitForCodingNativeInput: attempt, lease and worker stay.
WaitForCodingNativeInput(s, n) ==
    /\ Executing(s, n)
    /\ input' = [input EXCEPT ![s] = [kind |-> "native", replied |-> FALSE]]
    /\ step' = [step EXCEPT ![s] = [@ EXCEPT !.status = "waiting_input"]]
    /\ job' = [job EXCEPT !.status = "waiting_input"]
    /\ asking' = asking \cup {s}
    /\ UNCHANGED <<ledgerVars, attempt, expired, paused, journal, pending>>

\* Mutant of NoPendingMessages: no check.
AnyMessages == TRUE

\* requireNoPendingChannelSessionMessagesTx.
NoPendingMessages == ~pending

\* MarkCodingLedgerReviewReady: planning is done, the owner reviews.
MarkCodingLedgerReviewReady(s, n) ==
    /\ Executing(s, n)
    /\ step[s].action = "v3_coding_plan"
    /\ NoPendingMessages
    /\ ledger.state = "proposed"
    /\ Suspend(s, n, "completed")
    /\ UNCHANGED <<ledgerVars, expired, input, paused, asking, journal, pending>>

\* CompleteStep of the execution step, with requireCodingAgentCompletionTx.
CompleteStep(s, n) ==
    /\ Active(s, n)
    /\ step[s].action = "v3_coding"
    /\ step[s].status = "running" /\ job.status \in {"running", "waiting_input"}
    /\ NoPendingMessages
    /\ CompleteCodingLedger
    /\ attempt' = [attempt EXCEPT ![s] = [@ EXCEPT ![n] = "completed"]]
    /\ step' = [step EXCEPT ![s] = [@ EXCEPT !.status = "completed"]]
    /\ job' = IF \E r \in StepId \ {s} : Live(r) /\ step[r].status \in Open
              THEN job ELSE [job EXCEPT !.status = "completed"]
    /\ ForgetInputs({s})
    /\ UNCHANGED <<journal, pending>>

\* FailStep: the ledger is left as it is, the messages are retired.
FailStep(s, n) ==
    /\ Active(s, n)
    /\ \/ step[s].status = "running" /\ job.status \in {"running", "waiting_input"}
       \/ NativeWaiting(s)
    /\ attempt' = [attempt EXCEPT ![s] = [@ EXCEPT ![n] = "failed"]]
    /\ step' = [step EXCEPT ![s] = [@ EXCEPT !.status = "failed"]]
    /\ job' = [job EXCEPT !.status = "failed"]
    /\ pending' = FALSE
    /\ ForgetInputs({s})
    /\ UNCHANGED <<ledgerVars, journal>>

\* ResolveChannelSessionMessage, answering the last open message.  Messages
\* that turn out to be instructions end in ReplanJob.
ResolveMessage(s, n) ==
    /\ pending
    /\ Active(s, n)
    /\ \/ step[s].status = "running" /\ job.status = "running"
       \/ NativeWaiting(s)
    /\ pending' = FALSE
    /\ UNCHANGED <<ledgerVars, job, step, attempt, expired, input, paused, asking, journal>>

-----------------------------------------------------------------------------
(* Operations of the planner and of the owner on the plan. *)

\* CreateCodingLedger, called by a planner, be it a late one; the holder of a
\* step that waits is not planning.
CreateLedger ==
    /\ \E s \in StepId :
          /\ step[s].action = "v3_coding_plan"
          /\ step[s].attempt > IF step[s].status = "waiting_input" THEN 1 ELSE 0
    /\ \E items \in [Task -> {AbsentItem} \cup {ActiveItem(c) : c \in Contract}] :
          /\ \E t \in Task : IsActive(items[t])
          /\ CreateCodingLedger(items)
    /\ UNCHANGED jobVars

\* ApplyCodingLedgerMutation by a planner, ApplyCodingLedgerControl by an owner.
EditLedger ==
    /\ \E t \in Task : \E item \in Mutated(t) :
          ApplyCodingLedgerMutation(ledger.revision, [plan EXCEPT ![t] = item])
    /\ UNCHANGED jobVars

ReproposeLedger ==
    /\ ProposeUnchanged(ledger.revision)
    /\ UNCHANGED jobVars

\* FreezeAndStartCodingLedger: approval and completeCodingLedgerReviewTx in one
\* transaction.  The attempt and the worker of the planning step are not
\* touched.
FreezeAndStart(s) ==
    /\ Current(s) /\ step[s].action = "v3_coding_plan"
    /\ job.status = "waiting_input" /\ step[s].status = "waiting_input"
    /\ FreezeCodingLedger(ledger.revision)
    /\ step' = [step EXCEPT ![s] = [@ EXCEPT !.status = "completed"]]
    /\ job' = [job EXCEPT !.status = "running"]
    /\ ForgetInputs({s})
    /\ UNCHANGED <<attempt, journal, pending>>

-----------------------------------------------------------------------------
(* Lifecycle commands of the owner. *)

\* AdmitChannelSessionMessage.
AdmitMessage ==
    /\ job.status \in {"pending", "running"}
    /\ ~pending
    /\ pending' = TRUE
    /\ UNCHANGED <<ledgerVars, job, step, attempt, expired, input, paused, asking, journal>>

\* terminalJobStatus.
NotTerminal == job.status \in Open

\* Mutant of Holding: a provider that waits for input is overlooked.
HoldingWhileRunning(s) == Current(s) /\ step[s].status = "running"

\* terminalizeStepAttemptsForAuthorityChangeTx: steps that hold authority, the
\* condition under which the whole command is refused, and its effect.
Holding(s) ==
    /\ Current(s)
    /\ \/ step[s].status = "running"
       \/ step[s].status = "waiting_input" /\ step[s].worker

Revocable ==
    \A s \in StepId : Holding(s) =>
        /\ step[s].attempt > 0 /\ step[s].worker
        /\ CurrentAttempt(s) \in {"active", "waiting_input"}

\* Mutant of Revoked: attempts that already wait are revoked too.
RevokedAnyway(status) ==
    [s \in StepId |-> [n \in AttemptNo |->
        IF Holding(s) /\ n = step[s].attempt THEN status ELSE attempt[s][n]]]

Revoked(status) ==
    [s \in StepId |-> [n \in AttemptNo |->
        IF Holding(s) /\ n = step[s].attempt /\ attempt[s][n] = "active" THEN status
        ELSE attempt[s][n]]]

\* applyJobCancellationTx.
CancelJob ==
    /\ NotTerminal
    /\ CancelCodingAuthority
    /\ Revocable
    /\ attempt' = Revoked("canceled")
    /\ step' = [s \in StepId |-> IF Live(s) /\ step[s].status \in Open
                                 THEN [step[s] EXCEPT !.status = "canceled"] ELSE step[s]]
    /\ job' = [job EXCEPT !.status = "canceled"]
    /\ pending' = FALSE
    /\ ForgetInputs(StepId)
    /\ UNCHANGED journal

\* validateCurrentReplanTail: what is to be retired is the planning step
\* followed by execution steps, all but the last of which failed.
ValidTail ==
    /\ \A s \in StepId : Live(s) => step[s].generation = job.generation
    /\ \E p \in StepId : Live(p) /\ step[p].action = "v3_coding_plan"
    /\ \E e \in StepId : Live(e) /\ step[e].action = "v3_coding"
    /\ \A r, s \in StepId :
          Live(r) /\ Live(s) /\ step[r].action = step[s].action /\ r < s
            => step[r].status = "failed"

\* Mutant of RetiredStep: finished steps stay in force.
RetiredOpenStep(s) ==
    IF step[s].status \in Open
    THEN [step[s] EXCEPT !.status = "canceled", !.worker = FALSE,
                         !.superseded = job.generation + 1]
    ELSE step[s]

\* retireReplanTailTx for one step.
RetiredStep(s) ==
    IF step[s].status \in Open
    THEN [step[s] EXCEPT !.status = "canceled", !.worker = FALSE,
                         !.superseded = job.generation + 1]
    ELSE [step[s] EXCEPT !.superseded = job.generation + 1]

NextId(p) == \A r \in StepId : r < p <=> step[r].status # "absent"

\* The part interruption and replan share: revoke, retire the tail, start the
\* next generation with fresh steps, retire the messages.
StartGeneration(planStatus, jobStatus) ==
    /\ ValidTail
    /\ Revocable
    /\ job.generation < MaxGeneration
    /\ attempt' = Revoked("superseded")
    /\ SupersedeCodingAuthority
    /\ \E p \in StepId :
          /\ NextId(p) /\ p + 1 \in StepId
          /\ step' = [s \in StepId |->
                IF s = p THEN NewStep("v3_coding_plan", job.generation + 1, planStatus)
                ELSE IF s = p + 1 THEN NewStep("v3_coding", job.generation + 1, "pending")
                ELSE IF Live(s) THEN RetiredStep(s) ELSE step[s]]
    /\ job' = [status |-> jobStatus, generation |-> job.generation + 1]
    /\ ForgetInputs(StepId)
    /\ journal' = {}
    /\ pending' = FALSE

\* applyReplanJobTx.
ReplanJob ==
    /\ NotTerminal
    /\ StartGeneration("pending", "running")

\* The latest execution step pauseFrozenCodingTx finds.
Pausable(s) ==
    /\ ledger.state = "frozen" /\ ledger.revision = ledger.frozen
    /\ Current(s) /\ step[s].action = "v3_coding"
    /\ step[s].status \in {"pending", "running"}

\* InterruptJob during execution: the step is suspended in its generation,
\* also when its lease has run out.
PauseJob(s) ==
    /\ job.status \in {"pending", "running"}
    /\ Pausable(s) /\ \A r \in StepId : Pausable(r) => r <= s
    /\ step[s].attempt > 0 => step[s].worker /\ CurrentAttempt(s) \in {"active", "waiting_input"}
    /\ attempt' = [attempt EXCEPT ![s] =
          [n \in AttemptNo |-> IF n = step[s].attempt /\ @[n] = "active" THEN "waiting_input" ELSE @[n]]]
    /\ step' = [step EXCEPT ![s] = [@ EXCEPT !.status = "waiting_input", !.worker = FALSE]]
    /\ job' = [job EXCEPT !.status = "waiting_input"]
    /\ paused' = paused \cup {s}
    /\ expired' = expired \ {s}
    /\ UNCHANGED <<ledgerVars, input, asking, journal, pending>>

\* InterruptJob during planning: a new generation that waits for the owner.
InterruptPlanning ==
    /\ job.status \in {"pending", "running"}
    /\ \A s \in StepId : ~Pausable(s)
    /\ StartGeneration("waiting_input", "waiting_input")

\* codingRecoveryStepTx.
Recoverable(s) ==
    /\ ledger.state = "frozen" /\ ledger.frozen = ledger.revision
    /\ Current(s) /\ step[s].action = "v3_coding"
    /\ \/ job.status = "failed" /\ step[s].status = "failed"
       \/ job.status = "waiting_input" /\ step[s].status = "waiting_input" /\ s \in paused

\* resumeFrozenCodingTx after a pause: the step goes back to the queue.
ResumePaused(s) ==
    /\ Recoverable(s) /\ \A r \in StepId : Recoverable(r) => r <= s
    /\ job.status = "waiting_input"
    /\ step' = [step EXCEPT ![s] =
          [@ EXCEPT !.status = IF step[s].attempt = 0 THEN "pending" ELSE "running",
                    !.worker = step[s].attempt > 0]]
    /\ job' = [job EXCEPT !.status = "running"]
    /\ UNCHANGED <<ledgerVars, attempt, expired, input, paused, asking, journal, pending>>

\* resumeFrozenCodingTx after a failure: the failed step stays, a fresh one
\* takes its place in the queue.
ResumeFailed(s) ==
    /\ Recoverable(s) /\ \A r \in StepId : Recoverable(r) => r <= s
    /\ job.status = "failed"
    /\ \E p \in StepId :
          /\ NextId(p)
          /\ step' = [step EXCEPT ![p] = NewStep("v3_coding", job.generation, "pending")]
    /\ job' = [job EXCEPT !.status = "running"]
    /\ UNCHANGED <<ledgerVars, attempt, expired, input, paused, asking, journal, pending>>

\* The step resumeCodingExecutionTx replies to.
Repliable(s) ==
    /\ job.status = "waiting_input"
    /\ Current(s) /\ step[s].status = "waiting_input"
    /\ input[s].kind \in {"question", "native", "incomplete"}

\* SubmitJobFeedback to a question or a native request.  Only the identity of
\* the request is compared; a second reply to the same request is taken.
ReplyToInput(s) ==
    /\ Repliable(s)
    /\ input[s].kind # "incomplete"
    /\ input' = [input EXCEPT ![s] = [@ EXCEPT !.replied = TRUE]]
    /\ step' = [step EXCEPT ![s] = [@ EXCEPT !.status = "running", !.worker = step[s].attempt > 0]]
    /\ job' = [job EXCEPT !.status = "running"]
    /\ asking' = asking \ {s}
    /\ UNCHANGED <<ledgerVars, attempt, expired, paused, journal, pending>>

\* SubmitJobFeedback to incomplete work: replanIncompleteCodingTaskTx.
ReplyToIncomplete(s) ==
    /\ Repliable(s)
    /\ input[s].kind = "incomplete"
    /\ StartGeneration("pending", "running")

-----------------------------------------------------------------------------
WorkerStep ==
    \E s \in StepId, n \in AttemptNo :
        \/ \E kind \in {"none", "question", "incomplete"} : Respond(s, n, kind)
        \/ \E t \in Task, accepted \in BOOLEAN : Review(s, n, t, accepted)
        \/ \E t \in Task : AcceptCodingLedgerTask(s, n, t)
        \/ WaitForCodingExecutionInput(s, n)
        \/ WaitForCodingNativeInput(s, n)
        \/ MarkCodingLedgerReviewReady(s, n)
        \/ CompleteStep(s, n)
        \/ FailStep(s, n)
        \/ ResolveMessage(s, n)

PlanStep ==
    \/ CreateLedger
    \/ EditLedger
    \/ ReproposeLedger
    \/ \E s \in StepId : FreezeAndStart(s)

OwnerStep ==
    \/ AdmitMessage
    \/ CancelJob
    \/ ReplanJob
    \/ InterruptPlanning
    \/ \E s \in StepId :
        \/ PauseJob(s)
        \/ ResumePaused(s)
        \/ ResumeFailed(s)
        \/ ReplyToInput(s)
        \/ ReplyToIncomplete(s)

Next ==
    \/ \E s \in StepId : ClaimNextStep(s) \/ LeaseExpires(s)
    \/ WorkerStep
    \/ PlanStep
    \/ OwnerStep

Spec == Init /\ [][Next]_vars

-----------------------------------------------------------------------------
(* Properties. *)

\* The authority <<s, n>> is one some operation of a worker would honour.
CanWrite(s, n) ==
    Active(s, n) /\ \/ step[s].status = "running" /\ job.status = "running"
                    \/ NativeWaiting(s)

\* An attempt is active only as the latest attempt of a step that is being
\* worked on.  The exception is a planning step the owner approved while its
\* provider was waiting for input: completeCodingLedgerReviewTx leaves that
\* attempt active, and no operation honours it any more.
ActiveAttemptIsHeld ==
    \A s \in StepId, n \in AttemptNo :
        attempt[s][n] = "active" =>
            /\ n = step[s].attempt
            /\ \/ step[s].status \in {"running", "waiting_input"} /\ step[s].worker
               \/ step[s].action = "v3_coding_plan" /\ step[s].status = "completed"

\* An approved job that is meant to run has a worker or a step to claim: no
\* order of pauses, resumptions, failures, lost leases and replies strands it.
ApprovedJobNeverStalls ==
    job.status = "running" /\ ledger.state = "frozen" =>
        \/ \E s \in StepId : Claimable(s)
        \/ \E s \in StepId, n \in AttemptNo : CanWrite(s, n)

\* The status of an open job tells what its steps do: it waits exactly when a
\* step of the current generation waits, and then exactly one does.
StatusAgreement ==
    LET waiting == {s \in StepId : Current(s) /\ step[s].status = "waiting_input"}
    IN  job.status \in Open =>
            /\ job.status = "waiting_input" <=> waiting # {}
            /\ \A r, s \in waiting : r = s

\* The tail of an open job is always one that validateCurrentReplanTail
\* accepts, recovered duplicates included: an owner can always replan.
OpenTailIsValid == job.status \in Open => ValidTail

\* Completion is complete: the ledger is completed, no step is left, no message
\* of the owner went unanswered.
CompletedJobIsDone ==
    job.status = "completed" =>
        /\ ledger.state = "completed"
        /\ ~pending
        /\ \A s \in StepId : Live(s) => step[s].status \in {"completed", "failed"}

\* A cancelled job stays cancelled in all its parts: no step is open, no task
\* is ready and no plan is approved.  A draft may be there: CreateCodingLedger
\* does not look at the job, so a planner that is late by one poll of
\* watchStepControl creates the ledger of a job cancelled before it had one.
CanceledJobIsQuiet ==
    job.status = "canceled" =>
        /\ ledger.state \in {"absent", "cancelled", "proposed"}
        /\ ledger.state = "proposed" => ledger.lastFrozen = 0
        /\ \A t \in Task : tasks[t] # "ready"
        /\ \A s \in StepId : step[s].status \notin Open

\* History is immutable: an ended attempt keeps its outcome, and a step that a
\* later generation superseded never changes again.
HistoryIsImmutable ==
    [][/\ \A s \in StepId, n \in AttemptNo :
             attempt[s][n] \notin {"none", "active"} => attempt'[s][n] = attempt[s][n]
       /\ \A s \in StepId : step[s].superseded > 0 => step'[s] = step[s]]_vars

\* A step that waits for a reply of the owner goes on only after that reply, as
\* coding_recovery_input_integration_test.go:42 expects of ResumeJob.
InputIsNotBypassed ==
    [][\A s \in asking : step[s].status = "waiting_input" /\ step'[s].status = "running"
                         => s \notin asking']_vars

\* The job as an exclusive execution: who can write, what was ever issued,
\* which tasks count as accepted.
Nobody == <<0, 0>>
Writers == {a \in StepId \X AttemptNo : CanWrite(a[1], a[2])}

Exclusive == INSTANCE ExclusiveExecution WITH
    Permit <- StepId \X AttemptNo,
    writer <- IF Writers = {} THEN Nobody ELSE CHOOSE a \in Writers : TRUE,
    issued <- {a \in StepId \X AttemptNo : attempt[a[1]][a[2]] # "none"},
    accepted <- {t \in Task : tasks[t] = "accepted"},
    finished <- job.status = "completed"

\* Attempts implement exclusive execution: one writer, authorities never
\* reissued or revived, tasks accepted and the job finished by the writer only.
ExclusiveSpec == Exclusive!Spec

=============================================================================
