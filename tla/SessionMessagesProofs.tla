----------------------- MODULE SessionMessagesProofs ------------------------
(***************************************************************************)
(* What is owed to the owner's messages, for any number of messages,       *)
(* generations, revisions, tasks and lost attempts.                        *)
(***************************************************************************)
EXTENDS SessionMessages, TLAPS

Row == [generation : Nat, bound : Nat, queued : BOOLEAN,
        outcome : {"absent", "open", "answer", "failed", "planning", "retired"}]

LedgerRow == [state : {"absent", "proposed", "revising", "frozen", "completed", "cancelled"}, revision : Nat]

\* The part of TypeOK the argument needs.
Typed ==
    /\ message \in [Message -> Row]
    /\ generation \in Nat
    /\ ledger \in LedgerRow
    /\ runtime = [pc |-> runtime.pc, live |-> runtime.live, msg |-> runtime.msg,
                  op |-> runtime.op, back |-> runtime.back]
    /\ runtime.back \in {"idle", "run", "amend"}

\* An unbound message is open in its own generation only; only bound messages
\* are queued.
Known ==
    \A m \in Message :
        /\ message[m].outcome = "open" =>
              /\ message[m].generation <= generation
              /\ message[m].bound = 0 => message[m].generation = generation
        /\ message[m].queued => message[m].bound > 0 /\ message[m].outcome # "absent"

\* The planner that has found nothing to drain can have overlooked messages of
\* its own generation only, and the executor that is about to complete has no
\* amendment left.
Drained ==
    /\ At("ready") /\ runtime.live =>
          \A m \in Message : Pending(m) => message[m].generation = generation
    /\ At("commit") => \A m \in Message : ~(Pending(m) /\ message[m].queued)

\* The operation under which planning may write is a redirection of a bound
\* message, or a message whose redirection is not in the plan.
Entered ==
    /\ \A m \in Nat :
          \/ <<"redirect", m>> \in recorded
          \/ cause = <<"redirect", m>>
          \/ runtime.op = <<"redirect", m>>
          => m \in Message /\ message[m].bound > 0 /\ message[m].outcome # "absent"
    /\ \A m \in Message :
          /\ cause # <<"message", m>>
          /\ At("write") /\ runtime.op = <<"message", m>> => <<"redirect", m>> \notin recorded

Settled == ReviewOwesNothing /\ EndedJobOwesNothing /\ CompletedJobHasNoAmendment

\* The inductive invariant.
IInv == Typed /\ Known /\ Drained /\ Entered /\ Settled

-----------------------------------------------------------------------------
(* What an action may do to the messages. *)

\* Messages are left alone, or some open ones are settled.
Settles ==
    /\ message' \in [Message -> Row]
    /\ \A m \in Message :
          /\ message'[m].generation = message[m].generation
          /\ message'[m].bound = message[m].bound
          /\ message'[m].queued = message[m].queued
          /\ message'[m].outcome = "open" => message[m].outcome = "open"
          /\ message'[m].outcome = "absent" <=> message[m].outcome = "absent"

\* A step that leaves the messages alone settles none, wrongly or rightly.
LEMMA UnchangedSettles == Typed /\ message' = message => Settles
  BY DEF Typed, Settles, Row

\* Resolving or failing one pending message is a settlement.
LEMMA SettlingSettles ==
    ASSUME Typed, NEW m \in Message, Pending(m),
           NEW outcome \in {"answer", "failed", "planning", "retired"}, Settle(m, outcome)
    PROVE  Settles /\ message'[m].outcome = outcome
  BY DEF Typed, Settles, Settle, Pending, Row

\* retireChannelSessionMessagesTx settles messages and does nothing else to them.
LEMMA RetiringSettles ==
    ASSUME Typed, NEW terminal \in BOOLEAN, message' = Retired(terminal)
    PROVE  /\ Settles
           /\ \A m \in Message : message'[m].outcome # message[m].outcome =>
                 message'[m].outcome = "retired" /\ (terminal \/ message[m].bound = 0)
           /\ \A m \in Message : message'[m].outcome = "open" /\ message[m].generation = generation =>
                 ~terminal /\ message[m].bound > 0
           /\ \A m \in Message : message'[m].outcome = "open" /\ message[m].generation < generation
                                   /\ message[m].bound > 0 => ~terminal
  BY DEF Typed, Settles, Retired, Pending, Row

-----------------------------------------------------------------------------
(* The invariant is inductive. *)

\* A job that has just been enqueued satisfies the inductive invariant.
LEMMA InitInvariant == Init => IInv
<1> SUFFICES ASSUME Init PROVE IInv
  OBVIOUS
<1>1. Typed
  BY DEF Init, Typed, Row, LedgerRow, Idle
<1>2. Known /\ Drained /\ Entered /\ Settled
  BY DEF Init, Known, Drained, Entered, Settled, At, Pending, Idle, None,
         ReviewOwesNothing, EndedJobOwesNothing, CompletedJobHasNoAmendment
<1> QED BY <1>1, <1>2 DEF IInv

\* Every operation keeps the types of messages, runtime and receipts.
LEMMA StepKeepsType == IInv /\ [Next]_vars => Typed'
<1> SUFFICES ASSUME IInv, [Next]_vars PROVE Typed'
  OBVIOUS
<1> USE DEF Idle
<1>0. Typed
  BY DEF IInv
<1>1. CASE StartPlanning
  BY <1>0, <1>1, Zenon DEF Typed, StartPlanning
<1>2. CASE PlanTurn
  BY <1>0, <1>2, Zenon DEF Typed, PlanTurn
<1>3. CASE WriteRevision
  <2>1. message' = message /\ generation' = generation
    BY <1>3 DEF WriteRevision
  <2>2. ledger' \in LedgerRow
    BY <1>0, <1>3 DEF WriteRevision, Typed, LedgerRow
  <2>3. runtime' = [runtime EXCEPT !.pc = Written, !.op = None]
    BY <1>3 DEF WriteRevision
  <2> QED BY <1>0, <2>1, <2>2, <2>3, Zenon DEF Typed
<1>4. CASE WriteNothing
  BY <1>0, <1>4, Zenon DEF Typed, WriteNothing, Written
<1>5. CASE Drain
  BY <1>0, <1>5, Zenon DEF Typed, Drain, Message
<1>6. CASE ResolvePlanning
  BY <1>0, <1>6, Zenon DEF Typed, ResolvePlanning, Settle, Row
<1>7. CASE MarkReviewReady
  BY <1>0, <1>7 DEF Typed, MarkReviewReady
<1>8. CASE StartExecution
  BY <1>0, <1>8, Zenon DEF Typed, StartExecution
<1>9. CASE Consume
  BY <1>0, <1>9, Zenon DEF Typed, Consume, Message
<1>10. CASE NothingToConsume
  BY <1>0, <1>10 DEF Typed, NothingToConsume
<1>11. CASE Interpret
  <2>1. message' \in [Message -> Row]
    <3> DEFINE m == runtime.msg
    <3>1. CASE message' = message
      BY <1>0, <3>1 DEF Typed
    <3>2. ASSUME NEW outcome \in {"answer", "failed"}, Settle(m, outcome)
          PROVE  message' \in [Message -> Row]
      BY <1>0, <3>2, Zenon DEF Typed, Settle, Row
    <3>3. CASE message' = [message EXCEPT ![m] = [@ EXCEPT !.queued = TRUE]]
      BY <1>0, <3>3, Zenon DEF Typed, Row
    <3> QED BY <1>11, <3>1, <3>2, <3>3 DEF Interpret
  <2>2. ledger' = ledger /\ generation' = generation
    BY <1>11 DEF Interpret
  <2>3. \E pc : runtime' = [runtime EXCEPT !.pc = pc, !.msg = 0, !.back = "idle"]
    BY <1>11, Zenon DEF Interpret
  <2> QED BY <1>0, <2>1, <2>2, <2>3, Zenon DEF Typed
<1>12. CASE Done
  BY <1>0, <1>12 DEF Typed, Done
<1>13. CASE AcceptTask
  BY <1>0, <1>13 DEF Typed, AcceptTask
<1>14. CASE NoAmendments
  BY <1>0, <1>14 DEF Typed, NoAmendments
<1>15. CASE ReplanAmendments
  <2>1. message' = message \/ message' = Retired(FALSE)
    BY <1>15, Zenon DEF ReplanAmendments, StartGeneration
  <2>4. message' \in [Message -> Row]
    BY <1>0, <2>1, RetiringSettles, UnchangedSettles, Zenon DEF Settles
  <2>5. generation' = generation \/ generation' = generation + 1
    BY <1>15, Zenon DEF ReplanAmendments, StartGeneration
  <2>6. generation' \in Nat
    <3>1. generation \in Nat
      BY <1>0 DEF Typed
    <3> QED BY <3>1, <2>5
  <2>2. ledger' \in LedgerRow
    BY <1>0, <1>15, Zenon DEF Typed, ReplanAmendments, StartGeneration, LedgerRow
  <2>3. runtime' = Idle \/ runtime' = [runtime EXCEPT !.pc = "error"]
    BY <1>15 DEF ReplanAmendments
  <2> QED BY <1>0, <2>2, <2>3, <2>4, <2>6 DEF Typed
<1>16. CASE CompleteStep
  <2>1. message' = message /\ generation' = generation
    BY <1>16 DEF CompleteStep
  <2>2. ledger' \in LedgerRow
    BY <1>0, <1>16 DEF Typed, CompleteStep, LedgerRow
  <2>3. runtime' = Idle \/ runtime' = [runtime EXCEPT !.pc = "consume"]
    BY <1>16 DEF CompleteStep
  <2> QED BY <1>0, <2>1, <2>2, <2>3 DEF Typed
<1>17. CASE WaitForNativeInput \/ WaitForExecutionInput
  BY <1>0, <1>17 DEF Typed, WaitForNativeInput, WaitForExecutionInput
<1>18. CASE FailStep
  BY <1>0, <1>18, RetiringSettles, Zenon DEF Typed, FailStep, Settles
<1>19. CASE LoseAttempt \/ Stop
  BY <1>0, <1>19, MessageBoundsAssumption DEF Typed, LoseAttempt, Stop, Revoke
<1>20. ASSUME NEW m \in Message, SubmitMessage(m) PROVE Typed'
  BY <1>0, <1>20 DEF Typed, SubmitMessage, Bound, Row, LedgerRow
<1>21. CASE ReplanJob \/ InterruptPlanning
  <2>1. message' = Retired(FALSE) /\ generation' = generation + 1
    BY <1>21, Zenon DEF ReplanJob, InterruptPlanning, StartGeneration
  <2>4. message' \in [Message -> Row]
    BY <1>0, <2>1, RetiringSettles, Zenon DEF Settles
  <2>2. ledger' \in LedgerRow
    BY <1>0, <1>21, Zenon DEF Typed, ReplanJob, InterruptPlanning, StartGeneration, LedgerRow
  <2>3. runtime' = [runtime EXCEPT !.live = FALSE]
    BY <1>21 DEF ReplanJob, InterruptPlanning, Revoke
  <2>5. generation' \in Nat
    <3>1. generation \in Nat
      BY <1>0 DEF Typed
    <3> QED BY <3>1, <2>1
  <2> QED BY <1>0, <2>2, <2>3, <2>4, <2>5, Zenon DEF Typed
<1>22. CASE PauseJob \/ ResumeJob \/ ReplyToInput
  BY <1>0, <1>22 DEF Typed, PauseJob, ResumeJob, ReplyToInput, Revoke
<1>23. CASE EditLedger
  BY <1>0, <1>23 DEF Typed, EditLedger, LedgerRow
<1>24. CASE FreezeAndStart
  <2>1. ledger' \in LedgerRow
    BY <1>0, <1>24 DEF Typed, FreezeAndStart, LedgerRow
  <2>2. runtime' = [runtime EXCEPT !.live = FALSE] /\ message' = message /\ generation' = generation
    BY <1>24 DEF FreezeAndStart, Revoke
  <2> QED BY <1>0, <2>1, <2>2, Zenon DEF Typed
<1>25. CASE CancelJob
  <2>1. message' \in [Message -> Row] /\ generation' = generation
    BY <1>0, <1>25, RetiringSettles, Zenon DEF CancelJob, Settles
  <2>2. ledger' \in LedgerRow
    BY <1>0, <1>25 DEF Typed, CancelJob, LedgerRow
  <2>3. runtime' = [runtime EXCEPT !.live = FALSE]
    BY <1>25 DEF CancelJob, Revoke
  <2> QED BY <1>0, <2>1, <2>2, <2>3, Zenon DEF Typed
<1>26. CASE UNCHANGED vars
  BY <1>0, <1>26 DEF Typed, vars
<1> QED
  BY <1>1, <1>2, <1>3, <1>4, <1>5, <1>6, <1>7, <1>8, <1>9, <1>10, <1>11, <1>12, <1>13, <1>14,
     <1>15, <1>16, <1>17, <1>18, <1>19, <1>20, <1>21, <1>22, <1>23, <1>24, <1>25, <1>26
     DEF Next, Worker, Planner, Executor, Trouble, Owner

\* Settling messages keeps what is known of them, if a new generation begins
\* with bound messages only.
LEMMA KnownKept ==
    ASSUME Typed, Known, Settles, generation' \in Nat,
           \/ generation' = generation
           \/ /\ generation' > generation
              /\ \A m \in Message : message'[m].outcome = "open" => message[m].bound > 0
    PROVE  Known'
  BY DEF Typed, Known, Settles, Row

\* So does it keep what is known at the two points of no return.
LEMMA DrainedKept ==
    ASSUME Typed, Drained, Settles, generation' = generation,
           \/ runtime'.pc \notin {"ready", "commit"}
           \/ runtime'.pc = runtime.pc /\ (runtime'.live => runtime.live)
    PROVE  Drained'
  BY DEF Typed, Drained, Settles, Row, At, Pending

\* The identities stay bound while nothing is written.
LEMMA EnteredKept ==
    ASSUME Typed, Entered, Settles, recorded' = recorded,
           \/ cause' = cause
           \/ \E n : cause' = <<"generation", n>>,
           \/ runtime'.op = runtime.op /\ (runtime'.pc = "write" => runtime.pc = "write")
           \/ runtime'.pc # "write" /\ \A m \in Nat : runtime'.op # <<"redirect", m>>
    PROVE  Entered'
  BY DEF Typed, Entered, Settles, Row, At

\* Nothing becomes owed by settling messages in the same phase.
LEMMA SettledKept ==
    ASSUME Typed, Settled, Settles, phase' = phase \/ phase' \in Open \ {"review"}
    PROVE  Settled'
  BY DEF Typed, Settled, Settles, Row, Pending, Open,
         ReviewOwesNothing, EndedJobOwesNothing, CompletedJobHasNoAmendment

\* Every operation keeps what is known of receipts, drained boundaries, entered
\* redirections and settled messages: one case per operation.
LEMMA StepKeepsPromises == IInv /\ [Next]_vars => (Known /\ Drained /\ Entered /\ Settled)'
<1> SUFFICES ASSUME IInv, [Next]_vars PROVE (Known /\ Drained /\ Entered /\ Settled)'
  OBVIOUS
<1>0. Typed /\ Known /\ Drained /\ Entered /\ Settled
  BY DEF IInv
<1>op. \A m \in Nat : \A n : None # <<"redirect", m>> /\ <<"generation", n>> # <<"redirect", m>>
  BY DEF None
<1>1. CASE StartPlanning
  <2>1. Settles
    BY <1>0, <1>1, UnchangedSettles DEF StartPlanning
  <2>2. Drained'
    BY <1>0, <1>1, <2>1, DrainedKept DEF StartPlanning, Typed, At, Idle
  <2>3. Entered'
    BY <1>0, <1>1, <2>1, <1>op, EnteredKept DEF StartPlanning, Typed, At, Idle
  <2> QED BY <1>0, <1>1, <2>1, <2>2, <2>3, KnownKept, SettledKept DEF StartPlanning, Typed, Open
<1>2. CASE WriteNothing
  <2>1. Settles
    BY <1>0, <1>2, UnchangedSettles DEF WriteNothing
  <2>2. Drained'
    BY <1>0, <1>2, <2>1, DrainedKept DEF WriteNothing, Typed, At, Written
  <2>3. Entered'
    BY <1>0, <1>2, <2>1, <1>op, EnteredKept DEF WriteNothing, Typed, At, Written
  <2> QED BY <1>0, <1>2, <2>1, <2>2, <2>3, KnownKept, SettledKept DEF WriteNothing, Typed, Open
<1>3. CASE StartExecution
  <2>1. Settles
    BY <1>0, <1>3, UnchangedSettles DEF StartExecution
  <2>2. Drained'
    BY <1>0, <1>3, <2>1, DrainedKept DEF StartExecution, Typed, At, Idle
  <2>3. Entered'
    BY <1>0, <1>3, <2>1, <1>op, EnteredKept DEF StartExecution, Typed, At, Idle
  <2> QED BY <1>0, <1>3, <2>1, <2>2, <2>3, KnownKept, SettledKept DEF StartExecution, Typed, Open
<1>4. CASE Consume
  <2>1. Settles
    BY <1>0, <1>4, UnchangedSettles DEF Consume
  <2>2. Drained'
    BY <1>0, <1>4, <2>1, DrainedKept DEF Consume, Typed, At
  <2>3. Entered'
    BY <1>0, <1>4, <2>1, <1>op, EnteredKept DEF Consume, Typed, At
  <2> QED BY <1>0, <1>4, <2>1, <2>2, <2>3, KnownKept, SettledKept DEF Consume, Typed, Open
<1>5. CASE NothingToConsume
  <2>1. Settles
    BY <1>0, <1>5, UnchangedSettles DEF NothingToConsume
  <2>2. Drained'
    BY <1>0, <1>5, <2>1, DrainedKept DEF NothingToConsume, Typed, At
  <2>3. Entered'
    BY <1>0, <1>5, <2>1, <1>op, EnteredKept DEF NothingToConsume, Typed, At
  <2> QED BY <1>0, <1>5, <2>1, <2>2, <2>3, KnownKept, SettledKept DEF NothingToConsume, Typed, Open
<1>6. CASE Done
  <2>1. Settles
    BY <1>0, <1>6, UnchangedSettles DEF Done
  <2>2. Drained'
    BY <1>0, <1>6, <2>1, DrainedKept DEF Done, Typed, At
  <2>3. Entered'
    BY <1>0, <1>6, <2>1, <1>op, EnteredKept DEF Done, Typed, At
  <2> QED BY <1>0, <1>6, <2>1, <2>2, <2>3, KnownKept, SettledKept DEF Done, Typed, Open
<1>7. CASE AcceptTask
  <2>1. Settles
    BY <1>0, <1>7, UnchangedSettles DEF AcceptTask
  <2>2. Drained'
    BY <1>0, <1>7, <2>1, DrainedKept DEF AcceptTask, Typed, At
  <2>3. Entered'
    BY <1>0, <1>7, <2>1, <1>op, EnteredKept DEF AcceptTask, Typed, At
  <2> QED BY <1>0, <1>7, <2>1, <2>2, <2>3, KnownKept, SettledKept DEF AcceptTask, Typed, Open
<1>8. CASE WaitForNativeInput
  <2>1. Settles
    BY <1>0, <1>8, UnchangedSettles DEF WaitForNativeInput
  <2>2. Drained'
    BY <1>0, <1>8, <2>1, DrainedKept DEF WaitForNativeInput, Typed, At
  <2>3. Entered'
    BY <1>0, <1>8, <2>1, <1>op, EnteredKept DEF WaitForNativeInput, Typed, At
  <2> QED BY <1>0, <1>8, <2>1, <2>2, <2>3, KnownKept, SettledKept DEF WaitForNativeInput, Typed, Open
<1>9. CASE WaitForExecutionInput
  <2>1. Settles
    BY <1>0, <1>9, UnchangedSettles DEF WaitForExecutionInput
  <2>2. Drained'
    BY <1>0, <1>9, <2>1, DrainedKept DEF WaitForExecutionInput, Typed, At, Idle
  <2>3. Entered'
    BY <1>0, <1>9, <2>1, <1>op, EnteredKept DEF WaitForExecutionInput, Typed, At, Idle
  <2> QED BY <1>0, <1>9, <2>1, <2>2, <2>3, KnownKept, SettledKept DEF WaitForExecutionInput, Typed, Open
<1>10. CASE LoseAttempt
  <2>1. Settles
    BY <1>0, <1>10, UnchangedSettles DEF LoseAttempt
  <2>2. Drained'
    BY <1>0, <1>10, <2>1, DrainedKept DEF LoseAttempt, Typed, At, Revoke
  <2>3. Entered'
    BY <1>0, <1>10, <2>1, <1>op, EnteredKept DEF LoseAttempt, Typed, At, Revoke
  <2> QED BY <1>0, <1>10, <2>1, <2>2, <2>3, KnownKept, SettledKept DEF LoseAttempt, Typed, Open
<1>11. CASE Stop
  <2>1. Settles
    BY <1>0, <1>11, UnchangedSettles DEF Stop
  <2>2. Drained'
    BY <1>0, <1>11, <2>1, DrainedKept DEF Stop, Typed, At, Idle
  <2>3. Entered'
    BY <1>0, <1>11, <2>1, <1>op, EnteredKept DEF Stop, Typed, At, Idle
  <2> QED BY <1>0, <1>11, <2>1, <2>2, <2>3, KnownKept, SettledKept DEF Stop, Typed, Open
<1>12. CASE PauseJob
  <2>1. Settles
    BY <1>0, <1>12, UnchangedSettles DEF PauseJob
  <2>2. Drained'
    BY <1>0, <1>12, <2>1, DrainedKept DEF PauseJob, Typed, At, Revoke
  <2>3. Entered'
    BY <1>0, <1>12, <2>1, <1>op, EnteredKept DEF PauseJob, Typed, At, Revoke
  <2> QED BY <1>0, <1>12, <2>1, <2>2, <2>3, KnownKept, SettledKept DEF PauseJob, Typed, Open
<1>13. CASE ResumeJob
  <2>1. Settles
    BY <1>0, <1>13, UnchangedSettles DEF ResumeJob
  <2>2. Drained'
    BY <1>0, <1>13, <2>1, DrainedKept DEF ResumeJob, Typed, At
  <2>3. Entered'
    BY <1>0, <1>13, <2>1, <1>op, EnteredKept DEF ResumeJob, Typed, At
  <2> QED BY <1>0, <1>13, <2>1, <2>2, <2>3, KnownKept, SettledKept DEF ResumeJob, Typed, Open
<1>14. CASE ReplyToInput
  <2>1. Settles
    BY <1>0, <1>14, UnchangedSettles DEF ReplyToInput
  <2>2. Drained'
    BY <1>0, <1>14, <2>1, DrainedKept DEF ReplyToInput, Typed, At
  <2>3. Entered'
    BY <1>0, <1>14, <2>1, <1>op, EnteredKept DEF ReplyToInput, Typed, At
  <2> QED BY <1>0, <1>14, <2>1, <2>2, <2>3, KnownKept, SettledKept DEF ReplyToInput, Typed, Open
<1>15. CASE EditLedger
  <2>1. Settles
    BY <1>0, <1>15, UnchangedSettles DEF EditLedger
  <2>2. Drained'
    BY <1>0, <1>15, <2>1, DrainedKept DEF EditLedger, Typed, At
  <2>3. Entered'
    BY <1>0, <1>15, <2>1, <1>op, EnteredKept DEF EditLedger, Typed, At
  <2> QED BY <1>0, <1>15, <2>1, <2>2, <2>3, KnownKept, SettledKept DEF EditLedger, Typed, Open
<1>16. CASE FreezeAndStart
  <2>1. Settles
    BY <1>0, <1>16, UnchangedSettles DEF FreezeAndStart
  <2>2. Drained'
    BY <1>0, <1>16, <2>1, DrainedKept DEF FreezeAndStart, Typed, At, Revoke
  <2>3. Entered'
    BY <1>0, <1>16, <2>1, <1>op, EnteredKept DEF FreezeAndStart, Typed, At, Revoke
  <2> QED BY <1>0, <1>16, <2>1, <2>2, <2>3, KnownKept, SettledKept DEF FreezeAndStart, Typed, Open
<1>17. CASE PlanTurn
  <2>1. Settles
    BY <1>0, <1>17, UnchangedSettles DEF PlanTurn
  <2>2. Drained'
    BY <1>0, <1>17, <2>1, DrainedKept DEF PlanTurn, Typed, At
  <2>3. Entered'
    <3>1. CASE cause \in recorded
      BY <1>0, <1>17, <2>1, <3>1, EnteredKept DEF PlanTurn, Typed, At
    <3>2. CASE cause \notin recorded
      BY <1>0, <1>17, <3>2 DEF PlanTurn, Typed, At, Entered
    <3> QED BY <3>1, <3>2
  <2> QED BY <1>0, <1>17, <2>1, <2>2, <2>3, KnownKept, SettledKept DEF PlanTurn, Typed
<1>18. CASE WriteRevision
  <2>1. Settles
    BY <1>0, <1>18, UnchangedSettles DEF WriteRevision
  <2>2. Drained'
    BY <1>0, <1>18, <2>1, DrainedKept DEF WriteRevision, Written, Typed, At
  <2>3. Entered'
    BY <1>0, <1>18, <1>op, Zenon DEF WriteRevision, Written, Typed, At, Entered
  <2> QED BY <1>0, <1>18, <2>1, <2>2, <2>3, KnownKept, SettledKept DEF WriteRevision, Typed
<1>19. CASE Drain
  <2>1. Settles
    BY <1>0, <1>19, UnchangedSettles, Zenon DEF Drain
  <2>2. CASE ReadableSet(TRUE) = {} /\ runtime' = [runtime EXCEPT !.pc = "ready"]
    <3>1. \A m \in Message : ~Readable(m, TRUE)
      BY <2>2, Zenon DEF ReadableSet
    <3>2. \A m \in Message : ~Pending(m)
      BY <1>0, <3>1 DEF Readable, Pending, Known, Typed, Row
    <3>3. Drained'
      BY <1>19, <2>2, <3>2, <1>0, Zenon DEF Drain, Drained, At, Pending, Typed
    <3>4. Entered'
      BY <1>0, <1>19, <2>1, <2>2, EnteredKept, Zenon DEF Drain, Typed, At
    <3> QED BY <1>0, <1>19, <2>1, <3>3, <3>4, KnownKept, SettledKept, Zenon DEF Drain, Typed
  <2>3. ASSUME NEW m \in Message,
               runtime' = IF Incorporated(m) THEN [runtime EXCEPT !.pc = "resolve", !.msg = m]
                          ELSE [runtime EXCEPT !.pc = "write", !.msg = m, !.op = <<"message", m>>]
        PROVE  Drained' /\ Entered'
    <3>1. Drained'
      BY <1>0, <1>19, <2>1, <2>3, DrainedKept, Zenon DEF Drain, Typed, At
    <3>2. CASE Incorporated(m)
      BY <1>0, <1>19, <2>1, <2>3, <3>1, <3>2, EnteredKept, Zenon DEF Drain, Typed, At
    <3>3. CASE ~Incorporated(m)
      <4>1. <<"redirect", m>> \notin recorded
        BY <1>0, <3>3, MessageBoundsAssumption DEF Incorporated, Entered, Message
      <4>2. Entered'
        BY <1>0, <1>19, <2>3, <3>3, <4>1, Zenon DEF Drain, Typed, At, Entered
      <4> QED BY <3>1, <4>2
    <3> QED BY <3>2, <3>3
  <2>4. CASE Drained' /\ Entered'
    BY <1>0, <1>19, <2>1, <2>4, KnownKept, SettledKept, Zenon DEF Drain, Typed
  <2> QED BY <1>19, <2>2, <2>3, <2>4, Zenon DEF Drain
<1>20. CASE ResolvePlanning
  <2>1. Settles
    <3>1. CASE runtime.msg \in Message
      BY <1>0, <1>20, <3>1, SettlingSettles DEF ResolvePlanning
    <3>2. CASE runtime.msg \notin Message
      <4>1. message' = message
        BY <1>0, <1>20, <3>2 DEF ResolvePlanning, Settle, Typed
      <4> QED BY <1>0, <4>1, UnchangedSettles
    <3> QED BY <3>1, <3>2
  <2>2. Drained'
    BY <1>0, <1>20, <2>1, DrainedKept DEF ResolvePlanning, Typed, At
  <2>3. Entered'
    BY <1>0, <1>20, <2>1, <1>op, EnteredKept DEF ResolvePlanning, Typed, At
  <2> QED BY <1>0, <1>20, <2>1, <2>2, <2>3, KnownKept, SettledKept DEF ResolvePlanning, Typed
<1>21. CASE MarkReviewReady
  <2>1. Settles
    BY <1>0, <1>21, UnchangedSettles DEF MarkReviewReady
  <2>2. Drained'
    BY <1>0, <1>21, <2>1, DrainedKept DEF MarkReviewReady, Typed, At, Idle
  <2>3. Entered'
    BY <1>0, <1>21, <2>1, <1>op, EnteredKept DEF MarkReviewReady, Typed, At, Idle
  <2>4. CASE phase' = phase
    BY <1>0, <1>21, <2>1, <2>2, <2>3, <2>4, KnownKept, SettledKept DEF MarkReviewReady, Typed
  <2>5. CASE NonePending /\ phase' = "review"
    <3>1. \A m \in Message : ~Pending(m)
      BY <1>0, <1>21, <2>5 DEF NonePending, Drained, MarkReviewReady, Live
    <3>2. Settled'
      BY <1>21, <2>5, <3>1 DEF MarkReviewReady, Settled, Pending,
         ReviewOwesNothing, EndedJobOwesNothing, CompletedJobHasNoAmendment
    <3> QED BY <1>0, <1>21, <2>1, <2>2, <2>3, <3>2, KnownKept DEF MarkReviewReady, Typed
  <2> QED BY <1>21, <2>4, <2>5 DEF MarkReviewReady
<1>22. CASE Interpret
  <2> DEFINE m == runtime.msg
  <2>1. /\ phase \in {"executing", "asked"} /\ phase' = phase /\ generation' = generation
        /\ recorded' = recorded /\ cause' = cause /\ runtime'.op = runtime.op
    BY <1>0, <1>22 DEF Interpret, Live, Typed
  <2>2. runtime.pc = "interpret" /\ runtime'.pc \in {"error", runtime.back}
    BY <1>0, <1>22 DEF Interpret, At, Typed
  <2>3. runtime'.pc \notin {"ready", "commit", "write"}
    BY <1>0, <2>2 DEF Typed
  <2>4. CASE Settles
    <3>1. Drained'
      BY <1>0, <2>1, <2>3, <2>4, DrainedKept
    <3>2. Entered'
      BY <1>0, <2>1, <2>3, <2>4, EnteredKept
    <3>3. Known'
      BY <1>0, <2>1, <2>4, KnownKept DEF Typed
    <3>4. Settled'
      BY <1>0, <2>1, <2>4, SettledKept
    <3> QED BY <3>1, <3>2, <3>3, <3>4
  <2>5. CASE /\ m \in Message /\ message[m].bound > 0 /\ Pending(m)
             /\ message' = [message EXCEPT ![m] = [@ EXCEPT !.queued = TRUE]]
    <3>1. Known'
      BY <1>0, <2>1, <2>5 DEF Known, Typed, Row, Pending
    <3>2. Drained'
      BY <2>3 DEF Drained, At
    <3>3. \A k \in Message : message'[k].bound = message[k].bound /\ message'[k].outcome = message[k].outcome
      BY <1>0, <2>5 DEF Typed, Row
    <3>4. Entered'
      BY <1>0, <2>1, <2>3, <3>3 DEF Entered, At
    <3>5. Settled'
      BY <2>1 DEF Settled, ReviewOwesNothing, EndedJobOwesNothing, CompletedJobHasNoAmendment
    <3> QED BY <3>1, <3>2, <3>4, <3>5
  <2>6. CASE m \in Message
    <3>1. ASSUME NEW outcome \in {"answer", "failed"}, Settle(m, outcome), Pending(m)
          PROVE  Settles
      BY <1>0, <2>6, <3>1, SettlingSettles
    <3>2. CASE message' = message
      BY <1>0, <2>4, <3>2, UnchangedSettles
    <3> QED BY <1>22, <2>4, <2>5, <2>6, <3>1, <3>2 DEF Interpret
  <2>7. CASE m \notin Message
    <3>1. message' = message
      BY <1>0, <1>22, <2>7 DEF Interpret, Settle, Typed
    <3> QED BY <1>0, <2>4, <3>1, UnchangedSettles
  <2> QED BY <2>6, <2>7
<1>23. CASE NoAmendments
  <2>1. Settles
    BY <1>0, <1>23, UnchangedSettles DEF NoAmendments
  <2>2. \A m \in Message : ~(Pending(m) /\ message[m].queued)
    BY <1>0, <1>23 DEF NoAmendments, Amendments, Known, Pending
  <2>3. Drained'
    BY <1>0, <1>23, <2>2 DEF NoAmendments, Typed, Drained, At, Pending
  <2>4. Entered'
    BY <1>0, <1>23, <2>1, EnteredKept DEF NoAmendments, Typed, At
  <2> QED BY <1>0, <1>23, <2>1, <2>3, <2>4, KnownKept, SettledKept DEF NoAmendments, Typed
<1>24. CASE CompleteStep
  <2>1. Settles
    BY <1>0, <1>24, UnchangedSettles DEF CompleteStep
  <2>2. Drained'
    BY <1>0, <1>24, <2>1, DrainedKept DEF CompleteStep, Typed, At, Idle
  <2>3. Entered'
    BY <1>0, <1>24, <2>1, <1>op, EnteredKept DEF CompleteStep, Typed, At, Idle
  <2>4. CASE phase' = phase
    BY <1>0, <1>24, <2>1, <2>2, <2>3, <2>4, KnownKept, SettledKept DEF CompleteStep, Typed
  <2>5. CASE phase' = "completed"
    <3>1. Settled'
      BY <1>0, <1>24, <2>5 DEF CompleteStep, Drained, Settled, Pending,
         ReviewOwesNothing, EndedJobOwesNothing, CompletedJobHasNoAmendment
    <3> QED BY <1>0, <1>24, <2>1, <2>2, <2>3, <3>1, KnownKept DEF CompleteStep, Typed
  <2> QED BY <1>24, <2>4, <2>5 DEF CompleteStep
<1>25. CASE message' = Retired(TRUE) /\ phase' \in {"failed", "canceled"}
            /\ UNCHANGED <<generation, cause, recorded>>
            /\ (runtime' = Idle \/ runtime' = [runtime EXCEPT !.live = FALSE])
  <2>1. Settles
    BY <1>0, <1>25, RetiringSettles, Zenon
  <2>2. \A m \in Message : message'[m].outcome # "open"
    <3> SUFFICES ASSUME NEW m \in Message, message'[m].outcome = "open" PROVE FALSE
      OBVIOUS
    <3>1. message[m].outcome = "open" /\ message[m].generation \in Nat /\ message[m].bound \in Nat
      BY <1>0, <2>1 DEF Settles, Typed, Row
    <3>2. message[m].generation # generation
      BY <1>0, <1>25, RetiringSettles, Zenon
    <3>3. message[m].generation < generation /\ message[m].bound > 0
      BY <1>0, <3>1, <3>2 DEF Known, Typed
    <3> QED BY <1>0, <1>25, <3>3, RetiringSettles, Zenon
  <2>3. Drained'
    BY <1>0, <1>25, <2>1, DrainedKept DEF Typed, Idle
  <2>4. Entered'
    BY <1>0, <1>25, <2>1, <1>op, EnteredKept DEF Typed, Idle
  <2>5. Settled'
    BY <1>25, <2>2, Zenon DEF Settled, Pending, ReviewOwesNothing, EndedJobOwesNothing, CompletedJobHasNoAmendment
  <2> QED BY <1>0, <1>25, <2>1, <2>3, <2>4, <2>5, KnownKept DEF Typed
<1>26. ASSUME NEW m \in Message, SubmitMessage(m) PROVE (Known /\ Drained /\ Entered /\ Settled)'
  <2>1. /\ message[m].outcome = "absent"
        /\ UNCHANGED <<phase, generation, cause, recorded, runtime>>
        /\ phase \in {"planning", "executing"}
    BY <1>26 DEF SubmitMessage
  <2>2. /\ message'[m] = [generation |-> generation, bound |-> Bound, queued |-> FALSE, outcome |-> "open"]
        /\ \A k \in Message \ {m} : message'[k] = message[k]
    BY <1>0, <1>26 DEF SubmitMessage, Typed
  <2>3. Known'
    BY <1>0, <2>1, <2>2 DEF Known, Typed, Row
  <2>4. Drained'
    BY <1>0, <2>1, <2>2 DEF Drained, At, Pending
  <2>5. Entered'
    BY <1>0, <2>1, <2>2 DEF Entered, At
  <2>6. Settled'
    BY <2>1 DEF Settled, ReviewOwesNothing, EndedJobOwesNothing, CompletedJobHasNoAmendment
  <2> QED BY <2>3, <2>4, <2>5, <2>6
<1>27. ASSUME NEW next \in {"planning", "held"}, NEW operation, StartGeneration(next, operation),
              recorded' = recorded, runtime' = Idle \/ runtime' = [runtime EXCEPT !.live = FALSE],
              \/ \E n : operation = <<"generation", n>>
              \/ \E m \in Message : operation = <<"redirect", m>> /\ m \in Amendments
       PROVE  (Known /\ Drained /\ Entered /\ Settled)'
  <2>1. message' = Retired(FALSE) /\ generation' = generation + 1 /\ phase' = next /\ cause' = operation
    BY <1>27 DEF StartGeneration
  <2>2. Settles /\ \A m \in Message : message'[m].outcome = "open" => message[m].bound > 0
    <3>1. Settles
      BY <1>0, <2>1, RetiringSettles, Zenon
    <3>2. ASSUME NEW m \in Message, message'[m].outcome = "open" PROVE message[m].bound > 0
      <4>1. message[m].outcome = "open" /\ message[m].bound \in Nat
        BY <1>0, <3>1, <3>2 DEF Settles, Typed, Row
      <4>2. CASE message[m].generation = generation
        BY <1>0, <2>1, <3>2, <4>2, RetiringSettles, Zenon
      <4>3. CASE message[m].generation # generation
        BY <1>0, <4>1, <4>3 DEF Known
      <4> QED BY <4>2, <4>3
    <3> QED BY <3>1, <3>2
  <2>3. generation' \in Nat /\ generation' > generation
    <3>1. generation \in Nat
      BY <1>0 DEF Typed
    <3> QED BY <2>1, <3>1
  <2>4. Known'
    BY <1>0, <2>2, <2>3, KnownKept
  <2>5. Drained'
    BY <1>0, <1>27, <2>2 DEF Drained, Typed, At, Idle, Pending, Settles
  <2>6. Entered'
    <3>1. CASE \E n : operation = <<"generation", n>>
      BY <1>0, <1>27, <1>op, <2>1, <2>2, <3>1, EnteredKept DEF Typed, Idle
    <3>2. ASSUME NEW m \in Message, operation = <<"redirect", m>>, m \in Amendments
          PROVE  Entered'
      <4>1. message[m].bound > 0 /\ message[m].outcome # "absent" /\ m \in Nat
        BY <1>0, <3>2, MessageBoundsAssumption DEF Amendments, Known, Message
      <4>2. /\ \A k \in Message : /\ message'[k].bound = message[k].bound
                                  /\ message'[k].outcome = "absent" <=> message[k].outcome = "absent"
            /\ \A k \in Nat : runtime'.op = <<"redirect", k>> => runtime.op = <<"redirect", k>>
            /\ \A k \in Message : At("write")' /\ runtime'.op = <<"message", k>> =>
                  At("write") /\ runtime.op = <<"message", k>>
        BY <1>0, <1>27, <1>op, <2>2 DEF Settles, Typed, At, Idle
      <4>3. \A k \in Nat : cause' = <<"redirect", k>> => k = m
        BY <2>1, <3>2
      <4>4. \A k \in Message : cause' # <<"message", k>>
        BY <2>1, <3>2
      <4> QED BY <1>0, <1>27, <4>1, <4>2, <4>3, <4>4 DEF Entered
    <3> QED BY <1>27, <3>1, <3>2
  <2>7. Settled'
    BY <1>0, <2>1, <2>2, SettledKept DEF Open
  <2> QED BY <2>4, <2>5, <2>6, <2>7
<1>28. CASE ReplanAmendments
  <2>1. PICK m \in Message :
          /\ m \in Amendments
          /\ \/ StartGeneration("planning", <<"redirect", m>>) /\ runtime' = Idle
             \/ /\ UNCHANGED <<phase, generation, cause, message>>
                /\ runtime' = Idle \/ runtime' = [runtime EXCEPT !.pc = "error"]
    BY <1>28 DEF ReplanAmendments, Oldest
  <2>2. recorded' = recorded
    BY <1>28 DEF ReplanAmendments
  <2>3. CASE StartGeneration("planning", <<"redirect", m>>) /\ runtime' = Idle
    BY <1>27, <2>1, <2>2, <2>3
  <2>4. CASE /\ UNCHANGED <<phase, generation, cause, message>>
             /\ runtime' = Idle \/ runtime' = [runtime EXCEPT !.pc = "error"]
    <3>1. Settles
      BY <1>0, <2>4, UnchangedSettles
    <3>2. Drained' /\ Entered'
      BY <1>0, <1>op, <2>2, <2>4, <3>1, DrainedKept, EnteredKept DEF Typed, Idle
    <3> QED BY <1>0, <2>4, <3>1, <3>2, KnownKept, SettledKept DEF Typed
  <2> QED BY <2>1, <2>3, <2>4
<1>29. CASE UNCHANGED vars
  <2>1. Settles
    BY <1>0, <1>29, UnchangedSettles DEF vars
  <2>2. Drained' /\ Entered'
    BY <1>0, <1>29, <2>1, DrainedKept, EnteredKept DEF vars
  <2> QED BY <1>0, <1>29, <2>1, <2>2, KnownKept, SettledKept DEF vars, Typed
<1>30. CASE FailStep \/ CancelJob
  BY <1>25, <1>30, Zenon DEF FailStep, CancelJob, Revoke
<1>31. CASE ReplanJob \/ InterruptPlanning
  BY <1>27, <1>31 DEF ReplanJob, InterruptPlanning, Revoke
<1> QED
  BY <1>1, <1>2, <1>3, <1>4, <1>5, <1>6, <1>7, <1>8, <1>9, <1>10, <1>11, <1>12, <1>13, <1>14, <1>15,
     <1>16, <1>17, <1>18, <1>19, <1>20, <1>21, <1>22, <1>23, <1>24, <1>26, <1>28, <1>29, <1>30, <1>31
     DEF Next, Worker, Planner, Executor, Trouble, Owner

\* The inductive invariant holds in every reachable state.
LEMMA Invariance == Spec => []IInv
<1>1. Init => IInv
  BY InitInvariant
<1>2. IInv /\ [Next]_vars => IInv'
  BY StepKeepsType, StepKeepsPromises DEF IInv
<1> QED BY <1>1, <1>2, PTL DEF Spec

-----------------------------------------------------------------------------
(* The results. *)

\* A proposal is put before the owner only when no message is open, those of
\* earlier generations included (MarkCodingLedgerReviewReady checks its own
\* generation only).
THEOREM ReviewComplete == Spec => []ReviewOwesNothing
<1>1. IInv => ReviewOwesNothing
  BY DEF IInv, Settled
<1> QED BY <1>1, Invariance, PTL

\* A failed or cancelled job leaves no message open (retireChannelSessionMessagesTx).
THEOREM EndComplete == Spec => []EndedJobOwesNothing
<1>1. IInv => EndedJobOwesNothing
  BY DEF IInv, Settled
<1> QED BY <1>1, Invariance, PTL

\* No job completes over a queued amendment (transitionAfterSessionMessages).
THEOREM CompletionHasNoAmendment == Spec => []CompletedJobHasNoAmendment
<1>1. IInv => CompletedJobHasNoAmendment
  BY DEF IInv, Settled
<1> QED BY <1>1, Invariance, PTL

\* A redirection that is in the plan keeps its message out of it
\* (finishPlanningConversation).
THEOREM RedirectionOnce == Spec => RedirectionEntersOnce
<1> DEFINE A == \A m \in Message :
         <<"redirect", m>> \in recorded /\ <<"message", m>> \in recorded' => <<"message", m>> \in recorded
<1>1. IInv /\ [Next]_vars => A
  <2> SUFFICES ASSUME IInv, [Next]_vars, NEW m \in Message, <<"redirect", m>> \in recorded,
                      <<"message", m>> \in recorded', <<"message", m>> \notin recorded
               PROVE  FALSE
    OBVIOUS
  <2>1. recorded' # recorded
    OBVIOUS
  <2>2. WriteRevision
    BY <2>1, Zenon DEF Next, Worker, Planner, Executor, Trouble, Owner, vars, StartPlanning, PlanTurn,
       WriteNothing, Drain, ResolvePlanning, MarkReviewReady, StartExecution, Consume, NothingToConsume,
       Interpret, Done, AcceptTask, NoAmendments, ReplanAmendments, CompleteStep, Stop,
       WaitForNativeInput, WaitForExecutionInput, FailStep, LoseAttempt, SubmitMessage, ReplanJob,
       InterruptPlanning, PauseJob, ResumeJob, ReplyToInput, EditLedger, FreezeAndStart, CancelJob
  <2>3. At("write") /\ runtime.op = <<"message", m>>
    BY <2>2 DEF WriteRevision
  <2> QED BY <2>3 DEF IInv, Entered
<1>2. [][A]_vars <=> RedirectionEntersOnce
  BY PTL DEF RedirectionEntersOnce
<1> QED BY <1>1, <1>2, Invariance, PTL DEF Spec

\* Only a terminal control retires a bound message.
THEOREM BoundSurvives == Spec => BoundInputSurvives
<1> DEFINE A == \A m \in Message :
         message[m].bound > 0 /\ message[m].outcome = "open" /\ message'[m].outcome = "retired"
           => phase' \in {"failed", "canceled"}
<1>1. IInv /\ [Next]_vars => A
  <2> SUFFICES ASSUME IInv, [Next]_vars, NEW m \in Message, message[m].bound > 0,
                      message[m].outcome = "open", message'[m].outcome = "retired"
               PROVE  phase' \in {"failed", "canceled"}
    OBVIOUS
  <2>0. Typed
    BY DEF IInv
  <2>1. CASE FailStep \/ CancelJob
    BY <2>1, Zenon DEF FailStep, CancelJob
  <2>2. CASE message' = Retired(FALSE)
    <3>1. message[m].bound = 0
      BY <2>0, <2>2, RetiringSettles, Zenon
    <3> QED BY <3>1
  <2>3. CASE ReplanAmendments \/ ReplanJob \/ InterruptPlanning
    BY <2>2, <2>3, Zenon DEF ReplanAmendments, ReplanJob, InterruptPlanning, StartGeneration
  <2>4. ASSUME NEW k, NEW outcome \in {"answer", "failed", "planning"}, Settle(k, outcome) PROVE FALSE
    BY <2>0, <2>4 DEF Settle, Typed, Row
  <2>5. CASE ResolvePlanning
    BY <2>4, <2>5 DEF ResolvePlanning
  <2>6. CASE Interpret
    <3>1. CASE message' = [message EXCEPT ![runtime.msg] = [@ EXCEPT !.queued = TRUE]]
      BY <2>0, <3>1 DEF Typed, Row
    <3> QED BY <2>4, <2>6, <3>1 DEF Interpret
  <2>7. ASSUME NEW k \in Message, SubmitMessage(k) PROVE FALSE
    BY <2>0, <2>7 DEF SubmitMessage, Typed, Row
  <2>8. CASE message' = message
    BY <2>8
  <2> QED
    BY <2>1, <2>3, <2>5, <2>6, <2>7, <2>8, Zenon
    DEF Next, Worker, Planner, Executor, Trouble, Owner, vars, StartPlanning, PlanTurn, WriteRevision,
       WriteNothing, Drain, MarkReviewReady, StartExecution, Consume, NothingToConsume,
       Done, AcceptTask, NoAmendments, CompleteStep, Stop, WaitForNativeInput, WaitForExecutionInput,
       LoseAttempt, PauseJob, ResumeJob, ReplyToInput, EditLedger, FreezeAndStart
<1>2. [][A]_vars <=> BoundInputSurvives
  BY PTL DEF BoundInputSurvives
<1> QED BY <1>1, <1>2, Invariance, PTL DEF Spec
=============================================================================
