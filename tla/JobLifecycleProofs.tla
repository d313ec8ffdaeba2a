------------------------ MODULE JobLifecycleProofs ------------------------
(***************************************************************************)
(* Proofs about JobLifecycle: what a coding job promises, for any number   *)
(* of steps, attempts, generations, tasks and revisions, and that its      *)
(* attempts implement ExclusiveExecution.                                  *)
(***************************************************************************)
EXTENDS JobLifecycle, CodingLedgerProofs

-----------------------------------------------------------------------------
(* The inductive invariant. *)

\* A step x with its attempts a and its latest response i.  Attempts above the
\* current one were never issued and those below it have ended; who runs has a
\* worker, and so has who waits with the provider's request in hand.
Row(x, a, i) ==
    /\ \A n \in AttemptNo : n = 0 \/ n > x.attempt => a[n] = "none"
    /\ \A n \in AttemptNo : n < x.attempt => a[n] # "active"
    /\ x.status = "absent" => x.attempt = 0 /\ x.superseded = 0
    /\ x.superseded # 0 => x.status \in Terminal
    /\ x.status = "pending" => x.attempt = 0
    /\ x.status = "running" => x.attempt > 0 /\ x.worker = TRUE
    /\ x.status \in {"running", "waiting_input"} /\ x.action = "v3_coding" /\ x.attempt > 0
          => a[x.attempt] \in {"active", "waiting_input"}
    /\ x.status = "waiting_input" /\ x.worker = TRUE =>
          a[x.attempt] = "active" /\ i.kind = "native" /\ i.replied = FALSE
    /\ a[x.attempt] = "active" =>
          \/ x.status \in {"running", "waiting_input"} /\ x.worker = TRUE
          \/ x.status = "completed" /\ x.action = "v3_coding_plan"
    /\ i.kind # "none" => x.attempt > 0

Rows == \A s \in StepId : Row(step[s], attempt[s], input[s])

\* Live for a row.
InForce(x) == x.status # "absent" /\ x.superseded = 0
Planning(x) == InForce(x) /\ x.action = "v3_coding_plan"
Coding(x) == InForce(x) /\ x.action = "v3_coding"

\* What is known of the rows T of job_steps: those in force are of the job's
\* generation g, one of them plans, and all that execute, but the last, failed.
Tail(T, g) ==
    /\ \A s \in StepId : InForce(T[s]) => T[s].generation = g
    /\ \E p \in StepId : Planning(T[p])
    /\ \A p, r \in StepId : Planning(T[p]) /\ Planning(T[r]) => r = p
    /\ \E e \in StepId : Coding(T[e])
    /\ \A r, s \in StepId : Coding(T[r]) /\ Coding(T[s]) /\ r < s => T[r].status = "failed"

\* Nothing executes before planning is completed, and a frozen ledger (l is the
\* state of the ledger) has completed it.
PlanFirst(T, l) ==
    /\ \A p, e \in StepId :
          Planning(T[p]) /\ Coding(T[e]) /\ T[e].status \in {"running", "waiting_input"}
            => T[p].status = "completed"
    /\ l = "frozen" => \A p \in StepId : Planning(T[p]) => T[p].status = "completed"

\* The status j of the job and those of its steps.
Agrees(T, j, l) ==
    /\ j \in Open => \E e \in StepId : Coding(T[e]) /\ T[e].status \in Open
    /\ j = "waiting_input" => \E s \in StepId : InForce(T[s]) /\ T[s].status = "waiting_input"
    /\ j \in {"pending", "running"} =>
          \A s \in StepId : InForce(T[s]) => T[s].status # "waiting_input"
    /\ j = "failed" /\ l = "frozen" =>
          \A e \in StepId : Coding(T[e]) => T[e].status = "failed"

\* A job without a ledger has no task.
LedgerRests ==
    ledger.state = "absent" => ledger.lastFrozen = 0 /\ \A t \in Task : tasks[t] # "ready"

IInv ==
    /\ TypeOK
    /\ Rows
    /\ Tail(step, job.generation)
    /\ PlanFirst(step, ledger.state)
    /\ Agrees(step, job.status, ledger.state)
    /\ LedgerRests
    /\ CompletedJobIsDone
    /\ CanceledJobIsQuiet

-----------------------------------------------------------------------------
(* Facts about rows. *)

\* The columns of a row of job_steps.
LEMMA StepFields ==
    ASSUME NEW x \in Step
    PROVE  /\ x.action \in {"v3_coding_plan", "v3_coding"} /\ x.generation \in Generation
           /\ x.status \in Open \cup Terminal \cup {"absent"} /\ x.attempt \in AttemptNo
           /\ x.worker \in BOOLEAN /\ x.superseded \in Generation
  BY Zenon DEF Step

\* What an update of status, worker and attempt leaves alone.
SameStep(x, y) ==
    /\ y \in Step
    /\ y.action = x.action /\ y.generation = x.generation /\ y.superseded = x.superseded

\* UPDATE job_steps SET status.
LEMMA SetStatus ==
    ASSUME NEW x \in Step, NEW v \in Open \cup Terminal
    PROVE  LET y == [x EXCEPT !.status = v]
           IN  SameStep(x, y) /\ y.status = v /\ y.worker = x.worker /\ y.attempt = x.attempt
  BY DEF Step, SameStep

\* UPDATE job_steps SET status, worker_id.
LEMMA SetWorker ==
    ASSUME NEW x \in Step, NEW v \in Open \cup Terminal, NEW b \in BOOLEAN
    PROVE  LET y == [x EXCEPT !.status = v, !.worker = b]
           IN  SameStep(x, y) /\ y.status = v /\ y.worker = b /\ y.attempt = x.attempt
  BY Zenon DEF Step, SameStep

\* Zero is a number of attempts and of generations, and no step.
LEMMA Numbers ==
    /\ StepId \subseteq Nat \ {0} /\ AttemptNo \subseteq Nat /\ Generation \subseteq Nat
    /\ 0 \in AttemptNo /\ 0 \in Generation
  BY LifecycleBoundsAssumption DEF StepId, AttemptNo, Generation

\* The numbers of two attempts compare.
LEMMA Compare ==
    \A m, n \in AttemptNo :
        /\ n < m \/ n > m \/ n = m
        /\ n < m \/ n > m => n # m
  BY Numbers

\* A fresh row.
IsNew(x, action, g, status) ==
    /\ x \in Step /\ x.action = action /\ x.generation = g /\ x.status = status
    /\ x.attempt = 0 /\ x.worker = FALSE /\ x.superseded = 0

\* INSERT INTO job_steps.
LEMMA NewRow ==
    ASSUME NEW action \in {"v3_coding_plan", "v3_coding"}, NEW g \in Generation,
           NEW status \in Open \cup Terminal \cup {"absent"}
    PROVE  IsNew(NewStep(action, g, status), action, g, status)
  BY Numbers DEF NewStep, Step, IsNew

\* The ledger of a job that was just created.
LEMMA InitHolds == Init => IInv
  <1> SUFFICES ASSUME Init PROVE IInv
    BY Zenon
  <1>1. IsNew(AbsentStep, "v3_coding", 0, "absent")
    BY NewRow, Numbers DEF AbsentStep
  <1>2. 1 \in Generation /\ 1 \in StepId /\ 2 \in StepId /\ 1 \in 1..MaxGeneration
    BY LifecycleBoundsAssumption DEF Generation, StepId
  <1>3. /\ IsNew(NewStep("v3_coding_plan", 1, "pending"), "v3_coding_plan", 1, "pending")
        /\ IsNew(NewStep("v3_coding", 1, "pending"), "v3_coding", 1, "pending")
    BY NewRow, <1>2 DEF Open
  <1>4. /\ step[1] = NewStep("v3_coding_plan", 1, "pending")
        /\ step[2] = NewStep("v3_coding", 1, "pending")
        /\ \A s \in StepId \ {1, 2} : step[s] = AbsentStep
    BY <1>2 DEF Init
  <1>5. job.status = "pending" /\ job.generation = 1
    BY DEF Init
  <1>6. TypeOK
    <2>1. LedgerTypeOK
      BY LedgerInitType, Zenon DEF Init
    <2>2. step \in [StepId -> Step]
      BY <1>1, <1>3 DEF Init, IsNew
    <2>3. job \in [status : Open \cup Terminal, generation : 1..MaxGeneration]
      BY <1>2 DEF Init, Open
    <2>4. attempt \in [StepId -> [AttemptNo -> AttemptStatus]]
      BY DEF Init, AttemptStatus
    <2>5. input \in [StepId -> [kind : InputKind, replied : BOOLEAN]]
      BY DEF Init, NoInput, InputKind
    <2> QED
      BY <2>1, <2>2, <2>3, <2>4, <2>5, Zenon DEF TypeOK, Init
  <1>7. Rows
    <2> SUFFICES ASSUME NEW s \in StepId PROVE Row(step[s], attempt[s], input[s])
      BY Zenon DEF Rows
    <2>1. /\ step[s].attempt = 0 /\ step[s].superseded = 0 /\ step[s].status \in {"absent", "pending"}
      BY <1>1, <1>3, <1>4 DEF IsNew
    <2>2. \A n \in AttemptNo : attempt[s][n] = "none"
      BY Zenon DEF Init
    <2>3. input[s].kind = "none"
      BY DEF Init, NoInput
    <2> QED
      BY <2>1, <2>2, <2>3, Numbers DEF Row
  <1>8. \A s \in StepId : /\ InForce(step[s]) <=> s \in {1, 2}
                          /\ Planning(step[s]) <=> s = 1
                          /\ Coding(step[s]) <=> s = 2
                          /\ InForce(step[s]) => step[s].status = "pending" /\ step[s].generation = 1
    BY <1>1, <1>3, <1>4 DEF IsNew, InForce, Planning, Coding
  <1>9. Tail(step, job.generation)
    BY <1>2, <1>5, <1>8 DEF Tail
  <1>10. ledger.state = "absent" /\ ledger.lastFrozen = 0 /\ \A t \in Task : tasks[t] = "none"
    BY Zenon DEF Init, LedgerInit
  <1>11. PlanFirst(step, ledger.state)
    BY <1>8, <1>10 DEF PlanFirst, Coding
  <1>12. Agrees(step, job.status, ledger.state)
    BY <1>2, <1>5, <1>8, Zenon DEF Agrees, Open, Coding
  <1> QED
    BY <1>5, <1>6, <1>7, <1>9, <1>10, <1>11, <1>12
    DEF IInv, LedgerRests, CompletedJobIsDone, CanceledJobIsQuiet

-----------------------------------------------------------------------------
(* What operations have in common. *)

\* Rows and types of the state, at one step.
LEMMA RowFacts ==
    ASSUME IInv, NEW s \in StepId
    PROVE  /\ step[s] \in Step /\ Row(step[s], attempt[s], input[s])
           /\ attempt[s] \in [AttemptNo -> AttemptStatus]
           /\ input[s] \in [kind : InputKind, replied : BOOLEAN]
           /\ job.status \in Open \cup Terminal /\ job.generation \in 1..MaxGeneration
           /\ step[s].attempt \in AttemptNo /\ step[s].worker \in BOOLEAN
           /\ step[s].status \in Open \cup Terminal \cup {"absent"}
           /\ step[s].action \in {"v3_coding_plan", "v3_coding"}
  BY StepFields, Zenon DEF IInv, TypeOK, Rows

\* requireLockedStepAttemptActiveTx: the authority is that of a step in force.
LEMMA ActiveFacts ==
    ASSUME IInv, NEW s \in StepId, NEW n \in AttemptNo, Active(s, n)
    PROVE  /\ InForce(step[s]) /\ n = step[s].attempt /\ n > 0
           /\ step[s].worker = TRUE /\ attempt[s][n] = "active" /\ s \notin expired
  BY RowFacts, Zenon DEF Active, Authority, Current, Live, InForce

\* An operation that writes no step and freezes no ledger.
LEMMA QuietHolds ==
    ASSUME IInv, UNCHANGED <<job, step, attempt>>, TypeOK', Rows',
           ledger'.state = "frozen" => ledger.state = "frozen",
           LedgerRests', CompletedJobIsDone', CanceledJobIsQuiet'
    PROVE  IInv'
  <1>1. Tail(step', job'.generation)
    BY Zenon DEF IInv
  <1>2. PlanFirst(step', ledger'.state)
    BY DEF IInv, PlanFirst
  <1>3. Agrees(step', job'.status, ledger'.state)
    BY DEF IInv, Agrees
  <1> QED
    BY <1>1, <1>2, <1>3 DEF IInv

\* The ledger is left alone.
LEMMA LedgerKept ==
    ASSUME IInv, UNCHANGED ledgerVars
    PROVE  LedgerTypeOK' /\ LedgerRests' /\ ledger'.state = ledger.state
  BY DEF IInv, TypeOK, ledgerVars, LedgerTypeOK, LedgerRests

\* A job with that status is neither completed nor cancelled.
LEMMA Unfinished ==
    ASSUME job'.status \notin {"completed", "canceled"}
    PROVE  CompletedJobIsDone' /\ CanceledJobIsQuiet'
  BY DEF CompletedJobIsDone, CanceledJobIsQuiet

-----------------------------------------------------------------------------
(* Operations that write no step. *)

\* The deadline of an attempt passes.
LEMMA LeaseExpiresHolds ==
    ASSUME IInv, NEW s \in StepId, LeaseExpires(s) PROVE IInv'
  <1>1. /\ UNCHANGED <<ledgerVars, job, step, attempt, input, pending>>
        /\ TypeOK'
    BY Zenon DEF LeaseExpires, IInv, TypeOK, ledgerVars, LedgerTypeOK
  <1>2. Rows'
    BY <1>1 DEF IInv, Rows
  <1>3. CompletedJobIsDone' /\ CanceledJobIsQuiet'
    BY <1>1, Zenon DEF IInv, CompletedJobIsDone, CanceledJobIsQuiet, ledgerVars, Live
  <1> QED
    BY <1>1, <1>2, <1>3, LedgerKept, QuietHolds

\* A parsed response is recorded.
LEMMA RespondHolds ==
    ASSUME IInv, NEW s \in StepId, NEW n \in AttemptNo,
           NEW kind \in {"none", "question", "incomplete"}, Respond(s, n, kind)
    PROVE  IInv'
  <1>1. /\ UNCHANGED <<ledgerVars, job, step, attempt, expired, paused, asking, journal, pending>>
        /\ input' = [input EXCEPT ![s] = [kind |-> kind, replied |-> FALSE]]
        /\ job.status = "running" /\ step[s].status = "running" /\ Active(s, n)
    BY Zenon DEF Respond, Executing
  <1>2. [kind |-> kind, replied |-> FALSE] \in [kind : InputKind, replied : BOOLEAN]
    BY DEF InputKind
  <1>3. TypeOK'
    BY <1>1, <1>2, Zenon DEF IInv, TypeOK, ledgerVars, LedgerTypeOK
  <1>4. Rows'
    <2>1. \A r \in StepId \ {s} : Row(step'[r], attempt'[r], input'[r])
      BY <1>1, Zenon DEF IInv, Rows, TypeOK
    <2>2. step'[s] = step[s] /\ attempt'[s] = attempt[s]
          /\ input'[s] = [kind |-> kind, replied |-> FALSE]
      BY <1>1, Zenon DEF IInv, TypeOK
    <2>3. Row(step'[s], attempt'[s], input'[s])
      <3>1. Row(step[s], attempt[s], input[s]) /\ step[s].attempt > 0
        BY <1>1, RowFacts, ActiveFacts, ZenonT(30)
      <3> QED
        BY <1>1, <2>2, <3>1, Zenon DEF Row
    <2> QED
      BY <2>1, <2>3, Zenon DEF Rows
  <1> QED
    BY <1>1, <1>3, <1>4, LedgerKept, QuietHolds, Unfinished, Zenon

\* A verdict on a task is recorded.
LEMMA ReviewHolds ==
    ASSUME IInv, NEW s \in StepId, NEW n \in AttemptNo, NEW t \in Task, NEW accepted \in BOOLEAN,
           Review(s, n, t, accepted)
    PROVE  IInv'
  <1>1. /\ UNCHANGED <<ledgerVars, job, step, attempt, expired, input, paused, asking, pending>>
        /\ journal' \in SUBSET Task /\ job.status = "running"
    BY Zenon DEF Review, Executing, IInv, TypeOK
  <1>2. TypeOK' /\ Rows'
    BY <1>1, Zenon DEF IInv, TypeOK, Rows, ledgerVars, LedgerTypeOK
  <1> QED
    BY <1>1, <1>2, LedgerKept, QuietHolds, Unfinished, Zenon

\* A task is accepted.
LEMMA AcceptHolds ==
    ASSUME IInv, NEW s \in StepId, NEW n \in AttemptNo, NEW t \in Task,
           AcceptCodingLedgerTask(s, n, t)
    PROVE  IInv'
  <1>1. UNCHANGED jobVars /\ AcceptTask(t) /\ job.status = "running"
    BY Zenon DEF AcceptCodingLedgerTask, Executing
  <1>2. LedgerTypeOK'
    BY <1>1, TransitionType, Zenon DEF IInv, TypeOK
  <1>3. TypeOK' /\ Rows' /\ UNCHANGED <<job, step, attempt>>
    BY <1>1, <1>2, Zenon DEF IInv, TypeOK, Rows, jobVars
  <1>4. ledger.state = "frozen" /\ ledger' = ledger
    BY <1>1, Zenon DEF AcceptTask
  <1> QED
    BY <1>1, <1>3, <1>4, QuietHolds, Unfinished DEF LedgerRests

\* Messages come and are answered.
LEMMA MessagesHold ==
    ASSUME IInv, NEW s \in StepId, NEW n \in AttemptNo, AdmitMessage \/ ResolveMessage(s, n)
    PROVE  IInv'
  <1>1. /\ UNCHANGED <<ledgerVars, job, step, attempt, expired, input, paused, asking, journal>>
        /\ pending' \in BOOLEAN /\ job.status \notin {"completed", "canceled"}
    BY Zenon DEF AdmitMessage, ResolveMessage, NativeWaiting
  <1>2. TypeOK' /\ Rows'
    BY <1>1 DEF IInv, TypeOK, Rows, ledgerVars, LedgerTypeOK
  <1> QED
    BY <1>1, <1>2, LedgerKept, QuietHolds, Unfinished

\* Planners and owners write the plan; nothing of it concerns a job that is
\* completed or, but for a first draft, cancelled.
LEMMA PlanHolds ==
    ASSUME IInv, CreateLedger \/ EditLedger \/ ReproposeLedger PROVE IInv'
  <1>1. UNCHANGED <<job, step, attempt, input, pending>> /\ UNCHANGED jobVars
    BY Zenon DEF CreateLedger, EditLedger, ReproposeLedger, jobVars
  <1>2. /\ LedgerTypeOK'
        /\ ledger.state \in {"absent", "proposed", "revising"} /\ ledger'.state = "proposed"
        /\ ledger'.lastFrozen = ledger.lastFrozen /\ tasks' = tasks
    <2>1. LedgerTypeOK /\ ledger \in Ledger
      BY Zenon DEF IInv, TypeOK, LedgerTypeOK
    <2>2. CASE CreateLedger
      <3>1. PICK items \in [Task -> {AbsentItem} \cup {ActiveItem(c) : c \in Contract}] :
                    CreateCodingLedger(items)
        BY <2>2, Zenon DEF CreateLedger
      <3>2. items \in [Task -> Item]
        BY ItemType
      <3>3. LedgerTypeOK'
        BY <2>1, <3>1, <3>2, WriteType
      <3> QED
        BY <2>1, <3>1, <3>3 DEF CreateCodingLedger, Ledger
    <2>3. CASE EditLedger
      <3>1. PICK t \in Task : \E item \in Mutated(t) :
                    ApplyCodingLedgerMutation(ledger.revision, [plan EXCEPT ![t] = item])
        BY <2>3, Zenon DEF EditLedger
      <3>2. PICK item \in Mutated(t) :
                    ApplyCodingLedgerMutation(ledger.revision, [plan EXCEPT ![t] = item])
        BY <3>1
      <3>3. [plan EXCEPT ![t] = item] \in [Task -> Item]
        BY <2>1, MutatedType DEF LedgerTypeOK
      <3>4. LedgerTypeOK'
        BY <2>1, <3>2, <3>3, WriteType, Zenon
      <3> QED
        BY <2>1, <3>2, <3>4, Zenon DEF ApplyCodingLedgerMutation, Editable, NextRevision, Ledger
    <2>4. CASE ReproposeLedger
      <3>1. ProposeUnchanged(ledger.revision)
        BY <2>4, Zenon DEF ReproposeLedger
      <3>2. LedgerTypeOK'
        <4>1. plan \in [Task -> Item]
          BY <2>1, Zenon DEF LedgerTypeOK
        <4> QED
          BY <2>1, <3>1, <4>1, WriteType
      <3> QED
        BY <2>1, <3>1, <3>2, Zenon DEF ProposeUnchanged, NextRevision, Ledger
    <2> QED
      BY <2>2, <2>3, <2>4
  <1>3. TypeOK' /\ Rows'
    BY <1>1, <1>2, Zenon DEF IInv, TypeOK, Rows, jobVars
  <1>4. LedgerRests'
    BY <1>2 DEF LedgerRests
  <1>5. CompletedJobIsDone'
    BY <1>1, <1>2, Zenon DEF IInv, CompletedJobIsDone
  <1>6. CanceledJobIsQuiet'
    BY <1>1, <1>2 DEF IInv, CanceledJobIsQuiet, LedgerRests
  <1> QED
    BY <1>1, <1>2, <1>3, <1>4, <1>5, <1>6, QuietHolds, Zenon

-----------------------------------------------------------------------------
(* Operations on one step. *)

\* Only step s is written.
Touches(s) ==
    \A r \in StepId \ {s} :
        step'[r] = step[r] /\ attempt'[r] = attempt[r] /\ input'[r] = input[r]

\* An open step is the only one in force of its kind that did not fail.
LEMMA OpenIsLast ==
    ASSUME IInv, NEW s \in StepId, InForce(step[s]), step[s].status \in Open
    PROVE  /\ Coding(step[s]) => \A r \in StepId \ {s} : Coding(step[r]) => step[r].status = "failed"
           /\ Planning(step[s]) => \A r \in StepId \ {s} : ~Planning(step[r])
           /\ Planning(step[s]) \/ Coding(step[s])
  <1>1. \A r \in StepId \ {s} : r < s \/ s < r
    BY Numbers
  <1> QED
    BY <1>1, RowFacts, Zenon DEF IInv, Tail, Open, Coding, Planning

\* Two steps in force neither run nor wait at the same time.
LEMMA OneAtWork ==
    ASSUME IInv, NEW s \in StepId, InForce(step[s]), step[s].status \in {"running", "waiting_input"}
    PROVE  /\ \A r \in StepId \ {s} :
                  InForce(step[r]) => step[r].status \notin {"running", "waiting_input"}
           /\ Coding(step[s]) =>
                  \A p \in StepId : Planning(step[p]) => step[p].status = "completed"
  <1>1. step[s].status \in Open
    BY Zenon DEF Open
  <1>2. \A r \in StepId : InForce(step[r]) => Planning(step[r]) \/ Coding(step[r])
    BY RowFacts DEF Planning, Coding
  <1> QED
    BY <1>1, <1>2, OpenIsLast, Zenon DEF IInv, PlanFirst

\* What is in force stays in force.
LEMMA TouchFacts ==
    ASSUME IInv, NEW s \in StepId, InForce(step[s]), step[s].status \in Open,
           Touches(s), SameStep(step[s], step'[s]), step'[s].status # "absent"
    PROVE  /\ \A r \in StepId : /\ InForce(step'[r]) <=> InForce(step[r])
                                /\ Planning(step'[r]) <=> Planning(step[r])
                                /\ Coding(step'[r]) <=> Coding(step[r])
           /\ Tail(step', job.generation)
  <1>1. \A r \in StepId : /\ InForce(step'[r]) <=> InForce(step[r])
                          /\ Planning(step'[r]) <=> Planning(step[r])
                          /\ Coding(step'[r]) <=> Coding(step[r])
                          /\ step'[r].generation = step[r].generation
    BY Zenon DEF Touches, SameStep, InForce, Planning, Coding
  <1>2. \A r \in StepId : Coding(step[r]) /\ step[r].status = "failed" => step'[r].status = "failed"
    BY DEF Touches, Open
  <1> QED
    BY <1>1, <1>2, Zenon DEF IInv, Tail

\* The rows, when that of s is as it should be.
LEMMA TouchRows ==
    ASSUME IInv, NEW s \in StepId, Touches(s), Row(step'[s], attempt'[s], input'[s])
    PROVE  Rows'
  BY DEF IInv, Rows, Touches

\* An open step becomes another open one, and the job with it: it is claimed,
\* waits, is paused, resumed or replied to.
LEMMA MovesOn ==
    ASSUME IInv, NEW s \in StepId, InForce(step[s]), step[s].status \in Open,
           Touches(s), SameStep(step[s], step'[s]), step'[s].status \in Open,
           Row(step'[s], attempt'[s], input'[s]), TypeOK', UNCHANGED ledgerVars,
           job.status \in Open, job'.generation = job.generation,
           job'.status = IF step'[s].status = "waiting_input" THEN "waiting_input" ELSE "running",
           job.status = "waiting_input" => step[s].status = "waiting_input",
           Coding(step[s]) => \A p \in StepId : Planning(step[p]) => step[p].status = "completed"
    PROVE  IInv'
  <1>1. \A r \in StepId : /\ InForce(step'[r]) <=> InForce(step[r])
                          /\ Planning(step'[r]) <=> Planning(step[r])
                          /\ Coding(step'[r]) <=> Coding(step[r])
    BY TouchFacts, Zenon DEF Open
  <1>2. Tail(step', job'.generation) /\ Rows'
    BY TouchFacts, TouchRows, Zenon DEF Open
  <1>3. \A r \in StepId \ {s} : step'[r] = step[r]
    BY Zenon DEF Touches
  <1>4. ledger'.state = ledger.state /\ LedgerRests'
    BY LedgerKept, Zenon
  <1>5. Planning(step[s]) =>
            /\ ledger.state # "frozen"
            /\ \A e \in StepId : Coding(step[e]) => step[e].status \notin {"running", "waiting_input"}
    BY Zenon DEF IInv, PlanFirst, Open
  <1>6. PlanFirst(step', ledger'.state)
    <2>1. CASE Planning(step[s])
      <3>1. ~Coding(step[s])
        BY <2>1, Zenon DEF Planning, Coding
      <3> QED
        BY <1>1, <1>3, <1>4, <1>5, <2>1, <3>1, Zenon DEF PlanFirst
    <2>2. CASE Coding(step[s])
      <3>1. ~Planning(step[s])
        BY <2>2, Zenon DEF Planning, Coding
      <3> QED
        BY <1>1, <1>3, <2>2, <3>1, Zenon DEF PlanFirst
    <2> QED
      BY <2>1, <2>2, OpenIsLast, Zenon
  <1>7. \A r \in StepId \ {s} : InForce(step[r]) => step[r].status # "waiting_input"
    BY OneAtWork, Zenon DEF IInv, Agrees, Open
  <1>8. \E e \in StepId : Coding(step'[e]) /\ step'[e].status \in Open
    BY <1>1, <1>3, Zenon DEF IInv, Agrees
  <1>9. Agrees(step', job'.status, ledger'.state)
    BY <1>1, <1>3, <1>7, <1>8 DEF Agrees, Open
  <1>10. CompletedJobIsDone' /\ CanceledJobIsQuiet'
    BY Unfinished, Zenon
  <1> QED
    BY <1>2, <1>4, <1>6, <1>9, <1>10, Zenon DEF IInv

\* ClaimNextStep: a fresh attempt on a vacant step.
LEMMA ClaimHolds ==
    ASSUME IInv, NEW s \in StepId, ClaimNextStep(s) PROVE IInv'
  <1> DEFINE m == step[s].attempt + 1
             x == [step[s] EXCEPT !.status = "running", !.attempt = m, !.worker = TRUE]
             a == [n \in AttemptNo |->
                      IF n = m THEN "active"
                      ELSE IF n = step[s].attempt /\ attempt[s][n] = "active" THEN "expired"
                      ELSE attempt[s][n]]
  <1>1. /\ step' = [step EXCEPT ![s] = x] /\ attempt' = [attempt EXCEPT ![s] = a]
        /\ job' = [job EXCEPT !.status = "running"] /\ expired' = expired \ {s}
        /\ UNCHANGED <<ledgerVars, input, paused, asking, journal, pending>>
        /\ Claimable(s) /\ step[s].attempt < MaxAttempt
    BY Zenon DEF ClaimNextStep
  <1>2. /\ InForce(step[s]) /\ Vacant(s) /\ step[s].status \in {"pending", "running"}
        /\ job.status \in {"pending", "running"}
        /\ \A p \in Predecessors(s) : step[p].status = "completed"
    BY <1>1 DEF Claimable, Current, Live, InForce, Vacant
  <1>3. /\ m \in AttemptNo /\ m > 0 /\ m > step[s].attempt /\ step[s].attempt \in AttemptNo
        /\ \A n \in AttemptNo : n < m => n <= step[s].attempt
        /\ \A n \in AttemptNo : n <= step[s].attempt => n = step[s].attempt \/ n < step[s].attempt
        /\ \A n \in AttemptNo : n = 0 \/ n > m => n # m /\ (n = 0 \/ n > step[s].attempt)
    BY <1>1, RowFacts, LifecycleBoundsAssumption, SMTT(30) DEF AttemptNo
  <1>4. /\ SameStep(step[s], x) /\ x.status = "running" /\ x.worker = TRUE /\ x.attempt = m
    <2>1. step[s] \in Step /\ "running" \in Open \cup Terminal /\ TRUE \in BOOLEAN
      BY RowFacts, Zenon DEF Open
    <2>2. m \in AttemptNo
      BY <1>3, Zenon
    <2> HIDE DEF m
    <2> QED
      BY <2>1, <2>2, Zenon DEF Step, SameStep
  <1>5. a \in [AttemptNo -> AttemptStatus]
    BY RowFacts, Zenon DEF AttemptStatus
  <1>6. step'[s] = x /\ attempt'[s] = a /\ input'[s] = input[s] /\ Touches(s)
    BY <1>1, Zenon DEF IInv, TypeOK, Touches
  <1>7. job'.status = "running" /\ job'.generation = job.generation
    BY <1>1, Zenon DEF IInv, TypeOK
  <1>8. TypeOK'
    <2>1. step' \in [StepId -> Step] /\ attempt' \in [StepId -> [AttemptNo -> AttemptStatus]]
      BY <1>1, <1>4, <1>5, Zenon DEF IInv, TypeOK, SameStep
    <2>2. job' \in [status : Open \cup Terminal, generation : 1..MaxGeneration]
      BY <1>1, Zenon DEF IInv, TypeOK, Open
    <2> QED
      BY <1>1, <2>1, <2>2, Zenon DEF IInv, TypeOK, ledgerVars, LedgerTypeOK
  <1>9. Row(x, a, input[s])
    <2>1. Row(step[s], attempt[s], input[s])
      BY RowFacts, Zenon
    <2>2. /\ \A n \in AttemptNo : n = 0 \/ n > m => a[n] = "none"
          /\ \A n \in AttemptNo : n < m => a[n] # "active"
          /\ a[m] = "active"
      BY <1>3, <2>1, Zenon DEF Row
    <2>3. x.superseded = 0
      BY <1>2, <1>4, Zenon DEF SameStep, InForce
    <2> HIDE DEF a, x, m
    <2> QED
      BY <1>3, <1>4, <2>2, <2>3, Zenon DEF Row
  <1>10. Coding(step[s]) => \A p \in StepId : Planning(step[p]) => step[p].status = "completed"
    BY <1>2 DEF Coding, Planning, Predecessors, SortIndex, InForce, Live
  <1> HIDE DEF x, a, m
  <1>11. step[s].status \in Open /\ step'[s].status = "running" /\ job.status \in Open
    BY <1>2, <1>4, <1>6, Zenon DEF Open
  <1> QED
    BY <1>1, <1>2, <1>4, <1>6, <1>7, <1>8, <1>9, <1>10, <1>11, MovesOn DEF Open

\* The attempt n of s ends with the given status, and s waits without worker.
LEMMA SuspendHolds ==
    ASSUME IInv, NEW s \in StepId, NEW n \in AttemptNo, NEW status \in {"waiting_input", "completed"},
           Executing(s, n), Suspend(s, n, status), status = "completed" => step[s].action = "v3_coding_plan",
           UNCHANGED <<ledgerVars, expired, input, paused, journal, pending>>,
           asking' \in SUBSET StepId
    PROVE  IInv'
  <1> DEFINE x == [step[s] EXCEPT !.status = "waiting_input", !.worker = FALSE]
             a == [attempt[s] EXCEPT ![n] = status]
  <1>1. /\ step' = [step EXCEPT ![s] = x] /\ attempt' = [attempt EXCEPT ![s] = a]
        /\ job' = [job EXCEPT !.status = "waiting_input"]
    BY Zenon DEF Suspend
  <1>2. /\ InForce(step[s]) /\ n = step[s].attempt /\ n > 0 /\ step[s].status = "running"
        /\ job.status = "running"
    BY ActiveFacts, Zenon DEF Executing
  <1>3. SameStep(step[s], x) /\ x.status = "waiting_input" /\ x.worker = FALSE /\ x.attempt = n
    <2>1. step[s] \in Step /\ "waiting_input" \in Open \cup Terminal /\ FALSE \in BOOLEAN
      BY RowFacts, Zenon DEF Open
    <2> QED
      BY <2>1, <1>2, SetWorker, Zenon
  <1>4. /\ a \in [AttemptNo -> AttemptStatus] /\ a[n] = status
        /\ \A i \in AttemptNo \ {n} : a[i] = attempt[s][i]
    BY RowFacts, Zenon DEF AttemptStatus
  <1>5. step'[s] = x /\ attempt'[s] = a /\ input'[s] = input[s] /\ Touches(s)
    BY <1>1 DEF IInv, TypeOK, Touches
  <1>6. job'.status = "waiting_input" /\ job'.generation = job.generation
    BY <1>1 DEF IInv, TypeOK
  <1>7. TypeOK'
    <2>1. step' \in [StepId -> Step] /\ attempt' \in [StepId -> [AttemptNo -> AttemptStatus]]
      BY <1>1, <1>3, <1>4, Zenon DEF IInv, TypeOK, SameStep
    <2>2. job' \in [status : Open \cup Terminal, generation : 1..MaxGeneration]
      BY <1>1, Zenon DEF IInv, TypeOK, Open
    <2> QED
      BY <2>1, <2>2, Zenon DEF IInv, TypeOK, ledgerVars, LedgerTypeOK
  <1> HIDE DEF x, a
  <1>8. Row(x, a, input[s])
    <2>1. Row(step[s], attempt[s], input[s]) /\ x.action = step[s].action /\ x.superseded = 0
      BY <1>2, <1>3, RowFacts, Zenon DEF SameStep, InForce
    <2>2. /\ \A i \in AttemptNo : i = 0 \/ i > n => a[i] = "none"
          /\ \A i \in AttemptNo : i < n => a[i] # "active"
      BY <1>2, <1>4, <2>1, Numbers, SMTT(30) DEF Row
    <2> QED
      BY <1>2, <1>3, <1>4, <2>1, <2>2, Zenon DEF Row
  <1>9. step[s].status \in Open /\ job.status \in Open /\ step'[s].status \in Open
    BY <1>2, <1>3, <1>5, Zenon DEF Open
  <1>10. Coding(step[s]) => \A p \in StepId : Planning(step[p]) => step[p].status = "completed"
    BY <1>2, OneAtWork, Zenon
  <1> QED
    BY <1>2, <1>3, <1>5, <1>6, <1>7, <1>8, <1>9, <1>10, MovesOn, Zenon

\* WaitForCodingExecutionInput and MarkCodingLedgerReviewReady.
LEMMA WaitHolds ==
    ASSUME IInv, NEW s \in StepId, NEW n \in AttemptNo,
           WaitForCodingExecutionInput(s, n) \/ MarkCodingLedgerReviewReady(s, n)
    PROVE  IInv'
  <1>1. CASE WaitForCodingExecutionInput(s, n)
    BY <1>1, SuspendHolds, Zenon DEF WaitForCodingExecutionInput, IInv, TypeOK
  <1>2. CASE MarkCodingLedgerReviewReady(s, n)
    BY <1>2, SuspendHolds, Zenon DEF MarkCodingLedgerReviewReady, IInv, TypeOK
  <1> QED
    BY <1>1, <1>2, Zenon

\* WaitForCodingNativeInput: the worker keeps its attempt.
LEMMA NativeHolds ==
    ASSUME IInv, NEW s \in StepId, NEW n \in AttemptNo, WaitForCodingNativeInput(s, n)
    PROVE  IInv'
  <1> DEFINE x == [step[s] EXCEPT !.status = "waiting_input"]
             i == [kind |-> "native", replied |-> FALSE]
  <1>1. /\ step' = [step EXCEPT ![s] = x] /\ input' = [input EXCEPT ![s] = i]
        /\ job' = [job EXCEPT !.status = "waiting_input"] /\ asking' = asking \cup {s}
        /\ UNCHANGED <<ledgerVars, attempt, expired, paused, journal, pending>>
    BY Zenon DEF WaitForCodingNativeInput
  <1>2. /\ InForce(step[s]) /\ n = step[s].attempt /\ n > 0 /\ step[s].status = "running"
        /\ job.status = "running" /\ attempt[s][n] = "active" /\ step[s].worker = TRUE
    BY ActiveFacts, Zenon DEF WaitForCodingNativeInput, Executing
  <1>3. SameStep(step[s], x) /\ x.status = "waiting_input" /\ x.worker = TRUE /\ x.attempt = n
    <2>1. step[s] \in Step /\ "waiting_input" \in Open \cup Terminal
      BY RowFacts, Zenon DEF Open
    <2> QED
      BY <1>2, <2>1, SetStatus, Zenon
  <1>4. i \in [kind : InputKind, replied : BOOLEAN] /\ i.kind = "native" /\ i.replied = FALSE
    BY Zenon DEF InputKind
  <1>5. step'[s] = x /\ attempt'[s] = attempt[s] /\ input'[s] = i /\ Touches(s)
    BY <1>1 DEF IInv, TypeOK, Touches
  <1>6. job'.status = "waiting_input" /\ job'.generation = job.generation
    BY <1>1, Zenon DEF IInv, TypeOK
  <1>7. TypeOK'
    <2>1. step' \in [StepId -> Step] /\ input' \in [StepId -> [kind : InputKind, replied : BOOLEAN]]
      BY <1>1, <1>3, <1>4, Zenon DEF IInv, TypeOK, SameStep
    <2>2. job' \in [status : Open \cup Terminal, generation : 1..MaxGeneration]
      BY <1>1, Zenon DEF IInv, TypeOK, Open
    <2> QED
      BY <1>1, <2>1, <2>2, Zenon DEF IInv, TypeOK, ledgerVars, LedgerTypeOK
  <1> HIDE DEF x, i
  <1>8. Row(x, attempt[s], i)
    <2>1. Row(step[s], attempt[s], input[s]) /\ x.action = step[s].action /\ x.superseded = 0
      BY <1>2, <1>3, RowFacts, Zenon DEF SameStep, InForce
    <2> QED
      BY <1>2, <1>3, <1>4, <2>1, ZenonT(30) DEF Row
  <1>9. step[s].status \in Open /\ job.status \in Open /\ step'[s].status \in Open
    BY <1>2, <1>3, <1>5, Zenon DEF Open
  <1>10. Coding(step[s]) => \A p \in StepId : Planning(step[p]) => step[p].status = "completed"
    BY <1>2, OneAtWork, Zenon
  <1> QED
    BY <1>1, <1>2, <1>3, <1>5, <1>6, <1>7, <1>8, <1>9, <1>10, MovesOn, ZenonT(30)

\* PauseJob: a step that runs, or was not claimed yet, is suspended.
LEMMA PauseHolds ==
    ASSUME IInv, NEW s \in StepId, PauseJob(s) PROVE IInv'
  <1> DEFINE x == [step[s] EXCEPT !.status = "waiting_input", !.worker = FALSE]
             a == [n \in AttemptNo |->
                      IF n = step[s].attempt /\ attempt[s][n] = "active" THEN "waiting_input"
                      ELSE attempt[s][n]]
  <1>1. /\ step' = [step EXCEPT ![s] = x] /\ attempt' = [attempt EXCEPT ![s] = a]
        /\ job' = [job EXCEPT !.status = "waiting_input"]
        /\ paused' = paused \cup {s} /\ expired' = expired \ {s}
        /\ UNCHANGED <<ledgerVars, input, asking, journal, pending>>
        /\ job.status \in {"pending", "running"} /\ Pausable(s)
    BY Zenon DEF PauseJob
  <1>2. /\ Coding(step[s]) /\ step[s].status \in {"pending", "running"} /\ ledger.state = "frozen"
    BY <1>1 DEF Pausable, Current, Live, InForce, Coding
  <1>3. SameStep(step[s], x) /\ x.status = "waiting_input" /\ x.worker = FALSE
        /\ x.attempt = step[s].attempt
    <2>1. step[s] \in Step /\ "waiting_input" \in Open \cup Terminal /\ FALSE \in BOOLEAN
      BY RowFacts, Zenon DEF Open
    <2> QED
      BY <2>1, SetWorker, Zenon
  <1>4. a \in [AttemptNo -> AttemptStatus]
    BY RowFacts, Zenon DEF AttemptStatus
  <1>5. step'[s] = x /\ attempt'[s] = a /\ input'[s] = input[s] /\ Touches(s)
    BY <1>1 DEF IInv, TypeOK, Touches
  <1>6. job'.status = "waiting_input" /\ job'.generation = job.generation
    BY <1>1 DEF IInv, TypeOK
  <1>7. TypeOK'
    <2>1. step' \in [StepId -> Step] /\ attempt' \in [StepId -> [AttemptNo -> AttemptStatus]]
      BY <1>1, <1>3, <1>4, Zenon DEF IInv, TypeOK, SameStep
    <2>2. job' \in [status : Open \cup Terminal, generation : 1..MaxGeneration]
      BY <1>1, Zenon DEF IInv, TypeOK, Open
    <2> QED
      BY <1>1, <2>1, <2>2, Zenon DEF IInv, TypeOK, ledgerVars, LedgerTypeOK
  <1>8. Row(x, a, input[s])
    <2>1. Row(step[s], attempt[s], input[s]) /\ step[s].attempt \in AttemptNo
          /\ x.action = step[s].action /\ x.superseded = 0
      BY <1>2, <1>3, RowFacts, Zenon DEF SameStep, InForce, Coding
    <2>2. /\ \A i \in AttemptNo : i = 0 \/ i > step[s].attempt => a[i] = "none"
          /\ \A i \in AttemptNo : i < step[s].attempt => a[i] # "active"
          /\ a[step[s].attempt] # "active"
          /\ step[s].attempt > 0 => a[step[s].attempt] \in {"active", "waiting_input"}
      BY <1>2, <2>1, Numbers DEF Row, Coding
    <2> HIDE DEF x, a
    <2> QED
      BY <1>3, <2>1, <2>2, RowFacts, Zenon DEF Row
  <1> HIDE DEF x, a
  <1>9. step[s].status \in Open /\ job.status \in Open /\ step'[s].status \in Open
        /\ InForce(step[s])
    BY <1>1, <1>2, <1>3, <1>5, Zenon DEF Open, Coding
  <1>10. \A p \in StepId : Planning(step[p]) => step[p].status = "completed"
    BY <1>2, Zenon DEF IInv, PlanFirst
  <1> QED
    BY <1>1, <1>3, <1>5, <1>6, <1>7, <1>8, <1>9, <1>10, MovesOn, Zenon

\* Steps taken up again by their owner: the attempt is left as it is.
LEMMA TakenUpHolds ==
    ASSUME IInv, NEW s \in StepId, InForce(step[s]), step[s].status = "waiting_input",
           job.status = "waiting_input",
           NEW v \in {"pending", "running"}, NEW b \in BOOLEAN,
           step' = [step EXCEPT ![s] = [step[s] EXCEPT !.status = v, !.worker = b]],
           job' = [job EXCEPT !.status = "running"],
           input' \in [StepId -> [kind : InputKind, replied : BOOLEAN]],
           \A r \in StepId \ {s} : input'[r] = input[r],
           input'[s].kind = input[s].kind,
           asking' \in SUBSET StepId,
           UNCHANGED <<ledgerVars, attempt, expired, paused, journal, pending>>,
           v = "pending" => step[s].attempt = 0,
           v = "running" => step[s].attempt > 0 /\ b = TRUE
    PROVE  IInv'
  <1> DEFINE x == [step[s] EXCEPT !.status = v, !.worker = b]
  <1>3. SameStep(step[s], x) /\ x.status = v /\ x.worker = b /\ x.attempt = step[s].attempt
    <2>1. step[s] \in Step /\ v \in Open \cup Terminal
      BY RowFacts, Zenon DEF Open
    <2> QED
      BY <2>1, Zenon DEF Step, SameStep
  <1>5. step'[s] = x /\ attempt'[s] = attempt[s] /\ Touches(s)
    BY DEF IInv, TypeOK, Touches
  <1>6. job'.status = "running" /\ job'.generation = job.generation
    BY DEF IInv, TypeOK
  <1>7. TypeOK'
    <2>1. step' \in [StepId -> Step]
      BY <1>3, Zenon DEF IInv, TypeOK, SameStep
    <2>2. job' \in [status : Open \cup Terminal, generation : 1..MaxGeneration]
      BY Zenon DEF IInv, TypeOK, Open
    <2> QED
      BY <2>1, <2>2 DEF IInv, TypeOK, ledgerVars, LedgerTypeOK
  <1> HIDE DEF x
  <1>8. Row(x, attempt[s], input'[s])
    <2>1. Row(step[s], attempt[s], input[s]) /\ step[s].attempt \in AttemptNo
          /\ x.action = step[s].action /\ x.superseded = 0
      BY <1>3, RowFacts, Zenon DEF SameStep, InForce
    <2>2. step[s].attempt = 0 => attempt[s][step[s].attempt] = "none"
      BY <2>1, Zenon DEF Row
    <2>3. CASE v = "running"
      BY <1>3, <2>1, <2>3, Zenon DEF Row
    <2>4. CASE v = "pending"
      BY <1>3, <2>1, <2>2, <2>4, Zenon DEF Row
    <2> QED
      BY <2>3, <2>4
  <1>9. step[s].status \in Open /\ job.status \in Open /\ step'[s].status \in Open
        /\ step'[s].status # "waiting_input"
    BY <1>3, <1>5, Zenon DEF Open
  <1>10. Coding(step[s]) => \A p \in StepId : Planning(step[p]) => step[p].status = "completed"
    BY OneAtWork, Zenon
  <1> QED
    BY <1>3, <1>5, <1>6, <1>7, <1>8, <1>9, <1>10, MovesOn, ZenonT(30)

\* ResumeJob after a pause.
LEMMA ResumePausedHolds ==
    ASSUME IInv, NEW s \in StepId, ResumePaused(s) PROVE IInv'
  <1> DEFINE v == IF step[s].attempt = 0 THEN "pending" ELSE "running"
             b == step[s].attempt > 0
  <1>1. /\ step' = [step EXCEPT ![s] = [step[s] EXCEPT !.status = v, !.worker = b]]
        /\ job' = [job EXCEPT !.status = "running"] /\ job.status = "waiting_input" /\ Recoverable(s)
        /\ UNCHANGED <<ledgerVars, attempt, expired, input, paused, asking, journal, pending>>
    BY Zenon DEF ResumePaused
  <1>2. InForce(step[s]) /\ step[s].status = "waiting_input"
    BY <1>1 DEF Recoverable, Current, Live, InForce
  <1>3. step[s].attempt \in Nat
    BY RowFacts, Numbers, Zenon
  <1>4. /\ v \in {"pending", "running"} /\ b \in BOOLEAN
        /\ v = "pending" => step[s].attempt = 0
        /\ v = "running" => step[s].attempt > 0 /\ b = TRUE
    BY <1>3
  <1>5. input' \in [StepId -> [kind : InputKind, replied : BOOLEAN]] /\ asking' \in SUBSET StepId
    BY <1>1 DEF IInv, TypeOK
  <1>6. input' = input
    BY <1>1
  <1> HIDE DEF v, b
  <1> QED
    BY <1>1, <1>2, <1>4, <1>5, <1>6, TakenUpHolds, Zenon

\* SubmitJobFeedback to a question or a native request.
LEMMA ReplyHolds ==
    ASSUME IInv, NEW s \in StepId, ReplyToInput(s) PROVE IInv'
  <1> DEFINE b == step[s].attempt > 0
  <1>1. /\ step' = [step EXCEPT ![s] = [step[s] EXCEPT !.status = "running", !.worker = b]]
        /\ job' = [job EXCEPT !.status = "running"] /\ Repliable(s)
        /\ input' = [input EXCEPT ![s] = [input[s] EXCEPT !.replied = TRUE]]
        /\ asking' = asking \ {s}
        /\ UNCHANGED <<ledgerVars, attempt, expired, paused, journal, pending>>
    BY Zenon DEF ReplyToInput
  <1>2. InForce(step[s]) /\ step[s].status = "waiting_input" /\ job.status = "waiting_input"
        /\ input[s].kind # "none"
    BY <1>1 DEF Repliable, Current, Live, InForce
  <1>3. b = TRUE
    BY <1>2, RowFacts, Zenon DEF Row
  <1>4. /\ input' \in [StepId -> [kind : InputKind, replied : BOOLEAN]]
        /\ \A r \in StepId \ {s} : input'[r] = input[r]
        /\ input'[s].kind = input[s].kind
    BY <1>1, Zenon DEF IInv, TypeOK
  <1>5. asking' \in SUBSET StepId
    BY <1>1, Zenon DEF IInv, TypeOK
  <1> QED
    BY <1>1, <1>2, <1>3, <1>4, <1>5, TakenUpHolds, Zenon

-----------------------------------------------------------------------------
(* Operations that end a step. *)

\* ForgetInputs, of any steps S.
LEMMA ForgetType ==
    ASSUME TypeOK, NEW S \in SUBSET StepId, ForgetInputs(S)
    PROVE  /\ input' \in [StepId -> [kind : InputKind, replied : BOOLEAN]]
           /\ \A r \in StepId : input'[r] = IF r \in S THEN NoInput ELSE input[r]
           /\ expired' \in SUBSET StepId /\ paused' \in SUBSET StepId /\ asking' \in SUBSET StepId
           /\ NoInput.kind = "none"
  BY Zenon DEF TypeOK, ForgetInputs, NoInput, InputKind

\* A step s is completed or fails, and its attempts become a.
Ends(s, v, a) ==
    /\ step' = [step EXCEPT ![s] = [step[s] EXCEPT !.status = v]]
    /\ attempt' = [attempt EXCEPT ![s] = a]
    /\ a \in [AttemptNo -> AttemptStatus]
    /\ a[0] = "none"
    /\ \A n \in AttemptNo : n # step[s].attempt => a[n] = attempt[s][n]
    /\ a[step[s].attempt] = "active" => v = "completed" /\ step[s].action = "v3_coding_plan"
    /\ ForgetInputs({s})

\* The rows after the end of a step: that of s has the status v.
Ended(s, v) ==
    /\ step' \in [StepId -> Step] /\ attempt' \in [StepId -> [AttemptNo -> AttemptStatus]]
    /\ input' \in [StepId -> [kind : InputKind, replied : BOOLEAN]]
    /\ expired' \in SUBSET StepId /\ paused' \in SUBSET StepId /\ asking' \in SUBSET StepId
    /\ step'[s].status = v /\ \A r \in StepId \ {s} : step'[r] = step[r]
    /\ \A r \in StepId : /\ InForce(step'[r]) <=> InForce(step[r])
                         /\ Planning(step'[r]) <=> Planning(step[r])
                         /\ Coding(step'[r]) <=> Coding(step[r])
    /\ Tail(step', job.generation)
    /\ Rows'

\* CompleteStep, FailStep and the approval leave every other row as it was.
LEMMA EndFacts ==
    ASSUME IInv, NEW s \in StepId, InForce(step[s]), step[s].status \in Open,
           NEW v \in {"completed", "failed"}, NEW a, Ends(s, v, a)
    PROVE  Ended(s, v)
  <1> DEFINE x == [step[s] EXCEPT !.status = v]
  <1>1. SameStep(step[s], x) /\ x.status = v /\ x.attempt = step[s].attempt
    <2>1. step[s] \in Step /\ v \in Open \cup Terminal
      BY RowFacts, Zenon DEF Terminal
    <2> QED
      BY <2>1, Zenon DEF Step, SameStep
  <1>2. /\ step' \in [StepId -> Step] /\ attempt' \in [StepId -> [AttemptNo -> AttemptStatus]]
        /\ step'[s] = x /\ attempt'[s] = a
        /\ \A r \in StepId \ {s} : step'[r] = step[r] /\ attempt'[r] = attempt[r]
    BY <1>1, Zenon DEF Ends, IInv, TypeOK, SameStep
  <1>3. /\ input' \in [StepId -> [kind : InputKind, replied : BOOLEAN]]
        /\ expired' \in SUBSET StepId /\ paused' \in SUBSET StepId /\ asking' \in SUBSET StepId
        /\ input'[s] = NoInput /\ NoInput.kind = "none"
        /\ \A r \in StepId \ {s} : input'[r] = input[r]
    <2>1. ForgetInputs({s}) /\ {s} \in SUBSET StepId /\ TypeOK
      BY Zenon DEF Ends, IInv
    <2> QED
      BY <2>1, ForgetType, Zenon
  <1> HIDE DEF x
  <1>4. Touches(s)
    BY <1>2, <1>3, Zenon DEF Touches
  <1>5. Row(x, a, NoInput)
    <2>1. Row(step[s], attempt[s], input[s]) /\ x.action = step[s].action /\ x.superseded = 0
          /\ step[s].attempt \in AttemptNo
      BY <1>1, RowFacts, Zenon DEF SameStep, InForce
    <2>2. \A n \in AttemptNo : n > step[s].attempt \/ n < step[s].attempt => n # step[s].attempt
      BY <2>1, Compare, Zenon
    <2>3. /\ \A n \in AttemptNo : n = 0 \/ n > step[s].attempt => a[n] = "none"
          /\ \A n \in AttemptNo : n < step[s].attempt => a[n] # "active"
      BY <2>1, <2>2, Zenon DEF Row, Ends
    <2>4. a[step[s].attempt] = "active" => v = "completed" /\ step[s].action = "v3_coding_plan"
      BY Zenon DEF Ends
    <2> QED
      BY <1>1, <1>3, <2>1, <2>3, <2>4, Zenon DEF Row
  <1>6. Rows'
    BY <1>2, <1>3, <1>4, <1>5, TouchRows, Zenon
  <1>7. step'[s].status # "absent" /\ SameStep(step[s], step'[s])
    BY <1>1, <1>2, Zenon
  <1> QED
    BY <1>1, <1>2, <1>3, <1>4, <1>6, <1>7, TouchFacts, Zenon DEF Ended

\* The attempt of an authority that is active may end with any outcome.
LEMMA AttemptEnds ==
    ASSUME IInv, NEW s \in StepId, NEW n \in AttemptNo, Active(s, n),
           NEW outcome \in {"completed", "failed"}, NEW v \in {"completed", "failed"},
           attempt' = [attempt EXCEPT ![s] = [attempt[s] EXCEPT ![n] = outcome]],
           step' = [step EXCEPT ![s] = [step[s] EXCEPT !.status = v]],
           ForgetInputs({s})
    PROVE  Ends(s, v, [attempt[s] EXCEPT ![n] = outcome])
  <1>1. n = step[s].attempt /\ n > 0 /\ attempt[s] \in [AttemptNo -> AttemptStatus]
        /\ Row(step[s], attempt[s], input[s])
    BY ActiveFacts, RowFacts, Zenon
  <1>2. attempt[s][0] = "none" /\ n # 0 /\ 0 \in AttemptNo
    BY <1>1, Numbers DEF Row
  <1> QED
    BY <1>1, <1>2, Zenon DEF Ends, AttemptStatus

\* CompleteStep: nothing else is open, so that the job is completed.
LEMMA CompleteHolds ==
    ASSUME IInv, NEW s \in StepId, NEW n \in AttemptNo, CompleteStep(s, n)
    PROVE  IInv' /\ job'.status = "completed"
  <1> DEFINE a == [attempt[s] EXCEPT ![n] = "completed"]
  <1>1. /\ Active(s, n) /\ step[s].action = "v3_coding" /\ step[s].status = "running"
        /\ NoPendingMessages /\ CompleteCodingLedger
        /\ attempt' = [attempt EXCEPT ![s] = a]
        /\ step' = [step EXCEPT ![s] = [step[s] EXCEPT !.status = "completed"]]
        /\ job' = IF \E r \in StepId \ {s} : Live(r) /\ step[r].status \in Open
                  THEN job ELSE [job EXCEPT !.status = "completed"]
        /\ ForgetInputs({s}) /\ UNCHANGED <<journal, pending>>
    BY Zenon DEF CompleteStep
  <1>2. Coding(step[s]) /\ InForce(step[s]) /\ step[s].status \in Open
    BY <1>1, ActiveFacts, Zenon DEF Coding, Open
  <1>3. Ends(s, "completed", a)
    BY <1>1, AttemptEnds, Zenon
  <1> HIDE DEF a
  <1>4. \A p \in StepId : Planning(step[p]) => step[p].status = "completed"
    BY <1>1, <1>2, OneAtWork, Zenon
  <1>5. \A r \in StepId \ {s} : InForce(step[r]) => step[r].status \in {"completed", "failed"}
    <2>1. \A r \in StepId : InForce(step[r]) => Planning(step[r]) \/ Coding(step[r])
      BY RowFacts, Zenon DEF Planning, Coding
    <2> QED
      BY <1>2, <1>4, <2>1, OpenIsLast, Zenon
  <1>6. job' = [job EXCEPT !.status = "completed"]
    BY <1>1, <1>5, Zenon DEF Live, InForce, Open
  <1>7. job'.status = "completed" /\ job'.generation = job.generation
        /\ job' \in [status : Open \cup Terminal, generation : 1..MaxGeneration]
    BY <1>6, Zenon DEF IInv, TypeOK, Terminal
  <1>8. LedgerTypeOK' /\ ledger'.state = "completed"
    <2>1. LedgerTypeOK' /\ ledger \in Ledger
      BY <1>1, TransitionType, Zenon DEF IInv, TypeOK, LedgerTypeOK
    <2> QED
      BY <1>1, <2>1, Zenon DEF CompleteCodingLedger, Ledger
  <1>9. Ended(s, "completed")
    BY <1>2, <1>3, EndFacts, Zenon
  <1>10. TypeOK'
    BY <1>1, <1>7, <1>8, <1>9, Zenon DEF TypeOK, IInv, Ended
  <1>11. PlanFirst(step', ledger'.state)
    <2>1. ~Planning(step[s])
      BY <1>2, Zenon DEF Planning, Coding
    <2> QED
      BY <1>4, <1>8, <1>9, <2>1, Zenon DEF PlanFirst, Ended
  <1>12. Agrees(step', job'.status, ledger'.state)
    BY <1>7, Zenon DEF Agrees, Open
  <1>13. CompletedJobIsDone'
    <2>1. \A r \in StepId : Live(r)' => step'[r].status \in {"completed", "failed"}
      BY <1>5, <1>9, Zenon DEF Live, InForce, Ended
    <2>2. ~pending'
      BY <1>1, Zenon DEF NoPendingMessages
    <2> QED
      BY <1>8, <2>1, <2>2, Zenon DEF CompletedJobIsDone
  <1>14. CanceledJobIsQuiet' /\ LedgerRests'
    BY <1>7, <1>8, Zenon DEF CanceledJobIsQuiet, LedgerRests
  <1> QED
    BY <1>7, <1>9, <1>10, <1>11, <1>12, <1>13, <1>14, Zenon DEF IInv, Ended

\* FailStep.
LEMMA FailHolds ==
    ASSUME IInv, NEW s \in StepId, NEW n \in AttemptNo, FailStep(s, n) PROVE IInv'
  <1> DEFINE a == [attempt[s] EXCEPT ![n] = "failed"]
  <1>1. /\ Active(s, n) /\ step[s].status \in {"running", "waiting_input"}
        /\ attempt' = [attempt EXCEPT ![s] = a]
        /\ step' = [step EXCEPT ![s] = [step[s] EXCEPT !.status = "failed"]]
        /\ job' = [job EXCEPT !.status = "failed"] /\ pending' = FALSE
        /\ ForgetInputs({s}) /\ UNCHANGED <<ledgerVars, journal>>
    BY Zenon DEF FailStep, NativeWaiting
  <1>2. InForce(step[s]) /\ step[s].status \in Open
    BY <1>1, ActiveFacts, Zenon DEF Open
  <1>3. Ends(s, "failed", a)
    BY <1>1, AttemptEnds, Zenon
  <1> HIDE DEF a
  <1>4. Ended(s, "failed")
    BY <1>2, <1>3, EndFacts, Zenon
  <1>5. job'.status = "failed" /\ job'.generation = job.generation
        /\ job' \in [status : Open \cup Terminal, generation : 1..MaxGeneration]
    BY <1>1, Zenon DEF IInv, TypeOK, Terminal
  <1>6. LedgerTypeOK' /\ LedgerRests' /\ ledger'.state = ledger.state
    BY <1>1, LedgerKept, Zenon
  <1>7. TypeOK'
    BY <1>1, <1>4, <1>5, <1>6, Zenon DEF TypeOK, IInv, Ended
  <1>8. PlanFirst(step', ledger'.state) /\ Agrees(step', job'.status, ledger'.state)
    <2>1. CASE Planning(step[s])
      <3>1. /\ ledger.state # "frozen" /\ ~Coding(step[s])
            /\ \A e \in StepId : Coding(step[e]) => step[e].status \notin {"running", "waiting_input"}
        BY <1>1, <2>1, Zenon DEF IInv, PlanFirst, Planning, Coding
      <3>2. PlanFirst(step', ledger'.state)
        BY <1>4, <1>6, <3>1, Zenon DEF PlanFirst, Ended
      <3> QED
        BY <1>5, <1>6, <3>1, <3>2, Zenon DEF Agrees, Open
    <2>2. CASE Coding(step[s])
      <3>1. ~Planning(step[s]) /\ \A p \in StepId : Planning(step[p]) => step[p].status = "completed"
        BY <1>1, <1>2, <2>2, OneAtWork, Zenon DEF Planning, Coding
      <3>2. \A r \in StepId \ {s} : Coding(step[r]) => step[r].status = "failed"
        BY <1>2, <2>2, OpenIsLast, Zenon
      <3>3. PlanFirst(step', ledger'.state)
        BY <1>4, <3>1, Zenon DEF PlanFirst, Ended
      <3> QED
        BY <1>4, <1>5, <3>2, <3>3, Zenon DEF Agrees, Open, Ended
    <2> QED
      BY <1>2, <2>1, <2>2, OpenIsLast, Zenon
  <1> QED
    BY <1>4, <1>5, <1>6, <1>7, <1>8, Unfinished, Zenon DEF IInv, Ended

\* FreezeAndStartCodingLedger: planning is completed, execution may start.
LEMMA FreezeHolds ==
    ASSUME IInv, NEW s \in StepId, FreezeAndStart(s) PROVE IInv'
  <1>1. /\ Current(s) /\ step[s].action = "v3_coding_plan" /\ step[s].status = "waiting_input"
        /\ job.status = "waiting_input" /\ FreezeCodingLedger(ledger.revision)
        /\ step' = [step EXCEPT ![s] = [step[s] EXCEPT !.status = "completed"]]
        /\ job' = [job EXCEPT !.status = "running"]
        /\ ForgetInputs({s}) /\ UNCHANGED <<attempt, journal, pending>>
    BY Zenon DEF FreezeAndStart
  <1>2. Planning(step[s]) /\ InForce(step[s]) /\ step[s].status \in Open /\ ~Coding(step[s])
    BY <1>1 DEF Current, Live, Planning, InForce, Open, Coding
  <1>3. Ends(s, "completed", attempt[s])
    <2>1. attempt' = [attempt EXCEPT ![s] = attempt[s]]
      BY <1>1, Zenon DEF IInv, TypeOK
    <2>2. attempt[s] \in [AttemptNo -> AttemptStatus] /\ attempt[s][0] = "none"
      BY RowFacts, Numbers, Zenon DEF Row
    <2> QED
      BY <1>1, <2>1, <2>2, Zenon DEF Ends
  <1>4. Ended(s, "completed")
    BY <1>2, <1>3, EndFacts, Zenon
  <1>5. job'.status = "running" /\ job'.generation = job.generation
        /\ job' \in [status : Open \cup Terminal, generation : 1..MaxGeneration]
    BY <1>1, Zenon DEF IInv, TypeOK, Open
  <1>6. LedgerTypeOK' /\ ledger'.state = "frozen"
    <2>1. LedgerTypeOK'
      BY <1>1, TransitionType, Zenon DEF IInv, TypeOK
    <2> QED
      BY <1>1, <2>1, Zenon DEF FreezeCodingLedger
  <1>7. TypeOK'
    BY <1>1, <1>4, <1>5, <1>6, Zenon DEF TypeOK, IInv, Ended
  <1>8. PlanFirst(step', ledger'.state)
    BY <1>2, <1>4, OpenIsLast, Zenon DEF PlanFirst, Ended
  <1>9. Agrees(step', job'.status, ledger'.state)
    <2>1. \E e \in StepId : Coding(step'[e]) /\ step'[e].status \in Open
      BY <1>1, <1>2, <1>4, Zenon DEF IInv, Agrees, Open, Ended
    <2>2. ASSUME NEW r \in StepId, InForce(step'[r]) PROVE step'[r].status # "waiting_input"
      <3>1. CASE r = s
        <4>1. step'[r].status = "completed"
          BY <1>4, <3>1, Zenon DEF Ended
        <4> QED
          BY <4>1
      <3>2. CASE r # s
        <4>1. r \in StepId \ {s} /\ step'[r] = step[r] /\ InForce(step[r])
          BY <1>4, <2>2, <3>2, Zenon DEF Ended
        <4> QED
          BY <1>1, <1>2, <4>1, OneAtWork, Zenon
      <3> QED
        BY <3>1, <3>2
    <2> QED
      BY <1>5, <2>1, <2>2, Zenon DEF Agrees
  <1> QED
    BY <1>4, <1>5, <1>6, <1>7, <1>8, <1>9, Unfinished, Zenon DEF IInv, LedgerRests, Ended

-----------------------------------------------------------------------------
(* Operations that end all steps, and those that add steps. *)

\* Whoever has an active attempt holds authority, the provider of an approved
\* plan apart.
LEMMA ActiveHolds ==
    ASSUME IInv, NEW s \in StepId, attempt[s][step[s].attempt] = "active"
    PROVE  \/ Holding(s)
           \/ step[s].status = "completed" /\ step[s].action = "v3_coding_plan"
  <1>1. Row(step[s], attempt[s], input[s]) /\ step[s].attempt \in AttemptNo
    BY RowFacts, Zenon
  <1>2. CASE step[s].status \in {"running", "waiting_input"} /\ step[s].worker = TRUE
    <2>1. InForce(step[s])
      BY <1>1, <1>2, Zenon DEF Row, InForce, Terminal
    <2>2. step[s].generation = job.generation
      BY <2>1, Zenon DEF IInv, Tail
    <2> QED
      BY <1>2, <2>1, <2>2, Zenon DEF Holding, Current, Live, InForce
  <1> QED
    BY <1>1, <1>2, Zenon DEF Row

\* terminalizeStepAttemptsForAuthorityChangeTx: no attempt of an open step stays
\* active, and no other is touched.
LEMMA RevokedFacts ==
    ASSUME IInv, NEW status \in {"canceled", "superseded"}, attempt' = Revoked(status)
    PROVE  /\ attempt' \in [StepId -> [AttemptNo -> AttemptStatus]]
           /\ \A s \in StepId : \A n \in AttemptNo :
                 /\ attempt[s][n] # "active" => attempt'[s][n] = attempt[s][n]
                 /\ attempt[s][n] = "active" => attempt'[s][n] # "none"
                 /\ attempt'[s][n] = "active" =>
                       /\ attempt[s][n] = "active" /\ n = step[s].attempt
                       /\ step[s].status = "completed" /\ step[s].action = "v3_coding_plan"
  <1>1. /\ \A s \in StepId : \A n \in AttemptNo :
              attempt'[s][n] = IF Holding(s) /\ n = step[s].attempt /\ attempt[s][n] = "active"
                               THEN status ELSE attempt[s][n]
        /\ attempt' = [s \in StepId |-> [n \in AttemptNo |-> attempt'[s][n]]]
    BY Zenon DEF Revoked
  <1>2. attempt' \in [StepId -> [AttemptNo -> AttemptStatus]]
    <2>1. \A s \in StepId : \A n \in AttemptNo : attempt'[s][n] \in AttemptStatus
      BY <1>1 DEF IInv, TypeOK, AttemptStatus
    <2> QED
      BY <1>1, <2>1
  <1>3. ASSUME NEW s \in StepId, NEW n \in AttemptNo, attempt[s][n] = "active" PROVE n = step[s].attempt
    <2>1. Row(step[s], attempt[s], input[s]) /\ step[s].attempt \in AttemptNo
      BY RowFacts, Zenon
    <2>2. n < step[s].attempt \/ n > step[s].attempt \/ n = step[s].attempt
      BY <2>1, Compare, Zenon
    <2> QED
      BY <1>3, <2>1, <2>2, Zenon DEF Row
  <1> QED
    BY <1>1, <1>2, <1>3, ActiveHolds

\* A row that is not waiting any more, with its attempts revoked.
LEMMA RevokedRow ==
    ASSUME IInv, NEW status \in {"canceled", "superseded"}, attempt' = Revoked(status),
           NEW s \in StepId, NEW x, x.attempt = step[s].attempt, x.action = step[s].action,
           step[s].status \notin Open => x.status = step[s].status,
           step[s].status \in Open => x.status = "canceled",
           x.superseded # 0 => x.status \in Terminal,
           x.status = "absent" => x.superseded = 0
    PROVE  Row(x, attempt'[s], NoInput)
  <1>1. Row(step[s], attempt[s], input[s]) /\ step[s].attempt \in AttemptNo
        /\ step[s].status \in Open \cup Terminal \cup {"absent"}
    BY RowFacts, Zenon
  <1>2. x.status \notin Open
    BY Zenon DEF Open
  <1>3. /\ \A n \in AttemptNo : n = 0 \/ n > x.attempt => attempt'[s][n] = "none"
        /\ \A n \in AttemptNo : n < x.attempt => attempt'[s][n] # "active"
        /\ attempt'[s][x.attempt] = "active" =>
              x.status = "completed" /\ x.action = "v3_coding_plan"
    <2>1. /\ \A n \in AttemptNo : n = 0 \/ n > x.attempt => attempt[s][n] = "none"
          /\ \A n \in AttemptNo : n < x.attempt => attempt[s][n] # "active"
      BY <1>1, Zenon DEF Row
    <2>2. \A n \in AttemptNo :
              /\ attempt[s][n] # "active" => attempt'[s][n] = attempt[s][n]
              /\ attempt'[s][n] = "active" =>
                    /\ attempt[s][n] = "active"
                    /\ step[s].status = "completed" /\ step[s].action = "v3_coding_plan"
      BY RevokedFacts, Zenon
    <2>3. "completed" \notin Open
      BY DEF Open
    <2> QED
      BY <1>1, <2>1, <2>2, <2>3, Zenon
  <1>4. NoInput.kind = "none"
    BY Zenon DEF NoInput
  <1>5. x.status = "absent" => x.attempt = 0
    BY <1>1, <1>2, Zenon DEF Row, Open
  <1> QED
    BY <1>2, <1>3, <1>4, <1>5, Zenon DEF Row, Open

\* applyJobCancellationTx.
LEMMA CancelHolds ==
    ASSUME IInv, CancelJob PROVE IInv'
  <1>1. /\ CancelCodingAuthority /\ attempt' = Revoked("canceled")
        /\ step' = [s \in StepId |-> IF Live(s) /\ step[s].status \in Open
                                     THEN [step[s] EXCEPT !.status = "canceled"] ELSE step[s]]
        /\ job' = [job EXCEPT !.status = "canceled"] /\ pending' = FALSE
        /\ ForgetInputs(StepId) /\ UNCHANGED journal
    BY Zenon DEF CancelJob
  <1>2. \A s \in StepId :
            /\ SameStep(step[s], step'[s]) /\ step'[s].attempt = step[s].attempt
            /\ step[s].status \in Open => step'[s].status = "canceled"
            /\ step[s].status \notin Open => step'[s].status = step[s].status
    <2> TAKE s \in StepId
    <2>1. step[s] \in Step /\ "canceled" \in Open \cup Terminal
          /\ Row(step[s], attempt[s], input[s])
      BY RowFacts, Zenon DEF Terminal
    <2>2. step[s].status \in Open => Live(s)
      BY <2>1, Zenon DEF Row, Live, Open, Terminal
    <2>3. CASE step[s].status \in Open
      <3>1. step'[s] = [step[s] EXCEPT !.status = "canceled"]
        BY <1>1, <2>2, <2>3, Zenon
      <3> QED
        BY <2>1, <2>3, <3>1, Zenon DEF Step, SameStep
    <2>4. CASE step[s].status \notin Open
      <3>1. step'[s] = step[s]
        BY <1>1, <2>4, Zenon
      <3> QED
        BY <2>1, <2>4, <3>1, Zenon DEF SameStep
    <2> QED
      BY <2>3, <2>4, Zenon
  <1>3. step' \in [StepId -> Step] /\ \A s \in StepId : step'[s].status \notin Open
    <2>1. \A s \in StepId : step'[s] \in Step
      BY <1>2, Zenon DEF SameStep
    <2>2. step' = [s \in StepId |-> step'[s]]
      BY <1>1
    <2> QED
      BY <1>2, <2>1, <2>2, Zenon DEF Open
  <1>4. /\ input' \in [StepId -> [kind : InputKind, replied : BOOLEAN]]
        /\ \A s \in StepId : input'[s] = NoInput
        /\ expired' \in SUBSET StepId /\ paused' \in SUBSET StepId /\ asking' \in SUBSET StepId
    BY <1>1, ForgetType, Zenon DEF IInv
  <1>5. attempt' \in [StepId -> [AttemptNo -> AttemptStatus]]
    BY <1>1, RevokedFacts, Zenon
  <1>6. Rows'
    <2> SUFFICES ASSUME NEW s \in StepId PROVE Row(step'[s], attempt'[s], NoInput)
      BY <1>4, Zenon DEF Rows
    <2>1. Row(step[s], attempt[s], input[s])
      BY RowFacts, Zenon
    <2>2. /\ step'[s].superseded = step[s].superseded /\ step'[s].action = step[s].action
          /\ step[s].superseded # 0 => step[s].status \in Terminal
          /\ step[s].status = "absent" => step[s].superseded = 0
      BY <1>2, <2>1, Zenon DEF SameStep, Row
    <2> QED
      BY <1>1, <1>2, <2>2, RevokedRow, Zenon DEF Open, Terminal
  <1>7. \A s \in StepId : /\ InForce(step'[s]) <=> InForce(step[s])
                          /\ Planning(step'[s]) <=> Planning(step[s])
                          /\ Coding(step'[s]) <=> Coding(step[s])
    BY <1>2, Zenon DEF SameStep, InForce, Planning, Coding, Open
  <1>8. job'.status = "canceled" /\ job'.generation = job.generation
        /\ job' \in [status : Open \cup Terminal, generation : 1..MaxGeneration]
    BY <1>1, Zenon DEF IInv, TypeOK, Terminal
  <1>9. Tail(step', job'.generation)
    <2>1. \A s \in StepId : step[s].status = "failed" => step'[s].status = "failed"
      BY <1>2, Zenon DEF Open
    <2>2. \A s \in StepId : step'[s].generation = step[s].generation
      BY <1>2, Zenon DEF SameStep
    <2> QED
      BY <1>7, <1>8, <2>1, <2>2, Zenon DEF IInv, Tail
  <1>10. /\ LedgerTypeOK' /\ ledger'.state \in {"absent", "cancelled"}
         /\ \A t \in Task : tasks'[t] # "ready"
         /\ LedgerRests'
    <2>1. LedgerTypeOK' /\ ledger \in Ledger
      BY <1>1, TransitionType, Zenon DEF IInv, TypeOK, LedgerTypeOK
    <2>2. CASE ledger.state = "absent"
      BY <1>1, <2>1, <2>2, Zenon DEF CancelCodingAuthority, IInv, LedgerRests
    <2>3. CASE ledger.state # "absent"
      <3>1. /\ ledger' = [ledger EXCEPT !.state = "cancelled", !.frozen = ledger.lastFrozen]
            /\ tasks' = [t \in Task |-> CancelledRow(t)]
        BY <1>1, <2>3, Zenon DEF CancelCodingAuthority
      <3>2. ledger'.state = "cancelled"
        BY <2>1, <3>1, Zenon DEF Ledger
      <3> QED
        BY <2>1, <3>1, <3>2, Zenon DEF CancelledRow, LedgerRests
    <2> QED
      BY <2>2, <2>3, Zenon
  <1>11. TypeOK'
    BY <1>1, <1>3, <1>4, <1>5, <1>8, <1>10, Zenon DEF TypeOK, IInv
  <1>12. PlanFirst(step', ledger'.state) /\ Agrees(step', job'.status, ledger'.state)
    BY <1>3, <1>8, <1>10, Zenon DEF PlanFirst, Agrees, Open
  <1>13. CompletedJobIsDone' /\ CanceledJobIsQuiet'
    BY <1>3, <1>8, <1>10, Zenon DEF CompletedJobIsDone, CanceledJobIsQuiet
  <1> QED
    BY <1>6, <1>8, <1>9, <1>10, <1>11, <1>12, <1>13, Zenon DEF IInv

\* The part interruption and replan share: the steps of the old generation are
\* retired and two fresh ones are in force.
LEMMA GenerationHolds ==
    ASSUME IInv, NEW v \in {"pending", "waiting_input"}, NEW j \in {"running", "waiting_input"},
           j = "waiting_input" <=> v = "waiting_input", StartGeneration(v, j)
    PROVE  IInv'
  <1> DEFINE g == job.generation + 1
  <1>1. PICK p \in StepId :
            /\ NextId(p) /\ p + 1 \in StepId
            /\ step' = [s \in StepId |->
                  IF s = p THEN NewStep("v3_coding_plan", g, v)
                  ELSE IF s = p + 1 THEN NewStep("v3_coding", g, "pending")
                  ELSE IF Live(s) THEN RetiredStep(s) ELSE step[s]]
    BY Zenon DEF StartGeneration
  <1>2. /\ job.generation < MaxGeneration /\ attempt' = Revoked("superseded")
        /\ SupersedeCodingAuthority /\ job' = [status |-> j, generation |-> g]
        /\ ForgetInputs(StepId) /\ journal' = {} /\ pending' = FALSE
    BY Zenon DEF StartGeneration
  <1>3. g \in Generation /\ g \in 1..MaxGeneration /\ g # 0
    BY <1>2, LifecycleBoundsAssumption DEF IInv, TypeOK, Generation
  <1> HIDE DEF g
  <1>4. p # p + 1 /\ step[p].status = "absent" /\ step[p + 1].status = "absent"
    BY <1>1, Numbers DEF NextId
  <1>5. /\ IsNew(step'[p], "v3_coding_plan", g, v)
        /\ IsNew(step'[p + 1], "v3_coding", g, "pending")
    BY <1>1, <1>3, <1>4, NewRow, Zenon DEF Open
  <1>6. \A s \in StepId \ {p, p + 1} :
            /\ step'[s] \in Step /\ ~InForce(step'[s])
            /\ step'[s].attempt = step[s].attempt /\ step'[s].action = step[s].action
            /\ step[s].status \notin Open => step'[s].status = step[s].status
            /\ step[s].status \in Open => step'[s].status = "canceled"
            /\ step'[s].superseded # 0 => step'[s].status \in Terminal
            /\ step'[s].status = "absent" => step'[s].superseded = 0
    <2> SUFFICES ASSUME NEW s \in StepId \ {p, p + 1}
                 PROVE  /\ step'[s] \in Step /\ ~InForce(step'[s])
                        /\ step'[s].attempt = step[s].attempt /\ step'[s].action = step[s].action
                        /\ step[s].status \notin Open => step'[s].status = step[s].status
                        /\ step[s].status \in Open => step'[s].status = "canceled"
                        /\ step'[s].superseded # 0 => step'[s].status \in Terminal
                        /\ step'[s].status = "absent" => step'[s].superseded = 0
      BY Zenon
    <2>1. step[s] \in Step /\ "canceled" \in Open \cup Terminal
          /\ step[s].status \in Open \cup Terminal \cup {"absent"}
          /\ Row(step[s], attempt[s], input[s])
      BY RowFacts, Zenon DEF Terminal
    <2>2. step'[s] = IF Live(s) THEN RetiredStep(s) ELSE step[s]
      BY <1>1, Zenon
    <2>3. CASE ~Live(s)
      BY <2>1, <2>2, <2>3, Zenon DEF Live, InForce, Row, Open, Terminal
    <2>4. CASE Live(s) /\ step[s].status \in Open
      <3>1. step'[s] = [step[s] EXCEPT !.status = "canceled", !.worker = FALSE, !.superseded = g]
        BY <2>2, <2>4, Zenon DEF RetiredStep, g
      <3>2. /\ step'[s] \in Step /\ step'[s].status = "canceled" /\ step'[s].superseded = g
            /\ step'[s].attempt = step[s].attempt /\ step'[s].action = step[s].action
        BY <1>3, <2>1, <3>1, Zenon DEF Step
      <3> QED
        BY <1>3, <2>4, <3>2, Zenon DEF InForce, Terminal
    <2>5. CASE Live(s) /\ step[s].status \notin Open
      <3>1. step'[s] = [step[s] EXCEPT !.superseded = g]
        BY <2>2, <2>5, Zenon DEF RetiredStep, g
      <3>2. /\ step'[s] \in Step /\ step'[s].status = step[s].status /\ step'[s].superseded = g
            /\ step'[s].attempt = step[s].attempt /\ step'[s].action = step[s].action
        BY <1>3, <2>1, <3>1, Zenon DEF Step
      <3>3. step[s].status \in Terminal
        BY <2>1, <2>5, Zenon DEF Live
      <3> QED
        BY <1>3, <2>5, <3>2, <3>3, Zenon DEF InForce, Terminal
    <2> QED
      BY <2>3, <2>4, <2>5, Zenon
  <1>7. step' \in [StepId -> Step]
    <2>1. \A s \in StepId : step'[s] \in Step
      BY <1>5, <1>6, Zenon DEF IsNew
    <2>2. step' = [s \in StepId |-> step'[s]]
      BY <1>1, Zenon
    <2> QED
      BY <2>1, <2>2, Zenon
  <1>8. /\ input' \in [StepId -> [kind : InputKind, replied : BOOLEAN]]
        /\ \A s \in StepId : input'[s] = NoInput
        /\ expired' \in SUBSET StepId /\ paused' \in SUBSET StepId /\ asking' \in SUBSET StepId
    BY <1>2, ForgetType, Zenon DEF IInv
  <1>9. attempt' \in [StepId -> [AttemptNo -> AttemptStatus]]
    BY <1>2, RevokedFacts, Zenon
  <1>10. Rows'
    <2> SUFFICES ASSUME NEW s \in StepId PROVE Row(step'[s], attempt'[s], NoInput)
      BY <1>8, Zenon DEF Rows
    <2>1. CASE s \in {p, p + 1}
      <3>1. /\ step'[s].attempt = 0 /\ step'[s].superseded = 0 /\ step'[s].worker = FALSE
            /\ step'[s].status \in {"pending", "waiting_input"}
        BY <1>5, <2>1, Zenon DEF IsNew
      <3>2. Row(step[s], attempt[s], input[s]) /\ step[s].status = "absent"
            /\ step[s].attempt \in AttemptNo
        BY <1>4, <2>1, RowFacts, Zenon
      <3>3. \A n \in AttemptNo : attempt[s][n] = "none"
        <4>1. \A n \in AttemptNo : n = 0 \/ n > step[s].attempt
          BY <3>2, Numbers DEF Row
        <4> QED
          BY <3>2, <4>1, Zenon DEF Row
      <3>4. \A n \in AttemptNo : attempt'[s][n] = "none"
        BY <1>2, <3>3, RevokedFacts
      <3>5. NoInput.kind = "none" /\ 0 \in AttemptNo
        BY Numbers, Zenon DEF NoInput
      <3> QED
        BY <3>1, <3>4, <3>5, Numbers DEF Row
    <2>2. CASE s \notin {p, p + 1}
      BY <1>2, <1>6, <2>2, RevokedRow, Zenon
    <2> QED
      BY <2>1, <2>2, Zenon
  <1>11. \A s \in StepId : /\ InForce(step'[s]) <=> s \in {p, p + 1}
                           /\ Planning(step'[s]) <=> s = p
                           /\ Coding(step'[s]) <=> s = p + 1
                           /\ InForce(step'[s]) => step'[s].generation = g
    BY <1>4, <1>5, <1>6, Zenon DEF IsNew, InForce, Planning, Coding, Open
  <1>12. step'[p].status = v /\ step'[p + 1].status = "pending"
    BY <1>5, Zenon DEF IsNew
  <1>13. job'.status = j /\ job'.generation = g
         /\ job' \in [status : Open \cup Terminal, generation : 1..MaxGeneration]
    BY <1>2, <1>3, Zenon DEF Open
  <1>14. /\ LedgerTypeOK' /\ ledger'.state # "frozen" /\ LedgerRests'
    <2>1. LedgerTypeOK' /\ ledger \in Ledger
      BY <1>2, TransitionType, Zenon DEF IInv, TypeOK, LedgerTypeOK
    <2>2. CASE ledger.state = "frozen"
      BY <1>2, <2>1, <2>2, Zenon DEF SupersedeCodingAuthority, Ledger, LedgerRests
    <2>3. CASE ledger.state # "frozen"
      BY <1>2, <2>1, <2>3, Zenon DEF SupersedeCodingAuthority, IInv, LedgerRests
    <2> QED
      BY <2>2, <2>3, Zenon
  <1>15. TypeOK'
    BY <1>2, <1>7, <1>8, <1>9, <1>13, <1>14, Zenon DEF TypeOK
  <1>16. Tail(step', job'.generation)
    BY <1>1, <1>11, <1>13, Numbers, SMTT(30) DEF Tail
  <1>17. PlanFirst(step', ledger'.state)
    BY <1>11, <1>12, <1>14, Zenon DEF PlanFirst
  <1>18. Agrees(step', job'.status, ledger'.state)
    BY <1>1, <1>4, <1>11, <1>12, <1>13, Zenon DEF Agrees, Open
  <1>19. CompletedJobIsDone' /\ CanceledJobIsQuiet'
    BY <1>13, Unfinished, Zenon
  <1> QED
    BY <1>10, <1>14, <1>15, <1>16, <1>17, <1>18, <1>19, Zenon DEF IInv

\* ResumeJob after a failure: a fresh execution step, the last of all.
LEMMA ResumeFailedHolds ==
    ASSUME IInv, NEW s \in StepId, ResumeFailed(s) PROVE IInv'
  <1>1. PICK p \in StepId :
            NextId(p) /\ step' = [step EXCEPT ![p] = NewStep("v3_coding", job.generation, "pending")]
    BY Zenon DEF ResumeFailed
  <1>2. /\ Recoverable(s) /\ job.status = "failed" /\ job' = [job EXCEPT !.status = "running"]
        /\ UNCHANGED <<ledgerVars, attempt, expired, input, paused, asking, journal, pending>>
    BY DEF ResumeFailed
  <1>3. /\ ledger.state = "frozen"
        /\ \A e \in StepId : Coding(step[e]) => step[e].status = "failed"
        /\ \A q \in StepId : Planning(step[q]) => step[q].status = "completed"
    BY <1>2, Zenon DEF Recoverable, IInv, Agrees, PlanFirst
  <1>4. job.generation \in Generation
    BY LifecycleBoundsAssumption DEF IInv, TypeOK, Generation
  <1>5. /\ IsNew(step'[p], "v3_coding", job.generation, "pending")
        /\ \A r \in StepId \ {p} : step'[r] = step[r]
        /\ step' \in [StepId -> Step]
    <2>1. IsNew(NewStep("v3_coding", job.generation, "pending"), "v3_coding", job.generation, "pending")
      BY <1>4, NewRow, Zenon DEF Open
    <2> QED
      BY <1>1, <2>1, Zenon DEF IInv, TypeOK, IsNew
  <1>6. step[p].status = "absent" /\ \A r \in StepId : InForce(step[r]) => r < p
    BY <1>1, Numbers DEF NextId, InForce
  <1>7. job'.status = "running" /\ job'.generation = job.generation
        /\ job' \in [status : Open \cup Terminal, generation : 1..MaxGeneration]
    BY <1>2, Zenon DEF IInv, TypeOK, Open
  <1>8. LedgerTypeOK' /\ LedgerRests' /\ ledger'.state = ledger.state
    BY <1>2, LedgerKept, Zenon
  <1>9. TypeOK'
    BY <1>2, <1>5, <1>7, <1>8, Zenon DEF TypeOK, IInv
  <1>10. Rows'
    <2>1. Row(step[p], attempt[p], input[p]) /\ step[p].attempt = 0
      BY <1>6, RowFacts, Zenon DEF Row
    <2>2. /\ \A n \in AttemptNo : attempt[p][n] = "none"
          /\ input[p].kind = "none" /\ 0 \in AttemptNo
      <3>1. \A n \in AttemptNo : n = 0 \/ n > 0
        BY Numbers
      <3>2. ~(step[p].attempt > 0) /\ 0 \in AttemptNo
        BY <2>1, Numbers
      <3> QED
        BY <2>1, <3>1, <3>2, Zenon DEF Row
    <2>3. Row(step'[p], attempt[p], input[p])
      BY <1>5, <2>2, Numbers, Zenon DEF IsNew, Row
    <2> QED
      BY <1>2, <1>5, <2>3, Zenon DEF IInv, Rows
  <1>11. \A r \in StepId : /\ InForce(step'[r]) <=> InForce(step[r]) \/ r = p
                           /\ Planning(step'[r]) <=> Planning(step[r])
                           /\ Coding(step'[r]) <=> Coding(step[r]) \/ r = p
    BY <1>5, <1>6, Zenon DEF IsNew, InForce, Planning, Coding
  <1>12. ~InForce(step[p]) /\ ~Coding(step[p]) /\ ~Planning(step[p])
    BY <1>6, Zenon DEF InForce, Coding, Planning
  <1>13. Tail(step', job'.generation)
    <2>1. \A r \in StepId : InForce(step'[r]) => step'[r].generation = job.generation
      <3>1. step'[p].generation = job.generation
        BY <1>5, Zenon DEF IsNew
      <3>2. \A r \in StepId : InForce(step[r]) => step[r].generation = job.generation
        BY Zenon DEF IInv, Tail
      <3> QED
        BY <1>5, <1>11, <3>1, <3>2, Zenon
    <2>2. \A r, t \in StepId : Coding(step'[r]) /\ Coding(step'[t]) /\ r < t => step'[r].status = "failed"
      <3> SUFFICES ASSUME NEW r \in StepId, NEW t \in StepId, Coding(step'[r]), Coding(step'[t]), r < t
                   PROVE  step'[r].status = "failed"
        BY Zenon
      <3>1. r # p
        <4> SUFFICES ASSUME r = p PROVE FALSE
          BY Zenon
        <4>1. t # p /\ ~(t < p)
          BY Numbers
        <4> QED
          BY <1>6, <1>11, <4>1, Zenon DEF Coding
      <3> QED
        BY <1>3, <1>5, <1>11, <3>1, Zenon
    <2> QED
      BY <1>7, <1>11, <2>1, <2>2, Zenon DEF IInv, Tail
  <1>14. PlanFirst(step', ledger'.state)
    BY <1>3, <1>5, <1>11, <1>12, ZenonT(30) DEF PlanFirst
  <1>15. Agrees(step', job'.status, ledger'.state)
    <2>1. step'[p].status = "pending" /\ Coding(step'[p]) /\ step'[p].status \in Open
      BY <1>5, <1>11, Zenon DEF IsNew, Open
    <2>2. \A r \in StepId : InForce(step'[r]) => step'[r].status # "waiting_input"
      <3>1. \A r \in StepId : InForce(step[r]) => Planning(step[r]) \/ Coding(step[r])
        BY RowFacts, Zenon DEF Planning, Coding
      <3> QED
        BY <1>3, <1>5, <1>11, <2>1, <3>1, Zenon
    <2> QED
      BY <1>7, <2>1, <2>2, Zenon DEF Agrees
  <1> QED
    BY <1>7, <1>8, <1>9, <1>10, <1>13, <1>14, <1>15, Unfinished, Zenon DEF IInv

-----------------------------------------------------------------------------
(* Every operation. *)

\* The invariant is inductive.
LEMMA NextHolds == IInv /\ [Next]_vars => IInv'
  <1> SUFFICES ASSUME IInv, [Next]_vars PROVE IInv'
    BY Zenon
  <1>1. CASE \E s \in StepId : ClaimNextStep(s) \/ LeaseExpires(s)
    BY <1>1, ClaimHolds, LeaseExpiresHolds, Zenon
  <1>2. CASE WorkerStep
    <2>1. PICK s \in StepId, n \in AttemptNo :
              \/ \E kind \in {"none", "question", "incomplete"} : Respond(s, n, kind)
              \/ \E t \in Task, accepted \in BOOLEAN : Review(s, n, t, accepted)
              \/ \E t \in Task : AcceptCodingLedgerTask(s, n, t)
              \/ WaitForCodingExecutionInput(s, n) \/ MarkCodingLedgerReviewReady(s, n)
              \/ WaitForCodingNativeInput(s, n)
              \/ CompleteStep(s, n)
              \/ FailStep(s, n)
              \/ ResolveMessage(s, n)
      BY <1>2, ZenonT(30) DEF WorkerStep
    <2> QED
      BY <2>1, RespondHolds, ReviewHolds, AcceptHolds, WaitHolds, NativeHolds, CompleteHolds,
         FailHolds, MessagesHold, Zenon
  <1>3. CASE PlanStep
    BY <1>3, PlanHolds, FreezeHolds, Zenon DEF PlanStep
  <1>4. CASE OwnerStep
    <2>1. CASE AdmitMessage
      <3>1. 1 \in StepId /\ 0 \in AttemptNo
        BY LifecycleBoundsAssumption DEF StepId, AttemptNo
      <3> QED
        BY <2>1, <3>1, MessagesHold, Zenon
    <2>2. CASE ReplanJob \/ InterruptPlanning
      BY <2>2, GenerationHolds, Zenon DEF ReplanJob, InterruptPlanning
    <2>3. CASE \E s \in StepId : ReplyToIncomplete(s)
      BY <2>3, GenerationHolds, Zenon DEF ReplyToIncomplete
    <2> QED
      BY <1>4, <2>1, <2>2, <2>3, CancelHolds, PauseHolds, ResumePausedHolds, ResumeFailedHolds,
         ReplyHolds, Zenon DEF OwnerStep
  <1>5. CASE UNCHANGED vars
    BY <1>5, Zenon DEF vars, ledgerVars, jobVars, IInv, TypeOK, LedgerTypeOK, Rows, LedgerRests,
       CompletedJobIsDone, CanceledJobIsQuiet, Live
  <1> QED
    BY <1>1, <1>2, <1>3, <1>4, <1>5, Zenon DEF Next

-----------------------------------------------------------------------------
(* What the job promises. *)

\* The rows of job_steps, attempts, job and ledger agree as IInv says after any
\* sequence of the repository's operations.
THEOREM Invariance == Spec => []IInv
  BY InitHolds, NextHolds, PTL DEF Spec

\* Every column keeps to its type: attempts, generations and statuses.
THEOREM TypesHold == Spec => []TypeOK
  <1>1. IInv => TypeOK
    BY Zenon DEF IInv
  <1> QED
    BY <1>1, Invariance, PTL

\* An active attempt is the latest one of a step that is being worked on,
\* whatever workers, owners and leases do: that of an approved planner apart.
THEOREM AttemptsAreHeld == Spec => []ActiveAttemptIsHeld
  <1>1. ASSUME IInv PROVE ActiveAttemptIsHeld
    <2> SUFFICES ASSUME NEW s \in StepId, NEW n \in AttemptNo, attempt[s][n] = "active"
                 PROVE  /\ n = step[s].attempt
                        /\ \/ step[s].status \in {"running", "waiting_input"} /\ step[s].worker
                           \/ step[s].action = "v3_coding_plan" /\ step[s].status = "completed"
      BY Zenon DEF ActiveAttemptIsHeld
    <2>1. Row(step[s], attempt[s], input[s]) /\ step[s].attempt \in AttemptNo
      BY <1>1, RowFacts, Zenon
    <2>2. n < step[s].attempt \/ n > step[s].attempt \/ n = step[s].attempt
      BY <2>1, Compare, Zenon
    <2>3. n = step[s].attempt
      BY <2>1, <2>2, Zenon DEF Row
    <2> QED
      BY <2>1, <2>3, Zenon DEF Row
  <1> QED
    BY <1>1, Invariance, PTL

\* The status of an open job tells what its steps do: one step waits exactly when
\* the job does (jobs.status and job_steps.status are written together).
THEOREM StatusesAgree == Spec => []StatusAgreement
  <1>1. ASSUME IInv PROVE StatusAgreement
    <2> DEFINE waiting == {s \in StepId : Current(s) /\ step[s].status = "waiting_input"}
    <2> SUFFICES ASSUME job.status \in Open
                 PROVE  /\ job.status = "waiting_input" <=> waiting # {}
                        /\ \A r, s \in waiting : r = s
      BY Zenon DEF StatusAgreement
    <2>1. \A s \in StepId : Current(s) <=> InForce(step[s])
      BY <1>1, Zenon DEF IInv, Tail, Current, Live, InForce
    <2>2. job.status = "waiting_input" <=> waiting # {}
      BY <1>1, <2>1, Zenon DEF IInv, Agrees, Open
    <2>3. \A r, s \in waiting : r = s
      BY <1>1, <2>1, OneAtWork, Zenon
    <2> QED
      BY <2>2, <2>3, Zenon
  <1> QED
    BY <1>1, Invariance, PTL

\* What is in force is always a tail that validateCurrentReplanTail accepts:
\* recovery after failures never makes a job that cannot be replanned.
THEOREM TailsAreValid == Spec => []OpenTailIsValid
  <1>1. ASSUME IInv PROVE OpenTailIsValid
    <2>1. \A s \in StepId : /\ Live(s) <=> InForce(step[s])
                            /\ Live(s) /\ step[s].action = "v3_coding_plan" <=> Planning(step[s])
                            /\ Live(s) /\ step[s].action = "v3_coding" <=> Coding(step[s])
                            /\ Live(s) => Planning(step[s]) \/ Coding(step[s])
      BY <1>1, RowFacts, Zenon DEF Live, InForce, Planning, Coding
    <2>2. \A r, s \in StepId : r < s => r # s
      BY Numbers
    <2>3. \A r, s \in StepId :
              Live(r) /\ Live(s) /\ step[r].action = step[s].action /\ r < s
                => step[r].status = "failed"
      <3> SUFFICES ASSUME NEW r \in StepId, NEW s \in StepId, Live(r), Live(s),
                          step[r].action = step[s].action, r < s
                   PROVE  step[r].status = "failed"
        BY Zenon
      <3>1. ~(Planning(step[r]) /\ Planning(step[s]))
        BY <1>1, <2>2, Zenon DEF IInv, Tail
      <3> QED
        BY <1>1, <2>1, <3>1, Zenon DEF IInv, Tail, Planning, Coding
    <2>4. Tail(step, job.generation)
      BY <1>1, Zenon DEF IInv
    <2> QED
      BY <2>1, <2>3, <2>4, Zenon DEF OpenTailIsValid, ValidTail, Tail
  <1> QED
    BY <1>1, Invariance, PTL

\* CompleteStep completes everything: ledger, steps and messages.
THEOREM CompletionIsComplete == Spec => []CompletedJobIsDone
  <1>1. IInv => CompletedJobIsDone
    BY Zenon DEF IInv
  <1> QED
    BY <1>1, Invariance, PTL

\* A cancelled job stays so in its steps, tasks and plan, late planners included.
THEOREM CancellationIsQuiet == Spec => []CanceledJobIsQuiet
  <1>1. IInv => CanceledJobIsQuiet
    BY Zenon DEF IInv
  <1> QED
    BY <1>1, Invariance, PTL

\* Pauses, resumptions, failures, lost leases and replies never strand an
\* approved job: ClaimNextStep finds a step, or somebody can write.
THEOREM ApprovedJobsGoOn == Spec => []ApprovedJobNeverStalls
  <1>1. ASSUME IInv PROVE ApprovedJobNeverStalls
    <2> SUFFICES ASSUME job.status = "running", ledger.state = "frozen"
                 PROVE  \/ \E s \in StepId : Claimable(s)
                        \/ \E s \in StepId, n \in AttemptNo : CanWrite(s, n)
      BY Zenon DEF ApprovedJobNeverStalls
    <2>1. PICK e \in StepId : Coding(step[e]) /\ step[e].status \in Open
      BY <1>1, Zenon DEF IInv, Agrees, Open
    <2>2. step[e].status \in {"pending", "running"}
      BY <1>1, <2>1, Zenon DEF IInv, Agrees, Open, Coding
    <2>3. Current(e) /\ step[e].action = "v3_coding"
      BY <1>1, <2>1, Zenon DEF IInv, Tail, Coding, InForce, Current, Live
    <2>4. \A p \in Predecessors(e) : step[p].status = "completed"
      <3>1. \A p \in Predecessors(e) : Planning(step[p])
        BY <1>1, <2>3, RowFacts, SMTT(30) DEF Predecessors, SortIndex, Planning, InForce, Live
      <3> QED
        BY <1>1, <3>1, Zenon DEF IInv, PlanFirst, Predecessors
    <2>5. Vacant(e) => Claimable(e)
      BY <2>3, <2>4, Zenon DEF Claimable
    <2>6. Row(step[e], attempt[e], input[e]) /\ step[e].attempt \in AttemptNo
      BY <1>1, RowFacts, Zenon
    <2>7. CASE step[e].status = "pending"
      <3>1. step[e].attempt = 0
        BY <2>6, <2>7, Zenon DEF Row
      <3> QED
        BY <2>5, <2>7, <3>1, Zenon DEF Vacant
    <2>8. CASE step[e].status = "running"
      <3>1. /\ step[e].attempt > 0 /\ step[e].worker = TRUE
            /\ CurrentAttempt(e) \in {"active", "waiting_input"}
        BY <2>3, <2>6, <2>8, Zenon DEF Row, CurrentAttempt
      <3>2. CASE CurrentAttempt(e) = "active" /\ e \notin expired
        BY <2>3, <2>6, <2>8, <3>1, <3>2, Zenon DEF CanWrite, Active, Authority, CurrentAttempt
      <3>3. CASE ~(CurrentAttempt(e) = "active" /\ e \notin expired)
        BY <2>3, <2>5, <2>8, <3>1, <3>3, Zenon DEF Vacant
      <3> QED
        BY <3>2, <3>3, Zenon
    <2> QED
      BY <2>2, <2>7, <2>8, Zenon
  <1> QED
    BY <1>1, Invariance, PTL

-----------------------------------------------------------------------------
(* History. *)

\* What HistoryIsImmutable says of a step.
Kept ==
    /\ \A s \in StepId, n \in AttemptNo :
          attempt[s][n] \notin {"none", "active"} => attempt'[s][n] = attempt[s][n]
    /\ \A s \in StepId : step[s].superseded > 0 => step'[s] = step[s]

\* A step in force is written, and of its attempts only one that is active or
\* was never issued.
LEMMA KeptByWriting ==
    ASSUME IInv, NEW s \in StepId, InForce(step[s]), NEW x, NEW a,
           step' = [step EXCEPT ![s] = x], attempt' = [attempt EXCEPT ![s] = a],
           \A n \in AttemptNo : attempt[s][n] \notin {"none", "active"} => a[n] = attempt[s][n]
    PROVE  Kept
  <1>1. /\ \A r \in StepId \ {s} : step'[r] = step[r] /\ attempt'[r] = attempt[r]
        /\ attempt'[s] = a
    BY Zenon DEF IInv, TypeOK
  <1>2. ~(step[s].superseded > 0)
    BY DEF InForce
  <1> QED
    BY <1>1, <1>2, ZenonT(30) DEF Kept

\* The same when the attempts are left alone.
LEMMA KeptByMoving ==
    ASSUME IInv, NEW s \in StepId, InForce(step[s]), NEW x,
           step' = [step EXCEPT ![s] = x], attempt' = attempt
    PROVE  Kept
  <1>1. attempt' = [attempt EXCEPT ![s] = attempt[s]]
    BY Zenon DEF IInv, TypeOK
  <1> QED
    BY <1>1, KeptByWriting, Zenon

\* An attempt that is active ends.
LEMMA KeptByEnding ==
    ASSUME IInv, NEW s \in StepId, NEW n \in AttemptNo, Active(s, n), NEW x, NEW outcome,
           step' = [step EXCEPT ![s] = x],
           attempt' = [attempt EXCEPT ![s] = [attempt[s] EXCEPT ![n] = outcome]]
    PROVE  Kept
  <1> DEFINE a == [attempt[s] EXCEPT ![n] = outcome]
  <1>1. InForce(step[s]) /\ attempt[s][n] = "active"
    BY ActiveFacts, Zenon
  <1>2. \A m \in AttemptNo : attempt[s][m] \notin {"none", "active"} => a[m] = attempt[s][m]
    BY <1>1, RowFacts, Zenon
  <1> HIDE DEF a
  <1> QED
    BY <1>1, <1>2, KeptByWriting, Zenon DEF a

\* Operations that revoke: who is superseded already is left alone.
LEMMA KeptByRevoking ==
    ASSUME IInv, CancelJob \/ \E v, j : StartGeneration(v, j) PROVE Kept
  <1>1. \A s \in StepId : step[s].superseded > 0 => ~Live(s) /\ step[s].status # "absent"
    <2> TAKE s \in StepId
    <2>1. Row(step[s], attempt[s], input[s])
      BY RowFacts, Zenon
    <2>2. step[s].superseded > 0 => step[s].superseded # 0
      OBVIOUS
    <2> QED
      BY <2>1, <2>2, Zenon DEF Live, Row
  <1>2. CASE CancelJob
    <2>1. \A s \in StepId, n \in AttemptNo :
              attempt[s][n] \notin {"none", "active"} => attempt'[s][n] = attempt[s][n]
      BY <1>2, RevokedFacts, Zenon DEF CancelJob
    <2>2. \A s \in StepId : ~Live(s) => step'[s] = step[s]
      BY <1>2, Zenon DEF CancelJob
    <2> QED
      BY <1>1, <2>1, <2>2, Zenon DEF Kept
  <1>3. CASE \E v, j : StartGeneration(v, j)
    <2>1. PICK v, j : StartGeneration(v, j)
      BY <1>3, Zenon
    <2>2. \A s \in StepId, n \in AttemptNo :
              attempt[s][n] \notin {"none", "active"} => attempt'[s][n] = attempt[s][n]
      <3>1. attempt' = Revoked("superseded")
        BY <2>1, Zenon DEF StartGeneration
      <3> QED
        BY <3>1, RevokedFacts, Zenon
    <2>3. PICK p \in StepId :
              /\ NextId(p) /\ p + 1 \in StepId
              /\ step' = [s \in StepId |->
                    IF s = p THEN NewStep("v3_coding_plan", job.generation + 1, v)
                    ELSE IF s = p + 1 THEN NewStep("v3_coding", job.generation + 1, "pending")
                    ELSE IF Live(s) THEN RetiredStep(s) ELSE step[s]]
      BY <2>1, Zenon DEF StartGeneration
    <2>4. step[p].status = "absent" /\ step[p + 1].status = "absent"
      BY <2>3, Numbers DEF NextId
    <2> QED
      BY <1>1, <2>2, <2>3, <2>4, Zenon DEF Kept
  <1> QED
    BY <1>2, <1>3, Zenon

\* No operation rewrites history.
LEMMA NextKeeps == IInv /\ [Next]_vars => Kept
  <1> SUFFICES ASSUME IInv, [Next]_vars PROVE Kept
    BY Zenon
  <1>1. ASSUME NEW s \in StepId, ClaimNextStep(s) PROVE Kept
    <2> DEFINE x == [step[s] EXCEPT !.status = "running", !.attempt = step[s].attempt + 1,
                                    !.worker = TRUE]
               a == [n \in AttemptNo |->
                        IF n = step[s].attempt + 1 THEN "active"
                        ELSE IF n = step[s].attempt /\ attempt[s][n] = "active" THEN "expired"
                        ELSE attempt[s][n]]
    <2>1. /\ step' = [step EXCEPT ![s] = x] /\ attempt' = [attempt EXCEPT ![s] = a]
          /\ InForce(step[s])
      BY <1>1, Zenon DEF ClaimNextStep, Claimable, Current, Live, InForce
    <2>2. \A n \in AttemptNo : n = step[s].attempt + 1 => attempt[s][n] = "none"
      <3>1. Row(step[s], attempt[s], input[s]) /\ step[s].attempt \in AttemptNo
        BY RowFacts, Zenon
      <3>2. step[s].attempt \in Nat
        BY <3>1, Numbers, Zenon
      <3>3. step[s].attempt + 1 > step[s].attempt
        BY <3>2
      <3> QED
        BY <3>1, <3>3, Zenon DEF Row
    <2>3. \A n \in AttemptNo : attempt[s][n] \notin {"none", "active"} => a[n] = attempt[s][n]
      BY <2>2, Zenon
    <2> HIDE DEF x, a
    <2> QED
      BY <2>1, <2>3, KeptByWriting, Zenon
  <1>2. ASSUME NEW s \in StepId, PauseJob(s) PROVE Kept
    <2> DEFINE x == [step[s] EXCEPT !.status = "waiting_input", !.worker = FALSE]
               a == [n \in AttemptNo |->
                        IF n = step[s].attempt /\ attempt[s][n] = "active" THEN "waiting_input"
                        ELSE attempt[s][n]]
    <2>1. /\ step' = [step EXCEPT ![s] = x] /\ attempt' = [attempt EXCEPT ![s] = a]
          /\ InForce(step[s])
      BY <1>2, Zenon DEF PauseJob, Pausable, Current, Live, InForce
    <2>2. \A n \in AttemptNo : attempt[s][n] \notin {"none", "active"} => a[n] = attempt[s][n]
      BY Zenon
    <2> HIDE DEF x, a
    <2> QED
      BY <2>1, <2>2, KeptByWriting, Zenon
  <1>3. CASE WorkerStep
    <2>1. PICK s \in StepId, n \in AttemptNo :
              \/ \E kind \in {"none", "question", "incomplete"} : Respond(s, n, kind)
              \/ \E t \in Task, accepted \in BOOLEAN : Review(s, n, t, accepted)
              \/ \E t \in Task : AcceptCodingLedgerTask(s, n, t)
              \/ WaitForCodingExecutionInput(s, n)
              \/ WaitForCodingNativeInput(s, n)
              \/ MarkCodingLedgerReviewReady(s, n)
              \/ CompleteStep(s, n)
              \/ FailStep(s, n)
              \/ ResolveMessage(s, n)
      BY <1>3, Zenon DEF WorkerStep
    <2>2. CASE WaitForCodingExecutionInput(s, n) \/ MarkCodingLedgerReviewReady(s, n)
      BY <2>2, KeptByEnding
      DEF WaitForCodingExecutionInput, MarkCodingLedgerReviewReady, Suspend, Executing
    <2>3. CASE WaitForCodingNativeInput(s, n)
      BY <2>3, KeptByMoving, ActiveFacts, Zenon DEF WaitForCodingNativeInput, Executing
    <2>4. CASE CompleteStep(s, n) \/ FailStep(s, n)
      BY <2>4, KeptByEnding DEF CompleteStep, FailStep
    <2>5. CASE \/ \E kind \in {"none", "question", "incomplete"} : Respond(s, n, kind)
               \/ \E t \in Task, accepted \in BOOLEAN : Review(s, n, t, accepted)
               \/ \E t \in Task : AcceptCodingLedgerTask(s, n, t)
               \/ ResolveMessage(s, n)
      <3>1. UNCHANGED <<step, attempt>>
        BY <2>5, Zenon DEF Respond, Review, AcceptCodingLedgerTask, ResolveMessage, jobVars
      <3> QED
        BY <3>1, Zenon DEF Kept
    <2> QED
      BY <2>1, <2>2, <2>3, <2>4, <2>5, Zenon
  <1>4. CASE PlanStep
    <2>1. ASSUME NEW s \in StepId, FreezeAndStart(s) PROVE Kept
      BY <2>1, KeptByMoving, Zenon DEF FreezeAndStart, Current, Live, InForce
    <2>2. CASE CreateLedger \/ EditLedger \/ ReproposeLedger
      <3>1. UNCHANGED <<step, attempt>>
        BY <2>2, Zenon DEF CreateLedger, EditLedger, ReproposeLedger, jobVars
      <3> QED
        BY <3>1, Zenon DEF Kept
    <2> QED
      BY <1>4, <2>1, <2>2, Zenon DEF PlanStep
  <1>5. CASE OwnerStep
    <2>1. ASSUME NEW s \in StepId, ResumePaused(s) PROVE Kept
      BY <2>1, KeptByMoving, Zenon DEF ResumePaused, Recoverable, Current, Live, InForce
    <2>2. ASSUME NEW s \in StepId, ReplyToInput(s) PROVE Kept
      BY <2>2, KeptByMoving, Zenon DEF ReplyToInput, Repliable, Current, Live, InForce
    <2>3. ASSUME NEW s \in StepId, ResumeFailed(s) PROVE Kept
      <3>1. PICK p \in StepId :
                NextId(p) /\ step' = [step EXCEPT ![p] = NewStep("v3_coding", job.generation, "pending")]
        BY <2>3, Zenon DEF ResumeFailed
      <3>2. step[p].status = "absent" /\ Row(step[p], attempt[p], input[p])
        BY <3>1, Numbers, RowFacts DEF NextId
      <3>3. ~(step[p].superseded > 0)
        BY <3>2 DEF Row
      <3>4. attempt' = attempt /\ \A r \in StepId \ {p} : step'[r] = step[r]
        BY <2>3, <3>1, Zenon DEF ResumeFailed, IInv, TypeOK
      <3> QED
        BY <3>3, <3>4, Zenon DEF Kept
    <2>4. CASE CancelJob \/ ReplanJob \/ InterruptPlanning \/ \E s \in StepId : ReplyToIncomplete(s)
      BY <2>4, KeptByRevoking, Zenon DEF ReplanJob, InterruptPlanning, ReplyToIncomplete
    <2>5. CASE AdmitMessage
      BY <2>5, Zenon DEF AdmitMessage, Kept
    <2> QED
      BY <1>2, <1>5, <2>1, <2>2, <2>3, <2>4, <2>5, Zenon DEF OwnerStep
  <1>6. CASE UNCHANGED vars
    BY <1>6, Zenon DEF vars, jobVars, Kept
  <1>7. ASSUME NEW s \in StepId, LeaseExpires(s) PROVE Kept
    BY <1>7, Zenon DEF LeaseExpires, Kept
  <1> QED
    BY <1>1, <1>3, <1>4, <1>5, <1>6, <1>7, Zenon DEF Next

\* No operation of workers, planner and owner changes the outcome of an attempt
\* that has ended or a step that a later generation superseded.
THEOREM HistoryIsKept == Spec => HistoryIsImmutable
  <1>1. IInv /\ [Next]_vars => [Kept]_vars
    BY NextKeeps, Zenon
  <1> QED
    BY <1>1, Invariance, PTL DEF Spec, HistoryIsImmutable, Kept

-----------------------------------------------------------------------------
(* The job implements exclusive execution. *)

\* The mapping of the INSTANCE Exclusive.
Writer == IF Writers = {} THEN Nobody ELSE CHOOSE a \in Writers : TRUE
Issued == {a \in StepId \X AttemptNo : attempt[a[1]][a[2]] # "none"}
Accepted == {t \in Task : tasks[t] = "accepted"}
Finished == job.status = "completed"

\* A step of ExclusiveExecution, or none.
Maps == [Exclusive!Next]_Exclusive!vars

\* Whoever can write works on a step in force, under its current attempt.
LEMMA WriterFacts ==
    ASSUME IInv, NEW s \in StepId, NEW n \in AttemptNo, CanWrite(s, n)
    PROVE  /\ InForce(step[s]) /\ n = step[s].attempt /\ Active(s, n)
           /\ step[s].status \in {"running", "waiting_input"}
           /\ job.status = step[s].status
  BY ActiveFacts, Zenon DEF CanWrite, NativeWaiting

\* Nobody else can.
LEMMA OneWriter ==
    ASSUME IInv, NEW s \in StepId, NEW n \in AttemptNo, CanWrite(s, n)
    PROVE  Writers = {<<s, n>>} /\ Writer = <<s, n>> /\ Writer # Nobody
  <1>1. InForce(step[s]) /\ n = step[s].attempt /\ step[s].status \in {"running", "waiting_input"}
    BY WriterFacts, Zenon
  <1>2. ASSUME NEW r \in StepId, NEW m \in AttemptNo, CanWrite(r, m) PROVE r = s /\ m = n
    <2>1. InForce(step[r]) /\ m = step[r].attempt /\ step[r].status \in {"running", "waiting_input"}
      BY <1>2, WriterFacts, Zenon
    <2> QED
      BY <1>1, <2>1, OneAtWork, Zenon
  <1>3. Writers = {<<s, n>>}
    BY <1>2 DEF Writers
  <1>4. Writer = <<s, n>>
    BY <1>3, Zenon DEF Writer
  <1>5. s # 0
    BY Numbers, Zenon
  <1> QED
    BY <1>3, <1>4, <1>5, Zenon DEF Nobody

\* The mapped writer is who can write.
SoleWriter == \A s \in StepId, n \in AttemptNo : CanWrite(s, n) => Writer = <<s, n>>

\* In every state that claims and leases lead to.
LEMMA AlwaysOneWriter == IInv => SoleWriter
  BY OneWriter, Zenon DEF SoleWriter

\* The same of the next state.
LEMMA OneWriterNext == IInv' => SoleWriter'
  BY AlwaysOneWriter, PTL

\* Without a writer.
LEMMA NoWriter ==
    ASSUME \A s \in StepId, n \in AttemptNo : ~CanWrite(s, n)
    PROVE  Writers = {} /\ Writer = Nobody
  BY Zenon DEF Writers, Writer

\* The same of the next state.
LEMMA NoWriterNext ==
    ASSUME \A s \in StepId, n \in AttemptNo : ~CanWrite(s, n)'
    PROVE  Writers' = {} /\ Writer' = Nobody
  BY Zenon DEF Writers, Writer, Nobody

\* A step that the specification of exclusive execution does not see.
LEMMA Unseen ==
    ASSUME \A s \in StepId, n \in AttemptNo : CanWrite(s, n)' <=> CanWrite(s, n),
           Issued' = Issued, Accepted' = Accepted, Finished' = Finished
    PROVE  Maps
  <1>1. Writers' = Writers
    BY Zenon DEF Writers
  <1>2. Writer' = Writer
    BY <1>1 DEF Writer, Nobody
  <1> QED
    BY <1>2, Zenon DEF Maps, Exclusive!vars, Writer, Issued, Accepted, Finished

\* The authority ends.
LEMMA Loses ==
    ASSUME IInv, NEW s \in StepId, NEW n \in AttemptNo, CanWrite(s, n),
           \A r \in StepId, m \in AttemptNo : ~CanWrite(r, m)',
           Issued' = Issued, Accepted' = Accepted, Finished' = Finished
    PROVE  Maps
  <1>1. Writer # Nobody /\ Writer' = Nobody
    BY OneWriter, NoWriterNext, Zenon
  <1> QED
    BY <1>1, Zenon DEF Maps, Exclusive!Next, Exclusive!Lose, Writer, Issued, Accepted, Finished

\* The owner takes the pen away, and perhaps approves another plan.
LEMMA Reapproves ==
    ASSUME \A r \in StepId, m \in AttemptNo : ~CanWrite(r, m)',
           Issued' = Issued, Accepted' \subseteq Accepted, ~Finished, ~Finished'
    PROVE  Maps
  <1>1. Writer' = Nobody
    BY NoWriterNext, Zenon
  <1> QED
    BY <1>1, Zenon DEF Maps, Exclusive!Next, Exclusive!Reapprove, Writer, Issued, Accepted, Finished

\* Nobody can write when no step that runs, or waits, like the job has a worker.
LEMMA NobodyWrites ==
    ASSUME \A r \in StepId :
              InForce(step'[r]) /\ step'[r].status = job'.status
                /\ job'.status \in {"running", "waiting_input"} => step'[r].worker = FALSE
    PROVE  \A r \in StepId, m \in AttemptNo : ~CanWrite(r, m)'
  BY Zenon DEF CanWrite, Active, Authority, Current, Live, NativeWaiting, InForce

\* Operations that neither write steps and attempts nor expire or ask.
LEMMA QuietMaps ==
    ASSUME UNCHANGED <<job, step, attempt, expired, input>>
    PROVE  /\ \A s \in StepId, n \in AttemptNo : CanWrite(s, n)' <=> CanWrite(s, n)
           /\ Issued' = Issued /\ Finished' = Finished
  BY ZenonT(30) DEF CanWrite, Active, Authority, Current, Live, NativeWaiting, Issued, Finished

\* Authorities are issued by claims alone.
LEMMA IssuedKept ==
    ASSUME \A s \in StepId, n \in AttemptNo : attempt'[s][n] = "none" <=> attempt[s][n] = "none"
    PROVE  Issued' = Issued
  BY Zenon DEF Issued

\* An attempt that was issued gets an outcome.
LEMMA OutcomeKept ==
    ASSUME IInv, NEW s \in StepId, NEW n \in AttemptNo, attempt[s][n] = "active",
           NEW outcome, outcome # "none",
           attempt' = [attempt EXCEPT ![s] = [attempt[s] EXCEPT ![n] = outcome]]
    PROVE  Issued' = Issued
  <1>1. \A r \in StepId, m \in AttemptNo : attempt'[r][m] = "none" <=> attempt[r][m] = "none"
    BY Zenon DEF IInv, TypeOK
  <1> QED
    BY <1>1, IssuedKept, Zenon

\* Attempts that are revoked were issued.
LEMMA RevokedKept ==
    ASSUME IInv, NEW status \in {"canceled", "superseded"}, attempt' = Revoked(status)
    PROVE  Issued' = Issued
  BY RevokedFacts, IssuedKept, Zenon

\* The accepted tasks when no task is written.
LEMMA AcceptedKept == ASSUME tasks' = tasks PROVE Accepted' = Accepted
  BY Zenon DEF Accepted

\* ClaimNextStep hands out a fresh authority, and only when nobody can write.
LEMMA ClaimMaps ==
    ASSUME IInv, IInv', NEW s \in StepId, ClaimNextStep(s) PROVE Maps
  <1>0. PICK m \in AttemptNo : m = step[s].attempt + 1
    BY RowFacts, LifecycleBoundsAssumption DEF ClaimNextStep, AttemptNo
  <1>1. /\ Claimable(s) /\ step[s].attempt < MaxAttempt
        /\ attempt' = [attempt EXCEPT ![s] =
              [n \in AttemptNo |->
                  IF n = m THEN "active"
                  ELSE IF n = step[s].attempt /\ attempt[s][n] = "active" THEN "expired"
                  ELSE attempt[s][n]]]
        /\ step' = [step EXCEPT ![s] =
              [step[s] EXCEPT !.status = "running", !.attempt = m, !.worker = TRUE]]
        /\ job' = [job EXCEPT !.status = "running"] /\ expired' = expired \ {s}
        /\ UNCHANGED ledgerVars
    BY <1>0, Zenon DEF ClaimNextStep
  <1>2. /\ InForce(step[s]) /\ Vacant(s) /\ job.status \in {"pending", "running"}
        /\ step[s].generation = job.generation
        /\ \A p \in Predecessors(s) : step[p].status = "completed"
    BY <1>1, Zenon DEF Claimable, Current, Live, InForce
  <1>3. m > 0 /\ m > step[s].attempt
    BY <1>0, RowFacts, LifecycleBoundsAssumption DEF AttemptNo
  <1>4. \A r \in StepId, n \in AttemptNo : ~CanWrite(r, n)
    <2> SUFFICES ASSUME NEW r \in StepId, NEW n \in AttemptNo, CanWrite(r, n) PROVE FALSE
      BY Zenon
    <2>1. /\ InForce(step[r]) /\ step[r].status = "running"
          /\ n = step[r].attempt /\ attempt[r][n] = "active" /\ r \notin expired
      BY <1>2, WriterFacts, ActiveFacts, ZenonT(30)
    <2>2. r # s
      BY <2>1, <1>2, Zenon DEF Vacant, CurrentAttempt
    <2>3. step[s].status = "pending"
      BY <1>2, <2>1, <2>2, OneAtWork, Zenon DEF Vacant
    <2>4. step[s].status \in Open /\ step[r].status \in Open
      BY <2>1, <2>3, Zenon DEF Open
    <2>5. CASE Planning(step[s])
      BY <1>2, <2>1, <2>2, <2>3, <2>4, <2>5, OneAtWork, OpenIsLast, Zenon
    <2>6. CASE Coding(step[s])
      <3>1. Planning(step[r])
        BY <1>2, <2>1, <2>2, <2>4, <2>6, OpenIsLast, Zenon
      <3>2. r \in Predecessors(s)
        BY <2>6, <3>1, SMTT(30) DEF Predecessors, SortIndex, Planning, Coding, Live, InForce
      <3> QED
        BY <1>2, <2>1, <3>2, Zenon
    <2> QED
      BY <1>2, <2>4, <2>5, <2>6, OpenIsLast, Zenon
  <1>5. CanWrite(s, m)'
    <2>1. /\ step'[s].status = "running" /\ step'[s].attempt = m /\ step'[s].worker = TRUE
          /\ step'[s].superseded = 0 /\ step'[s].generation = job.generation
      <3>1. step[s] \in Step
        BY RowFacts, Zenon
      <3>2. step'[s] = [step[s] EXCEPT !.status = "running", !.attempt = m, !.worker = TRUE]
        BY <1>1, Zenon DEF IInv, TypeOK
      <3> QED
        BY <1>2, <3>1, <3>2, Zenon DEF Step, InForce
    <2>2. attempt'[s][m] = "active"
      BY <1>1, <1>3, Zenon DEF IInv, TypeOK
    <2>3. job'.status = "running" /\ job'.generation = job.generation
      BY <1>1, Zenon DEF IInv, TypeOK
    <2>4. s \notin expired'
      BY <1>1, Zenon
    <2> QED
      BY <1>3, <2>1, <2>2, <2>3, <2>4, Zenon DEF CanWrite, Active, Authority, Current, Live
  <1>6. Writer' = <<s, m>>
    BY <1>5, OneWriterNext, Zenon DEF SoleWriter
  <1>7. Writer = Nobody /\ ~Finished /\ ~Finished'
    BY <1>1, <1>2, <1>4, NoWriter, Zenon DEF Finished, IInv, TypeOK
  <1>8. Accepted' = Accepted
    BY <1>1, AcceptedKept, Zenon DEF ledgerVars
  <1>9. <<s, m>> \in (StepId \X AttemptNo) \ Issued /\ Issued' = Issued \cup {<<s, m>>}
    <2>1. attempt[s][m] = "none"
      BY <1>3, RowFacts, Zenon DEF Row
    <2>2. \A r \in StepId, n \in AttemptNo :
              attempt'[r][n] # "none" <=> attempt[r][n] # "none" \/ (r = s /\ n = m)
      BY <1>1, <2>1, Zenon DEF IInv, TypeOK
    <2> QED
      BY <1>3, <2>1, <2>2 DEF Issued
  <1> QED
    BY <1>6, <1>7, <1>8, <1>9, Zenon
    DEF Maps, Exclusive!Next, Exclusive!Grant, Writer, Issued, Accepted, Finished

\* A lease that runs out takes the authority of its holder.
LEMMA LeaseExpiresMaps ==
    ASSUME IInv, NEW s \in StepId, LeaseExpires(s) PROVE Maps
  <1>1. /\ expired' = expired \cup {s}
        /\ UNCHANGED <<ledgerVars, job, step, attempt, input>>
    BY Zenon DEF LeaseExpires
  <1>2. \A r \in StepId, n \in AttemptNo : CanWrite(r, n)' <=> CanWrite(r, n) /\ r # s
    BY <1>1, ZenonT(30) DEF CanWrite, Active, Authority, Current, Live, NativeWaiting
  <1>3. Issued' = Issued /\ Accepted' = Accepted /\ Finished' = Finished
    BY <1>1, Zenon DEF Issued, Accepted, Finished, ledgerVars
  <1>4. CASE \E n \in AttemptNo : CanWrite(s, n)
    <2>1. PICK n \in AttemptNo : CanWrite(s, n)
      BY <1>4, Zenon
    <2>2. Writers = {<<s, n>>}
      BY <2>1, OneWriter, Zenon
    <2>3. \A r \in StepId, m \in AttemptNo : CanWrite(r, m) => r = s
      <3> SUFFICES ASSUME NEW r \in StepId, NEW m \in AttemptNo, CanWrite(r, m) PROVE r = s
        BY Zenon
      <3>1. <<r, m>> \in Writers
        BY DEF Writers
      <3>2. <<r, m>> = <<s, n>>
        BY <2>2, <3>1
      <3> QED
        BY <3>2, Zenon
    <2>4. \A r \in StepId, m \in AttemptNo : ~CanWrite(r, m)'
      BY <1>2, <2>3, Zenon
    <2> QED
      BY <1>3, <2>1, <2>4, Loses, Zenon
  <1>5. CASE ~\E n \in AttemptNo : CanWrite(s, n)
    <2>1. \A r \in StepId, m \in AttemptNo : CanWrite(r, m)' <=> CanWrite(r, m)
      BY <1>2, <1>5, Zenon
    <2> QED
      BY <1>3, <2>1, Unseen, Zenon
  <1> QED
    BY <1>4, <1>5, Zenon

\* Evidence, messages and edits of the plan are not seen.
LEMMA QuietOperationsMap ==
    ASSUME IInv, NEW s \in StepId, NEW n \in AttemptNo,
           \/ \E kind \in {"none", "question", "incomplete"} : Respond(s, n, kind)
           \/ \E t \in Task, accepted \in BOOLEAN : Review(s, n, t, accepted)
           \/ ResolveMessage(s, n) \/ AdmitMessage
           \/ CreateLedger \/ EditLedger \/ ReproposeLedger
    PROVE  Maps
  <1>1. CASE \E kind \in {"none", "question", "incomplete"} : Respond(s, n, kind)
    <2>1. PICK kind \in {"none", "question", "incomplete"} : Respond(s, n, kind)
      BY <1>1, Zenon
    <2>2. /\ UNCHANGED <<ledgerVars, job, step, attempt, expired>> /\ step[s].status = "running"
          /\ \A r \in StepId \ {s} : input'[r] = input[r]
      BY <2>1, Zenon DEF Respond, Executing, IInv, TypeOK
    <2>3. \A r \in StepId, m \in AttemptNo : CanWrite(r, m)' <=> CanWrite(r, m)
      BY <2>2, ZenonT(30) DEF CanWrite, Active, Authority, Current, Live, NativeWaiting
    <2>4. Issued' = Issued /\ Accepted' = Accepted /\ Finished' = Finished
      BY <2>2, Zenon DEF Issued, Accepted, Finished, ledgerVars
    <2> QED
      BY <2>3, <2>4, Unseen, Zenon
  <1>2. CASE \/ \E t \in Task, accepted \in BOOLEAN : Review(s, n, t, accepted)
             \/ ResolveMessage(s, n) \/ AdmitMessage
             \/ CreateLedger \/ EditLedger \/ ReproposeLedger
    <2>1. UNCHANGED <<job, step, attempt, expired, input>>
      BY <1>2, Zenon DEF Review, ResolveMessage, AdmitMessage, CreateLedger, EditLedger, ReproposeLedger,
         jobVars
    <2>2. tasks' = tasks
      BY <1>2, Zenon DEF Review, ResolveMessage, AdmitMessage, CreateLedger, EditLedger, ReproposeLedger,
         CreateCodingLedger, ApplyCodingLedgerMutation, ProposeUnchanged, ledgerVars
    <2> QED
      BY <2>1, <2>2, QuietMaps, AcceptedKept, Unseen, Zenon
  <1> QED
    BY <1>1, <1>2, Zenon

\* AcceptCodingLedgerTask: the writer adds a task.
LEMMA AcceptMaps ==
    ASSUME IInv, NEW s \in StepId, NEW n \in AttemptNo, NEW t \in Task,
           AcceptCodingLedgerTask(s, n, t)
    PROVE  Maps
  <1>1. UNCHANGED jobVars /\ AcceptTask(t) /\ CanWrite(s, n)
    BY Zenon DEF AcceptCodingLedgerTask, Executing, CanWrite
  <1>2. Writer # Nobody
    BY <1>1, OneWriter, Zenon
  <1>3. Writers' = Writers /\ Issued' = Issued /\ Finished' = Finished
    BY <1>1, QuietMaps, Zenon DEF jobVars, Writers
  <1>4. Writer' = Writer
    BY <1>3 DEF Writer, Nobody
  <1>5. t \in Task \ Accepted /\ Accepted' = Accepted \cup {t}
    BY <1>1, Zenon DEF AcceptTask, Accepted, IInv, TypeOK, LedgerTypeOK
  <1> QED
    BY <1>2, <1>3, <1>4, <1>5, Zenon
    DEF Maps, Exclusive!Next, Exclusive!Accept, Writer, Issued, Accepted, Finished

\* WaitForCodingExecutionInput and MarkCodingLedgerReviewReady give the
\* authority back.
LEMMA WaitMaps ==
    ASSUME IInv, NEW s \in StepId, NEW n \in AttemptNo,
           WaitForCodingExecutionInput(s, n) \/ MarkCodingLedgerReviewReady(s, n)
    PROVE  Maps
  <1>1. PICK status \in {"waiting_input", "completed"} : Suspend(s, n, status)
    BY Zenon DEF WaitForCodingExecutionInput, MarkCodingLedgerReviewReady
  <1>2. UNCHANGED ledgerVars /\ Executing(s, n)
    BY Zenon DEF WaitForCodingExecutionInput, MarkCodingLedgerReviewReady
  <1>3. /\ CanWrite(s, n) /\ InForce(step[s]) /\ step[s].status = "running"
        /\ attempt[s][n] = "active" /\ job.status = "running"
    BY <1>2, ActiveFacts, Zenon DEF Executing, CanWrite
  <1>4. Issued' = Issued
    BY <1>1, <1>3, OutcomeKept, Zenon DEF Suspend
  <1>5. Accepted' = Accepted
    BY <1>2, AcceptedKept, Zenon DEF ledgerVars
  <1>6. job'.status = "waiting_input" /\ Finished' = Finished
    BY <1>1, <1>3, Zenon DEF Suspend, Finished, IInv, TypeOK
  <1>7. step'[s].worker = FALSE /\ \A r \in StepId \ {s} : step'[r] = step[r]
    <2>1. step'[s] = [step[s] EXCEPT !.status = "waiting_input", !.worker = FALSE]
          /\ \A r \in StepId \ {s} : step'[r] = step[r]
      BY <1>1, Zenon DEF Suspend, IInv, TypeOK
    <2> QED
      BY <2>1, RowFacts, Zenon DEF Step
  <1>8. \A r \in StepId, m \in AttemptNo : ~CanWrite(r, m)'
    BY <1>3, <1>6, <1>7, OneAtWork, NobodyWrites, Zenon
  <1> QED
    BY <1>3, <1>4, <1>5, <1>6, <1>8, Loses, Zenon

\* WaitForCodingNativeInput keeps it.
LEMMA NativeMaps ==
    ASSUME IInv, IInv', NEW s \in StepId, NEW n \in AttemptNo, WaitForCodingNativeInput(s, n)
    PROVE  Maps
  <1>1. /\ Executing(s, n) /\ input' = [input EXCEPT ![s] = [kind |-> "native", replied |-> FALSE]]
        /\ step' = [step EXCEPT ![s] = [step[s] EXCEPT !.status = "waiting_input"]]
        /\ job' = [job EXCEPT !.status = "waiting_input"]
        /\ UNCHANGED <<ledgerVars, attempt, expired>>
    BY Zenon DEF WaitForCodingNativeInput
  <1>2. CanWrite(s, n)
    BY <1>1 DEF Executing, CanWrite
  <1>3. CanWrite(s, n)'
    <2>1. /\ step'[s].status = "waiting_input" /\ step'[s].worker = step[s].worker
          /\ step'[s].attempt = step[s].attempt /\ step'[s].superseded = step[s].superseded
          /\ step'[s].generation = step[s].generation
      <3>1. step'[s] = [step[s] EXCEPT !.status = "waiting_input"] /\ step[s] \in Step
        BY <1>1, RowFacts, Zenon DEF IInv, TypeOK
      <3> QED
        BY <3>1, Zenon DEF Step
    <2>2. job'.status = "waiting_input" /\ job'.generation = job.generation
      BY <1>1, Zenon DEF IInv, TypeOK
    <2>3. input'[s].kind = "native" /\ ~input'[s].replied
      BY <1>1, Zenon DEF IInv, TypeOK
    <2> QED
      BY <1>1, <2>1, <2>2, <2>3, Zenon
      DEF CanWrite, NativeWaiting, Executing, Active, Authority, Current, Live
  <1>4. Writer' = Writer
    BY <1>2, <1>3, OneWriter, OneWriterNext, Zenon DEF SoleWriter
  <1>5. Issued' = Issued /\ Accepted' = Accepted /\ Finished' = Finished
    BY <1>1, Zenon DEF Issued, Accepted, Finished, ledgerVars, Executing, IInv, TypeOK
  <1> QED
    BY <1>4, <1>5, Zenon DEF Maps, Exclusive!vars, Writer, Issued, Accepted, Finished

\* The holder of a running step, or of one whose provider waits, can write: a
\* job with a running step is not waiting.
LEMMA HolderWrites ==
    ASSUME IInv, NEW s \in StepId, NEW n \in AttemptNo, Active(s, n),
           \/ step[s].status = "running" /\ job.status \in {"running", "waiting_input"}
           \/ NativeWaiting(s)
    PROVE  CanWrite(s, n) /\ job.status # "completed"
  <1>1. CASE step[s].status = "running" /\ job.status \in {"running", "waiting_input"}
    <2>1. job.status # "waiting_input"
      BY <1>1, ActiveFacts, OneAtWork, ZenonT(30) DEF IInv, Agrees
    <2> QED
      BY <1>1, <2>1, Zenon DEF CanWrite
  <1>2. CASE NativeWaiting(s)
    BY <1>2, Zenon DEF CanWrite, NativeWaiting
  <1> QED
    BY <1>1, <1>2, Zenon

\* CompleteStep: the writer finishes the job.
LEMMA CompleteMaps ==
    ASSUME IInv, NEW s \in StepId, NEW n \in AttemptNo, CompleteStep(s, n) PROVE Maps
  <1>1. /\ Active(s, n) /\ step[s].status = "running" /\ job.status \in {"running", "waiting_input"}
        /\ CompleteCodingLedger
        /\ attempt' = [attempt EXCEPT ![s] = [attempt[s] EXCEPT ![n] = "completed"]]
    BY Zenon DEF CompleteStep
  <1>2. job'.status = "completed"
    BY CompleteHolds, Zenon
  <1>3. Writer # Nobody
    BY <1>1, HolderWrites, OneWriter, Zenon
  <1>4. Writer' = Nobody
    BY <1>2, NobodyWrites, NoWriterNext, Zenon
  <1>5. Issued' = Issued
    BY <1>1, ActiveFacts, OutcomeKept, Zenon
  <1>6. Accepted' = Accepted
    BY <1>1, AcceptedKept, Zenon DEF CompleteCodingLedger
  <1>7. Finished' = TRUE
    BY <1>2, Zenon DEF Finished
  <1> QED
    BY <1>3, <1>4, <1>5, <1>6, <1>7, Zenon
    DEF Maps, Exclusive!Next, Exclusive!Finish, Writer, Issued, Accepted, Finished

\* FailStep.
LEMMA FailMaps ==
    ASSUME IInv, NEW s \in StepId, NEW n \in AttemptNo, FailStep(s, n) PROVE Maps
  <1>1. /\ Active(s, n) /\ UNCHANGED ledgerVars /\ job' = [job EXCEPT !.status = "failed"]
        /\ \/ step[s].status = "running" /\ job.status \in {"running", "waiting_input"}
           \/ NativeWaiting(s)
        /\ attempt' = [attempt EXCEPT ![s] = [attempt[s] EXCEPT ![n] = "failed"]]
    BY Zenon DEF FailStep
  <1>2. CanWrite(s, n) /\ job.status # "completed" /\ job'.status = "failed"
    BY <1>1, HolderWrites, Zenon DEF IInv, TypeOK
  <1>3. \A r \in StepId, m \in AttemptNo : ~CanWrite(r, m)'
    BY <1>2, NobodyWrites, Zenon
  <1>4. Issued' = Issued
    BY <1>1, ActiveFacts, OutcomeKept, Zenon
  <1>5. Accepted' = Accepted /\ Finished' = Finished
    BY <1>1, <1>2, AcceptedKept, Zenon DEF ledgerVars, Finished
  <1> QED
    BY <1>2, <1>3, <1>4, <1>5, Loses, Zenon

\* FreezeAndStartCodingLedger: carried over work was accepted before.
LEMMA FreezeMaps ==
    ASSUME IInv, NEW s \in StepId, FreezeAndStart(s) PROVE Maps
  <1>1. /\ Current(s) /\ step[s].status = "waiting_input" /\ job.status = "waiting_input"
        /\ FreezeCodingLedger(ledger.revision) /\ attempt' = attempt
        /\ step' = [step EXCEPT ![s] = [step[s] EXCEPT !.status = "completed"]]
        /\ job' = [job EXCEPT !.status = "running"]
    BY Zenon DEF FreezeAndStart
  <1>2. job'.status = "running" /\ ~Finished /\ ~Finished'
    BY <1>1, Zenon DEF Finished, IInv, TypeOK
  <1>3. step'[s].status = "completed" /\ \A r \in StepId \ {s} : step'[r] = step[r]
    <2>1. step'[s] = [step[s] EXCEPT !.status = "completed"]
          /\ \A r \in StepId \ {s} : step'[r] = step[r]
      BY <1>1, Zenon DEF IInv, TypeOK
    <2> QED
      BY <2>1, RowFacts, Zenon DEF Step
  <1>4. InForce(step[s])
    BY <1>1, Zenon DEF Current, Live, InForce
  <1>5. \A r \in StepId, m \in AttemptNo : ~CanWrite(r, m)'
    BY <1>1, <1>2, <1>3, <1>4, OneAtWork, NobodyWrites, ZenonT(30)
  <1>6. Issued' = Issued
    BY <1>1, IssuedKept, Zenon
  <1>7. Accepted' \subseteq Accepted
    BY <1>1, Zenon DEF FreezeCodingLedger, FrozenRow, Accepted
  <1> QED
    BY <1>2, <1>5, <1>6, <1>7, Reapproves, Zenon

\* CancelJob.
LEMMA CancelMaps ==
    ASSUME IInv, CancelJob PROVE Maps
  <1>1. /\ job.status \in Open /\ CancelCodingAuthority /\ attempt' = Revoked("canceled")
        /\ job' = [job EXCEPT !.status = "canceled"]
    BY Zenon DEF CancelJob, NotTerminal
  <1>2. job'.status = "canceled" /\ ~Finished /\ ~Finished'
    BY <1>1 DEF Finished, Open, IInv, TypeOK
  <1>3. \A r \in StepId, m \in AttemptNo : ~CanWrite(r, m)'
    BY <1>2, NobodyWrites, Zenon
  <1>4. Issued' = Issued
    BY <1>1, RevokedKept, Zenon
  <1>5. Accepted' \subseteq Accepted
    BY <1>1, Zenon DEF CancelCodingAuthority, CancelledRow, Accepted
  <1> QED
    BY <1>2, <1>3, <1>4, <1>5, Reapproves, Zenon

\* A new generation: its steps have no worker yet.
LEMMA GenerationMaps ==
    ASSUME IInv, job.status \in Open, NEW v, NEW j \in {"running", "waiting_input"},
           StartGeneration(v, j)
    PROVE  Maps
  <1>1. PICK p \in StepId :
            step' = [s \in StepId |->
                IF s = p THEN NewStep("v3_coding_plan", job.generation + 1, v)
                ELSE IF s = p + 1 THEN NewStep("v3_coding", job.generation + 1, "pending")
                ELSE IF Live(s) THEN RetiredStep(s) ELSE step[s]]
    BY Zenon DEF StartGeneration
  <1>2. /\ attempt' = Revoked("superseded") /\ tasks' = tasks
        /\ job' = [status |-> j, generation |-> job.generation + 1]
    BY DEF StartGeneration, SupersedeCodingAuthority
  <1>3. ~Finished /\ ~Finished'
    BY <1>2, Zenon DEF Finished, Open
  <1>4. \A s \in StepId : InForce(step'[s]) => step'[s].worker = FALSE
    <2> SUFFICES ASSUME NEW s \in StepId PROVE InForce(step'[s]) => step'[s].worker = FALSE
      BY Zenon
    <2>1. CASE s = p \/ s = p + 1
      BY <1>1, <2>1, Zenon DEF NewStep
    <2>2. CASE s # p /\ s # p + 1 /\ Live(s)
      <3>1. step'[s] = RetiredStep(s) /\ step[s] \in Step
        BY <1>1, <2>2, RowFacts, Zenon
      <3>2. job.generation + 1 # 0
        BY LifecycleBoundsAssumption DEF IInv, TypeOK
      <3>3. step'[s].superseded = job.generation + 1
        BY <3>1, Zenon DEF RetiredStep, Step
      <3> QED
        BY <3>2, <3>3, Zenon DEF InForce
    <2>3. CASE s # p /\ s # p + 1 /\ ~Live(s)
      BY <1>1, <2>3, Zenon DEF Live, InForce
    <2> QED
      BY <2>1, <2>2, <2>3, Zenon
  <1>5. \A r \in StepId, m \in AttemptNo : ~CanWrite(r, m)'
    BY <1>4, NobodyWrites, Zenon
  <1>6. Issued' = Issued /\ Accepted' = Accepted
    BY <1>2, RevokedKept, AcceptedKept, Zenon
  <1> QED
    BY <1>3, <1>5, <1>6, Reapproves, Zenon

\* PauseJob.
LEMMA PauseMaps ==
    ASSUME IInv, NEW s \in StepId, PauseJob(s) PROVE Maps
  <1>1. /\ job.status \in {"pending", "running"} /\ UNCHANGED ledgerVars
        /\ attempt' = [attempt EXCEPT ![s] = [n \in AttemptNo |->
              IF n = step[s].attempt /\ attempt[s][n] = "active" THEN "waiting_input"
              ELSE attempt[s][n]]]
        /\ step' = [step EXCEPT ![s] = [step[s] EXCEPT !.status = "waiting_input", !.worker = FALSE]]
        /\ job' = [job EXCEPT !.status = "waiting_input"]
    BY Zenon DEF PauseJob
  <1>2. job'.status = "waiting_input" /\ ~Finished /\ ~Finished'
    BY <1>1 DEF Finished, IInv, TypeOK
  <1>3. step'[s].worker = FALSE /\ \A r \in StepId \ {s} : step'[r] = step[r]
    <2>1. step'[s] = [step[s] EXCEPT !.status = "waiting_input", !.worker = FALSE]
          /\ \A r \in StepId \ {s} : step'[r] = step[r]
      BY <1>1, Zenon DEF IInv, TypeOK
    <2> QED
      BY <2>1, RowFacts, Zenon DEF Step
  <1>4. \A r \in StepId : InForce(step[r]) => step[r].status # "waiting_input"
    BY <1>1, Zenon DEF IInv, Agrees
  <1>5. \A r \in StepId, m \in AttemptNo : ~CanWrite(r, m)'
    BY <1>2, <1>3, <1>4, NobodyWrites, Zenon
  <1>6. Issued' = Issued
    <2>1. \A r \in StepId, n \in AttemptNo : attempt'[r][n] = "none" <=> attempt[r][n] = "none"
      BY <1>1, Zenon DEF IInv, TypeOK
    <2> QED
      BY <2>1, IssuedKept, Zenon
  <1>7. Accepted' = Accepted
    BY <1>1, AcceptedKept DEF ledgerVars
  <1> QED
    BY <1>2, <1>5, <1>6, <1>7, Reapproves, Zenon

\* ResumeJob and SubmitJobFeedback let a provider that is still there go on, and
\* give nobody back an authority they lost.
LEMMA TakenUpMaps ==
    ASSUME IInv, NEW s \in StepId, InForce(step[s]), step[s].status = "waiting_input",
           job.status = "waiting_input",
           NEW v \in {"pending", "running"}, NEW b \in BOOLEAN,
           step' = [step EXCEPT ![s] = [step[s] EXCEPT !.status = v, !.worker = b]],
           job' = [job EXCEPT !.status = "running"],
           UNCHANGED <<ledgerVars, attempt, expired>>,
           v = "pending" => step[s].attempt = 0,
           v = "running" => b = TRUE
    PROVE  Maps
  <1>1. /\ step'[s].status = v /\ step'[s].worker = b /\ step'[s].attempt = step[s].attempt
        /\ step'[s].superseded = step[s].superseded /\ step'[s].generation = step[s].generation
        /\ \A r \in StepId \ {s} : step'[r] = step[r]
    <2> DEFINE x == [step[s] EXCEPT !.status = v, !.worker = b]
    <2>1. step'[s] = x /\ \A r \in StepId \ {s} : step'[r] = step[r]
      BY Zenon DEF IInv, TypeOK
    <2>2. step[s] \in Step /\ v \in Open \cup Terminal
      BY RowFacts DEF Open
    <2>3. SameStep(step[s], x) /\ x.status = v /\ x.worker = b /\ x.attempt = step[s].attempt
      BY <2>2, Zenon DEF Step, SameStep
    <2> HIDE DEF x
    <2> QED
      BY <2>1, <2>3, Zenon DEF SameStep
  <1>2. job'.status = "running" /\ job'.generation = job.generation
    BY Zenon DEF IInv, TypeOK
  <1>3. Row(step[s], attempt[s], input[s])
    BY RowFacts
  <1>4. ASSUME NEW n \in AttemptNo PROVE CanWrite(s, n)' <=> CanWrite(s, n)
    <2>1. CanWrite(s, n) <=> Active(s, n)
      BY <1>3, Zenon DEF CanWrite, NativeWaiting, Row, Active, Authority
    <2>2. CanWrite(s, n)' <=> Active(s, n)'
      BY <1>1, <1>2 DEF CanWrite, NativeWaiting, Active, Authority
    <2>3. attempt[s][step[s].attempt] = "active" => step[s].worker = TRUE
      BY <1>3, Zenon DEF Row
    <2>4. Active(s, n)' <=> Active(s, n)
      BY <1>1, <1>2, <2>3 DEF Active, Authority, Current, Live
    <2> QED
      BY <2>1, <2>2, <2>4, Zenon
  <1>5. ASSUME NEW r \in StepId \ {s}, NEW n \in AttemptNo
        PROVE  ~CanWrite(r, n) /\ ~CanWrite(r, n)'
    <2>1. InForce(step[r]) => step[r].status \notin {"running", "waiting_input"}
      BY OneAtWork, Zenon
    <2> QED
      BY <1>1, <2>1, Zenon DEF CanWrite, NativeWaiting, Active, Authority, Current, Live, InForce
  <1>6. \A r \in StepId, n \in AttemptNo : CanWrite(r, n)' <=> CanWrite(r, n)
    BY <1>4, <1>5
  <1>7. Issued' = Issued /\ Accepted' = Accepted /\ Finished' = Finished
    BY <1>2, Zenon DEF Issued, Accepted, Finished, ledgerVars
  <1> QED
    BY <1>6, <1>7, Unseen, Zenon

\* Both replies and resumptions of a paused step.
LEMMA ContinueMaps ==
    ASSUME IInv, NEW s \in StepId, ResumePaused(s) \/ ReplyToInput(s) PROVE Maps
  <1> DEFINE b == step[s].attempt > 0
             v == IF step[s].attempt = 0 THEN "pending" ELSE "running"
  <1>1. CASE ResumePaused(s)
    <2>1. /\ step' = [step EXCEPT ![s] = [step[s] EXCEPT !.status = v, !.worker = b]]
          /\ job' = [job EXCEPT !.status = "running"] /\ job.status = "waiting_input"
          /\ UNCHANGED <<ledgerVars, attempt, expired>> /\ Recoverable(s)
      BY <1>1, Zenon DEF ResumePaused
    <2>2. InForce(step[s]) /\ step[s].status = "waiting_input"
      BY <2>1 DEF Recoverable, Current, Live, InForce
    <2>3. step[s].attempt \in Nat
      BY RowFacts, Numbers, Zenon
    <2>4. /\ v \in {"pending", "running"} /\ b \in BOOLEAN
          /\ v = "pending" => step[s].attempt = 0
          /\ v = "running" => b = TRUE
      BY <2>3
    <2> HIDE DEF v, b
    <2> QED
      BY <2>1, <2>2, <2>4, TakenUpMaps, Zenon
  <1>2. CASE ReplyToInput(s)
    <2>1. /\ step' = [step EXCEPT ![s] = [step[s] EXCEPT !.status = "running", !.worker = b]]
          /\ job' = [job EXCEPT !.status = "running"] /\ Repliable(s)
          /\ UNCHANGED <<ledgerVars, attempt, expired>>
      BY <1>2, Zenon DEF ReplyToInput
    <2>2. InForce(step[s]) /\ step[s].status = "waiting_input" /\ job.status = "waiting_input"
          /\ input[s].kind # "none"
      BY <2>1 DEF Repliable, Current, Live, InForce
    <2>3. b = TRUE
      BY <2>2, RowFacts, Zenon DEF Row
    <2> HIDE DEF b
    <2> QED
      BY <2>1, <2>2, <2>3, TakenUpMaps, Zenon
  <1> QED
    BY <1>1, <1>2, Zenon

\* ResumeJob after a failure: nobody could write, and the fresh step is unclaimed.
LEMMA ResumeFailedMaps ==
    ASSUME IInv, NEW s \in StepId, ResumeFailed(s) PROVE Maps
  <1>1. PICK p \in StepId : step' = [step EXCEPT ![p] = NewStep("v3_coding", job.generation, "pending")]
    BY Zenon DEF ResumeFailed
  <1>2. /\ job.status = "failed" /\ job' = [job EXCEPT !.status = "running"] /\ Recoverable(s)
        /\ UNCHANGED <<ledgerVars, attempt>>
    BY DEF ResumeFailed
  <1>3. job'.status = "running" /\ Finished' = Finished
    BY <1>2 DEF IInv, TypeOK, Finished
  <1>4. /\ step'[p].status = "pending" /\ \A r \in StepId \ {p} : step'[r] = step[r]
    BY <1>1, Zenon DEF IInv, TypeOK, NewStep
  <1>5. \A r \in StepId : InForce(step[r]) => step[r].status # "running"
    <2>1. \A r \in StepId : InForce(step[r]) => Planning(step[r]) \/ Coding(step[r])
      BY RowFacts, ZenonT(30) DEF Planning, Coding
    <2>2. ledger.state = "frozen"
      BY <1>2, Zenon DEF Recoverable
    <2> QED
      BY <1>2, <2>1, <2>2, Zenon DEF IInv, Agrees, PlanFirst
  <1>6. \A r \in StepId, m \in AttemptNo : ~CanWrite(r, m)'
    BY <1>3, <1>4, <1>5, NobodyWrites, Zenon
  <1>7. \A r \in StepId, m \in AttemptNo : ~CanWrite(r, m)
    BY <1>2, Zenon DEF CanWrite, NativeWaiting
  <1>8. Issued' = Issued /\ Accepted' = Accepted
    BY <1>2, IssuedKept, AcceptedKept DEF ledgerVars
  <1> QED
    BY <1>3, <1>6, <1>7, <1>8, Unseen, Zenon

\* Every operation of the queue is a step of exclusive execution or none.
LEMMA NextMaps == IInv /\ IInv' /\ [Next]_vars => Maps
  <1> SUFFICES ASSUME IInv, IInv', [Next]_vars PROVE Maps
    BY Zenon
  <1>1. CASE \E s \in StepId : ClaimNextStep(s) \/ LeaseExpires(s)
    BY <1>1, ClaimMaps, LeaseExpiresMaps
  <1>2. CASE WorkerStep
    <2>1. PICK s \in StepId, n \in AttemptNo :
              \/ \E kind \in {"none", "question", "incomplete"} : Respond(s, n, kind)
              \/ \E t \in Task, accepted \in BOOLEAN : Review(s, n, t, accepted)
              \/ \E t \in Task : AcceptCodingLedgerTask(s, n, t)
              \/ WaitForCodingExecutionInput(s, n) \/ MarkCodingLedgerReviewReady(s, n)
              \/ WaitForCodingNativeInput(s, n)
              \/ CompleteStep(s, n)
              \/ FailStep(s, n)
              \/ ResolveMessage(s, n)
      BY <1>2, Zenon DEF WorkerStep
    <2> QED
      BY <2>1, QuietOperationsMap, AcceptMaps, WaitMaps, NativeMaps, CompleteMaps, FailMaps, Zenon
  <1>3. 1 \in StepId /\ 0 \in AttemptNo
    BY LifecycleBoundsAssumption DEF StepId, AttemptNo
  <1>4. CASE PlanStep
    BY <1>3, <1>4, QuietOperationsMap, FreezeMaps, Zenon DEF PlanStep
  <1>5. CASE OwnerStep
    <2>1. CASE AdmitMessage
      BY <1>3, <2>1, QuietOperationsMap, Zenon
    <2>2. CASE ReplanJob \/ InterruptPlanning
      BY <2>2, GenerationMaps, Zenon DEF ReplanJob, InterruptPlanning, NotTerminal, Open
    <2>3. CASE \E s \in StepId : ReplyToIncomplete(s)
      BY <2>3, GenerationMaps, Zenon DEF ReplyToIncomplete, Repliable, Open
    <2> QED
      BY <1>5, <2>1, <2>2, <2>3, CancelMaps, PauseMaps, ContinueMaps, ResumeFailedMaps, Zenon
      DEF OwnerStep
  <1>6. CASE UNCHANGED vars
    <2>1. UNCHANGED <<job, step, attempt, expired, input, tasks>>
      BY <1>6, Zenon DEF vars, jobVars, ledgerVars
    <2> QED
      BY <2>1, QuietMaps, AcceptedKept, Unseen, Zenon
  <1> QED
    BY <1>1, <1>2, <1>4, <1>5, <1>6, Zenon DEF Next

\* A job that was just created has no writer, no attempt and no accepted task.
LEMMA InitMaps == Init => Exclusive!Init
  <1> SUFFICES ASSUME Init PROVE Exclusive!Init
    OBVIOUS
  <1>1. \A s \in StepId, n \in AttemptNo : ~CanWrite(s, n)
    BY Zenon DEF Init, CanWrite, NativeWaiting
  <1>2. Writer = Nobody /\ Issued = {} /\ Accepted = {} /\ Finished = FALSE
    BY <1>1, NoWriter, Zenon DEF Init, LedgerInit, Issued, Accepted, Finished
  <1> QED
    BY <1>2, Zenon DEF Exclusive!Init, Writer, Issued, Accepted, Finished

\* Attempts implement exclusive execution, for any number of workers, steps and
\* attempts: one writer at a time, authorities that are issued once and never
\* revived, tasks accepted and the job finished by the writer alone.
THEOREM AttemptsAreExclusive == Spec => ExclusiveSpec
  <1>1. IInv /\ IInv' /\ [Next]_vars => [Exclusive!Next]_Exclusive!vars
    BY NextMaps, Zenon DEF Maps
  <1> QED
    BY <1>1, InitMaps, Invariance, PTL DEF Spec, ExclusiveSpec, Exclusive!Spec

=============================================================================
