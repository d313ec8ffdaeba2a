---------------------------- MODULE AttemptLease ----------------------------
(***************************************************************************)
(* The lease on the attempt of one step, in time: ClaimNextStep and        *)
(* RenewStepAttempt of the repository, and the worker that executes the    *)
(* step between them (internal/worker/step_runner.go and                   *)
(* step_attempt_heartbeat.go).  The repository refuses every write of a    *)
(* worker whose lease is over, but a worker also edits files and runs      *)
(* tools, which no database guards.  For those it must stop by itself,     *)
(* before somebody else can claim the step.                                *)
(*                                                                         *)
(* All clocks run at the same rate but share no origin, so deadlines are   *)
(* kept as the time that is left.  Statements take time: the database      *)
(* executes a request at some moment after the worker sent it, and the     *)
(* worker sees the answer still later, if at all.                          *)
(***************************************************************************)
EXTENDS Integers

CONSTANTS
    Worker,         \* worker processes
    Nobody,         \* no worker
    Lease,          \* validity of an attempt: 75 s
    RenewInterval,  \* stepAttemptRenewInterval: 25 s
    Margin,         \* stepAttemptExpirySafetyMargin: 5 s
    Slack,          \* a due timer stops the work at most this late
    Delay           \* bound on the age of a request the database executes

ASSUME LeaseAssumption ==
    /\ Nobody \notin Worker
    /\ {Lease, RenewInterval, Margin, Slack, Delay} \subseteq Nat
    /\ Slack < Margin

VARIABLES
    row,      \* the step: its status and what is left of the lease
    holder,   \* the worker the current attempt was issued to, if it is active
    revoked,  \* workers whose last attempt the owner ended
    local     \* what each worker knows and does

vars == <<row, holder, revoked, local>>

\* open: to be claimed; active: under an attempt; done: nothing left to claim.
Row == [status : {"open", "active", "done"}, left : Int]

\* claiming: in ClaimNextStep; granted: the claim is committed, the answer is on
\* its way; working: in processStep.  deadline is what is left of the lease
\* according to an answer on its way, never more than a whole one; fence and
\* renew are what is left of the timers.
Local == [phase : {"idle", "claiming", "granted", "working"},
          renewal : {"none", "sent", "answered", "refused"},
          age : Nat, deadline : {n \in Int : n <= Lease}, fence : Int, renew : Int]

TypeOK ==
    /\ row \in Row
    /\ holder \in Worker \cup {Nobody}
    /\ revoked \in SUBSET Worker
    /\ local \in [Worker -> Local]

Idle == [phase |-> "idle", renewal |-> "none",
         age |-> 0, deadline |-> 0, fence |-> 0, renew |-> 0]

Init ==
    /\ row = [status |-> "open", left |-> 0]
    /\ holder = Nobody
    /\ revoked = {}
    /\ local = [w \in Worker |-> Idle]

Working(w) == local[w].phase = "working"

\* requireActiveStepAttemptTx: the attempt of w is the active one, not expired.
Active(w) == holder = w /\ row.left > 0

Become(w, l) == local' = [local EXCEPT ![w] = l]

-----------------------------------------------------------------------------
(* Claims. *)

\* ClaimNextStep reads the clock of the database: databaseNow.
BeginClaim(w) ==
    /\ local[w].phase = "idle"
    /\ Become(w, [Idle EXCEPT !.phase = "claiming"])
    /\ UNCHANGED <<row, holder, revoked>>

\* Mutant of Claimable: steps under an attempt are left alone.
ClaimableOnce(age) == row.status = "open"

\* expires_at <= databaseNow.
Claimable(age) ==
    row.status = "open" \/ (row.status = "active" /\ row.left + age <= 0)

\* What the worker believes is left of a lease when the statement that returned
\* it was sent lag ago: time is counted from leaseMeasurementStarted.
Measured(left, lag) == left - lag

\* The INSERT and the COMMIT of a claim, or no candidate.
ServeClaim(w) ==
    /\ local[w].phase = "claiming"
    /\ \/ /\ Claimable(local[w].age)
          /\ row' = [status |-> "active", left |-> Lease - local[w].age]
          /\ holder' = w
          /\ revoked' = revoked \ {w}
          /\ \E lag \in 0..local[w].age :
                Become(w, [Idle EXCEPT !.phase = "granted",
                                       !.deadline = Measured(Lease - local[w].age, lag)])
       \/ /\ ~Claimable(local[w].age)
          /\ Become(w, Idle)
          /\ UNCHANGED <<row, holder, revoked>>

\* Mutant of FenceDuration: no safety margin.
FenceAtDeadline(deadline) == deadline

\* stepAttemptFenceDuration and stepAttemptRenewDelay.
FenceDuration(deadline) == deadline - Margin

RenewDelay(fence) == IF fence \div 2 < RenewInterval THEN fence \div 2 ELSE RenewInterval

\* The worker at work under a lease it was just told of; none when too little
\* of the lease is left.
Fenced(deadline) ==
    IF deadline <= Margin THEN Idle
    ELSE [phase |-> "working", renewal |-> "none", age |-> 0, deadline |-> 0,
          fence |-> FenceDuration(deadline), renew |-> RenewDelay(FenceDuration(deadline))]

DeliverClaim(w) ==
    /\ local[w].phase = "granted"
    /\ Become(w, Fenced(local[w].deadline))
    /\ UNCHANGED <<row, holder, revoked>>

\* The transaction fails, or the worker dies before it has the answer.
LoseClaim(w) ==
    /\ local[w].phase \in {"claiming", "granted"}
    /\ Become(w, Idle)
    /\ UNCHANGED <<row, holder, revoked>>

-----------------------------------------------------------------------------
(* Renewals. *)

BeginRenew(w) ==
    /\ Working(w) /\ local[w].renewal = "none"
    /\ local[w].renew <= 0
    /\ Become(w, [local[w] EXCEPT !.renewal = "sent", !.age = 0])
    /\ UNCHANGED <<row, holder, revoked>>

\* Mutant of Renewable: some attempt is active, whoever holds it.
RenewableByAnyone(w) == row.status = "active" /\ row.left > 0

\* The WHERE clause of RenewStepAttempt.
Renewable(w) == Active(w)

\* RenewStepAttempt in the database.  A request that was sent is executed even
\* if the worker has stopped since.
ServeRenew(w) ==
    /\ local[w].renewal = "sent"
    /\ row' = IF Renewable(w) THEN [row EXCEPT !.left = Lease] ELSE row
    /\ \E lag \in 0..local[w].age :
          Become(w, IF ~Working(w) THEN Idle
                    ELSE IF Renewable(w)
                    THEN [local[w] EXCEPT !.renewal = "answered", !.age = 0,
                                          !.deadline = Measured(Lease, lag)]
                    ELSE [local[w] EXCEPT !.renewal = "refused", !.age = 0])
    /\ UNCHANGED <<holder, revoked>>

DeliverRenew(w) ==
    /\ Working(w)
    /\ \/ local[w].renewal = "answered" /\ Become(w, Fenced(local[w].deadline))
       \/ local[w].renewal = "refused" /\ Become(w, Idle)
    /\ UNCHANGED <<row, holder, revoked>>

-----------------------------------------------------------------------------
(* Ends of the work. *)

\* The worker stops; a renewal that is under way can no longer be called back.
Stop(w) ==
    Become(w, IF local[w].renewal = "sent"
              THEN [Idle EXCEPT !.renewal = "sent", !.age = local[w].age] ELSE Idle)

\* The timer of the fence cancels the work.
Fence(w) ==
    /\ Working(w) /\ local[w].fence <= 0
    /\ Stop(w)
    /\ UNCHANGED <<row, holder, revoked>>

\* watchStepControl finds that the attempt is no longer the active one.
Poll(w) ==
    /\ Working(w) /\ ~Active(w)
    /\ Stop(w)
    /\ UNCHANGED <<row, holder, revoked>>

\* The worker crashes, loses an answer to a renewal, or leaves a retryable
\* failure to the expiry of the lease.
GiveUp(w) ==
    /\ Working(w)
    /\ Stop(w)
    /\ UNCHANGED <<row, holder, revoked>>

\* CompleteStep and FailStep leave nothing to claim; a wait ends in a step that
\* is to be claimed again.
Finish(w) ==
    /\ Working(w) /\ Active(w)
    /\ \E status \in {"open", "done"} : row' = [status |-> status, left |-> 0]
    /\ holder' = Nobody
    /\ Stop(w)
    /\ UNCHANGED revoked

\* The owner pauses, interrupts or replans; the successor of the step is open.
Revoke ==
    /\ row.status = "active"
    /\ row' = [status |-> "open", left |-> 0]
    /\ revoked' = revoked \cup {holder}
    /\ holder' = Nobody
    /\ UNCHANGED local

-----------------------------------------------------------------------------
(* Time. *)

Down(n, low) == IF n <= low THEN n ELSE n - 1

Aged(l) ==
    [l EXCEPT !.age = IF l.phase = "claiming" \/ l.renewal = "sent" THEN l.age + 1 ELSE l.age,
              !.deadline = Down(l.deadline, 0),
              !.fence = IF l.phase = "working" THEN l.fence - 1 ELSE l.fence,
              !.renew = Down(l.renew, 0)]

\* Timers fire in time and the database keeps to its bound.
Timely(l) ==
    /\ l.phase = "working" => l.fence > -Slack
    /\ l.phase = "claiming" \/ l.renewal = "sent" => l.age < Delay

Tick ==
    /\ \A w \in Worker : Timely(local[w])
    /\ row' = [row EXCEPT !.left = IF row.status = "active" THEN Down(row.left, -Delay) ELSE 0]
    /\ local' = [w \in Worker |-> Aged(local[w])]
    /\ UNCHANGED <<holder, revoked>>

Next ==
    \/ \E w \in Worker :
        \/ BeginClaim(w) \/ ServeClaim(w) \/ DeliverClaim(w) \/ LoseClaim(w)
        \/ BeginRenew(w) \/ ServeRenew(w) \/ DeliverRenew(w)
        \/ Fence(w) \/ Poll(w) \/ GiveUp(w) \/ Finish(w)
    \/ Revoke
    \/ Tick

Spec == Init /\ [][Next]_vars

\* Time passes, timers fire, sent requests are executed, a free worker polls for
\* work, and a worker that keeps asking is at last not disturbed.
Fairness ==
    /\ WF_vars(Tick)
    /\ \A w \in Worker :
        /\ WF_vars(BeginClaim(w))
        /\ SF_vars(ServeClaim(w) /\ Claimable(local[w].age))
        /\ WF_vars(ServeClaim(w))
        /\ WF_vars(ServeRenew(w))
        /\ WF_vars(DeliverClaim(w))
        /\ WF_vars(Fence(w))

FairSpec == Spec /\ Fairness

-----------------------------------------------------------------------------
(* Properties. *)

\* A worker at work holds the step, with the lease still running, unless the
\* owner took it away: nobody claims a step while an earlier holder is still
\* editing files, however late claims, renewals and timers are.
ExecutionIsLeased ==
    \A w \in Worker : Working(w) /\ w \notin revoked => Active(w)

\* The time worker w may still work without talking to the database again.
Allowance(w) ==
    IF local[w].renewal = "answered" /\ FenceDuration(local[w].deadline) > local[w].fence
    THEN FenceDuration(local[w].deadline) ELSE local[w].fence

\* A worker that lost the step gets no more time, so that it stops within one
\* lease even if it cannot poll: renewals are for the holder only.
LostWorkRunsOut ==
    [][\A w \in Worker :
         Working(w) /\ holder # w /\ local'[w].phase = "working"
           => Allowance(w)' <= Allowance(w)]_vars

\* A step whose worker is gone is handed on, whether the worker crashed, its
\* claim was lost on the way, or it left the step to the expiry of the lease.
Orphaned ==
    row.status = "active" /\ local[holder].phase \in {"idle", "claiming"}

LostStepIsHandedOn == Orphaned ~> ~Orphaned

=============================================================================
