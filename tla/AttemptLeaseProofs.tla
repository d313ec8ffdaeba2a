------------------------- MODULE AttemptLeaseProofs -------------------------
(***************************************************************************)
(* The fence keeps executions apart for every lease, margin, interval and  *)
(* number of workers, as long as timers are late by less than the margin.  *)
(*                                                                         *)
(* The invariant compares the two clocks: whatever the holder believes is  *)
(* left, in an answer on its way or in its fence, is left in the database, *)
(* and a worker with time left according to its own clock is the holder    *)
(* unless the owner revoked its attempt.                                   *)
(***************************************************************************)
EXTENDS AttemptLease, TLAPS

\* A holder exists exactly while an attempt is active.
HolderIsActive == holder # Nobody <=> row.status = "active"

\* What worker w believes is true in the database.
BeliefIsTrue ==
    \A w \in Worker : holder = w =>
        /\ local[w].phase = "granted" /\ local[w].deadline > 0 => row.left >= local[w].deadline
        /\ local[w].renewal = "answered" /\ local[w].deadline > 0 => row.left >= local[w].deadline
        /\ Working(w) => row.left >= local[w].fence + Margin

\* Only revocation separates a worker with time left from its step.
OnlyRevoked ==
    \A w \in Worker : w \notin revoked =>
        /\ Working(w) => holder = w
        /\ local[w].phase = "granted" /\ local[w].deadline > 0 => holder = w

\* A fence is never beyond the lease and never overdue by more than Slack.
FenceInRange ==
    \A w \in Worker : Working(w) => -Slack <= local[w].fence /\ local[w].fence + Margin <= Lease

IInv == TypeOK /\ HolderIsActive /\ BeliefIsTrue /\ OnlyRevoked /\ FenceInRange

\* An idle worker and a worker that just got a lease have their types.
LEMMA LocalTypes ==
    /\ Idle \in Local
    /\ \A d \in {n \in Int : n <= Lease} : Fenced(d) \in Local
    /\ \A l \in Local : Aged(l) \in Local
<1>1. Idle \in Local
  BY LeaseAssumption DEF Idle, Local
<1>2. ASSUME NEW d \in {n \in Int : n <= Lease} PROVE Fenced(d) \in Local
  <2>1. FenceDuration(d) \in Int /\ RenewDelay(FenceDuration(d)) \in Int
    BY LeaseAssumption DEF FenceDuration, RenewDelay
  <2>2. 0 \in {n \in Int : n <= Lease}
    BY LeaseAssumption
  <2>3. CASE d <= Margin
    BY <1>1, <2>3 DEF Fenced
  <2>4. CASE ~(d <= Margin)
    BY <2>1, <2>2, <2>4 DEF Fenced, Local
  <2>. QED
    BY <2>3, <2>4
<1>3. ASSUME NEW l \in Local PROVE Aged(l) \in Local
  <2>1. l.age + 1 \in Nat /\ l.fence - 1 \in Int
    BY DEF Local
  <2>2. Down(l.deadline, 0) \in {n \in Int : n <= Lease} /\ Down(l.renew, 0) \in Int
    BY LeaseAssumption DEF Down, Local
  <2>. DEFINE a == IF l.phase = "claiming" \/ l.renewal = "sent" THEN l.age + 1 ELSE l.age
              f == IF l.phase = "working" THEN l.fence - 1 ELSE l.fence
              d == Down(l.deadline, 0)
              r == Down(l.renew, 0)
  <2>3. a \in Nat /\ f \in Int
    BY <2>1 DEF Local
  <2>4. Aged(l) = [l EXCEPT !.age = a, !.deadline = d, !.fence = f, !.renew = r]
    BY DEF Aged
  <2>. HIDE DEF a, f, d, r
  <2>5. d \in {n \in Int : n <= Lease} /\ r \in Int
    BY <2>2 DEF d, r
  <2>. QED
    BY <2>3, <2>4, <2>5, Zenon DEF Local
<1>. QED
  BY <1>1, <1>2, <1>3

\* What Fenced gives.
LEMMA FencedValue ==
    ASSUME NEW d \in {n \in Int : n <= Lease}
    PROVE  /\ Fenced(d).phase \in {"idle", "working"} /\ Fenced(d).renewal = "none"
           /\ Fenced(d).phase = "working" => d > Margin /\ Fenced(d).fence = d - Margin
<1>1. CASE d <= Margin
  BY <1>1 DEF Fenced, Idle
<1>2. CASE ~(d <= Margin)
  <2>1. d > Margin
    BY <1>2, LeaseAssumption
  <2>. QED
    BY <1>2, <2>1 DEF Fenced, FenceDuration
<1>. QED
  BY <1>1, <1>2

\* The initial state satisfies the invariant.
LEMMA InitInvariant == Init => IInv
BY LocalTypes, LeaseAssumption
   DEF Init, IInv, TypeOK, Row, HolderIsActive, BeliefIsTrue, OnlyRevoked, FenceInRange, Working, Idle

\* A step that changes one worker, who then believes and holds no more than
\* before, keeps the invariant.
LEMMA OneWorker ==
    ASSUME IInv, NEW w \in Worker, NEW l \in Local, Become(w, l),
           UNCHANGED <<row, holder, revoked>>,
           l.phase = "granted" => /\ l.deadline > 0 => holder = w \/ w \in revoked
                                  /\ l.deadline > 0 /\ holder = w => row.left >= l.deadline,
           l.renewal = "answered" /\ l.deadline > 0 /\ holder = w => row.left >= l.deadline,
           l.phase = "working" => /\ holder = w \/ w \in revoked
                                  /\ holder = w => row.left >= l.fence + Margin
                                  /\ -Slack <= l.fence /\ l.fence + Margin <= Lease
    PROVE  IInv'
<1>1. local'[w] = l /\ \A v \in Worker \ {w} : local'[v] = local[v]
  BY DEF Become, IInv, TypeOK
<1>2. TypeOK'
  BY DEF Become, IInv, TypeOK
<1>. QED
  BY <1>1, <1>2 DEF IInv, HolderIsActive, BeliefIsTrue, OnlyRevoked, FenceInRange, Working

\* Claims and the loss of claims keep the invariant.
LEMMA ClaimInvariant ==
    ASSUME IInv, NEW w \in Worker
    PROVE  BeginClaim(w) \/ ServeClaim(w) \/ DeliverClaim(w) \/ LoseClaim(w) => IInv'
<1>0. /\ Idle \in Local /\ Idle.phase = "idle" /\ Idle.renewal = "none"
      /\ local[w] \in Local
  BY LocalTypes DEF Idle, IInv, TypeOK
<1>1. ASSUME BeginClaim(w) PROVE IInv'
  <2>. DEFINE l == [Idle EXCEPT !.phase = "claiming"]
  <2>1. l \in Local /\ l.phase = "claiming" /\ l.renewal = "none"
    BY <1>0 DEF Local
  <2>2. Become(w, l)
    BY <1>1 DEF BeginClaim
  <2>. HIDE DEF l
  <2>. QED
    BY <1>1, <2>1, <2>2, OneWorker DEF BeginClaim
<1>2. ASSUME Become(w, Idle), UNCHANGED <<row, holder, revoked>> PROVE IInv'
  BY <1>0, <1>2, OneWorker
<1>3. ASSUME DeliverClaim(w) PROVE IInv'
  <2>. DEFINE d == local[w].deadline
              l == Fenced(d)
  <2>1. d \in {n \in Int : n <= Lease}
    BY <1>0 DEF Local
  <2>2. l \in Local
    BY <2>1, LocalTypes
  <2>3. /\ l.phase \in {"idle", "working"} /\ l.renewal = "none"
        /\ l.phase = "working" => d > Margin /\ l.fence = d - Margin
    BY <2>1, FencedValue
  <2>4. l.phase = "working" => /\ holder = w \/ w \in revoked
                               /\ holder = w => row.left >= l.fence + Margin
                               /\ -Slack <= l.fence /\ l.fence + Margin <= Lease
    <3>1. d > Margin => d > 0 /\ -Slack <= d - Margin /\ d - Margin + Margin = d
      BY <2>1, LeaseAssumption
    <3>2. d > 0 => (holder = w \/ w \in revoked) /\ (holder = w => row.left >= d)
      BY <1>3 DEF DeliverClaim, IInv, OnlyRevoked, BeliefIsTrue
    <3>. QED
      BY <2>1, <2>3, <3>1, <3>2
  <2>5. Become(w, l) /\ UNCHANGED <<row, holder, revoked>>
    BY <1>3 DEF DeliverClaim
  <2>. HIDE DEF l
  <2>. QED
    BY <2>2, <2>3, <2>4, <2>5, OneWorker
<1>4. ASSUME ServeClaim(w), Claimable(local[w].age) PROVE IInv'
  <2>. DEFINE a == local[w].age
  <2>1. a \in Nat
    BY <1>0 DEF Local
  <2>2. PICK lag \in 0..a :
            Become(w, [Idle EXCEPT !.phase = "granted", !.deadline = Measured(Lease - a, lag)])
    BY <1>4, Zenon DEF ServeClaim
  <2>. DEFINE d == Lease - a - lag
              l == [Idle EXCEPT !.phase = "granted", !.deadline = d]
  <2>3. d \in Int /\ d <= Lease /\ Lease - a >= d /\ Lease - a \in Int
    BY <2>1, LeaseAssumption
  <2>4. l \in Local /\ l.phase = "granted" /\ l.renewal = "none" /\ l.deadline = d
    BY <1>0, <2>3, Zenon DEF Local
  <2>5. /\ row' = [status |-> "active", left |-> Lease - a]
        /\ holder' = w /\ revoked' = revoked \ {w}
    BY <1>4, Zenon DEF ServeClaim
  <2>6. local' = [local EXCEPT ![w] = l]
    BY <2>2 DEF Become, Measured
  <2>. HIDE DEF l, d
  <2>7. local'[w] = l /\ \A v \in Worker \ {w} : local'[v] = local[v]
    BY <2>6 DEF IInv, TypeOK
  <2>8. row'.left = Lease - a /\ row'.status = "active"
    BY <2>5
  <2>9. TypeOK'
    BY <2>3, <2>4, <2>5, <2>6 DEF IInv, TypeOK, Row
  <2>10. ASSUME NEW v \in Worker \ {w}, v \notin revoked'
         PROVE  local[v].phase # "working" /\ ~(local[v].phase = "granted" /\ local[v].deadline > 0)
    <3>1. v \notin revoked /\ local[v] \in Local /\ row.left \in Int
      BY <2>5, <2>10 DEF IInv, TypeOK, Row
    <3>2. holder = v => row.status = "active" /\ row.left <= 0
      BY <1>4, <2>1, <3>1, LeaseAssumption DEF Claimable, IInv, HolderIsActive
    <3>3. holder = v /\ Working(v) => row.left > 0
      BY <3>1, LeaseAssumption DEF IInv, BeliefIsTrue, FenceInRange, Local
    <3>4. holder = v /\ local[v].phase = "granted" /\ local[v].deadline > 0 => row.left > 0
      BY <3>1 DEF IInv, BeliefIsTrue, Local
    <3>. QED
      BY <3>1, <3>2, <3>3, <3>4 DEF IInv, OnlyRevoked, Working
  <2>11. OnlyRevoked'
    BY <2>4, <2>5, <2>7, <2>10 DEF OnlyRevoked, Working
  <2>12. BeliefIsTrue'
    BY <2>3, <2>4, <2>5, <2>7, <2>8 DEF BeliefIsTrue, Working
  <2>13. HolderIsActive' /\ FenceInRange'
    BY <2>4, <2>5, <2>7, <2>8, LeaseAssumption DEF IInv, HolderIsActive, FenceInRange, Working
  <2>. QED
    BY <2>9, <2>11, <2>12, <2>13 DEF IInv
<1>. QED
  BY <1>1, <1>2, <1>3, <1>4, Zenon DEF ServeClaim, LoseClaim

\* Renewals keep the invariant.
LEMMA RenewInvariant ==
    ASSUME IInv, NEW w \in Worker
    PROVE  BeginRenew(w) \/ ServeRenew(w) \/ DeliverRenew(w) => IInv'
<1>0. /\ Idle \in Local /\ Idle.phase = "idle" /\ Idle.renewal = "none"
      /\ local[w] \in Local
  BY LocalTypes DEF Idle, IInv, TypeOK
<1>00. Working(w) => /\ holder = w \/ w \in revoked
                     /\ holder = w => row.left >= local[w].fence + Margin
                     /\ -Slack <= local[w].fence /\ local[w].fence + Margin <= Lease
  BY DEF IInv, OnlyRevoked, BeliefIsTrue, FenceInRange
<1>1. ASSUME NEW l \in Local, Become(w, l), UNCHANGED <<row, holder, revoked>>, Working(w),
             l.phase = "working", l.fence = local[w].fence, l.renewal # "answered"
      PROVE  IInv'
  BY <1>00, <1>1, OneWorker
<1>2. ASSUME BeginRenew(w) PROVE IInv'
  <2>. DEFINE l == [local[w] EXCEPT !.renewal = "sent", !.age = 0]
  <2>1. l \in Local /\ l.phase = "working" /\ l.fence = local[w].fence /\ l.renewal = "sent"
    BY <1>0, <1>2, Zenon DEF Local, BeginRenew, Working
  <2>2. Become(w, l) /\ UNCHANGED <<row, holder, revoked>> /\ Working(w)
    BY <1>2 DEF BeginRenew
  <2>. HIDE DEF l
  <2>. QED
    BY <1>1, <2>1, <2>2
<1>3. ASSUME Become(w, Idle), UNCHANGED <<row, holder, revoked>> PROVE IInv'
  BY <1>0, <1>3, OneWorker
<1>4. ASSUME DeliverRenew(w), local[w].renewal = "answered" PROVE IInv'
  <2>. DEFINE d == local[w].deadline
              l == Fenced(d)
  <2>1. d \in {n \in Int : n <= Lease}
    BY <1>0 DEF Local
  <2>2. l \in Local
    BY <2>1, LocalTypes
  <2>3. /\ l.phase \in {"idle", "working"} /\ l.renewal = "none"
        /\ l.phase = "working" => d > Margin /\ l.fence = d - Margin
    BY <2>1, FencedValue
  <2>4. l.phase = "working" => /\ holder = w \/ w \in revoked
                               /\ holder = w => row.left >= l.fence + Margin
                               /\ -Slack <= l.fence /\ l.fence + Margin <= Lease
    <3>1. d > Margin => d > 0 /\ -Slack <= d - Margin /\ d - Margin + Margin = d
      BY <2>1, LeaseAssumption
    <3>2. d > 0 => (holder = w => row.left >= d)
      BY <1>4 DEF IInv, BeliefIsTrue
    <3>3. holder = w \/ w \in revoked
      BY <1>4, <1>00 DEF DeliverRenew
    <3>. QED
      BY <2>1, <2>3, <3>1, <3>2, <3>3
  <2>5. Become(w, l) /\ UNCHANGED <<row, holder, revoked>>
    BY <1>4 DEF DeliverRenew
  <2>. HIDE DEF l
  <2>. QED
    BY <2>2, <2>3, <2>4, <2>5, OneWorker
<1>5. ASSUME ServeRenew(w), ~Active(w) PROVE IInv'
  <2>. DEFINE l == [local[w] EXCEPT !.renewal = "refused", !.age = 0]
  <2>1. Become(w, IF ~Working(w) THEN Idle ELSE l) /\ UNCHANGED <<row, holder, revoked>>
    BY <1>5 DEF ServeRenew, Renewable
  <2>2. l \in Local /\ l.fence = local[w].fence /\ l.renewal = "refused" /\ l.phase = local[w].phase
    BY <1>0, Zenon DEF Local
  <2>. HIDE DEF l
  <2>. QED
    BY <1>1, <1>3, <2>1, <2>2 DEF Working
<1>6. ASSUME ServeRenew(w), Active(w) PROVE IInv'
  <2>1. PICK lag \in 0..local[w].age :
            Become(w, IF ~Working(w) THEN Idle
                      ELSE [local[w] EXCEPT !.renewal = "answered", !.age = 0,
                                            !.deadline = Measured(Lease, lag)])
    BY <1>6, Zenon DEF ServeRenew, Renewable
  <2>. DEFINE d == Lease - lag
              k == [local[w] EXCEPT !.renewal = "answered", !.age = 0, !.deadline = d]
              l == IF ~Working(w) THEN Idle ELSE k
  <2>2. d \in Int /\ d <= Lease
    BY <1>0, LeaseAssumption DEF Local
  <2>3. k \in Local /\ k.phase = local[w].phase /\ k.deadline = d /\ k.fence = local[w].fence
    BY <1>0, <2>2, Zenon DEF Local
  <2>4. local' = [local EXCEPT ![w] = l]
    BY <2>1 DEF Become, Measured
  <2>. HIDE DEF d, k
  <2>5. /\ l \in Local /\ l.phase \in {"idle", "working"}
        /\ l.phase = "working" => Working(w) /\ l.fence = local[w].fence
        /\ l.renewal = "answered" => l.deadline = d
    BY <1>0, <2>3 DEF Working
  <2>. HIDE DEF l
  <2>6. local'[w] = l /\ \A v \in Worker \ {w} : local'[v] = local[v]
    BY <2>4 DEF IInv, TypeOK
  <2>7. /\ row' = [row EXCEPT !.left = Lease] /\ row'.left = Lease /\ row'.status = row.status
        /\ holder' = w /\ holder = w /\ revoked' = revoked
    BY <1>6 DEF ServeRenew, Renewable, Active, IInv, TypeOK, Row
  <2>8. TypeOK'
    BY <2>4, <2>5, <2>7, LeaseAssumption DEF IInv, TypeOK, Row
  <2>9. OnlyRevoked' /\ HolderIsActive' /\ FenceInRange'
    BY <1>00, <2>5, <2>6, <2>7 DEF IInv, OnlyRevoked, HolderIsActive, FenceInRange, Working
  <2>10. BeliefIsTrue'
    BY <1>00, <2>2, <2>5, <2>6, <2>7 DEF BeliefIsTrue, Working
  <2>. QED
    BY <2>8, <2>9, <2>10 DEF IInv
<1>. QED
  BY <1>2, <1>3, <1>4, <1>5, <1>6 DEF DeliverRenew

\* The ends of the work keep the invariant.
LEMMA EndInvariant ==
    ASSUME IInv
    PROVE  /\ \A w \in Worker : Fence(w) \/ Poll(w) \/ GiveUp(w) \/ Finish(w) => IInv'
           /\ Revoke => IInv'
<1>1. ASSUME NEW w \in Worker, Stop(w)
      PROVE  /\ local'[w] \in Local /\ local'[w].phase = "idle" /\ local'[w].renewal # "answered"
             /\ \A v \in Worker \ {w} : local'[v] = local[v]
             /\ local' \in [Worker -> Local]
  <2>. DEFINE k == [Idle EXCEPT !.renewal = "sent", !.age = local[w].age]
              l == IF local[w].renewal = "sent" THEN k ELSE Idle
  <2>1. Idle \in Local /\ Idle.phase = "idle" /\ Idle.renewal = "none" /\ local[w] \in Local
    BY LocalTypes DEF Idle, IInv, TypeOK
  <2>2. k \in Local /\ k.phase = "idle" /\ k.renewal = "sent"
    BY <2>1, Zenon DEF Local
  <2>3. local' = [local EXCEPT ![w] = l]
    BY <1>1 DEF Stop, Become
  <2>4. l \in Local /\ l.phase = "idle" /\ l.renewal # "answered"
    BY <2>1, <2>2
  <2>. HIDE DEF l
  <2>. QED
    BY <2>3, <2>4 DEF IInv, TypeOK
<1>2. ASSUME NEW w \in Worker, Fence(w) \/ Poll(w) \/ GiveUp(w) PROVE IInv'
  <2>1. Stop(w) /\ UNCHANGED <<row, holder, revoked>>
    BY <1>2 DEF Fence, Poll, GiveUp
  <2>. QED
    BY <1>1, <2>1 DEF IInv, TypeOK, HolderIsActive, BeliefIsTrue, OnlyRevoked, FenceInRange, Working
<1>3. ASSUME NEW w \in Worker, Finish(w) PROVE IInv'
  <2>1. /\ Stop(w) /\ holder' = Nobody /\ revoked' = revoked /\ holder = w
        /\ row' \in Row /\ row'.status \in {"open", "done"}
    BY <1>3 DEF Finish, Active, Row
  <2>2. TypeOK' /\ HolderIsActive' /\ BeliefIsTrue'
    BY <1>1, <2>1, LeaseAssumption DEF IInv, TypeOK, HolderIsActive, BeliefIsTrue
  <2>3. OnlyRevoked' /\ FenceInRange'
    BY <1>1, <2>1 DEF IInv, OnlyRevoked, FenceInRange, Working
  <2>. QED
    BY <2>2, <2>3 DEF IInv
<1>4. ASSUME Revoke PROVE IInv'
  <2>1. /\ holder' = Nobody /\ local' = local /\ holder \in Worker
        /\ revoked' = revoked \cup {holder}
        /\ row' \in Row /\ row'.status = "open"
    BY <1>4 DEF Revoke, IInv, HolderIsActive, TypeOK, Row
  <2>2. TypeOK' /\ HolderIsActive' /\ BeliefIsTrue'
    BY <2>1, LeaseAssumption DEF IInv, TypeOK, HolderIsActive, BeliefIsTrue
  <2>3. OnlyRevoked' /\ FenceInRange'
    BY <2>1 DEF IInv, OnlyRevoked, FenceInRange, Working
  <2>. QED
    BY <2>2, <2>3 DEF IInv
<1>. QED
  BY <1>2, <1>3, <1>4

\* What a tick does to a worker.
LEMMA AgedValue ==
    ASSUME NEW l \in Local
    PROVE  /\ Aged(l).phase = l.phase /\ Aged(l).renewal = l.renewal
           /\ Aged(l).deadline = Down(l.deadline, 0)
           /\ Aged(l).fence = IF l.phase = "working" THEN l.fence - 1 ELSE l.fence
BY DEF Aged, Local

\* The passing of time keeps the invariant: what is left of the lease and what
\* the holder believes is left shrink together.
LEMMA TickInvariant == ASSUME IInv, Tick PROVE IInv'
<1>1. /\ local \in [Worker -> Local] /\ row \in Row /\ row.left \in Int
      /\ {Lease, Margin, Slack, Delay} \subseteq Nat /\ Slack < Margin /\ Nobody \notin Worker
  BY LeaseAssumption DEF IInv, TypeOK, Row
<1>2. /\ \A w \in Worker : local'[w] = Aged(local[w]) /\ Timely(local[w])
      /\ local' \in [Worker -> Local]
      /\ holder' = holder /\ revoked' = revoked
  BY <1>1, LocalTypes DEF Tick
<1>3. /\ row' \in Row /\ row'.status = row.status
      /\ row.status = "active" => row'.left \in {row.left, row.left - 1}
  BY <1>1 DEF Tick, Row, Down
<1>4. TypeOK' /\ HolderIsActive'
  BY <1>2, <1>3 DEF IInv, TypeOK, HolderIsActive
<1>5. ASSUME NEW w \in Worker
      PROVE  /\ local'[w].phase = local[w].phase /\ local'[w].renewal = local[w].renewal
             /\ local'[w].deadline > 0 =>
                    local[w].deadline > 0 /\ local'[w].deadline = local[w].deadline - 1
             /\ Working(w) => local'[w].fence = local[w].fence - 1 /\ local[w].fence > -Slack
             /\ local[w].deadline \in Int /\ local[w].fence \in Int
  <2>1. local[w] \in Local
    BY <1>1
  <2>. QED
    BY <1>2, <2>1, AgedValue DEF Down, Local, Timely, Working
<1>6. OnlyRevoked'
  BY <1>2, <1>5 DEF IInv, OnlyRevoked, Working
<1>7. FenceInRange'
  BY <1>1, <1>5 DEF IInv, FenceInRange, Working
<1>8. BeliefIsTrue'
  <2>. SUFFICES ASSUME NEW w \in Worker, holder = w
                PROVE  /\ local'[w].phase = "granted" /\ local'[w].deadline > 0
                            => row'.left >= local'[w].deadline
                       /\ local'[w].renewal = "answered" /\ local'[w].deadline > 0
                            => row'.left >= local'[w].deadline
                       /\ local'[w].phase = "working" => row'.left >= local'[w].fence + Margin
    BY <1>2 DEF BeliefIsTrue, Working
  <2>1. row'.left \in Int /\ row'.left >= row.left - 1
    BY <1>1, <1>3 DEF IInv, HolderIsActive
  <2>. QED
    BY <1>1, <1>5, <2>1 DEF IInv, BeliefIsTrue, Working
<1>. QED
  BY <1>4, <1>6, <1>7, <1>8 DEF IInv

\* The two clocks stay in agreement.
THEOREM Inductive == Spec => []IInv
<1>1. IInv /\ UNCHANGED vars => IInv'
  BY DEF IInv, vars, TypeOK, HolderIsActive, BeliefIsTrue, OnlyRevoked, FenceInRange, Working
<1>2. IInv /\ [Next]_vars => IInv'
  BY <1>1, ClaimInvariant, RenewInvariant, EndInvariant, TickInvariant DEF Next
<1>. QED
  BY InitInvariant, <1>2, PTL DEF Spec

\* Rows, answers and timers keep their types.
THEOREM TypeCorrect == Spec => []TypeOK
BY Inductive, PTL DEF IInv

\* Nobody works on a step without its lease, except after a revocation.
THEOREM ExecutionsAreLeased == Spec => []ExecutionIsLeased
<1>1. IInv => ExecutionIsLeased
  <2>. SUFFICES ASSUME IInv, NEW w \in Worker, Working(w), w \notin revoked PROVE Active(w)
    BY DEF ExecutionIsLeased
  <2>1. holder = w /\ row.left >= local[w].fence + Margin /\ local[w].fence >= -Slack
    BY DEF IInv, OnlyRevoked, BeliefIsTrue, FenceInRange
  <2>2. row.left \in Int /\ local[w].fence \in Int
    BY DEF IInv, TypeOK, Row, Local
  <2>. QED
    BY <2>1, <2>2, LeaseAssumption DEF Active
<1>. QED
  BY Inductive, <1>1, PTL

\* Whoever lost the step gets no more time.
THEOREM LostWorkersRunOut == Spec => LostWorkRunsOut
<1>. DEFINE Shrinks == \A w \in Worker :
                Working(w) /\ holder # w /\ local'[w].phase = "working"
                  => Allowance(w)' <= Allowance(w)
<1>1. IInv /\ [Next]_vars => [Shrinks]_vars
  <2>. SUFFICES ASSUME IInv, Next, NEW w \in Worker,
                       Working(w), holder # w, local'[w].phase = "working"
                PROVE  Allowance(w)' <= Allowance(w)
    OBVIOUS
  <2>0. /\ local[w] \in Local /\ local[w].phase = "working"
        /\ local[w].fence \in Int /\ local[w].deadline \in Int /\ Margin \in Nat
    BY LeaseAssumption DEF IInv, TypeOK, Local, Working
  <2>1. CASE local'[w] = local[w]
    BY <2>0, <2>1 DEF Allowance, FenceDuration
  <2>2. ASSUME local'[w].fence = local[w].fence, local'[w].renewal # "answered"
        PROVE  Allowance(w)' <= Allowance(w)
    BY <2>0, <2>2 DEF Allowance, FenceDuration
  <2>3. CASE BeginRenew(w)
    BY <2>0, <2>2, <2>3 DEF BeginRenew, Become, Local, IInv, TypeOK
  <2>4. CASE ServeRenew(w)
    BY <2>0, <2>2, <2>4 DEF ServeRenew, Renewable, Active, Become, Local, IInv, TypeOK, Working
  <2>5. CASE DeliverRenew(w)
    <3>1. local[w].renewal = "answered" /\ local'[w] = Fenced(local[w].deadline)
      BY <2>5 DEF DeliverRenew, Become, IInv, TypeOK, Idle
    <3>2. /\ local'[w].renewal = "none" /\ local'[w].fence = local[w].deadline - Margin
      BY <2>0, <3>1, FencedValue DEF Local
    <3>. QED
      BY <2>0, <3>1, <3>2 DEF Allowance, FenceDuration
  <2>6. CASE Tick
    <3>1. local'[w] = Aged(local[w])
      BY <2>6 DEF Tick
    <3>2. /\ local'[w].renewal = local[w].renewal
          /\ local'[w].deadline = Down(local[w].deadline, 0)
          /\ local'[w].fence = local[w].fence - 1
      BY <2>0, <3>1, AgedValue
    <3>. QED
      BY <2>0, <3>2 DEF Allowance, FenceDuration, Down
  <2>7. CASE BeginClaim(w) \/ ServeClaim(w) \/ DeliverClaim(w) \/ LoseClaim(w)
    BY <2>0, <2>7 DEF BeginClaim, ServeClaim, DeliverClaim, LoseClaim
  <2>8. CASE Fence(w) \/ Poll(w) \/ GiveUp(w) \/ Finish(w)
    <3>1. local' = [local EXCEPT ![w] = IF local[w].renewal = "sent"
                       THEN [Idle EXCEPT !.renewal = "sent", !.age = local[w].age] ELSE Idle]
      BY <2>8 DEF Fence, Poll, GiveUp, Finish, Stop, Become
    <3>2. local'[w].phase = "idle"
      BY <3>1 DEF Idle, IInv, TypeOK
    <3>. QED
      BY <3>2
  <2>9. ASSUME NEW v \in Worker, v # w, NEW l, Become(v, l) PROVE local'[w] = local[w]
    BY <2>9 DEF Become, IInv, TypeOK
  <2>10. ASSUME NEW v \in Worker, v # w,
                \/ BeginClaim(v) \/ ServeClaim(v) \/ DeliverClaim(v) \/ LoseClaim(v)
                \/ BeginRenew(v) \/ ServeRenew(v) \/ DeliverRenew(v)
                \/ Fence(v) \/ Poll(v) \/ GiveUp(v) \/ Finish(v)
         PROVE  local'[w] = local[w]
    <3>1. \E l : Become(v, l)
      BY <2>10, Zenon DEF BeginClaim, ServeClaim, DeliverClaim, LoseClaim, BeginRenew, ServeRenew,
         DeliverRenew, Fence, Poll, GiveUp, Finish, Stop
    <3>. QED
      BY <2>9, <2>10, <3>1
  <2>. QED
    BY <2>1, <2>3, <2>4, <2>5, <2>6, <2>7, <2>8, <2>10 DEF Next, Revoke
<1>. QED
  BY Inductive, <1>1, PTL DEF Spec, LostWorkRunsOut

=============================================================================
