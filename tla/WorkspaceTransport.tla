-------------------------- MODULE WorkspaceTransport --------------------------
(***************************************************************************)
(* The client's workspace as the server reaches it                         *)
(* (internal/workspacetransport): a client process serves its directory    *)
(* over a websocket, one request at a time; callers on the server acquire  *)
(* the directory's mutation fence through it, read, prepare and apply      *)
(* reconciliations, and release the fence.                                 *)
(*                                                                         *)
(* remote[k] is the server's end of connection k with its reader           *)
(* goroutine, local[k] the client's end, wire[k] what is under way between *)
(* them.  fence is the lock file of the directory, which processes of the  *)
(* host take as well.  A caller's context may be cancelled at any moment,  *)
(* a socket may break, a client may close or crash, and a new client may   *)
(* connect once the server has dropped the old connection.                 *)
(*                                                                         *)
(* The code numbers requests, and a lease is the number of the acquisition. *)
(* A connection has one request under way and a caller one access at most, *)
(* so that the caller's name stands for the number here.                   *)
(***************************************************************************)
EXTENDS WorkspaceApply

CONSTANTS
    Worker,    \* callers on the server
    Nobody,    \* no caller
    MaxConn,   \* bound on the connections there is something left of
    Plans      \* the reconciliations callers ask for

ASSUME TransportAssumption ==
    /\ Nobody \notin Worker
    /\ MaxConn \in Nat
    /\ \A plan \in Plans : /\ DOMAIN plan \subseteq Path
                           /\ \A p \in DOMAIN plan : plan[p] \in Desired
                           /\ ValidPlan(plan)

VARIABLES remote, wire, local, worker, fence, files

vars == <<remote, wire, local, worker, fence, files>>

Conn == 1..MaxConn
Free == 0            \* values of fence besides Conn
Host == MaxConn + 1

NoPlan == <<>>
NoFiles == <<>>

NoRequest == [from |-> Nobody, op |-> "none", leased |-> FALSE,
              plan |-> NoPlan, expected |-> NoFiles]

\* response: a change, or the last word on a request with its outcome.
Reply(w, outcome, view) ==
    [to |-> w, last |-> TRUE, outcome |-> outcome, change |-> NoChange, view |-> view]
Report(w, change) ==
    [to |-> w, last |-> FALSE, outcome |-> "ok", change |-> change, view |-> NoFiles]
NoFrame == Reply(Nobody, "ok", NoFiles)

\* remote: pending is the caller whose operation the reader serves, hand the reply it is
\* about to pass to the caller, closing a cancelled call's AfterFunc at work.
NoRemote ==
    [up |-> FALSE, reading |-> FALSE, serial |-> Nobody,
     pending |-> Nobody, hand |-> NoFrame, closing |-> FALSE]

NoLocal ==
    [state |-> "gone", busy |-> FALSE, inbox |-> NoRequest,
     doing |-> NoRequest, todo |-> <<>>, failed |-> FALSE, lease |-> Nobody,
     prepared |-> NoRequest, refused |-> FALSE]

NoWire == [down |-> <<>>, back |-> <<>>, cut |-> FALSE]

\* A caller: op is the call it is in, leased and prepared whether it has an
\* access and a prepared reconciliation; known is what it was told of the files and owed
\* counts the changes the reader holds for it.
IdleWorker ==
    [pc |-> "idle", conn |-> 0, op |-> "none", cancelled |-> FALSE,
     leased |-> FALSE, prepared |-> FALSE, plan |-> NoPlan, known |-> NoFiles, seen |-> {},
     result |-> <<>>, finished |-> FALSE, owed |-> 0]

Init ==
    /\ remote = [k \in Conn |-> NoRemote]
    /\ wire = [k \in Conn |-> NoWire]
    /\ local = [k \in Conn |-> NoLocal]
    /\ worker = [w \in Worker |-> IdleWorker]
    /\ fence = Free
    /\ files \in {[p \in Path |-> c] : c \in Content}

-----------------------------------------------------------------------------
(* Connections. *)

\* Hub.Serve and Local.initialize: the handshake attests the directory and is
\* refused while an earlier connection is not done.  k stands for a new
\* connection once nothing is left of the one it stood for.
Connect(k) ==
    /\ local[k].state = "gone" /\ ~remote[k].reading
    /\ \A w \in Worker : worker[w].conn # k
    /\ \A j \in Conn : ~remote[j].up
    /\ remote' = [remote EXCEPT ![k] = [NoRemote EXCEPT !.up = TRUE, !.reading = TRUE]]
    /\ local' = [local EXCEPT ![k] = [NoLocal EXCEPT !.state = "serving"]]
    /\ wire' = [wire EXCEPT ![k] = NoWire]
    /\ UNCHANGED <<worker, fence, files>>

\* remote.stop; a further stop does nothing, and replies under way are lost.
Closed(r) == [r EXCEPT !.up = FALSE, !.closing = FALSE]
Cut(v) == [v EXCEPT !.cut = TRUE, !.back = <<>>]

\* The server gives the connection up: a ping fails or the server shuts down.
RemoteStop(k) ==
    /\ remote[k].up
    /\ remote' = [remote EXCEPT ![k] = Closed(@)]
    /\ wire' = [wire EXCEPT ![k] = Cut(@)]
    /\ UNCHANGED <<local, worker, fence, files>>

\* The AfterFunc of a call whose context was cancelled; it runs on its own and
\* may come after the call has returned.
RemoteClose(k) ==
    /\ remote[k].closing
    /\ remote' = [remote EXCEPT ![k] = Closed(@)]
    /\ wire' = [wire EXCEPT ![k] = Cut(@)]
    /\ UNCHANGED <<local, worker, fence, files>>

-----------------------------------------------------------------------------
(* remote.read, the reader of the server's end. *)

\* Calling(w, k): the operation of w on k has not been abandoned.
Calling(w, k) == worker[w].conn = k /\ worker[w].pc \in {"sent", "drain"}

\* Mutant of Finish: an exiting reader leaves the operation unfinished.
FinishNothing(k) == worker

\* The deferred function of the reader.
Finish(k) ==
    [w \in Worker |-> IF w = remote[k].pending /\ Calling(w, k)
                      THEN [worker[w] EXCEPT !.finished = TRUE] ELSE worker[w]]

\* A reply is taken from the socket and validated against the pending request.
ReaderReceive(k) ==
    LET r == remote[k]
        frame == Head(wire[k].back)
    IN  /\ r.reading /\ r.up /\ r.hand.to = Nobody
        /\ wire[k].back # <<>>
        /\ IF frame.to # r.pending
           THEN /\ remote' = [remote EXCEPT ![k] =
                     [Closed(@) EXCEPT !.reading = FALSE, !.pending = Nobody]]
                /\ wire' = [wire EXCEPT ![k] = Cut(@)]
                /\ worker' = Finish(k)
           ELSE /\ remote' = [remote EXCEPT ![k] =
                     [@ EXCEPT !.hand = frame, !.pending = IF frame.last THEN Nobody ELSE r.pending]]
                /\ wire' = [wire EXCEPT ![k].back = Tail(@)]
                /\ worker' = [worker EXCEPT ![r.pending].owed =
                                IF frame.last THEN @ ELSE @ + 1]
        /\ UNCHANGED <<local, fence, files>>

\* The reply goes into the operation's channel, which holds one.
ReaderPass(k) ==
    LET w == remote[k].hand.to
    IN  /\ w # Nobody
        /\ Calling(w, k) /\ worker[w].result = <<>>
        /\ worker' = [worker EXCEPT ![w] =
              [@ EXCEPT !.result = <<remote[k].hand>>,
                        !.finished = worker[w].finished \/ remote[k].hand.last]]
        /\ remote' = [remote EXCEPT ![k].hand = NoFrame]
        /\ UNCHANGED <<wire, local, fence, files>>

\* The caller has gone: the reader drops the reply and exits.
ReaderAbandoned(k) ==
    LET w == remote[k].hand.to
    IN  /\ w # Nobody
        /\ ~Calling(w, k)
        /\ remote' = [remote EXCEPT ![k] =
              [@ EXCEPT !.hand = NoFrame, !.reading = FALSE, !.pending = Nobody]]
        /\ UNCHANGED <<wire, local, worker, fence, files>>

\* The socket fails; replies that were under way are lost.
ReaderEnd(k) ==
    LET r == remote[k]
    IN  /\ r.reading /\ r.hand.to = Nobody
        /\ wire[k].cut
        /\ remote' = [remote EXCEPT ![k] = [Closed(@) EXCEPT !.reading = FALSE, !.pending = Nobody]]
        /\ worker' = Finish(k)
        /\ wire' = [wire EXCEPT ![k].back = <<>>]
        /\ UNCHANGED <<local, fence, files>>

-----------------------------------------------------------------------------
(* remote.call and what callers do between calls. *)

\* Acquisition rounds and releases run without the caller's cancellation.
Cancellable(op) == op \notin {"acquire", "release"}

\* Mutant of Acquired: a lease that comes too late is dropped.
AcquiredLate(v, r, outcome) ==
    IF outcome = "ok" /\ ~v.cancelled THEN [r EXCEPT !.leased = TRUE, !.pc = "held", !.op = "none"]
    ELSE IF outcome = "busy" /\ ~v.cancelled THEN [r EXCEPT !.pc = "sleep"]
    ELSE IdleWorker

\* What an acquirer does with the answer: Hub.Acquire, access.Release.
Acquired(v, r, outcome) ==
    IF outcome = "ok"
    THEN [r EXCEPT !.leased = TRUE,
                   !.pc = IF v.cancelled THEN "serial" ELSE "held",
                   !.op = IF v.cancelled THEN "release" ELSE "none"]
    ELSE IF outcome = "busy" /\ ~v.cancelled THEN [r EXCEPT !.pc = "sleep"]
    ELSE IdleWorker

\* The call of v returns.
Returned(v, outcome, view) ==
    LET r == [v EXCEPT !.result = <<>>, !.finished = FALSE, !.seen = {}]
        held == [r EXCEPT !.pc = "held", !.op = "none"]
    IN  CASE v.op \in {"attest", "release"} -> IdleWorker
          [] v.op = "acquire" -> Acquired(v, r, outcome)
          [] v.op = "read" -> [held EXCEPT !.known = IF outcome = "ok" THEN view ELSE @]
          [] v.op = "prepare" -> [held EXCEPT !.prepared = outcome = "ok",
                                              !.plan = IF outcome = "ok" THEN @ ELSE NoPlan]
          [] v.op = "apply" -> [held EXCEPT !.prepared = FALSE, !.plan = NoPlan]

\* The timer of the acquisition loop, or its context, or the connection's end.
Wake(w) ==
    /\ worker[w].pc = "sleep"
    /\ worker' = [worker EXCEPT ![w] =
          IF @.cancelled \/ ~remote[@.conn].up THEN IdleWorker ELSE [@ EXCEPT !.pc = "serial"]]
    /\ UNCHANGED <<remote, wire, local, fence, files>>

\* The context of a caller is cancelled.  It matters to a caller in a call or
\* between two rounds: one that holds the lease may release it at any time, and
\* once the connection is done every call on it fails.
Cancel(w) ==
    LET v == worker[w]
    IN  /\ v.pc \in {"serial", "sent", "sleep"} /\ v.op # "release"
        /\ ~v.cancelled /\ remote[v.conn].up
        /\ worker' = [worker EXCEPT ![w].cancelled = TRUE]
        /\ remote' = [remote EXCEPT ![v.conn].closing =
                        @ \/ (v.pc = "sent" /\ Cancellable(v.op))]
        /\ UNCHANGED <<wire, local, fence, files>>

\* Mutant of SerialFree: calls are not serialised.
SerialAlways(k) == TRUE

\* The connection's serial channel holds its token.
SerialFree(k) == remote[k].serial = Nobody

\* call: the token is taken, the operation registered, the request written; v
\* is the caller w with its call.  A caller that waits for the token has only
\* decided on its call if it cannot be cancelled.
Send(w, v) ==
    LET k == v.conn
        request == [from |-> w, op |-> v.op, leased |-> v.leased,
                    plan |-> IF v.op = "prepare" THEN v.plan ELSE NoPlan,
                    expected |-> IF v.op = "prepare" THEN v.known ELSE NoFiles]
    IN  /\ SerialFree(k) /\ remote[k].up
        /\ remote' = [remote EXCEPT ![k] = [@ EXCEPT !.serial = w, !.pending = w]]
        /\ wire' = [wire EXCEPT ![k].down = IF wire[k].cut THEN @ ELSE Append(@, request)]
        /\ worker' = [worker EXCEPT ![w] = [v EXCEPT !.pc = "sent"]]
        /\ UNCHANGED <<local, fence, files>>

\* hub.connection, then Hub.Require.
Require(w, k) ==
    /\ worker[w].pc = "idle"
    /\ Send(w, [IdleWorker EXCEPT !.conn = k, !.op = "attest"])

\* hub.connection, then Hub.Acquire.
Acquire(w, k) ==
    /\ worker[w].pc = "idle"
    /\ remote[k].up
    /\ worker' = [worker EXCEPT ![w] = [@ EXCEPT !.pc = "serial", !.conn = k, !.op = "acquire"]]
    /\ UNCHANGED <<remote, wire, local, fence, files>>

\* An acquisition round, or the release of a late lease, gets its turn or
\* finds the connection done.
Round(w) ==
    /\ worker[w].pc = "serial"
    /\ Send(w, worker[w])

RoundFails(w) ==
    /\ worker[w].pc = "serial"
    /\ ~remote[worker[w].conn].up
    /\ worker' = [worker EXCEPT ![w] = IdleWorker]
    /\ UNCHANGED <<remote, wire, local, fence, files>>

\* access.Reattest, Stat, ReadFile and ReadDirectory.
Read(w) ==
    /\ worker[w].pc = "held" /\ ~worker[w].cancelled
    /\ Send(w, [worker[w] EXCEPT !.op = "read"])

\* access.Prepare; a caller that has read the files expects what it read.
Prepare(w) ==
    /\ worker[w].pc = "held" /\ ~worker[w].cancelled /\ ~worker[w].prepared
    /\ \E plan \in Plans : Send(w, [worker[w] EXCEPT !.op = "prepare", !.plan = plan])

\* prepared.ApplyVerified.
Apply(w) ==
    /\ worker[w].pc = "held" /\ ~worker[w].cancelled /\ worker[w].prepared
    /\ Send(w, [worker[w] EXCEPT !.op = "apply"])

\* access.Release; the access is gone whether or not the call succeeds.
Release(w) ==
    /\ worker[w].pc = "held"
    /\ Send(w, [worker[w] EXCEPT !.op = "release"])

ReleaseFails(w) ==
    /\ worker[w].pc = "held"
    /\ ~remote[worker[w].conn].up
    /\ worker' = [worker EXCEPT ![w] = IdleWorker]
    /\ UNCHANGED <<remote, wire, local, fence, files>>

\* prepared.validateChange: a path is reported once, and only as prepared.
RefusesChange(plan, seen, change) ==
    \/ change.path \in seen
    \/ IF change.path \notin DOMAIN plan
       THEN change.kind # "delete" \/ \A p \in DOMAIN plan : plan[p].from # change.path
       ELSE LET d == plan[change.path]
            IN  \/ (change.kind = "delete") = Present(d)
                \/ d.createOnly /\ change.kind = "replace"
                \/ change.kind = "move" /\ change.source # d.from

\* The caller's observer takes a change.
Observed(v, change) ==
    [v EXCEPT !.result = <<>>, !.owed = @ - 1, !.seen = @ \cup {change.path},
              !.known = IF @ = NoFiles THEN @ ELSE Learned(@, v.plan, change)]

\* The call is over: its token goes back.
Released(r) == [r EXCEPT !.serial = Nobody]

\* call takes what the reader passed: a change for the observer, whose refusal
\* closes the connection and ends the call, or the last word.  The count of
\* changes in the last word of an apply is the number of changes it sent.
Take(w) ==
    LET v == worker[w]
        k == v.conn
        frame == Head(v.result)
    IN  /\ v.pc = "sent" /\ v.result # <<>>
        /\ \/ /\ frame.last
              /\ worker' = [worker EXCEPT ![w] = Returned(v, frame.outcome, frame.view)]
              /\ remote' = [remote EXCEPT ![k] = Released(@)]
              /\ UNCHANGED wire
           \/ /\ ~frame.last /\ ~RefusesChange(v.plan, v.seen, frame.change)
              /\ worker' = [worker EXCEPT ![w] = Observed(v, frame.change)]
              /\ UNCHANGED <<remote, wire>>
           \/ /\ ~frame.last /\ RefusesChange(v.plan, v.seen, frame.change)
              /\ worker' = [worker EXCEPT ![w] = [Returned(v, "failed", NoFiles) EXCEPT !.owed = 0]]
              /\ remote' = [remote EXCEPT ![k] = Released(Closed(@))]
              /\ wire' = [wire EXCEPT ![k] = Cut(@)]
        /\ UNCHANGED <<local, fence, files>>

\* call sees its context cancelled, or the connection done: it stops the
\* connection and drains what the reader holds.  The caller knows nothing of
\* the directory from then on.
Abort(w) ==
    LET v == worker[w]
        k == v.conn
    IN  /\ v.pc = "sent"
        /\ ~remote[k].up \/ (v.cancelled /\ Cancellable(v.op))
        /\ worker' = [worker EXCEPT ![w] = [@ EXCEPT !.pc = "drain", !.known = NoFiles]]
        /\ remote' = [remote EXCEPT ![k] = Closed(@)]
        /\ wire' = [wire EXCEPT ![k] = Cut(@)]
        /\ UNCHANGED <<local, fence, files>>

\* drainPendingChanges, while there is a reply in the channel.
Drain(w) ==
    LET v == worker[w]
        change == Head(v.result).change
    IN  /\ v.pc = "drain" /\ v.result # <<>>
        /\ \/ /\ Head(v.result).last
              /\ worker' = [worker EXCEPT ![w].result = <<>>]
              /\ UNCHANGED remote
           \/ /\ ~Head(v.result).last /\ ~RefusesChange(v.plan, v.seen, change)
              /\ worker' = [worker EXCEPT ![w] = Observed(v, change)]
              /\ UNCHANGED remote
           \/ /\ ~Head(v.result).last /\ RefusesChange(v.plan, v.seen, change)
              /\ worker' = [worker EXCEPT ![w] = [Returned(v, "failed", NoFiles) EXCEPT !.owed = 0]]
              /\ remote' = [remote EXCEPT ![v.conn] = Released(@)]
        /\ UNCHANGED <<wire, local, fence, files>>

\* Mutant of Drained: a cancelled call returns at once.
DrainedAtOnce(v) == TRUE

\* The reader is done with the operation and its channel is empty.
Drained(v) == v.finished /\ v.result = <<>>

DrainEnds(w) ==
    LET v == worker[w]
    IN  /\ v.pc = "drain" /\ Drained(v)
        /\ worker' = [worker EXCEPT ![w] = Returned(v, "failed", NoFiles)]
        /\ remote' = [remote EXCEPT ![v.conn] = Released(@)]
        /\ UNCHANGED <<wire, local, fence, files>>

-----------------------------------------------------------------------------
(* The client's end. *)

\* Local.stop: the context is cancelled and the socket closed.
Stopped(l) == [l EXCEPT !.state = "stopped"]

\* readRequests takes one request; one that comes during another, or out of
\* sequence, stops the connection.
LocalReceive(k) ==
    LET l == local[k]
        request == Head(wire[k].down)
    IN  /\ l.state = "serving" /\ wire[k].down # <<>>
        /\ local' = [local EXCEPT ![k] =
              IF l.busy THEN [Stopped(@) EXCEPT !.refused = TRUE]
              ELSE [@ EXCEPT !.busy = TRUE, !.inbox = request]]
        /\ wire' = [wire EXCEPT ![k] = [@ EXCEPT !.down = Tail(wire[k].down),
                                                !.cut = wire[k].cut \/ l.busy]]
        /\ UNCHANGED <<remote, worker, fence, files>>

\* The socket fails under the reader, the directory is found replaced, or the
\* client closes; requests under way are lost.
LocalStop(k) ==
    /\ local[k].state = "serving"
    /\ local' = [local EXCEPT ![k] = Stopped(@)]
    /\ wire' = [wire EXCEPT ![k] = [@ EXCEPT !.cut = TRUE, !.down = <<>>]]
    /\ UNCHANGED <<remote, worker, fence, files>>

\* execute without the work of an apply: what operate does to the client's
\* state and to the fence, and its answer.
Unleased(l, request) == request.leased /\ request.from # l.lease

Acquirable(l) == l.lease = Nobody /\ fence = Free

Operated(k, l, request) ==
    IF Unleased(l, request) THEN [l |-> l, outcome |-> "failed", fence |-> fence]
    ELSE CASE request.op \in {"attest", "read"} -> [l |-> l, outcome |-> "ok", fence |-> fence]
           [] request.op = "acquire" ->
                 IF Acquirable(l)
                 THEN [l |-> [l EXCEPT !.lease = request.from], outcome |-> "ok", fence |-> k]
                 ELSE [l |-> l, outcome |-> "busy", fence |-> fence]
           [] request.op = "prepare" ->
                 IF l.prepared # NoRequest THEN [l |-> l, outcome |-> "failed", fence |-> fence]
                 ELSE [l |-> [l EXCEPT !.prepared = request], outcome |-> "ok", fence |-> fence]
           [] request.op = "release" ->
                 [l |-> [l EXCEPT !.lease = Nobody, !.prepared = NoRequest],
                  outcome |-> "ok", fence |-> Free]

\* The answer is written after busy is cleared; a socket that fails stops l.
Answered(k, l) == [l EXCEPT !.busy = FALSE, !.inbox = NoRequest, !.doing = NoRequest,
                            !.state = IF wire[k].cut THEN "stopped" ELSE @]

Answer(k, reply) ==
    wire' = [wire EXCEPT ![k].back = IF wire[k].cut THEN @ ELSE Append(@, reply)]

\* serve and execute, for every request but an apply.
LocalExecute(k) ==
    LET l == local[k]
        request == l.inbox
        done == Operated(k, l, request)
    IN  /\ l.state = "serving"
        /\ request # NoRequest /\ request.op # "apply"
        /\ local' = [local EXCEPT ![k] = Answered(k, done.l)]
        /\ fence' = done.fence
        /\ Answer(k, Reply(request.from, done.outcome,
                           IF request.op = "read" THEN files ELSE NoFiles))
        /\ UNCHANGED <<remote, worker, files>>

\* operate's apply: the preparation is used up, and requireExpectedFiles
\* compares the files with what the caller read.
LocalApply(k) ==
    LET l == local[k]
        request == l.inbox
        ready == ~Unleased(l, request) /\ l.prepared.from = request.from
        expected == l.prepared.expected
    IN  /\ l.state = "serving"
        /\ request # NoRequest /\ request.op = "apply"
        /\ local' = [local EXCEPT ![k] =
              [@ EXCEPT !.inbox = NoRequest,
                        !.prepared = IF ready THEN NoRequest ELSE l.prepared,
                        !.doing = [request EXCEPT !.plan = l.prepared.plan],
                        !.todo = IF ready /\ expected \in {NoFiles, files}
                                 THEN Work(l.prepared.plan) ELSE <<>>,
                        !.failed = ~(ready /\ expected \in {NoFiles, files})]]
        /\ UNCHANGED <<remote, wire, worker, fence, files>>

\* Mutant of Recorded: a file that is deleted is not reported.
RecordedWrites(change) == change.kind \in {"create", "replace", "move"}

\* recordVerifiedChange tells the observer, which sends the change.
Recorded(change) == change # NoChange

\* One task of applyReconciliation.  The operation's context ends with the
\* connection's, or when a change cannot be reported.
LocalTask(k) ==
    LET l == local[k]
        done == Perform(files, l.doing.plan, Head(l.todo))
        reported == Recorded(done.change)
    IN  /\ l.doing # NoRequest /\ l.todo # <<>>
        /\ \/ /\ l.state = "serving"
              /\ files' = done.files
              /\ local' = [local EXCEPT ![k] =
                    [@ EXCEPT !.todo = IF done.failed \/ (reported /\ wire[k].cut)
                                       THEN <<>> ELSE Tail(l.todo),
                              !.failed = done.failed \/ (reported /\ wire[k].cut)]]
              /\ wire' = [wire EXCEPT ![k].back =
                    IF reported /\ ~wire[k].cut
                    THEN Append(@, Report(l.doing.from, done.change)) ELSE @]
           \/ /\ l.state = "stopped"
              /\ local' = [local EXCEPT ![k] = [@ EXCEPT !.todo = <<>>, !.failed = TRUE]]
              /\ UNCHANGED <<files, wire>>
        /\ UNCHANGED <<remote, worker, fence>>

\* The apply is answered.
LocalApplied(k) ==
    LET l == local[k]
    IN  /\ l.doing # NoRequest /\ l.todo = <<>>
        /\ local' = [local EXCEPT ![k] = [Answered(k, @) EXCEPT !.failed = FALSE]]
        /\ Answer(k, Reply(l.doing.from, IF l.failed THEN "failed" ELSE "ok", NoFiles))
        /\ UNCHANGED <<remote, worker, fence, files>>

\* Mutant of Idle: the fence is released under an operation that still runs.
IdleAnyway(l) == TRUE

\* serve has returned: no operation runs.
Idle(l) == l.doing = NoRequest

\* cleanup releases the fence.
LocalCleanup(k) ==
    /\ local[k].state = "stopped" /\ Idle(local[k])
    /\ local' = [local EXCEPT ![k] = [NoLocal EXCEPT !.doing = local[k].doing,
                                                     !.todo = local[k].todo]]
    /\ fence' = IF fence = k THEN Free ELSE fence
    /\ UNCHANGED <<remote, wire, worker, files>>

\* The client's process dies; the system drops its lock and its socket.
LocalCrash(k) ==
    /\ local[k].state \in {"serving", "stopped"}
    /\ local' = [local EXCEPT ![k] = NoLocal]
    /\ fence' = IF fence = k THEN Free ELSE fence
    /\ wire' = [wire EXCEPT ![k] = [@ EXCEPT !.cut = TRUE, !.down = <<>>]]
    /\ UNCHANGED <<remote, worker, files>>

-----------------------------------------------------------------------------
(* A process of the host that works under the same fence. *)

HostAcquire ==
    /\ fence = Free
    /\ fence' = Host
    /\ UNCHANGED <<remote, wire, local, worker, files>>

HostRelease ==
    /\ fence = Host
    /\ fence' = Free
    /\ \E p \in Path, c \in Content \cup {Absent} : files' = [files EXCEPT ![p] = c]
    /\ UNCHANGED <<remote, wire, local, worker>>

-----------------------------------------------------------------------------
Reader(k) == ReaderReceive(k) \/ ReaderPass(k) \/ ReaderAbandoned(k) \/ ReaderEnd(k)

Client(k) == LocalReceive(k) \/ LocalExecute(k) \/ LocalApply(k) \/ LocalTask(k)
               \/ LocalApplied(k) \/ LocalCleanup(k)

Caller(w) == Round(w) \/ RoundFails(w) \/ Take(w) \/ Abort(w) \/ Drain(w) \/ DrainEnds(w) \/ Wake(w)

Next ==
    \/ \E k \in Conn :
          \/ Connect(k) \/ RemoteStop(k) \/ RemoteClose(k)
          \/ Reader(k) \/ Client(k) \/ LocalStop(k) \/ LocalCrash(k)
    \/ \E w \in Worker :
          \/ \E k \in Conn : Require(w, k) \/ Acquire(w, k)
          \/ Read(w) \/ Prepare(w) \/ Apply(w) \/ Release(w) \/ ReleaseFails(w)
          \/ Cancel(w) \/ Caller(w)
    \/ HostAcquire \/ HostRelease

Spec == Init /\ [][Next]_vars

\* Goroutines run on, sockets deliver or fail, and the client notices a socket
\* that has failed.
FairSpec ==
    /\ Spec
    /\ \A k \in Conn :
          /\ WF_vars(Reader(k))
          /\ WF_vars(Client(k) \/ (wire[k].cut /\ LocalStop(k)))
    /\ \A w \in Worker : WF_vars(Caller(w))

-----------------------------------------------------------------------------
\* The types, and that a lease goes with the fence.
TypeOK ==
    /\ files \in Files
    /\ fence \in {Free, Host} \cup Conn
    /\ \A k \in Conn :
          /\ Len(wire[k].down) <= 1
          /\ \A i \in DOMAIN wire[k].back : wire[k].back[i].change \in Change
          /\ local[k].lease \in Worker \cup {Nobody}
          /\ remote[k].serial \in Worker \cup {Nobody}
          /\ local[k].lease # Nobody => fence = k
    /\ \A w \in Worker :
          /\ worker[w].pc \in {"idle", "serial", "sent", "drain", "sleep", "held"}
          /\ worker[w].owed \in Nat

\* readRequests never meets a request that is "concurrent or out of sequence":
\* the server numbers and serialises the calls of all its callers so that the
\* client's check cannot close an honest connection.
RequestsAreInOrder == \A k \in Conn : ~local[k].refused

\* "An acquisition round must finish so code knows whether it owns a lease"
\* (access.go:30): on a connection that is up, the lease the client holds is
\* one that a caller holds, is being told of, or is giving back.  Otherwise
\* the directory would stay locked for as long as the client is connected.
LeaseIsOwned ==
    \A k \in Conn :
        remote[k].up /\ ~wire[k].cut /\ local[k].lease # Nobody =>
            LET v == worker[local[k].lease]
            IN  v.conn = k /\ (v.leased \/ (v.op = "acquire" /\ v.pc = "sent"))

\* What a caller was told is what the directory holds: between two calls of a
\* caller whose lease is alive, the files it read, with the changes it observed
\* since, are the files, also after an apply that failed half way; and an apply
\* that succeeded has brought about its plan.
WorkspaceIsAsReported ==
    \A w \in Worker :
        LET v == worker[w]
            alive == v.leased /\ remote[v.conn].up /\ ~wire[v.conn].cut
        IN  /\ alive /\ v.pc = "held" => v.known \in {NoFiles, files}
            /\ alive /\ v.op = "apply" /\ v.result # <<>> =>
                  (Head(v.result).last /\ Head(v.result).outcome = "ok" => Meets(files, v.plan))

\* "The socket reader can already hold a validated change when cancellation
\* closes the connection. Deliver that retained evidence before returning"
\* (remote_call.go:80): no call returns while the reader holds a change for it,
\* unless the caller's own observer refused one.
EvidenceIsDelivered ==
    \A w \in Worker : worker[w].pc \notin {"sent", "drain"} => worker[w].owed = 0

\* Every call returns: neither the reader and the caller nor the two ends of a
\* connection wait for each other for ever, whatever breaks in between.  A
\* caller is in no call again and again.
CallsReturn ==
    \A w \in Worker : []<>(worker[w].pc \notin {"sent", "drain"})

\* Files change under the fence only: an apply that still runs on a connection
\* that was lost keeps the fence until it has ended, so that nobody else works
\* on the directory meanwhile.
MutationIsFenced == \A k \in Conn : local[k].todo # <<>> => fence = k

=============================================================================
