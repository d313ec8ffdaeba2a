---------------------- MODULE WorkspaceTransportProofs ----------------------
(***************************************************************************)
(* The client's workspace for any number of callers, of paths and of       *)
(* connections, those among them that the server has dropped while their   *)
(* clients still work.                                                     *)
(***************************************************************************)
EXTENDS WorkspaceTransport, TLAPS

-----------------------------------------------------------------------------
(* Records keep their fields, and sequences stay sequences. *)

CallerShape(v) ==
    v = [pc |-> v.pc, conn |-> v.conn, op |-> v.op, cancelled |-> v.cancelled,
         leased |-> v.leased, prepared |-> v.prepared, plan |-> v.plan,
         known |-> v.known, seen |-> v.seen, result |-> v.result,
         finished |-> v.finished, owed |-> v.owed]

ClientShape(l) ==
    l = [state |-> l.state, busy |-> l.busy, inbox |-> l.inbox, doing |-> l.doing,
         todo |-> l.todo, failed |-> l.failed, lease |-> l.lease,
         prepared |-> l.prepared, refused |-> l.refused]

RemoteShape(r) ==
    r = [up |-> r.up, reading |-> r.reading, serial |-> r.serial,
         pending |-> r.pending, hand |-> r.hand, closing |-> r.closing]

WireShape(c) ==
    c = [down |-> c.down, back |-> c.back, cut |-> c.cut]

\* A caller with another value in a field has the same fields.
LEMMA CallerFields ==
    ASSUME NEW v, CallerShape(v), NEW x
    PROVE  /\ CallerShape([v EXCEPT !.pc = x])
           /\ CallerShape([v EXCEPT !.conn = x])
           /\ CallerShape([v EXCEPT !.op = x])
           /\ CallerShape([v EXCEPT !.cancelled = x])
           /\ CallerShape([v EXCEPT !.leased = x])
           /\ CallerShape([v EXCEPT !.prepared = x])
           /\ CallerShape([v EXCEPT !.plan = x])
           /\ CallerShape([v EXCEPT !.known = x])
           /\ CallerShape([v EXCEPT !.seen = x])
           /\ CallerShape([v EXCEPT !.result = x])
           /\ CallerShape([v EXCEPT !.finished = x])
           /\ CallerShape([v EXCEPT !.owed = x])
  BY SMTT(30) DEF CallerShape

\* So has a client's end,
LEMMA ClientFields ==
    ASSUME NEW l, ClientShape(l), NEW x
    PROVE  /\ ClientShape([l EXCEPT !.state = x])
           /\ ClientShape([l EXCEPT !.busy = x])
           /\ ClientShape([l EXCEPT !.inbox = x])
           /\ ClientShape([l EXCEPT !.doing = x])
           /\ ClientShape([l EXCEPT !.todo = x])
           /\ ClientShape([l EXCEPT !.failed = x])
           /\ ClientShape([l EXCEPT !.lease = x])
           /\ ClientShape([l EXCEPT !.prepared = x])
           /\ ClientShape([l EXCEPT !.refused = x])
  BY SMTT(30) DEF ClientShape

\* a server's end,
LEMMA RemoteFields ==
    ASSUME NEW r, RemoteShape(r), NEW x
    PROVE  /\ RemoteShape([r EXCEPT !.up = x])
           /\ RemoteShape([r EXCEPT !.reading = x])
           /\ RemoteShape([r EXCEPT !.serial = x])
           /\ RemoteShape([r EXCEPT !.pending = x])
           /\ RemoteShape([r EXCEPT !.hand = x])
           /\ RemoteShape([r EXCEPT !.closing = x])
  BY DEF RemoteShape

\* and a wire.
LEMMA WireFields ==
    ASSUME NEW c, WireShape(c), NEW x
    PROVE  /\ WireShape([c EXCEPT !.down = x])
           /\ WireShape([c EXCEPT !.back = x])
           /\ WireShape([c EXCEPT !.cut = x])
  BY DEF WireShape

IsSeq(s) == \E S : s \in Seq(S)

\* Appending to a sequence.
LEMMA AppendSeq ==
    ASSUME NEW s, IsSeq(s), NEW x
    PROVE  /\ IsSeq(Append(s, x)) /\ Append(s, x) # <<>>
           /\ Len(s) \in Nat /\ Len(Append(s, x)) = Len(s) + 1
           /\ \A i \in 1..Len(Append(s, x)) : Append(s, x)[i] = IF i <= Len(s) THEN s[i] ELSE x
  <1>1. PICK S : s \in Seq(S)
    BY DEF IsSeq
  <1>2. s \in Seq(S \cup {x})
    BY <1>1
  <1>3. Append(s, x) \in Seq(S \cup {x})
    BY <1>2
  <1>4. /\ Len(s) \in Nat /\ Len(Append(s, x)) = Len(s) + 1
        /\ \A i \in 1..Len(Append(s, x)) : Append(s, x)[i] = IF i <= Len(s) THEN s[i] ELSE x
    BY <1>2
  <1>5. Append(s, x) # <<>>
    BY <1>3, <1>4
  <1> QED
    BY <1>3, <1>4, <1>5 DEF IsSeq

\* Taking the first of a sequence.
LEMMA TailSeq ==
    ASSUME NEW s, IsSeq(s), s # <<>>
    PROVE  /\ IsSeq(Tail(s))
           /\ Len(s) \in Nat /\ Len(s) > 0 /\ Head(s) = s[1]
           /\ Len(Tail(s)) = Len(s) - 1
           /\ \A i \in 1..Len(Tail(s)) : i + 1 \in 1..Len(s) /\ Tail(s)[i] = s[i + 1]
           /\ Len(s) = 1 => Tail(s) = <<>>
  <1>1. PICK S : s \in Seq(S)
    BY DEF IsSeq
  <1>2. Tail(s) \in Seq(S)
    BY <1>1
  <1>3. /\ Len(s) \in Nat /\ Len(s) > 0 /\ Head(s) = s[1]
        /\ Len(Tail(s)) = Len(s) - 1
        /\ \A i \in 1..Len(Tail(s)) : i + 1 \in 1..Len(s) /\ Tail(s)[i] = s[i + 1]
    BY <1>1
  <1>4. Len(s) = 1 => Tail(s) = <<>>
    BY <1>2, <1>3
  <1> QED
    BY <1>2, <1>3, <1>4 DEF IsSeq

\* The empty sequence is one.
LEMMA EmptySeq ==
    /\ IsSeq(<<>>) /\ Len(<<>>) = 0 /\ Len(<<>>) <= 1
    /\ \A i : i \notin 1..Len(<<>>)
  <1>1. <<>> \in Seq({})
    OBVIOUS
  <1>2. Len(<<>>) = 0
    OBVIOUS
  <1>3. \A i : i \notin 1..0
    OBVIOUS
  <1> QED
    BY <1>1, <1>2, <1>3 DEF IsSeq

\* A sequence of at most one element.
LEMMA ShortSeq ==
    ASSUME NEW s, IsSeq(s), s # <<>>, Len(s) <= 1
    PROVE  Len(s) = 1 /\ 1 \in 1..Len(s) /\ Head(s) = s[1] /\ Tail(s) = <<>>
  <1>1. Len(s) \in Nat /\ Len(s) > 0 /\ Head(s) = s[1] /\ (Len(s) = 1 => Tail(s) = <<>>)
    BY TailSeq
  <1>2. \A n \in Nat : n > 0 /\ n <= 1 => n = 1 /\ 1 \in 1..n
    OBVIOUS
  <1> QED
    BY <1>1, <1>2, Zenon

\* What is appended to the empty sequence is all there is in it.
LEMMA OneSeq ==
    ASSUME NEW x
    PROVE  /\ IsSeq(Append(<<>>, x)) /\ Append(<<>>, x) # <<>> /\ Len(Append(<<>>, x)) = 1
           /\ \A i \in 1..Len(Append(<<>>, x)) : Append(<<>>, x)[i] = x
  <1>1. <<>> \in Seq({x}) /\ Append(<<>>, x) \in Seq({x})
    OBVIOUS
  <1>2. /\ Append(<<>>, x) # <<>> /\ Len(Append(<<>>, x)) = 1
        /\ \A i \in 1..Len(Append(<<>>, x)) : Append(<<>>, x)[i] = x
    BY <1>1
  <1> QED
    BY <1>1, <1>2, Zenon DEF IsSeq

-----------------------------------------------------------------------------
(* The inductive invariant. *)

Ops == {"attest", "acquire", "read", "prepare", "apply", "release"}

\* The operations that need a lease.
Leasing == {"read", "prepare", "apply", "release"}

InCall == {"sent", "drain"}

\* A request that some caller sends.
IsRequest(q) ==
    /\ q = [from |-> q.from, op |-> q.op, leased |-> q.leased,
            plan |-> q.plan, expected |-> q.expected]
    /\ q.from \in Worker
    /\ q.op \in Ops
    /\ q.op \in Leasing => q.leased = TRUE

\* Who has an access, or is in a call that needs one, was told of a lease; who
\* attests or acquires was not.  Between calls nothing is left of the last one.
IsCaller(v) ==
    /\ CallerShape(v)
    /\ v.pc = "held" \/ v.op \in Leasing => v.leased = TRUE
    /\ v.pc = "idle" \/ v.op \in {"attest", "acquire"} => v.leased = FALSE
    /\ v.pc \in InCall => v.op \in Ops
    /\ v.pc = "serial" => v.op \in {"acquire", "release"}
    /\ v.pc = "sleep" => v.op = "acquire"
    /\ v.pc # "idle" => v.conn \in Conn
    /\ v.pc \notin InCall => v.result = <<>> /\ v.finished = FALSE /\ v.owed = 0

IsRemote(r) ==
    /\ RemoteShape(r)
    /\ r.up \in BOOLEAN
    /\ r.serial \in Worker \cup {Nobody}
    /\ r.hand.to \in Worker \cup {Nobody}

IsWire(c) ==
    /\ WireShape(c)
    /\ c.cut \in BOOLEAN
    /\ IsSeq(c.down) /\ IsSeq(c.back)
    /\ Len(c.down) <= 1
    /\ \A i \in 1..Len(c.down) : IsRequest(c.down[i])

\* A client works on one request, and only works for a lease.
IsClient(l) ==
    /\ ClientShape(l)
    /\ l.busy \in BOOLEAN
    /\ l.refused = FALSE
    /\ l.lease \in Worker \cup {Nobody}
    /\ l.inbox # NoRequest => IsRequest(l.inbox) /\ l.busy = TRUE /\ l.doing = NoRequest
    /\ l.doing # NoRequest => l.busy = TRUE /\ l.doing.op = "apply"
    /\ l.doing = NoRequest => l.todo = <<>>
    /\ l.todo # <<>> => l.lease # Nobody

PartsHold ==
    /\ remote = [k \in Conn |-> remote[k]] /\ \A k \in Conn : IsRemote(remote[k])
    /\ wire = [k \in Conn |-> wire[k]] /\ \A k \in Conn : IsWire(wire[k])
    /\ local = [k \in Conn |-> local[k]] /\ \A k \in Conn : IsClient(local[k])
    /\ worker = [w \in Worker |-> worker[w]] /\ \A w \in Worker : IsCaller(worker[w])

\* A lease goes with the fence.
LeasesFenced == \A k \in Conn : local[k].lease # Nobody => fence = k

\* No request is under way to a client that works on one.
OneAtATime == \A k \in Conn : local[k].busy = TRUE => wire[k].down = <<>>

\* Changes in a caller's channel and in the reader's hand.
InChannel(v) == IF v.result # <<>> /\ ~Head(v.result).last THEN 1 ELSE 0
InHand(w, r) == IF r.hand.to = w /\ ~r.hand.last THEN 1 ELSE 0

\* Who is in a call has the connection's token, and is owed the changes that
\* the reader has taken from the socket; with the last word for it, or when it
\* is finished, the reader is done with it.
IsCall(w, v, r) ==
    /\ r.serial = w
    /\ v.pc = "drain" => r.up = FALSE
    /\ v.owed = InChannel(v) + InHand(w, r)
    /\ v.finished \/ (v.result # <<>> /\ Head(v.result).last) => r.hand.to # w /\ r.pending # w
    /\ r.hand.to = w /\ r.hand.last => r.pending # w

CallsHold == \A w \in Worker : worker[w].pc \in InCall => IsCall(w, worker[w], remote[worker[w].conn])

\* On a connection that is up, the token is that of a call, and the reader
\* works for that call.
IsServing(k, r, W) ==
    r.up =>
        /\ r.serial # Nobody => W[r.serial].conn = k /\ W[r.serial].pc = "sent"
        /\ r.hand.to \in {Nobody, r.serial}
        /\ r.pending \in {Nobody, r.serial}

ServersHold == \A k \in Conn : IsServing(k, remote[k], worker)

Quiet(c, l) == c.down = <<>> /\ l.busy = FALSE

\* The last word f on the call of s: nothing is under way any more, and an
\* acquisition was told if it has the lease.
IsLastWord(f, s, op, c, l) ==
    f.last => Quiet(c, l) /\ (op = "acquire" => f.outcome = "ok" \/ l.lease # s)

\* On a connection that is up and whole, all that is under way belongs to the
\* call that has the token, and the last word on it comes last.
IsExchange(s, r, c, l, v) ==
    /\ \A i \in 1..Len(c.down) : c.down[i].from = s /\ c.down[i].op = v.op
    /\ l.inbox # NoRequest => l.inbox.from = s /\ l.inbox.op = v.op
    /\ l.doing # NoRequest => l.doing.from = s /\ l.doing.op = v.op
    /\ \A i \in 1..Len(c.back) :
          /\ IsLastWord(c.back[i], s, v.op, c, l)
          /\ c.back[i].last => i = Len(c.back)
    /\ r.hand.to # Nobody =>
          IsLastWord(r.hand, s, v.op, c, l) /\ (r.hand.last => c.back = <<>>)
    /\ v.result # <<>> =>
          /\ IsLastWord(Head(v.result), s, v.op, c, l)
          /\ Head(v.result).last => r.hand.to = Nobody /\ c.back = <<>>
    /\ v.op = "release" /\ Quiet(c, l) => l.lease # s

IsLive(r, c, l, W) ==
    r.up /\ ~c.cut =>
        IF r.serial = Nobody THEN Quiet(c, l) /\ c.back = <<>>
        ELSE IsExchange(r.serial, r, c, l, W[r.serial])

LiveHold == \A k \in Conn : IsLive(remote[k], wire[k], local[k], worker)

\* A lease on such a connection is that of a caller which knows of it, or which
\* is about to be told.
IsOwned(k, r, c, l, W) ==
    r.up /\ ~c.cut /\ l.lease # Nobody =>
        LET v == W[l.lease]
        IN  v.conn = k /\ (v.leased = TRUE \/ (v.op = "acquire" /\ v.pc = "sent" /\ Quiet(c, l)))

OwnersHold == \A k \in Conn : IsOwned(k, remote[k], wire[k], local[k], worker)

IInv == /\ PartsHold /\ LeasesFenced /\ OneAtATime
        /\ CallsHold /\ ServersHold /\ LiveHold /\ OwnersHold

-----------------------------------------------------------------------------
(* What the operators of the model do to records. *)

\* Connections differ from the other owners of the fence.
LEMMA ConnFacts == Conn \subseteq Nat /\ Free \notin Conn /\ Host \notin Conn /\ Host # Free
  BY TransportAssumption DEF Conn, Free, Host

\* remote.stop takes a connection down and leaves the token and the reader alone.
LEMMA ClosedFacts ==
    ASSUME NEW r, RemoteShape(r)
    PROVE  /\ RemoteShape(Closed(r)) /\ Closed(r).up = FALSE
           /\ Closed(r).serial = r.serial /\ Closed(r).hand = r.hand
           /\ Closed(r).pending = r.pending
  <1>1. RemoteShape(Closed(r))
    BY RemoteFields, Zenon DEF Closed
  <1>2. /\ Closed(r).up = FALSE /\ Closed(r).serial = r.serial /\ Closed(r).hand = r.hand
        /\ Closed(r).pending = r.pending
    BY Zenon DEF Closed, RemoteShape
  <1> QED
    BY <1>1, <1>2

\* Its socket loses the replies under way.
LEMMA CutFacts ==
    ASSUME NEW c, IsWire(c)
    PROVE  IsWire(Cut(c)) /\ Cut(c).cut = TRUE /\ Cut(c).down = c.down
  <1>1. WireShape(Cut(c))
    BY WireFields, Zenon DEF Cut, IsWire
  <1>2. Cut(c).cut = TRUE /\ Cut(c).back = <<>> /\ Cut(c).down = c.down
    BY Zenon DEF Cut, IsWire, WireShape
  <1> QED
    BY <1>1, <1>2, EmptySeq, Zenon DEF IsWire

\* A call that is over gives the token back and nothing else.
LEMMA ReleasedFacts ==
    ASSUME NEW r, RemoteShape(r)
    PROVE  /\ RemoteShape(Released(r)) /\ Released(r).serial = Nobody
           /\ Released(r).up = r.up /\ Released(r).hand = r.hand
           /\ Released(r).pending = r.pending
  <1>1. RemoteShape(Released(r))
    BY RemoteFields, Zenon DEF Released
  <1>2. /\ Released(r).serial = Nobody /\ Released(r).up = r.up /\ Released(r).hand = r.hand
        /\ Released(r).pending = r.pending
    BY Zenon DEF Released, RemoteShape
  <1> QED
    BY <1>1, <1>2

\* A new caller.
LEMMA IdleFacts == IsCaller(IdleWorker) /\ IdleWorker.pc = "idle" /\ IdleWorker.leased = FALSE
  <1>1. CallerShape(IdleWorker)
    BY DEF CallerShape, IdleWorker
  <1>2. /\ IdleWorker.pc = "idle" /\ IdleWorker.op = "none" /\ IdleWorker.leased = FALSE
        /\ IdleWorker.result = <<>> /\ IdleWorker.finished = FALSE /\ IdleWorker.owed = 0
    BY DEF IdleWorker
  <1> QED
    BY <1>1, <1>2 DEF IsCaller, Leasing, InCall

\* A caller that takes a change is still in its call.
LEMMA ObservedFacts ==
    ASSUME NEW v, CallerShape(v), NEW change
    PROVE  LET u == Observed(v, change)
           IN  /\ CallerShape(u)
               /\ u.pc = v.pc /\ u.conn = v.conn /\ u.op = v.op /\ u.leased = v.leased
               /\ u.result = <<>> /\ u.finished = v.finished /\ u.owed = v.owed - 1
  <1> DEFINE u == Observed(v, change)
  <1>1. CallerShape(u)
    BY CallerFields, Zenon DEF Observed
  <1>2. /\ u.pc = v.pc /\ u.conn = v.conn /\ u.op = v.op /\ u.leased = v.leased
        /\ u.result = <<>> /\ u.finished = v.finished /\ u.owed = v.owed - 1
    BY Zenon DEF Observed, CallerShape
  <1> QED
    BY <1>1, <1>2

\* A caller that is owed nothing.
LEMMA ZeroOwed ==
    ASSUME NEW v, IsCaller(v)
    PROVE  IsCaller([v EXCEPT !.owed = 0]) /\ [v EXCEPT !.owed = 0].pc = v.pc
  <1> DEFINE u == [v EXCEPT !.owed = 0]
  <1>1. CallerShape(u)
    BY CallerFields, Zenon DEF IsCaller
  <1>2. /\ u.conn = v.conn /\ u.result = v.result /\ u.finished = v.finished /\ u.owed = 0
        /\ u.leased = v.leased /\ u.pc = v.pc /\ u.op = v.op
    BY Zenon DEF CallerShape, IsCaller
  <1> HIDE DEF u
  <1>3. IsCaller(u) /\ u.pc = v.pc
    BY <1>1, <1>2 DEF IsCaller
  <1> QED
    BY <1>3 DEF u

\* What a call leaves behind when it returns.  A caller that is not told of a
\* lease has none; one that was granted a lease knows it; others keep theirs,
\* unless they gave it back.
LEMMA ReturnedFacts ==
    ASSUME NEW v, IsCaller(v), v.pc \in InCall, NEW outcome, NEW view
    PROVE  LET u == Returned(v, outcome, view)
           IN  /\ v.owed = 0 => IsCaller(u)
               /\ IsCaller([u EXCEPT !.owed = 0])
               /\ u.pc \notin InCall /\ [u EXCEPT !.owed = 0].pc \notin InCall
               /\ \/ v.op = "attest" \/ v.op = "release"
                  \/ v.op = "acquire" /\ outcome # "ok"
                  \/ u.conn = v.conn /\ u.leased = TRUE
  <1> DEFINE u == Returned(v, outcome, view)
             r == [v EXCEPT !.result = <<>>, !.finished = FALSE, !.seen = {}]
             held == [r EXCEPT !.pc = "held", !.op = "none"]
             Same(x) == /\ CallerShape(x) /\ x.conn = v.conn
                        /\ x.result = <<>> /\ x.finished = FALSE /\ x.owed = v.owed
  <1> DEFINE Good(x) == /\ Same(x)
                        /\ \/ x.pc = "held" /\ x.op = "none" /\ x.leased = TRUE
                           \/ x.pc = "serial" /\ x.op = "release" /\ x.leased = TRUE
                           \/ x.pc = "sleep" /\ x.op = "acquire" /\ x.leased = FALSE
  <1>1. CallerShape(v) /\ v.conn \in Conn /\ v.op \in Ops
    BY DEF IsCaller, InCall
  <1>2. CallerShape(r)
    BY <1>1, CallerFields, Zenon
  <1>3. /\ r.conn = v.conn /\ r.result = <<>> /\ r.finished = FALSE /\ r.owed = v.owed
        /\ r.leased = v.leased /\ r.op = v.op
    BY <1>1, Zenon DEF CallerShape
  <1> HIDE DEF r
  <1>4. CallerShape(held)
    BY <1>2, CallerFields, Zenon
  <1>5. /\ held.conn = v.conn /\ held.result = <<>> /\ held.finished = FALSE /\ held.owed = v.owed
        /\ held.leased = v.leased /\ held.op = "none" /\ held.pc = "held"
    BY <1>2, <1>3, Zenon DEF CallerShape
  <1> HIDE DEF held
  <1> DEFINE Told(x) == \/ v.op = "attest" \/ v.op = "release"
                        \/ v.op = "acquire" /\ outcome # "ok"
                        \/ x.conn = v.conn /\ x.leased = TRUE
  <1>6. (u = IdleWorker \/ Good(u)) /\ Told(u)
    <2>1. CASE v.op \in {"attest", "release"}
      BY <2>1, Zenon DEF Returned
    <2>2. CASE v.op = "acquire"
      <3>1. u = Acquired(v, r, outcome)
        BY <2>2, Zenon DEF Returned, r
      <3>2. CASE outcome = "ok"
        <4>1. PICK pc, op : /\ u = [r EXCEPT !.leased = TRUE, !.pc = pc, !.op = op]
                            /\ \/ pc = "serial" /\ op = "release"
                               \/ pc = "held" /\ op = "none"
          BY <3>1, <3>2, Zenon DEF Acquired
        <4>2. CallerShape([r EXCEPT !.leased = TRUE, !.pc = pc, !.op = op])
          BY <1>2, CallerFields, Zenon
        <4>3. /\ u.conn = v.conn /\ u.result = <<>> /\ u.finished = FALSE /\ u.owed = v.owed
              /\ u.leased = TRUE /\ u.pc = pc /\ u.op = op
          BY <1>2, <1>3, <4>1, Zenon DEF CallerShape
        <4> HIDE DEF u
        <4> QED
          BY <4>1, <4>2, <4>3
      <3>3. CASE outcome = "busy" /\ ~v.cancelled
        <4>1. u = [r EXCEPT !.pc = "sleep"]
          BY <3>1, <3>3 DEF Acquired
        <4>2. CallerShape([r EXCEPT !.pc = "sleep"])
          BY <1>2, CallerFields, Zenon
        <4>3. /\ u.conn = v.conn /\ u.result = <<>> /\ u.finished = FALSE /\ u.owed = v.owed
              /\ u.leased = v.leased /\ u.pc = "sleep" /\ u.op = v.op
          BY <1>2, <1>3, <4>1, Zenon DEF CallerShape
        <4>4. v.leased = FALSE
          BY <2>2 DEF IsCaller
        <4> HIDE DEF u
        <4> QED
          BY <2>2, <3>3, <4>1, <4>2, <4>3, <4>4
      <3>4. CASE outcome # "ok" /\ ~(outcome = "busy" /\ ~v.cancelled)
        BY <2>2, <3>1, <3>4, Zenon DEF Acquired
      <3> QED
        BY <3>2, <3>3, <3>4, Zenon
    <2>3. CASE v.op \in {"read", "prepare", "apply"}
      <3>1. \/ \E x : u = [held EXCEPT !.known = x]
            \/ \E x, y : u = [held EXCEPT !.prepared = x, !.plan = y]
        BY <2>3, Zenon DEF Returned, held, r
      <3>2. ASSUME NEW x, NEW y
            PROVE  /\ CallerShape([held EXCEPT !.known = x])
                   /\ CallerShape([held EXCEPT !.prepared = x, !.plan = y])
        BY <1>4, CallerFields, Zenon
      <3>3. /\ u.conn = held.conn /\ u.result = held.result /\ u.finished = held.finished
            /\ u.owed = held.owed /\ u.leased = held.leased /\ u.pc = held.pc /\ u.op = held.op
        BY <1>4, <3>1, Zenon DEF CallerShape
      <3>4. v.leased = TRUE
        BY <2>3 DEF IsCaller, Leasing
      <3> HIDE DEF u
      <3>5. CallerShape(u)
        <4>1. CASE \E x : u = [held EXCEPT !.known = x]
          BY <3>2, <4>1, Zenon
        <4>2. CASE \E x, y : u = [held EXCEPT !.prepared = x, !.plan = y]
          <5>1. PICK x, y : u = [held EXCEPT !.prepared = x, !.plan = y]
            BY <4>2, Zenon
          <5>2. CallerShape([held EXCEPT !.prepared = x, !.plan = y])
            BY <3>2, Zenon
          <5> QED
            BY <5>1, <5>2, Zenon
        <4> QED
          BY <3>1, <4>1, <4>2, Zenon
      <3> QED
        BY <1>5, <3>3, <3>4, <3>5, Zenon
    <2> QED
      BY <1>1, <2>1, <2>2, <2>3, Zenon DEF Ops
  <1> HIDE DEF u
  <1>7. CASE u = IdleWorker
    <2>1. IsCaller(u) /\ u.pc = "idle"
      BY <1>7, IdleFacts
    <2> QED
      BY <1>6, <2>1, ZeroOwed DEF InCall, u
  <1>8. CASE Good(u)
    <2>1. v.owed = 0 => IsCaller(u)
      BY <1>1, <1>8, Zenon DEF IsCaller, InCall, Leasing
    <2>2. CallerShape([u EXCEPT !.owed = 0])
      BY <1>8, CallerFields, Zenon
    <2>3. LET x == [u EXCEPT !.owed = 0]
          IN  /\ x.conn = u.conn /\ x.result = u.result /\ x.finished = u.finished /\ x.owed = 0
              /\ x.leased = u.leased /\ x.pc = u.pc /\ x.op = u.op
      BY <1>8, Zenon DEF CallerShape
    <2>4. IsCaller([u EXCEPT !.owed = 0])
      BY <1>1, <1>8, <2>2, <2>3 DEF IsCaller, InCall, Leasing
    <2> QED
      BY <1>6, <1>8, <2>1, <2>3, <2>4 DEF InCall, u
  <1> QED
    BY <1>6, <1>7, <1>8, Zenon

-----------------------------------------------------------------------------
(* What a step has to keep. *)

\* A step changes one connection, and a caller that is on it or idle (remote.call,
\* read): what has to be shown of the step is about these.
LEMMA StepHolds ==
    ASSUME IInv,
           NEW k \in Conn, NEW w \in Worker \cup {Nobody},
           NEW r, NEW c, NEW l, NEW v,
           remote' = [remote EXCEPT ![k] = r], wire' = [wire EXCEPT ![k] = c],
           local' = [local EXCEPT ![k] = l], worker' = [worker EXCEPT ![w] = v],
           IsRemote(r), IsWire(c), IsClient(l),
           w \in Worker => IsCaller(v) /\ (worker[w].conn = k \/ worker[w].pc = "idle"),
           l.lease # Nobody => fence' = k,
           fence' = fence \/ fence \in {k, Free},
           l.busy = TRUE => c.down = <<>>,
           w \in Worker /\ v.pc \in InCall => v.conn = k /\ IsCall(w, v, r),
           \A u \in Worker \ {w} :
               worker[u].pc \in InCall /\ worker[u].conn = k => IsCall(u, worker[u], r),
           IsServing(k, r, worker'), IsLive(r, c, l, worker'), IsOwned(k, r, c, l, worker')
    PROVE  IInv'
  <1>1. /\ remote'[k] = r /\ wire'[k] = c /\ local'[k] = l
        /\ \A j \in Conn \ {k} : remote'[j] = remote[j] /\ wire'[j] = wire[j] /\ local'[j] = local[j]
    BY Zenon DEF IInv, PartsHold
  <1>2. /\ w \in Worker => worker'[w] = v
        /\ \A u \in Worker \ {w} : worker'[u] = worker[u]
    BY DEF IInv, PartsHold
  <1>3. PartsHold'
    <2>1. remote' = [j \in Conn |-> remote'[j]] /\ \A j \in Conn : IsRemote(remote'[j])
      BY <1>1, Zenon DEF IInv, PartsHold
    <2>2. wire' = [j \in Conn |-> wire'[j]] /\ \A j \in Conn : IsWire(wire'[j])
      BY <1>1, Zenon DEF IInv, PartsHold
    <2>3. local' = [j \in Conn |-> local'[j]] /\ \A j \in Conn : IsClient(local'[j])
      BY <1>1, Zenon DEF IInv, PartsHold
    <2>4. worker' = [u \in Worker |-> worker'[u]] /\ \A u \in Worker : IsCaller(worker'[u])
      BY <1>2, Zenon DEF IInv, PartsHold
    <2> QED
      BY <2>1, <2>2, <2>3, <2>4 DEF PartsHold
  <1>4. LeasesFenced'
    BY <1>1, ConnFacts, SMTT(30) DEF IInv, LeasesFenced
  <1>5. OneAtATime'
    BY <1>1, Zenon DEF IInv, OneAtATime
  <1>6. CallsHold'
    <2> SUFFICES ASSUME NEW u \in Worker, worker'[u].pc \in InCall
                 PROVE  IsCall(u, worker'[u], remote'[worker'[u].conn])
      BY Zenon DEF CallsHold
    <2>1. CASE u = w
      BY <1>1, <1>2, <2>1, ZenonT(40)
    <2>2. CASE u # w
      <3>1. worker'[u] = worker[u] /\ worker[u].conn \in Conn
        BY <1>2, <2>2, Zenon DEF IInv, PartsHold, IsCaller, InCall
      <3>2. CASE worker[u].conn = k
        BY <1>1, <2>2, <3>1, <3>2, Zenon
      <3>3. CASE worker[u].conn # k
        BY <1>1, <3>1, <3>3, ZenonT(40) DEF IInv, CallsHold
      <3> QED
        BY <3>2, <3>3, Zenon
    <2> QED
      BY <2>1, <2>2, Zenon
  <1>7. ASSUME NEW j \in Conn \ {k}, remote[j].up, remote[j].serial # Nobody
        PROVE  worker'[remote[j].serial] = worker[remote[j].serial]
    <2> DEFINE s == remote[j].serial
    <2>1. s \in Worker
      BY <1>7, Zenon DEF IInv, PartsHold, IsRemote
    <2>2. worker[s].conn = j /\ worker[s].pc = "sent"
      BY <1>7, Zenon DEF IInv, ServersHold, IsServing
    <2> QED
      BY <1>2, <2>1, <2>2, Zenon
  <1>8. ServersHold'
    <2> SUFFICES ASSUME NEW j \in Conn \ {k} PROVE IsServing(j, remote[j], worker')
      BY <1>1, Zenon DEF ServersHold
    <2>1. IsServing(j, remote[j], worker)
      BY Zenon DEF IInv, ServersHold
    <2> QED
      BY <1>7, <2>1, Zenon DEF IsServing
  <1>9. LiveHold'
    <2> SUFFICES ASSUME NEW j \in Conn \ {k}
                 PROVE  IsLive(remote[j], wire[j], local[j], worker')
      BY <1>1, Zenon DEF LiveHold
    <2>1. IsLive(remote[j], wire[j], local[j], worker)
      BY Zenon DEF IInv, LiveHold
    <2> QED
      BY <1>7, <2>1, Zenon DEF IsLive
  <1>10. OwnersHold'
    <2> SUFFICES ASSUME NEW j \in Conn \ {k}
                 PROVE  IsOwned(j, remote[j], wire[j], local[j], worker')
      BY <1>1, Zenon DEF OwnersHold
    <2> SUFFICES ASSUME remote[j].up, ~wire[j].cut, local[j].lease # Nobody
                 PROVE  IsOwned(j, remote[j], wire[j], local[j], worker')
      BY Zenon DEF IsOwned
    <2> DEFINE s == local[j].lease
    <2>1. s \in Worker
      BY Zenon DEF IInv, PartsHold, IsClient
    <2>2. /\ worker[s].conn = j
          /\ worker[s].leased = TRUE
             \/ (worker[s].op = "acquire" /\ worker[s].pc = "sent" /\ Quiet(wire[j], local[j]))
      BY Zenon DEF IInv, OwnersHold, IsOwned
    <2>3. s # w
      BY <2>1, <2>2, Zenon DEF IInv, PartsHold, IsCaller
    <2>4. worker'[s] = worker[s]
      BY <1>2, <2>1, <2>3, Zenon
    <2> QED
      BY <2>2, <2>4, Zenon DEF IsOwned
  <1> QED
    BY <1>3, <1>4, <1>5, <1>6, <1>8, <1>9, <1>10, Zenon DEF IInv

\* What stays as it is.
LEMMA SameParts ==
    ASSUME IInv, NEW k \in Conn
    PROVE  /\ remote = [remote EXCEPT ![k] = remote[k]] /\ wire = [wire EXCEPT ![k] = wire[k]]
           /\ local = [local EXCEPT ![k] = local[k]]
           /\ \A v : worker = [worker EXCEPT ![Nobody] = v]
           /\ \A w \in Worker : worker = [worker EXCEPT ![w] = worker[w]]
           /\ IsRemote(remote[k]) /\ IsWire(wire[k]) /\ IsClient(local[k])
           /\ \A w \in Worker : IsCaller(worker[w])
  BY TransportAssumption, Zenon DEF IInv, PartsHold

\* What holds at a connection.
LEMMA HereFacts ==
    ASSUME IInv, NEW k \in Conn
    PROVE  /\ local[k].lease # Nobody => fence = k
           /\ local[k].busy = TRUE => wire[k].down = <<>>
           /\ IsServing(k, remote[k], worker)
           /\ IsLive(remote[k], wire[k], local[k], worker)
           /\ IsOwned(k, remote[k], wire[k], local[k], worker)
           /\ \A u \in Worker : worker[u].pc \in InCall /\ worker[u].conn = k =>
                                    IsCall(u, worker[u], remote[k])
  BY Zenon DEF IInv, LeasesFenced, OneAtATime, ServersHold, LiveHold, OwnersHold, CallsHold

\* Nothing is claimed of a connection that is down,
LEMMA DownFacts ==
    ASSUME NEW k, NEW r, NEW c, NEW l, NEW W, r.up = FALSE
    PROVE  IsServing(k, r, W) /\ IsLive(r, c, l, W) /\ IsOwned(k, r, c, l, W)
  BY Zenon DEF IsServing, IsLive, IsOwned

\* and little of one whose socket has failed.
LEMMA CutWireFacts ==
    ASSUME NEW k, NEW r, NEW c, NEW l, NEW W, c.cut = TRUE
    PROVE  IsLive(r, c, l, W) /\ IsOwned(k, r, c, l, W)
  BY Zenon DEF IsLive, IsOwned

\* A step that changes no caller.
LEMMA ConnectionStep ==
    ASSUME IInv, NEW k \in Conn, NEW r, NEW c, NEW l,
           remote' = [remote EXCEPT ![k] = r], wire' = [wire EXCEPT ![k] = c],
           local' = [local EXCEPT ![k] = l], worker' = worker,
           IsRemote(r), IsWire(c), IsClient(l),
           l.lease # Nobody => fence' = k,
           fence' = fence \/ fence \in {k, Free},
           l.busy = TRUE => c.down = <<>>,
           \A u \in Worker : worker[u].pc \in InCall /\ worker[u].conn = k => IsCall(u, worker[u], r),
           IsServing(k, r, worker), IsLive(r, c, l, worker), IsOwned(k, r, c, l, worker)
    PROVE  IInv'
  <1>1. PICK v : v = Nobody
    BY Zenon
  <1>2. worker' = [worker EXCEPT ![Nobody] = v]
    BY SameParts, Zenon
  <1>3. Nobody \notin Worker
    BY TransportAssumption, Zenon
  <1>4. \A u \in Worker \ {Nobody} :
            worker[u].pc \in InCall /\ worker[u].conn = k => IsCall(u, worker[u], r)
    BY Zenon
  <1>5. IsServing(k, r, worker') /\ IsLive(r, c, l, worker') /\ IsOwned(k, r, c, l, worker')
    BY Zenon
  <1> QED
    BY <1>2, <1>3, <1>4, <1>5, StepHolds, Zenon

\* A step of a caller, or of the reader for one.
LEMMA CallerStep ==
    ASSUME IInv, NEW k \in Conn, NEW w \in Worker, NEW r, NEW c, NEW v,
           remote' = [remote EXCEPT ![k] = r], wire' = [wire EXCEPT ![k] = c],
           worker' = [worker EXCEPT ![w] = v], local' = local, fence' = fence,
           IsRemote(r), IsWire(c), IsCaller(v),
           worker[w].conn = k \/ worker[w].pc = "idle",
           local[k].busy = TRUE => c.down = <<>>,
           v.pc \in InCall => v.conn = k /\ IsCall(w, v, r),
           \A u \in Worker \ {w} :
               worker[u].pc \in InCall /\ worker[u].conn = k => IsCall(u, worker[u], r),
           IsServing(k, r, worker'), IsLive(r, c, local[k], worker'),
           IsOwned(k, r, c, local[k], worker')
    PROVE  IInv'
  <1>1. /\ local' = [local EXCEPT ![k] = local[k]] /\ IsClient(local[k])
        /\ local[k].lease # Nobody => fence' = k
    BY SameParts, HereFacts, Zenon
  <1>2. w \in Worker \cup {Nobody}
    BY Zenon
  <1>3. w \in Worker => IsCaller(v) /\ (worker[w].conn = k \/ worker[w].pc = "idle")
    BY Zenon
  <1>4. fence' = fence \/ fence \in {k, Free}
    BY Zenon
  <1>5. w \in Worker /\ v.pc \in InCall => v.conn = k /\ IsCall(w, v, r)
    BY Zenon
  <1> QED
    BY <1>1, <1>2, <1>3, <1>4, <1>5, StepHolds, Zenon

\* The call of a caller on a connection that goes down.
LEMMA ClosedCall ==
    ASSUME NEW u, NEW v, NEW r, RemoteShape(r), IsCall(u, v, r)
    PROVE  IsCall(u, v, Closed(r))
  BY ClosedFacts, Zenon DEF IsCall, InHand

-----------------------------------------------------------------------------
(* The server's end. *)

\* remote.stop keeps the invariant.
LEMMA CloseHolds ==
    ASSUME IInv, NEW k \in Conn, RemoteStop(k) \/ RemoteClose(k)
    PROVE  IInv'
  <1> DEFINE r == Closed(remote[k])
             c == Cut(wire[k])
  <1>1. /\ remote' = [remote EXCEPT ![k] = r] /\ wire' = [wire EXCEPT ![k] = c]
        /\ local' = local /\ worker' = worker /\ fence' = fence
    BY Zenon DEF RemoteStop, RemoteClose
  <1>2. IsRemote(r) /\ r.up = FALSE
    BY SameParts, ClosedFacts, Zenon DEF IsRemote
  <1>3. IsWire(c) /\ c.down = wire[k].down
    BY SameParts, CutFacts, Zenon
  <1>4. \A u \in Worker : worker[u].pc \in InCall /\ worker[u].conn = k => IsCall(u, worker[u], r)
    BY SameParts, HereFacts, ClosedCall, Zenon DEF IsRemote
  <1> HIDE DEF r, c
  <1>5. /\ local' = [local EXCEPT ![k] = local[k]] /\ IsClient(local[k])
        /\ local[k].lease # Nobody => fence' = k
        /\ local[k].busy = TRUE => c.down = <<>>
    BY <1>1, <1>3, SameParts, HereFacts, Zenon
  <1>6. IsServing(k, r, worker) /\ IsLive(r, c, local[k], worker)
          /\ IsOwned(k, r, c, local[k], worker)
    BY <1>2, DownFacts, Zenon
  <1> QED
    BY <1>1, <1>2, <1>3, <1>4, <1>5, <1>6, ConnectionStep, Zenon

\* The reader that drops a reply keeps it: its connection is down.
LEMMA AbandonedHolds ==
    ASSUME IInv, NEW k \in Conn, ReaderAbandoned(k)
    PROVE  IInv'
  <1> DEFINE w == remote[k].hand.to
             r == [remote[k] EXCEPT !.hand = NoFrame, !.reading = FALSE, !.pending = Nobody]
  <1>1. /\ remote' = [remote EXCEPT ![k] = r] /\ wire' = wire /\ local' = local
        /\ worker' = worker /\ fence' = fence
        /\ w # Nobody /\ ~Calling(w, k)
    BY Zenon DEF ReaderAbandoned
  <1>2. RemoteShape(remote[k])
    BY SameParts DEF IsRemote
  <1>3. RemoteShape(r)
    BY <1>2, RemoteFields, Zenon
  <1>4. /\ r.up = remote[k].up /\ r.serial = remote[k].serial /\ r.hand = NoFrame
        /\ r.pending = Nobody
    BY <1>2, Zenon DEF RemoteShape
  <1> HIDE DEF r
  <1>5. NoFrame.to = Nobody
    BY DEF NoFrame, Reply
  <1>6. IsRemote(r)
    BY <1>3, <1>4, <1>5, SameParts DEF IsRemote
  <1>7. r.up = FALSE
    BY <1>1, <1>4, <1>6, HereFacts, Zenon DEF IsServing, Calling, IsRemote
  <1>8. ASSUME NEW u \in Worker, worker[u].pc \in InCall, worker[u].conn = k
        PROVE  IsCall(u, worker[u], r)
    <2>1. u # w
      BY <1>1, <1>8, Zenon DEF Calling, InCall
    <2>2. IsCall(u, worker[u], remote[k])
      BY <1>8, HereFacts, Zenon
    <2> QED
      BY <1>4, <1>5, <1>7, <2>1, <2>2, TransportAssumption, Zenon DEF IsCall, InHand
  <1> QED
    BY <1>1, <1>6, <1>7, <1>8, SameParts, HereFacts, DownFacts, ConnectionStep, Zenon

\* A reader that exits otherwise has nothing in hand, and finishes the call it
\* works for.
LEMMA ExitHolds ==
    ASSUME IInv, NEW k \in Conn, NEW c, IsWire(c), c.down = wire[k].down,
           remote[k].hand.to = Nobody,
           remote' = [remote EXCEPT ![k] =
                         [Closed(remote[k]) EXCEPT !.reading = FALSE, !.pending = Nobody]],
           wire' = [wire EXCEPT ![k] = c], local' = local, fence' = fence, worker' = Finish(k)
    PROVE  IInv'
  <1> DEFINE w == remote[k].pending
             r == [Closed(remote[k]) EXCEPT !.reading = FALSE, !.pending = Nobody]
  <1>1. RemoteShape(Closed(remote[k]))
    BY SameParts, ClosedFacts, Zenon DEF IsRemote
  <1>2. RemoteShape(r)
    BY <1>1, RemoteFields, Zenon
  <1>3. /\ r.up = FALSE /\ r.serial = remote[k].serial /\ r.hand = remote[k].hand
        /\ r.pending = Nobody
    <2>1. /\ r.up = Closed(remote[k]).up /\ r.serial = Closed(remote[k]).serial
          /\ r.hand = Closed(remote[k]).hand /\ r.pending = Nobody
      BY <1>1, Zenon DEF RemoteShape
    <2> HIDE DEF r
    <2> QED
      BY <2>1, SameParts, ClosedFacts, Zenon DEF IsRemote
  <1>4. remote' = [remote EXCEPT ![k] = r]
    OBVIOUS
  <1> HIDE DEF r
  <1>5. IsRemote(r)
    BY <1>2, <1>3, SameParts, Zenon DEF IsRemote
  <1>6. ASSUME NEW u \in Worker, worker[u].pc \in InCall, worker[u].conn = k
        PROVE  IsCall(u, worker[u], r)
    <2>1. IsCall(u, worker[u], remote[k])
      BY <1>6, HereFacts, Zenon
    <2> QED
      BY <1>3, <2>1, TransportAssumption, Zenon DEF IsCall, InHand
  <1>7. CASE ~(w \in Worker /\ Calling(w, k))
    <2>1. worker' = worker
      BY <1>7, SameParts, ZenonT(40) DEF Finish, IInv, PartsHold
    <2>2. /\ local' = [local EXCEPT ![k] = local[k]] /\ IsClient(local[k])
          /\ local[k].lease # Nobody => fence' = k
          /\ local[k].busy = TRUE => c.down = <<>>
      BY SameParts, HereFacts, Zenon
    <2>3. IsServing(k, r, worker) /\ IsLive(r, c, local[k], worker)
            /\ IsOwned(k, r, c, local[k], worker)
      BY <1>3, DownFacts, Zenon
    <2> QED
      BY <1>4, <1>5, <1>6, <2>1, <2>2, <2>3, ConnectionStep, Zenon
  <1>8. CASE w \in Worker /\ Calling(w, k)
    <2> DEFINE v == [worker[w] EXCEPT !.finished = TRUE]
    <2>1. worker' = [worker EXCEPT ![w] = v]
      BY <1>8, Zenon DEF Finish, IInv, PartsHold
    <2>2. IsCaller(worker[w])
      BY <1>8, SameParts
    <2>3. CallerShape(v)
      BY <2>2, CallerFields, Zenon DEF IsCaller
    <2>4. /\ v.pc = worker[w].pc /\ v.conn = worker[w].conn /\ v.op = worker[w].op
          /\ v.leased = worker[w].leased /\ v.result = worker[w].result /\ v.owed = worker[w].owed
      BY <2>2, Zenon DEF IsCaller, CallerShape
    <2> HIDE DEF v
    <2>5. v.pc \in InCall /\ v.conn = k
      BY <1>8, <2>4, Zenon DEF Calling, InCall
    <2>6. IsCaller(v)
      BY <2>2, <2>3, <2>4, <2>5, Zenon DEF IsCaller
    <2>7. IsCall(w, v, r)
      <3>1. IsCall(w, worker[w], r)
        BY <1>6, <1>8, <2>4, <2>5, Zenon
      <3> QED
        BY <1>3, <1>8, <2>4, <3>1, TransportAssumption, Zenon DEF IsCall, InChannel
    <2>8. \A u \in Worker \ {w} :
              worker[u].pc \in InCall /\ worker[u].conn = k => IsCall(u, worker[u], r)
      BY <1>6, Zenon
    <2>9. IsServing(k, r, worker') /\ IsLive(r, c, local[k], worker')
            /\ IsOwned(k, r, c, local[k], worker')
      BY <1>3, DownFacts, Zenon
    <2>10. local[k].busy = TRUE => c.down = <<>>
      BY HereFacts, Zenon
    <2>11. worker[w].conn = k
      BY <2>4, <2>5, Zenon
    <2> QED
      BY <1>4, <1>5, <1>8, <2>1, <2>5, <2>6, <2>7, <2>8, <2>9, <2>10, <2>11, CallerStep, Zenon
  <1> QED
    BY <1>7, <1>8

\* The socket fails under the reader.
LEMMA ReaderEndHolds ==
    ASSUME IInv, NEW k \in Conn, ReaderEnd(k)
    PROVE  IInv'
  <1> DEFINE c == [wire[k] EXCEPT !.back = <<>>]
  <1>1. /\ wire' = [wire EXCEPT ![k] = c] /\ local' = local /\ fence' = fence
        /\ worker' = Finish(k) /\ remote[k].hand.to = Nobody
        /\ remote' = [remote EXCEPT ![k] =
                         [Closed(remote[k]) EXCEPT !.reading = FALSE, !.pending = Nobody]]
    BY Zenon DEF ReaderEnd
  <1>2. IsWire(wire[k])
    BY SameParts, Zenon
  <1>3. WireShape(c)
    BY <1>2, WireFields, Zenon DEF IsWire
  <1>4. c.down = wire[k].down /\ c.back = <<>> /\ c.cut = wire[k].cut
    BY <1>2, Zenon DEF IsWire, WireShape
  <1> HIDE DEF c
  <1>5. IsWire(c)
    BY <1>2, <1>3, <1>4, EmptySeq, Zenon DEF IsWire
  <1> QED
    BY <1>1, <1>4, <1>5, ExitHolds, Zenon

\* The reader takes a reply for the call it works for.
LEMMA TakenHolds ==
    ASSUME IInv, NEW k \in Conn, ReaderReceive(k), Head(wire[k].back).to = remote[k].pending
    PROVE  IInv'
  <1> DEFINE w == remote[k].pending
             frame == Head(wire[k].back)
             pending == IF frame.last THEN Nobody ELSE w
             r == [remote[k] EXCEPT !.hand = frame, !.pending = pending]
             c == [wire[k] EXCEPT !.back = Tail(wire[k].back)]
             l == local[k]
  <1>1. /\ remote[k].up /\ remote[k].hand.to = Nobody /\ wire[k].back # <<>> /\ frame.to = w
        /\ remote' = [remote EXCEPT ![k] = r] /\ wire' = [wire EXCEPT ![k] = c]
        /\ worker' = [worker EXCEPT ![w].owed = IF frame.last THEN @ ELSE @ + 1]
        /\ local' = local /\ fence' = fence
    BY Zenon DEF ReaderReceive
  <1>2. IsRemote(remote[k]) /\ IsWire(wire[k]) /\ IsClient(l) /\ IsServing(k, remote[k], worker)
    BY SameParts, HereFacts, Zenon
  <1>3. RemoteShape(r)
    BY <1>2, RemoteFields, Zenon DEF IsRemote
  <1>4. /\ r.up = remote[k].up /\ r.serial = remote[k].serial /\ r.hand = frame
        /\ r.pending = IF frame.last THEN Nobody ELSE w
    BY <1>2, Zenon DEF RemoteShape, IsRemote
  <1>5. WireShape(c)
    BY <1>2, WireFields, Zenon DEF IsWire
  <1>6. c.down = wire[k].down /\ c.back = Tail(wire[k].back) /\ c.cut = wire[k].cut
    BY <1>2, Zenon DEF IsWire, WireShape
  <1> HIDE DEF r, c
  <1>7. w \in {Nobody, remote[k].serial} /\ w \in Worker \cup {Nobody}
    BY <1>1, <1>2, Zenon DEF IsServing, IsRemote
  <1>8. IsRemote(r)
    BY <1>1, <1>2, <1>3, <1>4, <1>7, Zenon DEF IsRemote
  <1>9. /\ frame = wire[k].back[1] /\ Len(wire[k].back) \in Nat
        /\ \A i \in 1..Len(c.back) : i + 1 \in 1..Len(wire[k].back) /\ c.back[i] = wire[k].back[i + 1]
        /\ Len(c.back) = Len(wire[k].back) - 1 /\ 1 \in 1..Len(wire[k].back)
        /\ Len(wire[k].back) = 1 => c.back = <<>>
        /\ IsSeq(c.back)
    BY <1>1, <1>2, <1>6, TailSeq, SMTT(30) DEF IsWire
  <1> HIDE DEF frame
  <1>10. IsWire(c)
    BY <1>2, <1>5, <1>6, <1>9, Zenon DEF IsWire
  <1>11. ASSUME NEW v, v.op = worker[remote[k].serial].op,
                v.result = worker[remote[k].serial].result,
                ~wire[k].cut, remote[k].serial # Nobody
         PROVE  IsExchange(remote[k].serial, r, c, l, v)
    <2> DEFINE s == remote[k].serial
    <2>1. IsExchange(s, remote[k], wire[k], l, worker[s])
      BY <1>1, <1>11, HereFacts, Zenon DEF IsLive
    <2>2. \A f : IsLastWord(f, s, worker[s].op, wire[k], l) <=> IsLastWord(f, s, v.op, c, l)
      BY <1>6, <1>11, Zenon DEF IsLastWord, Quiet
    <2>3. /\ IsLastWord(frame, s, v.op, c, l)
          /\ frame.last => c.back = <<>>
      BY <1>9, <2>1, <2>2, Zenon DEF IsExchange
    <2>4. \A i \in 1..Len(c.back) :
              IsLastWord(c.back[i], s, v.op, c, l) /\ (c.back[i].last => i = Len(c.back))
      BY <1>9, <2>1, <2>2, SMTT(30) DEF IsExchange
    <2>5. v.result # <<>> => IsLastWord(Head(v.result), s, v.op, c, l) /\ ~Head(v.result).last
      BY <1>1, <1>11, <2>1, <2>2, Zenon DEF IsExchange
    <2>6. Quiet(c, l) <=> Quiet(wire[k], l)
      BY <1>6, Zenon DEF Quiet
    <2>7. /\ \A i \in 1..Len(c.down) : c.down[i].from = s /\ c.down[i].op = v.op
          /\ l.inbox # NoRequest => l.inbox.from = s /\ l.inbox.op = v.op
          /\ l.doing # NoRequest => l.doing.from = s /\ l.doing.op = v.op
          /\ v.op = "release" /\ Quiet(c, l) => l.lease # s
      BY <1>6, <1>11, <2>1, <2>6, Zenon DEF IsExchange
    <2> QED
      BY <1>4, <2>3, <2>4, <2>5, <2>7, Zenon DEF IsExchange
  <1>12. CASE w = Nobody
    <2>1. worker' = worker
      BY <1>1, <1>12, TransportAssumption, Zenon DEF IInv, PartsHold
    <2>2. r.hand.to = Nobody /\ r.pending = Nobody
      BY <1>1, <1>4, <1>12
    <2>3. ASSUME NEW u \in Worker, worker[u].pc \in InCall, worker[u].conn = k
          PROVE  IsCall(u, worker[u], r)
      <3>1. IsCall(u, worker[u], remote[k])
        BY <2>3, HereFacts, Zenon
      <3> QED
        BY <1>1, <1>4, <2>2, <3>1, TransportAssumption, Zenon DEF IsCall, InHand
    <2>4. IsServing(k, r, worker)
      BY <1>2, <1>4, <2>2, Zenon DEF IsServing
    <2>5. IsLive(r, c, l, worker)
      <3>1. remote[k].serial = Nobody => wire[k].cut
        BY <1>1, HereFacts, Zenon DEF IsLive
      <3> QED
        BY <1>4, <1>6, <1>11, <3>1, Zenon DEF IsLive
    <2>6. IsOwned(k, r, c, l, worker)
      BY <1>4, <1>6, HereFacts, Zenon DEF IsOwned, Quiet
    <2>7. /\ local' = [local EXCEPT ![k] = l] /\ IsClient(l)
          /\ l.lease # Nobody => fence' = k
          /\ l.busy = TRUE => c.down = <<>>
      BY <1>1, <1>6, SameParts, HereFacts, Zenon
    <2> HIDE DEF l
    <2> QED
      BY <1>1, <1>8, <1>10, <2>1, <2>3, <2>4, <2>5, <2>6, <2>7, ConnectionStep, Zenon
  <1>13. CASE w # Nobody
    <2> DEFINE owed == IF frame.last THEN worker[w].owed ELSE worker[w].owed + 1
               v == [worker[w] EXCEPT !.owed = owed]
    <2>1. w \in Worker /\ w = remote[k].serial /\ worker[w].conn = k /\ worker[w].pc = "sent"
      BY <1>1, <1>2, <1>7, <1>13, Zenon DEF IsServing
    <2>2. worker' = [worker EXCEPT ![w] = v]
      BY <1>1, Zenon
    <2>3. IsCaller(worker[w])
      BY <2>1, SameParts, Zenon
    <2>4. CallerShape(v)
      BY <2>3, CallerFields, Zenon DEF IsCaller
    <2>5. /\ v.pc = worker[w].pc /\ v.conn = worker[w].conn /\ v.op = worker[w].op
          /\ v.leased = worker[w].leased /\ v.result = worker[w].result
          /\ v.finished = worker[w].finished /\ v.owed = owed
      BY <2>3, Zenon DEF IsCaller, CallerShape
    <2> HIDE DEF v
    <2>6. IsCaller(v)
      BY <2>1, <2>3, <2>4, <2>5, Zenon DEF IsCaller, InCall
    <2>7. IsCall(w, v, r)
      <3>1. IsCall(w, worker[w], remote[k])
        BY <2>1, HereFacts, Zenon DEF InCall
      <3>2. /\ ~worker[w].finished /\ ~(v.result # <<>> /\ Head(v.result).last)
            /\ worker[w].owed = InChannel(v)
        <4>1. InHand(w, remote[k]) = 0
          BY <1>1, <1>13, Zenon DEF InHand
        <4>2. InChannel(worker[w]) \in {0, 1} /\ InChannel(v) = InChannel(worker[w])
          BY <2>5, Zenon DEF InChannel
        <4> QED
          BY <2>5, <3>1, <4>1, <4>2, SMTT(30) DEF IsCall
      <3>3. owed = InChannel(v) + InHand(w, r)
        BY <1>1, <1>4, <3>2, SMTT(30) DEF InHand, InChannel
      <3> QED
        BY <1>4, <2>1, <2>5, <3>1, <3>2, <3>3, TransportAssumption, Zenon DEF IsCall
    <2>8. \A u \in Worker \ {w} :
              worker[u].pc \in InCall /\ worker[u].conn = k => IsCall(u, worker[u], r)
      BY <2>1, HereFacts, ZenonT(40) DEF IsCall
    <2>9. worker'[w] = v /\ \A u \in Worker \ {w} : worker'[u] = worker[u]
      BY <2>1, <2>2, Zenon DEF IInv, PartsHold
    <2>10. IsServing(k, r, worker')
      BY <1>1, <1>4, <2>1, <2>5, <2>9, ZenonT(40) DEF IsServing
    <2>11. IsLive(r, c, l, worker')
      BY <1>4, <1>6, <1>11, <1>13, <2>1, <2>5, <2>9, ZenonT(40) DEF IsLive
    <2>12. IsOwned(k, r, c, l, worker')
      <3> SUFFICES ASSUME r.up, ~c.cut, l.lease # Nobody PROVE IsOwned(k, r, c, l, worker')
        BY Zenon DEF IsOwned
      <3>1. l.lease \in Worker
        BY <1>2, Zenon DEF IsClient
      <3>2. IsOwned(k, remote[k], wire[k], l, worker)
        BY HereFacts, Zenon
      <3>3. Quiet(c, l) <=> Quiet(wire[k], l)
        BY <1>6, Zenon DEF Quiet
      <3> QED
        BY <1>4, <1>6, <2>5, <2>9, <3>1, <3>2, <3>3, ZenonT(40) DEF IsOwned
    <2>13. l.busy = TRUE => c.down = <<>>
      BY <1>6, HereFacts, Zenon
    <2> QED
      BY <1>1, <1>8, <1>10, <2>1, <2>2, <2>6, <2>7, <2>5, <2>8, <2>10, <2>11, <2>12, <2>13, CallerStep, ZenonT(40)
  <1> QED
    BY <1>12, <1>13, Zenon

\* A reply that is for no call makes the reader exit.
LEMMA ReceiveHolds ==
    ASSUME IInv, NEW k \in Conn, ReaderReceive(k)
    PROVE  IInv'
  <1>1. CASE Head(wire[k].back).to = remote[k].pending
    BY <1>1, TakenHolds, Zenon
  <1>2. CASE Head(wire[k].back).to # remote[k].pending
    <2>1. /\ wire' = [wire EXCEPT ![k] = Cut(wire[k])] /\ local' = local /\ fence' = fence
          /\ worker' = Finish(k) /\ remote[k].hand.to = Nobody
          /\ remote' = [remote EXCEPT ![k] =
                           [Closed(remote[k]) EXCEPT !.reading = FALSE, !.pending = Nobody]]
      BY <1>2, Zenon DEF ReaderReceive
    <2>2. IsWire(Cut(wire[k])) /\ Cut(wire[k]).down = wire[k].down
      BY SameParts, CutFacts, Zenon
    <2> QED
      BY <2>1, <2>2, ExitHolds, Zenon
  <1> QED
    BY <1>1, <1>2, Zenon


\* Who is in a call has the token: nobody else is in one on the connection.
LEMMA TokenHolder ==
    ASSUME IInv, NEW w \in Worker, worker[w].pc \in InCall
    PROVE  LET k == worker[w].conn
           IN  /\ k \in Conn /\ remote[k].serial = w /\ IsCall(w, worker[w], remote[k])
               /\ \A u \in Worker \ {w} : ~(worker[u].pc \in InCall /\ worker[u].conn = k)
  <1> DEFINE k == worker[w].conn
  <1>1. k \in Conn
    BY SameParts, Zenon DEF IInv, PartsHold, IsCaller, InCall
  <1>2. \A u \in Worker : worker[u].pc \in InCall /\ worker[u].conn = k => IsCall(u, worker[u], remote[k])
    BY <1>1, HereFacts, Zenon
  <1>3. \A u \in Worker : worker[u].pc \in InCall /\ worker[u].conn = k => remote[k].serial = u
    BY <1>2, Zenon DEF IsCall
  <1> QED
    BY <1>1, <1>2, <1>3, Zenon

\* While the token is free, nobody is in a call on the connection.
LEMMA TokenFree ==
    ASSUME IInv, NEW k \in Conn, remote[k].serial = Nobody
    PROVE  \A u \in Worker : ~(worker[u].pc \in InCall /\ worker[u].conn = k)
  BY HereFacts, TransportAssumption, Zenon DEF IsCall

\* A step that changes one caller.
LEMMA CallerUpdate ==
    ASSUME IInv, NEW w \in Worker, NEW v, worker' = [worker EXCEPT ![w] = v]
    PROVE  worker'[w] = v /\ \A u \in Worker \ {w} : worker'[u] = worker[u]
  BY DEF IInv, PartsHold

\* The reader passes a reply on to the call it is for.
LEMMA PassHolds ==
    ASSUME IInv, NEW k \in Conn, ReaderPass(k)
    PROVE  IInv'
  <1> DEFINE w == remote[k].hand.to
             hand == remote[k].hand
             finished == worker[w].finished \/ hand.last
             v == [worker[w] EXCEPT !.result = <<hand>>, !.finished = finished]
             r == [remote[k] EXCEPT !.hand = NoFrame]
             l == local[k]
  <1>1. /\ w # Nobody /\ Calling(w, k) /\ worker[w].result = <<>>
        /\ remote' = [remote EXCEPT ![k] = r] /\ worker' = [worker EXCEPT ![w] = v]
        /\ wire' = wire /\ local' = local /\ fence' = fence
    BY Zenon DEF ReaderPass
  <1>2. IsRemote(remote[k]) /\ IsWire(wire[k]) /\ IsClient(l) /\ IsServing(k, remote[k], worker)
    BY SameParts, HereFacts, Zenon
  <1>3. w \in Worker /\ worker[w].conn = k /\ worker[w].pc \in InCall
    BY <1>1, <1>2, Zenon DEF IsRemote, Calling, InCall
  <1>4. IsCaller(worker[w]) /\ CallerShape(worker[w])
    BY <1>3, SameParts, Zenon DEF IsCaller
  <1>5. CallerShape(v)
    BY <1>4, CallerFields, Zenon
  <1>6. /\ v.pc = worker[w].pc /\ v.conn = worker[w].conn /\ v.op = worker[w].op
        /\ v.leased = worker[w].leased /\ v.result = <<hand>>
        /\ v.finished = finished /\ v.owed = worker[w].owed
    BY <1>4, Zenon DEF CallerShape
  <1>7. RemoteShape(r)
    BY <1>2, RemoteFields, Zenon DEF IsRemote
  <1>8. /\ r.up = remote[k].up /\ r.serial = remote[k].serial /\ r.hand = NoFrame
        /\ r.pending = remote[k].pending
    BY <1>2, Zenon DEF RemoteShape, IsRemote
  <1>9. NoFrame.to = Nobody
    BY DEF NoFrame, Reply
  <1>10. Head(<<hand>>) = hand /\ <<hand>> # <<>>
    OBVIOUS
  <1> HIDE DEF v, r
  <1>11. IsCaller(v)
    BY <1>3, <1>4, <1>5, <1>6, Zenon DEF IsCaller
  <1>12. IsRemote(r)
    BY <1>2, <1>7, <1>8, <1>9, Zenon DEF IsRemote
  <1>13. /\ IsCall(w, worker[w], remote[k]) /\ remote[k].serial = w
         /\ \A u \in Worker \ {w} : ~(worker[u].pc \in InCall /\ worker[u].conn = k)
    BY <1>3, TokenHolder, SMTT(30)
  <1>14. IsCall(w, v, r)
    <2>1. InHand(w, r) = 0 /\ InHand(w, remote[k]) = InChannel(v) /\ InChannel(worker[w]) = 0
      BY <1>1, <1>6, <1>8, <1>9, <1>10, Zenon DEF InHand, InChannel
    <2>2. InChannel(v) \in {0, 1}
      BY Zenon DEF InChannel
    <2>3. v.owed = InChannel(v) + InHand(w, r)
      <3>1. worker[w].owed = InChannel(worker[w]) + InHand(w, remote[k])
        BY <1>13, Zenon DEF IsCall
      <3> QED
        BY <1>6, <2>1, <2>2, <3>1, SMTT(30)
    <2>4. finished => remote[k].pending # w
      BY <1>1, <1>13, Zenon DEF IsCall
    <2>5. v.finished \/ (v.result # <<>> /\ Head(v.result).last) => r.pending # w
      BY <1>6, <1>8, <1>10, <2>4, Zenon
    <2> QED
      BY <1>1, <1>6, <1>8, <1>9, <1>13, <2>3, <2>5, Zenon DEF IsCall
  <1>15. worker'[w] = v /\ \A u \in Worker \ {w} : worker'[u] = worker[u]
    BY <1>1, <1>3, CallerUpdate, Zenon
  <1>16. IsServing(k, r, worker')
    BY <1>2, <1>6, <1>8, <1>9, <1>13, <1>15, SMTT(30) DEF IsServing
  <1>17. IsLive(r, wire[k], l, worker')
    <2> SUFFICES ASSUME r.up, ~wire[k].cut
                 PROVE  IsExchange(w, r, wire[k], l, v)
      BY <1>1, <1>8, <1>13, <1>15, ZenonT(40) DEF IsLive
    <2>1. IsExchange(w, remote[k], wire[k], l, worker[w])
      BY <1>1, <1>8, <1>13, HereFacts, Zenon DEF IsLive
    <2> QED
      BY <1>1, <1>6, <1>8, <1>9, <1>10, <2>1, Zenon DEF IsExchange
  <1>18. IsOwned(k, r, wire[k], l, worker')
    <2>1. l.lease # Nobody => l.lease \in Worker
      BY <1>2, Zenon DEF IsClient
    <2>2. IsOwned(k, remote[k], wire[k], l, worker)
      BY HereFacts, Zenon
    <2> QED
      BY <1>6, <1>8, <1>15, <2>1, <2>2, ZenonT(40) DEF IsOwned
  <1>19. wire' = [wire EXCEPT ![k] = wire[k]] /\ (l.busy = TRUE => wire[k].down = <<>>)
    BY <1>1, SameParts, HereFacts, Zenon
  <1> QED
    BY <1>1, <1>2, <1>3, <1>6, <1>11, <1>12, <1>13, <1>14, <1>16, <1>17, <1>18, <1>19, CallerStep, Zenon

-----------------------------------------------------------------------------
(* Callers. *)

\* A caller's step between two calls.
LEMMA BetweenCalls ==
    ASSUME IInv, NEW w \in Worker, NEW k \in Conn, NEW v, IsCaller(v),
           worker[w].conn = k \/ worker[w].pc = "idle",
           worker[w].pc \notin InCall, v.pc \notin InCall,
           worker' = [worker EXCEPT ![w] = v],
           remote' = remote, wire' = wire, local' = local, fence' = fence,
           worker[w].leased = TRUE => (v.conn = k /\ v.leased = TRUE) \/ ~remote[k].up
    PROVE  IInv'
  <1>1. worker'[w] = v /\ \A u \in Worker \ {w} : worker'[u] = worker[u]
    BY CallerUpdate, Zenon
  <1>2. /\ remote' = [remote EXCEPT ![k] = remote[k]] /\ wire' = [wire EXCEPT ![k] = wire[k]]
        /\ IsRemote(remote[k]) /\ IsWire(wire[k]) /\ IsClient(local[k])
    BY SameParts, Zenon
  <1>3. /\ local[k].busy = TRUE => wire[k].down = <<>>
        /\ IsServing(k, remote[k], worker) /\ IsLive(remote[k], wire[k], local[k], worker)
        /\ IsOwned(k, remote[k], wire[k], local[k], worker)
        /\ \A u \in Worker \ {w} :
              worker[u].pc \in InCall /\ worker[u].conn = k => IsCall(u, worker[u], remote[k])
    BY HereFacts, Zenon
  <1>4. remote[k].up /\ remote[k].serial # Nobody =>
            worker'[remote[k].serial] = worker[remote[k].serial]
    BY <1>1, <1>2, <1>3, Zenon DEF IsServing, IsRemote, InCall
  <1>5. IsServing(k, remote[k], worker') /\ IsLive(remote[k], wire[k], local[k], worker')
    BY <1>3, <1>4, Zenon DEF IsServing, IsLive
  <1>6. IsOwned(k, remote[k], wire[k], local[k], worker')
    <2> SUFFICES ASSUME remote[k].up, ~wire[k].cut, local[k].lease = w
                 PROVE  worker'[w].conn = k /\ worker'[w].leased = TRUE
      <3>1. local[k].lease # Nobody => local[k].lease \in Worker
        BY <1>2, Zenon DEF IsClient
      <3> QED
        BY <1>1, <1>3, <3>1, Zenon DEF IsOwned
    <2> QED
      BY <1>1, <1>3, TransportAssumption, Zenon DEF IsOwned, InCall
  <1> QED
    BY <1>2, <1>3, <1>5, <1>6, CallerStep, Zenon

\* Hub.Acquire begins.
LEMMA AcquireHolds ==
    ASSUME IInv, NEW w \in Worker, NEW k \in Conn, Acquire(w, k)
    PROVE  IInv'
  <1> DEFINE v == [worker[w] EXCEPT !.pc = "serial", !.conn = k, !.op = "acquire"]
  <1>1. /\ worker[w].pc = "idle" /\ worker' = [worker EXCEPT ![w] = v]
        /\ remote' = remote /\ wire' = wire /\ local' = local /\ fence' = fence
    BY Zenon DEF Acquire
  <1>2. IsCaller(worker[w]) /\ CallerShape(worker[w]) /\ worker[w].leased = FALSE
    BY <1>1, SameParts, Zenon DEF IsCaller
  <1>3. CallerShape(v)
    BY <1>2, CallerFields, Zenon
  <1>4. /\ v.pc = "serial" /\ v.conn = k /\ v.op = "acquire" /\ v.leased = worker[w].leased
        /\ v.result = worker[w].result /\ v.finished = worker[w].finished
        /\ v.owed = worker[w].owed
    BY <1>2, Zenon DEF CallerShape
  <1> HIDE DEF v
  <1>5. IsCaller(v) /\ v.pc \notin InCall /\ worker[w].pc \notin InCall
    BY <1>1, <1>2, <1>3, <1>4, Zenon DEF IsCaller, Leasing, InCall
  <1> QED
    BY <1>1, <1>2, <1>5, BetweenCalls, Zenon

\* A caller gives up between two rounds, or when its connection is done.
LEMMA GivesUp ==
    ASSUME IInv, NEW w \in Worker, worker[w].pc \in {"serial", "sleep", "held"},
           worker[w].leased = FALSE \/ ~remote[worker[w].conn].up,
           worker' = [worker EXCEPT ![w] = IdleWorker],
           remote' = remote, wire' = wire, local' = local, fence' = fence
    PROVE  IInv'
  <1>1. worker[w].conn \in Conn /\ worker[w].pc \notin InCall
    BY SameParts, Zenon DEF IInv, PartsHold, IsCaller, InCall
  <1>2. IsCaller(IdleWorker) /\ IdleWorker.pc \notin InCall
    BY IdleFacts, Zenon DEF InCall
  <1> QED
    BY <1>1, <1>2, BetweenCalls, Zenon

\* The acquisition loop goes on or ends.
LEMMA WakeHolds ==
    ASSUME IInv, NEW w \in Worker, Wake(w)
    PROVE  IInv'
  <1> DEFINE v == [worker[w] EXCEPT !.pc = "serial"]
  <1>1. /\ worker[w].pc = "sleep"
        /\ remote' = remote /\ wire' = wire /\ local' = local /\ fence' = fence
        /\ \/ worker' = [worker EXCEPT ![w] = IdleWorker]
           \/ worker' = [worker EXCEPT ![w] = v]
    BY Zenon DEF Wake
  <1>2. /\ IsCaller(worker[w]) /\ CallerShape(worker[w]) /\ worker[w].leased = FALSE
        /\ worker[w].conn \in Conn /\ worker[w].op = "acquire"
    BY <1>1, SameParts, Zenon DEF IsCaller, IInv, PartsHold
  <1>3. CallerShape(v)
    BY <1>2, CallerFields, Zenon
  <1>4. /\ v.pc = "serial" /\ v.conn = worker[w].conn /\ v.op = worker[w].op
        /\ v.leased = worker[w].leased /\ v.result = worker[w].result
        /\ v.finished = worker[w].finished /\ v.owed = worker[w].owed
    BY <1>2, Zenon DEF CallerShape
  <1> HIDE DEF v
  <1>5. IsCaller(v) /\ v.pc \notin InCall /\ worker[w].pc \notin InCall
    BY <1>1, <1>2, <1>3, <1>4, Zenon DEF IsCaller, Leasing, InCall
  <1>6. CASE worker' = [worker EXCEPT ![w] = IdleWorker]
    BY <1>1, <1>2, <1>6, GivesUp, Zenon
  <1>7. CASE worker' = [worker EXCEPT ![w] = v]
    BY <1>1, <1>2, <1>5, <1>7, BetweenCalls, Zenon
  <1> QED
    BY <1>1, <1>6, <1>7

\* A cancellation that nobody has noticed yet.
LEMMA CancelHolds ==
    ASSUME IInv, NEW w \in Worker, Cancel(w)
    PROVE  IInv'
  <1> DEFINE k == worker[w].conn
             closing == remote[k].closing \/ (worker[w].pc = "sent" /\ Cancellable(worker[w].op))
             v == [worker[w] EXCEPT !.cancelled = TRUE]
             r == [remote[k] EXCEPT !.closing = closing]
             l == local[k]
  <1>1. /\ worker[w].pc \in {"serial", "sent", "sleep"}
        /\ worker' = [worker EXCEPT ![w] = v] /\ remote' = [remote EXCEPT ![k] = r]
        /\ wire' = wire /\ local' = local /\ fence' = fence
    BY Zenon DEF Cancel
  <1>2. IsCaller(worker[w]) /\ CallerShape(worker[w]) /\ k \in Conn
    BY <1>1, SameParts, Zenon DEF IsCaller, IInv, PartsHold
  <1>3. CallerShape(v)
    BY <1>2, CallerFields, Zenon
  <1>4. /\ v.pc = worker[w].pc /\ v.conn = worker[w].conn /\ v.op = worker[w].op
        /\ v.leased = worker[w].leased /\ v.result = worker[w].result
        /\ v.finished = worker[w].finished /\ v.owed = worker[w].owed
    BY <1>2, Zenon DEF CallerShape
  <1>5. IsRemote(remote[k]) /\ RemoteShape(remote[k])
    BY <1>2, SameParts, Zenon DEF IsRemote
  <1>6. RemoteShape(r)
    BY <1>5, RemoteFields, Zenon
  <1>7. /\ r.up = remote[k].up /\ r.serial = remote[k].serial /\ r.hand = remote[k].hand
        /\ r.pending = remote[k].pending
    BY <1>5, Zenon DEF RemoteShape
  <1> HIDE DEF v, r, k
  <1>8. IsCaller(v)
    BY <1>2, <1>3, <1>4, Zenon DEF IsCaller
  <1>9. IsRemote(r)
    BY <1>5, <1>6, <1>7, Zenon DEF IsRemote
  <1>10. worker'[w] = v /\ \A u \in Worker \ {w} : worker'[u] = worker[u]
    BY <1>1, CallerUpdate, Zenon
  <1>11. \A u \in Worker : worker[u].pc \in InCall /\ worker[u].conn = k => IsCall(u, worker[u], r)
    <2>1. \A u \in Worker : worker[u].pc \in InCall /\ worker[u].conn = k =>
                               IsCall(u, worker[u], remote[k])
      BY <1>2, HereFacts, Zenon
    <2> QED
      BY <1>7, <2>1, ZenonT(40) DEF IsCall, InHand
  <1>12. v.pc \in InCall => v.conn = k /\ IsCall(w, v, r)
    BY <1>4, <1>11, ZenonT(40) DEF IsCall, InChannel, k
  <1>13. /\ wire' = [wire EXCEPT ![k] = wire[k]] /\ IsWire(wire[k]) /\ IsClient(l)
         /\ l.busy = TRUE => wire[k].down = <<>>
         /\ IsServing(k, remote[k], worker) /\ IsLive(remote[k], wire[k], l, worker)
         /\ IsOwned(k, remote[k], wire[k], l, worker)
    BY <1>1, <1>2, SameParts, HereFacts, Zenon
  <1> HIDE DEF l
  <1>14. IsServing(k, r, worker')
    BY <1>4, <1>5, <1>7, <1>10, <1>13, SMTT(30) DEF IsServing, IsRemote
  <1>15. IsLive(r, wire[k], l, worker')
    <2> SUFFICES ASSUME r.up, ~wire[k].cut, r.serial # Nobody
                 PROVE  IsExchange(r.serial, r, wire[k], l, worker'[r.serial])
      BY <1>7, <1>13, Zenon DEF IsLive
    <2>1. IsExchange(r.serial, remote[k], wire[k], l, worker[r.serial])
      BY <1>7, <1>13, Zenon DEF IsLive
    <2>2. /\ worker'[r.serial].op = worker[r.serial].op
          /\ worker'[r.serial].result = worker[r.serial].result
      BY <1>4, <1>5, <1>7, <1>10, Zenon DEF IsRemote
    <2> QED
      BY <1>7, <2>1, <2>2, Zenon DEF IsExchange
  <1>16. IsOwned(k, r, wire[k], l, worker')
    <2>1. l.lease # Nobody => l.lease \in Worker
      BY <1>13, Zenon DEF IsClient
    <2> QED
      BY <1>4, <1>7, <1>10, <1>13, <2>1, ZenonT(40) DEF IsOwned
  <1>17. /\ worker[w].conn = k
         /\ \A u \in Worker \ {w} :
               worker[u].pc \in InCall /\ worker[u].conn = k => IsCall(u, worker[u], r)
    BY <1>11, Zenon DEF k
  <1> QED
    BY <1>1, <1>2, <1>8, <1>9, <1>12, <1>13, <1>14, <1>15, <1>16, <1>17, CallerStep, Zenon DEF l

\* A call begins.  Its request is the only one under way: the token was free,
\* so that no call was under way on the connection.
LEMMA SendHolds ==
    ASSUME IInv, NEW w \in Worker, NEW v, Send(w, v),
           CallerShape(v), v.conn \in Conn, v.op \in Ops,
           v.op \in Leasing => v.leased = TRUE,
           v.op \in {"attest", "acquire"} => v.leased = FALSE,
           v.result = <<>>, v.finished = FALSE, v.owed = 0,
           worker[w].conn = v.conn \/ worker[w].pc = "idle",
           worker[w].pc \notin InCall, v.leased = worker[w].leased
    PROVE  IInv'
  <1> DEFINE k == v.conn
             request == [from |-> w, op |-> v.op, leased |-> v.leased,
                         plan |-> IF v.op = "prepare" THEN v.plan ELSE NoPlan,
                         expected |-> IF v.op = "prepare" THEN v.known ELSE NoFiles]
             u == [v EXCEPT !.pc = "sent"]
             r == [remote[k] EXCEPT !.serial = w, !.pending = w]
             down == IF wire[k].cut THEN wire[k].down ELSE Append(wire[k].down, request)
             c == [wire[k] EXCEPT !.down = down]
             l == local[k]
  <1>1. /\ remote[k].serial = Nobody /\ remote[k].up
        /\ remote' = [remote EXCEPT ![k] = r] /\ wire' = [wire EXCEPT ![k] = c]
        /\ worker' = [worker EXCEPT ![w] = u] /\ local' = local /\ fence' = fence
    BY Zenon DEF Send, SerialFree
  <1>2. /\ IsRemote(remote[k]) /\ IsWire(wire[k]) /\ IsClient(l) /\ IsCaller(worker[w])
        /\ IsServing(k, remote[k], worker) /\ IsLive(remote[k], wire[k], l, worker)
        /\ IsOwned(k, remote[k], wire[k], l, worker)
        /\ l.busy = TRUE => wire[k].down = <<>>
    BY SameParts, HereFacts, Zenon
  <1>3. CallerShape(u)
    BY CallerFields, Zenon
  <1>4. /\ u.pc = "sent" /\ u.conn = k /\ u.op = v.op /\ u.leased = v.leased
        /\ u.result = <<>> /\ u.finished = FALSE /\ u.owed = 0
    BY Zenon DEF CallerShape
  <1>5. RemoteShape(r)
    BY <1>2, RemoteFields, Zenon DEF IsRemote
  <1>6. r.up = remote[k].up /\ r.serial = w /\ r.pending = w /\ r.hand = remote[k].hand
    BY <1>2, Zenon DEF RemoteShape, IsRemote
  <1>7. WireShape(c)
    BY <1>2, WireFields, Zenon DEF IsWire
  <1>8. c.down = down /\ c.back = wire[k].back /\ c.cut = wire[k].cut
    BY <1>2, Zenon DEF WireShape, IsWire
  <1>9. IsRequest(request) /\ request.from = w /\ request.op = v.op
    BY Zenon DEF IsRequest
  <1> HIDE DEF u, r, c, request, l
  <1>10. IsCaller(u)
    BY <1>3, <1>4, Zenon DEF IsCaller, InCall
  <1>11. remote[k].hand.to = Nobody
    BY <1>1, <1>2, Zenon DEF IsServing
  <1>12. IsRemote(r)
    BY <1>2, <1>5, <1>6, Zenon DEF IsRemote
  <1>13. ~wire[k].cut => Quiet(wire[k], l) /\ wire[k].back = <<>>
    BY <1>1, <1>2, Zenon DEF IsLive
  <1>14. ~wire[k].cut => /\ IsSeq(down) /\ Len(down) = 1 /\ down # <<>>
                         /\ \A i \in 1..Len(down) : down[i] = request
    <2> SUFFICES ASSUME ~wire[k].cut
                 PROVE  /\ IsSeq(down) /\ Len(down) = 1 /\ down # <<>>
                        /\ \A i \in 1..Len(down) : down[i] = request
      BY Zenon
    <2>1. down = Append(<<>>, request)
      BY <1>13, Zenon DEF Quiet
    <2> HIDE DEF down
    <2> QED
      BY <2>1, OneSeq, SMTT(30)
  <1> HIDE DEF down
  <1>15. IsWire(c)
    <2>1. CASE wire[k].cut
      BY <1>2, <1>7, <1>8, <2>1, Zenon DEF IsWire, down
    <2>2. CASE ~wire[k].cut
      <3>1. /\ IsSeq(c.down) /\ Len(c.down) <= 1
            /\ \A i \in 1..Len(c.down) : IsRequest(c.down[i])
        <4>1. 1 <= 1
          OBVIOUS
        <4>2. IsSeq(down) /\ Len(down) <= 1
          BY <1>14, <2>2, <4>1, Zenon
        <4>3. \A i \in 1..Len(down) : IsRequest(down[i])
          BY <1>9, <1>14, <2>2, Zenon
        <4> QED
          BY <1>8, <4>2, <4>3, Zenon
      <3> QED
        BY <1>2, <1>7, <1>8, <3>1, Zenon DEF IsWire
    <2> QED
      BY <2>1, <2>2, Zenon
  <1>16. l.busy = TRUE => c.down = <<>>
    BY <1>2, <1>8, <1>13, Zenon DEF Quiet, down
  <1>17. \A x \in Worker : ~(worker[x].pc \in InCall /\ worker[x].conn = k)
    BY <1>1, TokenFree, Zenon
  <1>18. IsCall(w, u, r)
    BY <1>4, <1>6, <1>11, TransportAssumption, SMTT(30) DEF IsCall, InHand, InChannel
  <1>19. worker'[w] = u /\ \A x \in Worker \ {w} : worker'[x] = worker[x]
    BY <1>1, CallerUpdate, Zenon
  <1>20. IsServing(k, r, worker')
    BY <1>4, <1>6, <1>11, <1>19, Zenon DEF IsServing
  <1>21. IsLive(r, c, l, worker')
    <2> SUFFICES ASSUME ~c.cut PROVE IsExchange(w, r, c, l, u)
      BY <1>6, <1>19, TransportAssumption, Zenon DEF IsLive
    <2>1. ~wire[k].cut /\ l.busy = FALSE
      BY <1>8, <1>13, Zenon DEF Quiet
    <2>2. l.inbox = NoRequest /\ l.doing = NoRequest
      BY <1>2, <2>1, Zenon DEF IsClient
    <2>3. (\A i : i \notin 1..Len(c.back)) /\ ~Quiet(c, l)
      BY <1>8, <1>13, <1>14, <2>1, EmptySeq, Zenon DEF Quiet
    <2> QED
      <3>1. \A i \in 1..Len(c.down) : c.down[i].from = w /\ c.down[i].op = u.op
        BY <1>4, <1>8, <1>9, <1>14, <2>1, Zenon
      <3> QED
        BY <1>4, <1>6, <1>11, <2>2, <2>3, <3>1, Zenon DEF IsExchange
  <1>22. IsOwned(k, r, c, l, worker')
    <2> SUFFICES ASSUME ~c.cut, l.lease # Nobody
                 PROVE  worker'[l.lease].conn = k /\ worker'[l.lease].leased = TRUE
      BY Zenon DEF IsOwned
    <2>1. l.lease \in Worker
      BY <1>2, Zenon DEF IsClient
    <2>2. worker[l.lease].conn = k /\ worker[l.lease].leased = TRUE
      BY <1>1, <1>2, <1>8, <1>17, <2>1, Zenon DEF IsOwned, InCall
    <2> QED
      BY <1>4, <1>19, <2>1, <2>2, Zenon
  <1> QED
    BY <1>1, <1>4, <1>10, <1>12, <1>15, <1>16, <1>17, <1>18, <1>20, <1>21, <1>22, CallerStep, Zenon
       DEF l

\* A caller that sends begins a call of its own: an attestation, a round, a call
\* under its lease.
LEMMA CallHolds ==
    ASSUME IInv, NEW w \in Worker,
           \/ \E k \in Conn : Require(w, k)
           \/ Round(w) \/ Read(w) \/ Prepare(w) \/ Apply(w) \/ Release(w)
    PROVE  IInv'
  <1>1. IsCaller(worker[w]) /\ CallerShape(worker[w])
    BY SameParts, Zenon DEF IsCaller, IInv, PartsHold
  <1>2. CASE \E k \in Conn : Require(w, k)
    <2>1. PICK k \in Conn : Require(w, k)
      BY <1>2, Zenon
    <2> DEFINE v == [IdleWorker EXCEPT !.conn = k, !.op = "attest"]
    <2>2. Send(w, v) /\ worker[w].pc = "idle"
      BY <2>1, Zenon DEF Require
    <2>3. IsCaller(IdleWorker) /\ CallerShape(IdleWorker)
      BY IdleFacts, Zenon DEF IsCaller
    <2>4. CallerShape(v)
      BY <2>3, CallerFields, Zenon
    <2>5. v.conn = k /\ v.op = "attest"
      BY <2>3, Zenon DEF CallerShape
    <2>6. /\ v.leased = IdleWorker.leased /\ v.result = IdleWorker.result
          /\ v.finished = IdleWorker.finished /\ v.owed = IdleWorker.owed
      BY <2>3, Zenon DEF CallerShape
    <2> HIDE DEF v
    <2>7. /\ v.leased = FALSE /\ v.result = <<>> /\ v.finished = FALSE /\ v.owed = 0
      BY <2>6, Zenon DEF IdleWorker
    <2>8. worker[w].pc \notin InCall /\ worker[w].leased = FALSE
      BY <1>1, <2>2, Zenon DEF IsCaller, InCall
    <2>9. v.conn \in Conn /\ v.op \in Ops /\ v.op \notin Leasing
      BY <2>5 DEF Ops, Leasing
    <2> QED
      BY <2>2, <2>4, <2>7, <2>8, <2>9, SendHolds, Zenon
  <1>3. CASE Round(w)
    <2>1. Send(w, worker[w]) /\ worker[w].pc = "serial"
      BY <1>3, Zenon DEF Round
    <2> QED
      BY <1>1, <2>1, SendHolds, Zenon DEF IsCaller, InCall, Ops
  <1>4. ASSUME NEW v, Send(w, v), worker[w].pc = "held", CallerShape(v), v.op \in Leasing,
               v.conn = worker[w].conn, v.leased = worker[w].leased, v.result = worker[w].result,
               v.finished = worker[w].finished, v.owed = worker[w].owed
        PROVE  IInv'
    <2>1. /\ v.leased = TRUE /\ v.result = <<>> /\ v.finished = FALSE /\ v.owed = 0
          /\ v.conn \in Conn /\ worker[w].pc \notin InCall
      BY <1>1, <1>4, Zenon DEF IsCaller, InCall
    <2>2. v.op \in Ops /\ v.op \notin {"attest", "acquire"}
      BY <1>4, Zenon DEF Ops, Leasing
    <2> QED
      BY <1>4, <2>1, <2>2, SendHolds, Zenon
  <1>5. ASSUME NEW op \in Leasing, worker[w].pc = "held", Send(w, [worker[w] EXCEPT !.op = op])
        PROVE  IInv'
    <2> DEFINE v == [worker[w] EXCEPT !.op = op]
    <2>1. CallerShape(v)
      BY <1>1, CallerFields, Zenon
    <2>2. /\ v.op = op /\ v.conn = worker[w].conn /\ v.leased = worker[w].leased
          /\ v.result = worker[w].result /\ v.finished = worker[w].finished
          /\ v.owed = worker[w].owed
      BY <1>1, Zenon DEF CallerShape
    <2>3. Send(w, v)
      BY <1>5
    <2> HIDE DEF v
    <2> QED
      BY <1>4, <1>5, <2>1, <2>2, <2>3
  <1>6. CASE Read(w) \/ Apply(w) \/ Release(w)
    <2>1. /\ worker[w].pc = "held"
          /\ \E op \in {"read", "apply", "release"} : Send(w, [worker[w] EXCEPT !.op = op])
      BY <1>6, Zenon DEF Read, Apply, Release
    <2>2. PICK op \in {"read", "apply", "release"} : Send(w, [worker[w] EXCEPT !.op = op])
      BY <2>1
    <2>3. op \in Leasing
      BY DEF Leasing
    <2> QED
      BY <1>5, <2>1, <2>2, <2>3, Zenon
  <1>7. CASE Prepare(w)
    <2>1. PICK plan \in Plans : Send(w, [worker[w] EXCEPT !.op = "prepare", !.plan = plan])
      BY <1>7, Zenon DEF Prepare
    <2> DEFINE v == [worker[w] EXCEPT !.op = "prepare", !.plan = plan]
    <2>2. CallerShape(v)
      BY <1>1, CallerFields, Zenon
    <2>3. /\ v.op = "prepare" /\ v.conn = worker[w].conn /\ v.leased = worker[w].leased
          /\ v.result = worker[w].result /\ v.finished = worker[w].finished
          /\ v.owed = worker[w].owed
      BY <1>1, Zenon DEF CallerShape
    <2>4. Send(w, v)
      BY <2>1
    <2> HIDE DEF v
    <2>5. worker[w].pc = "held" /\ v.op \in Leasing
      BY <1>7, <2>3, Zenon DEF Prepare, Leasing
    <2> QED
      BY <1>4, <2>2, <2>3, <2>4, <2>5, Zenon
  <1> QED
    BY <1>2, <1>3, <1>6, <1>7, Zenon

\* A call that ends on a connection that is down.
LEMMA OverHolds ==
    ASSUME IInv, NEW w \in Worker, worker[w].pc \in InCall, NEW r, NEW c, NEW v,
           remote' = [remote EXCEPT ![worker[w].conn] = r],
           wire' = [wire EXCEPT ![worker[w].conn] = c],
           worker' = [worker EXCEPT ![w] = v], local' = local, fence' = fence,
           IsRemote(r), IsWire(c), IsCaller(v), r.up = FALSE,
           c.down = wire[worker[w].conn].down,
           v.pc \in InCall => v.conn = worker[w].conn /\ IsCall(w, v, r)
    PROVE  IInv'
  <1> DEFINE k == worker[w].conn
  <1>1. /\ k \in Conn
        /\ \A u \in Worker \ {w} : ~(worker[u].pc \in InCall /\ worker[u].conn = k)
    BY TokenHolder, Zenon
  <1>2. local[k].busy = TRUE => c.down = <<>>
    BY <1>1, HereFacts, Zenon
  <1>3. /\ IsServing(k, r, worker') /\ IsLive(r, c, local[k], worker')
        /\ IsOwned(k, r, c, local[k], worker')
    BY DownFacts, Zenon
  <1> QED
    BY <1>1, <1>2, <1>3, CallerStep, Zenon

\* The observer takes a change: there is one less that the call is owed.
LEMMA ObserveHolds ==
    ASSUME IInv, NEW w \in Worker, worker[w].pc \in InCall, worker[w].result # <<>>,
           ~Head(worker[w].result).last, NEW change,
           worker' = [worker EXCEPT ![w] = Observed(worker[w], change)],
           remote' = remote, wire' = wire, local' = local, fence' = fence
    PROVE  IInv'
  <1> DEFINE k == worker[w].conn
             v == Observed(worker[w], change)
             l == local[k]
  <1>1. /\ k \in Conn /\ remote[k].serial = w /\ IsCall(w, worker[w], remote[k])
        /\ \A u \in Worker \ {w} : ~(worker[u].pc \in InCall /\ worker[u].conn = k)
    BY TokenHolder, Zenon
  <1>2. IsCaller(worker[w]) /\ CallerShape(worker[w])
    BY <1>1, SameParts, Zenon DEF IsCaller
  <1>3. /\ CallerShape(v) /\ v.pc = worker[w].pc /\ v.conn = worker[w].conn
        /\ v.op = worker[w].op /\ v.leased = worker[w].leased
        /\ v.result = <<>> /\ v.finished = worker[w].finished /\ v.owed = worker[w].owed - 1
    BY <1>2, ObservedFacts, ZenonT(40)
  <1> HIDE DEF v, k, l
  <1>4. IsCaller(v)
    BY <1>2, <1>3, Zenon DEF IsCaller
  <1>5. IsCall(w, v, remote[k])
    <2>1. InChannel(worker[w]) = 1 /\ InChannel(v) = 0
      BY <1>3, Zenon DEF InChannel
    <2>2. InHand(w, remote[k]) \in {0, 1}
      BY Zenon DEF InHand
    <2>3. v.owed = InChannel(v) + InHand(w, remote[k])
      <3>1. worker[w].owed = InChannel(worker[w]) + InHand(w, remote[k])
        BY <1>1, Zenon DEF IsCall
      <3> QED
        BY <1>3, <2>1, <2>2, <3>1, SMTT(30)
    <2> QED
      BY <1>1, <1>3, <2>3, Zenon DEF IsCall
  <1>6. worker'[w] = v /\ \A u \in Worker \ {w} : worker'[u] = worker[u]
    BY CallerUpdate, Zenon DEF v
  <1>7. /\ remote' = [remote EXCEPT ![k] = remote[k]] /\ wire' = [wire EXCEPT ![k] = wire[k]]
        /\ IsRemote(remote[k]) /\ IsWire(wire[k]) /\ IsClient(l)
        /\ l.busy = TRUE => wire[k].down = <<>>
        /\ IsServing(k, remote[k], worker) /\ IsLive(remote[k], wire[k], l, worker)
        /\ IsOwned(k, remote[k], wire[k], l, worker)
    BY <1>1, SameParts, HereFacts, Zenon DEF l
  <1>8. IsServing(k, remote[k], worker')
    BY <1>1, <1>3, <1>6, <1>7, Zenon DEF IsServing
  <1>9. IsLive(remote[k], wire[k], l, worker')
    <2> SUFFICES ASSUME remote[k].up, ~wire[k].cut
                 PROVE  IsExchange(w, remote[k], wire[k], l, v)
      BY <1>1, <1>6, TransportAssumption, Zenon DEF IsLive
    <2>1. IsExchange(w, remote[k], wire[k], l, worker[w])
      BY <1>1, <1>7, TransportAssumption, Zenon DEF IsLive
    <2> QED
      BY <1>3, <2>1, Zenon DEF IsExchange
  <1>10. IsOwned(k, remote[k], wire[k], l, worker')
    <2>1. l.lease # Nobody => l.lease \in Worker
      BY <1>7, Zenon DEF IsClient
    <2> QED
      BY <1>3, <1>6, <1>7, <2>1, SMTT(30) DEF IsOwned
  <1>11. v.conn = k /\ worker[w].conn = k /\ worker' = [worker EXCEPT ![w] = v]
    BY <1>3, Zenon DEF k, v
  <1>12. /\ worker[w].conn = k \/ worker[w].pc = "idle"
         /\ v.pc \in InCall => v.conn = k /\ IsCall(w, v, remote[k])
         /\ \A u \in Worker \ {w} :
               worker[u].pc \in InCall /\ worker[u].conn = k => IsCall(u, worker[u], remote[k])
    BY <1>1, <1>5, <1>11, Zenon
  <1> QED
    BY <1>1, <1>4, <1>7, <1>8, <1>9, <1>10, <1>11, <1>12, CallerStep, Zenon DEF l

\* The last word ends a call: nothing is left of it on the connection, and its
\* caller knows of the lease it has.
LEMMA LastWordHolds ==
    ASSUME IInv, NEW w \in Worker, worker[w].pc = "sent", worker[w].result # <<>>,
           Head(worker[w].result).last, NEW view,
           worker' = [worker EXCEPT ![w] =
                         Returned(worker[w], Head(worker[w].result).outcome, view)],
           remote' = [remote EXCEPT ![worker[w].conn] = Released(remote[worker[w].conn])],
           wire' = wire, local' = local, fence' = fence
    PROVE  IInv'
  <1> DEFINE k == worker[w].conn
             frame == Head(worker[w].result)
             v == Returned(worker[w], frame.outcome, view)
             r == Released(remote[k])
             l == local[k]
  <1>1. /\ k \in Conn /\ remote[k].serial = w /\ IsCall(w, worker[w], remote[k])
        /\ \A u \in Worker \ {w} : ~(worker[u].pc \in InCall /\ worker[u].conn = k)
    BY TokenHolder, Zenon DEF InCall
  <1>2. IsCaller(worker[w]) /\ worker[w].pc \in InCall
    BY <1>1, SameParts, Zenon DEF InCall
  <1>3. remote[k].hand.to # w /\ remote[k].pending # w
    BY <1>1, Zenon DEF IsCall
  <1>4. worker[w].owed = 0
    <2>1. InChannel(worker[w]) = 0 /\ InHand(w, remote[k]) = 0
      BY <1>3, Zenon DEF InChannel, InHand
    <2>2. worker[w].owed = InChannel(worker[w]) + InHand(w, remote[k])
      BY <1>1, Zenon DEF IsCall
    <2> QED
      BY <2>1, <2>2, SMTT(30)
  <1>5. /\ IsCaller(v) /\ v.pc \notin InCall
        /\ \/ worker[w].op = "attest" \/ worker[w].op = "release"
           \/ worker[w].op = "acquire" /\ frame.outcome # "ok"
           \/ v.conn = k /\ v.leased = TRUE
    BY <1>2, <1>4, ReturnedFacts, Zenon
  <1>6. /\ IsRemote(remote[k]) /\ IsWire(wire[k]) /\ IsClient(l)
        /\ l.busy = TRUE => wire[k].down = <<>>
        /\ IsServing(k, remote[k], worker) /\ IsLive(remote[k], wire[k], l, worker)
        /\ IsOwned(k, remote[k], wire[k], l, worker)
        /\ wire' = [wire EXCEPT ![k] = wire[k]]
    BY <1>1, SameParts, HereFacts, Zenon
  <1>7. /\ RemoteShape(r) /\ r.serial = Nobody
        /\ r.up = remote[k].up /\ r.hand = remote[k].hand /\ r.pending = remote[k].pending
    BY <1>6, ReleasedFacts, Zenon DEF IsRemote
  <1>8. remote' = [remote EXCEPT ![k] = r] /\ worker' = [worker EXCEPT ![w] = v]
    BY Zenon
  <1>9. worker'[w] = v /\ \A u \in Worker \ {w} : worker'[u] = worker[u]
    BY CallerUpdate, Zenon
  <1> HIDE DEF v, r, k, l, frame
  <1>10. IsRemote(r)
    BY <1>6, <1>7, Zenon DEF IsRemote
  <1>11. remote[k].up => remote[k].hand.to = Nobody /\ remote[k].pending = Nobody
    BY <1>1, <1>3, <1>6, Zenon DEF IsServing
  <1>12. IsServing(k, r, worker')
    BY <1>7, <1>11, Zenon DEF IsServing
  <1>13. remote[k].up /\ ~wire[k].cut => IsExchange(w, remote[k], wire[k], l, worker[w])
    BY <1>1, <1>6, TransportAssumption, Zenon DEF IsLive
  <1>14. remote[k].up /\ ~wire[k].cut =>
            /\ Quiet(wire[k], l) /\ wire[k].back = <<>>
            /\ worker[w].op = "acquire" => frame.outcome = "ok" \/ l.lease # w
            /\ worker[w].op = "release" => l.lease # w
    BY <1>13, Zenon DEF IsExchange, IsLastWord, frame
  <1>15. IsLive(r, wire[k], l, worker')
    BY <1>7, <1>14, Zenon DEF IsLive
  <1>16. IsOwned(k, r, wire[k], l, worker')
    <2> SUFFICES ASSUME r.up, ~wire[k].cut, l.lease # Nobody
                 PROVE  IsOwned(k, r, wire[k], l, worker')
      BY Zenon DEF IsOwned
    <2>1. l.lease \in Worker
      BY <1>6, Zenon DEF IsClient
    <2>2. CASE l.lease = w
      <3>1. worker[w].leased = TRUE \/ worker[w].op = "acquire"
        BY <1>6, <1>7, <2>2, Zenon DEF IsOwned
      <3>2. worker[w].op # "attest"
        BY <1>2, <3>1, Zenon DEF IsCaller
      <3>3. v.conn = k /\ v.leased = TRUE
        BY <1>5, <1>7, <1>14, <2>2, <3>2, Zenon
      <3> QED
        BY <1>9, <2>2, <3>3, Zenon DEF IsOwned
    <2>3. CASE l.lease # w
      BY <1>6, <1>7, <1>9, <2>1, <2>3, ZenonT(40) DEF IsOwned
    <2> QED
      BY <2>2, <2>3, Zenon
  <1>17. /\ worker[w].conn = k \/ worker[w].pc = "idle"
         /\ v.pc \in InCall => v.conn = k /\ IsCall(w, v, r)
         /\ \A u \in Worker \ {w} :
               worker[u].pc \in InCall /\ worker[u].conn = k => IsCall(u, worker[u], r)
    BY <1>1, <1>5, Zenon DEF k
  <1> QED
    BY <1>1, <1>5, <1>6, <1>8, <1>10, <1>12, <1>15, <1>16, <1>17, CallerStep, Zenon DEF l

\* remote.call takes what the reader passed to it.
LEMMA TakeHolds ==
    ASSUME IInv, NEW w \in Worker, Take(w)
    PROVE  IInv'
  <1> DEFINE v == worker[w]
             k == v.conn
             frame == Head(v.result)
             u == Returned(v, "failed", NoFiles)
             r == Released(Closed(remote[k]))
             c == Cut(wire[k])
  <1>1. /\ v.pc = "sent" /\ v.result # <<>> /\ local' = local /\ fence' = fence
        /\ \/ /\ frame.last /\ wire' = wire
              /\ worker' = [worker EXCEPT ![w] = Returned(v, frame.outcome, frame.view)]
              /\ remote' = [remote EXCEPT ![k] = Released(remote[k])]
           \/ /\ ~frame.last /\ remote' = remote /\ wire' = wire
              /\ worker' = [worker EXCEPT ![w] = Observed(v, frame.change)]
           \/ /\ worker' = [worker EXCEPT ![w] = [u EXCEPT !.owed = 0]]
              /\ remote' = [remote EXCEPT ![k] = r]
              /\ wire' = [wire EXCEPT ![k] = c]
    BY Zenon DEF Take
  <1>2. v.pc \in InCall
    BY <1>1, Zenon DEF InCall
  <1>3. CASE /\ frame.last /\ wire' = wire
             /\ worker' = [worker EXCEPT ![w] = Returned(v, frame.outcome, frame.view)]
             /\ remote' = [remote EXCEPT ![k] = Released(remote[k])]
    BY <1>1, <1>3, LastWordHolds, Zenon
  <1>4. CASE /\ ~frame.last /\ remote' = remote /\ wire' = wire
             /\ worker' = [worker EXCEPT ![w] = Observed(v, frame.change)]
    BY <1>1, <1>2, <1>4, ObserveHolds, Zenon
  <1>5. CASE /\ worker' = [worker EXCEPT ![w] = [u EXCEPT !.owed = 0]]
             /\ remote' = [remote EXCEPT ![k] = r] /\ wire' = [wire EXCEPT ![k] = c]
    <2>1. k \in Conn
      BY <1>2, TokenHolder, Zenon
    <2>2. IsRemote(r) /\ r.up = FALSE
      <3>1. IsRemote(remote[k]) /\ RemoteShape(remote[k])
        BY <2>1, SameParts, Zenon DEF IsRemote
      <3>2. /\ RemoteShape(Closed(remote[k])) /\ Closed(remote[k]).up = FALSE
            /\ Closed(remote[k]).hand = remote[k].hand
        BY <3>1, ClosedFacts, Zenon
      <3>3. RemoteShape(r) /\ r.serial = Nobody /\ r.up = FALSE /\ r.hand = remote[k].hand
        BY <3>2, ReleasedFacts, Zenon
      <3> HIDE DEF r
      <3> QED
        BY <3>1, <3>3, Zenon DEF IsRemote
    <2>3. IsWire(c) /\ c.down = wire[k].down
      BY <2>1, SameParts, CutFacts, Zenon
    <2>4. IsCaller([u EXCEPT !.owed = 0]) /\ [u EXCEPT !.owed = 0].pc \notin InCall
      BY <1>2, <2>1, SameParts, ReturnedFacts, Zenon
    <2> HIDE DEF u, r, c
    <2> QED
      BY <1>1, <1>2, <1>5, <2>2, <2>3, <2>4, OverHolds, Zenon
  <1> QED
    BY <1>1, <1>3, <1>4, <1>5, Zenon

\* remote.call stops the connection and begins to drain.
LEMMA AbortHolds ==
    ASSUME IInv, NEW w \in Worker, Abort(w)
    PROVE  IInv'
  <1> DEFINE k == worker[w].conn
             v == [worker[w] EXCEPT !.pc = "drain", !.known = NoFiles]
             r == Closed(remote[k])
             c == Cut(wire[k])
  <1>1. /\ worker[w].pc = "sent" /\ local' = local /\ fence' = fence
        /\ worker' = [worker EXCEPT ![w] = v]
        /\ remote' = [remote EXCEPT ![k] = r] /\ wire' = [wire EXCEPT ![k] = c]
    BY Zenon DEF Abort
  <1>2. worker[w].pc \in InCall
    BY <1>1 DEF InCall
  <1>3. k \in Conn /\ IsCall(w, worker[w], remote[k])
    BY <1>2, TokenHolder, Zenon
  <1>4. IsCaller(worker[w]) /\ CallerShape(worker[w])
    BY <1>3, SameParts, Zenon DEF IsCaller
  <1>5. CallerShape(v)
    BY <1>4, CallerFields, Zenon
  <1>6. /\ v.pc = "drain" /\ v.conn = worker[w].conn /\ v.op = worker[w].op
        /\ v.leased = worker[w].leased /\ v.result = worker[w].result
        /\ v.finished = worker[w].finished /\ v.owed = worker[w].owed
    BY <1>4, Zenon DEF CallerShape
  <1>7. IsRemote(r) /\ r.up = FALSE /\ IsCall(w, worker[w], r)
    BY <1>3, SameParts, ClosedFacts, ClosedCall, Zenon DEF IsRemote
  <1>8. IsWire(c) /\ c.down = wire[k].down
    BY <1>3, SameParts, CutFacts, Zenon
  <1> HIDE DEF v, r, c
  <1>9. IsCaller(v)
    BY <1>1, <1>4, <1>5, <1>6, Zenon DEF IsCaller, InCall
  <1>10. IsCall(w, v, r)
    BY <1>6, <1>7, Zenon DEF IsCall, InChannel
  <1> QED
    BY <1>1, <1>2, <1>6, <1>7, <1>8, <1>9, <1>10, OverHolds, Zenon

\* drainPendingChanges keeps the invariant.
LEMMA DrainHolds ==
    ASSUME IInv, NEW w \in Worker, Drain(w) \/ DrainEnds(w)
    PROVE  IInv'
  <1> DEFINE v == worker[w]
             k == v.conn
             u == Returned(v, "failed", NoFiles)
             frame == Head(v.result)
             taken == [v EXCEPT !.result = <<>>]
             r == Released(remote[k])
  <1>1. v.pc = "drain" /\ v.pc \in InCall
    BY Zenon DEF Drain, DrainEnds, InCall
  <1>2. /\ wire' = wire /\ local' = local /\ fence' = fence
        /\ \/ /\ v.result # <<>> /\ frame.last /\ remote' = remote
              /\ worker' = [worker EXCEPT ![w] = taken]
           \/ /\ v.result # <<>> /\ ~frame.last /\ remote' = remote
              /\ worker' = [worker EXCEPT ![w] = Observed(v, frame.change)]
           \/ /\ worker' = [worker EXCEPT ![w] = [u EXCEPT !.owed = 0]]
              /\ remote' = [remote EXCEPT ![k] = r]
           \/ /\ Drained(v) /\ worker' = [worker EXCEPT ![w] = u]
              /\ remote' = [remote EXCEPT ![k] = r]
    BY Zenon DEF Drain, DrainEnds
  <1>3. k \in Conn /\ IsCall(w, v, remote[k]) /\ remote[k].up = FALSE
    BY <1>1, TokenHolder, Zenon DEF IsCall
  <1>4. /\ IsCaller(v) /\ CallerShape(v) /\ IsRemote(remote[k]) /\ IsWire(wire[k])
        /\ remote = [remote EXCEPT ![k] = remote[k]] /\ wire = [wire EXCEPT ![k] = wire[k]]
    BY <1>3, SameParts, Zenon DEF IsCaller
  <1>5. IsRemote(r) /\ r.up = FALSE
    BY <1>3, <1>4, ReleasedFacts, Zenon DEF IsRemote
  <1>6. /\ v.owed = 0 => IsCaller(u)
        /\ IsCaller([u EXCEPT !.owed = 0])
        /\ u.pc \notin InCall /\ [u EXCEPT !.owed = 0].pc \notin InCall
    BY <1>1, <1>4, ReturnedFacts, Zenon
  <1> HIDE DEF u, r
  <1>7. CASE /\ v.result # <<>> /\ frame.last /\ remote' = remote
             /\ worker' = [worker EXCEPT ![w] = taken]
    <2>1. CallerShape(taken)
      BY <1>4, CallerFields, Zenon
    <2>2. /\ taken.pc = v.pc /\ taken.conn = v.conn /\ taken.op = v.op
          /\ taken.leased = v.leased /\ taken.result = <<>>
          /\ taken.finished = v.finished /\ taken.owed = v.owed
      BY <1>4, Zenon DEF CallerShape
    <2> HIDE DEF taken
    <2>3. IsCaller(taken)
      BY <1>1, <1>4, <2>1, <2>2, Zenon DEF IsCaller
    <2>4. InChannel(taken) = InChannel(v)
      BY <1>7, <2>2, Zenon DEF InChannel
    <2>5. IsCall(w, taken, remote[k])
      BY <1>3, <1>7, <2>2, <2>4, Zenon DEF IsCall
    <2> QED
      BY <1>1, <1>2, <1>3, <1>4, <1>7, <2>2, <2>3, <2>5, OverHolds, Zenon
  <1>8. CASE /\ v.result # <<>> /\ ~frame.last /\ remote' = remote
             /\ worker' = [worker EXCEPT ![w] = Observed(v, frame.change)]
    BY <1>1, <1>2, <1>8, ObserveHolds, Zenon
  <1>9. CASE /\ worker' = [worker EXCEPT ![w] = [u EXCEPT !.owed = 0]]
             /\ remote' = [remote EXCEPT ![k] = r]
    BY <1>1, <1>2, <1>4, <1>5, <1>6, <1>9, OverHolds, Zenon
  <1>10. CASE /\ Drained(v) /\ worker' = [worker EXCEPT ![w] = u]
              /\ remote' = [remote EXCEPT ![k] = r]
    <2>1. v.owed = 0
      <3>1. remote[k].hand.to # w
        BY <1>3, <1>10, Zenon DEF IsCall, Drained
      <3>2. InChannel(v) = 0 /\ InHand(w, remote[k]) = 0
        BY <1>10, <3>1, Zenon DEF InChannel, InHand, Drained
      <3>3. v.owed = InChannel(v) + InHand(w, remote[k])
        BY <1>3, Zenon DEF IsCall
      <3> QED
        BY <3>2, <3>3, SMTT(30)
    <2> QED
      BY <1>1, <1>2, <1>4, <1>5, <1>6, <1>10, <2>1, OverHolds, Zenon
  <1> QED
    BY <1>2, <1>7, <1>8, <1>9, <1>10, Zenon

-----------------------------------------------------------------------------
(* The client's end. *)

\* A client without a request, as it is when it connects or when it is gone.
LEMMA NoLocalFacts ==
    /\ ClientShape(NoLocal) /\ NoLocal.busy = FALSE /\ NoLocal.inbox = NoRequest
    /\ NoLocal.doing = NoRequest /\ NoLocal.todo = <<>> /\ NoLocal.lease = Nobody
    /\ NoLocal.refused = FALSE /\ IsClient(NoLocal)
  <1>1. /\ ClientShape(NoLocal) /\ NoLocal.busy = FALSE /\ NoLocal.inbox = NoRequest
        /\ NoLocal.doing = NoRequest /\ NoLocal.todo = <<>> /\ NoLocal.lease = Nobody
        /\ NoLocal.refused = FALSE
    BY Zenon DEF NoLocal, ClientShape
  <1> QED
    BY <1>1, Zenon DEF IsClient

\* A wire with nothing on it.
LEMMA NoWireFacts == IsWire(NoWire) /\ NoWire.down = <<>> /\ NoWire.back = <<>> /\ NoWire.cut = FALSE
  <1>1. WireShape(NoWire) /\ NoWire.down = <<>> /\ NoWire.back = <<>> /\ NoWire.cut = FALSE
    BY Zenon DEF NoWire, WireShape
  <1> QED
    BY <1>1, EmptySeq, Zenon DEF IsWire

\* A server's end that is not connected.
LEMMA NoRemoteFacts ==
    /\ IsRemote(NoRemote) /\ NoRemote.up = FALSE /\ NoRemote.serial = Nobody
    /\ NoRemote.pending = Nobody /\ NoRemote.hand = NoFrame /\ NoFrame.to = Nobody
  <1>1. /\ RemoteShape(NoRemote) /\ NoRemote.up = FALSE /\ NoRemote.serial = Nobody
        /\ NoRemote.pending = Nobody /\ NoRemote.hand = NoFrame
    BY Zenon DEF NoRemote, RemoteShape
  <1>2. NoFrame.to = Nobody
    BY Zenon DEF NoFrame, Reply
  <1> QED
    BY <1>1, <1>2, Zenon DEF IsRemote

\* A client whose socket has failed.
LEMMA BrokenWire ==
    ASSUME NEW c, IsWire(c)
    PROVE  LET d == [c EXCEPT !.cut = TRUE, !.down = <<>>]
           IN  IsWire(d) /\ d.cut = TRUE /\ d.down = <<>>
  <1> DEFINE d == [c EXCEPT !.cut = TRUE, !.down = <<>>]
  <1>1. WireShape(d)
    BY WireFields, Zenon DEF IsWire
  <1>2. d.cut = TRUE /\ d.down = <<>> /\ d.back = c.back
    BY Zenon DEF IsWire, WireShape
  <1> HIDE DEF d
  <1>3. IsWire(d)
    BY <1>1, <1>2, EmptySeq, Zenon DEF IsWire
  <1> QED
    BY <1>2, <1>3 DEF d

\* A new client connects where nothing is left of an old one.
LEMMA ConnectHolds ==
    ASSUME IInv, NEW k \in Conn, Connect(k)
    PROVE  IInv'
  <1> DEFINE r == [NoRemote EXCEPT !.up = TRUE, !.reading = TRUE]
             l == [NoLocal EXCEPT !.state = "serving"]
  <1>1. /\ remote' = [remote EXCEPT ![k] = r] /\ wire' = [wire EXCEPT ![k] = NoWire]
        /\ local' = [local EXCEPT ![k] = l] /\ worker' = worker /\ fence' = fence
        /\ \A w \in Worker : worker[w].conn # k
    BY Zenon DEF Connect
  <1>2. RemoteShape(NoRemote)
    BY NoRemoteFacts, Zenon DEF IsRemote
  <1>3. RemoteShape(r)
    BY <1>2, RemoteFields, Zenon
  <1>4. /\ r.up = TRUE /\ r.serial = NoRemote.serial /\ r.pending = NoRemote.pending
        /\ r.hand = NoRemote.hand
    BY <1>2, Zenon DEF RemoteShape
  <1>5. ClientShape(l)
    BY NoLocalFacts, ClientFields, Zenon
  <1>6. /\ l.busy = NoLocal.busy /\ l.inbox = NoLocal.inbox /\ l.doing = NoLocal.doing
        /\ l.todo = NoLocal.todo /\ l.lease = NoLocal.lease /\ l.refused = NoLocal.refused
    BY NoLocalFacts, Zenon DEF ClientShape
  <1> HIDE DEF r, l
  <1>7. IsRemote(r)
    BY <1>3, <1>4, NoRemoteFacts, Zenon DEF IsRemote
  <1>8. IsClient(l) /\ l.lease = Nobody /\ l.busy = FALSE
    BY <1>5, <1>6, NoLocalFacts, Zenon DEF IsClient
  <1>9. IsServing(k, r, worker)
    BY <1>4, NoRemoteFacts, Zenon DEF IsServing
  <1>10. IsLive(r, NoWire, l, worker)
    BY <1>4, <1>8, NoRemoteFacts, NoWireFacts, Zenon DEF IsLive, Quiet
  <1>11. IsOwned(k, r, NoWire, l, worker)
    BY <1>8, Zenon DEF IsOwned
  <1> QED
    BY <1>1, <1>7, <1>8, <1>9, <1>10, <1>11, NoWireFacts, ConnectionStep, Zenon

\* The client closes, or its socket fails.
LEMMA StopHolds ==
    ASSUME IInv, NEW k \in Conn, LocalStop(k)
    PROVE  IInv'
  <1> DEFINE c == [wire[k] EXCEPT !.cut = TRUE, !.down = <<>>]
             l == Stopped(local[k])
  <1>1. /\ local' = [local EXCEPT ![k] = l] /\ wire' = [wire EXCEPT ![k] = c]
        /\ remote' = remote /\ worker' = worker /\ fence' = fence
    BY Zenon DEF LocalStop
  <1>2. IsClient(local[k]) /\ ClientShape(local[k])
    BY SameParts, Zenon DEF IsClient
  <1>3. ClientShape(l)
    BY <1>2, ClientFields, Zenon DEF Stopped
  <1>4. /\ l.busy = local[k].busy /\ l.inbox = local[k].inbox /\ l.doing = local[k].doing
        /\ l.todo = local[k].todo /\ l.lease = local[k].lease /\ l.refused = local[k].refused
    BY <1>2, Zenon DEF ClientShape, Stopped
  <1>5. IsWire(c) /\ c.cut = TRUE /\ c.down = <<>>
    BY SameParts, BrokenWire, Zenon
  <1> HIDE DEF c, l
  <1>6. IsClient(l)
    BY <1>2, <1>3, <1>4, Zenon DEF IsClient
  <1>7. IsLive(remote[k], c, l, worker) /\ IsOwned(k, remote[k], c, l, worker)
    BY <1>5, CutWireFacts, Zenon
  <1>8. l.lease # Nobody => fence' = k
    BY <1>1, <1>4, HereFacts, Zenon
  <1> QED
    BY <1>1, <1>5, <1>6, <1>7, <1>8, SameParts, HereFacts, ConnectionStep, Zenon

\* The client's process dies.
LEMMA CrashHolds ==
    ASSUME IInv, NEW k \in Conn, LocalCrash(k)
    PROVE  IInv'
  <1> DEFINE c == [wire[k] EXCEPT !.cut = TRUE, !.down = <<>>]
  <1>1. /\ local' = [local EXCEPT ![k] = NoLocal] /\ wire' = [wire EXCEPT ![k] = c]
        /\ remote' = remote /\ worker' = worker
        /\ fence' = IF fence = k THEN Free ELSE fence
    BY Zenon DEF LocalCrash
  <1>2. IsWire(c) /\ c.cut = TRUE /\ c.down = <<>>
    BY SameParts, BrokenWire, Zenon
  <1> HIDE DEF c
  <1>3. IsLive(remote[k], c, NoLocal, worker) /\ IsOwned(k, remote[k], c, NoLocal, worker)
    BY <1>2, CutWireFacts, Zenon
  <1>4. fence' = fence \/ fence \in {k, Free}
    BY <1>1, Zenon
  <1> QED
    BY <1>1, <1>2, <1>3, <1>4, SameParts, HereFacts, NoLocalFacts, ConnectionStep, ZenonT(40)

\* cleanup leaves nothing of a client that has stopped: if the socket has not
\* failed yet, what the server waits for will not come.
LEMMA CleanupHolds ==
    ASSUME IInv, NEW k \in Conn, LocalCleanup(k)
    PROVE  IInv'
  <1> DEFINE l == [NoLocal EXCEPT !.doing = local[k].doing, !.todo = local[k].todo]
             r == remote[k]
             c == wire[k]
  <1>1. /\ local' = [local EXCEPT ![k] = l] /\ wire' = wire /\ remote' = remote /\ worker' = worker
        /\ fence' = IF fence = k THEN Free ELSE fence
        /\ local[k].doing = NoRequest
    BY Zenon DEF LocalCleanup, Idle
  <1>2. IsClient(local[k]) /\ local[k].todo = <<>>
    BY <1>1, SameParts, Zenon DEF IsClient
  <1>3. ClientShape(l)
    BY NoLocalFacts, ClientFields, Zenon
  <1>4. /\ l.busy = NoLocal.busy /\ l.inbox = NoLocal.inbox /\ l.doing = local[k].doing
        /\ l.todo = local[k].todo /\ l.lease = NoLocal.lease /\ l.refused = NoLocal.refused
    BY NoLocalFacts, Zenon DEF ClientShape
  <1> HIDE DEF l
  <1>5. /\ l.busy = FALSE /\ l.inbox = NoRequest /\ l.doing = NoRequest
        /\ l.todo = <<>> /\ l.lease = Nobody /\ l.refused = FALSE
    BY <1>1, <1>2, <1>4, NoLocalFacts, Zenon
  <1>6. IsClient(l)
    BY <1>3, <1>5, Zenon DEF IsClient
  <1>7. IsLive(r, c, l, worker)
    <2> SUFFICES ASSUME r.up, ~c.cut PROVE IsLive(r, c, l, worker)
      BY Zenon DEF IsLive
    <2>1. CASE r.serial = Nobody
      BY <1>5, <2>1, HereFacts, Zenon DEF IsLive, Quiet
    <2>2. CASE r.serial # Nobody
      <3>1. IsExchange(r.serial, r, c, local[k], worker[r.serial])
        BY <2>2, HereFacts, Zenon DEF IsLive
      <3>2. \A f : IsLastWord(f, r.serial, worker[r.serial].op, c, local[k]) =>
                       IsLastWord(f, r.serial, worker[r.serial].op, c, l)
        BY <1>5, <2>2, Zenon DEF IsLastWord, Quiet
      <3>3. IsExchange(r.serial, r, c, l, worker[r.serial])
        BY <1>5, <2>2, <3>1, <3>2, Zenon DEF IsExchange
      <3> QED
        BY <2>2, <3>3, Zenon DEF IsLive
    <2> QED
      BY <2>1, <2>2, Zenon
  <1>8. IsOwned(k, r, c, l, worker)
    BY <1>5, Zenon DEF IsOwned
  <1>9. fence' = fence \/ fence \in {k, Free}
    BY <1>1, Zenon
  <1>10. /\ remote' = [remote EXCEPT ![k] = r] /\ wire' = [wire EXCEPT ![k] = c]
         /\ IsRemote(r) /\ IsWire(c) /\ IsServing(k, r, worker)
         /\ \A u \in Worker : worker[u].pc \in InCall /\ worker[u].conn = k => IsCall(u, worker[u], r)
    BY <1>1, SameParts, HereFacts, Zenon
  <1> QED
    BY <1>1, <1>5, <1>6, <1>7, <1>8, <1>9, <1>10, ConnectionStep, Zenon

\* readRequests takes the request that is under way: it works on none.
LEMMA RequestHolds ==
    ASSUME IInv, NEW k \in Conn, LocalReceive(k)
    PROVE  IInv'
  <1> DEFINE request == Head(wire[k].down)
             l == [local[k] EXCEPT !.busy = TRUE, !.inbox = request]
             cut == wire[k].cut \/ local[k].busy
             c == [wire[k] EXCEPT !.down = Tail(wire[k].down), !.cut = cut]
             r == remote[k]
  <1>1. /\ wire[k].down # <<>> /\ remote' = remote /\ worker' = worker /\ fence' = fence
        /\ wire' = [wire EXCEPT ![k] = c]
        /\ local[k].busy \/ local' = [local EXCEPT ![k] = l]
    BY Zenon DEF LocalReceive
  <1>2. /\ IsRemote(r) /\ IsWire(wire[k]) /\ IsClient(local[k]) /\ ClientShape(local[k])
        /\ WireShape(wire[k]) /\ local[k].busy \in BOOLEAN /\ wire[k].cut \in BOOLEAN
    BY SameParts, Zenon DEF IsClient, IsWire
  <1>3. local[k].busy = FALSE
    BY <1>1, <1>2, HereFacts, Zenon
  <1>4. ClientShape(l)
    BY <1>2, ClientFields, Zenon
  <1>5. /\ l.busy = TRUE /\ l.inbox = request /\ l.doing = local[k].doing
        /\ l.todo = local[k].todo /\ l.lease = local[k].lease /\ l.refused = local[k].refused
    BY <1>2, Zenon DEF ClientShape
  <1>6. WireShape(c)
    BY <1>2, WireFields, Zenon
  <1>7. c.down = Tail(wire[k].down) /\ c.back = wire[k].back /\ c.cut = cut
    BY <1>2, Zenon DEF WireShape
  <1>8. cut = wire[k].cut
    BY <1>2, <1>3, Zenon
  <1>9. /\ IsSeq(wire[k].down) /\ Len(wire[k].down) = 1 /\ Tail(wire[k].down) = <<>>
        /\ 1 \in 1..Len(wire[k].down) /\ request = wire[k].down[1]
    <2>1. IsSeq(wire[k].down) /\ Len(wire[k].down) <= 1
      BY <1>2, Zenon DEF IsWire
    <2> QED
      BY <1>1, <2>1, ShortSeq, Zenon
  <1> HIDE DEF l, c, cut, request
  <1>10. IsWire(c) /\ c.down = <<>> /\ c.cut = wire[k].cut
    BY <1>2, <1>6, <1>7, <1>8, <1>9, EmptySeq, Zenon DEF IsWire
  <1>11. IsRequest(request) /\ local[k].doing = NoRequest
    BY <1>2, <1>3, <1>9, Zenon DEF IsWire, IsClient
  <1>12. IsClient(l)
    BY <1>2, <1>4, <1>5, <1>11, Zenon DEF IsClient
  <1>13. ~Quiet(wire[k], local[k]) /\ ~Quiet(c, l)
    BY <1>1, <1>5, Zenon DEF Quiet
  <1>14. IsLive(r, c, l, worker)
    <2> SUFFICES ASSUME r.up, ~c.cut PROVE IsLive(r, c, l, worker)
      BY Zenon DEF IsLive
    <2> DEFINE s == r.serial
               v == worker[s]
    <2>1. s # Nobody /\ IsExchange(s, r, wire[k], local[k], v)
      BY <1>10, <1>13, HereFacts, Zenon DEF IsLive
    <2>2. \A f : IsLastWord(f, s, v.op, wire[k], local[k]) => ~f.last /\ IsLastWord(f, s, v.op, c, l)
      BY <1>13, Zenon DEF IsLastWord
    <2>3. request.from = s /\ request.op = v.op
      BY <1>9, <2>1, Zenon DEF IsExchange
    <2>4. /\ \A i \in 1..Len(c.back) :
                IsLastWord(c.back[i], s, v.op, c, l) /\ (c.back[i].last => i = Len(c.back))
          /\ r.hand.to # Nobody => IsLastWord(r.hand, s, v.op, c, l) /\ ~r.hand.last
          /\ v.result # <<>> => IsLastWord(Head(v.result), s, v.op, c, l) /\ ~Head(v.result).last
      BY <1>7, <2>1, <2>2, Zenon DEF IsExchange
    <2>5. \A i : i \notin 1..Len(c.down)
      BY <1>10, EmptySeq, Zenon
    <2>6. IsExchange(s, r, c, l, v)
      BY <1>5, <1>11, <1>13, <2>3, <2>4, <2>5, Zenon DEF IsExchange
    <2> QED
      BY <2>1, <2>6, Zenon DEF IsLive
  <1>15. IsOwned(k, r, c, l, worker)
    BY <1>5, <1>10, <1>13, HereFacts, Zenon DEF IsOwned
  <1>16. local' = [local EXCEPT ![k] = l] /\ (l.lease # Nobody => fence' = k)
    BY <1>1, <1>3, <1>5, HereFacts, Zenon
  <1>17. /\ remote' = [remote EXCEPT ![k] = r] /\ IsServing(k, r, worker)
         /\ \A u \in Worker : worker[u].pc \in InCall /\ worker[u].conn = k => IsCall(u, worker[u], r)
    BY <1>1, SameParts, HereFacts, Zenon
  <1> QED
    BY <1>1, <1>2, <1>10, <1>12, <1>14, <1>15, <1>16, <1>17, ConnectionStep, Zenon

\* The client works on its request: it answers with nothing but changes.
LEMMA WorkingHolds ==
    ASSUME IInv, NEW k \in Conn, NEW c, NEW l, NEW f,
           remote' = remote, worker' = worker, fence' = fence,
           wire' = [wire EXCEPT ![k] = c], local' = [local EXCEPT ![k] = l],
           IsWire(c), IsClient(l), local[k].busy = TRUE, l.busy = TRUE,
           l.lease = local[k].lease, c.down = wire[k].down, c.cut = wire[k].cut,
           c.back = wire[k].back \/ (c.back = Append(wire[k].back, f) /\ ~f.last),
           l.inbox # NoRequest => l.inbox = local[k].inbox,
           \/ l.doing = local[k].doing
           \/ /\ local[k].inbox # NoRequest
              /\ l.doing.from = local[k].inbox.from /\ l.doing.op = local[k].inbox.op
    PROVE  IInv'
  <1> DEFINE r == remote[k]
  <1>1. /\ remote' = [remote EXCEPT ![k] = r] /\ IsRemote(r) /\ IsWire(wire[k])
        /\ IsClient(local[k]) /\ IsServing(k, r, worker)
        /\ l.lease # Nobody => fence' = k
        /\ l.busy = TRUE => c.down = <<>>
        /\ \A u \in Worker : worker[u].pc \in InCall /\ worker[u].conn = k => IsCall(u, worker[u], r)
    BY SameParts, HereFacts, Zenon
  <1>2. ~Quiet(wire[k], local[k]) /\ ~Quiet(c, l)
    BY Zenon DEF Quiet
  <1>3. IsOwned(k, r, c, l, worker)
    BY <1>2, HereFacts, Zenon DEF IsOwned
  <1>4. IsLive(r, c, l, worker)
    <2> SUFFICES ASSUME r.up, ~c.cut PROVE IsLive(r, c, l, worker)
      BY Zenon DEF IsLive
    <2> DEFINE s == r.serial
               v == worker[s]
    <2>1. s # Nobody /\ IsExchange(s, r, wire[k], local[k], v)
      BY <1>2, HereFacts, Zenon DEF IsLive
    <2>2. \A g : IsLastWord(g, s, v.op, wire[k], local[k]) => ~g.last
      BY <1>2, Zenon DEF IsLastWord
    <2>3. \A g : ~g.last => IsLastWord(g, s, v.op, c, l)
      BY Zenon DEF IsLastWord
    <2>4. \A i \in 1..Len(wire[k].back) : ~wire[k].back[i].last
      BY <2>1, <2>2, Zenon DEF IsExchange
    <2>5. \A i \in 1..Len(c.back) : ~c.back[i].last
      <3>1. CASE c.back = wire[k].back
        BY <2>4, <3>1, Zenon
      <3>2. CASE c.back = Append(wire[k].back, f) /\ ~f.last
        <4>1. /\ Len(wire[k].back) \in Nat /\ Len(c.back) = Len(wire[k].back) + 1
              /\ \A i \in 1..Len(c.back) :
                    c.back[i] = IF i <= Len(wire[k].back) THEN wire[k].back[i] ELSE f
          BY <1>1, <3>2, AppendSeq, SMTT(30) DEF IsWire
        <4> HIDE DEF r
        <4> QED
          BY <2>4, <3>2, <4>1, SMTT(30)
      <3> QED
        BY <3>1, <3>2, Zenon
    <2>6. /\ r.hand.to # Nobody => ~r.hand.last
          /\ v.result # <<>> => ~Head(v.result).last
      BY <2>1, <2>2, Zenon DEF IsExchange
    <2>7. /\ l.inbox # NoRequest => l.inbox.from = s /\ l.inbox.op = v.op
          /\ l.doing # NoRequest => l.doing.from = s /\ l.doing.op = v.op
          /\ \A i \in 1..Len(c.down) : c.down[i].from = s /\ c.down[i].op = v.op
      BY <2>1, ZenonT(40) DEF IsExchange
    <2> HIDE DEF v, s
    <2>8. IsExchange(s, r, c, l, v)
      BY <1>2, <2>3, <2>5, <2>6, <2>7, Zenon DEF IsExchange
    <2> QED
      BY <2>1, <2>8, Zenon DEF IsLive, s, v
  <1> HIDE DEF r
  <1> QED
    BY <1>1, <1>3, <1>4, ConnectionStep, Zenon

\* The client has done what was asked and says so: the last word says whether
\* an acquisition has got the lease.
LEMMA AnsweredHolds ==
    ASSUME IInv, NEW k \in Conn, NEW c, NEW l, NEW f, NEW q,
           remote' = remote, worker' = worker,
           wire' = [wire EXCEPT ![k] = c], local' = [local EXCEPT ![k] = l],
           IsWire(c), IsClient(l), local[k].busy = TRUE, l.busy = FALSE,
           l.inbox = NoRequest, l.doing = NoRequest,
           c.down = wire[k].down, c.cut = wire[k].cut,
           ~wire[k].cut => c.back = Append(wire[k].back, f), f.last,
           q = local[k].inbox \/ q = local[k].doing, q # NoRequest,
           \/ /\ l.lease = local[k].lease /\ fence' = fence
              /\ q.op = "release" => local[k].lease # q.from
           \/ /\ q.op = "acquire" /\ l.lease = q.from /\ f.outcome = "ok"
              /\ fence = Free /\ fence' = k
           \/ l.lease = Nobody /\ fence = k /\ fence' = Free
    PROVE  IInv'
  <1> DEFINE r == remote[k]
             s == r.serial
             v == worker[s]
  <1>1. /\ remote' = [remote EXCEPT ![k] = r] /\ IsRemote(r) /\ IsWire(wire[k])
        /\ IsClient(local[k]) /\ IsServing(k, r, worker)
        /\ wire[k].down = <<>> /\ (local[k].lease # Nobody => fence = k)
        /\ IsOwned(k, r, wire[k], local[k], worker)
        /\ IsLive(r, wire[k], local[k], worker)
        /\ \A u \in Worker : worker[u].pc \in InCall /\ worker[u].conn = k => IsCall(u, worker[u], r)
    BY SameParts, HereFacts, Zenon
  <1>2. /\ l.lease # Nobody => fence' = k
        /\ fence' = fence \/ fence \in {k, Free}
        /\ l.busy = TRUE => c.down = <<>>
    BY <1>1, Zenon
  <1>3. ~Quiet(wire[k], local[k]) /\ Quiet(c, l)
    BY <1>1, Zenon DEF Quiet
  <1> HIDE DEF r
  <1>4. r.up /\ ~c.cut => /\ s \in Worker /\ v.conn = k /\ v.pc = "sent"
                          /\ IsExchange(s, r, wire[k], local[k], v)
                          /\ q.from = s /\ q.op = v.op
    <2> SUFFICES ASSUME r.up, ~c.cut
                 PROVE  /\ s \in Worker /\ v.conn = k /\ v.pc = "sent"
                        /\ IsExchange(s, r, wire[k], local[k], v)
                        /\ q.from = s /\ q.op = v.op
      BY Zenon
    <2>1. s # Nobody /\ IsExchange(s, r, wire[k], local[k], v)
      BY <1>1, <1>3, Zenon DEF IsLive
    <2>2. s \in Worker /\ v.conn = k /\ v.pc = "sent"
      BY <1>1, <2>1, Zenon DEF IsServing, IsRemote
    <2>3. q.from = s /\ q.op = v.op
      BY <2>1, Zenon DEF IsExchange
    <2> QED
      BY <2>1, <2>2, <2>3, Zenon
  <1>5. r.up /\ ~c.cut /\ local[k].lease # Nobody =>
            worker[local[k].lease].conn = k /\ worker[local[k].lease].leased = TRUE
    BY <1>1, <1>3, Zenon DEF IsOwned
  <1>6. r.up /\ ~c.cut /\ v.op = "acquire" => v.leased = FALSE /\ local[k].lease # s
    <2> SUFFICES ASSUME r.up, ~c.cut, v.op = "acquire"
                 PROVE  v.leased = FALSE /\ local[k].lease # s
      BY Zenon
    <2>1. s \in Worker /\ IsCaller(v)
      BY <1>4, SameParts, Zenon
    <2>2. v.leased = FALSE
      BY <2>1, Zenon DEF IsCaller
    <2> QED
      BY <1>5, <2>1, <2>2, TransportAssumption, Zenon
  <1>7. IsOwned(k, r, c, l, worker)
    BY <1>3, <1>4, <1>5, Zenon DEF IsOwned
  <1>8. IsLive(r, c, l, worker)
    <2> SUFFICES ASSUME r.up, ~c.cut PROVE IsExchange(s, r, c, l, v)
      BY <1>4, TransportAssumption, Zenon DEF IsLive
    <2>1. s # Nobody /\ s \in Worker /\ q.from = s /\ q.op = v.op
      BY <1>4, TransportAssumption, Zenon
    <2>2. /\ v.op = "acquire" => f.outcome = "ok" \/ l.lease # s
          /\ v.op = "release" => l.lease # s
      BY <1>6, <2>1, Zenon
    <2>3. IsLastWord(f, s, v.op, c, l)
      BY <1>3, <2>2, Zenon DEF IsLastWord
    <2>4. \A g : IsLastWord(g, s, v.op, wire[k], local[k]) => ~g.last
      BY <1>3, Zenon DEF IsLastWord
    <2>5. \A g : ~g.last => IsLastWord(g, s, v.op, c, l)
      BY Zenon DEF IsLastWord
    <2>6. \A i \in 1..Len(wire[k].back) : ~wire[k].back[i].last
      BY <1>4, <2>4, Zenon DEF IsExchange
    <2>7. \A i \in 1..Len(c.back) :
              IsLastWord(c.back[i], s, v.op, c, l) /\ (c.back[i].last => i = Len(c.back))
      <3>1. /\ Len(wire[k].back) \in Nat /\ Len(c.back) = Len(wire[k].back) + 1
            /\ \A i \in 1..Len(c.back) :
                  c.back[i] = IF i <= Len(wire[k].back) THEN wire[k].back[i] ELSE f
        BY <1>1, AppendSeq, SMTT(30) DEF IsWire
      <3> SUFFICES ASSUME NEW i \in 1..Len(c.back)
                   PROVE  /\ IsLastWord(c.back[i], s, v.op, c, l)
                          /\ c.back[i].last => i = Len(c.back)
        BY Zenon
      <3>2. CASE i <= Len(wire[k].back)
        <4>1. c.back[i] = wire[k].back[i] /\ i \in 1..Len(wire[k].back)
          BY <3>1, <3>2, SMTT(30)
        <4> QED
          BY <2>5, <2>6, <4>1, Zenon
      <3>3. CASE ~(i <= Len(wire[k].back))
        <4>1. c.back[i] = f /\ i = Len(c.back)
          BY <3>1, <3>3, SMTT(30)
        <4> QED
          BY <2>3, <4>1, Zenon
      <3> QED
        BY <3>2, <3>3, Zenon
    <2>8. /\ r.hand.to # Nobody => ~r.hand.last
          /\ v.result # <<>> => ~Head(v.result).last
      BY <1>4, <2>4, Zenon DEF IsExchange
    <2>9. \A i \in 1..Len(c.down) : c.down[i].from = s /\ c.down[i].op = v.op
      BY <1>4, ZenonT(40) DEF IsExchange
    <2> HIDE DEF v, s
    <2> QED
      BY <2>2, <2>5, <2>7, <2>8, <2>9, Zenon DEF IsExchange
  <1> QED
    BY <1>1, <1>2, <1>7, <1>8, ConnectionStep, Zenon

\* m is l without its request.
IsDone(m, l) ==
    /\ ClientShape(m) /\ m.busy = FALSE /\ m.inbox = NoRequest /\ m.doing = NoRequest
    /\ m.todo = l.todo /\ m.lease = l.lease /\ m.refused = l.refused

\* What an answer leaves of a client's request, whatever came of it.
LEMMA AnsweredFacts ==
    ASSUME NEW k, NEW l, ClientShape(l)
    PROVE  IsDone(Answered(k, l), l)
  <1> DEFINE state == IF wire[k].cut THEN "stopped" ELSE l.state
             m == [l EXCEPT !.busy = FALSE, !.inbox = NoRequest, !.doing = NoRequest,
                            !.state = state]
  <1>1. Answered(k, l) = m
    BY Zenon DEF Answered
  <1>2. ClientShape(m)
    BY ClientFields, Zenon
  <1>3. /\ m.busy = FALSE /\ m.inbox = NoRequest /\ m.doing = NoRequest /\ m.todo = l.todo
        /\ m.lease = l.lease /\ m.refused = l.refused
    BY Zenon DEF ClientShape
  <1> HIDE DEF m
  <1> QED
    BY <1>1, <1>2, <1>3, Zenon DEF IsDone

\* c is d with other replies under way.
IsReplied(c, d, back) == IsWire(c) /\ c.down = d.down /\ c.cut = d.cut /\ c.back = back

\* The wire with one more reply, unless the socket has failed.
LEMMA AnswerFacts ==
    ASSUME NEW d, IsWire(d), NEW back, IsSeq(back)
    PROVE  IsReplied([d EXCEPT !.back = back], d, back)
  <1> DEFINE c == [d EXCEPT !.back = back]
  <1>1. WireShape(d)
    BY Zenon DEF IsWire
  <1>2. WireShape(c)
    BY <1>1, WireFields, Zenon
  <1>3. c.down = d.down /\ c.cut = d.cut /\ c.back = back
    BY <1>1, Zenon DEF WireShape
  <1> HIDE DEF c
  <1>4. IsWire(c)
    BY <1>2, <1>3, Zenon DEF IsWire
  <1> QED
    BY <1>3, <1>4 DEF c, IsReplied

\* operate: a lease is granted while the fence is free and given back by who
\* has it; otherwise it stays, and a release that leaves it was not its owner's.
LEMMA OperatedFacts ==
    ASSUME IInv, NEW k \in Conn, local[k].inbox # NoRequest, local[k].inbox.op # "apply"
    PROVE  LET l == local[k]
               q == l.inbox
               d == Operated(k, l, q)
           IN  /\ ClientShape(d.l) /\ d.l.todo = l.todo /\ d.l.refused = l.refused
               /\ \/ /\ d.l.lease = l.lease /\ d.fence = fence
                     /\ q.op = "release" => l.lease # q.from
                  \/ /\ q.op = "acquire" /\ d.l.lease = q.from /\ d.outcome = "ok"
                     /\ fence = Free /\ d.fence = k
                  \/ d.l.lease = Nobody /\ fence = k /\ d.fence = Free
  <1> DEFINE l == local[k]
             q == l.inbox
             d == Operated(k, l, q)
             Kept(m) == ClientShape(m) /\ m.todo = l.todo /\ m.refused = l.refused
  <1>1. IsClient(l) /\ ClientShape(l) /\ IsRequest(q)
    BY SameParts, Zenon DEF IsClient
  <1>2. q.op \in {"attest", "acquire", "read", "prepare", "release"} /\ q.from \in Worker
    BY <1>1, Zenon DEF IsRequest, Ops
  <1>3. CASE Unleased(l, q)
    <2>1. d = [l |-> l, outcome |-> "failed", fence |-> fence]
      BY <1>3, Zenon DEF Operated
    <2> HIDE DEF d
    <2>2. d.l = l /\ d.fence = fence
      BY <2>1, Zenon
    <2> QED
      BY <1>1, <1>3, <2>2, Zenon DEF Unleased, d
  <1>4. CASE ~Unleased(l, q) /\ q.op \in {"attest", "read"}
    <2>1. d = [l |-> l, outcome |-> "ok", fence |-> fence]
      BY <1>4, Zenon DEF Operated
    <2> HIDE DEF d
    <2>2. d.l = l /\ d.fence = fence
      BY <2>1, Zenon
    <2> QED
      BY <1>1, <1>4, <2>2, Zenon DEF d
  <1>5. CASE ~Unleased(l, q) /\ q.op = "acquire"
    <2>1. CASE Acquirable(l)
      <3> DEFINE m == [l EXCEPT !.lease = q.from]
      <3>1. d = [l |-> m, outcome |-> "ok", fence |-> k]
        BY <1>5, <2>1, Zenon DEF Operated
      <3> HIDE DEF d
      <3>2. d.l = m /\ d.fence = k /\ d.outcome = "ok"
        BY <3>1
      <3>3. ClientShape(m)
        BY <1>1, ClientFields, Zenon
      <3>4. m.todo = l.todo /\ m.refused = l.refused /\ m.lease = q.from
        BY <1>1, Zenon DEF ClientShape
      <3>5. fence = Free
        BY <2>1, Zenon DEF Acquirable
      <3> HIDE DEF m
      <3> QED
        BY <1>5, <3>2, <3>3, <3>4, <3>5, Zenon DEF d
    <2>2. CASE ~Acquirable(l)
      <3>1. d = [l |-> l, outcome |-> "busy", fence |-> fence]
        BY <1>5, <2>2, Zenon DEF Operated
      <3> HIDE DEF d
      <3>2. d.l = l /\ d.fence = fence
        BY <3>1, Zenon
      <3> QED
        BY <1>1, <1>5, <3>2, Zenon DEF d
    <2> QED
      BY <2>1, <2>2, Zenon
  <1>6. CASE ~Unleased(l, q) /\ q.op = "prepare"
    <2> DEFINE m == [l EXCEPT !.prepared = q]
    <2>1. d.l \in {l, m} /\ d.fence = fence
      BY <1>6, Zenon DEF Operated
    <2> HIDE DEF d
    <2>2. ClientShape(m)
      BY <1>1, ClientFields, Zenon
    <2>3. m.todo = l.todo /\ m.refused = l.refused /\ m.lease = l.lease
      BY <1>1, Zenon DEF ClientShape
    <2> HIDE DEF m
    <2> QED
      BY <1>1, <1>6, <2>1, <2>2, <2>3, Zenon DEF d
  <1>7. CASE ~Unleased(l, q) /\ q.op = "release"
    <2> DEFINE m == [l EXCEPT !.lease = Nobody, !.prepared = NoRequest]
    <2>1. d = [l |-> m, outcome |-> "ok", fence |-> Free]
      BY <1>7, Zenon DEF Operated
    <2> HIDE DEF d
    <2>2. d.l = m /\ d.fence = Free
      BY <2>1
    <2>3. ClientShape(m)
      BY <1>1, ClientFields, Zenon
    <2>4. m.todo = l.todo /\ m.refused = l.refused /\ m.lease = Nobody
      BY <1>1, Zenon DEF ClientShape
    <2>5. l.lease # Nobody
      BY <1>1, <1>2, <1>7, TransportAssumption, Zenon DEF IsRequest, Leasing, Unleased
    <2>6. fence = k
      BY <2>5, HereFacts, Zenon
    <2> HIDE DEF m
    <2> QED
      BY <2>2, <2>3, <2>4, <2>6, Zenon DEF d
  <1> QED
    BY <1>2, <1>3, <1>4, <1>5, <1>6, <1>7, Zenon

\* serve answers a request other than an apply.
LEMMA ExecuteHolds ==
    ASSUME IInv, NEW k \in Conn, LocalExecute(k)
    PROVE  IInv'
  <1> DEFINE q == local[k].inbox
             d == Operated(k, local[k], q)
             l == Answered(k, d.l)
             f == Reply(q.from, d.outcome, IF q.op = "read" THEN files ELSE NoFiles)
             back == IF wire[k].cut THEN wire[k].back ELSE Append(wire[k].back, f)
             c == [wire[k] EXCEPT !.back = back]
  <1>1. /\ q # NoRequest /\ q.op # "apply" /\ remote' = remote /\ worker' = worker
        /\ local' = [local EXCEPT ![k] = l] /\ fence' = d.fence
        /\ wire' = [wire EXCEPT ![k] = c]
    BY ZenonT(40) DEF LocalExecute, Answer
  <1>2. /\ ClientShape(d.l) /\ d.l.todo = local[k].todo /\ d.l.refused = local[k].refused
        /\ \/ /\ d.l.lease = local[k].lease /\ d.fence = fence
              /\ q.op = "release" => local[k].lease # q.from
           \/ /\ q.op = "acquire" /\ d.l.lease = q.from /\ d.outcome = "ok"
              /\ fence = Free /\ d.fence = k
           \/ d.l.lease = Nobody /\ fence = k /\ d.fence = Free
    BY <1>1, OperatedFacts, Zenon
  <1> HIDE DEF d
  <1>3. /\ ClientShape(l) /\ l.busy = FALSE /\ l.inbox = NoRequest /\ l.doing = NoRequest
        /\ l.todo = d.l.todo /\ l.lease = d.l.lease /\ l.refused = d.l.refused
    <2>1. ClientShape(d.l)
      BY <1>2, Zenon
    <2>2. IsDone(l, d.l)
      BY <2>1, AnsweredFacts, Zenon
    <2> QED
      BY <2>2, Zenon DEF IsDone
  <1>4. f.last /\ f.outcome = d.outcome
    BY Zenon DEF Reply
  <1>5. back = wire[k].back \/ back = Append(wire[k].back, f)
    BY Zenon
  <1>6. ~wire[k].cut => back = Append(wire[k].back, f)
    BY Zenon
  <1> HIDE DEF f, back
  <1>7. IsWire(c) /\ c.down = wire[k].down /\ c.cut = wire[k].cut /\ c.back = back
    <2>1. IsWire(wire[k]) /\ IsSeq(wire[k].back)
      BY SameParts, Zenon DEF IsWire
    <2>2. IsSeq(back)
      BY <1>5, <2>1, AppendSeq, Zenon
    <2>3. IsReplied(c, wire[k], back)
      BY <2>1, <2>2, AnswerFacts, Zenon
    <2> QED
      BY <2>3, Zenon DEF IsReplied
  <1>8. /\ IsClient(local[k]) /\ IsRequest(q) /\ local[k].busy = TRUE
        /\ local[k].doing = NoRequest /\ local[k].todo = <<>>
    BY <1>1, SameParts, Zenon DEF IsClient
  <1> HIDE DEF l, c
  <1>9. l.lease \in Worker \cup {Nobody}
    BY <1>2, <1>3, <1>8, Zenon DEF IsClient, IsRequest
  <1>10. IsClient(l)
    BY <1>2, <1>3, <1>8, <1>9, Zenon DEF IsClient
  <1>11. \/ /\ l.lease = local[k].lease /\ fence' = fence
            /\ q.op = "release" => local[k].lease # q.from
         \/ /\ q.op = "acquire" /\ l.lease = q.from /\ f.outcome = "ok"
            /\ fence = Free /\ fence' = k
         \/ l.lease = Nobody /\ fence = k /\ fence' = Free
    BY <1>1, <1>2, <1>3, <1>4, Zenon
  <1>12. ~wire[k].cut => c.back = Append(wire[k].back, f)
    BY <1>6, <1>7, Zenon
  <1> HIDE DEF q
  <1>13. q = local[k].inbox \/ q = local[k].doing
    BY Zenon DEF q
  <1> QED
    BY <1>1, <1>3, <1>4, <1>7, <1>8, <1>10, <1>11, <1>12, <1>13, AnsweredHolds, Zenon

\* An apply begins: the client works only if the caller has the lease.
LEMMA ApplyHolds ==
    ASSUME IInv, NEW k \in Conn, LocalApply(k)
    PROVE  IInv'
  <1> DEFINE q == local[k].inbox
             ready == ~Unleased(local[k], q) /\ local[k].prepared.from = q.from
             prepared == IF ready THEN NoRequest ELSE local[k].prepared
             doing == [q EXCEPT !.plan = local[k].prepared.plan]
             todo == IF ready /\ local[k].prepared.expected \in {NoFiles, files}
                     THEN Work(local[k].prepared.plan) ELSE <<>>
             failed == ~(ready /\ local[k].prepared.expected \in {NoFiles, files})
             l == [local[k] EXCEPT !.inbox = NoRequest, !.prepared = prepared, !.doing = doing,
                                   !.todo = todo, !.failed = failed]
  <1>1. /\ q # NoRequest /\ q.op = "apply" /\ remote' = remote /\ wire' = wire
        /\ worker' = worker /\ fence' = fence /\ local' = [local EXCEPT ![k] = l]
    BY Zenon DEF LocalApply
  <1>2. /\ IsClient(local[k]) /\ ClientShape(local[k]) /\ IsRequest(q) /\ local[k].busy = TRUE
        /\ IsWire(wire[k]) /\ wire = [wire EXCEPT ![k] = wire[k]]
    BY <1>1, SameParts, Zenon DEF IsClient
  <1>3. doing.from = q.from /\ doing.op = q.op
    BY <1>2, Zenon DEF IsRequest
  <1>4. todo # <<>> => local[k].lease # Nobody
    <2>1. todo # <<>> => ~Unleased(local[k], q)
      BY Zenon
    <2> HIDE DEF todo
    <2>2. q.leased = TRUE /\ q.from # Nobody
      BY <1>1, <1>2, TransportAssumption, Zenon DEF IsRequest, Leasing
    <2> QED
      BY <2>1, <2>2, Zenon DEF Unleased
  <1> HIDE DEF ready, prepared, doing, todo, failed
  <1>5. ClientShape(l)
    BY <1>2, ClientFields, Zenon
  <1>6. /\ l.busy = local[k].busy /\ l.inbox = NoRequest /\ l.doing = doing
        /\ l.todo = todo /\ l.lease = local[k].lease /\ l.refused = local[k].refused
    BY <1>2, Zenon DEF ClientShape
  <1> HIDE DEF l
  <1>7. l.doing # NoRequest
    <2>1. NoRequest.from = Nobody /\ q.from # Nobody
      BY <1>2, TransportAssumption, Zenon DEF NoRequest, IsRequest
    <2> QED
      BY <1>3, <1>6, <2>1, Zenon
  <1>8. IsClient(l)
    BY <1>1, <1>2, <1>3, <1>4, <1>5, <1>6, <1>7, Zenon DEF IsClient
  <1>9. \/ l.doing = local[k].doing
        \/ /\ local[k].inbox # NoRequest
           /\ l.doing.from = local[k].inbox.from /\ l.doing.op = local[k].inbox.op
    BY <1>1, <1>3, <1>6, Zenon
  <1> HIDE DEF q
  <1>10. wire' = [wire EXCEPT ![k] = wire[k]]
    BY <1>1, <1>2, Zenon
  <1> QED
    BY <1>1, <1>2, <1>6, <1>8, <1>9, <1>10, WorkingHolds, Zenon

\* One task of an apply, on a connection or after it.
LEMMA TaskHolds ==
    ASSUME IInv, NEW k \in Conn, LocalTask(k)
    PROVE  IInv'
  <1> DEFINE d == local[k]
  <1>1. PICK c, f, todo, failed :
            /\ d.doing # NoRequest /\ d.todo # <<>>
            /\ remote' = remote /\ worker' = worker /\ fence' = fence
            /\ local' = [local EXCEPT ![k] = [d EXCEPT !.todo = todo, !.failed = failed]]
            /\ \/ wire' = wire /\ c = wire[k]
               \/ /\ wire' = [wire EXCEPT ![k] = c]
                  /\ c = [wire[k] EXCEPT !.back = Append(wire[k].back, f)] /\ ~f.last
               \/ /\ wire' = [wire EXCEPT ![k] = c]
                  /\ c = [wire[k] EXCEPT !.back = wire[k].back]
    <2> DEFINE done == Perform(files, d.doing.plan, Head(d.todo))
               reported == Recorded(done.change)
               f == Report(d.doing.from, done.change)
               back == IF reported /\ ~wire[k].cut THEN Append(wire[k].back, f) ELSE wire[k].back
    <2>1. CASE d.state = "serving"
      <3>1. /\ d.doing # NoRequest /\ d.todo # <<>>
            /\ remote' = remote /\ worker' = worker /\ fence' = fence
            /\ local' = [local EXCEPT ![k] =
                  [d EXCEPT !.todo = IF done.failed \/ (reported /\ wire[k].cut)
                                     THEN <<>> ELSE Tail(d.todo),
                            !.failed = done.failed \/ (reported /\ wire[k].cut)]]
            /\ wire' = [wire EXCEPT ![k] = [wire[k] EXCEPT !.back = back]]
        BY <2>1, Zenon DEF LocalTask
      <3>2. ~f.last
        BY Zenon DEF Report
      <3>3. back = Append(wire[k].back, f) \/ back = wire[k].back
        BY Zenon
      <3> HIDE DEF done, reported, f, back
      <3> QED
        BY <3>1, <3>2, <3>3, Zenon
    <2>2. CASE d.state = "stopped"
      <3>1. /\ d.doing # NoRequest /\ d.todo # <<>>
            /\ remote' = remote /\ worker' = worker /\ fence' = fence /\ wire' = wire
            /\ local' = [local EXCEPT ![k] = [d EXCEPT !.todo = <<>>, !.failed = TRUE]]
        BY <2>2, Zenon DEF LocalTask
      <3> HIDE DEF done, reported, f, back
      <3> QED
        BY <3>1, Zenon
    <2> QED
      BY <2>1, <2>2, Zenon DEF LocalTask
  <1> DEFINE l == [d EXCEPT !.todo = todo, !.failed = failed]
  <1>2. /\ IsClient(d) /\ ClientShape(d) /\ d.busy = TRUE /\ IsWire(wire[k])
        /\ wire = [wire EXCEPT ![k] = wire[k]] /\ IsSeq(wire[k].back)
    BY <1>1, SameParts, Zenon DEF IsClient, IsWire
  <1>3. ClientShape(l)
    BY <1>2, ClientFields, Zenon
  <1>4. /\ l.busy = d.busy /\ l.inbox = d.inbox /\ l.doing = d.doing
        /\ l.lease = d.lease /\ l.refused = d.refused
    BY <1>2, Zenon DEF ClientShape
  <1> HIDE DEF l
  <1>5. IsClient(l)
    BY <1>1, <1>2, <1>3, <1>4, Zenon DEF IsClient
  <1>6. /\ IsWire(c) /\ c.down = wire[k].down /\ c.cut = wire[k].cut
        /\ c.back = wire[k].back \/ (c.back = Append(wire[k].back, f) /\ ~f.last)
        /\ wire' = [wire EXCEPT ![k] = c]
    <2>1. CASE wire' = wire /\ c = wire[k]
      BY <1>2, <2>1, Zenon
    <2>2. ASSUME NEW back, IsSeq(back), wire' = [wire EXCEPT ![k] = c],
                 c = [wire[k] EXCEPT !.back = back]
          PROVE  /\ IsWire(c) /\ c.down = wire[k].down /\ c.cut = wire[k].cut /\ c.back = back
      <3>1. IsReplied(c, wire[k], back)
        BY <1>2, <2>2, AnswerFacts, Zenon
      <3> QED
        BY <3>1, Zenon DEF IsReplied
    <2>3. IsSeq(Append(wire[k].back, f))
      BY <1>2, AppendSeq, Zenon
    <2>4. CASE /\ wire' = [wire EXCEPT ![k] = c]
               /\ c = [wire[k] EXCEPT !.back = Append(wire[k].back, f)] /\ ~f.last
      BY <2>2, <2>3, <2>4, Zenon
    <2>5. CASE wire' = [wire EXCEPT ![k] = c] /\ c = [wire[k] EXCEPT !.back = wire[k].back]
      BY <1>2, <2>2, <2>5, Zenon
    <2> QED
      BY <1>1, <2>1, <2>4, <2>5, Zenon
  <1>7. /\ local' = [local EXCEPT ![k] = l] /\ l.busy = TRUE
        /\ l.inbox # NoRequest => l.inbox = local[k].inbox
        /\ l.doing = local[k].doing /\ l.lease = local[k].lease /\ local[k].busy = TRUE
    BY <1>1, <1>2, <1>4, Zenon DEF l
  <1> QED
    BY <1>1, <1>5, <1>6, <1>7, WorkingHolds, Zenon

\* The apply is answered, and no lease changes hands.
LEMMA AppliedHolds ==
    ASSUME IInv, NEW k \in Conn, LocalApplied(k)
    PROVE  IInv'
  <1> DEFINE q == local[k].doing
             m == Answered(k, local[k])
             l == [m EXCEPT !.failed = FALSE]
             f == Reply(q.from, IF local[k].failed THEN "failed" ELSE "ok", NoFiles)
             back == IF wire[k].cut THEN wire[k].back ELSE Append(wire[k].back, f)
             c == [wire[k] EXCEPT !.back = back]
  <1>1. /\ q # NoRequest /\ local[k].todo = <<>> /\ remote' = remote /\ worker' = worker
        /\ fence' = fence /\ local' = [local EXCEPT ![k] = l]
        /\ wire' = [wire EXCEPT ![k] = c]
    BY Zenon DEF LocalApplied, Answer
  <1>2. /\ IsClient(local[k]) /\ ClientShape(local[k]) /\ local[k].busy = TRUE /\ q.op = "apply"
        /\ IsWire(wire[k]) /\ IsSeq(wire[k].back)
    BY <1>1, SameParts, Zenon DEF IsClient, IsWire
  <1>3. IsDone(m, local[k])
    BY <1>2, AnsweredFacts, Zenon
  <1>4. f.last
    BY Zenon DEF Reply
  <1>5. (back = wire[k].back \/ back = Append(wire[k].back, f))
          /\ (~wire[k].cut => back = Append(wire[k].back, f))
    BY Zenon
  <1> HIDE DEF m, f, back
  <1>6. ClientShape(m)
    BY <1>3, Zenon DEF IsDone
  <1>7. ClientShape(l)
    BY <1>6, ClientFields, Zenon
  <1>8. /\ l.busy = m.busy /\ l.inbox = m.inbox /\ l.doing = m.doing /\ l.todo = m.todo
        /\ l.lease = m.lease /\ l.refused = m.refused
    BY <1>6, Zenon DEF ClientShape
  <1> HIDE DEF l
  <1>9. /\ l.busy = FALSE /\ l.inbox = NoRequest /\ l.doing = NoRequest
        /\ l.todo = <<>> /\ l.lease = local[k].lease /\ l.refused = local[k].refused
    BY <1>1, <1>3, <1>8, Zenon DEF IsDone
  <1>10. IsClient(l)
    BY <1>2, <1>7, <1>9, Zenon DEF IsClient
  <1>11. IsSeq(back)
    BY <1>2, <1>5, AppendSeq, Zenon
  <1>12. IsReplied(c, wire[k], back)
    BY <1>2, <1>11, AnswerFacts, Zenon
  <1>13. /\ IsWire(c) /\ c.down = wire[k].down /\ c.cut = wire[k].cut
         /\ ~wire[k].cut => c.back = Append(wire[k].back, f)
    BY <1>5, <1>12, Zenon DEF IsReplied
  <1>14. /\ l.lease = local[k].lease /\ fence' = fence
         /\ q.op = "release" => local[k].lease # q.from
    BY <1>1, <1>2, <1>9, Zenon
  <1> HIDE DEF c, q
  <1>15. q = local[k].inbox \/ q = local[k].doing
    BY Zenon DEF q
  <1> QED
    BY <1>1, <1>2, <1>4, <1>9, <1>10, <1>13, <1>14, <1>15, AnsweredHolds, Zenon

-----------------------------------------------------------------------------
(* All steps. *)

\* A process of the host takes the fence when no client has a lease, and gives
\* back what is its own.
LEMMA HostHolds ==
    ASSUME IInv, HostAcquire \/ HostRelease
    PROVE  IInv'
  <1>1. /\ fence = Free \/ fence = Host
        /\ remote' = remote /\ wire' = wire /\ local' = local /\ worker' = worker
    BY Zenon DEF HostAcquire, HostRelease
  <1>2. LeasesFenced'
    BY <1>1, ConnFacts, Zenon DEF IInv, LeasesFenced
  <1> QED
    BY <1>1, <1>2, Zenon DEF IInv, PartsHold, OneAtATime, CallsHold, ServersHold, LiveHold, OwnersHold

\* At the start nobody is connected.
LEMMA InitHolds == Init => IInv
  <1> SUFFICES ASSUME Init PROVE IInv
    BY Zenon
  <1>1. /\ remote = [k \in Conn |-> NoRemote] /\ wire = [k \in Conn |-> NoWire]
        /\ local = [k \in Conn |-> NoLocal] /\ worker = [w \in Worker |-> IdleWorker]
    BY Zenon DEF Init
  <1>2. PartsHold
    BY <1>1, NoRemoteFacts, NoWireFacts, NoLocalFacts, IdleFacts, Zenon DEF PartsHold
  <1>3. LeasesFenced /\ OneAtATime
    BY <1>1, NoLocalFacts, Zenon DEF LeasesFenced, OneAtATime
  <1>4. CallsHold
    BY <1>1, IdleFacts, Zenon DEF CallsHold, InCall
  <1>5. \A k \in Conn : remote[k].up = FALSE
    BY <1>1, NoRemoteFacts, Zenon
  <1>6. ServersHold /\ LiveHold /\ OwnersHold
    BY <1>5, DownFacts, Zenon DEF ServersHold, LiveHold, OwnersHold
  <1> QED
    BY <1>2, <1>3, <1>4, <1>6, Zenon DEF IInv

\* Every step of the server, of a client and of the host keeps the invariant.
LEMMA NextHolds == IInv /\ [Next]_vars => IInv'
  <1> SUFFICES ASSUME IInv, [Next]_vars PROVE IInv'
    BY Zenon
  <1>1. CASE UNCHANGED vars
    BY <1>1, Zenon DEF vars, IInv, PartsHold, LeasesFenced, OneAtATime, CallsHold, ServersHold,
                LiveHold, OwnersHold
  <1>2. ASSUME NEW k \in Conn,
               \/ Connect(k) \/ RemoteStop(k) \/ RemoteClose(k)
               \/ Reader(k) \/ Client(k) \/ LocalStop(k) \/ LocalCrash(k)
        PROVE  IInv'
    <2>1. CASE Connect(k)
      BY <2>1, ConnectHolds, Zenon
    <2>2. CASE RemoteStop(k) \/ RemoteClose(k)
      BY <2>2, CloseHolds, Zenon
    <2>3. CASE Reader(k)
      BY <2>3, ReceiveHolds, PassHolds, AbandonedHolds, ReaderEndHolds, Zenon DEF Reader
    <2>4. CASE Client(k)
      BY <2>4, RequestHolds, ExecuteHolds, ApplyHolds, TaskHolds, AppliedHolds, CleanupHolds, Zenon
         DEF Client
    <2>5. CASE LocalStop(k) \/ LocalCrash(k)
      BY <2>5, StopHolds, CrashHolds, Zenon
    <2> QED
      BY <1>2, <2>1, <2>2, <2>3, <2>4, <2>5, Zenon
  <1>3. ASSUME NEW w \in Worker,
               \/ \E k \in Conn : Require(w, k) \/ Acquire(w, k)
               \/ Read(w) \/ Prepare(w) \/ Apply(w) \/ Release(w) \/ ReleaseFails(w)
               \/ Cancel(w) \/ Caller(w)
        PROVE  IInv'
    <2>1. CASE \/ \E k \in Conn : Require(w, k)
               \/ Round(w) \/ Read(w) \/ Prepare(w) \/ Apply(w) \/ Release(w)
      BY <2>1, CallHolds, Zenon
    <2>2. CASE \E k \in Conn : Acquire(w, k)
      BY <2>2, AcquireHolds, Zenon
    <2>3. CASE ReleaseFails(w) \/ RoundFails(w)
      BY <2>3, GivesUp, Zenon DEF ReleaseFails, RoundFails
    <2>4. CASE Cancel(w)
      BY <2>4, CancelHolds, Zenon
    <2>5. CASE Take(w) \/ Abort(w) \/ Drain(w) \/ DrainEnds(w) \/ Wake(w)
      BY <2>5, TakeHolds, AbortHolds, DrainHolds, WakeHolds, Zenon
    <2> QED
      BY <1>3, <2>1, <2>2, <2>3, <2>4, <2>5, Zenon DEF Caller
  <1>4. CASE HostAcquire \/ HostRelease
    BY <1>4, HostHolds, Zenon
  <1> QED
    BY <1>1, <1>2, <1>3, <1>4, Zenon DEF Next

\* The invariant is what the four theorems below have in common.
THEOREM Invariance == Spec => []IInv
  BY InitHolds, NextHolds, PTL DEF Spec

\* Files change under the fence only, also those that an apply changes on a
\* connection the server has dropped, whatever client connects meanwhile
\* (Local.serve, cleanup).
THEOREM MutationsAreFenced == Spec => []MutationIsFenced
  <1>1. IInv => MutationIsFenced
    BY Zenon DEF IInv, PartsHold, IsClient, LeasesFenced, MutationIsFenced
  <1> QED
    BY <1>1, Invariance, PTL

\* However many callers share a connection, its client is sent one request at a
\* time (remote.call's serial token, readRequests).
THEOREM RequestsInOrder == Spec => []RequestsAreInOrder
  <1>1. IInv => RequestsAreInOrder
    BY Zenon DEF IInv, PartsHold, IsClient, RequestsAreInOrder
  <1> QED
    BY <1>1, Invariance, PTL

\* No lease is lost between the client that grants it and the caller that asked
\* for it, whenever the caller is cancelled (Hub.Acquire, access.Release).
THEOREM LeasesAreOwned == Spec => []LeaseIsOwned
  <1>1. IInv => LeaseIsOwned
    <2> SUFFICES ASSUME IInv, NEW k \in Conn,
                        remote[k].up, ~wire[k].cut, local[k].lease # Nobody
                 PROVE  LET v == worker[local[k].lease]
                        IN  v.conn = k /\ (v.leased \/ (v.op = "acquire" /\ v.pc = "sent"))
      BY Zenon DEF LeaseIsOwned
    <2>1. IsOwned(k, remote[k], wire[k], local[k], worker)
      BY HereFacts, Zenon
    <2> QED
      BY <2>1, Zenon DEF IsOwned
  <1> QED
    BY <1>1, Invariance, PTL

\* A call returns when the reader has handed over every change it took from the
\* socket for it (remote.call, drainPendingChanges).
THEOREM EvidenceDelivered == Spec => []EvidenceIsDelivered
  <1>1. IInv => EvidenceIsDelivered
    BY Zenon DEF IInv, PartsHold, IsCaller, InCall, EvidenceIsDelivered
  <1> QED
    BY <1>1, Invariance, PTL

=============================================================================
