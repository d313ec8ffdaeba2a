--------------------------- MODULE RealtimeStream ---------------------------
(***************************************************************************)
(* The realtime hub of the API server (internal/api/realtime_hub.go), the  *)
(* websocket handler that drains a subscription (realtime_handlers.go) and *)
(* the loop of the command line client that follows the stream and         *)
(* reconnects (cmd/omni/chat_events.go, internal/client/realtime.go).      *)
(*                                                                         *)
(* The hub numbers its frames, keeps the last Capacity of them for clients *)
(* that come back, suppresses a keyed frame that repeats the last one of   *)
(* its key, and throws out a client that does not keep up.  It works under *)
(* one mutex, so each of its operations is one action.                     *)
(***************************************************************************)
EXTENDS Naturals, Sequences

CONSTANTS
    Client,      \* followers of the stream
    Interest,    \* the topics each of them subscribes to
    Message,     \* what is broadcast: topics, state key and content
    NoKey,       \* the state key of an event that describes no state
    Capacity,    \* replayCapacity: 256
    Buffer,      \* clientBuffer: 64
    MaxMessage   \* bound on the frames of one hub

Keys == {m.key : m \in Message} \ {NoKey}

ASSUME HubAssumption ==
    /\ Capacity \in Nat \ {0}
    /\ Buffer \in Nat
    /\ MaxMessage \in Nat

VARIABLES
    log,        \* history: all frames since the hub was made
    history,    \* the frames kept for replay
    lastState,  \* per state key, the number of its last frame; 0: none
    conn,       \* each client's connection, as the server sees it
    stream,     \* each client's followJobEvents
    known       \* history: what each client has been told

hubVars == <<log, history, lastState>>
streamVars == <<hubVars, conn, stream, known>>

\* nextMessageID.
LatestID == Len(log)

Frame == [id : Nat \ {0}, message : Message]

\* What travels on a connection: the connection frame with the latest number
\* and the count of replayed frames, or an event.
Signal == [connected : BOOLEAN, id : Nat, count : Nat, gap : BOOLEAN]

\* listed: the hub still sends to this client; room: capacity of its channel;
\* queue: frames in the channel; wire: frames the handler has written.
Conn == [up : BOOLEAN, listed : BOOLEAN, room : Nat,
         queue : Seq(Signal), wire : Seq(Signal)]

\* resuming: the client has a cursor to send; lastID is that cursor; latest and
\* replay come from the connection frame; failed: it gave up on the stream.
Stream == [resuming : BOOLEAN, connected : BOOLEAN, failed : BOOLEAN,
           lastID : Nat, latest : Nat, replay : Nat]

\* The client was told of the events in taken, out of those after base.
Known == [base : Nat, taken : SUBSET Nat]

StreamTypeOK ==
    /\ log \in Seq(Message)
    /\ history \in Seq(Frame)
    /\ lastState \in [Keys -> Nat]
    /\ conn \in [Client -> Conn]
    /\ stream \in [Client -> Stream]
    /\ known \in [Client -> Known]

NoConn == [up |-> FALSE, listed |-> FALSE, room |-> 0,
           queue |-> <<>>, wire |-> <<>>]

HubInit ==
    /\ log = <<>>
    /\ history = <<>>
    /\ lastState = [k \in Keys |-> 0]

StreamInit ==
    /\ HubInit
    /\ conn = [c \in Client |-> NoConn]
    /\ stream = [c \in Client |->
          [resuming |-> FALSE, connected |-> FALSE, failed |-> FALSE,
           lastID |-> 0, latest |-> 0, replay |-> 0]]
    /\ known = [c \in Client |-> [base |-> 0, taken |-> {}]]

Concerns(c, message) == message.topics \cap Interest[c] # {}

Event(id) == [connected |-> FALSE, id |-> id, count |-> 0, gap |-> FALSE]

-----------------------------------------------------------------------------
(* The hub. *)

\* The last frame of the key had this content, and is still in the history.
Duplicate(m) ==
    /\ m.key # NoKey
    /\ lastState[m.key] > 0
    /\ log[lastState[m.key]].content = m.content

\* Mutant of Evicted: the state of a frame outlives the frame.
EvictedFrameOnly(states) == states

\* appendHistory: the state of the oldest frame leaves with it.
Evicted(states) ==
    [k \in Keys |-> IF Len(history) = Capacity /\ states[k] = Head(history).id
                    THEN 0 ELSE states[k]]

\* Mutant of Sent: a full channel loses the frame and not the client.
SentOrSkipped(c, m) ==
    IF ~conn[c].listed \/ ~Concerns(c, m) \/ Len(conn[c].queue) >= conn[c].room
    THEN conn[c] ELSE [conn[c] EXCEPT !.queue = Append(@, Event(LatestID + 1))]

\* A client without room is closed; its handler drains what is left.
Sent(c, m) ==
    IF ~conn[c].listed \/ ~Concerns(c, m) THEN conn[c]
    ELSE IF Len(conn[c].queue) < conn[c].room
    THEN [conn[c] EXCEPT !.queue = Append(@, Event(LatestID + 1))]
    ELSE [conn[c] EXCEPT !.listed = FALSE]

\* RealtimeHub.Broadcast.  A duplicate changes nothing.
Broadcast(m) ==
    /\ LatestID < MaxMessage
    /\ ~Duplicate(m)
    /\ log' = Append(log, m)
    /\ lastState' = Evicted([k \in Keys |-> IF k = m.key THEN LatestID + 1 ELSE lastState[k]])
    /\ history' = Append(IF Len(history) = Capacity THEN Tail(history) ELSE history,
                         [id |-> LatestID + 1, message |-> m])
    /\ conn' = [c \in Client |-> Sent(c, m)]
    /\ UNCHANGED <<stream, known>>

\* Mutant of Gap: off by one.
GapPastOldest(after) ==
    after > LatestID \/ (history # <<>> /\ after < Head(history).id - 2)

\* Frames after the cursor are no longer there, or the cursor is not of this hub.
Gap(after) ==
    after > LatestID \/ (history # <<>> /\ after + 1 < Head(history).id)

\* Mutant of Replayable: the frame at the cursor is sent again.
ReplayableFrom(c, after, frame) == frame.id >= after /\ Concerns(c, frame.message)

Replayable(c, after, frame) == frame.id > after /\ Concerns(c, frame.message)

\* The positions in S, a set of positions of the history, in their order.
InOrder(S) ==
    CHOOSE q \in UNION {[1..n -> S] : n \in 0..Len(history)} :
        /\ \A i, j \in DOMAIN q : i < j => q[i] < q[j]
        /\ \A s \in S : \E i \in DOMAIN q : q[i] = s

\* The frames of the history that the client missed, in the order kept.
Replay(c, after) ==
    LET places == InOrder({i \in 1..Len(history) : Replayable(c, after, history[i])})
    IN  [i \in DOMAIN places |-> Event(history[places[i]].id)]

\* OpenJobEvents, up to RealtimeHub.Subscribe and the connection frame.  The
\* first time the client has no cursor.
Open(c) ==
    /\ ~conn[c].up /\ ~stream[c].failed
    /\ LET after == stream[c].lastID
           gap == stream[c].resuming /\ Gap(after)
           replay == IF stream[c].resuming /\ ~gap THEN Replay(c, after) ELSE <<>>
           hello == [connected |-> TRUE, id |-> LatestID, count |-> Len(replay), gap |-> gap]
       IN  conn' = [conn EXCEPT ![c] =
                       [up |-> TRUE, listed |-> TRUE, room |-> Buffer + Len(replay),
                        queue |-> replay, wire |-> <<hello>>]]
    /\ stream' = [stream EXCEPT ![c] = [@ EXCEPT !.resuming = TRUE, !.connected = FALSE]]
    /\ known' = IF stream[c].resuming THEN known
                ELSE [known EXCEPT ![c] = [base |-> LatestID, taken |-> {}]]
    /\ UNCHANGED hubVars

\* handleRealtimeWS passes a frame on.
Forward(c) ==
    /\ conn[c].queue # <<>>
    /\ conn' = [conn EXCEPT ![c] = [@ EXCEPT !.queue = Tail(conn[c].queue),
                                            !.wire = Append(conn[c].wire, Head(conn[c].queue))]]
    /\ UNCHANGED <<hubVars, stream, known>>

-----------------------------------------------------------------------------
(* The client. *)

\* The connection frame: without a replay the client is up to date.
Greeted(s, sig) ==
    [s EXCEPT !.connected = TRUE, !.latest = sig.id, !.replay = sig.count,
              !.lastID = IF sig.gap \/ sig.count = 0 THEN sig.id ELSE s.lastID]

\* An event, the last of a replay perhaps: what follows is after the latest
\* number of the connection frame.
Advanced(s, id) ==
    [s EXCEPT !.replay = IF s.replay > 0 THEN s.replay - 1 ELSE 0,
              !.lastID = IF s.replay = 1 /\ s.latest > id THEN s.latest ELSE id]

OutOfOrder(s, sig) == IF sig.connected THEN s.connected ELSE ~s.connected \/ sig.id <= s.lastID

\* JobEventStream.Read and what followJobEvents makes of the frame.
Read(c) ==
    /\ conn[c].wire # <<>>
    /\ LET sig == Head(conn[c].wire)
           s == stream[c]
       IN  IF OutOfOrder(s, sig)
           THEN /\ stream' = [stream EXCEPT ![c] = [@ EXCEPT !.failed = TRUE]]
                /\ conn' = [conn EXCEPT ![c] = NoConn]
                /\ UNCHANGED known
           ELSE /\ stream' = [stream EXCEPT ![c] =
                      IF sig.connected THEN Greeted(s, sig) ELSE Advanced(s, sig.id)]
                /\ conn' = [conn EXCEPT ![c] = [@ EXCEPT !.wire = Tail(conn[c].wire)]]
                /\ known' = [known EXCEPT ![c] =
                      IF ~sig.connected THEN [@ EXCEPT !.taken = known[c].taken \cup {sig.id}]
                      ELSE IF sig.gap THEN [base |-> sig.id, taken |-> {}] ELSE @]
    /\ UNCHANGED hubVars

\* The connection ends: the hub closed it and the rest is drained, it broke, or
\* it reached its maximal age.  What is under way is lost.
End(c) ==
    /\ conn[c].up
    /\ conn' = [conn EXCEPT ![c] = NoConn]
    /\ UNCHANGED <<hubVars, stream, known>>

StreamNext ==
    \/ \E m \in Message : Broadcast(m)
    \/ \E c \in Client : Open(c) \/ Forward(c) \/ Read(c) \/ End(c)

StreamSpec == StreamInit /\ [][StreamNext]_streamVars

-----------------------------------------------------------------------------
(* Properties. *)

\* The cursor of a client never passes an event that concerns it without the
\* event having been delivered or the client having been told of a gap: slow
\* clients, broken connections and evicted frames lose nothing silently.
NothingIsSkipped ==
    \A c \in Client : \A i \in (known[c].base + 1)..stream[c].lastID :
        i <= LatestID /\ Concerns(c, log[i]) => i \in known[c].taken

\* A stream is never given up because of the hub: connection frames come first
\* and once, numbers grow, also from a replay to the live frames after it.
StreamStaysInOrder == \A c \in Client : ~stream[c].failed

\* A client that returns with a cursor and is told of no gap finds every later
\* frame in the history: what Subscribe replays is everything it missed.
NoGapNoLoss ==
    \A after \in 0..LatestID : ~Gap(after) =>
        \A i \in (after + 1)..LatestID :
            \E j \in 1..Len(history) : history[j] = [id |-> i, message |-> log[i]]

\* A suppressed frame is no loss: the frame it repeats is the last one of its
\* key and can still be replayed, so whoever reconnects gets it or learns of a
\* gap.
DuplicatesAreReplayable ==
    \A k \in Keys : lastState[k] > 0 =>
        /\ \E i \in 1..Len(history) : history[i] = [id |-> lastState[k], message |-> log[lastState[k]]]
        /\ log[lastState[k]].key = k
        /\ \A i \in (lastState[k] + 1)..LatestID : log[i].key # k

=============================================================================
