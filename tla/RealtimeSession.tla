--------------------------- MODULE RealtimeSession ---------------------------
(***************************************************************************)
(* An interactive session of the command line client: the state of its     *)
(* channel in the database, the events that announce changes of it, and    *)
(* the session that reloads a snapshot when it is told to                  *)
(* (cmd/omni/chat_session.go, chat_snapshot.go, chat_state_poll.go;        *)
(* internal/api/channel_session.go).                                       *)
(*                                                                         *)
(* A change is committed first and announced later, or never if the server *)
(* stops in between.  A restarted server has a new hub that counts from    *)
(* zero.  A snapshot is a cursor of the hub and a read of the database, one *)
(* after the other; the session skips events its snapshot reflects.  A     *)
(* poll every five seconds compares states and covers what events miss.    *)
(***************************************************************************)
EXTENDS RealtimeStream

CONSTANTS
    Session,     \* the one client of this model
    Announce,    \* the message that announces a change of the channel
    MaxChange,   \* bound on the changes of the channel
    MaxUpdate,   \* capacity of the channel of stream updates: 64
    MaxRestart   \* bound on restarts of the server

\* The client subscribes to the topics that changes of its channel are announced
\* under.
ASSUME SessionAssumption ==
    /\ Session \in Client
    /\ Announce \in Message
    /\ Concerns(Session, Announce)

VARIABLES
    db,        \* persisted state of the channel: the number of changes
    owed,      \* changes that are not announced yet
    updates,   \* frames on their way from followJobEvents to the session
    session,   \* what the session shows
    reload,    \* the snapshot being loaded
    poll,      \* the comparison of states under way
    restarts,  \* restarts of the server so far
    foreign,   \* history: the client's cursor is of an earlier hub
    masked     \* history: it was used when the present hub had reached it

sessionVars == <<db, owed, updates, session, reload, poll, restarts, foreign, masked>>
vars == <<streamVars, sessionVars>>

\* new: not connected yet; open: its stream is open; running: in the loop of
\* runChatSession; gone: its start failed.  shown: the state of the last
\* snapshot; missed: a reload has failed since.
SessionState == [phase : {"new", "open", "running", "gone"},
                 shown : Nat, cursor : Nat, missed : BOOLEAN]

Running == session.phase = "running"

Reload == [phase : {"none", "asked", "cursor", "read"}, cursor : Nat, state : Nat]

\* stale: the session has loaded a snapshot since the poll was started.
Poll == [phase : {"none", "asked", "answered"}, state : Nat, stale : BOOLEAN]

TypeOK ==
    /\ StreamTypeOK
    /\ db \in Nat /\ owed \in Nat /\ restarts \in Nat
    /\ updates \in Seq(Signal)
    /\ session \in SessionState
    /\ reload \in Reload
    /\ poll \in Poll
    /\ foreign \in BOOLEAN /\ masked \in BOOLEAN

NoReload == [phase |-> "none", cursor |-> 0, state |-> 0]
NoPoll == [phase |-> "none", state |-> 0, stale |-> FALSE]

Init ==
    /\ StreamInit
    /\ db = 0 /\ owed = 0 /\ restarts = 0
    /\ updates = <<>>
    /\ session = [phase |-> "new", shown |-> 0, cursor |-> 0, missed |-> FALSE]
    /\ reload = NoReload
    /\ poll = NoPoll
    /\ foreign = FALSE /\ masked = FALSE

-----------------------------------------------------------------------------
(* The server. *)

\* A transaction changes the state of the channel.
Commit ==
    /\ db < MaxChange
    /\ db' = db + 1
    /\ owed' = owed + 1
    /\ UNCHANGED <<streamVars, updates, session, reload, poll, restarts, foreign, masked>>

\* publishJobProgress, PublishJobRuntimeEvent: after the commit.
Publish ==
    /\ owed > 0
    /\ Broadcast(Announce)
    /\ owed' = owed - 1
    /\ UNCHANGED <<db, updates, session, reload, poll, restarts, foreign, masked>>

\* Frames for others, by the same hub.
PublishOther ==
    /\ \E m \in Message \ {Announce} : Broadcast(m)
    /\ UNCHANGED sessionVars

\* What a failed request for a snapshot does: the session says so and goes on, or
\* does not start.
Unserved == IF Running THEN [session EXCEPT !.missed = TRUE]
            ELSE [session EXCEPT !.phase = "gone"]

\* The server stops and starts: connections, requests and announcements under
\* way are gone, and so is the hub.
Restart ==
    /\ restarts < MaxRestart
    /\ restarts' = restarts + 1
    /\ log' = <<>> /\ history' = <<>> /\ lastState' = [k \in Keys |-> 0]
    /\ conn' = [c \in Client |-> NoConn]
    /\ known' = [c \in Client |-> [base |-> 0, taken |-> {}]]
    /\ owed' = 0
    /\ reload' = NoReload
    /\ session' = IF reload.phase = "none" THEN session ELSE Unserved
    /\ poll' = IF poll.phase = "asked" THEN NoPoll ELSE poll
    /\ foreign' = stream[Session].resuming
    /\ masked' = FALSE
    /\ UNCHANGED <<db, stream, updates>>

\* Mutant of Fetched: the database first, then the cursor.
FetchedStateFirst(r) ==
    IF r.phase = "asked" THEN [r EXCEPT !.phase = "cursor", !.state = db]
    ELSE [r EXCEPT !.phase = "read", !.cursor = LatestID]

\* getChannelSession takes the cursor, then reads the database.
Fetched(r) ==
    IF r.phase = "asked" THEN [r EXCEPT !.phase = "cursor", !.cursor = LatestID]
    ELSE [r EXCEPT !.phase = "read", !.state = db]

\* One of the two reads.  A snapshot that is taken when the cursor of the stream
\* is of this hub, too, ends a masked restart.
ServeReload ==
    /\ reload.phase \in {"asked", "cursor"}
    /\ reload' = Fetched(reload)
    /\ masked' = (masked /\ (foreign \/ reload.phase # "asked"))
    /\ UNCHANGED <<streamVars, db, owed, updates, session, poll, restarts, foreign>>

\* getChannelSessionState.
ServePoll ==
    /\ poll.phase = "asked"
    /\ poll' = [poll EXCEPT !.phase = "answered", !.state = db]
    /\ UNCHANGED <<streamVars, db, owed, updates, session, reload, restarts, foreign, masked>>

-----------------------------------------------------------------------------
(* The stream of the client. *)

\* loadChatBootstrap opens the stream first; followJobEvents opens it again.
Connect ==
    /\ session.phase \in {"new", "running"}
    /\ Open(Session)
    /\ session' = IF session.phase = "new" THEN [session EXCEPT !.phase = "open"] ELSE session
    /\ masked' = (masked \/ (foreign /\ stream[Session].lastID <= LatestID))
    /\ UNCHANGED <<db, owed, updates, reload, poll, restarts, foreign>>

\* followJobEvents hands every frame to the session, and waits if it is busy.
Follow ==
    /\ Running
    /\ Len(updates) < MaxUpdate
    /\ Read(Session)
    /\ updates' = Append(updates, Head(conn[Session].wire))
    /\ foreign' = FALSE
    /\ UNCHANGED <<db, owed, session, reload, poll, restarts, masked>>

Transport ==
    /\ Forward(Session) \/ End(Session)
    /\ UNCHANGED sessionVars

-----------------------------------------------------------------------------
(* The session. *)

AskReload == reload' = [phase |-> "asked", cursor |-> 0, state |-> 0]

\* loadChatBootstrap: the stream is open before the first snapshot is loaded.
Boot ==
    /\ session.phase = "open" /\ reload.phase = "none"
    /\ AskReload
    /\ UNCHANGED <<streamVars, db, owed, updates, session, poll, restarts, foreign, masked>>

\* realtimeEventReflectedBySnapshot.
Reflected(sig) == sig.id <= session.cursor

\* A gap, or a change the session does not show yet.
Tells(sig) == IF sig.connected THEN sig.gap ELSE ~Reflected(sig)

\* acceptRealtime.
Accept ==
    /\ Running /\ reload.phase = "none" /\ updates # <<>>
    /\ updates' = Tail(updates)
    /\ IF Tells(Head(updates)) THEN AskReload ELSE UNCHANGED reload
    /\ UNCHANGED <<streamVars, db, owed, session, poll, restarts, foreign, masked>>

\* reconcileSnapshot.
FinishReload ==
    /\ reload.phase = "read"
    /\ session' = [phase |-> "running", shown |-> reload.state, cursor |-> reload.cursor,
                   missed |-> FALSE]
    /\ reload' = NoReload
    /\ poll' = [poll EXCEPT !.stale = poll.phase # "none"]
    /\ UNCHANGED <<streamVars, db, owed, updates, restarts, foreign, masked>>

\* The request fails.
FailReload ==
    /\ reload.phase # "none"
    /\ session' = Unserved
    /\ reload' = NoReload
    /\ UNCHANGED <<streamVars, db, owed, updates, poll, restarts, foreign, masked>>

\* statePollTicker and startChatStatePoll.
StartPoll ==
    /\ Running /\ reload.phase = "none" /\ poll.phase = "none"
    /\ poll' = [phase |-> "asked", state |-> 0, stale |-> FALSE]
    /\ UNCHANGED <<streamVars, db, owed, updates, session, reload, restarts, foreign, masked>>

\* Mutant of Outdated: the session trusts the poll only after a snapshot.
OutdatedIfStale == poll.stale /\ poll.state # session.shown

\* The comparison tells of another state, unless a snapshot came in between.
Outdated == ~poll.stale /\ poll.state # session.shown

TakePoll ==
    /\ reload.phase = "none" /\ poll.phase = "answered"
    /\ poll' = NoPoll
    /\ IF Outdated THEN AskReload ELSE UNCHANGED reload
    /\ UNCHANGED <<streamVars, db, owed, updates, session, restarts, foreign, masked>>

FailPoll ==
    /\ poll.phase = "asked"
    /\ poll' = NoPoll
    /\ UNCHANGED <<streamVars, db, owed, updates, session, reload, restarts, foreign, masked>>

Next ==
    \/ Commit \/ Publish \/ PublishOther \/ Restart
    \/ ServeReload \/ ServePoll
    \/ Connect \/ Follow \/ Transport
    \/ Boot \/ Accept \/ FinishReload \/ FailReload
    \/ StartPoll \/ TakePoll \/ FailPoll

Spec == Init /\ [][Next]_vars

\* Requests that are repeated for ever are at last answered, the loop of the
\* session picks every kind of event that keeps coming, its ticker ticks.
\* Nothing is assumed of the stream once it is open.
Fairness ==
    /\ WF_vars(Connect) /\ WF_vars(Boot) /\ WF_vars(StartPoll)
    /\ \A phase \in {"asked", "cursor"} : SF_vars(ServeReload /\ reload.phase = phase)
    /\ SF_vars(FinishReload) /\ SF_vars(ServePoll) /\ SF_vars(TakePoll)

FairSpec == Spec /\ Fairness

-----------------------------------------------------------------------------
(* Properties. *)

\* Everything that was announced has reached the session.
Settled ==
    /\ Running /\ reload.phase = "none" /\ owed = 0 /\ updates = <<>>
    /\ conn[Session].listed /\ conn[Session].queue = <<>> /\ conn[Session].wire = <<>>

\* A session that has processed its stream shows the present state without the
\* help of the poll: no order of commits, announcements, snapshots, broken
\* connections and replays hides a change.  The exceptions are a reload that
\* failed and a restarted server whose hub had counted past the client's cursor
\* before the client came back; only the poll covers these.
SettledSessionIsCurrent ==
    Settled /\ ~session.missed /\ ~masked => session.shown = db

\* Whatever is lost, the session shows the present state in the end.
SessionCatchesUp == <>[](session.phase = "gone" \/ session.shown = db)

=============================================================================
