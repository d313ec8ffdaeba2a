--------------------------- MODULE RealtimeProofs ---------------------------
(***************************************************************************)
(* What the realtime hub keeps, for every capacity of its history: the     *)
(* frames kept are the last ones broadcast, and the frame a duplicate is   *)
(* suppressed for is among them.  What its clients are told, for any       *)
(* number of them and any buffer: everything that concerns them, in order, *)
(* or that there is a gap.  And what a session shows that has processed    *)
(* all it was told, whatever was lost, broken or restarted on the way.     *)
(***************************************************************************)
EXTENDS RealtimeSession, WellFoundedInduction, TLAPS

HubTypeOK ==
    /\ log \in Seq(Message)
    /\ history \in Seq(Frame)
    /\ lastState \in [Keys -> Nat]

\* The number of frames that have left the history.
Dropped == Len(log) - Len(history)

\* history holds the last frames of the hub under their numbers; it loses frames
\* only when it is full.
HistoryIsTail ==
    /\ Len(history) <= Capacity
    /\ Len(history) <= Len(log)
    /\ Len(history) < Capacity => Len(history) = Len(log)
    /\ \A i \in 1..Len(history) :
          history[i] = [id |-> Dropped + i, message |-> log[Dropped + i]]

\* lastState names the last frame of its key, and only if it is still kept.
LastStateIsKept ==
    \A k \in Keys : lastState[k] > 0 =>
        /\ lastState[k] \in (Dropped + 1)..Len(log)
        /\ log[lastState[k]].key = k
        /\ \A i \in (lastState[k] + 1)..Len(log) : log[i].key # k

HubInv == HubTypeOK /\ HistoryIsTail /\ LastStateIsKept

\* A new hub satisfies the invariant.
LEMMA HubStarts == HubInit => HubInv
<1> SUFFICES ASSUME HubInit PROVE HubInv
    OBVIOUS
<1>1. HubTypeOK
    BY DEF HubInit, HubTypeOK
<1>2. HistoryIsTail
    BY HubAssumption DEF HubInit, HistoryIsTail, Dropped
<1>3. LastStateIsKept
    BY DEF HubInit, LastStateIsKept
<1> QED
    BY <1>1, <1>2, <1>3 DEF HubInv

\* Broadcast preserves the invariant: it drops at most the oldest frame, and the
\* state of that frame with it.
LEMMA BroadcastKeepsHub ==
    ASSUME HubInv, NEW m \in Message, Broadcast(m)
    PROVE  HubInv'
<1> DEFINE frame == [id |-> Len(log) + 1, message |-> m]
           kept == IF Len(history) = Capacity THEN Tail(history) ELSE history
<1>1. /\ log \in Seq(Message) /\ history \in Seq(Frame) /\ lastState \in [Keys -> Nat]
      /\ Len(log) \in Nat /\ Len(history) \in Nat /\ Capacity \in Nat \ {0}
    BY HubAssumption DEF HubInv, HubTypeOK
<1>2. /\ log' = Append(log, m)
      /\ history' = Append(kept, frame)
      /\ lastState' = Evicted([k \in Keys |-> IF k = m.key THEN Len(log) + 1 ELSE lastState[k]])
    BY DEF Broadcast, LatestID
<1>3. frame \in Frame
    BY <1>1 DEF Frame
<1>4. /\ Len(log') = Len(log) + 1
      /\ log'[Len(log) + 1] = m
      /\ \A i \in 1..Len(log) : log'[i] = log[i]
    BY <1>1, <1>2
<1>5. /\ kept \in Seq(Frame)
      /\ Len(kept) = IF Len(history) = Capacity THEN Len(history) - 1 ELSE Len(history)
      /\ \A i \in 1..Len(kept) :
            kept[i] = IF Len(history) = Capacity THEN history[i + 1] ELSE history[i]
  <2>1. CASE Len(history) = Capacity
      BY <1>1, <2>1
  <2>2. CASE Len(history) # Capacity
      BY <1>1, <2>2
  <2> QED
      BY <2>1, <2>2
<1> HIDE DEF kept
<1>6. /\ history' \in Seq(Frame)
      /\ Len(history') = Len(kept) + 1
      /\ history'[Len(kept) + 1] = frame
      /\ \A i \in 1..Len(kept) : history'[i] = kept[i]
    BY <1>2, <1>3, <1>5
<1>7. HubTypeOK'
  <2>1. log' \in Seq(Message)
      BY <1>1, <1>2
  <2>2. lastState' \in [Keys -> Nat]
      BY <1>1, <1>2 DEF Evicted
  <2> QED
      BY <1>6, <2>1, <2>2 DEF HubTypeOK
<1>8. HistoryIsTail /\ LastStateIsKept
    BY DEF HubInv
<1>9. Dropped' = (IF Len(history) = Capacity THEN Dropped + 1 ELSE Dropped)
    BY <1>1, <1>4, <1>5, <1>6 DEF Dropped
<1>10. Dropped \in Nat
    BY <1>1, <1>8 DEF Dropped, HistoryIsTail
<1>11. HistoryIsTail'
  <2>1. /\ Len(history') <= Capacity /\ Len(history') <= Len(log')
        /\ Len(history') < Capacity => Len(history') = Len(log')
      BY <1>1, <1>4, <1>5, <1>6, <1>8 DEF HistoryIsTail
  <2>2. ASSUME NEW i \in 1..Len(history')
        PROVE  history'[i] = [id |-> Dropped' + i, message |-> log'[Dropped' + i]]
    <3>1. CASE i = Len(kept) + 1
      <4>1. Dropped' + i = Len(log) + 1
        <5>1. Dropped' = Len(log') - Len(history')
            BY DEF Dropped
        <5>2. Len(kept) \in Nat
            BY <1>1, <1>5
        <5> QED
            BY <1>1, <1>4, <1>6, <3>1, <5>1, <5>2
      <4> QED
          BY <1>4, <1>6, <3>1, <4>1
    <3>2. CASE i # Len(kept) + 1
      <4>1. i \in 1..Len(kept)
          BY <1>5, <1>6, <3>2
      <4> DEFINE j == IF Len(history) = Capacity THEN i + 1 ELSE i
      <4>2. j \in 1..Len(history) /\ Dropped + j = Dropped' + i
        <5>1. CASE Len(history) = Capacity
            BY <1>1, <1>5, <1>9, <1>10, <4>1, <5>1
        <5>2. CASE Len(history) # Capacity
            BY <1>1, <1>5, <1>9, <1>10, <4>1, <5>2
        <5> QED
            BY <5>1, <5>2
      <4>3. history'[i] = history[j]
          BY <1>5, <1>6, <4>1, Zenon
      <4>4. history[j] = [id |-> Dropped + j, message |-> log[Dropped + j]]
          BY <1>8, <4>2 DEF HistoryIsTail
      <4>5. Dropped + j \in 1..Len(log)
          BY <1>1, <1>10, <4>2 DEF Dropped
      <4> HIDE DEF j
      <4> QED
          BY <1>4, <4>2, <4>3, <4>4, <4>5
    <3> QED
        BY <3>1, <3>2
  <2> QED
      BY <2>1, <2>2 DEF HistoryIsTail
<1>12. LastStateIsKept'
  <2> SUFFICES ASSUME NEW k \in Keys, lastState'[k] > 0
               PROVE  /\ lastState'[k] \in (Dropped' + 1)..Len(log')
                      /\ log'[lastState'[k]].key = k
                      /\ \A i \in (lastState'[k] + 1)..Len(log') : log'[i].key # k
      BY DEF LastStateIsKept
  <2> DEFINE n == IF k = m.key THEN Len(log) + 1 ELSE lastState[k]
  <2>1. n \in Nat /\ lastState[k] \in Nat
      BY <1>1
  <2>2. lastState'[k] = n /\ ~(Len(history) = Capacity /\ n = Head(history).id)
      BY <1>1, <1>2, <2>1 DEF Evicted
  <2>3. CASE k = m.key
    <3>1. n = Len(log) + 1
        BY <2>3
    <3> QED
        BY <1>1, <1>4, <1>9, <1>10, <2>2, <2>3, <3>1 DEF Dropped
  <2>4. CASE k # m.key
    <3>1. n = lastState[k] /\ lastState[k] > 0
        BY <2>2, <2>4
    <3>2. /\ n \in (Dropped + 1)..Len(log) /\ log[n].key = k
          /\ \A i \in (n + 1)..Len(log) : log[i].key # k
        BY <1>8, <3>1 DEF LastStateIsKept
    <3>3. ASSUME Len(history) = Capacity PROVE n # Dropped + 1
      <4>1. 1 \in 1..Len(history) /\ Head(history) = history[1]
          BY <1>1, <3>3
      <4>2. history[1] = [id |-> Dropped + 1, message |-> log[Dropped + 1]]
          BY <1>8, <4>1 DEF HistoryIsTail
      <4> QED
          BY <2>2, <3>3, <4>1, <4>2
    <3>4. n \in (Dropped' + 1)..Len(log')
        BY <1>1, <1>4, <1>9, <1>10, <3>2, <3>3
    <3>5. log'[n].key = k
        BY <1>1, <1>4, <1>10, <3>2
    <3>6. ASSUME NEW i \in (n + 1)..Len(log') PROVE log'[i].key # k
      <4>1. CASE i = Len(log) + 1
          BY <1>4, <2>4, <4>1
      <4>2. CASE i # Len(log) + 1
          BY <1>1, <1>4, <1>10, <3>2, <4>2
      <4> QED
          BY <4>1, <4>2
    <3> HIDE DEF n
    <3> QED
        BY <2>2, <3>4, <3>5, <3>6
  <2> QED
      BY <2>3, <2>4
<1> QED
    BY <1>7, <1>11, <1>12 DEF HubInv

\* The inductive invariant of the hub: subscriptions, handlers and clients never
\* touch what it keeps.
THEOREM HubInductive == StreamSpec => []HubInv
<1>1. StreamInit => HubInv
    BY HubStarts DEF StreamInit
<1>2. HubInv /\ [StreamNext]_streamVars => HubInv'
  <2> SUFFICES ASSUME HubInv, [StreamNext]_streamVars PROVE HubInv'
      OBVIOUS
  <2>1. ASSUME NEW m \in Message, Broadcast(m) PROVE HubInv'
      BY <2>1, BroadcastKeepsHub
  <2>2. ASSUME UNCHANGED hubVars PROVE HubInv'
      BY <2>2 DEF hubVars, HubInv, HubTypeOK, HistoryIsTail, LastStateIsKept, Dropped
  <2>3. ASSUME NEW c \in Client, Open(c) \/ Forward(c) \/ Read(c) \/ End(c)
        PROVE  UNCHANGED hubVars
      BY <2>3, Zenon DEF Open, Forward, Read, End
  <2>4. CASE UNCHANGED streamVars
      BY <2>2, <2>4 DEF streamVars
  <2> QED
      BY <2>1, <2>2, <2>3, <2>4 DEF StreamNext
<1> QED
    BY <1>1, <1>2, PTL DEF StreamSpec

\* What Subscribe keeps suffices for every cursor it reports no gap for.
LEMMA HistorySuffices == HubInv => NoGapNoLoss
<1> SUFFICES ASSUME HubInv, NEW after \in 0..LatestID, ~Gap(after),
                    NEW i \in (after + 1)..LatestID
             PROVE  \E j \in 1..Len(history) :
                       history[j] = [id |-> i, message |-> log[i]]
    BY DEF NoGapNoLoss
<1>1. /\ Len(log) \in Nat /\ Len(history) \in Nat /\ Capacity \in Nat \ {0}
      /\ LatestID = Len(log) /\ HistoryIsTail
    BY HubAssumption DEF HubInv, HubTypeOK, LatestID
<1>2. Dropped \in Nat /\ history # <<>>
    BY <1>1 DEF HubInv, HubTypeOK, Dropped, HistoryIsTail
<1>3. history[1] = [id |-> Dropped + 1, message |-> log[Dropped + 1]]
      /\ Head(history) = history[1]
    BY <1>1, <1>2 DEF HubInv, HubTypeOK, HistoryIsTail
<1>4. Dropped < i
    BY <1>1, <1>2, <1>3 DEF Gap
<1> DEFINE j == i - Dropped
<1>5. j \in 1..Len(history) /\ Dropped + j = i
    BY <1>1, <1>2, <1>4 DEF Dropped
<1>6. history[j] = [id |-> Dropped + j, message |-> log[Dropped + j]]
    BY <1>1, <1>5 DEF HistoryIsTail
<1> HIDE DEF j
<1> QED
    BY <1>5, <1>6

\* A client that is told of no gap is sent every frame after its cursor that
\* concerns it, for every capacity: Subscribe reports a gap whenever a frame
\* after the cursor has left the history.
THEOREM ReportedGapsAreComplete == StreamSpec => []NoGapNoLoss
    BY HistorySuffices, HubInductive, PTL

\* A frame is suppressed as a duplicate only if the frame it repeats is the last
\* of its key and can still be replayed, for every capacity.
THEOREM DuplicatesCanBeReplayed == StreamSpec => []DuplicatesAreReplayable
<1>1. HubInv => DuplicatesAreReplayable
  <2> SUFFICES ASSUME HubInv, NEW k \in Keys, lastState[k] > 0
               PROVE  /\ \E i \in 1..Len(history) :
                            history[i] = [id |-> lastState[k], message |-> log[lastState[k]]]
                      /\ log[lastState[k]].key = k
                      /\ \A i \in (lastState[k] + 1)..LatestID : log[i].key # k
      BY Zenon DEF DuplicatesAreReplayable
  <2>1. /\ Len(log) \in Nat /\ Len(history) \in Nat /\ lastState[k] \in Nat
        /\ HistoryIsTail
        /\ lastState[k] \in (Dropped + 1)..Len(log)
        /\ log[lastState[k]].key = k
        /\ \A i \in (lastState[k] + 1)..Len(log) : log[i].key # k
      BY DEF HubInv, HubTypeOK, LastStateIsKept
  <2>2. \E i \in 1..Len(history) :
           history[i] = [id |-> lastState[k], message |-> log[lastState[k]]]
    <3> DEFINE i == lastState[k] - Dropped
    <3>1. i \in 1..Len(history) /\ Dropped + i = lastState[k]
        BY <2>1 DEF Dropped
    <3>2. history[i] = [id |-> Dropped + i, message |-> log[Dropped + i]]
        BY <2>1, <3>1 DEF HistoryIsTail
    <3> HIDE DEF i
    <3> QED
        BY <3>1, <3>2
  <2> QED
      BY <2>1, <2>2 DEF LatestID
<1> QED
    BY <1>1, HubInductive, PTL

-----------------------------------------------------------------------------
(* Ordering and sequences. *)

\* q lists the members of S upwards.
Lists(q, S) ==
    /\ \A i, j \in DOMAIN q : i < j => q[i] < q[j]
    /\ \A s \in S : \E i \in DOMAIN q : q[i] = s

\* Positions can be listed: by the least bound on positions that cannot.
LEMMA OrderExists ==
    ASSUME NEW b \in Nat, NEW S \in SUBSET (1..b)
    PROVE  \E n \in 0..b : \E q \in [1..n -> S] : Lists(q, S)
<1> DEFINE Ordered(T, c) == \E n \in 0..c : \E q \in [1..n -> T] : Lists(q, T)
           Bad == {c \in Nat : \E T \in SUBSET (1..c) : ~Ordered(T, c)}
           Less == {p \in Nat \X Nat : p[1] < p[2]}
<1>1. IsWellFoundedOn(Less, Nat)
    BY NatLessThanWellFounded DEF OpToRel
<1>2. ASSUME Bad # {} PROVE FALSE
  <2>1. PICK c \in Bad : \A m \in Bad : ~(<<m, c>> \in Less)
    <3>1. Bad \subseteq Nat
        OBVIOUS
    <3> HIDE DEF Bad, Less
    <3> QED
        BY <1>1, <1>2, <3>1, WFMin, Zenon
  <2>2. PICK T \in SUBSET (1..c) : ~Ordered(T, c)
      BY <2>1, Zenon
  <2>3. c \in Nat
      BY <2>1
  <2>4. c # 0
    <3>1. ASSUME c = 0 PROVE FALSE
      <4>1. T = {}
          BY <3>1
      <4>2. 0 \in 0..c /\ <<>> \in [1..0 -> T] /\ DOMAIN <<>> = {}
          BY <2>3
      <4>3. Lists(<<>>, T)
          BY <4>1, <4>2, Zenon DEF Lists
      <4> QED
          BY <2>2, <4>2, <4>3, Zenon
    <3> QED
        BY <3>1
  <2> DEFINE U == T \ {c}
  <2>5. Ordered(U, c - 1)
    <3>1. c - 1 \in Nat /\ <<c - 1, c>> \in Less
        BY <2>3, <2>4
    <3>2. U \in SUBSET (1..(c - 1))
        BY <2>3, <2>4
    <3>3. c - 1 \notin Bad
        BY <2>1, <3>1, Zenon
    <3> HIDE DEF Ordered, U
    <3> QED
        BY <3>1, <3>2, <3>3
  <2>6. PICK k \in 0..(c - 1) : \E q \in [1..k -> U] : Lists(q, U)
      BY <2>5, Zenon
  <2>7. PICK q \in [1..k -> U] : Lists(q, U)
      BY <2>6, Zenon
  <2>8. k \in Nat /\ k \in 0..c /\ k + 1 \in 0..c /\ DOMAIN q = 1..k
      BY <2>3, <2>4, <2>6, <2>7
  <2>9. c \in T
    <3>1. ASSUME c \notin T PROVE FALSE
      <4>1. U = T
          BY <3>1
      <4> HIDE DEF U
      <4> QED
          BY <2>2, <2>7, <2>8, <4>1, Zenon
    <3> QED
        BY <3>1
  <2> DEFINE r == [i \in 1..(k + 1) |-> IF i = k + 1 THEN c ELSE q[i]]
  <2>10. \A i \in 1..k : i \in 1..(k + 1) /\ i # k + 1 /\ r[i] = q[i] /\ q[i] \in T /\ q[i] # c
    <3>1. \A i \in 1..k : i \in 1..(k + 1) /\ i # k + 1 /\ q[i] \in U
        BY <2>7, <2>8
    <3> QED
        BY <3>1
  <2>11. k + 1 \in 1..(k + 1) /\ r[k + 1] = c /\ DOMAIN r = 1..(k + 1)
      BY <2>8
  <2>12. \A i \in 1..(k + 1) : i # k + 1 => i \in 1..k
      BY <2>8
  <2>13. r \in [1..(k + 1) -> T]
      BY <2>9, <2>10, <2>12, Zenon
  <2> HIDE DEF r
  <2>14. ASSUME NEW i \in 1..(k + 1), NEW j \in 1..(k + 1), i < j PROVE r[i] < r[j]
    <3>1. i \in 1..k /\ r[i] = q[i] /\ q[i] \in 1..c /\ q[i] # c
      <4>1. i # k + 1
          BY <2>8, <2>14
      <4> QED
          BY <2>10, <2>12, <4>1, Zenon
    <3>2. CASE j = k + 1
        BY <2>3, <2>11, <3>1, <3>2
    <3>3. CASE j # k + 1
      <4>1. j \in 1..k /\ r[j] = q[j]
          BY <2>10, <2>12, <3>3, Zenon
      <4> QED
          BY <2>7, <2>8, <2>14, <3>1, <4>1, Zenon DEF Lists
    <3> QED
        BY <3>2, <3>3
  <2>15. ASSUME NEW s \in T PROVE \E i \in 1..(k + 1) : r[i] = s
    <3>1. CASE s = c
        BY <2>11, <3>1, Zenon
    <3>2. CASE s # c
      <4>1. s \in U
          BY <3>2
      <4>2. PICK i \in 1..k : q[i] = s
          BY <2>7, <2>8, <4>1, Zenon DEF Lists
      <4> QED
          BY <2>10, <4>2, Zenon
    <3> QED
        BY <3>1, <3>2
  <2>16. Lists(r, T)
      BY <2>11, <2>14, <2>15, Zenon DEF Lists
  <2> QED
      BY <2>2, <2>8, <2>13, <2>16, Zenon
<1>3. b \notin Bad
    BY <1>2, Zenon
<1> QED
    BY <1>3, Zenon

\* InOrder lists positions of the history.
LEMMA InOrderFacts ==
    ASSUME Len(history) \in Nat, NEW S \in SUBSET (1..Len(history))
    PROVE  \E n \in Nat : InOrder(S) \in [1..n -> S] /\ Lists(InOrder(S), S)
<1>0. PICK n \in 0..Len(history) : \E q \in [1..n -> S] : Lists(q, S)
    BY OrderExists, Zenon
<1>1. PICK q \in [1..n -> S] : Lists(q, S)
    BY <1>0
<1>2. q \in UNION {[1..m -> S] : m \in 0..Len(history)}
    BY <1>1
<1>3. /\ InOrder(S) \in UNION {[1..m -> S] : m \in 0..Len(history)}
      /\ Lists(InOrder(S), S)
    BY <1>1, <1>2, Zenon DEF InOrder, Lists
<1>4. PICK m \in 0..Len(history) : InOrder(S) \in [1..m -> S]
    BY <1>3
<1> QED
    BY <1>3, <1>4

\* Sequences are the same if their elements are.
LEMMA SameElements ==
    ASSUME NEW S, NEW s \in Seq(S), NEW t \in Seq(S), Len(s) = Len(t),
           \A i \in 1..Len(s) : s[i] = t[i]
    PROVE  s = t
OBVIOUS

\* What is left of a sequence without its first element.
LEMMA HeadAndTail ==
    ASSUME NEW S, NEW s \in Seq(S), s # <<>>
    PROVE  /\ Head(s) \in S /\ Head(s) = s[1] /\ Len(s) \in Nat /\ Len(s) > 0
           /\ Tail(s) \in Seq(S) /\ Len(Tail(s)) = Len(s) - 1
           /\ \A i \in 1..(Len(s) - 1) : Tail(s)[i] = s[i + 1]
OBVIOUS

\* A sequence with another element at its end.
LEMMA Appended ==
    ASSUME NEW S, NEW s \in Seq(S), NEW e \in S
    PROVE  /\ Append(s, e) \in Seq(S) /\ Append(s, e) # <<>>
           /\ Len(s) \in Nat /\ Len(Append(s, e)) = Len(s) + 1
           /\ \A i \in 1..Len(s) : Append(s, e)[i] = s[i]
           /\ Append(s, e)[Len(s) + 1] = e
OBVIOUS

\* It has the same first element.
LEMMA FirstOfAppended ==
    ASSUME NEW S, NEW s \in Seq(S), s # <<>>, NEW e \in S
    PROVE  Head(Append(s, e)) = Head(s) /\ Tail(Append(s, e)) = Append(Tail(s), e)
<1>1. /\ Append(s, e) \in Seq(S) /\ Append(s, e) # <<>>
      /\ Len(s) \in Nat /\ Len(Append(s, e)) = Len(s) + 1
      /\ \A i \in 1..Len(s) : Append(s, e)[i] = s[i]
      /\ Append(s, e)[Len(s) + 1] = e
    BY Appended
<1>2. PICK a \in Seq(S) : a = Append(s, e)
    BY <1>1, Zenon
<1>3. /\ Head(a) = a[1] /\ Tail(a) \in Seq(S) /\ Len(Tail(a)) = Len(a) - 1
      /\ \A i \in 1..(Len(a) - 1) : Tail(a)[i] = a[i + 1]
    BY <1>1, <1>2, HeadAndTail
<1>4. /\ Head(s) = s[1] /\ Len(s) > 0 /\ Len(Tail(s)) = Len(s) - 1
      /\ \A i \in 1..(Len(s) - 1) : Tail(s)[i] = s[i + 1]
    BY HeadAndTail
<1>5. PICK t \in Seq(S) : t = Tail(s)
    BY HeadAndTail, Zenon
<1>6. /\ Append(t, e) \in Seq(S) /\ Len(Append(t, e)) = Len(s)
      /\ \A i \in 1..(Len(s) - 1) : Append(t, e)[i] = t[i]
      /\ Append(t, e)[Len(s)] = e
    BY <1>1, <1>4, <1>5, Appended
<1>7. ASSUME NEW i \in 1..Len(s) PROVE Tail(a)[i] = Append(t, e)[i]
  <2>1. CASE i = Len(s)
      BY <1>1, <1>2, <1>3, <1>6, <2>1
  <2>2. CASE i # Len(s)
    <3>1. i \in 1..(Len(s) - 1) /\ i + 1 \in 1..Len(s)
        BY <1>1, <2>2
    <3> QED
        BY <1>1, <1>2, <1>3, <1>4, <1>5, <1>6, <3>1
  <2> QED
      BY <2>1, <2>2, Zenon
<1>8. Len(Tail(a)) = Len(Append(t, e))
    BY <1>1, <1>2, <1>3, <1>6
<1>9. Tail(a) = Append(t, e)
  <2>1. Len(Tail(a)) = Len(s)
      BY <1>6, <1>8
  <2> QED
      BY <1>3, <1>6, <1>7, <1>8, <2>1, SameElements, Zenon
<1>10. Head(a) = Head(s)
    BY <1>1, <1>2, <1>3, <1>4
<1> QED
    BY <1>2, <1>5, <1>9, <1>10, Zenon

\* Two sequences, one after the other.
LEMMA Joined ==
    ASSUME NEW S, NEW s \in Seq(S), NEW t \in Seq(S)
    PROVE  /\ s \o t \in Seq(S) /\ Len(s) \in Nat /\ Len(t) \in Nat
           /\ Len(s \o t) = Len(s) + Len(t)
           /\ \A i \in 1..(Len(s) + Len(t)) :
                 (s \o t)[i] = IF i <= Len(s) THEN s[i] ELSE t[i - Len(s)]
OBVIOUS

\* Nothing, and a sequence after it.
LEMMA NothingJoined ==
    ASSUME NEW S, NEW s \in Seq(S)
    PROVE  <<>> \o s = s
OBVIOUS

\* A frame that the handler takes from the channel to the wire stays where it is
\* between the frames under way.
LEMMA Passing ==
    ASSUME NEW S, NEW w \in Seq(S), NEW q \in Seq(S), q # <<>>
    PROVE  Append(w, Head(q)) \o Tail(q) = w \o q
<1>1. /\ Head(q) \in S /\ Tail(q) \in Seq(S) /\ Len(Tail(q)) = Len(q) - 1
      /\ \A i \in 1..(Len(q) - 1) : Tail(q)[i] = q[i + 1]
      /\ Head(q) = q[1] /\ Len(q) \in Nat /\ Len(q) > 0 /\ Len(w) \in Nat
    BY HeadAndTail
<1>2. PICK v \in Seq(S) : v = Append(w, Head(q))
    BY <1>1, Appended, Zenon
<1>3. /\ Len(v) = Len(w) + 1 /\ v[Len(w) + 1] = q[1]
      /\ \A i \in 1..Len(w) : v[i] = w[i]
    BY <1>1, <1>2
<1>4. PICK t \in Seq(S) : t = Tail(q)
    BY <1>1, Zenon
<1>5. /\ v \o t \in Seq(S) /\ Len(v \o t) = Len(w) + Len(q)
      /\ \A i \in 1..(Len(w) + Len(q)) :
            (v \o t)[i] = IF i <= Len(w) + 1 THEN v[i] ELSE t[i - (Len(w) + 1)]
  <2>1. /\ v \o t \in Seq(S) /\ Len(v \o t) = Len(v) + Len(t)
        /\ \A i \in 1..(Len(v) + Len(t)) :
              (v \o t)[i] = IF i <= Len(v) THEN v[i] ELSE t[i - Len(v)]
      BY Joined, Zenon
  <2>2. Len(v) + Len(t) = Len(w) + Len(q)
      BY <1>1, <1>3, <1>4
  <2> QED
      BY <1>3, <2>1, <2>2, Zenon
<1>6. /\ w \o q \in Seq(S) /\ Len(w \o q) = Len(w) + Len(q)
      /\ \A i \in 1..(Len(w) + Len(q)) :
            (w \o q)[i] = IF i <= Len(w) THEN w[i] ELSE q[i - Len(w)]
    BY Joined
<1>7. ASSUME NEW i \in 1..(Len(w) + Len(q)) PROVE (v \o t)[i] = (w \o q)[i]
  <2>1. CASE i <= Len(w)
      BY <1>1, <1>3, <1>5, <1>6, <2>1
  <2>2. CASE i = Len(w) + 1
      BY <1>1, <1>3, <1>5, <1>6, <2>2
  <2>3. CASE i > Len(w) + 1
    <3>1. i - (Len(w) + 1) \in 1..(Len(q) - 1)
        BY <1>1, <2>3
    <3>2. t[i - (Len(w) + 1)] = q[i - Len(w)]
        BY <1>1, <1>4, <3>1
    <3> QED
        BY <1>1, <1>5, <1>6, <2>3, <3>2
  <2>4. i <= Len(w) \/ i = Len(w) + 1 \/ i > Len(w) + 1
      BY <1>1
  <2> QED
      BY <2>1, <2>2, <2>3, <2>4, Zenon
<1>8. v \o t = w \o q
    BY <1>5, <1>6, <1>7, SameElements, Zenon
<1> QED
    BY <1>2, <1>4, <1>8, Zenon

\* A broadcast frame comes last.
LEMMA Joining ==
    ASSUME NEW S, NEW w \in Seq(S), NEW q \in Seq(S), NEW e \in S
    PROVE  w \o Append(q, e) = Append(w \o q, e)
<1>1. PICK a \in Seq(S) : a = Append(q, e)
    BY Appended, Zenon
<1>2. PICK v \in Seq(S) : v = w \o q
    BY Joined, Zenon
<1>3. /\ Len(a) = Len(q) + 1 /\ a[Len(q) + 1] = e
      /\ \A i \in 1..Len(q) : a[i] = q[i]
    BY <1>1, Appended
<1>4. /\ Len(w) \in Nat /\ Len(q) \in Nat /\ Len(v) = Len(w) + Len(q)
      /\ \A i \in 1..(Len(w) + Len(q)) : v[i] = IF i <= Len(w) THEN w[i] ELSE q[i - Len(w)]
    BY <1>2, Joined
<1>5. /\ w \o a \in Seq(S) /\ Len(w \o a) = Len(w) + Len(q) + 1
      /\ \A i \in 1..(Len(w) + Len(q) + 1) :
            (w \o a)[i] = IF i <= Len(w) THEN w[i] ELSE a[i - Len(w)]
  <2>1. /\ w \o a \in Seq(S) /\ Len(w \o a) = Len(w) + Len(a)
        /\ \A i \in 1..(Len(w) + Len(a)) :
              (w \o a)[i] = IF i <= Len(w) THEN w[i] ELSE a[i - Len(w)]
      BY Joined, Zenon
  <2>2. Len(w) + Len(a) = Len(w) + Len(q) + 1
      BY <1>3, <1>4
  <2> QED
      BY <2>1, <2>2, Zenon
<1>6. /\ Append(v, e) \in Seq(S) /\ Len(Append(v, e)) = Len(w) + Len(q) + 1
      /\ Append(v, e)[Len(w) + Len(q) + 1] = e
      /\ \A i \in 1..(Len(w) + Len(q)) : Append(v, e)[i] = v[i]
  <2>1. /\ Append(v, e) \in Seq(S) /\ Len(Append(v, e)) = Len(v) + 1
        /\ Append(v, e)[Len(v) + 1] = e /\ \A i \in 1..Len(v) : Append(v, e)[i] = v[i]
      OBVIOUS
  <2> QED
      BY <1>4, <2>1, Zenon
<1>7. ASSUME NEW i \in 1..(Len(w) + Len(q) + 1) PROVE (w \o a)[i] = Append(v, e)[i]
  <2>1. CASE i <= Len(w)
      BY <1>4, <1>5, <1>6, <2>1
  <2>2. CASE i = Len(w) + Len(q) + 1
    <3>1. i - Len(w) = Len(q) + 1 /\ ~(i <= Len(w))
        BY <1>4, <2>2
    <3> QED
        BY <1>3, <1>5, <1>6, <2>2, <3>1
  <2>3. CASE i > Len(w) /\ i # Len(w) + Len(q) + 1
    <3>1. i \in 1..(Len(w) + Len(q)) /\ i - Len(w) \in 1..Len(q)
        BY <1>4, <2>3
    <3> QED
        BY <1>3, <1>4, <1>5, <1>6, <2>3, <3>1, SMTT(30)
  <2>4. i <= Len(w) \/ i > Len(w)
      BY <1>4
  <2> QED
      BY <2>1, <2>2, <2>3, <2>4, Zenon
<1>8. w \o a = Append(v, e)
    BY <1>5, <1>6, <1>7, SameElements, Zenon
<1> QED
    BY <1>1, <1>2, <1>8, Zenon

\* The client reads the first frame under way.
LEMMA Reading ==
    ASSUME NEW S, NEW w \in Seq(S), NEW q \in Seq(S), w # <<>>
    PROVE  /\ Tail(w) \o q = Tail(w \o q) /\ w \o q # <<>>
           /\ Head(w) = (w \o q)[1]
<1>1. /\ Tail(w) \in Seq(S) /\ Len(Tail(w)) = Len(w) - 1
      /\ \A i \in 1..(Len(w) - 1) : Tail(w)[i] = w[i + 1]
      /\ Head(w) = w[1] /\ Len(w) \in Nat /\ Len(w) > 0 /\ Len(q) \in Nat
    BY HeadAndTail
<1>2. PICK v \in Seq(S) : v = w \o q
    BY Joined, Zenon
<1>3. /\ Len(v) = Len(w) + Len(q)
      /\ \A i \in 1..(Len(w) + Len(q)) : v[i] = IF i <= Len(w) THEN w[i] ELSE q[i - Len(w)]
    BY <1>2, Joined
<1>4. v # <<>> /\ Head(w) = v[1]
    BY <1>1, <1>3
<1>5. /\ Tail(v) \in Seq(S) /\ Len(Tail(v)) = Len(v) - 1
      /\ \A i \in 1..(Len(v) - 1) : Tail(v)[i] = v[i + 1]
    BY <1>4, HeadAndTail
<1>6. PICK t \in Seq(S) : t = Tail(w)
    BY <1>1, Zenon
<1>7. /\ t \o q \in Seq(S) /\ Len(t \o q) = Len(w) - 1 + Len(q)
      /\ \A i \in 1..(Len(w) - 1 + Len(q)) :
            (t \o q)[i] = IF i <= Len(w) - 1 THEN t[i] ELSE q[i - (Len(w) - 1)]
    BY <1>1, <1>6, Joined
<1>8. ASSUME NEW i \in 1..(Len(w) - 1 + Len(q)) PROVE (t \o q)[i] = Tail(v)[i]
  <2>1. Tail(v)[i] = v[i + 1] /\ i + 1 \in 1..(Len(w) + Len(q))
      BY <1>1, <1>3, <1>5
  <2>2. CASE i <= Len(w) - 1
      BY <1>1, <1>3, <1>6, <1>7, <2>1, <2>2
  <2>3. CASE i > Len(w) - 1
      BY <1>1, <1>3, <1>7, <2>1, <2>3, SMTT(30)
  <2>4. i <= Len(w) - 1 \/ i > Len(w) - 1
      BY <1>1
  <2> QED
      BY <2>2, <2>3, <2>4, Zenon
<1>9. t \o q = Tail(v)
    BY <1>1, <1>3, <1>5, <1>7, <1>8, SameElements, SMTT(30)
<1> QED
    BY <1>2, <1>4, <1>6, <1>9, Zenon

-----------------------------------------------------------------------------
(* What is under way to a client. *)

\* The events ev under way to c, when L was broadcast: in order, after the cursor
\* last; the first `left` of them are the replay, which ends at latest.  No event
\* after the cursor and after the frame from, from which c wants to know all, is
\* missing before latest, before another event, or, while the hub sends, at all.
Due(c, L, ev, last, latest, left, from, listed) ==
    /\ ev \in Seq(Signal)
    /\ last \in Nat /\ from \in Nat /\ latest \in 0..Len(L) /\ left \in 0..Len(ev)
    /\ \A i \in 1..Len(ev) : ev[i].connected = FALSE /\ ev[i].id \in (last + 1)..Len(L)
    /\ \A i, j \in 1..Len(ev) : i < j => ev[i].id < ev[j].id
    /\ \A i \in 1..Len(ev) : i <= left <=> ev[i].id <= latest
    /\ \A n \in 1..Len(L) :
          /\ Concerns(c, L[n]) /\ n > last /\ n > from
          /\ n <= latest \/ listed = TRUE \/ \E i \in 1..Len(ev) : ev[i].id > n
          => \E i \in 1..Len(ev) : ev[i].id = n

\* A connection whose first frame the client has not read.
Greeting(c, L, cn, s, k) ==
    /\ cn.wire # <<>> /\ Head(cn.wire).connected = TRUE
    /\ Head(cn.wire).gap = TRUE => Head(cn.wire).count = 0
    /\ s.lastID <= Head(cn.wire).id
    /\ Due(c, L, Tail(cn.wire) \o cn.queue, s.lastID, Head(cn.wire).id, Head(cn.wire).count,
           IF Head(cn.wire).gap = TRUE THEN Head(cn.wire).id ELSE k.base, cn.listed)

\* A connection that the client follows.
Following(c, L, cn, s, k) ==
    /\ Due(c, L, cn.wire \o cn.queue, s.lastID, s.latest, s.replay, k.base, cn.listed)
    /\ s.replay = 0 => s.lastID >= s.latest

\* Everything after base and up to the cursor that concerns c was taken.
Told(c, L, last, k) ==
    \A n \in (k.base + 1)..last : Concerns(c, L[n]) => n \in k.taken

\* What is known of a client with connection cn, stream s and knowledge k.
Safe(c, L, cn, s, k) ==
    /\ cn \in Conn /\ s \in Stream /\ k \in Known
    /\ s.failed = FALSE /\ s.lastID <= Len(L) /\ k.base <= Len(L)
    /\ cn.up = FALSE => cn = NoConn
    /\ s.resuming = FALSE => cn.up = FALSE /\ s.lastID = 0
    /\ cn.up = TRUE /\ s.connected = FALSE => Greeting(c, L, cn, s, k)
    /\ cn.up = TRUE /\ s.connected = TRUE => Following(c, L, cn, s, k)
    /\ Told(c, L, s.lastID, k)

Clients == \A c \in Client : Safe(c, log, conn[c], stream[c], known[c])

StreamInv ==
    /\ HubInv
    /\ conn \in [Client -> Conn] /\ stream \in [Client -> Stream] /\ known \in [Client -> Known]
    /\ Clients

\* Event makes a signal.
LEMMA EventFacts ==
    ASSUME NEW n \in Nat
    PROVE  Event(n) \in Signal /\ Event(n).id = n /\ Event(n).connected = FALSE
    BY Zenon DEF Event, Signal

\* Broadcast to a client with room: the frame joins those under way.
LEMMA DueSent ==
    ASSUME NEW c, NEW L \in Seq(Message), NEW m \in Message, NEW ev, NEW last, NEW latest,
           NEW left, NEW from, Due(c, L, ev, last, latest, left, from, TRUE), last <= Len(L)
    PROVE  Due(c, Append(L, m), Append(ev, Event(Len(L) + 1)), last, latest, left, from, TRUE)
<1> DEFINE new == Append(ev, Event(Len(L) + 1))
           M == Append(L, m)
<1>1. /\ ev \in Seq(Signal) /\ Len(ev) \in Nat /\ Len(L) \in Nat
      /\ last \in Nat /\ from \in Nat /\ latest \in 0..Len(L) /\ left \in 0..Len(ev)
    BY DEF Due
<1>2. /\ M \in Seq(Message) /\ Len(M) = Len(L) + 1 /\ M[Len(L) + 1] = m
      /\ \A n \in 1..Len(L) : M[n] = L[n]
    BY <1>1
<1>3. /\ new \in Seq(Signal) /\ Len(new) = Len(ev) + 1
      /\ new[Len(ev) + 1].id = Len(L) + 1 /\ new[Len(ev) + 1].connected = FALSE
      /\ \A i \in 1..Len(ev) : new[i] = ev[i]
  <2>1. Len(L) + 1 \in Nat
      BY <1>1
  <2>2. /\ Event(Len(L) + 1) \in Signal /\ Event(Len(L) + 1).id = Len(L) + 1
        /\ Event(Len(L) + 1).connected = FALSE
      BY <2>1, EventFacts, Zenon
  <2>3. PICK e \in Signal : e = Event(Len(L) + 1) /\ e.id = Len(L) + 1 /\ e.connected = FALSE
      BY <2>2
  <2>4. new = Append(ev, e)
      BY <2>3
  <2> HIDE DEF new
  <2>5. /\ new \in Seq(Signal) /\ Len(new) = Len(ev) + 1 /\ new[Len(ev) + 1] = e
        /\ \A i \in 1..Len(ev) : new[i] = ev[i]
      BY <1>1, <2>4, Appended
  <2> QED
      BY <2>3, <2>5, Zenon
<1> HIDE DEF new, M
<1>4. \A i \in 1..Len(new) : i = Len(ev) + 1 \/ i \in 1..Len(ev)
    BY <1>1, <1>3
<1>5. \A i \in 1..Len(new) : new[i].connected = FALSE /\ new[i].id \in (last + 1)..Len(M)
  <2> SUFFICES ASSUME NEW i \in 1..Len(new)
               PROVE  new[i].connected = FALSE /\ new[i].id \in (last + 1)..Len(M)
      BY Zenon
  <2>1. CASE i = Len(ev) + 1
      BY <1>1, <1>2, <1>3, <2>1
  <2>2. CASE i \in 1..Len(ev)
    <3>1. ev[i].connected = FALSE /\ ev[i].id \in (last + 1)..Len(L)
        BY <2>2, Zenon DEF Due
    <3> QED
        BY <1>1, <1>2, <1>3, <2>2, <3>1, SMTT(30)
  <2> QED
      BY <1>4, <2>1, <2>2, Zenon
<1>6. \A i, j \in 1..Len(new) : i < j => new[i].id < new[j].id
  <2> SUFFICES ASSUME NEW i \in 1..Len(new), NEW j \in 1..Len(new), i < j
               PROVE  new[i].id < new[j].id
      OBVIOUS
  <2>1. i \in 1..Len(ev)
      BY <1>1, <1>3
  <2>2. CASE j = Len(ev) + 1
    <3>1. ev[i].id \in (last + 1)..Len(L)
        BY <2>1, Zenon DEF Due
    <3> QED
        BY <1>1, <1>3, <2>1, <2>2, <3>1
  <2>3. CASE j \in 1..Len(ev)
    <3>1. ev[i].id < ev[j].id
        BY <2>1, <2>3, Zenon DEF Due
    <3> QED
        BY <1>3, <2>1, <2>3, <3>1, Zenon
  <2> QED
      BY <1>4, <2>2, <2>3
<1>7. \A i \in 1..Len(new) : i <= left <=> new[i].id <= latest
  <2> SUFFICES ASSUME NEW i \in 1..Len(new) PROVE i <= left <=> new[i].id <= latest
      OBVIOUS
  <2>1. CASE i = Len(ev) + 1
      BY <1>1, <1>3, <2>1
  <2>2. CASE i \in 1..Len(ev)
    <3>1. i <= left <=> ev[i].id <= latest
        BY <2>2, Zenon DEF Due
    <3> QED
        BY <1>3, <2>2, <3>1, Zenon
  <2> QED
      BY <1>4, <2>1, <2>2
<1>8. ASSUME NEW n \in 1..Len(M), Concerns(c, M[n]), n > last, n > from
      PROVE  \E i \in 1..Len(new) : new[i].id = n
  <2>1. CASE n = Len(L) + 1
    <3>1. Len(ev) + 1 \in 1..Len(new)
        BY <1>1, <1>3
    <3> QED
        BY <1>3, <2>1, <3>1
  <2>2. CASE n # Len(L) + 1
    <3>1. n \in 1..Len(L) /\ Concerns(c, L[n])
        BY <1>1, <1>2, <1>8, <2>2
    <3>2. PICK i \in 1..Len(ev) : ev[i].id = n
        BY <1>8, <3>1, Zenon DEF Due
    <3>3. i \in 1..Len(new) /\ new[i].id = n
        BY <1>1, <1>3, <3>2, SMTT(30)
    <3> QED
        BY <3>3
  <2> QED
      BY <2>1, <2>2
<1>9. latest \in 0..Len(M) /\ left \in 0..Len(new)
    BY <1>1, <1>2, <1>3
<1>10. Due(c, M, new, last, latest, left, from, TRUE)
    BY <1>1, <1>3, <1>5, <1>6, <1>7, <1>8, <1>9, Zenon DEF Due
<1> QED
    BY <1>10, Zenon DEF new, M

\* Broadcast to a client that it does not concern, or that is or becomes
\* unlisted: nothing is owed.
LEMMA DueUnsent ==
    ASSUME NEW c, NEW L \in Seq(Message), NEW m \in Message, NEW ev, NEW last, NEW latest,
           NEW left, NEW from, NEW old \in BOOLEAN, NEW listed \in BOOLEAN,
           Due(c, L, ev, last, latest, left, from, old),
           listed = TRUE => old = TRUE /\ ~Concerns(c, m)
    PROVE  Due(c, Append(L, m), ev, last, latest, left, from, listed)
<1> DEFINE M == Append(L, m)
<1>1. /\ ev \in Seq(Signal) /\ Len(ev) \in Nat /\ Len(L) \in Nat
      /\ last \in Nat /\ from \in Nat /\ latest \in 0..Len(L) /\ left \in 0..Len(ev)
    BY DEF Due
<1>2. /\ M \in Seq(Message) /\ Len(M) = Len(L) + 1 /\ M[Len(L) + 1] = m
      /\ \A n \in 1..Len(L) : M[n] = L[n]
    BY <1>1
<1> HIDE DEF M
<1>3. \A i \in 1..Len(ev) : ev[i].connected = FALSE /\ ev[i].id \in (last + 1)..Len(L)
    BY Zenon DEF Due
<1>4. \A i \in 1..Len(ev) : ev[i].connected = FALSE /\ ev[i].id \in (last + 1)..Len(M)
    BY <1>1, <1>2, <1>3, SMTT(30)
<1>5. ASSUME NEW n \in 1..Len(M), Concerns(c, M[n]), n > last, n > from,
             n <= latest \/ listed = TRUE \/ \E i \in 1..Len(ev) : ev[i].id > n
      PROVE  \E i \in 1..Len(ev) : ev[i].id = n
  <2>1. n \in 1..Len(L)
    <3>1. CASE n = Len(L) + 1
      <4>1. ~(n <= latest) /\ ~\E i \in 1..Len(ev) : ev[i].id > n
          BY <1>1, <1>3, <3>1, SMTT(30)
      <4>2. ~Concerns(c, M[n])
          BY <1>5, <4>1, <3>1, <1>2, Zenon
      <4> QED
          BY <1>5, <4>2
    <3> QED
        BY <1>1, <1>2, <3>1
  <2>2. Concerns(c, L[n])
      BY <1>2, <1>5, <2>1, Zenon
  <2> QED
      BY <1>5, <2>1, <2>2, Zenon DEF Due
<1>6. latest \in 0..Len(M)
    BY <1>1, <1>2
<1>7. Due(c, M, ev, last, latest, left, from, listed)
  <2>1. /\ \A i, j \in 1..Len(ev) : i < j => ev[i].id < ev[j].id
        /\ \A i \in 1..Len(ev) : i <= left <=> ev[i].id <= latest
      BY Zenon DEF Due
  <2> QED
      BY <1>1, <1>4, <1>5, <1>6, <2>1, Zenon DEF Due
<1> QED
    BY <1>7, Zenon DEF M

\* The client is greeted: without a replay it is up to date, after a gap it wants
\* to know all from now on.
LEMMA DueGreeted ==
    ASSUME NEW c, NEW L \in Seq(Message), NEW ev, NEW last, NEW latest, NEW left, NEW from,
           NEW listed, Due(c, L, ev, last, latest, left, from, listed), last <= latest,
           NEW next, left = 0 => next = latest, left # 0 => next = last
    PROVE  /\ Due(c, L, ev, next, latest, left, from, listed)
           /\ next \in Nat /\ next <= Len(L)
           /\ left = 0 => next >= latest
           /\ \A n \in (from + 1)..next : n > last => ~Concerns(c, L[n])
<1>1. /\ ev \in Seq(Signal) /\ Len(ev) \in Nat /\ Len(L) \in Nat
      /\ last \in Nat /\ from \in Nat /\ latest \in 0..Len(L) /\ left \in 0..Len(ev)
    BY SMTT(30) DEF Due
<1>2. CASE left # 0
  <2>1. next = last
      BY <1>2, Zenon
  <2>2. \A n \in (from + 1)..last : ~(n > last)
      BY <1>1
  <2>3. last <= Len(L)
      BY <1>1
  <2> QED
      BY <1>1, <1>2, <2>1, <2>2, <2>3, Zenon
<1>3. CASE left = 0
  <2>1. \A i \in 1..Len(ev) : ev[i].id > latest /\ ev[i].connected = FALSE
                              /\ ev[i].id \in (latest + 1)..Len(L)
    <3> SUFFICES ASSUME NEW i \in 1..Len(ev)
                 PROVE  ev[i].id > latest /\ ev[i].connected = FALSE
                        /\ ev[i].id \in (latest + 1)..Len(L)
        BY Zenon
    <3>1. /\ i <= left <=> ev[i].id <= latest
          /\ ev[i].connected = FALSE /\ ev[i].id \in (last + 1)..Len(L)
        BY DEF Due
    <3> QED
        BY <1>1, <1>3, <3>1, SMTT(30)
  <2>2. ASSUME NEW n \in (from + 1)..latest, n > last PROVE ~Concerns(c, L[n])
    <3>1. n \in 1..Len(L) /\ n <= latest /\ n > from
        BY <1>1
    <3>2. ASSUME Concerns(c, L[n]) PROVE FALSE
      <4>1. PICK i \in 1..Len(ev) : ev[i].id = n
          BY <2>2, <3>1, <3>2, Zenon DEF Due
      <4> QED
          BY <1>1, <2>1, <3>1, <4>1
    <3> QED
        BY <3>2
  <2>3. ASSUME NEW n \in 1..Len(L), Concerns(c, L[n]), n > latest, n > from,
               n <= latest \/ listed = TRUE \/ \E i \in 1..Len(ev) : ev[i].id > n
        PROVE  \E i \in 1..Len(ev) : ev[i].id = n
    <3>1. n > last
        BY <1>1, <2>3
    <3> QED
        BY <2>3, <3>1, Zenon DEF Due
  <2>4. Due(c, L, ev, latest, latest, left, from, listed)
    <3>1. /\ \A i, j \in 1..Len(ev) : i < j => ev[i].id < ev[j].id
          /\ \A i \in 1..Len(ev) : i <= left <=> ev[i].id <= latest
        BY Zenon DEF Due
    <3>2. latest \in Nat
        BY <1>1
    <3> QED
        BY <1>1, <2>1, <2>3, <3>1, <3>2, Zenon DEF Due
  <2>5. latest \in Nat /\ latest <= Len(L) /\ latest >= latest /\ next = latest
      BY <1>1, <1>3
  <2> QED
      BY <2>2, <2>4, <2>5
<1> QED
    BY <1>2, <1>3

\* The cursor and the rest of the replay after an event is taken (advance).
Reached(left, latest, id) == IF left = 1 /\ latest > id THEN latest ELSE id
Remaining(left) == IF left > 0 THEN left - 1 ELSE 0

\* A client with no replay to come has reached the latest event it was told of.
Arrived(left, last, latest) == left = 0 => last >= latest

\* There is an event to take.
Readable(c, L, ev, last, latest, left, from, listed) ==
    Due(c, L, ev, last, latest, left, from, listed) /\ ev # <<>> /\ Arrived(left, last, latest)

\* The cursor passes no event that concerns the client but the one it takes.
OneEvent(c, L, from, last, next, id) ==
    \A n \in (from + 1)..next : n > last /\ Concerns(c, L[n]) => n = id

\* The client takes an event.  The last one of the replay brings it to the latest
\* number of the connection frame; it passes nothing that concerns it.
LEMMA DueTaken ==
    ASSUME NEW c, NEW L \in Seq(Message), NEW ev, NEW last, NEW latest, NEW left, NEW from,
           NEW listed, Readable(c, L, ev, last, latest, left, from, listed),
           NEW next, next = Reached(left, latest, ev[1].id),
           NEW rest, rest = Remaining(left)
    PROVE  /\ Due(c, L, Tail(ev), next, latest, rest, from, listed)
           /\ next \in Nat /\ next <= Len(L) /\ ev[1].id > last /\ ev[1].connected = FALSE
           /\ rest \in Nat /\ Arrived(rest, next, latest)
           /\ OneEvent(c, L, from, last, next, ev[1].id)
<1>0. /\ next = IF left = 1 /\ latest > ev[1].id THEN latest ELSE ev[1].id
      /\ rest = IF left > 0 THEN left - 1 ELSE 0
      /\ left = 0 => last >= latest
      /\ Due(c, L, ev, last, latest, left, from, listed) /\ ev # <<>>
    BY Zenon DEF Reached, Remaining, Arrived, Readable
<1>1. /\ ev \in Seq(Signal) /\ Len(ev) \in Nat /\ Len(L) \in Nat /\ Len(ev) > 0
      /\ last \in Nat /\ from \in Nat /\ latest \in 0..Len(L) /\ left \in 0..Len(ev)
    BY <1>0 DEF Due
<1>2. /\ \A i \in 1..Len(ev) : ev[i].connected = FALSE /\ ev[i].id \in (last + 1)..Len(L)
      /\ \A i, j \in 1..Len(ev) : i < j => ev[i].id < ev[j].id
      /\ \A i \in 1..Len(ev) : i <= left <=> ev[i].id <= latest
    BY <1>0, Zenon DEF Due
<1>3. PICK t \in Seq(Signal) : t = Tail(ev)
    BY <1>0, <1>1, HeadAndTail, Zenon
<1>4. /\ Len(t) = Len(ev) - 1 /\ Len(t) \in Nat
      /\ \A i \in 1..Len(t) : i + 1 \in 1..Len(ev) /\ t[i] = ev[i + 1]
    BY <1>1, <1>3, HeadAndTail, SMTT(30)
<1>5. 1 \in 1..Len(ev) /\ ev[1].id \in (last + 1)..Len(L) /\ ev[1].connected = FALSE
      /\ ev[1].id \in Nat
    BY <1>1, <1>2, SMTT(30)
<1>6. /\ left = 1 => next = latest
      /\ left # 1 => next = ev[1].id
      /\ next >= ev[1].id /\ next \in Nat /\ next <= Len(L)
    BY <1>0, <1>1, <1>2, <1>5, SMTT(30)
<1>7. rest = 0 => next >= latest
    BY <1>0, <1>1, <1>2, <1>5, <1>6, SMTT(30)
<1>8. \A i \in 1..Len(t) : t[i].id \in (next + 1)..Len(L)
  <2> SUFFICES ASSUME NEW i \in 1..Len(t) PROVE t[i].id \in (next + 1)..Len(L)
      BY Zenon
  <2>1. /\ t[i] = ev[i + 1] /\ i + 1 \in 1..Len(ev) /\ 1 < i + 1
        /\ ev[i + 1].id \in (last + 1)..Len(L) /\ ev[1].id < ev[i + 1].id
        /\ i + 1 <= left <=> ev[i + 1].id <= latest
      BY <1>1, <1>2, <1>4, <1>5, SMTT(30)
  <2>2. PICK id : id = ev[i + 1].id
      BY Zenon
  <2>3. id \in (last + 1)..Len(L) /\ id > next
    <3>1. CASE left = 1
      <4>1. ~(i + 1 <= left)
          BY <2>1, <3>1, SMTT(30)
      <4> QED
          BY <1>1, <1>6, <2>1, <2>2, <3>1, <4>1, SMTT(30)
    <3>2. CASE left # 1
        BY <1>1, <1>5, <1>6, <2>1, <2>2, <3>2, Zenon
    <3> QED
        BY <3>1, <3>2
  <2>4. id \in (next + 1)..Len(L)
      BY <1>1, <1>6, <2>3, SMTT(30)
  <2> QED
      BY <2>1, <2>2, <2>4, Zenon
<1>9. \A i \in 1..Len(t) : t[i].connected = FALSE
    BY <1>2, <1>4, Zenon
<1>10. \A i, j \in 1..Len(t) : i < j => t[i].id < t[j].id
  <2> SUFFICES ASSUME NEW i \in 1..Len(t), NEW j \in 1..Len(t), i < j PROVE t[i].id < t[j].id
      BY Zenon
  <2>1. i + 1 \in 1..Len(ev) /\ j + 1 \in 1..Len(ev) /\ i + 1 < j + 1
      BY <1>4
  <2>2. ev[i + 1].id < ev[j + 1].id
      BY <1>2, <2>1, Zenon
  <2> QED
      BY <1>4, <2>2, Zenon
<1>11. \A i \in 1..Len(t) : i <= rest <=> t[i].id <= latest
  <2> SUFFICES ASSUME NEW i \in 1..Len(t) PROVE i <= rest <=> t[i].id <= latest
      BY Zenon
  <2>1. t[i] = ev[i + 1] /\ (i + 1 <= left <=> ev[i + 1].id <= latest)
      BY <1>2, <1>4
  <2>2. i <= rest <=> i + 1 <= left
      BY <1>0, <1>1
  <2> QED
      BY <2>1, <2>2, Zenon
<1>12. rest \in Nat /\ rest \in 0..Len(t)
    BY <1>0, <1>1, <1>4
<1>13. ASSUME NEW n \in 1..Len(L), Concerns(c, L[n]), n > next, n > from,
              n <= latest \/ listed = TRUE \/ \E i \in 1..Len(t) : t[i].id > n
       PROVE  \E i \in 1..Len(t) : t[i].id = n
  <2>1. n > last
      BY <1>1, <1>5, <1>6, <1>13, SMTT(30)
  <2>2. n <= latest \/ listed = TRUE \/ \E i \in 1..Len(ev) : ev[i].id > n
      BY <1>4, <1>13, Zenon
  <2>3. PICK i \in 1..Len(ev) : ev[i].id = n
      BY <1>0, <1>13, <2>1, <2>2, Zenon DEF Due
  <2>4. i # 1
      BY <1>5, <1>6, <1>13, <2>3, SMTT(30)
  <2>5. i - 1 \in 1..Len(t) /\ (i - 1) + 1 = i
      BY <1>1, <1>4, <2>4
  <2> QED
      BY <1>4, <2>3, <2>5, Zenon
<1>14. ASSUME NEW n \in (from + 1)..next, n > last, Concerns(c, L[n]) PROVE n = ev[1].id
  <2>1. n \in 1..Len(L) /\ n > from /\ n <= next
      BY <1>1, <1>6
  <2>2. ASSUME n # ev[1].id PROVE FALSE
    <3>1. n <= latest \/ \E i \in 1..Len(ev) : ev[i].id > n
      <4>1. CASE left = 1
          BY <1>6, <2>1, <4>1
      <4>2. CASE left # 1
        <5>1. ev[1].id > n
            BY <1>5, <1>6, <2>1, <2>2, <4>2, SMTT(30)
        <5> QED
            BY <1>5, <5>1, Zenon
      <4> QED
          BY <4>1, <4>2, Zenon
    <3>2. PICK i \in 1..Len(ev) : ev[i].id = n
        BY <1>0, <1>14, <2>1, <3>1, Zenon DEF Due
    <3>3. i > 1
        BY <1>1, <2>2, <3>2, SMTT(30)
    <3>4. ev[i].id > ev[1].id /\ (i <= left <=> ev[i].id <= latest)
        BY <1>2, <1>5, <3>3, Zenon
    <3> QED
        BY <1>1, <1>5, <1>6, <2>1, <3>2, <3>3, <3>4, SMTT(30)
  <2> QED
      BY <2>2, Zenon
<1>15. Due(c, L, t, next, latest, rest, from, listed)
  <2>1. \A i \in 1..Len(t) : t[i].connected = FALSE /\ t[i].id \in (next + 1)..Len(L)
      BY <1>8, <1>9, Zenon
  <2> QED
      BY <1>1, <1>6, <1>10, <1>11, <1>12, <1>13, <2>1, Zenon DEF Due
<1>16. ev[1].id > last
    BY <1>1, <1>5, SMTT(30)
<1> QED
    BY <1>3, <1>5, <1>6, <1>7, <1>12, <1>14, <1>15, <1>16, Zenon DEF Arrived, OneEvent

\* Subscribe without a replay: the client wants to know all from now on.
LEMMA DueAtOnce ==
    ASSUME NEW c, NEW L \in Seq(Message), NEW last \in Nat
    PROVE  Due(c, L, <<>>, last, Len(L), 0, Len(L), TRUE)
<1>1. /\ Len(L) \in Nat /\ <<>> \in Seq(Signal) /\ Len(<<>>) = 0
      /\ Len(L) \in 0..Len(L) /\ 0 \in 0..0
      /\ \A i \in 1..0 : FALSE
      /\ \A n \in 1..Len(L) : ~(n > Len(L))
    OBVIOUS
<1> QED
    BY <1>1, Zenon DEF Due

\* Subscribe with a replay: all that the client missed and that concerns it.
LEMMA DueReplay ==
    ASSUME HubInv, NEW c \in Client, NEW after \in 0..LatestID, ~Gap(after), NEW from \in Nat
    PROVE  Due(c, log, Replay(c, after), after, Len(log), Len(Replay(c, after)), from, TRUE)
<1> DEFINE places == {i \in 1..Len(history) : Replayable(c, after, history[i])}
<1>1. /\ Len(log) \in Nat /\ Len(history) \in Nat /\ log \in Seq(Message)
      /\ history \in Seq(Frame) /\ LatestID = Len(log) /\ HistoryIsTail
      /\ Dropped \in Nat /\ Dropped = Len(log) - Len(history)
    BY DEF HubInv, HubTypeOK, LatestID, HistoryIsTail, Dropped
<1>0. PICK q : q = InOrder(places)
    BY Zenon
<1>2. PICK len \in Nat :
         /\ q = InOrder(places) /\ q \in [1..len -> places]
         /\ \A i, j \in 1..len : i < j => q[i] < q[j]
         /\ \A s \in places : \E i \in 1..len : q[i] = s
  <2>1. places \in SUBSET (1..Len(history))
      OBVIOUS
  <2> HIDE DEF places
  <2>2. PICK n \in Nat : q \in [1..n -> places] /\ Lists(q, places)
      BY <1>0, <1>1, <2>1, InOrderFacts, Zenon
  <2>3. DOMAIN q = 1..n
      BY <2>2, Zenon
  <2> QED
      BY <1>0, <2>2, <2>3, ZenonT(30) DEF Lists
<1>3. PICK ev : ev = [i \in 1..len |-> Event(history[q[i]].id)]
    BY Zenon
<1>4. ev = Replay(c, after)
  <2>1. DOMAIN q = 1..len
      BY <1>2, Zenon
  <2> QED
      BY <1>2, <1>3, <2>1, Zenon DEF Replay
<1>5. \A i \in 1..len : /\ q[i] \in 1..Len(history) /\ history[q[i]].id = Dropped + q[i]
                        /\ Dropped + q[i] > after
  <2> SUFFICES ASSUME NEW i \in 1..len
               PROVE  /\ q[i] \in 1..Len(history) /\ history[q[i]].id = Dropped + q[i]
                      /\ Dropped + q[i] > after
      OBVIOUS
  <2>1. q[i] \in 1..Len(history) /\ history[q[i]].id > after
      BY <1>2, Zenon DEF Replayable
  <2>2. history[q[i]] = [id |-> Dropped + q[i], message |-> log[Dropped + q[i]]]
      BY <1>1, <2>1, Zenon DEF HistoryIsTail
  <2> QED
      BY <2>1, <2>2
<1>6. \A i \in 1..len : ev[i] \in Signal /\ ev[i].connected = FALSE /\ ev[i].id = Dropped + q[i]
  <2> SUFFICES ASSUME NEW i \in 1..len
               PROVE  ev[i] \in Signal /\ ev[i].connected = FALSE /\ ev[i].id = Dropped + q[i]
      BY Zenon
  <2>1. ev[i] = Event(history[q[i]].id)
      BY <1>3
  <2>2. history[q[i]].id = Dropped + q[i] /\ Dropped + q[i] \in Nat
      BY <1>1, <1>5, SMTT(30)
  <2> QED
      BY <2>1, <2>2, EventFacts, Zenon
<1>7. ev \in Seq(Signal) /\ Len(ev) = len
  <2>1. ev \in [1..len -> Signal]
      BY <1>3, <1>6
  <2> QED
      BY <1>2, <2>1
<1>8. \A i \in 1..Len(ev) : ev[i].connected = FALSE /\ ev[i].id \in (after + 1)..Len(log)
  <2> SUFFICES ASSUME NEW i \in 1..len
               PROVE  ev[i].connected = FALSE /\ ev[i].id \in (after + 1)..Len(log)
      BY <1>7, Zenon
  <2>1. /\ q[i] \in 1..Len(history) /\ Dropped + q[i] > after
        /\ ev[i].connected = FALSE /\ ev[i].id = Dropped + q[i]
      BY <1>5, <1>6, Zenon
  <2>2. Dropped + q[i] \in (after + 1)..Len(log)
      BY <1>1, <2>1
  <2> QED
      BY <2>1, <2>2, Zenon
<1>9. \A i, j \in 1..Len(ev) : i < j => ev[i].id < ev[j].id
  <2> SUFFICES ASSUME NEW i \in 1..len, NEW j \in 1..len, i < j
               PROVE  ev[i].id < ev[j].id
      BY <1>7, Zenon
  <2>1. q[i] < q[j] /\ q[i] \in 1..Len(history) /\ q[j] \in 1..Len(history)
      BY <1>2, <1>5, Zenon
  <2>2. Dropped + q[i] < Dropped + q[j]
      BY <1>1, <2>1
  <2> QED
      BY <1>6, <2>2, Zenon
<1>10. \A i \in 1..Len(ev) : i <= Len(ev) <=> ev[i].id <= Len(log)
    BY <1>1, <1>7, <1>8
<1>11. ASSUME NEW n \in 1..Len(log), Concerns(c, log[n]), n > after
       PROVE  \E i \in 1..Len(ev) : ev[i].id = n
  <2>1. n \in (after + 1)..LatestID
      BY <1>1, <1>11
  <2>2. PICK j \in 1..Len(history) : history[j] = [id |-> n, message |-> log[n]]
      BY <2>1, HistorySuffices, Zenon DEF NoGapNoLoss
  <2>3. j \in places
      BY <1>11, <2>2 DEF Replayable
  <2>4. PICK i \in 1..len : q[i] = j
      BY <1>2, <2>3, Zenon
  <2>5. ev[i].id = history[j].id
      BY <1>5, <1>6, <2>4
  <2>6. history[j].id = n
      BY <2>2
  <2>7. i \in 1..Len(ev)
      BY <1>7, <2>4, Zenon
  <2> QED
      BY <2>5, <2>6, <2>7, Zenon
<1>12. /\ after \in Nat /\ Len(log) \in 0..Len(log) /\ Len(ev) \in 0..Len(ev)
    BY <1>1, <1>2, <1>7
<1>13. Due(c, log, ev, after, Len(log), Len(ev), from, TRUE)
    BY <1>1, <1>7, <1>8, <1>9, <1>10, <1>11, <1>12, Zenon DEF Due
<1> QED
    BY <1>4, <1>13, Zenon

-----------------------------------------------------------------------------
(* The steps. *)

\* The fields of a client's records, and what an absent connection holds.
LEMMA SafeFields ==
    ASSUME NEW c, NEW L \in Seq(Message), NEW cn, NEW s, NEW k, Safe(c, L, cn, s, k)
    PROVE  /\ cn.up \in BOOLEAN /\ cn.listed \in BOOLEAN /\ cn.room \in Nat
           /\ cn.queue \in Seq(Signal) /\ cn.wire \in Seq(Signal)
           /\ s.resuming \in BOOLEAN /\ s.connected \in BOOLEAN /\ s.failed = FALSE
           /\ s.lastID \in Nat /\ s.latest \in Nat /\ s.replay \in Nat
           /\ k.base \in Nat /\ k.taken \in SUBSET Nat
           /\ Len(L) \in Nat /\ s.lastID <= Len(L) /\ k.base <= Len(L)
           /\ cn.queue # <<>> \/ cn.wire # <<>> => cn.up = TRUE
<1>1. /\ cn \in Conn /\ s \in Stream /\ k \in Known
      /\ s.failed = FALSE /\ s.lastID <= Len(L) /\ k.base <= Len(L)
      /\ cn.up = FALSE => cn = NoConn
    BY Zenon DEF Safe
<1>2. /\ cn.up \in BOOLEAN /\ cn.listed \in BOOLEAN /\ cn.room \in Nat
      /\ cn.queue \in Seq(Signal) /\ cn.wire \in Seq(Signal)
    BY <1>1 DEF Conn
<1>3. /\ s.resuming \in BOOLEAN /\ s.connected \in BOOLEAN
      /\ s.lastID \in Nat /\ s.latest \in Nat /\ s.replay \in Nat
    BY <1>1 DEF Stream
<1>4. k.base \in Nat /\ k.taken \in SUBSET Nat
    BY <1>1 DEF Known
<1>5. NoConn.queue = <<>> /\ NoConn.wire = <<>>
    BY DEF NoConn
<1> QED
    BY <1>1, <1>2, <1>3, <1>4, <1>5, SMTT(30)

\* The fields of a signal.
LEMMA SignalFields ==
    ASSUME NEW sig \in Signal
    PROVE  sig.connected \in BOOLEAN /\ sig.id \in Nat /\ sig.count \in Nat /\ sig.gap \in BOOLEAN
    BY DEF Signal

\* End: a client without a connection is owed nothing.
LEMMA EndSafe ==
    ASSUME NEW c, NEW L \in Seq(Message), NEW cn, NEW s, NEW k, Safe(c, L, cn, s, k)
    PROVE  Safe(c, L, NoConn, s, k)
<1>1. NoConn \in Conn /\ NoConn.up = FALSE
    BY DEF NoConn, Conn
<1> QED
    BY <1>1, Zenon DEF Safe

\* handleRealtimeWS passes a frame on: what is under way stays the same.
LEMMA ForwardSafe ==
    ASSUME NEW c, NEW L \in Seq(Message), NEW cn, NEW s, NEW k, Safe(c, L, cn, s, k),
           cn.queue # <<>>,
           NEW x, x = [cn EXCEPT !.queue = Tail(cn.queue),
                                 !.wire = Append(cn.wire, Head(cn.queue))]
    PROVE  Safe(c, L, x, s, k)
<1>1. /\ cn \in Conn /\ cn.up = TRUE /\ cn.queue \in Seq(Signal) /\ cn.wire \in Seq(Signal)
      /\ s.connected \in BOOLEAN
    BY SafeFields, ZenonT(30) DEF Safe
<1>2. /\ Head(cn.queue) \in Signal /\ Tail(cn.queue) \in Seq(Signal)
      /\ Append(cn.wire, Head(cn.queue)) \in Seq(Signal)
      /\ Append(cn.wire, Head(cn.queue)) # <<>>
    BY <1>1, HeadAndTail, Appended
<1>3. /\ x \in Conn /\ x.up = cn.up /\ x.listed = cn.listed
      /\ x.queue = Tail(cn.queue) /\ x.wire = Append(cn.wire, Head(cn.queue))
    BY <1>1, <1>2, Zenon DEF Conn
<1>4. CASE s.connected = FALSE
  <2>1. Greeting(c, L, cn, s, k)
      BY <1>1, <1>4, Zenon DEF Safe
  <2>2. cn.wire # <<>>
      BY <2>1, Zenon DEF Greeting
  <2>3. PICK t \in Seq(Signal) : t = Tail(cn.wire)
      BY <1>1, <2>2, HeadAndTail, Zenon
  <2>4. Head(x.wire) = Head(cn.wire) /\ Tail(x.wire) = Append(t, Head(cn.queue))
      BY <1>1, <1>2, <1>3, <2>2, <2>3, HeadAndTail, FirstOfAppended, SMTT(30)
  <2>5. Tail(x.wire) \o x.queue = Tail(cn.wire) \o cn.queue
    <3>1. Append(t, Head(cn.queue)) \o Tail(cn.queue) = t \o cn.queue
        BY <1>1, Passing, Zenon
    <3> QED
        BY <1>3, <2>3, <2>4, <3>1, Zenon
  <2>6. Greeting(c, L, x, s, k)
      BY <1>2, <1>3, <2>1, <2>4, <2>5, Zenon DEF Greeting
  <2> QED
      BY <1>1, <1>3, <1>4, <2>6, Zenon DEF Safe
<1>5. CASE s.connected = TRUE
  <2>1. Following(c, L, cn, s, k)
      BY <1>1, <1>5, Zenon DEF Safe
  <2>2. x.wire \o x.queue = cn.wire \o cn.queue
    <3>1. Append(cn.wire, Head(cn.queue)) \o Tail(cn.queue) = cn.wire \o cn.queue
        BY <1>1, Passing, Zenon
    <3> QED
        BY <1>3, <3>1, Zenon
  <2>3. Following(c, L, x, s, k)
      BY <1>3, <2>1, <2>2, Zenon DEF Following
  <2> QED
      BY <1>1, <1>3, <1>5, <2>3, Zenon DEF Safe
<1> QED
    BY <1>1, <1>4, <1>5, Zenon

\* What a client knows after the connection frame: all anew after a gap.
Restarted(k, sig) == IF sig.gap THEN [base |-> sig.id, taken |-> {}] ELSE k

\* The first frame of a connection is the connection frame, and is accepted.
LEMMA GreetedSafe ==
    ASSUME NEW c, NEW L \in Seq(Message), NEW cn, NEW s, NEW k, Safe(c, L, cn, s, k),
           cn.wire # <<>>, s.connected = FALSE,
           NEW sig, sig = Head(cn.wire)
    PROVE  /\ ~OutOfOrder(s, sig) /\ sig.connected = TRUE
           /\ Safe(c, L, [cn EXCEPT !.wire = Tail(cn.wire)], Greeted(s, sig), Restarted(k, sig))
<1>0. PICK x, l : x = [cn EXCEPT !.wire = Tail(cn.wire)] /\ l = Restarted(k, sig)
    BY Zenon
<1>1. /\ cn \in Conn /\ cn.up = TRUE /\ cn.queue \in Seq(Signal) /\ cn.wire \in Seq(Signal)
      /\ s \in Stream /\ k \in Known /\ s.resuming \in BOOLEAN
      /\ s.lastID \in Nat /\ k.base \in Nat /\ Len(L) \in Nat /\ k.base <= Len(L)
      /\ s.resuming = TRUE /\ s.failed = FALSE /\ Told(c, L, s.lastID, k)
    BY SafeFields, ZenonT(30) DEF Safe
<1>2. /\ sig.connected = TRUE
      /\ sig.gap = TRUE => sig.count = 0
      /\ s.lastID <= sig.id
    BY <1>1, Zenon DEF Safe, Greeting
<1>3. PICK from : from = IF sig.gap = TRUE THEN sig.id ELSE k.base
    OBVIOUS
<1>4. PICK ev : ev = Tail(cn.wire) \o cn.queue
    BY Zenon
<1>5. Due(c, L, ev, s.lastID, sig.id, sig.count, from, cn.listed)
    BY <1>1, <1>3, <1>4, Zenon DEF Safe, Greeting
<1>6. sig \in Signal /\ Tail(cn.wire) \in Seq(Signal)
    BY <1>1, HeadAndTail, Zenon
<1>7. sig.id \in Nat /\ sig.count \in Nat /\ sig.gap \in BOOLEAN
    BY <1>6, SignalFields, Zenon
<1>8. PICK next : next = IF sig.count = 0 THEN sig.id ELSE s.lastID
    OBVIOUS
<1>9. /\ Due(c, L, ev, next, sig.id, sig.count, from, cn.listed)
      /\ next \in Nat /\ next <= Len(L)
      /\ sig.count = 0 => next >= sig.id
      /\ \A n \in (from + 1)..next : n > s.lastID => ~Concerns(c, L[n])
  <2>1. PICK last, latest, left, listed :
            last = s.lastID /\ latest = sig.id /\ left = sig.count /\ listed = cn.listed
      OBVIOUS
  <2>2. /\ Due(c, L, ev, last, latest, left, from, listed)
        /\ last <= latest
        /\ left = 0 => next = latest
        /\ left # 0 => next = last
      BY <1>2, <1>5, <1>8, <2>1, Zenon
  <2>3. /\ Due(c, L, ev, next, latest, left, from, listed)
        /\ next \in Nat /\ next <= Len(L)
        /\ left = 0 => next >= latest
        /\ \A n \in (from + 1)..next : n > last => ~Concerns(c, L[n])
      BY <2>2, DueGreeted, ZenonT(30)
  <2> QED
      BY <2>1, <2>3, Zenon
<1>10. PICK g : g = Greeted(s, sig)
    BY Zenon
<1>11. /\ g \in Stream /\ g.failed = FALSE /\ g.resuming = TRUE /\ g.connected = TRUE
       /\ g.lastID = next /\ g.latest = sig.id /\ g.replay = sig.count
  <2>1. (IF sig.gap \/ sig.count = 0 THEN sig.id ELSE s.lastID) = next
    <3>1. CASE sig.gap = TRUE
        BY <1>2, <1>8, <3>1, Zenon
    <3>2. CASE sig.gap = FALSE
        BY <1>8, <3>2, Zenon
    <3> QED
        BY <1>7, <3>1, <3>2, Zenon
  <2>2. g = [s EXCEPT !.connected = TRUE, !.latest = sig.id, !.replay = sig.count,
                      !.lastID = next]
      BY <1>10, <2>1, Zenon DEF Greeted
  <2> QED
      BY <1>1, <1>7, <1>9, <2>2, Zenon DEF Stream
<1>12. /\ x \in Conn /\ x.up = TRUE /\ x.listed = cn.listed
       /\ x.queue = cn.queue /\ x.wire = Tail(cn.wire)
    BY <1>1, <1>6, <1>0, Zenon DEF Conn
<1>13. /\ l \in Known /\ l.base = from /\ from \in Nat /\ from <= Len(L)
       /\ sig.gap = FALSE => l = k
  <2>1. CASE sig.gap = TRUE
    <3>1. l = [base |-> sig.id, taken |-> {}] /\ from = sig.id
        BY <1>3, <1>0, <2>1 DEF Restarted
    <3>2. sig.id <= Len(L)
        BY <1>7, <1>1, <1>5, SMTT(30) DEF Due
    <3> QED
        BY <1>7, <2>1, <3>1, <3>2, Zenon DEF Known
  <2>2. CASE sig.gap = FALSE
      BY <1>1, <1>3, <1>0, <2>2, Zenon DEF Restarted
  <2> QED
      BY <1>7, <2>1, <2>2, Zenon
<1>14. Told(c, L, next, l)
  <2> SUFFICES ASSUME NEW n \in (from + 1)..next, Concerns(c, L[n]) PROVE n \in l.taken
      BY <1>13, Zenon DEF Told
  <2>1. n <= s.lastID /\ n \in Nat /\ n > from
    <3>1. n \in Nat /\ n > from
        BY <1>9, <1>13, SMTT(30)
    <3>2. ~(n > s.lastID)
        BY <1>9, Zenon
    <3> QED
        BY <1>1, <3>1, <3>2, SMTT(30)
  <2>2. CASE sig.gap = TRUE
      BY <1>1, <1>2, <1>3, <1>7, <2>1, <2>2, SMTT(30)
  <2>3. CASE sig.gap = FALSE
    <3>1. l = k /\ from = k.base /\ n \in (k.base + 1)..s.lastID
        BY <1>1, <1>3, <1>13, <2>1, <2>3, SMTT(30)
    <3> QED
        BY <1>1, <3>1, Zenon DEF Told
  <2> QED
      BY <1>7, <2>2, <2>3, Zenon
<1>15. Following(c, L, x, g, l)
    BY <1>4, <1>9, <1>11, <1>12, <1>13, Zenon DEF Following
<1>16. Safe(c, L, x, g, l)
    BY <1>9, <1>11, <1>12, <1>13, <1>14, <1>15, Zenon DEF Safe
<1>17. ~OutOfOrder(s, sig)
    BY <1>2, Zenon DEF OutOfOrder
<1> QED
    BY <1>2, <1>10, <1>16, <1>17, <1>0, Zenon

\* An event is read in its order and taken.
LEMMA TakenSafe ==
    ASSUME NEW c, NEW L \in Seq(Message), NEW cn, NEW s, NEW k, Safe(c, L, cn, s, k),
           cn.wire # <<>>, s.connected = TRUE,
           NEW sig, sig = Head(cn.wire)
    PROVE  /\ ~OutOfOrder(s, sig) /\ sig.connected = FALSE
           /\ Safe(c, L, [cn EXCEPT !.wire = Tail(cn.wire)], Advanced(s, sig.id),
                   [k EXCEPT !.taken = k.taken \cup {sig.id}])
<1>0. PICK x, l : /\ x = [cn EXCEPT !.wire = Tail(cn.wire)]
                  /\ l = [k EXCEPT !.taken = k.taken \cup {sig.id}]
    BY Zenon
<1>1. /\ cn \in Conn /\ cn.up = TRUE /\ cn.queue \in Seq(Signal) /\ cn.wire \in Seq(Signal)
      /\ s \in Stream /\ k \in Known /\ s.resuming \in BOOLEAN
      /\ s.lastID \in Nat /\ s.latest \in Nat /\ s.replay \in Nat
      /\ k.base \in Nat /\ Len(L) \in Nat /\ k.base <= Len(L) /\ k.taken \in SUBSET Nat
      /\ s.resuming = TRUE /\ s.failed = FALSE /\ Told(c, L, s.lastID, k)
  <2>1. /\ cn.up = TRUE /\ cn.queue \in Seq(Signal) /\ cn.wire \in Seq(Signal)
        /\ s.resuming \in BOOLEAN
        /\ s.lastID \in Nat /\ s.latest \in Nat /\ s.replay \in Nat
        /\ k.base \in Nat /\ Len(L) \in Nat /\ k.base <= Len(L) /\ k.taken \in SUBSET Nat
      BY SafeFields, Zenon
  <2>2. /\ cn \in Conn /\ s \in Stream /\ k \in Known /\ s.failed = FALSE
        /\ Told(c, L, s.lastID, k)
        /\ s.resuming = FALSE => cn.up = FALSE
      BY Zenon DEF Safe
  <2>3. s.resuming = TRUE
      BY <2>1, <2>2, Zenon
  <2> QED
      BY <2>1, <2>2, <2>3, Zenon
<1>2. PICK ev : ev = cn.wire \o cn.queue
    BY Zenon
<1>3. /\ Due(c, L, ev, s.lastID, s.latest, s.replay, k.base, cn.listed)
      /\ s.replay = 0 => s.lastID >= s.latest
    BY <1>1, <1>2, Zenon DEF Safe, Following
<1>4. ev # <<>> /\ sig = ev[1] /\ Tail(cn.wire) \o cn.queue = Tail(ev)
    BY <1>1, <1>2, Reading, Zenon
<1>5. sig \in Signal /\ sig.id \in Nat /\ Tail(cn.wire) \in Seq(Signal)
    BY <1>1, HeadAndTail, SignalFields, Zenon
<1>6. PICK next : next = Reached(s.replay, s.latest, sig.id)
    BY Zenon
<1>7. PICK rest : rest = Remaining(s.replay)
    OBVIOUS
<1>8. /\ Due(c, L, Tail(ev), next, s.latest, rest, k.base, cn.listed)
      /\ next \in Nat /\ next <= Len(L) /\ sig.id > s.lastID /\ sig.connected = FALSE
      /\ rest \in Nat
      /\ rest = 0 => next >= s.latest
      /\ \A n \in (k.base + 1)..next : n > s.lastID /\ Concerns(c, L[n]) => n = sig.id
  <2>1. PICK last, latest, left, from, listed :
            /\ last = s.lastID /\ latest = s.latest /\ left = s.replay
            /\ from = k.base /\ listed = cn.listed
      BY Zenon
  <2>2. /\ Readable(c, L, ev, last, latest, left, from, listed)
        /\ next = Reached(left, latest, ev[1].id) /\ rest = Remaining(left)
      BY <1>3, <1>4, <1>6, <1>7, <2>1, Zenon DEF Arrived, Readable
  <2>3. /\ Due(c, L, Tail(ev), next, latest, rest, from, listed)
        /\ next \in Nat /\ next <= Len(L) /\ ev[1].id > last /\ ev[1].connected = FALSE
        /\ rest \in Nat /\ Arrived(rest, next, latest)
        /\ OneEvent(c, L, from, last, next, ev[1].id)
      BY <2>2, DueTaken, Zenon
  <2> QED
      BY <1>4, <2>1, <2>3, Zenon DEF Arrived, OneEvent
<1>9. PICK g : g = Advanced(s, sig.id)
    BY Zenon
<1>10. /\ g \in Stream /\ g.failed = FALSE /\ g.resuming = TRUE /\ g.connected = TRUE
       /\ g.lastID = next /\ g.latest = s.latest /\ g.replay = rest
  <2>1. g = [s EXCEPT !.replay = rest, !.lastID = next]
      BY <1>6, <1>7, <1>9, Zenon DEF Advanced, Reached, Remaining
  <2>2. rest \in Nat /\ next \in Nat
      BY <1>8, Zenon
  <2>3. s.connected = TRUE /\ s.resuming = TRUE /\ s.failed = FALSE
      BY <1>1, Zenon
  <2>4. g \in Stream /\ g.lastID = next /\ g.latest = s.latest /\ g.replay = rest
      BY <1>1, <2>1, <2>2, Zenon DEF Stream
  <2>5. g.failed = s.failed /\ g.resuming = s.resuming /\ g.connected = s.connected
      BY <1>1, <2>1, Zenon DEF Stream
  <2> QED
      BY <2>3, <2>4, <2>5, Zenon
<1>11. /\ x \in Conn /\ x.up = TRUE /\ x.listed = cn.listed
       /\ x.queue = cn.queue /\ x.wire = Tail(cn.wire)
    BY <1>1, <1>5, <1>0, Zenon DEF Conn
<1>12. l \in Known /\ l.base = k.base /\ l.taken = k.taken \cup {sig.id}
    BY <1>1, <1>5, <1>0, Zenon DEF Known
<1>13. Told(c, L, next, l)
  <2> SUFFICES ASSUME NEW n \in (k.base + 1)..next, Concerns(c, L[n]) PROVE n \in l.taken
      BY <1>12, Zenon DEF Told
  <2>1. CASE n > s.lastID
      BY <1>8, <1>12, <2>1, Zenon
  <2>2. CASE ~(n > s.lastID)
    <3>1. n \in (k.base + 1)..s.lastID
        BY <1>1, <1>8, <2>2, SMTT(30)
    <3> QED
        BY <1>1, <1>12, <3>1, Zenon DEF Told
  <2> QED
      BY <2>1, <2>2, Zenon
<1>14. Following(c, L, x, g, l)
  <2>1. x.wire \o x.queue = Tail(ev)
      BY <1>4, <1>11, Zenon
  <2>2. Due(c, L, x.wire \o x.queue, g.lastID, g.latest, g.replay, l.base, x.listed)
      BY <1>8, <1>10, <1>11, <1>12, <2>1, Zenon
  <2>3. g.replay = 0 => g.lastID >= g.latest
      BY <1>8, <1>10, Zenon
  <2> QED
      BY <2>2, <2>3, Zenon DEF Following
<1>15. Safe(c, L, x, g, l)
    BY <1>1, <1>8, <1>10, <1>11, <1>12, <1>13, <1>14, Zenon DEF Safe
<1>16. ~OutOfOrder(s, sig)
  <2>1. sig.id \in Nat /\ s.lastID \in Nat /\ sig.id > s.lastID /\ sig.connected = FALSE
      BY <1>1, <1>5, <1>8, Zenon
  <2>2. ~(sig.id <= s.lastID)
      BY <2>1
  <2> QED
      BY <2>1, <2>2, SMTT(30) DEF OutOfOrder
<1> QED
    BY <1>8, <1>9, <1>15, <1>16, <1>0, Zenon

\* What was told stays told when the hub goes on.
LEMMA ToldStays ==
    ASSUME NEW c, NEW L \in Seq(Message), NEW m \in Message, NEW last \in Nat, last <= Len(L),
           NEW k \in Known, Told(c, L, last, k)
    PROVE  Told(c, Append(L, m), last, k)
<1>1. Len(L) \in Nat /\ k.base \in Nat
    BY DEF Known
<1>2. \A n \in (k.base + 1)..last : Append(L, m)[n] = L[n]
    BY <1>1
<1> QED
    BY <1>2, Zenon DEF Told

\* Broadcast, for each client: it gets the frame, or is thrown out, or has no
\* part in it.
LEMMA SentSafe ==
    ASSUME NEW c, NEW L \in Seq(Message), NEW m \in Message, NEW cn, NEW s, NEW k,
           Safe(c, L, cn, s, k),
           NEW x, x = IF ~cn.listed \/ ~Concerns(c, m) THEN cn
                      ELSE IF Len(cn.queue) < cn.room
                      THEN [cn EXCEPT !.queue = Append(cn.queue, Event(Len(L) + 1))]
                      ELSE [cn EXCEPT !.listed = FALSE]
    PROVE  Safe(c, Append(L, m), x, s, k)
<1>1. /\ cn \in Conn /\ cn.queue \in Seq(Signal) /\ cn.wire \in Seq(Signal)
      /\ cn.up \in BOOLEAN /\ cn.listed \in BOOLEAN
      /\ s \in Stream /\ k \in Known /\ s.failed = FALSE
      /\ s.lastID \in Nat /\ s.lastID <= Len(L) /\ k.base \in Nat /\ k.base <= Len(L)
      /\ Len(L) \in Nat /\ s.connected \in BOOLEAN
      /\ s.resuming = FALSE => cn.up = FALSE /\ s.lastID = 0
      /\ cn.up = FALSE => cn = NoConn
      /\ Told(c, L, s.lastID, k)
    BY SafeFields, ZenonT(30) DEF Safe
<1>2. /\ Told(c, Append(L, m), s.lastID, k)
      /\ s.lastID <= Len(Append(L, m)) /\ k.base <= Len(Append(L, m))
    BY <1>1, ToldStays
<1>3. CASE cn.up = FALSE
  <2>1. x = cn
      BY <1>1, <1>3 DEF NoConn
  <2> QED
      BY <1>1, <1>2, <1>3, <2>1, Zenon DEF Safe
<1>4. CASE cn.up = TRUE
  <2>0. Event(Len(L) + 1) \in Signal
    <3>1. Len(L) + 1 \in Nat
        BY <1>1
    <3> QED
        BY <3>1, EventFacts, Zenon
  <2>1. /\ x \in Conn /\ x.up = TRUE /\ x.wire = cn.wire /\ x.listed \in BOOLEAN
        /\ \/ x.queue = cn.queue /\ (x.listed = TRUE => cn.listed = TRUE /\ ~Concerns(c, m))
           \/ x.queue = Append(cn.queue, Event(Len(L) + 1)) /\ x.listed = TRUE /\ cn.listed = TRUE
    <3>1. Append(cn.queue, Event(Len(L) + 1)) \in Seq(Signal)
        BY <1>1, <2>0, Appended, Zenon
    <3>2. CASE cn.listed = FALSE \/ ~Concerns(c, m)
      <4>1. x = cn
          BY <3>2, Zenon
      <4> QED
          BY <1>1, <1>4, <3>2, <4>1, Zenon
    <3>3. CASE cn.listed = TRUE /\ Concerns(c, m) /\ Len(cn.queue) < cn.room
      <4>1. x = [cn EXCEPT !.queue = Append(cn.queue, Event(Len(L) + 1))]
          BY <3>3, Zenon
      <4> QED
          BY <1>1, <1>4, <3>1, <3>3, <4>1, Zenon DEF Conn
    <3>4. CASE cn.listed = TRUE /\ Concerns(c, m) /\ ~(Len(cn.queue) < cn.room)
      <4>1. x = [cn EXCEPT !.listed = FALSE]
          BY <3>4, Zenon
      <4> QED
          BY <1>1, <1>4, <4>1, Zenon DEF Conn
    <3> QED
        BY <1>1, <3>2, <3>3, <3>4, Zenon
  <2>2. ASSUME NEW w \in Seq(Signal), NEW latest, NEW left, NEW from,
               Due(c, L, w \o cn.queue, s.lastID, latest, left, from, cn.listed)
        PROVE  Due(c, Append(L, m), w \o x.queue, s.lastID, latest, left, from, x.listed)
    <3>1. CASE x.queue = cn.queue /\ (x.listed = TRUE => cn.listed = TRUE /\ ~Concerns(c, m))
        BY <1>1, <2>1, <2>2, <3>1, DueUnsent, ZenonT(30)
    <3>2. CASE x.queue = Append(cn.queue, Event(Len(L) + 1)) /\ x.listed = TRUE /\ cn.listed = TRUE
      <4>1. w \o x.queue = Append(w \o cn.queue, Event(Len(L) + 1))
        <5>1. PICK q \in Seq(Signal) : q = cn.queue
            BY <1>1, Zenon
        <5>2. PICK e \in Signal : e = Event(Len(L) + 1)
            BY <2>0
        <5>3. w \o Append(q, e) = Append(w \o q, e)
            BY <2>2, <5>1, <5>2, Joining, SMTT(30)
        <5> QED
            BY <3>2, <5>1, <5>2, <5>3, Zenon
      <4> QED
          BY <1>1, <2>2, <3>2, <4>1, DueSent, ZenonT(30)
    <3> QED
        BY <2>1, <3>1, <3>2, Zenon
  <2>5. x.up # FALSE /\ s.resuming # FALSE
      BY <1>1, <1>4, <2>1, Zenon
  <2>3. CASE s.connected = FALSE
    <3>1. Greeting(c, L, cn, s, k)
        BY <1>4, <2>3, Zenon DEF Safe
    <3>2. Tail(cn.wire) \in Seq(Signal)
        BY <1>1, <3>1, HeadAndTail, Zenon DEF Greeting
    <3>3. Greeting(c, Append(L, m), x, s, k)
      <4>0. PICK hello : hello = Head(cn.wire)
          BY Zenon
      <4>1. PICK w \in Seq(Signal) : w = Tail(cn.wire) /\ hello = Head(cn.wire)
          BY <3>2, <4>0, Zenon
      <4>2. PICK from : from = IF hello.gap = TRUE THEN hello.id ELSE k.base
          OBVIOUS
      <4>3. Due(c, L, w \o cn.queue, s.lastID, hello.id, hello.count, from, cn.listed)
          BY <3>1, <4>1, <4>2, Zenon DEF Greeting
      <4>4. Due(c, Append(L, m), w \o x.queue, s.lastID, hello.id, hello.count, from, x.listed)
          BY <2>2, <4>3, Zenon
      <4> QED
          BY <2>1, <3>1, <4>1, <4>2, <4>4, Zenon DEF Greeting
    <3> QED
        BY <1>1, <1>2, <2>1, <2>3, <2>5, <3>3, Zenon DEF Safe
  <2>4. CASE s.connected = TRUE
    <3>1. Following(c, L, cn, s, k)
        BY <1>4, <2>4, Zenon DEF Safe
    <3>2. Following(c, Append(L, m), x, s, k)
        BY <1>1, <2>1, <2>2, <3>1, Zenon DEF Following
    <3> QED
        BY <1>1, <1>2, <2>1, <2>4, <2>5, <3>2, Zenon DEF Safe
  <2> QED
      BY <1>1, <2>3, <2>4, Zenon
<1> QED
    BY <1>1, <1>3, <1>4, Zenon

\* A step of one client and its connection.
LEMMA OneClient ==
    ASSUME StreamInv, NEW c \in Client, NEW x, NEW s, NEW k, Safe(c, log, x, s, k),
           UNCHANGED hubVars,
           conn' = [conn EXCEPT ![c] = x],
           stream' = [stream EXCEPT ![c] = s],
           known' = [known EXCEPT ![c] = k]
    PROVE  StreamInv'
<1>1. /\ conn \in [Client -> Conn] /\ stream \in [Client -> Stream] /\ known \in [Client -> Known]
      /\ x \in Conn /\ s \in Stream /\ k \in Known
    BY Zenon DEF StreamInv, Safe
<1>2. /\ conn' \in [Client -> Conn] /\ stream' \in [Client -> Stream]
      /\ known' \in [Client -> Known]
    BY <1>1
<1>3. log' = log /\ HubInv'
  <2>1. log' = log /\ history' = history /\ lastState' = lastState
      BY DEF hubVars
  <2> QED
      BY <2>1, Zenon DEF StreamInv, HubInv, HubTypeOK, HistoryIsTail, LastStateIsKept, Dropped
<1>4. ASSUME NEW d \in Client PROVE Safe(d, log', conn'[d], stream'[d], known'[d])
  <2>1. CASE d = c
    <3>1. conn'[c] = x /\ stream'[c] = s /\ known'[c] = k
        BY <1>1, Zenon
    <3> QED
        BY <1>3, <2>1, <3>1, Zenon
  <2>2. CASE d # c
    <3>1. conn'[d] = conn[d] /\ stream'[d] = stream[d] /\ known'[d] = known[d]
        BY <1>1, <2>2, Zenon
    <3> QED
        BY <1>3, <3>1, Zenon DEF StreamInv, Clients
  <2> QED
      BY <2>1, <2>2
<1> QED
    BY <1>2, <1>3, <1>4, Zenon DEF StreamInv, Clients

\* What a client's step starts from.
LEMMA ClientFacts ==
    ASSUME StreamInv, NEW c \in Client
    PROVE  /\ Safe(c, log, conn[c], stream[c], known[c]) /\ log \in Seq(Message)
           /\ conn = [conn EXCEPT ![c] = conn[c]]
           /\ stream = [stream EXCEPT ![c] = stream[c]]
           /\ known = [known EXCEPT ![c] = known[c]]
<1>1. conn \in [Client -> Conn] /\ stream \in [Client -> Stream] /\ known \in [Client -> Known]
    BY DEF StreamInv
<1> QED
    BY <1>1, Zenon DEF StreamInv, Clients, HubInv, HubTypeOK

\* What Open makes of the stream s of a client that knows j.
Opening(c, s, j, gap, replay, hello, x, t, k) ==
    /\ gap = (s.resuming /\ Gap(s.lastID))
    /\ replay = IF s.resuming /\ ~gap THEN Replay(c, s.lastID) ELSE <<>>
    /\ hello = [connected |-> TRUE, id |-> LatestID, count |-> Len(replay), gap |-> gap]
    /\ x = [up |-> TRUE, listed |-> TRUE, room |-> Buffer + Len(replay),
            queue |-> replay, wire |-> <<hello>>]
    /\ t = [s EXCEPT !.resuming = TRUE, !.connected = FALSE]
    /\ k = IF s.resuming THEN j ELSE [base |-> LatestID, taken |-> {}]

\* Subscribe and the connection frame, for a client that is not connected: what
\* it then has under way is what it missed, or the notice of a gap.
LEMMA OpenedSafe ==
    ASSUME HubInv, NEW c \in Client, NEW cn, NEW s, NEW j, Safe(c, log, cn, s, j),
           NEW gap, NEW replay, NEW hello, NEW x, NEW t, NEW k,
           Opening(c, s, j, gap, replay, hello, x, t, k)
    PROVE  Safe(c, log, x, t, k)
<1>2. gap = (s.resuming /\ Gap(s.lastID))
    BY Zenon DEF Opening
<1>3. replay = IF s.resuming /\ ~gap THEN Replay(c, s.lastID) ELSE <<>>
    BY Zenon DEF Opening
<1>4. hello = [connected |-> TRUE, id |-> LatestID, count |-> Len(replay), gap |-> gap]
    BY Zenon DEF Opening
<1>5. x = [up |-> TRUE, listed |-> TRUE, room |-> Buffer + Len(replay),
           queue |-> replay, wire |-> <<hello>>]
    BY Zenon DEF Opening
<1>6. t = [s EXCEPT !.resuming = TRUE, !.connected = FALSE]
    BY Zenon DEF Opening
<1>7. k = IF s.resuming THEN j ELSE [base |-> LatestID, taken |-> {}]
    BY Zenon DEF Opening
<1>10. log \in Seq(Message) /\ LatestID = Len(log) /\ Len(log) \in Nat
    BY DEF LatestID, HubInv, HubTypeOK
<1>11. /\ s \in Stream /\ s.resuming \in BOOLEAN /\ s.lastID \in Nat /\ s.lastID <= Len(log)
       /\ s.failed = FALSE /\ j \in Known /\ j.base \in Nat /\ j.base <= Len(log)
       /\ s.resuming = FALSE => s.lastID = 0
       /\ Told(c, log, s.lastID, j)
    BY <1>10, SafeFields, Zenon DEF Safe
<1>12. PICK from : from = IF gap = TRUE THEN LatestID ELSE k.base
    BY Zenon
<1>13. /\ gap \in BOOLEAN
       /\ s.resuming = FALSE => gap = FALSE
    BY <1>2, <1>11, Zenon
<1>14. k \in Known /\ k.base \in Nat /\ k.base <= Len(log) /\ from \in Nat
  <2>1. CASE s.resuming = TRUE
    <3>1. k = j
        BY <1>7, <2>1, Zenon
    <3>2. k \in Known /\ k.base \in Nat /\ k.base <= Len(log)
        BY <1>11, <3>1, Zenon
    <3>3. from = LatestID \/ from = k.base
        BY <1>12, Zenon
    <3> QED
        BY <1>10, <3>2, <3>3, Zenon
  <2>2. CASE s.resuming = FALSE
    <3>1. k = [base |-> LatestID, taken |-> {}]
        BY <1>7, <2>2, Zenon
    <3> QED
        BY <1>10, <1>12, <3>1, SMTT(30) DEF Known
  <2> QED
      BY <1>11, <2>1, <2>2, Zenon
<1>15. /\ Due(c, log, replay, s.lastID, Len(log), Len(replay), from, TRUE)
       /\ gap = TRUE => Len(replay) = 0
  <2>1. CASE s.resuming = TRUE /\ gap = FALSE
    <3>1. replay = Replay(c, s.lastID) /\ ~Gap(s.lastID) /\ s.lastID \in 0..LatestID
        BY <1>2, <1>3, <1>10, <1>11, <2>1, SMTT(30)
    <3> QED
        BY <1>14, <2>1, <3>1, DueReplay, Zenon
  <2>2. CASE s.resuming = FALSE \/ gap = TRUE
    <3>1. replay = <<>> /\ Len(replay) = 0
        BY <1>3, <2>2, Zenon
    <3>2. from = Len(log)
        BY <1>7, <1>10, <1>12, <1>13, <2>2, Zenon
    <3> QED
        BY <1>10, <1>11, <3>1, <3>2, DueAtOnce, Zenon
  <2>3. gap \in BOOLEAN /\ s.resuming \in BOOLEAN
      BY <1>11, <1>13, Zenon
  <2>4. (s.resuming = TRUE /\ gap = FALSE) \/ s.resuming = FALSE \/ gap = TRUE
      BY <2>3, Zenon
  <2> QED
      BY <2>1, <2>2, <2>4, Zenon
<1>16. replay \in Seq(Signal) /\ Len(replay) \in Nat
    BY <1>15, SMTT(30) DEF Due
<1>17. /\ hello \in Signal /\ hello.connected = TRUE /\ hello.id = Len(log)
       /\ hello.count = Len(replay) /\ hello.gap = gap
  <2>1. LatestID \in Nat
      BY <1>10, Zenon
  <2>2. hello \in Signal
      BY <1>4, <1>13, <1>16, <2>1 DEF Signal
  <2> QED
      BY <1>4, <1>10, <2>2, Zenon
<1>18. /\ x \in Conn /\ x.up = TRUE /\ x.listed = TRUE /\ x.queue = replay /\ x.wire = <<hello>>
    BY <1>5, <1>16, <1>17, HubAssumption, SMTT(30) DEF Conn
<1>19. /\ t \in Stream /\ t.resuming = TRUE /\ t.connected = FALSE /\ t.failed = FALSE
       /\ t.lastID = s.lastID
    BY <1>6, <1>11, Zenon DEF Stream
<1>20. /\ x.wire # <<>> /\ Head(x.wire) = hello
       /\ Tail(x.wire) \o x.queue = replay
  <2>1. x.wire # <<>> /\ Head(x.wire) = hello /\ Tail(x.wire) = <<>>
      BY <1>17, <1>18, SMTT(30)
  <2> QED
      BY <1>16, <1>18, <2>1, NothingJoined, Zenon
<1>21. Greeting(c, log, x, t, k)
  <2>1. (IF hello.gap = TRUE THEN hello.id ELSE k.base) = from
      BY <1>10, <1>12, <1>17, ZenonT(30)
  <2> QED
      BY <1>11, <1>15, <1>17, <1>18, <1>19, <1>20, <2>1, Zenon DEF Greeting
<1>22. Told(c, log, s.lastID, k)
  <2>1. CASE s.resuming = TRUE
      BY <1>7, <1>11, <2>1, Zenon
  <2>2. CASE s.resuming = FALSE
    <3>0. s.lastID = 0 /\ k.base \in Nat
        BY <1>11, <1>14, <2>2, Zenon
    <3>1. \A n \in (k.base + 1)..s.lastID : FALSE
        BY <3>0
    <3> QED
        BY <3>1, Zenon DEF Told
  <2> QED
      BY <1>11, <2>1, <2>2, Zenon
<1> QED
    BY <1>11, <1>14, <1>18, <1>19, <1>21, <1>22, Zenon DEF Safe

\* OpenJobEvents and Subscribe.
LEMMA OpenKeeps ==
    ASSUME StreamInv, NEW c \in Client, Open(c)
    PROVE  StreamInv'
<1>1. PICK s : s = stream[c]
    BY Zenon
<1>2. PICK gap : gap = (s.resuming /\ Gap(s.lastID))
    OBVIOUS
<1>3. PICK replay : replay = IF s.resuming /\ ~gap THEN Replay(c, s.lastID) ELSE <<>>
    OBVIOUS
<1>4. PICK hello : hello = [connected |-> TRUE, id |-> LatestID, count |-> Len(replay), gap |-> gap]
    BY Zenon
<1>5. PICK x : x = [up |-> TRUE, listed |-> TRUE, room |-> Buffer + Len(replay),
                    queue |-> replay, wire |-> <<hello>>]
    BY Zenon
<1>6. PICK t : t = [s EXCEPT !.resuming = TRUE, !.connected = FALSE]
    OBVIOUS
<1>7. PICK k : k = IF s.resuming THEN known[c] ELSE [base |-> LatestID, taken |-> {}]
    BY Zenon
<1>8. /\ conn' = [conn EXCEPT ![c] = x] /\ UNCHANGED hubVars
      /\ stream' = [stream EXCEPT ![c] = t]
  <2>1. conn' = [conn EXCEPT ![c] = x]
      BY <1>1, <1>2, <1>3, <1>4, <1>5, Zenon DEF Open
  <2> QED
      BY <1>1, <1>6, <2>1, Zenon DEF Open
<1>9. known' = [known EXCEPT ![c] = k]
    BY <1>1, <1>7, ClientFacts, Zenon DEF Open
<1>10. Safe(c, log, conn[c], s, known[c]) /\ HubInv
    BY <1>1, ClientFacts, Zenon DEF StreamInv
<1>11. PICK j : j = known[c]
    BY Zenon
<1>12. Opening(c, s, j, gap, replay, hello, x, t, k)
    BY <1>2, <1>3, <1>4, <1>5, <1>6, <1>7, <1>11, Zenon DEF Opening
<1>13. Safe(c, log, x, t, k)
    BY <1>10, <1>11, <1>12, OpenedSafe, Zenon
<1> QED
    BY <1>8, <1>9, <1>13, OneClient, Zenon

\* The handler passes a frame on.
LEMMA ForwardKeeps ==
    ASSUME StreamInv, NEW c \in Client, Forward(c)
    PROVE  StreamInv'
<1>1. PICK x : x = [conn[c] EXCEPT !.queue = Tail(conn[c].queue),
                                   !.wire = Append(conn[c].wire, Head(conn[c].queue))]
    OBVIOUS
<1>2. /\ conn' = [conn EXCEPT ![c] = x] /\ conn[c].queue # <<>>
      /\ UNCHANGED hubVars /\ stream' = stream /\ known' = known
    BY <1>1, Zenon DEF Forward
<1>3. Safe(c, log, x, stream[c], known[c])
    BY <1>1, <1>2, ClientFacts, ForwardSafe, Zenon
<1>4. PICK s, k : s = stream[c] /\ k = known[c]
    BY Zenon
<1>5. /\ stream' = [stream EXCEPT ![c] = s] /\ known' = [known EXCEPT ![c] = k]
      /\ Safe(c, log, x, s, k)
    BY <1>2, <1>3, <1>4, ClientFacts, Zenon
<1> QED
    BY <1>2, <1>5, OneClient, ZenonT(30)

\* The connection ends.
LEMMA EndKeeps ==
    ASSUME StreamInv, NEW c \in Client, End(c)
    PROVE  StreamInv'
<1>1. /\ conn' = [conn EXCEPT ![c] = NoConn]
      /\ UNCHANGED hubVars /\ stream' = stream /\ known' = known
    BY Zenon DEF End
<1>2. Safe(c, log, NoConn, stream[c], known[c])
    BY ClientFacts, EndSafe
<1>3. PICK s, k : s = stream[c] /\ k = known[c]
    OBVIOUS
<1>4. /\ stream' = [stream EXCEPT ![c] = s] /\ known' = [known EXCEPT ![c] = k]
      /\ Safe(c, log, NoConn, s, k)
    BY <1>1, <1>2, <1>3, ClientFacts, Zenon
<1> QED
    BY <1>1, <1>4, OneClient, Zenon

\* The client reads.
LEMMA ReadKeeps ==
    ASSUME StreamInv, NEW c \in Client, Read(c)
    PROVE  StreamInv'
<1>1. PICK cn, s, k : cn = conn[c] /\ s = stream[c] /\ k = known[c]
    BY Zenon
<1>2. PICK sig : sig = Head(cn.wire)
    OBVIOUS
<1>3. PICK x : x = [cn EXCEPT !.wire = Tail(cn.wire)]
    BY Zenon
<1>4. /\ Safe(c, log, cn, s, k) /\ log \in Seq(Message) /\ cn.wire # <<>>
      /\ UNCHANGED hubVars
    BY <1>1, ClientFacts, Zenon DEF Read
<1>5. s.connected \in BOOLEAN
    BY <1>4, SafeFields, Zenon
<1>6. ASSUME ~OutOfOrder(s, sig)
      PROVE  /\ stream' = [stream EXCEPT ![c] =
                    IF sig.connected THEN Greeted(s, sig) ELSE Advanced(s, sig.id)]
             /\ conn' = [conn EXCEPT ![c] = x]
             /\ known' = [known EXCEPT ![c] =
                    IF ~sig.connected THEN [k EXCEPT !.taken = k.taken \cup {sig.id}]
                    ELSE IF sig.gap THEN [base |-> sig.id, taken |-> {}] ELSE k]
    BY <1>2, <1>1, <1>3, <1>6, Zenon DEF Read
<1>7. CASE s.connected = FALSE
  <2>1. PICK l : l = Restarted(k, sig)
      OBVIOUS
  <2>2. ~OutOfOrder(s, sig) /\ sig.connected = TRUE /\ Safe(c, log, x, Greeted(s, sig), l)
    <3>2. PICK L \in Seq(Message) : L = log
        BY <1>4, Zenon
    <3>3. /\ Safe(c, L, cn, s, k) /\ cn.wire # <<>> /\ s.connected = FALSE
          /\ sig = Head(cn.wire)
        BY <1>2, <1>4, <1>7, <3>2, Zenon
    <3>4. /\ ~OutOfOrder(s, sig) /\ sig.connected = TRUE
          /\ Safe(c, L, [cn EXCEPT !.wire = Tail(cn.wire)], Greeted(s, sig), Restarted(k, sig))
        BY <3>3, GreetedSafe, Zenon
    <3> QED
        BY <1>3, <2>1, <3>2, <3>4, Zenon
  <2>3. /\ stream' = [stream EXCEPT ![c] = Greeted(s, sig)]
        /\ conn' = [conn EXCEPT ![c] = x]
        /\ known' = [known EXCEPT ![c] = l]
      BY <1>6, <2>1, <2>2 DEF Restarted
  <2> QED
      BY <1>4, <2>2, <2>3, OneClient, Zenon
<1>8. CASE s.connected = TRUE
  <2>1. PICK l : l = [k EXCEPT !.taken = k.taken \cup {sig.id}]
      BY Zenon
  <2>2. ~OutOfOrder(s, sig) /\ sig.connected = FALSE /\ Safe(c, log, x, Advanced(s, sig.id), l)
    <3>2. PICK L \in Seq(Message) : L = log
        BY <1>4, Zenon
    <3>3. /\ Safe(c, L, cn, s, k) /\ cn.wire # <<>> /\ s.connected = TRUE
          /\ sig = Head(cn.wire)
        BY <1>2, <1>4, <1>8, <3>2, Zenon
    <3>4. /\ ~OutOfOrder(s, sig) /\ sig.connected = FALSE
          /\ Safe(c, L, [cn EXCEPT !.wire = Tail(cn.wire)], Advanced(s, sig.id),
                  [k EXCEPT !.taken = k.taken \cup {sig.id}])
        BY <3>3, TakenSafe, Zenon
    <3> QED
        BY <1>3, <2>1, <3>2, <3>4, Zenon
  <2>3. /\ stream' = [stream EXCEPT ![c] = Advanced(s, sig.id)]
        /\ conn' = [conn EXCEPT ![c] = x]
        /\ known' = [known EXCEPT ![c] = l]
      BY <1>6, <2>1, <2>2, Zenon
  <2> QED
      BY <1>4, <2>2, <2>3, OneClient, Zenon
<1> QED
    BY <1>5, <1>7, <1>8, Zenon

\* RealtimeHub.Broadcast.
LEMMA BroadcastKeeps ==
    ASSUME StreamInv, NEW m \in Message, Broadcast(m)
    PROVE  StreamInv'
<1>1. /\ log' = Append(log, m) /\ stream' = stream /\ known' = known
      /\ conn' = [c \in Client |-> Sent(c, m)]
    BY Zenon DEF Broadcast
<1>2. HubInv'
    BY BroadcastKeepsHub DEF StreamInv
<1>3. ASSUME NEW c \in Client PROVE Safe(c, log', conn'[c], stream'[c], known'[c])
  <2>1. conn'[c] = Sent(c, m)
      BY <1>1
  <2>2. conn'[c] = IF ~conn[c].listed \/ ~Concerns(c, m) THEN conn[c]
                   ELSE IF Len(conn[c].queue) < conn[c].room
                   THEN [conn[c] EXCEPT !.queue = Append(conn[c].queue, Event(Len(log) + 1))]
                   ELSE [conn[c] EXCEPT !.listed = FALSE]
      BY <2>1, Zenon DEF Sent, LatestID
  <2>3. Safe(c, Append(log, m), conn'[c], stream[c], known[c])
      BY <2>2, ClientFacts, SentSafe, Zenon
  <2> QED
      BY <1>1, <2>3
<1>4. conn' \in [Client -> Conn]
  <2>1. \A c \in Client : conn'[c] \in Conn
      BY <1>3, Zenon DEF Safe
  <2> QED
      BY <1>1, <2>1
<1> QED
    BY <1>1, <1>2, <1>3, <1>4, Zenon DEF StreamInv, Clients

\* At first nobody is connected.
LEMMA StreamStarts == StreamInit => StreamInv
<1> SUFFICES ASSUME StreamInit PROVE StreamInv
    OBVIOUS
<1> DEFINE s == [resuming |-> FALSE, connected |-> FALSE, failed |-> FALSE,
                 lastID |-> 0, latest |-> 0, replay |-> 0]
           k == [base |-> 0, taken |-> {}]
<1>1. NoConn \in Conn /\ NoConn.up = FALSE
    BY DEF NoConn, Conn
<1>2. s \in Stream /\ k \in Known
    BY DEF Stream, Known
<1>3. /\ conn = [c \in Client |-> NoConn] /\ stream = [c \in Client |-> s]
      /\ known = [c \in Client |-> k] /\ log = <<>> /\ HubInv
    BY HubStarts, Zenon DEF StreamInit, HubInit
<1>4. ASSUME NEW c \in Client PROVE Safe(c, log, NoConn, s, k)
  <2>1. /\ s.failed = FALSE /\ s.resuming = FALSE /\ s.lastID = 0 /\ s.lastID <= Len(log)
        /\ k.base <= Len(log) /\ \A n \in (k.base + 1)..s.lastID : FALSE
      BY <1>3
  <2> HIDE DEF s, k
  <2> QED
      BY <1>1, <1>2, <2>1, Zenon DEF Safe, Told
<1> HIDE DEF s, k
<1> QED
    BY <1>1, <1>2, <1>3, <1>4 DEF StreamInv, Clients

\* The inductive invariant of hub, connections and clients.
THEOREM StreamInductive == StreamSpec => []StreamInv
<1>1. StreamInv /\ [StreamNext]_streamVars => StreamInv'
  <2> SUFFICES ASSUME StreamInv, [StreamNext]_streamVars PROVE StreamInv'
      OBVIOUS
  <2>1. CASE StreamNext
      BY <2>1, BroadcastKeeps, OpenKeeps, ForwardKeeps, ReadKeeps, EndKeeps, Zenon DEF StreamNext
  <2>2. CASE UNCHANGED streamVars
    <3>1. /\ log' = log /\ history' = history /\ lastState' = lastState
          /\ conn' = conn /\ stream' = stream /\ known' = known
        BY <2>2 DEF streamVars, hubVars
    <3>2. HubInv'
        BY <3>1, Zenon DEF StreamInv, HubInv, HubTypeOK, HistoryIsTail, LastStateIsKept, Dropped
    <3> QED
        BY <3>1, <3>2, Zenon DEF StreamInv, Clients
  <2> QED
      BY <2>1, <2>2, Zenon
<1> QED
    BY <1>1, StreamStarts, PTL DEF StreamSpec

\* Nothing is lost silently, for any number of clients, any capacity and any
\* buffer: the cursor of a client passes an event that concerns it only if the
\* event was delivered or a gap reported.
THEOREM NothingIsLost == StreamSpec => []NothingIsSkipped
<1>1. StreamInv => NothingIsSkipped
    BY Zenon DEF StreamInv, Clients, Safe, Told, NothingIsSkipped
<1> QED
    BY <1>1, StreamInductive, PTL

\* followJobEvents never gives a stream up because of what the hub sends: however
\* connections break and replays run into live frames, numbers grow.
THEOREM StreamsStayInOrder == StreamSpec => []StreamStaysInOrder
<1>1. StreamInv => StreamStaysInOrder
    BY Zenon DEF StreamInv, Clients, Safe, StreamStaysInOrder
<1> QED
    BY <1>1, StreamInductive, PTL

-----------------------------------------------------------------------------
(* The session: what it is told of the stream. *)

\* The knowledge of a client that has dealt with all events up to last, out of
\* those after base.
Knows(base, last) == [base |-> base, taken |-> 0..last]

LEMMA KnowsFacts ==
    ASSUME NEW base \in Nat, NEW last \in Nat
    PROVE  /\ Knows(base, last) \in Known
           /\ Knows(base, last).base = base /\ Knows(base, last).taken = 0..last
<1>1. 0..last \subseteq Nat
    OBVIOUS
<1> QED
    BY <1>1, Zenon DEF Knows, Known

\* Greeting and Following depend only on where the knowledge begins.
LEMMA SafeKnows ==
    ASSUME NEW c, NEW L \in Seq(Message), NEW cn, NEW s, NEW k, Safe(c, L, cn, s, k)
    PROVE  Safe(c, L, cn, s, Knows(k.base, s.lastID))
<1>1. k.base \in Nat /\ s.lastID \in Nat
    BY SafeFields, Zenon
<1>2. PICK l : l = Knows(k.base, s.lastID)
    BY Zenon
<1>3. l \in Known /\ l.base = k.base /\ l.taken = 0..s.lastID
    BY <1>1, <1>2, KnowsFacts, Zenon
<1>4. Told(c, L, s.lastID, l)
  <2>1. \A n \in (l.base + 1)..s.lastID : n \in l.taken
      BY <1>1, <1>3
  <2> QED
      BY <2>1, Zenon DEF Told
<1>5. Greeting(c, L, cn, s, k) => Greeting(c, L, cn, s, l)
    BY <1>3, Zenon DEF Greeting
<1>6. Following(c, L, cn, s, k) => Following(c, L, cn, s, l)
    BY <1>3, Zenon DEF Following
<1>7. Safe(c, L, cn, s, l)
    BY <1>3, <1>4, <1>5, <1>6, Zenon DEF Safe
<1> QED
    BY <1>2, <1>7, Zenon

\* A client that follows its connection and whose cursor is past base is owed all
\* after the cursor.
LEMMA SafeLower ==
    ASSUME NEW c, NEW L \in Seq(Message), NEW cn, NEW s, NEW k, Safe(c, L, cn, s, k),
           s.connected = TRUE, k.base <= s.lastID
    PROVE  Safe(c, L, cn, s, Knows(0, s.lastID))
<1>1. k.base \in Nat /\ s.lastID \in Nat /\ Len(L) \in Nat /\ cn.up \in BOOLEAN
    BY SafeFields, Zenon
<1>2. PICK l : l = Knows(0, s.lastID)
    BY Zenon
<1>3. l \in Known /\ l.base = 0 /\ l.taken = 0..s.lastID /\ l.base <= Len(L)
  <2>1. 0 \in Nat /\ 0 <= Len(L)
      BY <1>1
  <2> QED
      BY <1>1, <1>2, <2>1, KnowsFacts, ZenonT(30)
<1>4. Told(c, L, s.lastID, l)
  <2>1. \A n \in (l.base + 1)..s.lastID : n \in l.taken
      BY <1>1, <1>3
  <2> QED
      BY <2>1, Zenon DEF Told
<1>5. ASSUME Following(c, L, cn, s, k) PROVE Following(c, L, cn, s, l)
  <2>1. PICK ev : ev = cn.wire \o cn.queue
      BY Zenon
  <2>2. Due(c, L, ev, s.lastID, s.latest, s.replay, k.base, cn.listed)
      BY <1>5, <2>1, Zenon DEF Following
  <2>3. \A n \in 1..Len(L) : n > s.lastID => n > k.base
      BY <1>1
  <2>4. Due(c, L, ev, s.lastID, s.latest, s.replay, l.base, cn.listed)
    <3>1. l.base \in Nat
        BY <1>3
    <3> QED
        BY <2>2, <2>3, <3>1, Zenon DEF Due
  <2> QED
      BY <1>5, <2>1, <2>4, Zenon DEF Following
<1>6. Safe(c, L, cn, s, l)
    BY <1>1, <1>3, <1>4, <1>5, Zenon DEF Safe
<1> QED
    BY <1>2, <1>6, Zenon

\* A client without a connection is owed nothing, wherever its cursor is.
LEMMA DownSafe ==
    ASSUME NEW c, NEW L \in Seq(Message), NEW s \in Stream, s.failed = FALSE,
           s.resuming = FALSE => s.lastID = 0, s.lastID <= Len(L),
           NEW base \in Nat, base <= Len(L)
    PROVE  Safe(c, L, NoConn, s, Knows(base, s.lastID))
<1>1. s.lastID \in Nat
    BY DEF Stream
<1>2. PICK l : l = Knows(base, s.lastID)
    BY Zenon
<1>3. l \in Known /\ l.base = base /\ l.taken = 0..s.lastID
    BY <1>1, <1>2, KnowsFacts, Zenon
<1>4. Told(c, L, s.lastID, l)
  <2>1. \A n \in (l.base + 1)..s.lastID : n \in l.taken
      BY <1>1, <1>3
  <2> QED
      BY <2>1, Zenon DEF Told
<1>5. NoConn \in Conn /\ NoConn.up = FALSE
    BY DEF NoConn, Conn
<1>6. Safe(c, L, NoConn, s, l)
    BY <1>3, <1>4, <1>5, Zenon DEF Safe
<1> QED
    BY <1>2, <1>6, Zenon

\* Subscribe reports a gap: whatever the cursor was, the client is owed all from
\* now on.
LEMMA GapSafe ==
    ASSUME NEW c, NEW L \in Seq(Message), NEW s \in Stream, s.failed = FALSE,
           NEW hello, hello = [connected |-> TRUE, id |-> Len(L), count |-> 0, gap |-> TRUE],
           NEW x, x = [up |-> TRUE, listed |-> TRUE, room |-> Buffer,
                       queue |-> <<>>, wire |-> <<hello>>],
           NEW t, t = [s EXCEPT !.resuming = TRUE, !.connected = FALSE, !.lastID = 0]
    PROVE  Safe(c, L, x, t, Knows(0, t.lastID))
<1>1. /\ Len(L) \in Nat /\ hello \in Signal /\ hello.connected = TRUE /\ hello.id = Len(L)
      /\ hello.count = 0 /\ hello.gap = TRUE
  <2>1. Len(L) \in Nat
      OBVIOUS
  <2> QED
      BY <2>1, Zenon DEF Signal
<1>2. /\ x \in Conn /\ x.up = TRUE /\ x.listed = TRUE /\ x.queue = <<>> /\ x.wire = <<hello>>
  <2>1. <<hello>> \in Seq(Signal) /\ <<>> \in Seq(Signal) /\ Buffer \in Nat
      BY <1>1, HubAssumption
  <2> QED
      BY <2>1, Zenon DEF Conn
<1>3. /\ t \in Stream /\ t.resuming = TRUE /\ t.connected = FALSE /\ t.failed = FALSE
      /\ t.lastID = 0
    BY Zenon DEF Stream
<1>4. x.wire # <<>> /\ Head(x.wire) = hello /\ Tail(x.wire) \o x.queue = <<>>
    BY <1>1, <1>2
<1>5. PICK l : l = Knows(0, t.lastID)
    BY Zenon
<1>6. l \in Known /\ l.base = 0 /\ l.base <= Len(L) /\ t.lastID <= Len(L)
  <2>1. 0 \in Nat /\ 0 <= Len(L)
      BY <1>1
  <2> QED
      BY <1>3, <1>5, <2>1, KnowsFacts, Zenon
<1>7. Due(c, L, <<>>, t.lastID, Len(L), 0, Len(L), TRUE)
  <2>1. t.lastID \in Nat
      BY <1>3
  <2> QED
      BY <2>1, DueAtOnce, Zenon
<1>8. Greeting(c, L, x, t, l)
    BY <1>1, <1>2, <1>4, <1>6, <1>7, Zenon DEF Greeting
<1>9. Told(c, L, t.lastID, l)
  <2>1. \A n \in (l.base + 1)..t.lastID : FALSE
      BY <1>3, <1>6
  <2> QED
      BY <2>1, Zenon DEF Told
<1>10. Safe(c, L, x, t, l)
    BY <1>2, <1>3, <1>6, <1>8, <1>9, Zenon DEF Safe
<1> QED
    BY <1>5, <1>10, Zenon

\* What the frame sig says of event n: it is the event, or the notice of a gap.
Bears(sig, n) == IF sig.connected = TRUE THEN sig.gap = TRUE ELSE sig.id = n

\* What followJobEvents makes of the frame.
Taken(s, sig) == IF sig.connected THEN Greeted(s, sig) ELSE Advanced(s, sig.id)

\* No step of the stream passes an event after base without a frame that tells of
\* it.
LEMMA FrameTaken ==
    ASSUME NEW L \in Seq(Message), NEW c, NEW cn, NEW s, NEW base \in Nat,
           Safe(c, L, cn, s, Knows(base, s.lastID)), cn.wire # <<>>,
           NEW sig, sig = Head(cn.wire)
    PROVE  /\ ~OutOfOrder(s, sig) /\ sig \in Signal
           /\ sig.connected = TRUE <=> s.connected = FALSE
           /\ \E b \in {0, base} :
                 Safe(c, L, [cn EXCEPT !.wire = Tail(cn.wire)], Taken(s, sig),
                      Knows(b, Taken(s, sig).lastID))
           /\ \A n \in 1..Len(L) : Concerns(c, L[n]) /\ n > base /\ n > s.lastID
                 => n > Taken(s, sig).lastID \/ Bears(sig, n)
<1>1. PICK k : k = Knows(base, s.lastID)
    BY Zenon
<1>2. PICK x : x = [cn EXCEPT !.wire = Tail(cn.wire)]
    BY Zenon
<1>3. PICK t : t = Taken(s, sig)
    BY Zenon
<1>4. /\ Safe(c, L, cn, s, k) /\ s.connected \in BOOLEAN /\ cn.wire \in Seq(Signal)
      /\ s.lastID \in Nat /\ Len(L) \in Nat
    BY <1>1, SafeFields, Zenon
<1>5. k.base = base /\ k.taken = 0..s.lastID
    BY <1>1, <1>4, KnowsFacts, Zenon
<1>6. sig \in Signal
    BY <1>4, HeadAndTail
<1>7. sig.connected \in BOOLEAN /\ sig.id \in Nat /\ sig.gap \in BOOLEAN
    BY <1>6, SignalFields, Zenon
<1>8. ASSUME NEW l, Safe(c, L, x, t, l), l.base = base,
             \A n \in l.taken : n \in 0..s.lastID \/ Bears(sig, n)
      PROVE  /\ \E b \in {0, base} : Safe(c, L, x, t, Knows(b, t.lastID))
             /\ \A n \in 1..Len(L) : Concerns(c, L[n]) /\ n > base /\ n > s.lastID
                   => n > t.lastID \/ Bears(sig, n)
  <2>1. Safe(c, L, x, t, Knows(base, t.lastID))
      BY <1>8, SafeKnows, Zenon
  <2>2. Told(c, L, t.lastID, l)
      BY <1>8, Zenon DEF Safe
  <2>3. t.lastID \in Nat
      BY <1>8, SafeFields, Zenon
  <2>4. ASSUME NEW n \in 1..Len(L), Concerns(c, L[n]), n > base, n > s.lastID, ~(n > t.lastID)
        PROVE  Bears(sig, n)
    <3>1. n \in (l.base + 1)..t.lastID
        BY <1>4, <1>8, <2>3, <2>4, SMTT(30)
    <3>2. n \in l.taken
        BY <2>2, <2>4, <3>1, Zenon DEF Told
    <3>3. n \notin 0..s.lastID
        BY <1>4, <2>4
    <3> QED
        BY <1>8, <3>2, <3>3, Zenon
  <2> QED
      BY <2>1, <2>4, Zenon
<1>9. CASE s.connected = FALSE
  <2>1. /\ ~OutOfOrder(s, sig) /\ sig.connected = TRUE
        /\ Safe(c, L, x, Greeted(s, sig), Restarted(k, sig))
      BY <1>2, <1>4, <1>9, GreetedSafe, Zenon
  <2>2. t = Greeted(s, sig)
      BY <1>3, <2>1, Zenon DEF Taken
  <2>3. PICK l : l = Restarted(k, sig) /\ Safe(c, L, x, t, l)
      BY <2>1, <2>2, Zenon
  <2>4. CASE sig.gap = TRUE
    <3>1. l.base = sig.id
        BY <2>3, <2>4, Zenon DEF Restarted
    <3>2. s \in Stream
        BY <1>4, Zenon DEF Safe
    <3>3. t.lastID = sig.id /\ t.connected = TRUE
        BY <2>2, <2>4, <3>2, Zenon DEF Greeted, Stream
    <3>4. l.base <= t.lastID
        BY <1>7, <3>1, <3>3
    <3>5. Safe(c, L, x, t, Knows(0, t.lastID))
        BY <2>3, <3>3, <3>4, SafeLower, Zenon
    <3>6. \A n : Bears(sig, n)
        BY <2>1, <2>4, Zenon DEF Bears
    <3> QED
        BY <1>2, <1>3, <1>6, <1>9, <2>1, <3>5, <3>6, Zenon
  <2>5. CASE sig.gap = FALSE
    <3>1. l = k
        BY <2>3, <2>5, Zenon DEF Restarted
    <3>2. /\ \E b \in {0, base} : Safe(c, L, x, t, Knows(b, t.lastID))
          /\ \A n \in 1..Len(L) : Concerns(c, L[n]) /\ n > base /\ n > s.lastID
                => n > t.lastID \/ Bears(sig, n)
        BY <1>5, <1>8, <2>3, <3>1, Zenon
    <3> QED
        BY <1>2, <1>3, <1>6, <1>9, <2>1, <3>2, Zenon
  <2> QED
      BY <1>7, <2>4, <2>5, Zenon
<1>10. CASE s.connected = TRUE
  <2>1. /\ ~OutOfOrder(s, sig) /\ sig.connected = FALSE
        /\ Safe(c, L, x, Advanced(s, sig.id), [k EXCEPT !.taken = k.taken \cup {sig.id}])
      BY <1>2, <1>4, <1>10, TakenSafe, Zenon
  <2>2. t = Advanced(s, sig.id)
      BY <1>3, <2>1, Zenon DEF Taken
  <2>3. PICK l : l = [k EXCEPT !.taken = k.taken \cup {sig.id}] /\ Safe(c, L, x, t, l)
      BY <2>1, <2>2, Zenon
  <2>4. k \in Known
      BY <1>4, Zenon DEF Safe
  <2>5. l.base = base /\ l.taken = 0..s.lastID \cup {sig.id}
      BY <1>5, <2>3, <2>4, Zenon DEF Known
  <2>6. \A n \in l.taken : n \in 0..s.lastID \/ Bears(sig, n)
      BY <2>1, <2>5, Zenon DEF Bears
  <2>7. /\ \E b \in {0, base} : Safe(c, L, x, t, Knows(b, t.lastID))
        /\ \A n \in 1..Len(L) : Concerns(c, L[n]) /\ n > base /\ n > s.lastID
              => n > t.lastID \/ Bears(sig, n)
      BY <1>8, <2>3, <2>5, <2>6, Zenon
  <2> QED
      BY <1>2, <1>3, <1>6, <1>10, <2>1, <2>7, Zenon
<1> QED
    BY <1>4, <1>9, <1>10, Zenon

-----------------------------------------------------------------------------
(* The session: its invariant. *)

\* The stream as far as it counts: a cursor of an earlier hub says nothing unless
\* the present hub took it for one of its own.
Viewed(s, f, m) == IF f = TRUE /\ m = FALSE THEN [s EXCEPT !.lastID = 0] ELSE s

Tracks(base, L, cn, v) == Safe(Session, L, cn, v, Knows(base, v.lastID))

\* base is the latest event at the first subscription, which comes before the
\* first snapshot, or 0.
Bounded(base, ses, r) ==
    /\ ses.phase = "running" => base <= ses.cursor
    /\ r.phase \in {"cursor", "read"} => base <= r.cursor

Tracked ==
    \E base \in Nat :
        /\ Bounded(base, session, reload)
        /\ Tracks(base, log, conn[Session], Viewed(stream[Session], foreign, masked))

\* A hub that has not reached the client's cursor reports a gap.
Notice(cn, s, f, m) ==
    f = TRUE /\ m = FALSE /\ cn.up = TRUE => s.connected = FALSE /\ Head(cn.wire).gap = TRUE

PhasesOK(ses, s, r, p, f) ==
    /\ ses.phase = "new" => s.resuming = FALSE /\ r.phase = "none" /\ p.phase = "none"
    /\ ses.phase # "new" => s.resuming = TRUE
    /\ f = TRUE => s.resuming = TRUE

\* A frame that makes a session with this cursor reload.
TellsOf(cursor, sig) == IF sig.connected = TRUE THEN sig.gap = TRUE ELSE sig.id > cursor

GapTold(u) == \E i \in 1..Len(u) : u[i].connected = TRUE /\ u[i].gap = TRUE

\* Whoever has a snapshot with this cursor will hear of a change: it is not
\* announced yet, a gap will be reported, a frame is at the session, or an
\* announcement is under way on the stream.
Coming(cursor, L, last, u, o, f) ==
    \/ o > 0 \/ f = TRUE
    \/ \E i \in 1..Len(u) : TellsOf(cursor, u[i])
    \/ \E n \in 1..Len(L) : L[n] = Announce /\ n > cursor /\ n > last

\* A snapshot under way that is out of date already will be followed by another.
ReloadFresh(r, d, L, last, u, o, f, m) ==
    /\ r.phase \in {"cursor", "read"} => r.cursor <= Len(L)
    /\ r.phase = "read" /\ m = FALSE /\ r.state # d => Coming(r.cursor, L, last, u, o, f)

\* So will the snapshot that is shown.  Its cursor is of this hub, or a gap is to
\* be reported.
SessionFresh(ses, r, d, L, last, u, o, f, m) ==
    ses.phase = "running" /\ r.phase = "none" /\ ses.missed = FALSE /\ m = FALSE =>
        /\ ses.shown # d => Coming(ses.cursor, L, last, u, o, f)
        /\ ses.cursor <= Len(L) \/ f = TRUE \/ GapTold(u)

StreamTypes == conn \in [Client -> Conn] /\ stream \in [Client -> Stream]

SessionTypes ==
    /\ db \in Nat /\ owed \in Nat
    /\ updates \in Seq(Signal)
    /\ session \in SessionState /\ reload \in Reload /\ poll \in Poll
    /\ foreign \in BOOLEAN /\ masked \in BOOLEAN

SessionInv ==
    /\ HubInv /\ StreamTypes /\ SessionTypes /\ Tracked
    /\ Notice(conn[Session], stream[Session], foreign, masked)
    /\ PhasesOK(session, stream[Session], reload, poll, foreign)
    /\ ReloadFresh(reload, db, log, stream[Session].lastID, updates, owed, foreign, masked)
    /\ SessionFresh(session, reload, db, log, stream[Session].lastID, updates, owed,
                    foreign, masked)

\* The fields of the session's records.
LEMMA SessionFields ==
    ASSUME SessionTypes
    PROVE  /\ session.phase \in {"new", "open", "running", "gone"}
           /\ session.shown \in Nat /\ session.cursor \in Nat /\ session.missed \in BOOLEAN
           /\ reload.phase \in {"none", "asked", "cursor", "read"}
           /\ reload.cursor \in Nat /\ reload.state \in Nat
           /\ poll.phase \in {"none", "asked", "answered"} /\ poll.state \in Nat
           /\ poll.stale \in BOOLEAN
BY DEF SessionTypes, SessionState, Reload, Poll

LEMMA NoReloadFacts ==
    /\ NoReload \in Reload /\ NoReload.phase = "none"
    /\ NoPoll \in Poll /\ NoPoll.phase = "none"
    /\ [phase |-> "asked", cursor |-> 0, state |-> 0] \in Reload
    /\ [phase |-> "asked", cursor |-> 0, state |-> 0].phase = "asked"
BY DEF NoReload, NoPoll, Reload, Poll

\* A step that leaves the hub, the connection and the stream alone.
LEMMA QuietStep ==
    ASSUME SessionInv, UNCHANGED streamVars, SessionTypes', foreign' = foreign,
           masked' = masked \/ foreign = FALSE,
           \A base \in Nat : base <= Len(log) /\ Bounded(base, session, reload)
                                => Bounded(base, session', reload'),
           PhasesOK(session', stream[Session], reload', poll', foreign),
           ReloadFresh(reload', db', log, stream[Session].lastID, updates', owed',
                       foreign, masked'),
           SessionFresh(session', reload', db', log, stream[Session].lastID, updates', owed',
                        foreign, masked')
    PROVE  SessionInv'
<1>1. /\ log' = log /\ history' = history /\ lastState' = lastState
      /\ conn' = conn /\ stream' = stream
    BY DEF streamVars, hubVars
<1>2. HubInv' /\ StreamTypes'
    BY <1>1, Zenon DEF SessionInv, StreamTypes, HubInv, HubTypeOK, HistoryIsTail,
                       LastStateIsKept, Dropped
<1>3. /\ Viewed(stream[Session], foreign, masked') = Viewed(stream[Session], foreign, masked)
      /\ Notice(conn[Session], stream[Session], foreign, masked')
  <2>1. CASE masked' = masked
      BY <2>1, Zenon DEF SessionInv
  <2>2. CASE foreign = FALSE
      BY <2>2, Zenon DEF Viewed, Notice
  <2> QED
      BY <2>1, <2>2, Zenon
<1>4. Tracked'
  <2>1. PICK base \in Nat :
          /\ Bounded(base, session, reload)
          /\ Tracks(base, log, conn[Session], Viewed(stream[Session], foreign, masked))
      BY Zenon DEF SessionInv, Tracked
  <2>2. base <= Len(log)
    <3>1. PICK v : v = Viewed(stream[Session], foreign, masked)
        BY Zenon
    <3>2. Safe(Session, log, conn[Session], v, Knows(base, v.lastID)) /\ log \in Seq(Message)
        BY <2>1, <3>1, Zenon DEF Tracks, SessionInv, HubInv, HubTypeOK
    <3>3. v.lastID \in Nat /\ Knows(base, v.lastID).base <= Len(log)
        BY <3>2, SafeFields, Zenon
    <3> QED
        BY <3>3, KnowsFacts, Zenon
  <2>3. Bounded(base, session', reload')
      BY <2>1, <2>2, Zenon
  <2>4. Tracks(base, log', conn'[Session], Viewed(stream'[Session], foreign', masked'))
      BY <1>1, <1>3, <2>1, Zenon
  <2> QED
      BY <2>3, <2>4, Zenon DEF Tracked
<1> QED
    BY <1>1, <1>2, <1>3, <1>4, Zenon DEF SessionInv

\* A step that leaves the session and its reload alone, too.
LEMMA PollStep ==
    ASSUME SessionInv, UNCHANGED <<streamVars, db, owed, updates, session, reload, restarts,
                                   foreign, masked>>,
           poll' \in Poll, poll'.phase # "none" => session.phase # "new"
    PROVE  SessionInv'
<1>1. /\ UNCHANGED streamVars /\ db' = db /\ owed' = owed /\ updates' = updates
      /\ session' = session /\ reload' = reload /\ foreign' = foreign /\ masked' = masked
    BY SMTT(30)
<1>2. SessionTypes'
    BY <1>1, Zenon DEF SessionInv, SessionTypes
<1>3. PhasesOK(session', stream[Session], reload', poll', foreign)
    BY <1>1, Zenon DEF SessionInv, PhasesOK
<1>4. /\ ReloadFresh(reload', db', log, stream[Session].lastID, updates', owed', foreign, masked')
      /\ SessionFresh(session', reload', db', log, stream[Session].lastID, updates', owed',
                      foreign, masked')
    BY <1>1, Zenon DEF SessionInv
<1>5. \A base \in Nat : base <= Len(log) /\ Bounded(base, session, reload)
                            => Bounded(base, session', reload')
    BY <1>1, Zenon
<1> QED
    BY <1>1, <1>2, <1>3, <1>4, <1>5, QuietStep, Zenon

LEMMA PollsKeep ==
    ASSUME SessionInv, ServePoll \/ StartPoll \/ FailPoll
    PROVE  SessionInv'
<1>1. SessionTypes /\ PhasesOK(session, stream[Session], reload, poll, foreign)
    BY Zenon DEF SessionInv
<1>2. poll \in Poll /\ db \in Nat
    BY <1>1 DEF SessionTypes
<1>3. CASE ServePoll
  <2>1. poll' \in Poll
      BY <1>2, <1>3, Zenon DEF ServePoll, Poll
  <2>2. session.phase # "new"
      BY <1>1, <1>3 DEF ServePoll, PhasesOK
  <2> QED
      BY <1>3, <2>1, <2>2, PollStep, Zenon DEF ServePoll
<1>4. CASE StartPoll
  <2>1. poll' \in Poll
      BY <1>4, SMTT(30) DEF StartPoll, Poll
  <2>2. session.phase # "new"
      BY <1>4 DEF StartPoll, Running
  <2> QED
      BY <1>4, <2>1, <2>2, PollStep, Zenon DEF StartPoll
<1>5. CASE FailPoll
    BY <1>5, NoReloadFacts, PollStep, Zenon DEF FailPoll
<1> QED
    BY <1>3, <1>4, <1>5

\* A transaction: its announcement is owed.
LEMMA CommitKeeps ==
    ASSUME SessionInv, Commit
    PROVE  SessionInv'
<1>1. /\ UNCHANGED streamVars /\ db' = db + 1 /\ owed' = owed + 1 /\ updates' = updates
      /\ session' = session /\ reload' = reload /\ poll' = poll /\ foreign' = foreign
      /\ masked' = masked
    BY SMTT(30) DEF Commit
<1>2. db \in Nat /\ owed \in Nat
    BY Zenon DEF SessionInv, SessionTypes
<1>3. owed' > 0 /\ owed' \in Nat /\ db' \in Nat
    BY <1>1, <1>2
<1>4. SessionTypes'
    BY <1>1, <1>3, Zenon DEF SessionInv, SessionTypes
<1>5. \A cursor, L, last, u, f : Coming(cursor, L, last, u, owed', f)
    BY <1>3, Zenon DEF Coming
<1>6. PhasesOK(session', stream[Session], reload', poll', foreign)
    BY <1>1, Zenon DEF SessionInv
<1>7. ReloadFresh(reload', db', log, stream[Session].lastID, updates', owed', foreign, masked')
    BY <1>1, <1>5, Zenon DEF SessionInv, ReloadFresh
<1>8. SessionFresh(session', reload', db', log, stream[Session].lastID, updates', owed',
                   foreign, masked')
    BY <1>1, <1>5, Zenon DEF SessionInv, SessionFresh
<1>9. \A base \in Nat : base <= Len(log) /\ Bounded(base, session, reload)
                            => Bounded(base, session', reload')
    BY <1>1, Zenon
<1> QED
    BY <1>1, <1>4, <1>6, <1>7, <1>8, <1>9, QuietStep, Zenon

\* A step that asks for a snapshot.
LEMMA AskStep ==
    ASSUME SessionInv, AskReload, session.phase # "new",
           UNCHANGED <<streamVars, db, owed, session, foreign, masked>>,
           updates' \in Seq(Signal), poll' \in Poll
    PROVE  SessionInv'
<1>1. /\ UNCHANGED streamVars /\ db' = db /\ owed' = owed
      /\ session' = session /\ foreign' = foreign /\ masked' = masked
      /\ reload' \in Reload /\ reload'.phase = "asked"
    BY NoReloadFacts, SMTT(30) DEF AskReload
<1>2. SessionTypes'
    BY <1>1, Zenon DEF SessionInv, SessionTypes
<1>3. PhasesOK(session', stream[Session], reload', poll', foreign)
    BY <1>1, Zenon DEF SessionInv, PhasesOK
<1>4. reload'.phase # "none" /\ reload'.phase # "read" /\ reload'.phase \notin {"cursor", "read"}
    BY <1>1
<1>5. /\ ReloadFresh(reload', db', log, stream[Session].lastID, updates', owed', foreign, masked')
      /\ SessionFresh(session', reload', db', log, stream[Session].lastID, updates', owed',
                      foreign, masked')
    BY <1>4, Zenon DEF ReloadFresh, SessionFresh
<1>6. \A base \in Nat : base <= Len(log) /\ Bounded(base, session, reload)
                            => Bounded(base, session', reload')
    BY <1>1, <1>4, Zenon DEF Bounded
<1> QED
    BY <1>1, <1>2, <1>3, <1>5, <1>6, QuietStep, Zenon

LEMMA BootKeeps ==
    ASSUME SessionInv, Boot
    PROVE  SessionInv'
<1>1. /\ AskReload /\ session.phase # "new" /\ updates' = updates /\ poll' = poll
      /\ UNCHANGED <<streamVars, db, owed, session, foreign, masked>>
    BY DEF Boot
<1>2. updates' \in Seq(Signal) /\ poll' \in Poll
    BY <1>1, Zenon DEF SessionInv, SessionTypes
<1> QED
    BY <1>1, <1>2, AskStep, Zenon

LEMMA TakePollKeeps ==
    ASSUME SessionInv, TakePoll
    PROVE  SessionInv'
<1>1. SessionTypes /\ PhasesOK(session, stream[Session], reload, poll, foreign)
    BY Zenon DEF SessionInv
<1>2. session.phase # "new"
    BY <1>1 DEF TakePoll, PhasesOK
<1>3. poll' = NoPoll /\ updates' = updates /\ updates' \in Seq(Signal)
    BY <1>1, Zenon DEF TakePoll, SessionTypes
<1>4. CASE AskReload
    BY <1>2, <1>3, <1>4, NoReloadFacts, AskStep, Zenon DEF TakePoll
<1>5. CASE UNCHANGED reload
    BY <1>3, <1>5, NoReloadFacts, PollStep, Zenon DEF TakePoll
<1> QED
    BY <1>4, <1>5, Zenon DEF TakePoll

\* acceptRealtime: a frame is dropped only if it tells of nothing new.
LEMMA AcceptKeeps ==
    ASSUME SessionInv, Accept
    PROVE  SessionInv'
<1>1. /\ Running /\ reload.phase = "none" /\ updates # <<>> /\ updates' = Tail(updates)
      /\ UNCHANGED streamVars /\ db' = db /\ owed' = owed /\ session' = session
      /\ poll' = poll /\ foreign' = foreign /\ masked' = masked
    BY Zenon DEF Accept
<1>2. SessionTypes
    BY SMTT(30) DEF SessionInv
<1>3. updates \in Seq(Signal) /\ poll \in Poll /\ session.cursor \in Nat
    BY <1>2, SessionFields DEF SessionTypes
<1>4. PICK u \in Seq(Signal) : u = updates
    BY <1>3
<1>5. u # <<>> /\ Tail(u) \in Seq(Signal) /\ Head(u) \in Signal
    BY <1>1, <1>4, HeadAndTail
<1>6. CASE AskReload
  <2>1. session.phase # "new"
      BY <1>1 DEF Running
  <2> QED
      BY <1>1, <1>3, <1>4, <1>5, <1>6, <2>1, AskStep, Zenon
<1>7. CASE ~Tells(Head(updates)) /\ reload' = reload
  <2>1. PICK cursor \in Nat : cursor = session.cursor
      BY <1>3
  <2>2. ~TellsOf(cursor, u[1])
    <3>1. Head(u) = u[1] /\ u[1].connected \in BOOLEAN /\ u[1].id \in Nat /\ u[1].gap \in BOOLEAN
        BY <1>5, SignalFields, HeadAndTail
    <3>2. IF u[1].connected THEN ~u[1].gap ELSE u[1].id <= cursor
        BY <1>4, <1>7, <2>1, <3>1, Zenon DEF Tells, Reflected
    <3> QED
        BY <3>1, <3>2 DEF TellsOf
  <2>3. \A i \in 1..Len(u) : i # 1 => i - 1 \in 1..Len(Tail(u)) /\ Tail(u)[i - 1] = u[i]
      BY <1>5
  <2>4. (\E i \in 1..Len(u) : TellsOf(cursor, u[i]))
           => \E i \in 1..Len(Tail(u)) : TellsOf(cursor, Tail(u)[i])
      BY <2>2, <2>3, Zenon
  <2>5. GapTold(u) => GapTold(Tail(u))
    <3>1. ASSUME NEW i \in 1..Len(u), u[i].connected = TRUE, u[i].gap = TRUE
          PROVE  GapTold(Tail(u))
      <4>1. i # 1
          BY <2>2, <3>1, Zenon DEF TellsOf
      <4> QED
          BY <2>3, <3>1, <4>1, Zenon DEF GapTold
    <3> QED
        BY <3>1, Zenon DEF GapTold
  <2>6. \A L, last, o, f : Coming(cursor, L, last, u, o, f) => Coming(cursor, L, last, Tail(u), o, f)
      BY <2>4, Zenon DEF Coming
  <2>7. SessionTypes'
      BY <1>1, <1>2, <1>4, <1>5, <1>7, Zenon DEF SessionTypes
  <2>8. SessionFresh(session', reload', db', log, stream[Session].lastID, updates', owed',
                     foreign, masked')
      BY <1>1, <1>4, <1>7, <2>1, <2>5, <2>6, Zenon DEF SessionInv, SessionFresh
  <2>9. reload.phase \notin {"cursor", "read"} /\ reload.phase # "read"
      BY <1>1, SMTT(30)
  <2>10. ReloadFresh(reload', db', log, stream[Session].lastID, updates', owed', foreign, masked')
      BY <1>7, <2>9, Zenon DEF ReloadFresh
  <2>11. PhasesOK(session', stream[Session], reload', poll', foreign)
      BY <1>1, <1>7, Zenon DEF SessionInv
  <2>12. \A base \in Nat : base <= Len(log) /\ Bounded(base, session, reload)
                               => Bounded(base, session', reload')
      BY <1>1, <1>7, Zenon
  <2> QED
      BY <1>1, <2>7, <2>8, <2>10, <2>11, <2>12, QuietStep, Zenon
<1> QED
    BY <1>6, <1>7, Zenon DEF Accept

\* getChannelSession: the cursor first, then the database.
LEMMA ServeReloadKeeps ==
    ASSUME SessionInv, ServeReload
    PROVE  SessionInv'
<1>1. /\ reload.phase \in {"asked", "cursor"} /\ reload' = Fetched(reload)
      /\ masked' = (masked /\ (foreign \/ reload.phase # "asked"))
      /\ UNCHANGED streamVars /\ db' = db /\ owed' = owed /\ updates' = updates
      /\ session' = session /\ poll' = poll /\ foreign' = foreign
    BY DEF ServeReload
<1>2. SessionTypes
    BY DEF SessionInv
<1>3. reload \in Reload /\ db \in Nat /\ LatestID = Len(log) /\ Len(log) \in Nat
  <2>1. reload \in Reload /\ db \in Nat /\ HubTypeOK
      BY <1>2, Zenon DEF SessionTypes, SessionInv, HubInv
  <2> QED
      BY <2>1 DEF HubTypeOK, LatestID
<1>4. CASE reload.phase = "asked"
  <2>1. reload' = [reload EXCEPT !.phase = "cursor", !.cursor = LatestID]
      BY <1>1, <1>4, ZenonT(30) DEF Fetched
  <2>2. reload' \in Reload /\ reload'.phase = "cursor" /\ reload'.cursor = Len(log)
      BY <1>3, <2>1, Zenon DEF Reload
  <2>3. /\ masked' \in BOOLEAN
        /\ masked' = masked \/ foreign = FALSE
    <3>1. foreign \in BOOLEAN /\ masked \in BOOLEAN
        BY <1>2, Zenon DEF SessionTypes
    <3>2. masked' = (masked /\ foreign)
        BY <1>1, <1>4, Zenon
    <3>3. CASE foreign = TRUE
        BY <3>1, <3>2, <3>3, Zenon
    <3>4. CASE foreign = FALSE
        BY <3>1, <3>2, <3>4, Zenon
    <3> QED
        BY <3>1, <3>3, <3>4, Zenon
  <2>4. SessionTypes'
      BY <1>1, <1>2, <2>2, <2>3, Zenon DEF SessionTypes
  <2>5. Len(log) <= Len(log) /\ "cursor" # "read" /\ "cursor" # "none"
      BY <1>3
  <2>6. ReloadFresh(reload', db', log, stream[Session].lastID, updates', owed', foreign, masked')
      BY <2>2, <2>5, Zenon DEF ReloadFresh
  <2>7. SessionFresh(session', reload', db', log, stream[Session].lastID, updates', owed',
                     foreign, masked')
      BY <2>2, <2>5, Zenon DEF SessionFresh
  <2>8. PhasesOK(session', stream[Session], reload', poll', foreign)
    <3>1. "asked" # "none"
        OBVIOUS
    <3> QED
        BY <1>1, <1>4, <3>1, Zenon DEF SessionInv, PhasesOK
  <2>9. \A base \in Nat : base <= Len(log) /\ Bounded(base, session, reload)
                              => Bounded(base, session', reload')
      BY <1>1, <2>2, Zenon DEF Bounded
  <2> QED
      BY <1>1, <2>3, <2>4, <2>6, <2>7, <2>8, <2>9, QuietStep, Zenon
<1>5. CASE reload.phase = "cursor"
  <2>1. reload' = [reload EXCEPT !.phase = "read", !.state = db]
    <3>1. reload.phase # "asked"
        BY <1>5
    <3> QED
        BY <1>1, <3>1, ZenonT(30) DEF Fetched
  <2>2. /\ reload' \in Reload /\ reload'.phase = "read" /\ reload'.cursor = reload.cursor
        /\ reload'.state = db
      BY <1>3, <2>1, Zenon DEF Reload
  <2>3. masked' = masked
    <3>1. reload.phase # "asked" /\ masked \in BOOLEAN
        BY <1>2, <1>5 DEF SessionTypes
    <3> QED
        BY <1>1, <3>1, Zenon
  <2>4. SessionTypes'
      BY <1>1, <1>2, <2>2, <2>3, Zenon DEF SessionTypes
  <2>5. reload.cursor <= Len(log)
      BY <1>5, Zenon DEF SessionInv, ReloadFresh
  <2>6. ReloadFresh(reload', db', log, stream[Session].lastID, updates', owed', foreign, masked')
      BY <1>1, <2>2, <2>5, Zenon DEF ReloadFresh
  <2>7. SessionFresh(session', reload', db', log, stream[Session].lastID, updates', owed',
                     foreign, masked')
    <3>1. "read" # "none"
        OBVIOUS
    <3> QED
        BY <2>2, <3>1, Zenon DEF SessionFresh
  <2>8. PhasesOK(session', stream[Session], reload', poll', foreign)
    <3>1. "cursor" # "none"
        OBVIOUS
    <3> QED
        BY <1>1, <1>5, <3>1, Zenon DEF SessionInv, PhasesOK
  <2>9. \A base \in Nat : base <= Len(log) /\ Bounded(base, session, reload)
                              => Bounded(base, session', reload')
      BY <1>1, <1>5, <2>2, Zenon DEF Bounded
  <2> QED
      BY <1>1, <2>3, <2>4, <2>6, <2>7, <2>8, <2>9, QuietStep, Zenon
<1> QED
    BY <1>1, <1>4, <1>5

\* reconcileSnapshot.
LEMMA FinishReloadKeeps ==
    ASSUME SessionInv, FinishReload
    PROVE  SessionInv'
<1>1. /\ reload.phase = "read" /\ reload' = NoReload
      /\ session' = [phase |-> "running", shown |-> reload.state, cursor |-> reload.cursor,
                     missed |-> FALSE]
      /\ poll' = [poll EXCEPT !.stale = poll.phase # "none"]
      /\ UNCHANGED streamVars /\ db' = db /\ owed' = owed /\ updates' = updates
      /\ foreign' = foreign /\ masked' = masked
    BY DEF FinishReload
<1>2. SessionTypes
    BY DEF SessionInv
<1>3. poll \in Poll /\ reload.cursor \in Nat /\ reload.state \in Nat
    BY <1>2, SessionFields DEF SessionTypes
<1>4. /\ session' \in SessionState /\ session'.phase = "running"
      /\ session'.shown = reload.state /\ session'.cursor = reload.cursor
      /\ session'.missed = FALSE
    BY <1>1, <1>3 DEF SessionState
<1>5. poll' \in Poll
    BY <1>1, <1>3, Zenon DEF Poll
<1>6. SessionTypes'
    BY <1>1, <1>2, <1>4, <1>5, NoReloadFacts, Zenon DEF SessionTypes
<1>7. "none" \notin {"cursor", "read"} /\ "none" # "read" /\ "running" # "new" /\ "read" # "none"
    OBVIOUS
<1>8. PhasesOK(session', stream[Session], reload', poll', foreign)
    BY <1>1, <1>4, <1>7, Zenon DEF SessionInv, PhasesOK
<1>9. ReloadFresh(reload', db', log, stream[Session].lastID, updates', owed', foreign, masked')
    BY <1>1, <1>7, NoReloadFacts, Zenon DEF ReloadFresh
<1>10. SessionFresh(session', reload', db', log, stream[Session].lastID, updates', owed',
                    foreign, masked')
    BY <1>1, <1>4, Zenon DEF SessionInv, ReloadFresh, SessionFresh
<1>11. \A base \in Nat : base <= Len(log) /\ Bounded(base, session, reload)
                             => Bounded(base, session', reload')
    BY <1>1, <1>4, <1>7, NoReloadFacts, Zenon DEF Bounded
<1> QED
    BY <1>1, <1>6, <1>8, <1>9, <1>10, <1>11, QuietStep, Zenon

\* What becomes of a session whose request fails.
LEMMA UnservedFacts ==
    ASSUME SessionTypes
    PROVE  /\ Unserved \in SessionState /\ Unserved.cursor = session.cursor
           /\ Unserved.phase = "running" => session.phase = "running" /\ Unserved.missed = TRUE
           /\ Unserved.phase # "new"
<1>1. session \in SessionState
    BY DEF SessionTypes
<1>2. CASE Running
  <2>1. Unserved = [session EXCEPT !.missed = TRUE] /\ session.phase = "running"
      BY <1>2, Zenon DEF Unserved, Running
  <2>2. /\ Unserved \in SessionState /\ Unserved.cursor = session.cursor
        /\ Unserved.phase = "running" /\ Unserved.missed = TRUE
      BY <1>1, <2>1, Zenon DEF SessionState
  <2>3. "running" # "new"
      OBVIOUS
  <2> QED
      BY <2>1, <2>2, <2>3, Zenon
<1>3. CASE ~Running
  <2>1. Unserved = [session EXCEPT !.phase = "gone"]
      BY <1>3, Zenon DEF Unserved
  <2>2. /\ Unserved \in SessionState /\ Unserved.cursor = session.cursor
        /\ Unserved.phase = "gone"
      BY <1>1, <2>1, Zenon DEF SessionState
  <2>3. "gone" # "running" /\ "gone" # "new"
      OBVIOUS
  <2> QED
      BY <2>2, <2>3, Zenon
<1> QED
    BY <1>2, <1>3, Zenon

LEMMA FailReloadKeeps ==
    ASSUME SessionInv, FailReload
    PROVE  SessionInv'
<1>1. /\ reload.phase # "none" /\ reload' = NoReload /\ session' = Unserved
      /\ UNCHANGED streamVars /\ db' = db /\ owed' = owed /\ updates' = updates
      /\ poll' = poll /\ foreign' = foreign /\ masked' = masked
    BY SMTT(30) DEF FailReload
<1>2. SessionTypes
    BY DEF SessionInv
<1>3. /\ session' \in SessionState /\ session'.cursor = session.cursor
      /\ session'.phase = "running" => session.phase = "running" /\ session'.missed = TRUE
      /\ session'.phase # "new"
    BY <1>1, <1>2, UnservedFacts, Zenon
<1>4. SessionTypes'
    BY <1>1, <1>2, <1>3, NoReloadFacts, Zenon DEF SessionTypes
<1>5. "none" \notin {"cursor", "read"} /\ "none" # "read" /\ TRUE # FALSE
    OBVIOUS
<1>6. PhasesOK(session', stream[Session], reload', poll', foreign)
    BY <1>1, <1>3, Zenon DEF SessionInv, PhasesOK
<1>7. ReloadFresh(reload', db', log, stream[Session].lastID, updates', owed', foreign, masked')
    BY <1>1, <1>5, NoReloadFacts, Zenon DEF ReloadFresh
<1>8. SessionFresh(session', reload', db', log, stream[Session].lastID, updates', owed',
                   foreign, masked')
    BY <1>3, <1>5, Zenon DEF SessionFresh
<1>9. \A base \in Nat : base <= Len(log) /\ Bounded(base, session, reload)
                            => Bounded(base, session', reload')
    BY <1>1, <1>3, <1>5, NoReloadFacts, Zenon DEF Bounded
<1> QED
    BY <1>1, <1>4, <1>6, <1>7, <1>8, <1>9, QuietStep, Zenon

\* What a step of the stream starts from.
LEMMA TrackedFacts ==
    ASSUME SessionInv
    PROVE  /\ \E base \in Nat :
                 /\ Bounded(base, session, reload) /\ base <= Len(log)
                 /\ Tracks(base, log, conn[Session],
                           Viewed(stream[Session], foreign, masked))
           /\ log \in Seq(Message) /\ Len(log) \in Nat
           /\ Session \in Client /\ Announce \in Message /\ Concerns(Session, Announce)
           /\ conn \in [Client -> Conn] /\ stream \in [Client -> Stream]
           /\ conn[Session] \in Conn /\ stream[Session] \in Stream
           /\ foreign \in BOOLEAN /\ masked \in BOOLEAN
<1>1. PICK base \in Nat :
        /\ Bounded(base, session, reload)
        /\ Tracks(base, log, conn[Session], Viewed(stream[Session], foreign, masked))
    BY Zenon DEF SessionInv, Tracked
<1>2. log \in Seq(Message) /\ Len(log) \in Nat
  <2>1. HubTypeOK
      BY Zenon DEF SessionInv, HubInv
  <2> QED
      BY <2>1 DEF HubTypeOK
<1>3. PICK v : v = Viewed(stream[Session], foreign, masked)
    BY Zenon
<1>4. Safe(Session, log, conn[Session], v, Knows(base, v.lastID))
    BY <1>1, <1>3, Zenon DEF Tracks
<1>5. v.lastID \in Nat /\ Knows(base, v.lastID).base <= Len(log)
    BY <1>2, <1>4, SafeFields, Zenon
<1>6. base <= Len(log)
    BY <1>5, KnowsFacts, Zenon
<1>7. conn \in [Client -> Conn] /\ stream \in [Client -> Stream] /\ Session \in Client
    BY SessionAssumption, Zenon DEF SessionInv, StreamTypes
<1>8. conn[Session] \in Conn /\ stream[Session] \in Stream
    BY <1>7
<1> QED
    BY <1>1, <1>2, <1>6, <1>7, <1>8, SessionAssumption, Zenon DEF SessionInv, SessionTypes

\* The parts of a viewed stream, and when it is the stream itself.
LEMMA ViewedFacts ==
    ASSUME NEW s \in Stream, NEW f \in BOOLEAN, NEW m \in BOOLEAN
    PROVE  /\ Viewed(s, f, m) \in Stream
           /\ Viewed(s, f, m).connected = s.connected /\ Viewed(s, f, m).failed = s.failed
           /\ Viewed(s, f, m).resuming = s.resuming
           /\ f = FALSE \/ m = TRUE => Viewed(s, f, m) = s
           /\ f = TRUE /\ m = FALSE => Viewed(s, f, m) = [s EXCEPT !.lastID = 0]
<1>1. CASE f = TRUE /\ m = FALSE
  <2>1. Viewed(s, f, m) = [s EXCEPT !.lastID = 0]
      BY <1>1, Zenon DEF Viewed
  <2>2. /\ [s EXCEPT !.lastID = 0] \in Stream
        /\ [s EXCEPT !.lastID = 0].connected = s.connected
        /\ [s EXCEPT !.lastID = 0].failed = s.failed
        /\ [s EXCEPT !.lastID = 0].resuming = s.resuming
      BY DEF Stream
  <2>3. TRUE # FALSE
      OBVIOUS
  <2> QED
      BY <1>1, <2>1, <2>2, <2>3, Zenon
<1>2. CASE f = FALSE \/ m = TRUE
  <2>1. TRUE # FALSE
      OBVIOUS
  <2>2. Viewed(s, f, m) = s
      BY <1>2, <2>1, Zenon DEF Viewed
  <2> QED
      BY <1>2, <2>1, <2>2, Zenon
<1> QED
    BY <1>1, <1>2, Zenon

\* What is sent to a connection leaves it a connection.
LEMMA SentFacts ==
    ASSUME NEW c \in Client, NEW m \in Message, conn \in [Client -> Conn], log \in Seq(Message)
    PROVE  /\ Sent(c, m) \in Conn /\ Sent(c, m).up = conn[c].up
           /\ Sent(c, m).wire = conn[c].wire
<1>1. conn[c] \in Conn /\ LatestID + 1 \in Nat
    BY DEF LatestID
<1>2. Event(LatestID + 1) \in Signal
    BY <1>1, EventFacts, Zenon
<1>3. conn[c].queue \in Seq(Signal)
    BY <1>1 DEF Conn
<1>4. Append(conn[c].queue, Event(LatestID + 1)) \in Seq(Signal)
    BY <1>2, <1>3, Appended
<1>5. PICK x, y : /\ x = [conn[c] EXCEPT !.queue = Append(conn[c].queue, Event(LatestID + 1))]
                  /\ y = [conn[c] EXCEPT !.listed = FALSE]
    BY Zenon
<1>6. x \in Conn /\ x.up = conn[c].up /\ x.wire = conn[c].wire
    BY <1>1, <1>4, <1>5, Zenon DEF Conn
<1>7. y \in Conn /\ y.up = conn[c].up /\ y.wire = conn[c].wire
    BY <1>1, <1>5, Zenon DEF Conn
<1>8. Sent(c, m) \in {conn[c], x, y}
    BY <1>5, Zenon DEF Sent
<1> QED
    BY <1>1, <1>6, <1>7, <1>8, Zenon

\* Broadcast, as far as the session's stream goes.
LEMMA BroadcastStep ==
    ASSUME SessionInv, NEW m \in Message, Broadcast(m),
           UNCHANGED <<session, reload, foreign, masked>>
    PROVE  /\ HubInv' /\ StreamTypes' /\ Tracked'
           /\ Notice(conn'[Session], stream'[Session], foreign', masked')
           /\ stream' = stream /\ log' = Append(log, m)
<1>1. /\ log' = Append(log, m) /\ stream' = stream
      /\ conn' = [c \in Client |-> Sent(c, m)]
    BY Zenon DEF Broadcast
<1>2. HubInv'
    BY BroadcastKeepsHub, Zenon DEF SessionInv
<1>3. /\ log \in Seq(Message) /\ Len(log) \in Nat /\ Session \in Client
      /\ conn \in [Client -> Conn] /\ stream \in [Client -> Stream]
    BY TrackedFacts, Zenon
<1>4. conn' \in [Client -> Conn]
  <2>1. \A c \in Client : Sent(c, m) \in Conn
      BY <1>3, SentFacts
  <2> QED
      BY <1>1, <2>1
<1>5. PICK v : v = Viewed(stream[Session], foreign, masked)
    BY Zenon
<1>6. PICK base \in Nat :
        Bounded(base, session, reload) /\ Tracks(base, log, conn[Session], v)
    BY <1>5, TrackedFacts, Zenon
<1>7. PICK x : x = Sent(Session, m)
    BY Zenon
<1>8. Tracks(base, Append(log, m), x, v)
  <2>1. PICK k : k = Knows(base, v.lastID)
      BY Zenon
  <2>2. Safe(Session, log, conn[Session], v, k)
      BY <1>6, <2>1, Zenon DEF Tracks
  <2>3. x = IF ~conn[Session].listed \/ ~Concerns(Session, m) THEN conn[Session]
            ELSE IF Len(conn[Session].queue) < conn[Session].room
            THEN [conn[Session] EXCEPT !.queue = Append(conn[Session].queue, Event(Len(log) + 1))]
            ELSE [conn[Session] EXCEPT !.listed = FALSE]
      BY <1>7, Zenon DEF Sent, LatestID
  <2>4. Safe(Session, Append(log, m), x, v, k)
      BY <1>3, <2>2, <2>3, SentSafe, Zenon
  <2> QED
      BY <2>1, <2>4, Zenon DEF Tracks
<1>9. conn'[Session] = x
    BY <1>1, <1>3, <1>7
<1>10. Tracked'
  <2>1. /\ session' = session /\ reload' = reload /\ foreign' = foreign /\ masked' = masked
      BY SMTT(30)
  <2>2. Viewed(stream'[Session], foreign', masked') = v
      BY <1>1, <1>5, <2>1, Zenon
  <2> QED
      BY <1>1, <1>6, <1>8, <1>9, <2>1, <2>2, Zenon DEF Tracked
<1>11. x.up = conn[Session].up /\ x.wire = conn[Session].wire
    BY <1>3, <1>7, SentFacts, Zenon
<1>12. Notice(conn'[Session], stream'[Session], foreign', masked')
  <2>1. foreign' = foreign /\ masked' = masked
      OBVIOUS
  <2> QED
      BY <1>1, <1>9, <1>11, <2>1, Zenon DEF SessionInv, Notice
<1> QED
    BY <1>1, <1>2, <1>3, <1>4, <1>10, <1>12, Zenon DEF StreamTypes

\* publishJobProgress: the announcement is after every cursor of this hub.
LEMMA PublishKeeps ==
    ASSUME SessionInv, Publish
    PROVE  SessionInv'
<1>1. /\ owed > 0 /\ Broadcast(Announce) /\ owed' = owed - 1 /\ db' = db /\ updates' = updates
      /\ session' = session /\ reload' = reload /\ poll' = poll /\ foreign' = foreign
      /\ masked' = masked
    BY SMTT(30) DEF Publish
<1>2. Announce \in Message /\ log \in Seq(Message) /\ Len(log) \in Nat
    BY TrackedFacts, Zenon
<1>3. /\ HubInv' /\ StreamTypes' /\ Tracked'
      /\ Notice(conn'[Session], stream'[Session], foreign', masked')
      /\ stream' = stream /\ log' = Append(log, Announce)
    BY <1>1, <1>2, BroadcastStep, Zenon
<1>4. SessionTypes
    BY DEF SessionInv
<1>5. SessionTypes'
  <2>1. owed' \in Nat
      BY <1>1, <1>4 DEF SessionTypes
  <2> QED
      BY <1>1, <1>4, <2>1, Zenon DEF SessionTypes
<1>6. /\ Len(log') = Len(log) + 1 /\ log'[Len(log) + 1] = Announce
      /\ Len(log) + 1 \in 1..Len(log')
    BY <1>2, <1>3
<1>7. PICK last : last = stream[Session].lastID
    BY Zenon
<1>8. foreign = FALSE /\ masked = FALSE => last \in Nat /\ last <= Len(log)
  <2>1. PICK v : v = Viewed(stream[Session], foreign, masked)
      BY Zenon
  <2>2. PICK base \in Nat : Tracks(base, log, conn[Session], v)
      BY <2>1, TrackedFacts, Zenon
  <2>3. v.lastID \in Nat /\ v.lastID <= Len(log)
      BY <1>2, <2>2, SafeFields, Zenon DEF Tracks
  <2>4. foreign = FALSE => v = stream[Session]
      BY <2>1, TrackedFacts, ViewedFacts, ZenonT(30)
  <2> QED
      BY <1>7, <2>3, <2>4, Zenon
<1>9. ASSUME NEW cursor \in Nat, masked = FALSE,
             cursor <= Len(log) \/ foreign = TRUE \/ GapTold(updates)
      PROVE  Coming(cursor, log', last, updates, owed', foreign)
  <2>1. CASE foreign = TRUE
      BY <2>1, Zenon DEF Coming
  <2>2. CASE GapTold(updates)
      BY <2>2, Zenon DEF Coming, GapTold, TellsOf
  <2>3. CASE foreign = FALSE /\ cursor <= Len(log)
    <3>1. Len(log) + 1 > cursor /\ Len(log) + 1 > last
        BY <1>2, <1>8, <1>9, <2>3
    <3> QED
        BY <1>6, <3>1, Zenon DEF Coming
  <2> QED
      BY <1>4, <1>9, <2>1, <2>2, <2>3, Zenon DEF SessionTypes
<1>10. session.cursor \in Nat /\ reload.cursor \in Nat
    BY <1>4, SessionFields, Zenon
<1>11. ASSUME NEW cursor \in Nat, cursor <= Len(log)
       PROVE  cursor <= Len(log')
    BY <1>2, <1>6, <1>11
<1>12. "read" \in {"cursor", "read"}
    OBVIOUS
<1>13. ReloadFresh(reload, db, log', last, updates, owed', foreign, masked)
    BY <1>9, <1>10, <1>11, <1>12, Zenon DEF SessionInv, ReloadFresh
<1>14. SessionFresh(session, reload, db, log', last, updates, owed', foreign, masked)
    BY <1>9, <1>10, <1>11, Zenon DEF SessionInv, SessionFresh
<1> QED
    BY <1>1, <1>3, <1>5, <1>7, <1>13, <1>14, Zenon DEF SessionInv

\* Frames for others leave what is coming.
LEMMA PublishOtherKeeps ==
    ASSUME SessionInv, PublishOther
    PROVE  SessionInv'
<1>1. /\ db' = db /\ owed' = owed /\ updates' = updates
      /\ session' = session /\ reload' = reload /\ poll' = poll /\ foreign' = foreign
      /\ masked' = masked
    BY SMTT(30) DEF PublishOther, sessionVars
<1>2. PICK m \in Message : Broadcast(m)
    BY DEF PublishOther
<1>3. /\ HubInv' /\ StreamTypes' /\ Tracked'
      /\ Notice(conn'[Session], stream'[Session], foreign', masked')
      /\ stream' = stream /\ log' = Append(log, m)
    BY <1>1, <1>2, BroadcastStep, Zenon
<1>4. SessionTypes /\ log \in Seq(Message) /\ Len(log) \in Nat
    BY TrackedFacts, Zenon DEF SessionInv
<1>5. SessionTypes'
    BY <1>1, <1>4, Zenon DEF SessionTypes
<1>6. /\ Len(log') = Len(log) + 1
      /\ \A n \in 1..Len(log) : n \in 1..Len(log') /\ log'[n] = log[n]
    BY <1>3, <1>4, SMTT(30)
<1>7. PICK last : last = stream[Session].lastID
    BY Zenon
<1>8. \A cursor : Coming(cursor, log, last, updates, owed, foreign)
                     => Coming(cursor, log', last, updates, owed, foreign)
    BY <1>6, Zenon DEF Coming
<1>9. session.cursor \in Nat /\ reload.cursor \in Nat
    BY <1>4, SessionFields, Zenon
<1>10. ASSUME NEW cursor \in Nat, cursor <= Len(log)
       PROVE  cursor <= Len(log')
    BY <1>4, <1>6, <1>10
<1>11. ReloadFresh(reload, db, log', last, updates, owed, foreign, masked)
    BY <1>7, <1>8, <1>9, <1>10, Zenon DEF SessionInv, ReloadFresh
<1>12. SessionFresh(session, reload, db, log', last, updates, owed, foreign, masked)
    BY <1>7, <1>8, <1>9, <1>10, Zenon DEF SessionInv, SessionFresh
<1> QED
    BY <1>1, <1>3, <1>5, <1>7, <1>11, <1>12, Zenon DEF SessionInv

\* The connection passes a frame on or ends.
LEMMA TransportKeeps ==
    ASSUME SessionInv, Transport
    PROVE  SessionInv'
<1>1. /\ db' = db /\ owed' = owed /\ updates' = updates
      /\ session' = session /\ reload' = reload /\ poll' = poll /\ foreign' = foreign
      /\ masked' = masked
    BY SMTT(30) DEF Transport, sessionVars
<1>2. PICK v : v = Viewed(stream[Session], foreign, masked)
    BY Zenon
<1>3. PICK base \in Nat :
        Bounded(base, session, reload) /\ Tracks(base, log, conn[Session], v)
    BY <1>2, TrackedFacts, Zenon
<1>4. /\ log \in Seq(Message) /\ Session \in Client /\ conn \in [Client -> Conn]
      /\ conn[Session] \in Conn
    BY TrackedFacts, Zenon
<1>5. PICK k : k = Knows(base, v.lastID)
    BY Zenon
<1>6. Safe(Session, log, conn[Session], v, k)
    BY <1>3, <1>5, Zenon DEF Tracks
<1>7. PICK x : /\ conn' = [conn EXCEPT ![Session] = x] /\ Safe(Session, log, x, v, k)
               /\ Notice(x, stream[Session], foreign, masked)
  <2>1. CASE Forward(Session)
    <3>1. PICK x : x = [conn[Session] EXCEPT
                          !.queue = Tail(conn[Session].queue),
                          !.wire = Append(conn[Session].wire, Head(conn[Session].queue))]
        OBVIOUS
    <3>2. conn' = [conn EXCEPT ![Session] = x] /\ conn[Session].queue # <<>>
        BY <2>1, <3>1, Zenon DEF Forward
    <3>3. Safe(Session, log, x, v, k)
        BY <1>4, <1>6, <3>1, <3>2, ForwardSafe, Zenon
    <3>4. x.up = conn[Session].up /\ x.wire = Append(conn[Session].wire, Head(conn[Session].queue))
        BY <1>4, <3>1, Zenon DEF Conn
    <3>5. ASSUME conn[Session].up = TRUE, foreign = TRUE, masked = FALSE
          PROVE  Head(x.wire) = Head(conn[Session].wire)
      <4>1. stream[Session].connected = FALSE
          BY <3>5, Zenon DEF SessionInv, Notice
      <4>2. v.connected = FALSE
          BY <1>2, <4>1, TrackedFacts, ViewedFacts, ZenonT(30)
      <4>3. Greeting(Session, log, conn[Session], v, k)
          BY <1>6, <3>5, <4>2, Zenon DEF Safe
      <4>4. conn[Session].wire # <<>>
          BY <4>3, Zenon DEF Greeting
      <4>5. conn[Session].wire \in Seq(Signal) /\ Head(conn[Session].queue) \in Signal
          BY <1>4, <3>2, HeadAndTail DEF Conn
      <4>6. PICK w \in Seq(Signal), g \in Signal : w = conn[Session].wire /\ g = Head(conn[Session].queue)
          BY <4>5
      <4>7. Head(Append(w, g)) = Head(w)
          BY <4>4, <4>6
      <4> QED
          BY <3>4, <4>6, <4>7, Zenon
    <3>6. Notice(x, stream[Session], foreign, masked)
        BY <3>4, <3>5, Zenon DEF SessionInv, Notice
    <3> QED
        BY <3>2, <3>3, <3>6, Zenon
  <2>2. CASE End(Session)
    <3>1. conn' = [conn EXCEPT ![Session] = NoConn]
        BY <2>2, Zenon DEF End
    <3>2. Safe(Session, log, NoConn, v, k)
        BY <1>4, <1>6, EndSafe, Zenon
    <3>3. NoConn.up # TRUE
        BY SMTT(30) DEF NoConn
    <3>4. Notice(NoConn, stream[Session], foreign, masked)
        BY <3>3, Zenon DEF Notice
    <3> QED
        BY <3>1, <3>2, <3>4, Zenon
  <2> QED
      BY <2>1, <2>2, Zenon DEF Transport
<1>8. /\ log' = log /\ history' = history /\ lastState' = lastState /\ stream' = stream
    BY DEF Transport, Forward, End, hubVars
<1>9. HubInv'
    BY <1>8, Zenon DEF SessionInv, HubInv, HubTypeOK, HistoryIsTail, LastStateIsKept, Dropped
<1>10. x \in Conn
    BY <1>7, Zenon DEF Safe
<1>11. StreamTypes' /\ conn'[Session] = x
    BY <1>4, <1>7, <1>8, <1>10, Zenon DEF SessionInv, StreamTypes
<1>12. Tracks(base, log', conn'[Session], Viewed(stream'[Session], foreign', masked'))
    BY <1>1, <1>2, <1>5, <1>7, <1>8, <1>11, Zenon DEF Tracks
<1>13. Tracked'
    BY <1>1, <1>3, <1>12, Zenon DEF Tracked
<1>14. SessionTypes'
    BY <1>1, Zenon DEF SessionInv, SessionTypes
<1> QED
    BY <1>1, <1>7, <1>8, <1>9, <1>11, <1>13, <1>14, Zenon DEF SessionInv

\* loadChatBootstrap and followJobEvents open the stream.
LEMMA ConnectKeeps ==
    ASSUME SessionInv, Connect
    PROVE  SessionInv'
<1>1. /\ db' = db /\ owed' = owed /\ updates' = updates /\ reload' = reload /\ poll' = poll
      /\ foreign' = foreign
      /\ session' = IF session.phase = "new" THEN [session EXCEPT !.phase = "open"] ELSE session
      /\ masked' = (masked \/ (foreign /\ stream[Session].lastID <= LatestID))
      /\ Open(Session)
    BY SMTT(30) DEF Connect
<1>2. /\ log \in Seq(Message) /\ Len(log) \in Nat /\ Session \in Client /\ LatestID = Len(log)
      /\ conn \in [Client -> Conn] /\ stream \in [Client -> Stream]
      /\ conn[Session] \in Conn /\ stream[Session] \in Stream
      /\ foreign \in BOOLEAN /\ masked \in BOOLEAN
      /\ SessionTypes /\ PhasesOK(session, stream[Session], reload, poll, foreign) /\ HubInv
    BY TrackedFacts, Zenon DEF SessionInv, LatestID
<1>3. PICK s \in Stream : s = stream[Session]
    BY <1>2
<1>4. PICK v : v = Viewed(s, foreign, masked)
    BY Zenon
<1>5. PICK base \in Nat :
        /\ Bounded(base, session, reload) /\ base <= Len(log)
        /\ Tracks(base, log, conn[Session], v)
    BY <1>3, <1>4, TrackedFacts, Zenon
<1>6. PICK k : k = Knows(base, v.lastID) /\ Safe(Session, log, conn[Session], v, k)
    BY <1>5, Zenon DEF Tracks
<1>7. /\ s.resuming \in BOOLEAN /\ s.lastID \in Nat /\ s.failed = FALSE
      /\ s.resuming = FALSE => s.lastID = 0
  <2>1. v.failed = FALSE /\ (v.resuming = FALSE => v.lastID = 0)
      BY <1>6, Zenon DEF Safe
  <2>2. s.resuming \in BOOLEAN /\ s.lastID \in Nat
      BY DEF Stream
  <2>3. s.failed = FALSE
      BY <1>2, <1>4, <2>1, ViewedFacts, Zenon
  <2>4. ASSUME s.resuming = FALSE PROVE s.lastID = 0
    <3>1. foreign = FALSE
      <4>1. TRUE # FALSE
          BY SMTT(30)
      <4> QED
          BY <1>2, <1>3, <2>4, <4>1, Zenon DEF PhasesOK
    <3>2. v = s
        BY <1>2, <1>4, <3>1, ViewedFacts, Zenon
    <3> QED
        BY <2>1, <2>4, <3>2, Zenon
  <2> QED
      BY <2>2, <2>3, <2>4, Zenon
<1>8. PICK gap, replay : /\ gap = (s.resuming /\ Gap(s.lastID))
                         /\ replay = IF s.resuming /\ ~gap THEN Replay(Session, s.lastID) ELSE <<>>
    BY Zenon
<1>9. PICK hello : hello = [connected |-> TRUE, id |-> LatestID, count |-> Len(replay), gap |-> gap]
    BY Zenon
<1>10. PICK x : x = [up |-> TRUE, listed |-> TRUE, room |-> Buffer + Len(replay),
                     queue |-> replay, wire |-> <<hello>>]
    BY Zenon
<1>11. PICK t : t = [s EXCEPT !.resuming = TRUE, !.connected = FALSE]
    BY Zenon
<1>12. /\ conn' = [conn EXCEPT ![Session] = x]
       /\ stream' = [stream EXCEPT ![Session] = t]
       /\ UNCHANGED hubVars
  <2>1. conn' = [conn EXCEPT ![Session] = x]
      BY <1>1, <1>3, <1>8, <1>9, <1>10, Zenon DEF Open
  <2> QED
      BY <1>1, <1>3, <1>11, <2>1, Zenon DEF Open
<1>13. log' = log /\ history' = history /\ lastState' = lastState
    BY <1>12, SMTT(30) DEF hubVars
<1>14. HubInv'
    BY <1>2, <1>13, Zenon DEF HubInv, HubTypeOK, HistoryIsTail, LastStateIsKept, Dropped
<1>15. t \in Stream /\ t.resuming = TRUE /\ t.connected = FALSE /\ t.lastID = s.lastID
    BY <1>11, Zenon DEF Stream
<1>16. masked' \in BOOLEAN
    BY <1>1, <1>2, Zenon
<1>17. /\ session' \in SessionState /\ session'.cursor = session.cursor
       /\ session'.shown = session.shown /\ session'.missed = session.missed
       /\ session'.phase # "new"
       /\ session'.phase = "running" => session' = session
       /\ session.phase # "new" => session' = session
  <2>1. session \in SessionState
      BY <1>2 DEF SessionTypes
  <2>2. CASE session.phase = "new"
    <3>1. session' = [session EXCEPT !.phase = "open"]
        BY <1>1, <2>2, Zenon
    <3>2. /\ session' \in SessionState /\ session'.cursor = session.cursor
          /\ session'.shown = session.shown /\ session'.missed = session.missed
          /\ session'.phase = "open"
        BY <2>1, <3>1, Zenon DEF SessionState
    <3>3. "open" # "new" /\ "open" # "running"
        OBVIOUS
    <3> QED
        BY <2>2, <3>2, <3>3, Zenon
  <2>3. CASE session.phase # "new"
    <3>1. session' = session
        BY <1>1, <2>3, Zenon
    <3> QED
        BY <2>1, <2>3, <3>1, Zenon
  <2> QED
      BY <2>2, <2>3
<1>18. SessionTypes'
    BY <1>1, <1>2, <1>16, <1>17, Zenon DEF SessionTypes
<1>19. /\ stream'[Session] = t /\ conn'[Session] = x
    BY <1>2, <1>12, Zenon
<1>20. PhasesOK(session', t, reload', poll', foreign')
    BY <1>1, <1>15, <1>17, Zenon DEF PhasesOK
<1>21. masked' = FALSE => masked = FALSE
    BY <1>1, <1>2, Zenon
<1>22. /\ ReloadFresh(reload', db', log', t.lastID, updates', owed', foreign', masked')
       /\ SessionFresh(session', reload', db', log', t.lastID, updates', owed', foreign', masked')
  <2>1. ReloadFresh(reload', db', log', t.lastID, updates', owed', foreign', masked')
      BY <1>1, <1>3, <1>13, <1>15, <1>21, Zenon DEF SessionInv, ReloadFresh
  <2>2. SessionFresh(session', reload', db', log', t.lastID, updates', owed', foreign', masked')
      BY <1>1, <1>3, <1>13, <1>15, <1>17, <1>21, ZenonT(30) DEF SessionInv, SessionFresh
  <2> QED
      BY <2>1, <2>2
<1>23. /\ x \in Conn
       /\ Notice(x, t, foreign', masked')
       /\ \E b \in Nat : /\ Bounded(b, session', reload')
                         /\ Tracks(b, log, x, Viewed(t, foreign', masked'))
  <2>1. CASE foreign = FALSE \/ masked = TRUE \/ s.lastID <= Len(log)
    <3>1. foreign' = FALSE \/ masked' = TRUE
      <4>1. CASE foreign = FALSE
          BY <1>1, <4>1, Zenon
      <4>2. CASE foreign = TRUE
          BY <1>1, <1>2, <1>3, <2>1, <4>2, Zenon
      <4> QED
          BY <1>2, <4>1, <4>2, Zenon
    <3>2. foreign' \in BOOLEAN /\ masked' \in BOOLEAN /\ TRUE # FALSE
        BY <1>1, <1>2, <1>16, SMTT(30)
    <3>3. Viewed(t, foreign', masked') = t /\ Notice(x, t, foreign', masked')
        BY <1>15, <3>1, <3>2, ViewedFacts, Zenon DEF Notice
    <3>4. s.lastID <= Len(log)
      <4>1. CASE foreign = FALSE \/ masked = TRUE
        <5>1. v = s
            BY <1>2, <1>4, <4>1, ViewedFacts, Zenon
        <5> QED
            BY <1>6, <5>1, Zenon DEF Safe
      <4> QED
          BY <2>1, <4>1, Zenon
    <3>5. PICK j : j = Knows(base, s.lastID) /\ j.base = base
        BY <1>7, KnowsFacts, ZenonT(30)
    <3>6. Safe(Session, log, NoConn, s, j)
        BY <1>2, <1>5, <1>7, <3>4, <3>5, DownSafe, Zenon
    <3>7. PICK l : l = IF s.resuming THEN j ELSE [base |-> LatestID, taken |-> {}]
        BY ZenonT(30)
    <3>8. Opening(Session, s, j, gap, replay, hello, x, t, l)
        BY <1>8, <1>9, <1>10, <1>11, <3>7, Zenon DEF Opening
    <3>9. Safe(Session, log, x, t, l)
        BY <1>2, <3>6, <3>8, OpenedSafe, ZenonT(30)
    <3>10. Safe(Session, log, x, t, Knows(l.base, t.lastID))
        BY <1>2, <3>9, SafeKnows, Zenon
    <3>11. x \in Conn
        BY <3>9, Zenon DEF Safe
    <3>12. l.base \in Nat /\ Bounded(l.base, session', reload')
      <4>1. CASE s.resuming = TRUE
        <5>1. l.base = base
            BY <3>5, <3>7, <4>1, ZenonT(30)
        <5>2. session.phase # "new"
            BY <1>2, <1>3, <4>1 DEF PhasesOK
        <5> QED
            BY <1>1, <1>5, <1>17, <5>1, <5>2, Zenon
      <4>2. CASE s.resuming = FALSE
        <5>1. l.base = Len(log)
            BY <1>2, <3>7, <4>2, Zenon
        <5>2. session.phase = "new" /\ reload.phase = "none"
            BY <1>2, <1>3, <4>2 DEF PhasesOK
        <5>3. session'.phase # "running"
            BY <1>17, <5>2, Zenon
        <5>4. "none" \notin {"cursor", "read"}
            OBVIOUS
        <5> QED
            BY <1>1, <1>2, <5>1, <5>2, <5>3, <5>4, Zenon DEF Bounded
      <4> QED
          BY <1>7, <4>1, <4>2, Zenon
    <3> QED
        BY <3>3, <3>10, <3>11, <3>12, Zenon DEF Tracks
  <2>2. CASE foreign = TRUE /\ masked = FALSE /\ ~(s.lastID <= Len(log))
    <3>1. foreign' = TRUE /\ masked' = FALSE
        BY <1>1, <1>2, <1>3, <2>2, Zenon
    <3>2. s.resuming = TRUE
        BY <1>2, <1>3, <2>2, Zenon DEF PhasesOK
    <3>3. Gap(s.lastID)
      <4>1. s.lastID > LatestID
          BY <1>2, <1>7, <2>2
      <4> QED
          BY <4>1, Zenon DEF Gap
    <3>4. gap = TRUE
        BY <1>8, <3>2, <3>3, Zenon
    <3>5. replay = <<>> /\ Len(replay) = 0 /\ Buffer + Len(replay) = Buffer
      <4>1. replay = <<>>
          BY <1>8, <3>4, Zenon
      <4> QED
          BY <4>1, HubAssumption, SMTT(30)
    <3>6. hello = [connected |-> TRUE, id |-> Len(log), count |-> 0, gap |-> TRUE]
        BY <1>2, <1>9, <3>4, <3>5, Zenon
    <3>7. x = [up |-> TRUE, listed |-> TRUE, room |-> Buffer, queue |-> <<>>, wire |-> <<hello>>]
        BY <1>10, <3>5, ZenonT(30)
    <3>8. PICK z : z = [s EXCEPT !.resuming = TRUE, !.connected = FALSE, !.lastID = 0]
        BY Zenon
    <3>9. Safe(Session, log, x, z, Knows(0, z.lastID))
        BY <1>2, <1>7, <3>6, <3>7, <3>8, GapSafe, Zenon
    <3>10. Viewed(t, foreign', masked') = z
      <4>1. Viewed(t, foreign', masked') = [t EXCEPT !.lastID = 0]
          BY <3>1, Zenon DEF Viewed
      <4>2. [t EXCEPT !.lastID = 0] = z
          BY <1>11, <3>8 DEF Stream
      <4> QED
          BY <4>1, <4>2, ZenonT(30)
    <3>11. Bounded(0, session', reload') /\ 0 \in Nat
      <4>1. session'.cursor \in Nat /\ reload'.cursor \in Nat
          BY <1>1, <1>2, <1>17, SessionFields, Zenon
      <4> QED
          BY <4>1 DEF Bounded
    <3>12. Head(x.wire).gap = TRUE
      <4>1. x.wire = <<hello>> /\ hello.gap = TRUE
          BY <3>6, <3>7, Zenon
      <4> QED
          BY <4>1, SMTT(30)
    <3>13. x \in Conn /\ Notice(x, t, foreign', masked')
        BY <1>15, <3>9, <3>12, Zenon DEF Safe, Notice
    <3> QED
        BY <3>9, <3>10, <3>11, <3>13, Zenon DEF Tracks
  <2> QED
      BY <1>2, <2>1, <2>2, Zenon
<1>24. StreamTypes'
    BY <1>2, <1>12, <1>15, <1>23, SMTT(30) DEF StreamTypes
<1>25. Tracked'
    BY <1>13, <1>19, <1>23, Zenon DEF Tracked
<1> QED
    BY <1>14, <1>18, <1>19, <1>20, <1>22, <1>23, <1>24, <1>25, Zenon DEF SessionInv

\* followJobEvents reads a frame and hands it to the session.
LEMMA FollowKeeps ==
    ASSUME SessionInv, Follow
    PROVE  SessionInv'
<1>1. /\ Running /\ Read(Session) /\ foreign' = FALSE
      /\ updates' = Append(updates, Head(conn[Session].wire))
      /\ db' = db /\ owed' = owed /\ session' = session /\ reload' = reload /\ poll' = poll
      /\ masked' = masked
    BY SMTT(30) DEF Follow
<1>2. /\ log \in Seq(Message) /\ Len(log) \in Nat /\ Session \in Client
      /\ Concerns(Session, Announce)
      /\ conn \in [Client -> Conn] /\ stream \in [Client -> Stream]
      /\ conn[Session] \in Conn /\ stream[Session] \in Stream
      /\ foreign \in BOOLEAN /\ masked \in BOOLEAN
      /\ SessionTypes /\ PhasesOK(session, stream[Session], reload, poll, foreign) /\ HubInv
    BY TrackedFacts, Zenon DEF SessionInv
<1>3. PICK s \in Stream : s = stream[Session]
    BY <1>2
<1>4. PICK cn : cn = conn[Session]
    BY Zenon
<1>5. PICK sig : sig = Head(cn.wire)
    BY Zenon
<1>6. PICK v : v = Viewed(s, foreign, masked)
    BY Zenon
<1>7. PICK base \in Nat : Bounded(base, session, reload) /\ Tracks(base, log, cn, v)
    BY <1>3, <1>4, <1>6, TrackedFacts, Zenon
<1>8. Safe(Session, log, cn, v, Knows(base, v.lastID)) /\ cn.wire # <<>> /\ UNCHANGED hubVars
    BY <1>1, <1>4, <1>7, Zenon DEF Tracks, Read
<1>9. PICK x : x = [cn EXCEPT !.wire = Tail(cn.wire)]
    BY Zenon
<1>10. /\ ~OutOfOrder(v, sig) /\ sig \in Signal
       /\ sig.connected = TRUE <=> v.connected = FALSE
       /\ \E b \in {0, base} : Safe(Session, log, x, Taken(v, sig), Knows(b, Taken(v, sig).lastID))
       /\ \A n \in 1..Len(log) : Concerns(Session, log[n]) /\ n > base /\ n > v.lastID
             => n > Taken(v, sig).lastID \/ Bears(sig, n)
    BY <1>2, <1>5, <1>8, <1>9, FrameTaken, ZenonT(30)
<1>11. sig.connected \in BOOLEAN /\ sig.id \in Nat /\ sig.gap \in BOOLEAN /\ TRUE # FALSE
    BY <1>10, SignalFields, SMTT(30)
<1>12. PICK t : t = Taken(s, sig)
    BY Zenon
<1>13. /\ ~OutOfOrder(s, sig) /\ Taken(v, sig) = t
       /\ foreign = TRUE /\ masked = FALSE => sig.connected = TRUE /\ sig.gap = TRUE
       /\ foreign = FALSE \/ masked = TRUE => v = s
  <2>1. CASE foreign = FALSE \/ masked = TRUE
    <3>1. v = s
        BY <1>2, <1>6, <2>1, ViewedFacts, Zenon
    <3> QED
        BY <1>10, <1>11, <1>12, <2>1, <3>1, Zenon
  <2>2. CASE foreign = TRUE /\ masked = FALSE
    <3>1. cn.up = TRUE
        BY <1>2, <1>8, SafeFields, ZenonT(30)
    <3>2. s.connected = FALSE /\ sig.gap = TRUE
        BY <1>3, <1>4, <1>5, <2>2, <3>1, Zenon DEF SessionInv, Notice
    <3>3. v.connected = FALSE
        BY <1>2, <1>6, <3>2, ViewedFacts, ZenonT(30)
    <3>4. sig.connected = TRUE
        BY <1>10, <3>3, ZenonT(30)
    <3>5. ~OutOfOrder(s, sig)
        BY <3>2, <3>4, Zenon DEF OutOfOrder
    <3>6. v = [s EXCEPT !.lastID = 0]
        BY <1>2, <1>6, <2>2, ViewedFacts, Zenon
    <3>7. Greeted(v, sig) = Greeted(s, sig)
        BY <3>2, <3>6, Zenon DEF Greeted, Stream
    <3>8. Taken(v, sig) = t
        BY <1>12, <3>4, <3>7, Zenon DEF Taken
    <3> QED
        BY <1>11, <2>2, <3>2, <3>4, <3>5, <3>8, Zenon
  <2> QED
      BY <1>2, <2>1, <2>2, Zenon
<1>14. conn' = [conn EXCEPT ![Session] = x] /\ stream' = [stream EXCEPT ![Session] = t]
  <2>1. /\ stream' = [stream EXCEPT ![Session] =
                         IF sig.connected THEN Greeted(s, sig) ELSE Advanced(s, sig.id)]
        /\ conn' = [conn EXCEPT ![Session] = x]
      BY <1>1, <1>3, <1>4, <1>5, <1>9, <1>13, Zenon DEF Read
  <2> QED
      BY <1>12, <2>1, Zenon DEF Taken
<1>15. PICK b \in {0, base} : Safe(Session, log, x, t, Knows(b, t.lastID))
    BY <1>10, <1>13, ZenonT(30)
<1>16. x \in Conn /\ t \in Stream
    BY <1>15, Zenon DEF Safe
<1>17. /\ StreamTypes' /\ conn'[Session] = x /\ stream'[Session] = t
  <2>1. conn'[Session] = x /\ stream'[Session] = t
      BY <1>2, <1>14, Zenon
  <2> QED
      BY <1>2, <1>14, <1>16, <2>1, SMTT(30) DEF StreamTypes
<1>18. log' = log /\ history' = history /\ lastState' = lastState
    BY <1>8, SMTT(30) DEF hubVars
<1>19. HubInv'
    BY <1>2, <1>18, Zenon DEF HubInv, HubTypeOK, HistoryIsTail, LastStateIsKept, Dropped
<1>20. Tracked'
  <2>1. Viewed(t, foreign', masked') = t
      BY <1>1, <1>11, ZenonT(30) DEF Viewed
  <2>2. b \in Nat /\ Bounded(b, session, reload)
    <3>1. Bounded(0, session, reload) /\ 0 \in Nat
      <4>1. session.cursor \in Nat /\ reload.cursor \in Nat
          BY <1>2, SessionFields, Zenon
      <4> QED
          BY <4>1 DEF Bounded
    <3> QED
        BY <1>7, <3>1, Zenon
  <2> QED
      BY <1>1, <1>15, <1>17, <1>18, <2>1, <2>2, Zenon DEF Tracked, Tracks
<1>21. Notice(x, t, foreign', masked')
    BY <1>1, <1>11, Zenon DEF Notice
<1>22. t.resuming = TRUE
  <2>1. s.resuming = TRUE
    <3>1. session.phase # "new"
        BY <1>1 DEF Running
    <3> QED
        BY <1>2, <1>3, <3>1, Zenon DEF PhasesOK
  <2>2. Greeted(s, sig).resuming = s.resuming /\ Advanced(s, sig.id).resuming = s.resuming
      BY Zenon DEF Greeted, Advanced, Stream
  <2> QED
      BY <1>12, <2>1, <2>2, Zenon DEF Taken
<1>23. PhasesOK(session', t, reload', poll', foreign')
  <2>1. session.phase # "new"
      BY <1>1 DEF Running
  <2> QED
      BY <1>1, <1>22, <2>1, Zenon DEF PhasesOK
<1>24. PICK u \in Seq(Signal) : u = updates
    BY <1>2 DEF SessionTypes
<1>25. PICK w \in Seq(Signal) : w = Append(u, sig)
  <2>1. sig \in Signal
      BY <1>10, Zenon
  <2>2. Append(u, sig) \in Seq(Signal)
      BY <2>1
  <2> QED
      BY <2>2, Zenon
<1>26. /\ updates' = w /\ Len(u) \in Nat /\ Len(w) = Len(u) + 1 /\ w[Len(w)] = sig
       /\ Len(w) \in 1..Len(w)
       /\ \A i \in 1..Len(u) : i \in 1..Len(w) /\ w[i] = u[i]
  <2>1. updates' = w
      BY <1>1, <1>4, <1>5, <1>24, <1>25, Zenon
  <2>2. /\ Len(u) \in Nat /\ Len(w) = Len(u) + 1 /\ w[Len(u) + 1] = sig
        /\ \A i \in 1..Len(u) : w[i] = u[i]
    <3>1. sig \in Signal
        BY <1>10, Zenon
    <3> QED
        BY <1>25, <3>1, SMTT(30)
  <2>3. Len(w) \in 1..Len(w) /\ \A i \in 1..Len(u) : i \in 1..Len(w)
      BY <2>2
  <2> QED
      BY <2>1, <2>2, <2>3, Zenon
<1>27. SessionTypes'
    BY <1>1, <1>2, <1>26, Zenon DEF SessionTypes
<1>28. ASSUME NEW cursor \in Nat, base <= cursor, masked = FALSE,
              Coming(cursor, log, s.lastID, u, owed, foreign)
       PROVE  Coming(cursor, log, t.lastID, w, owed, FALSE)
  <2>1. CASE owed > 0
      BY <2>1, ZenonT(30) DEF Coming
  <2>2. CASE foreign = TRUE
    <3>1. TellsOf(cursor, w[Len(w)])
        BY <1>13, <1>26, <1>28, <2>2, Zenon DEF TellsOf
    <3> QED
        BY <1>26, <3>1, Zenon DEF Coming
  <2>3. CASE \E i \in 1..Len(u) : TellsOf(cursor, u[i])
      BY <1>26, <2>3, Zenon DEF Coming
  <2>4. CASE foreign = FALSE /\ \E n \in 1..Len(log) : log[n] = Announce /\ n > cursor /\ n > s.lastID
    <3>1. PICK n \in 1..Len(log) : log[n] = Announce /\ n > cursor /\ n > s.lastID
        BY <2>4
    <3>2. n > base
        BY <1>2, <1>28, <3>1, SMTT(30)
    <3>3. n > t.lastID \/ Bears(sig, n)
        BY <1>2, <1>10, <1>13, <2>4, <3>1, <3>2, Zenon
    <3>4. CASE n > t.lastID
        BY <3>1, <3>4, ZenonT(30) DEF Coming
    <3>5. CASE Bears(sig, n)
      <4>1. TellsOf(cursor, w[Len(w)])
        <5>1. CASE sig.connected = TRUE
            BY <1>26, <3>5, <5>1, ZenonT(30) DEF Bears, TellsOf
        <5>2. CASE sig.connected = FALSE
          <6>1. sig.id = n
              BY <1>11, <3>5, <5>2, ZenonT(30) DEF Bears
          <6> QED
              BY <1>11, <1>26, <3>1, <5>2, <6>1, ZenonT(30) DEF TellsOf
        <5> QED
            BY <1>11, <5>1, <5>2, Zenon
      <4> QED
          BY <1>26, <4>1, Zenon DEF Coming
    <3> QED
        BY <3>3, <3>4, <3>5, Zenon
  <2> QED
      BY <1>2, <1>28, <2>1, <2>2, <2>3, <2>4, Zenon DEF Coming
<1>29. session.cursor \in Nat /\ reload.cursor \in Nat
    BY <1>2, SessionFields, Zenon
<1>30. ReloadFresh(reload, db, log, t.lastID, w, owed, FALSE, masked)
  <2>1. ReloadFresh(reload, db, log, s.lastID, u, owed, foreign, masked)
      BY <1>3, <1>24, Zenon DEF SessionInv
  <2>2. reload.phase = "read" => base <= reload.cursor
      BY <1>7 DEF Bounded
  <2> QED
      BY <1>28, <1>29, <2>1, <2>2, Zenon DEF ReloadFresh
<1>31. SessionFresh(session, reload, db, log, t.lastID, w, owed, FALSE, masked)
  <2>1. SessionFresh(session, reload, db, log, s.lastID, u, owed, foreign, masked)
      BY <1>3, <1>24, Zenon DEF SessionInv
  <2>2. base <= session.cursor
      BY <1>1, <1>7, SMTT(30) DEF Bounded, Running
  <2>3. GapTold(u) => GapTold(w)
      BY <1>26, Zenon DEF GapTold
  <2>4. foreign = TRUE /\ masked = FALSE => GapTold(w)
      BY <1>13, <1>26, Zenon DEF GapTold
  <2>5. ASSUME session.phase = "running", reload.phase = "none", session.missed = FALSE,
               masked = FALSE
        PROVE  /\ session.shown # db => Coming(session.cursor, log, t.lastID, w, owed, FALSE)
               /\ session.cursor <= Len(log) \/ FALSE = TRUE \/ GapTold(w)
    <3>1. /\ session.shown # db => Coming(session.cursor, log, s.lastID, u, owed, foreign)
          /\ session.cursor <= Len(log) \/ foreign = TRUE \/ GapTold(u)
        BY <2>1, <2>5, ZenonT(30) DEF SessionFresh
    <3>2. session.shown # db => Coming(session.cursor, log, t.lastID, w, owed, FALSE)
        BY <1>28, <1>29, <2>2, <2>5, <3>1, Zenon
    <3> QED
        BY <2>3, <2>4, <2>5, <3>1, <3>2, Zenon
  <2> QED
      BY <2>5, Zenon DEF SessionFresh
<1> QED
    BY <1>1, <1>17, <1>18, <1>19, <1>20, <1>21, <1>23, <1>26, <1>27, <1>30, <1>31, Zenon
       DEF SessionInv

\* The server stops and starts: the hub begins anew, and a client that comes back
\* with a cursor of the old one will be told of a gap, unless the new one has
\* reached that cursor by then.
LEMMA RestartKeeps ==
    ASSUME SessionInv, Restart
    PROVE  SessionInv'
<1>1. /\ log' = <<>> /\ history' = <<>> /\ lastState' = [k \in Keys |-> 0]
      /\ conn' = [c \in Client |-> NoConn]
      /\ owed' = 0 /\ reload' = NoReload
      /\ session' = IF reload.phase = "none" THEN session ELSE Unserved
      /\ poll' = IF poll.phase = "asked" THEN NoPoll ELSE poll
      /\ foreign' = stream[Session].resuming /\ masked' = FALSE
      /\ db' = db /\ stream' = stream /\ updates' = updates
    BY SMTT(30) DEF Restart
<1>2. /\ Session \in Client /\ conn[Session] \in Conn /\ stream[Session] \in Stream
      /\ stream \in [Client -> Stream] /\ foreign \in BOOLEAN /\ masked \in BOOLEAN
      /\ SessionTypes /\ PhasesOK(session, stream[Session], reload, poll, foreign)
    BY TrackedFacts, Zenon DEF SessionInv
<1>3. HubInv'
  <2>1. HubTypeOK'
      BY <1>1, SMTT(30) DEF HubTypeOK
  <2>2. HistoryIsTail'
      BY <1>1, HubAssumption DEF HistoryIsTail, Dropped
  <2>3. LastStateIsKept'
      BY <1>1, SMTT(30) DEF LastStateIsKept
  <2> QED
      BY <2>1, <2>2, <2>3, Zenon DEF HubInv
<1>4. NoConn \in Conn /\ NoConn.up = FALSE /\ conn'[Session] = NoConn
  <2>1. NoConn \in Conn /\ NoConn.up = FALSE
      BY DEF NoConn, Conn
  <2>2. conn'[Session] = NoConn
      BY <1>1, <1>2, Zenon
  <2> QED
      BY <2>1, <2>2
<1>5. StreamTypes'
    BY <1>1, <1>2, <1>4 DEF StreamTypes
<1>6. /\ session' \in SessionState /\ session'.cursor = session.cursor
      /\ session'.phase = "new" => session' = session
      /\ session'.phase = "running" => session.phase = "running"
  <2>1. session \in SessionState
      BY <1>2, Zenon DEF SessionTypes
  <2>2. CASE reload.phase = "none"
    <3>1. session' = session
        BY <1>1, <2>2, Zenon
    <3> QED
        BY <2>1, <3>1, Zenon
  <2>3. CASE reload.phase # "none"
    <3>1. session' = Unserved
        BY <1>1, <2>3, Zenon
    <3> QED
        BY <1>2, <3>1, UnservedFacts, Zenon
  <2> QED
      BY <2>2, <2>3, SMTT(30)
<1>7. /\ poll' \in Poll
      /\ poll'.phase = "none" \/ poll' = poll
  <2>1. poll \in Poll
      BY <1>2, Zenon DEF SessionTypes
  <2> QED
      BY <1>1, <2>1, NoReloadFacts, Zenon
<1>8. PICK s \in Stream : s = stream[Session]
    BY <1>2
<1>9. foreign' \in BOOLEAN /\ masked' \in BOOLEAN /\ s.resuming \in BOOLEAN
    BY <1>1, <1>8, Zenon DEF Stream
<1>10. SessionTypes'
  <2>1. owed' \in Nat
      BY <1>1, SMTT(30)
  <2> QED
      BY <1>1, <1>2, <1>6, <1>7, <1>9, <2>1, NoReloadFacts, Zenon DEF SessionTypes
<1>11. "none" \notin {"cursor", "read"} /\ "none" # "read" /\ TRUE # FALSE
    OBVIOUS
<1>12. PhasesOK(session', s, reload', poll', foreign')
  <2>1. ASSUME session'.phase = "new"
        PROVE  s.resuming = FALSE /\ reload'.phase = "none" /\ poll'.phase = "none"
      BY <1>1, <1>2, <1>6, <1>7, <1>8, <2>1, NoReloadFacts, Zenon DEF PhasesOK
  <2>2. ASSUME session'.phase # "new" PROVE s.resuming = TRUE
    <3>1. CASE reload.phase = "none"
        BY <1>1, <1>2, <1>8, <2>2, <3>1, Zenon DEF PhasesOK
    <3>2. CASE reload.phase # "none"
        BY <1>2, <1>8, <3>2, ZenonT(30) DEF PhasesOK
    <3> QED
        BY <3>1, <3>2, Zenon
  <2> QED
      BY <1>1, <1>8, <2>1, <2>2, Zenon DEF PhasesOK
<1>13. PICK v : /\ v = Viewed(s, foreign, masked)
                /\ \E base \in Nat :
                      Safe(Session, log, conn[Session], v, Knows(base, v.lastID))
    BY <1>8, TrackedFacts, Zenon DEF Tracks
<1>14. s.failed = FALSE /\ (s.resuming = FALSE => s.lastID = 0)
  <2>1. v.failed = FALSE /\ (v.resuming = FALSE => v.lastID = 0)
      BY <1>13, Zenon DEF Safe
  <2>2. s.failed = FALSE
      BY <1>2, <1>13, <2>1, ViewedFacts, Zenon
  <2>3. ASSUME s.resuming = FALSE PROVE s.lastID = 0
    <3>1. foreign = FALSE
        BY <1>2, <1>8, <1>11, <2>3, Zenon DEF PhasesOK
    <3>2. v = s
        BY <1>2, <1>13, <3>1, ViewedFacts, ZenonT(30)
    <3> QED
        BY <2>1, <2>3, <3>2, Zenon
  <2> QED
      BY <2>2, <2>3, Zenon
<1>15. PICK w : w = Viewed(s, foreign', masked')
    BY ZenonT(30)
<1>16. w \in Stream /\ w.failed = FALSE /\ w.lastID = 0
  <2>1. w \in Stream /\ w.failed = FALSE
      BY <1>9, <1>14, <1>15, ViewedFacts, ZenonT(30)
  <2>2. CASE s.resuming = TRUE
    <3>1. w = [s EXCEPT !.lastID = 0]
        BY <1>1, <1>8, <1>9, <1>15, <2>2, ViewedFacts, Zenon
    <3>2. w.lastID = 0
        BY <3>1, ZenonT(30) DEF Stream
    <3> QED
        BY <2>1, <3>2, SMTT(30)
  <2>3. CASE s.resuming = FALSE
    <3>1. w = s
        BY <1>1, <1>8, <1>9, <1>15, <2>3, ViewedFacts, ZenonT(30)
    <3> QED
        BY <1>14, <2>1, <2>3, <3>1, Zenon
  <2> QED
      BY <1>9, <2>2, <2>3, Zenon
<1>17. Tracked'
  <2>1. <<>> \in Seq(Message) /\ 0 <= Len(<<>>) /\ 0 \in Nat
      BY SMTT(30)
  <2>2. PICK L \in Seq(Message) : L = <<>> /\ 0 <= Len(L)
      BY <2>1, Zenon
  <2>3. Safe(Session, L, NoConn, w, Knows(0, w.lastID))
      BY <1>16, <2>1, <2>2, DownSafe, Zenon
  <2>4. Bounded(0, session', reload')
    <3>1. session'.cursor \in Nat /\ reload'.phase = "none"
        BY <1>1, <1>2, <1>6, SessionFields, NoReloadFacts, Zenon
    <3> QED
        BY <3>1, SMTT(30) DEF Bounded
  <2> QED
      BY <1>1, <1>4, <1>8, <1>15, <2>1, <2>2, <2>3, <2>4, ZenonT(30) DEF Tracked, Tracks
<1>18. Notice(conn'[Session], s, foreign', masked')
    BY <1>4, <1>11, ZenonT(30) DEF Notice
<1>19. ReloadFresh(reload', db', log', s.lastID, updates', owed', foreign', masked')
    BY <1>1, <1>11, NoReloadFacts, Zenon DEF ReloadFresh
<1>20. SessionFresh(session', reload', db', log', s.lastID, updates', owed', foreign', masked')
  <2>1. ASSUME session'.phase = "running" PROVE foreign' = TRUE
    <3>1. session.phase = "running" /\ "running" # "new"
        BY <1>6, <2>1, SMTT(30)
    <3> QED
        BY <1>1, <1>2, <3>1, Zenon DEF PhasesOK
  <2> QED
      BY <2>1, Zenon DEF SessionFresh, Coming
<1>21. stream'[Session] = s
    BY <1>1, <1>8, SMTT(30)
<1> QED
    BY <1>3, <1>5, <1>10, <1>12, <1>17, <1>18, <1>19, <1>20, <1>21, ZenonT(30) DEF SessionInv

\* The invariant holds when the server and the session start.
LEMMA SessionStarts == Init => SessionInv
<1> SUFFICES ASSUME Init PROVE SessionInv
    BY SMTT(30)
<1>1. /\ StreamInit /\ db = 0 /\ owed = 0 /\ updates = <<>>
      /\ session = [phase |-> "new", shown |-> 0, cursor |-> 0, missed |-> FALSE]
      /\ reload = NoReload /\ poll = NoPoll /\ foreign = FALSE /\ masked = FALSE
    BY DEF Init
<1>2. /\ StreamInv /\ Session \in Client
    BY <1>1, StreamStarts, SessionAssumption, Zenon
<1>3. HubInv /\ StreamTypes
    BY <1>2, Zenon DEF StreamInv, StreamTypes
<1>4. conn[Session] = NoConn /\ NoConn.up = FALSE
    BY <1>1, <1>2, Zenon DEF StreamInit, NoConn
<1>5. PICK s \in Stream : s = stream[Session]
    BY <1>2, <1>3 DEF StreamTypes
<1>6. s.resuming = FALSE /\ s.lastID = 0 /\ s.failed = FALSE
    BY <1>1, <1>2, <1>5, SMTT(30) DEF StreamInit
<1>7. log \in Seq(Message) /\ Len(log) \in Nat /\ 0 \in Nat /\ 0 <= Len(log)
    BY <1>3 DEF HubInv, HubTypeOK
<1>8. session \in SessionState /\ session.phase = "new" /\ "new" # "running" /\ TRUE # FALSE
    BY <1>1 DEF SessionState
<1>9. SessionTypes
  <2>1. db \in Nat /\ owed \in Nat /\ updates \in Seq(Signal)
      BY <1>1, SMTT(30)
  <2> QED
      BY <1>1, <1>8, <2>1, NoReloadFacts, Zenon DEF SessionTypes
<1>10. reload.phase = "none" /\ poll.phase = "none" /\ "none" \notin {"cursor", "read"}
       /\ "none" # "read"
    BY <1>1, NoReloadFacts, SMTT(30)
<1>11. Tracked
  <2>1. Safe(Session, log, NoConn, s, Knows(0, s.lastID))
      BY <1>6, <1>7, DownSafe, Zenon
  <2>2. Viewed(s, foreign, masked) = s
      BY <1>1, <1>8, Zenon DEF Viewed
  <2>3. Bounded(0, session, reload)
      BY <1>8, <1>10, Zenon DEF Bounded
  <2> QED
      BY <1>4, <1>5, <1>7, <2>1, <2>2, <2>3, Zenon DEF Tracked, Tracks
<1>12. Notice(conn[Session], s, foreign, masked)
    BY <1>4, <1>8, Zenon DEF Notice
<1>13. PhasesOK(session, s, reload, poll, foreign)
    BY <1>1, <1>6, <1>8, <1>10, Zenon DEF PhasesOK
<1>14. /\ ReloadFresh(reload, db, log, s.lastID, updates, owed, foreign, masked)
       /\ SessionFresh(session, reload, db, log, s.lastID, updates, owed, foreign, masked)
    BY <1>8, <1>10, Zenon DEF ReloadFresh, SessionFresh
<1> QED
    BY <1>3, <1>5, <1>9, <1>11, <1>12, <1>13, <1>14, Zenon DEF SessionInv

\* The inductive invariant of the session: whatever the order of commits,
\* announcements, snapshots, broken connections, failed requests and restarts, a
\* session that shows an old state will be told of it.
THEOREM SessionInductive == Spec => []SessionInv
<1>1. SessionInv /\ [Next]_vars => SessionInv'
  <2> SUFFICES ASSUME SessionInv, [Next]_vars PROVE SessionInv'
      OBVIOUS
  <2>1. CASE Commit \/ Publish \/ PublishOther \/ Restart
      BY <2>1, CommitKeeps, PublishKeeps, PublishOtherKeeps, RestartKeeps, Zenon
  <2>2. CASE ServeReload \/ Connect \/ Follow \/ Transport
      BY <2>2, ServeReloadKeeps, ConnectKeeps, FollowKeeps, TransportKeeps, Zenon
  <2>3. CASE Boot \/ Accept \/ FinishReload \/ FailReload
      BY <2>3, BootKeeps, AcceptKeeps, FinishReloadKeeps, FailReloadKeeps, Zenon
  <2>4. CASE ServePoll \/ StartPoll \/ FailPoll \/ TakePoll
      BY <2>4, PollsKeep, TakePollKeeps, Zenon
  <2>5. CASE UNCHANGED vars
    <3>1. /\ log' = log /\ history' = history /\ lastState' = lastState
          /\ conn' = conn /\ stream' = stream
          /\ db' = db /\ owed' = owed /\ updates' = updates /\ session' = session
          /\ reload' = reload /\ poll' = poll /\ foreign' = foreign /\ masked' = masked
        BY <2>5, SMTT(30) DEF vars, streamVars, hubVars, sessionVars
    <3>2. HubInv'
        BY <3>1, Zenon DEF SessionInv, HubInv, HubTypeOK, HistoryIsTail, LastStateIsKept, Dropped
    <3> QED
        BY <3>1, <3>2, Zenon DEF SessionInv, StreamTypes, SessionTypes, Tracked
  <2> QED
      BY <2>1, <2>2, <2>3, <2>4, <2>5, Zenon DEF Next
<1> QED
    BY <1>1, SessionStarts, PTL DEF Spec

\* A session that has processed its stream shows the present state without the
\* help of the poll, for every capacity of the hub, of the connections and of the
\* session, every number of changes and every number of restarts.
THEOREM SettledSessionsAreCurrent == Spec => []SettledSessionIsCurrent
<1>1. SessionInv => SettledSessionIsCurrent
  <2> SUFFICES ASSUME SessionInv, Settled, ~session.missed, ~masked, session.shown # db
               PROVE  FALSE
      BY Zenon DEF SettledSessionIsCurrent
  <2>1. /\ log \in Seq(Message) /\ Len(log) \in Nat
        /\ Session \in Client /\ Concerns(Session, Announce)
        /\ conn[Session] \in Conn /\ stream[Session] \in Stream
        /\ foreign \in BOOLEAN /\ masked \in BOOLEAN /\ SessionTypes /\ TRUE # FALSE
      BY TrackedFacts, Zenon DEF SessionInv
  <2>2. PICK cn \in Conn : cn = conn[Session]
      BY <2>1
  <2>3. PICK s \in Stream : s = stream[Session]
      BY <2>1
  <2>4. /\ session.phase = "running" /\ reload.phase = "none" /\ owed = 0 /\ updates = <<>>
        /\ cn.listed /\ cn.queue = <<>> /\ cn.wire = <<>>
      BY <2>2, Zenon DEF Settled, Running
  <2>5. session.missed = FALSE /\ masked = FALSE /\ cn.listed = TRUE
    <3>1. session.missed \in BOOLEAN /\ cn.listed \in BOOLEAN
        BY <2>1, SessionFields, SMTT(30) DEF Conn
    <3> QED
        BY <2>1, <2>4, <3>1, Zenon
  <2>6. PICK v : v = Viewed(s, foreign, masked)
      BY Zenon
  <2>7. PICK base \in Nat :
          Bounded(base, session, reload) /\ Safe(Session, log, cn, v, Knows(base, v.lastID))
      BY <2>2, <2>3, <2>6, TrackedFacts, Zenon DEF Tracks
  <2>8. cn.up = TRUE
    <3>1. NoConn.listed = FALSE /\ cn.up \in BOOLEAN
        BY SMTT(30) DEF NoConn, Conn
    <3> QED
        BY <2>1, <2>5, <2>7, <3>1, Zenon DEF Safe
  <2>9. v.connected = TRUE
    <3>1. v.connected \in BOOLEAN
        BY <2>7, SMTT(30) DEF Safe, Stream
    <3> QED
        BY <2>4, <2>7, <2>8, <3>1, Zenon DEF Safe, Greeting
  <2>10. s.connected = TRUE
      BY <2>1, <2>6, <2>9, ViewedFacts, ZenonT(30)
  <2>11. foreign = FALSE /\ v = s
    <3>1. foreign = FALSE
        BY <2>1, <2>2, <2>3, <2>5, <2>8, <2>10, Zenon DEF SessionInv, Notice
    <3> QED
        BY <2>1, <2>6, <3>1, ViewedFacts, Zenon
  <2>12. Coming(session.cursor, log, s.lastID, updates, owed, foreign)
      BY <2>3, <2>4, <2>5, Zenon DEF SessionInv, SessionFresh
  <2>13. PICK n \in 1..Len(log) : log[n] = Announce /\ n > session.cursor /\ n > s.lastID
    <3>1. ~(owed > 0) /\ 1..Len(updates) = {}
        BY <2>4, SMTT(30)
    <3> QED
        BY <2>1, <2>11, <2>12, <3>1, Zenon DEF Coming
  <2>14. n > base
    <3>1. base <= session.cursor /\ session.cursor \in Nat
        BY <2>1, <2>4, <2>7, SessionFields, Zenon DEF Bounded
    <3> QED
        BY <2>13, <3>1
  <2>15. PICK ev : ev = cn.wire \o cn.queue /\ 1..Len(ev) = {}
    <3>1. PICK ev : ev = cn.wire \o cn.queue
        BY Zenon
    <3>2. ev = <<>>
        BY <2>4, <3>1
    <3> QED
        BY <3>1, <3>2
  <2>16. PICK k : k = Knows(base, s.lastID) /\ k.base = base
    <3>1. s.lastID \in Nat
        BY DEF Stream
    <3> QED
        BY <3>1, KnowsFacts, ZenonT(30)
  <2>17. Due(Session, log, ev, s.lastID, s.latest, s.replay, base, TRUE)
      BY <2>5, <2>7, <2>8, <2>10, <2>11, <2>15, <2>16, Zenon DEF Safe, Following
  <2>18. \E i \in 1..Len(ev) : ev[i].id = n
      BY <2>1, <2>13, <2>14, <2>17, Zenon DEF Due
  <2> QED
      BY <2>15, <2>18, Zenon
<1> QED
    BY <1>1, SessionInductive, PTL

=============================================================================
