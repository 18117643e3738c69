-------------------------- MODULE KeepaliveProofs --------------------------
(* The properties of Keepalive, for any times and any bound on what waits  *)
(* in the socket.                                                          *)
EXTENDS Keepalive, TLAPS

Looping == {"check", "poll", "read"}

\* Time passes only while nothing can be read, so what is there has just
\* arrived; and each timer, looked at once per turn, is at most one poll
\* over its limit.
TimeInv ==
  /\ unread # <<>> \/ eof => quiet = 0
  /\ quiet <= idle
  /\ pc = "read" => Readable
  /\ pc = "poll" => IF waitingForAck THEN sinceSent <= Wait + polled
                                     ELSE idle <= Interval + polled
  /\ waitingForAck => quiet <= Interval + Poll + sinceSent
  /\ pc = "check" => quiet <= IF waitingForAck THEN Limit ELSE Interval + Poll

\* The items of a proper client are those the thread reads next.
Position(p) == IF p \in {"offer", "length"} THEN 0
               ELSE IF p = "key" THEN 1
               ELSE IF p \in {"version", "hello"} THEN 2 ELSE 3

KindAt(n) == IF n = 0 THEN {"length"} ELSE IF n = 1 THEN {"key"}
             ELSE IF n = 2 THEN {"hello"} ELSE {"ack", "other"}

ItemsInv ==
  Proper /\ pc # "left" =>
    /\ \A i \in 1..Len(unread) : unread[i] \in KindAt(Position(pc) + i - 1)
    /\ Position(due) = IF Position(pc) + Len(unread) < 3
                         THEN Position(pc) + Len(unread) ELSE 3

\* A proper client's acknowledgement is on its way or not late.
AckInv ==
  /\ waitingForAck => pc \notin Shaking
  /\ Proper /\ waitingForAck =>
       /\ sinceSent <= Wait
       /\ owed \/ \E i \in 1..Len(unread) : unread[i] = "ack"

WholeInv == peer = "whole" => ~partial

IInv == TypeOK /\ TimeInv /\ ItemsInv /\ AckInv /\ WholeInv /\ AnsweringKept

LEMMA Times ==
  /\ Interval \in Nat /\ Wait \in Nat /\ Poll \in Nat
  /\ MaxUnread \in Nat /\ MaxUnread > 0
  /\ Limit \in Nat /\ Limit = Interval + Wait + 2 * Poll
  BY KeepaliveAssumption DEF Limit

LEMMA InitIInv == Init => IInv
<1> SUFFICES ASSUME Init PROVE IInv
  OBVIOUS
<1> USE Times DEF Init
<1>1. unread = <<>> /\ Len(unread) = 0 /\ unread \in Seq(Items)
  OBVIOUS
<1>2. TypeOK
  <2>1. idle \in 0..(Limit + 1) /\ sinceSent \in 0..(Limit + 1)
        /\ quiet \in 0..(Limit + 1) /\ polled \in 0..Poll
    OBVIOUS
  <2>2. pc \in Shaking /\ why = "none" /\ pc # "left"
    BY DEF Shaking
  <2>3. /\ waitingForAck \in BOOLEAN /\ partial \in BOOLEAN
        /\ eof \in BOOLEAN /\ owed \in BOOLEAN
    OBVIOUS
  <2>4. peer \in Peers /\ due = "length" /\ Len(unread) <= MaxUnread
    BY <1>1
  <2> HIDE DEF Init
  <2> QED BY <1>1, <2>1, <2>2, <2>3, <2>4 DEF TypeOK
<1>3. TimeInv
  BY DEF TimeInv
<1>4. ItemsInv
  BY <1>1 DEF ItemsInv, Position
<1>5. AckInv /\ WholeInv /\ AnsweringKept
  BY DEF AckInv, WholeInv, AnsweringKept
<1> QED BY <1>2, <1>3, <1>4, <1>5 DEF IInv

\* What taking an item does to the sequence.
LEMMA TakeItem ==
  ASSUME TypeOK, unread # <<>>, unread' = Tail(unread)
  PROVE  /\ unread' \in Seq(Items) /\ Len(unread') = Len(unread) - 1
         /\ Len(unread) > 0 /\ Head(unread) = unread[1]
         /\ \A i \in 1..Len(unread') : unread'[i] = unread[i + 1]
  BY DEF TypeOK

LEMMA TypeNext == TypeOK /\ [Next]_vars => TypeOK'
<1> SUFFICES ASSUME TypeOK, [Next]_vars PROVE TypeOK'
  OBVIOUS
<1> USE Times DEF TypeOK, timers, stream, socket
<1>1. CASE Offer
  BY <1>1 DEF Offer, Goto, Leave, Shaking
<1>2. ASSUME ReadLength \/ ReadKey \/ ReadVersion PROVE TypeOK'
  BY <1>2, TakeItem, SMTT(30)
  DEF ReadLength, ReadKey, ReadVersion, Goto, Take, Has, Shaking
<1>3. CASE HandshakeFails
  BY <1>3 DEF HandshakeFails, Leave, Shaking, Has
<1>4. CASE Drop
  BY <1>4 DEF Drop, Leave
<1>5. CASE Ask \/ GoOn
  <2>1. pc' = "poll" /\ polled' = 0 /\ why' = why /\ pc = "check"
    BY <1>5 DEF Ask, GoOn, EnterPoll, Goto
  <2>2. waitingForAck' \in BOOLEAN /\ owed' \in BOOLEAN
    BY <1>5 DEF Ask, GoOn
  <2>3. sinceSent' \in 0..(Limit + 1)
    BY <1>5 DEF Ask, GoOn
  <2>4. UNCHANGED <<idle, stream, peer, due, quiet>>
    BY <1>5 DEF Ask, GoOn
  <2> QED BY <2>1, <2>2, <2>3, <2>4
<1>6. CASE PollReports \/ PollTimesOut \/ PollInterrupted
  BY <1>6 DEF PollReports, PollTimesOut, PollInterrupted, Goto
<1>7. CASE ReadFrame
  BY <1>7, TakeItem DEF ReadFrame, Goto, Take
<1>8. CASE ReadFails
  BY <1>8 DEF ReadFails, Leave, Has
<1>9. ASSUME NEW kind \in Items, PeerSends(kind) PROVE TypeOK'
  <2>1. unread' \in Seq(Items) /\ Len(unread') <= MaxUnread
    BY <1>9 DEF PeerSends
  <2>2. due' \in {"length", "key", "hello", "frame"}
    BY <1>9 DEF PeerSends, NextDue
  <2>3. owed' \in BOOLEAN /\ partial' \in BOOLEAN /\ eof' = eof
    BY <1>9 DEF PeerSends
  <2>4. quiet' = 0 /\ UNCHANGED <<pc, timers, polled, why, peer>>
    BY <1>9 DEF PeerSends, Arrives
  <2> QED BY <2>1, <2>2, <2>3, <2>4
<1>10. CASE PeerStarts \/ PeerCloses
  <2>1. quiet' = 0 /\ UNCHANGED <<pc, timers, polled, why, peer>>
    BY <1>10 DEF PeerStarts, PeerCloses, Arrives
  <2>2. UNCHANGED <<unread, due, owed>>
    BY <1>10 DEF PeerStarts, PeerCloses
  <2>3. partial' \in BOOLEAN /\ eof' \in BOOLEAN
    BY <1>10 DEF PeerStarts, PeerCloses
  <2> QED BY <2>1, <2>2, <2>3
<1>11. CASE Tick
  BY <1>11 DEF Tick, Waiting, Later
<1>12. CASE Left \/ UNCHANGED vars
  BY <1>12 DEF Left, vars
<1> QED
  BY <1>1, <1>2, <1>3, <1>4, <1>5, <1>6, <1>7, <1>8, <1>9, <1>10, <1>11, <1>12
  DEF Next, Thread, PeerNext

LEMMA TimeNext == TypeOK /\ TimeInv /\ [Next]_vars => TimeInv'
<1> SUFFICES ASSUME TypeOK, TimeInv, [Next]_vars PROVE TimeInv'
  OBVIOUS
<1> USE Times DEF TypeOK, TimeInv, timers, stream, socket, Readable
<1>1. CASE Offer
  BY <1>1 DEF Offer, Goto, Leave
<1>2. ASSUME ReadLength \/ ReadKey \/ ReadVersion PROVE TimeInv'
  BY <1>2, TakeItem DEF ReadLength, ReadKey, ReadVersion, Goto, Take, Has
<1>3. CASE HandshakeFails
  BY <1>3 DEF HandshakeFails, Leave
<1>4. CASE Drop
  BY <1>4 DEF Drop, Leave
<1>5. CASE Ask
  BY <1>5 DEF Ask, EnterPoll, Goto
<1>6. CASE GoOn
  BY <1>6 DEF GoOn, EnterPoll, Goto, TimedOut
<1>7. CASE PollReports \/ PollTimesOut \/ PollInterrupted
  BY <1>7 DEF PollReports, PollTimesOut, PollInterrupted, Goto
<1>8. CASE ReadFrame
  BY <1>8, TakeItem DEF ReadFrame, Goto, Take
<1>9. CASE ReadFails
  BY <1>9 DEF ReadFails, Leave
<1>10. ASSUME NEW kind \in Items, PeerSends(kind) PROVE TimeInv'
  BY <1>10 DEF PeerSends, Arrives
<1>11. CASE PeerStarts \/ PeerCloses
  <2>1. quiet' = 0 /\ UNCHANGED <<pc, timers, polled, why, peer>>
    BY <1>11 DEF PeerStarts, PeerCloses, Arrives
  <2>2. Readable'
    BY <1>11 DEF PeerStarts, PeerCloses
  <2> QED BY <2>1, <2>2
<1>12. CASE Tick
  BY <1>12 DEF Tick, Waiting, Later
<1>13. CASE Left \/ UNCHANGED vars
  BY <1>13 DEF Left, vars
<1> QED
  BY <1>1, <1>2, <1>3, <1>4, <1>5, <1>6, <1>7, <1>8, <1>9, <1>10, <1>11, <1>12,
     <1>13
  DEF Next, Thread, PeerNext

LEMMA ItemsNext == TypeOK /\ ItemsInv /\ [Next]_vars => ItemsInv'
<1> SUFFICES ASSUME TypeOK, ItemsInv, [Next]_vars, Proper', pc' # "left"
             PROVE  ItemsInv'
  BY DEF ItemsInv
<1> USE DEF TypeOK, ItemsInv, Proper, timers, stream, socket, Position
<1>1. CASE Offer
  BY <1>1 DEF Offer, Goto, Leave
<1>2. ASSUME ReadLength \/ ReadKey \/ ReadVersion PROVE ItemsInv'
  <2>1. /\ Len(unread') = Len(unread) - 1
        /\ \A i \in 1..Len(unread') : unread'[i] = unread[i + 1]
        /\ Len(unread) > 0
    BY <1>2, TakeItem DEF ReadLength, ReadKey, ReadVersion, Take, Has
  <2>2. Position(pc') = Position(pc) + 1 /\ pc # "left"
        /\ due' = due /\ peer' = peer
    <3>1. pc = "length" => Head(unread) # "empty"
      BY <1>2, <2>1, TakeItem DEF ReadLength, ReadKey, ReadVersion, Goto, Take,
                                  Has, KindAt
    <3> QED BY <1>2, <3>1 DEF ReadLength, ReadKey, ReadVersion, Goto
  <2>3. Position(pc) \in Nat /\ Len(unread) \in Nat
    OBVIOUS
  <2>4. /\ \A i \in 1..Len(unread) : unread[i] \in KindAt(Position(pc) + i - 1)
        /\ Position(due) = IF Position(pc) + Len(unread) < 3
                             THEN Position(pc) + Len(unread) ELSE 3
    BY <2>2
  <2> HIDE DEF Position, TypeOK
  <2>5. ASSUME NEW i \in 1..Len(unread')
        PROVE  unread'[i] \in KindAt(Position(pc') + i - 1)
    <3>1. i + 1 \in 1..Len(unread) /\ unread'[i] = unread[i + 1]
      BY <2>1, <2>3
    <3>2. Position(pc) + (i + 1) - 1 = Position(pc') + i - 1
      BY <2>2, <2>3
    <3> QED BY <2>4, <3>1, <3>2
  <2> QED BY <2>1, <2>2, <2>3, <2>4, <2>5
<1>3. CASE HandshakeFails \/ Drop \/ ReadFails
  BY <1>3 DEF HandshakeFails, Drop, ReadFails, Leave
<1>4. CASE Ask \/ GoOn \/ PollReports \/ PollTimesOut \/ PollInterrupted
  BY <1>4
  DEF Ask, GoOn, EnterPoll, PollReports, PollTimesOut, PollInterrupted, Goto
<1>5. CASE ReadFrame
  BY <1>5, TakeItem DEF ReadFrame, Goto, Take, KindAt
<1>6. ASSUME NEW kind \in Items, PeerSends(kind) PROVE ItemsInv'
  <2>1. /\ unread' = Append(unread, kind)
        /\ Len(unread') = Len(unread) + 1
        /\ unread'[Len(unread) + 1] = kind
        /\ \A i \in 1..Len(unread) : unread'[i] = unread[i]
    BY <1>6 DEF PeerSends
  <2>2. kind \in KindAt(Position(pc) + Len(unread))
    <3>1. /\ kind \in MaySend /\ Len(unread) \in Nat
          /\ Position(due) = IF Position(pc) + Len(unread) < 3
                                THEN Position(pc) + Len(unread) ELSE 3
      BY <1>6 DEF PeerSends, Arrives
    <3>2. kind \in KindAt(Position(due))
      BY <1>6, <3>1 DEF PeerSends, Arrives, MaySend, IfImproper, KindAt
    <3>3. Position(pc) \in Nat
      OBVIOUS
    <3> HIDE DEF Position
    <3> QED BY <3>1, <3>2, <3>3 DEF KindAt
  <2>3. Position(due') = IF Position(pc) + Len(unread) < 2
                           THEN Position(pc) + Len(unread) + 1 ELSE 3
    <3>1. /\ due = "length" => kind = "length"
          /\ due' = NextDue(kind) /\ peer' = peer /\ pc' = pc
      BY <1>6 DEF PeerSends, Arrives, MaySend, IfImproper
    <3> QED BY <3>1 DEF NextDue
  <2> QED BY <1>6, <2>1, <2>2, <2>3, SMTT(30) DEF PeerSends, Arrives
<1>7. CASE PeerStarts \/ PeerCloses
  BY <1>7 DEF PeerStarts, PeerCloses, Arrives
<1>8. CASE Tick
  BY <1>8 DEF Tick
<1>9. CASE Left \/ UNCHANGED vars
  BY <1>9 DEF Left, vars
<1> QED
  BY <1>1, <1>2, <1>3, <1>4, <1>5, <1>6, <1>7, <1>8, <1>9
  DEF Next, Thread, PeerNext

LEMMA AckNext == TypeOK /\ AckInv /\ [Next]_vars => AckInv'
<1> SUFFICES ASSUME TypeOK, AckInv, [Next]_vars PROVE AckInv'
  OBVIOUS
<1> USE Times DEF TypeOK, AckInv, Proper, timers, stream, socket
<1>1. CASE Offer
  BY <1>1 DEF Offer
<1>2. ASSUME ReadLength \/ ReadKey \/ ReadVersion PROVE AckInv'
  BY <1>2 DEF ReadLength, ReadKey, ReadVersion, Shaking
<1>3. CASE HandshakeFails \/ Drop \/ ReadFails
  BY <1>3 DEF HandshakeFails, Drop, ReadFails, Leave, Shaking
<1>4. CASE Ask
  BY <1>4 DEF Ask, EnterPoll, Goto, Shaking
<1>5. CASE GoOn \/ PollReports \/ PollTimesOut \/ PollInterrupted
  BY <1>5
  DEF GoOn, EnterPoll, PollReports, PollTimesOut, PollInterrupted, Goto,
      Shaking
<1>6. CASE ReadFrame
  <2> SUFFICES ASSUME Proper', waitingForAck' PROVE AckInv'
    BY <1>6 DEF ReadFrame, Goto, Shaking
  <2>1. /\ Head(unread) # "ack" /\ waitingForAck /\ peer' = peer
        /\ unread # <<>> /\ unread' = Tail(unread)
        /\ UNCHANGED <<sinceSent, owed>>
    BY <1>6 DEF ReadFrame, Take
  <2>2. ASSUME NEW i \in 1..Len(unread), unread[i] = "ack"
        PROVE  i - 1 \in 1..Len(unread') /\ unread'[i - 1] = "ack"
    <3>1. /\ Len(unread') = Len(unread) - 1 /\ Head(unread) = unread[1]
          /\ \A k \in 1..Len(unread') : unread'[k] = unread[k + 1]
      BY <2>1, TakeItem
    <3>2. i # 1 /\ Len(unread) \in Nat
      BY <2>1, <2>2, <3>1
    <3> HIDE DEF TypeOK
    <3> QED BY <2>2, <3>1, <3>2
  <2>3. sinceSent <= Wait
        /\ (owed \/ \E i \in 1..Len(unread) : unread[i] = "ack")
    BY <2>1
  <2>4. owed' \/ \E i \in 1..Len(unread') : unread'[i] = "ack"
    BY <2>1, <2>2, <2>3
  <2> QED BY <1>6, <2>1, <2>3, <2>4 DEF ReadFrame, Goto, Shaking
<1>7. ASSUME NEW kind \in Items, PeerSends(kind) PROVE AckInv'
  <2>1. /\ Len(unread') = Len(unread) + 1
        /\ unread'[Len(unread) + 1] = kind
        /\ \A i \in 1..Len(unread) : unread'[i] = unread[i]
    BY <1>7 DEF PeerSends
  <2> QED BY <1>7, <2>1 DEF PeerSends, Arrives
<1>8. CASE PeerStarts \/ PeerCloses
  BY <1>8 DEF PeerStarts, PeerCloses, Arrives
<1>9. CASE Tick
  BY <1>9 DEF Tick, Waiting, Overdue, Later, Readable
<1>10. CASE Left \/ UNCHANGED vars
  BY <1>10 DEF Left, vars
<1> QED
  BY <1>1, <1>2, <1>3, <1>4, <1>5, <1>6, <1>7, <1>8, <1>9, <1>10
  DEF Next, Thread, PeerNext

LEMMA WholeNext == WholeInv /\ [Next]_vars => WholeInv'
  BY DEF WholeInv, Next, Thread, PeerNext, Offer, ReadLength, ReadKey,
         ReadVersion, HandshakeFails, Drop, Ask, GoOn, PollReports,
         PollTimesOut, PollInterrupted, ReadFrame, ReadFails, PeerSends,
         PeerStarts, PeerCloses, Arrives, Take, Tick, Left, vars, socket, stream, timers

\* A proper client is left for what it has closed, or for an item of the
\* handshake that came in pieces.
LEMMA ProperLeft ==
  ASSUME TypeOK, ItemsInv, AckInv, Proper, [Next]_vars,
         pc # "left", pc' = "left"
  PROVE  \/ eof /\ why' = "eof"
         \/ ShortInHandshake
<1> USE DEF TypeOK, ItemsInv, AckInv, Position
<1>1. unread # <<>> => /\ Len(unread) > 0 /\ Head(unread) = unread[1]
                       /\ Head(unread) \in KindAt(Position(pc))
  OBVIOUS
<1>2. ~Drop
  BY Times DEF Drop, TimedOut
<1>3. CASE Offer
  BY <1>3 DEF Offer, Goto, Leave
<1>4. CASE HandshakeFails
  BY <1>1, <1>4
  DEF HandshakeFails, Leave, Has, KindAt, ShortInHandshake, Items
<1>5. CASE ReadFails
  BY <1>1, <1>5 DEF ReadFails, Leave, Has, KindAt
<1>6. ~(ReadLength \/ ReadKey \/ ReadVersion \/ Ask \/ GoOn \/ PollReports
        \/ PollTimesOut \/ PollInterrupted \/ ReadFrame)
  BY DEF ReadLength, ReadKey, ReadVersion, Ask, GoOn, EnterPoll, PollReports,
         PollTimesOut, PollInterrupted, ReadFrame, Goto
<1>7. ~(PeerNext \/ Tick \/ Left \/ UNCHANGED vars)
  BY DEF PeerNext, PeerSends, PeerStarts, PeerCloses, Arrives, Tick, Left, vars
<1> QED BY <1>2, <1>3, <1>4, <1>5, <1>6, <1>7 DEF Next, Thread

LEMMA NextIInv == IInv /\ [Next]_vars => IInv'
<1> SUFFICES ASSUME IInv, [Next]_vars PROVE IInv'
  OBVIOUS
<1>1. TypeOK' /\ TimeInv' /\ ItemsInv' /\ AckInv' /\ WholeInv'
  BY TypeNext, TimeNext, ItemsNext, AckNext, WholeNext DEF IInv
<1>2. AnsweringKept'
  <2>1. peer' = peer
    BY DEF Next, Thread, PeerNext, Offer, ReadLength, ReadKey, ReadVersion,
           HandshakeFails, Drop, Ask, GoOn, PollReports, PollTimesOut,
           PollInterrupted, ReadFrame, ReadFails, PeerSends, PeerStarts,
           PeerCloses, Arrives, Tick, Left, vars, socket
  <2>2. CASE pc = "left"
    BY <2>1, <2>2
    DEF IInv, AnsweringKept, Next, Thread, PeerNext, Offer, ReadLength,
        ReadKey, ReadVersion, HandshakeFails, Drop, Ask, GoOn, PollReports,
        PollTimesOut, PollInterrupted, ReadFrame, ReadFails, Tick, Waiting,
        Left, vars, Shaking
  <2>3. CASE pc # "left" /\ pc' = "left"
    BY <2>1, <2>3, ProperLeft
    DEF IInv, AnsweringKept, WholeInv, Proper, ShortInHandshake
  <2>4. CASE pc' # "left"
    BY <1>1, <2>4 DEF TypeOK, AnsweringKept
  <2> QED BY <2>2, <2>3, <2>4
<1> QED BY <1>1, <1>2 DEF IInv

LEMMA Inductive == Spec => []IInv
  BY InitIInv, NextIInv, PTL DEF Spec

-----------------------------------------------------------------------------

\* Every variable keeps its type.
THEOREM TypeCorrect == Spec => []TypeOK
  BY Inductive, PTL DEF IInv

\* A client from which nothing comes is served for at most both times, each
\* noticed one poll late.  (Client.cpp:211-235)
THEOREM SilentCorrect == Spec => []SilentDropped
<1>1. IInv => SilentDropped
  BY Times
  DEF IInv, TypeOK, TimeInv, SilentDropped, Shaking, Readable
<1> QED BY <1>1, Inductive, PTL

\* A client that follows the protocol and answers in time is kept.
\* (Client.cpp:44-114, 216-229, 274-277)
THEOREM AnsweringCorrect == Spec => []AnsweringKept
  BY Inductive, PTL DEF IInv

\* So is one whose bytes come in pieces, once it has passed the two reads of
\* the handshake that must get all in one.  (Client.cpp:65-72, 123-148)
THEOREM PiecesCorrect == Spec => PiecesKept
<1>1. IInv /\ [Next]_vars =>
        [peer = "pieces" /\ pc' = "left" =>
           eof \/ ShortInHandshake \/ pc = "left"]_vars
  BY ProperLeft DEF IInv, Proper
<1> QED BY <1>1, Inductive, PTL DEF Spec, PiecesKept
=============================================================================
