---------------------------- MODULE RoomsProofs ----------------------------
(* The invariants of Rooms, for any clients, rooms and nicknames.          *)
EXTENDS Rooms, FiniteSetTheorems, TLAPS

\* What a request asks for.
AskedInv ==
  \A c \in Client :
    /\ pc[c] \in {"nickcheck", "assign"} => asked[c] \in Nick
    /\ pc[c] \in {"joincheck", "part", "quit"} => asked[c] \in Room

\* A thread has a reference only where it uses a room, and a room's mutex
\* only in a broadcast.
StageInv ==
  \A c \in Client :
    /\ stage[c] # "none" => pc[c] \in Uses
    /\ stage[c] = "mutex" => pc[c] \in Casts
    /\ c \in stale => stage[c] # "none" /\ stopped
                      /\ \A r \in Room : c \notin members[r]

\* Deleting and looking for a client exclude each other through
\* Server::mutex, leaving a room and broadcasting to it through the room's.
TargetsInv ==
  /\ \A t \in Client : pc[t] = "unroom" => mutex = t
  /\ \A d \in registered :
       pc[d] \notin {"absent", "accepted", "unroom", "gone"}
  /\ \A t \in Client :
       pc[t] = "dm" => /\ mutex = t
                       /\ \A d \in todo[t] :
                            pc[d] \notin {"absent", "accepted", "unroom",
                                          "gone"}
  /\ \A d \in todo[Console] :
       mutex = Console /\ pc[d] \notin {"absent", "accepted", "unroom", "gone"}
  /\ \A t \in Client \ stale :
       /\ stage[t] = "mutex" => /\ roomMutex[room[t]] = t
                                /\ todo[t] \subseteq members[room[t]]
       /\ stage[t] # "mutex" /\ pc[t] # "dm" => todo[t] = {}

\* Client d has passed its check for the name n in room r and does not bear
\* it there yet.
Claims(d, n, r) ==
  \/ pc[d] = "assign" /\ asked[d] = n /\ room[d] = r
  \/ pc[d] \in {"part", "quit"} /\ name[d] = n /\ asked[d] = r
  \/ pc[d] = "move" /\ name[d] = n /\ room[d] = r

\* If nobody else was claiming the name in a client's check, then whoever
\* bears it in the room is unsure of it, and whoever else claims it has seen
\* this client's claim.
CleanInv ==
  \A c \in Client : clean[c] =>
    \A n \in Nick, r \in Room : Claims(c, n, r) =>
      /\ \A d \in Named(r) : d # c /\ name[d] = n => d \in unsure
      /\ \A d \in Client \ {c} : Claims(d, n, r) => ~clean[d]

Shape == TypeOK /\ AskedInv /\ StageInv
IInv  == Shape /\ MembershipAgrees /\ TargetsInv /\ NamesUnique /\ CleanInv

-----------------------------------------------------------------------------

LEMMA UsesAre ==
  /\ Uses = {"add", "quit", "move", "nickcheck", "joincheck", "greet",
             "nicknote", "chat", "part", "arrive", "bye"}
  /\ Inside = {"quit", "nickcheck", "joincheck", "greet", "nicknote", "chat",
               "part", "arrive", "bye", "loop", "assign", "dm"}
<1>1. Uses = {"add", "quit", "move", "nickcheck", "joincheck", "greet",
             "nicknote", "chat", "part", "arrive", "bye"}
  BY DEF Uses, After
<1> QED BY <1>1 DEF Inside

LEMMA AfterIs ==
  /\ \A p \in {"greet", "nicknote", "chat", "arrive"} : After[p] = {"loop"}
  /\ After["add"] = {"greet"}
  /\ After["quit"] = {"move"}
  /\ After["move"] = {"arrive"}
  /\ After["nickcheck"] = {"loop", "assign"}
  /\ After["joincheck"] = {"loop", "part"}
  /\ After["part"] = {"quit"}
  /\ After["bye"] = {"remove"}
  BY DEF After

LEMMA InitIInv == Init => IInv
<1> SUFFICES ASSUME Init PROVE IInv
  OBVIOUS
<1> USE RoomsAssumption DEF Init
<1>1. TypeOK
  BY DEF TypeOK
<1>2. AskedInv /\ StageInv
  BY DEF AskedInv, StageInv
<1>3. MembershipAgrees
  BY UsesAre DEF MembershipAgrees
<1>4. TargetsInv
  BY DEF TargetsInv
<1>5. NamesUnique /\ CleanInv
  BY DEF NamesUnique, CleanInv, Named
<1> QED BY <1>1, <1>2, <1>3, <1>4, <1>5 DEF IInv, Shape

-----------------------------------------------------------------------------

\* Types and the positions of the threads.
LEMMA ShapeNext ==
  Shape /\ [Next]_vars => Shape'
<1> SUFFICES ASSUME Shape, [Next]_vars PROVE Shape'
  OBVIOUS
<1> USE RoomsAssumption, UsesAre
    DEF Shape, TypeOK, AskedInv, StageInv, Casts, Goto, LetGo, serverVars,
        roomVars, clientVars, history
<1>1. ASSUME NEW c \in Client, Accept(c) \/ Connect(c) PROVE Shape'
  <2>1. CASE Accept(c)
    BY <2>1 DEF Accept
  <2>2. CASE Connect(c)
    BY <2>2 DEF Connect
  <2> QED BY <1>1, <2>1, <2>2
<1>2. ASSUME NEW c \in Client, Handshake(c) PROVE Shape'
  <2>1. PICK p \in {"add", "remove"} : pc' = [pc EXCEPT ![c] = p]
    BY <1>2 DEF Handshake
  <2> QED BY <1>2, <2>1 DEF Handshake
<1>3. ASSUME NEW c \in Client, NEW n \in Requested, NickRequest(c, n)
      PROVE  Shape'
  BY <1>3 DEF NickRequest, Request
<1>4. ASSUME NEW c \in Client, NEW r \in Room, JoinRequest(c, r) PROVE Shape'
  BY <1>4 DEF JoinRequest, Request
<1>5. ASSUME NEW c \in Client, ChatMsg(c) PROVE Shape'
  BY <1>5 DEF ChatMsg, Request
<1>6. ASSUME NEW c \in Client, LoopEnds(c) PROVE Shape'
  BY <1>6 DEF LoopEnds, Request
<1>7. ASSUME NEW c \in Client, GetRoom(c) PROVE Shape'
  BY <1>7 DEF GetRoom
<1>8. ASSUME NEW c \in Client, Add(c) PROVE Shape'
  BY <1>8 DEF Add, CanUse
<1>9. ASSUME NEW c \in Client, Move(c) PROVE Shape'
  BY <1>9 DEF Move, CanUse, Settle
<1>10. ASSUME NEW c \in Client, Quit(c) PROVE Shape'
  BY <1>10 DEF Quit, CanUse, Answered
<1>11. ASSUME NEW c \in Client, Taken(c) PROVE Shape'
  BY <1>11 DEF Taken, CanUse, Answered
<1>12. ASSUME NEW c \in Client, NickFree(c) PROVE Shape'
  BY <1>12 DEF NickFree, CanUse
<1>13. ASSUME NEW c \in Client, JoinFree(c) PROVE Shape'
  BY <1>13 DEF JoinFree, CanUse
<1>14. ASSUME NEW c \in Client, Assign(c) PROVE Shape'
  BY <1>14 DEF Assign, Settle, Answered
<1>15. ASSUME NEW c \in Client, CastBegins(c) PROVE Shape'
  BY <1>15 DEF CastBegins, CanUse, Audience
<1>16. ASSUME NEW c \in Client, NEW d \in Client, CastTo(c, d) PROVE Shape'
  BY <1>16 DEF CastTo
<1>17. ASSUME NEW c \in Client, CastEnds(c) PROVE Shape'
  BY <1>17, AfterIs DEF CastEnds
<1>18. ASSUME NEW c \in Client, UseStale(c) PROVE Shape'
  BY <1>18, AfterIs DEF UseStale
<1>19. ASSUME NEW c \in Client, NEW n \in Nick, DmRequest(c, n) PROVE Shape'
  BY <1>19 DEF DmRequest
<1>20. ASSUME NEW c \in Client, DmSend(c) PROVE Shape'
  BY <1>20 DEF DmSend
<1>21. ASSUME NEW c \in Client, Unregister(c) PROVE Shape'
  BY <1>21 DEF Unregister
<1>22. ASSUME NEW c \in Client, Delete(c) PROVE Shape'
  BY <1>22 DEF Delete
<1>23. ASSUME NEW r \in Room, QueryRoom(r) PROVE Shape'
  BY <1>23 DEF QueryRoom
<1>24. CASE QueryEnds
  BY <1>24 DEF QueryEnds
<1>25. CASE Stop
  BY <1>25 DEF Stop
<1>26. CASE UNCHANGED vars
  BY <1>26 DEF vars
<1> QED
  BY <1>1, <1>2, <1>3, <1>4, <1>5, <1>6, <1>7, <1>8, <1>9, <1>10, <1>11,
     <1>12, <1>13, <1>14, <1>15, <1>16, <1>17, <1>18, <1>19, <1>20, <1>21,
     <1>22, <1>23, <1>24, <1>25, <1>26, ZenonT(40)
  DEF Next, ClientNext, ConsoleNext

-----------------------------------------------------------------------------

\* Only a client's own thread moves it between rooms; stop() empties them all.
LEMMA MembershipNext ==
  Shape /\ MembershipAgrees /\ [Next]_vars => MembershipAgrees'
<1> SUFFICES ASSUME Shape, MembershipAgrees, [Next]_vars
             PROVE  MembershipAgrees'
  OBVIOUS
<1> USE RoomsAssumption, UsesAre
    DEF Shape, TypeOK, AskedInv, StageInv, Casts, MembershipAgrees, Goto,
        LetGo, serverVars, roomVars, clientVars, history
<1>1. ASSUME NEW c \in Client, Accept(c) \/ Connect(c) PROVE MembershipAgrees'
  <2>1. CASE Accept(c)
    BY <2>1 DEF Accept
  <2>2. CASE Connect(c)
    BY <2>2 DEF Connect
  <2> QED BY <1>1, <2>1, <2>2
<1>2. ASSUME NEW c \in Client, Handshake(c) PROVE MembershipAgrees'
  BY <1>2 DEF Handshake
<1>3. ASSUME NEW c \in Client, NEW n \in Requested, NickRequest(c, n)
      PROVE  MembershipAgrees'
  BY <1>3 DEF NickRequest, Request
<1>4. ASSUME NEW c \in Client, NEW r \in Room, JoinRequest(c, r)
      PROVE  MembershipAgrees'
  BY <1>4 DEF JoinRequest, Request
<1>5. ASSUME NEW c \in Client, ChatMsg(c) PROVE MembershipAgrees'
  BY <1>5 DEF ChatMsg, Request
<1>6. ASSUME NEW c \in Client, LoopEnds(c) PROVE MembershipAgrees'
  BY <1>6 DEF LoopEnds, Request
<1>7. ASSUME NEW c \in Client, GetRoom(c) PROVE MembershipAgrees'
  BY <1>7 DEF GetRoom
<1>8. ASSUME NEW c \in Client, Add(c) PROVE MembershipAgrees'
  BY <1>8 DEF Add, CanUse, RoomOf
<1>9. ASSUME NEW c \in Client, Move(c) PROVE MembershipAgrees'
  BY <1>9 DEF Move, CanUse, RoomOf, Settle
<1>10. ASSUME NEW c \in Client, Quit(c) PROVE MembershipAgrees'
  BY <1>10 DEF Quit, CanUse, RoomOf, Answered
<1>11. ASSUME NEW c \in Client, Taken(c) PROVE MembershipAgrees'
  BY <1>11 DEF Taken, CanUse, Answered
<1>12. ASSUME NEW c \in Client, NickFree(c) PROVE MembershipAgrees'
  BY <1>12 DEF NickFree, CanUse, RoomOf
<1>13. ASSUME NEW c \in Client, JoinFree(c) PROVE MembershipAgrees'
  BY <1>13 DEF JoinFree, CanUse, RoomOf
<1>14. ASSUME NEW c \in Client, Assign(c) PROVE MembershipAgrees'
  BY <1>14 DEF Assign, Settle, Answered
<1>15. ASSUME NEW c \in Client, CastBegins(c) PROVE MembershipAgrees'
  BY <1>15 DEF CastBegins, CanUse, RoomOf
<1>16. ASSUME NEW c \in Client, NEW d \in Client, CastTo(c, d)
       PROVE  MembershipAgrees'
  BY <1>16 DEF CastTo
<1>17. ASSUME NEW c \in Client, CastEnds(c) PROVE MembershipAgrees'
  BY <1>17, AfterIs DEF CastEnds
<1>18. ASSUME NEW c \in Client, UseStale(c) PROVE MembershipAgrees'
  BY <1>18, AfterIs DEF UseStale
<1>19. ASSUME NEW c \in Client, NEW n \in Nick, DmRequest(c, n)
       PROVE  MembershipAgrees'
  BY <1>19 DEF DmRequest
<1>20. ASSUME NEW c \in Client, DmSend(c) PROVE MembershipAgrees'
  BY <1>20 DEF DmSend
<1>21. ASSUME NEW c \in Client, Unregister(c) PROVE MembershipAgrees'
  BY <1>21 DEF Unregister
<1>22. ASSUME NEW c \in Client, Delete(c) PROVE MembershipAgrees'
  BY <1>22 DEF Delete
<1>23. ASSUME NEW r \in Room, QueryRoom(r) PROVE MembershipAgrees'
  BY <1>23 DEF QueryRoom
<1>24. CASE QueryEnds
  BY <1>24 DEF QueryEnds
<1>25. CASE Stop
  BY <1>25 DEF Stop
<1>26. CASE UNCHANGED vars
  BY <1>26 DEF vars
<1> QED
  BY <1>1, <1>2, <1>3, <1>4, <1>5, <1>6, <1>7, <1>8, <1>9, <1>10, <1>11,
     <1>12, <1>13, <1>14, <1>15, <1>16, <1>17, <1>18, <1>19, <1>20, <1>21,
     <1>22, <1>23, <1>24, <1>25, <1>26, ZenonT(40)
  DEF Next, ClientNext, ConsoleNext

-----------------------------------------------------------------------------

\* One action at a time holds Server::mutex, or the mutex of a room.
LEMMA TargetsNext ==
  Shape /\ MembershipAgrees /\ TargetsInv /\ [Next]_vars => TargetsInv'
<1> SUFFICES ASSUME Shape, MembershipAgrees, TargetsInv, [Next]_vars
             PROVE  TargetsInv'
  OBVIOUS
<1> USE RoomsAssumption, UsesAre
    DEF Shape, TypeOK, AskedInv, StageInv, Casts, MembershipAgrees,
        TargetsInv, Goto, LetGo, serverVars, roomVars, clientVars, history
<1>1. ASSUME NEW c \in Client, Accept(c) \/ Connect(c) PROVE TargetsInv'
  <2>1. CASE Accept(c)
    BY <2>1 DEF Accept
  <2>2. CASE Connect(c)
    BY <2>2 DEF Connect
  <2> QED BY <1>1, <2>1, <2>2
<1>2. ASSUME NEW c \in Client, Handshake(c) PROVE TargetsInv'
  BY <1>2 DEF Handshake
<1>3. ASSUME NEW c \in Client, NEW n \in Requested, NickRequest(c, n)
      PROVE  TargetsInv'
  BY <1>3 DEF NickRequest, Request
<1>4. ASSUME NEW c \in Client, NEW r \in Room, JoinRequest(c, r)
      PROVE  TargetsInv'
  BY <1>4 DEF JoinRequest, Request
<1>5. ASSUME NEW c \in Client, ChatMsg(c) PROVE TargetsInv'
  BY <1>5 DEF ChatMsg, Request
<1>6. ASSUME NEW c \in Client, LoopEnds(c) PROVE TargetsInv'
  BY <1>6 DEF LoopEnds, Request
<1>7. ASSUME NEW c \in Client, GetRoom(c) PROVE TargetsInv'
  BY <1>7 DEF GetRoom
<1>8. ASSUME NEW c \in Client, Add(c) PROVE TargetsInv'
  BY <1>8 DEF Add, CanUse, RoomOf
<1>9. ASSUME NEW c \in Client, Move(c) PROVE TargetsInv'
  BY <1>9 DEF Move, CanUse, RoomOf, Settle
<1>10. ASSUME NEW c \in Client, Quit(c) PROVE TargetsInv'
  BY <1>10 DEF Quit, CanUse, RoomOf, Answered
<1>11. ASSUME NEW c \in Client, Taken(c) PROVE TargetsInv'
  BY <1>11 DEF Taken, CanUse, Answered
<1>12. ASSUME NEW c \in Client, NickFree(c) PROVE TargetsInv'
  BY <1>12 DEF NickFree, CanUse, RoomOf
<1>13. ASSUME NEW c \in Client, JoinFree(c) PROVE TargetsInv'
  BY <1>13 DEF JoinFree, CanUse, RoomOf
<1>14. ASSUME NEW c \in Client, Assign(c) PROVE TargetsInv'
  BY <1>14 DEF Assign, Settle, Answered
<1>15. ASSUME NEW c \in Client, CastBegins(c) PROVE TargetsInv'
  BY <1>15 DEF CastBegins, CanUse, RoomOf, Audience
<1>16. ASSUME NEW c \in Client, NEW d \in Client, CastTo(c, d)
       PROVE  TargetsInv'
  BY <1>16 DEF CastTo
<1>17. ASSUME NEW c \in Client, CastEnds(c) PROVE TargetsInv'
  BY <1>17, AfterIs DEF CastEnds
<1>18. ASSUME NEW c \in Client, UseStale(c) PROVE TargetsInv'
  BY <1>18, AfterIs DEF UseStale
<1>19. ASSUME NEW c \in Client, NEW n \in Nick, DmRequest(c, n)
       PROVE  TargetsInv'
  BY <1>19 DEF DmRequest, Finds
<1>20. ASSUME NEW c \in Client, DmSend(c) PROVE TargetsInv'
  BY <1>20 DEF DmSend
<1>21. ASSUME NEW c \in Client, Unregister(c) PROVE TargetsInv'
  BY <1>21 DEF Unregister
<1>22. ASSUME NEW c \in Client, Delete(c) PROVE TargetsInv'
  BY <1>22 DEF Delete
<1>23. ASSUME NEW r \in Room, QueryRoom(r) PROVE TargetsInv'
  BY <1>23 DEF QueryRoom
<1>24. CASE QueryEnds
  BY <1>24 DEF QueryEnds
<1>25. CASE Stop
  BY <1>25 DEF Stop
<1>26. CASE UNCHANGED vars
  BY <1>26 DEF vars
<1> QED
  BY <1>1, <1>2, <1>3, <1>4, <1>5, <1>6, <1>7, <1>8, <1>9, <1>10, <1>11,
     <1>12, <1>13, <1>14, <1>15, <1>16, <1>17, <1>18, <1>19, <1>20, <1>21,
     <1>22, <1>23, <1>24, <1>25, <1>26, ZenonT(40)
  DEF Next, ClientNext, ConsoleNext

-----------------------------------------------------------------------------

\* A name is settled by the order in which its claimants passed their checks.
LEMMA NamesNext ==
  Shape /\ MembershipAgrees /\ NamesUnique /\ CleanInv /\ [Next]_vars
    => NamesUnique' /\ CleanInv'
<1> SUFFICES ASSUME Shape, MembershipAgrees, NamesUnique, CleanInv, [Next]_vars
             PROVE  NamesUnique' /\ CleanInv'
  OBVIOUS
<1> USE RoomsAssumption, UsesAre
    DEF Shape, TypeOK, AskedInv, StageInv, Casts, MembershipAgrees,
        NamesUnique, CleanInv, Claims, Named, Goto, LetGo, serverVars,
        roomVars, clientVars, history
<1>1. ASSUME NEW c \in Client, Accept(c) \/ Connect(c)
      PROVE  NamesUnique' /\ CleanInv'
  <2>1. CASE Accept(c)
    BY <2>1 DEF Accept
  <2>2. CASE Connect(c)
    BY <2>2 DEF Connect
  <2> QED BY <1>1, <2>1, <2>2
<1>2. ASSUME NEW c \in Client, Handshake(c) PROVE NamesUnique' /\ CleanInv'
  BY <1>2 DEF Handshake
<1>3. ASSUME NEW c \in Client, NEW n \in Requested, NickRequest(c, n)
      PROVE  NamesUnique' /\ CleanInv'
  BY <1>3 DEF NickRequest, Request
<1>4. ASSUME NEW c \in Client, NEW r \in Room, JoinRequest(c, r)
      PROVE  NamesUnique' /\ CleanInv'
  BY <1>4 DEF JoinRequest, Request
<1>5. ASSUME NEW c \in Client, ChatMsg(c) PROVE NamesUnique' /\ CleanInv'
  BY <1>5 DEF ChatMsg, Request
<1>6. ASSUME NEW c \in Client, LoopEnds(c) PROVE NamesUnique' /\ CleanInv'
  BY <1>6 DEF LoopEnds, Request
<1>7. ASSUME NEW c \in Client, GetRoom(c) PROVE NamesUnique' /\ CleanInv'
  BY <1>7 DEF GetRoom
<1>8. ASSUME NEW c \in Client, Add(c) PROVE NamesUnique' /\ CleanInv'
  BY <1>8 DEF Add, CanUse, RoomOf
<1>9. ASSUME NEW c \in Client, Move(c) PROVE NamesUnique' /\ CleanInv'
  BY <1>9 DEF Move, CanUse, RoomOf, Settle
<1>10. ASSUME NEW c \in Client, Quit(c) PROVE NamesUnique' /\ CleanInv'
  BY <1>10 DEF Quit, CanUse, RoomOf, Answered
<1>11. ASSUME NEW c \in Client, Taken(c) PROVE NamesUnique' /\ CleanInv'
  BY <1>11 DEF Taken, CanUse, Answered
<1>12. ASSUME NEW c \in Client, NickFree(c) PROVE NamesUnique' /\ CleanInv'
  <2>1. /\ clean' = [clean EXCEPT ![c] = ~Claimed(c, asked[c], room[c])]
        /\ UNCHANGED <<members, name, room, asked, unsure>>
        /\ asked[c] \in Nick /\ room[c] \in Room
    BY <1>12 DEF NickFree, CanUse
  <2>2. /\ clean'[c] <=> ~Claimed(c, asked[c], room[c])
        /\ \A d \in Client \ {c} : clean'[d] = clean[d]
    <3>1. clean \in [Client -> BOOLEAN]
      OBVIOUS
    <3>2. clean' = [clean EXCEPT ![c] = ~Claimed(c, asked[c], room[c])]
      BY <2>1
    <3> QED BY ONLY <3>1, <3>2, Zenon
  <2>3. \A d \in members[room[c]] :
          d # c /\ pc[d] # "assign" => name[d] # asked[c]
    BY <1>12 DEF NickFree, MayBeFree, NameReads
  <2>4. Claimed(c, asked[c], room[c])
          <=> \E d \in Client \ {c} : Claims(d, asked[c], room[c])
    BY DEF Claimed
  <2>5. \A x \in Nick, q \in Room :
          /\ \A d \in Client \ {c} : Claims(d, x, q)' <=> Claims(d, x, q)
          /\ Claims(c, x, q)' <=> x = asked[c] /\ q = room[c]
    BY <1>12, <2>1 DEF NickFree, CanUse, RoomOf
  <2>6. \A q \in Room : Named(q)' \subseteq Named(q)
    BY <1>12, <2>1 DEF NickFree, CanUse
  <2>7. NamesUnique'
    BY <2>1, <2>6
  <2>8. ASSUME NEW b \in Client, clean'[b], NEW x \in Nick, NEW q \in Room,
               Claims(b, x, q)'
        PROVE  /\ \A d \in Named(q)' : d # b /\ name[d] = x => d \in unsure
               /\ \A d \in Client \ {b} : Claims(d, x, q)' => ~clean'[d]
    <3>1. CASE b = c
      <4>1. x = asked[c] /\ q = room[c] /\ ~Claimed(c, asked[c], room[c])
        BY ONLY <2>5, <2>8, <2>2, <3>1
      <4>2. \A d \in Named(q)' : d \in members[q] /\ pc[d] # "assign"
        BY <2>6
      <4>3. \A d \in Named(q)' : d # b => name[d] # x
        BY ONLY <2>3, <3>1, <4>1, <4>2
      <4>4. \A d \in Client \ {b} : ~Claims(d, x, q)'
        BY ONLY <2>4, <2>5, <2>8, <3>1, <4>1
      <4> QED BY ONLY <4>3, <4>4
    <3>2. CASE b # c
      <4>1. clean[b] /\ Claims(b, x, q)
        BY <2>1, <2>5, <2>8, <3>2
      <4>2. /\ \A d \in Named(q) : d # b /\ name[d] = x => d \in unsure
            /\ \A d \in Client \ {b} : Claims(d, x, q) => ~clean[d]
        BY <4>1, <2>8 DEF CleanInv
      <4>3. Claims(c, x, q)' => ~clean'[c]
        BY ONLY <2>4, <2>5, <2>8, <2>2, <3>2, <4>1
      <4>4. \A d \in Client \ {b} : Claims(d, x, q)' => ~clean'[d]
        BY <2>1, <2>5, <2>8, <4>2, <4>3
      <4> QED BY <2>6, <4>2, <4>4
    <3> QED BY <3>1, <3>2
  <2> QED BY <2>1, <2>7, <2>8 DEF CleanInv
<1>13. ASSUME NEW c \in Client, JoinFree(c) PROVE NamesUnique' /\ CleanInv'
  <2>1. /\ clean' = [clean EXCEPT ![c] = ~Claimed(c, name[c], asked[c])]
        /\ UNCHANGED <<members, name, room, asked, unsure>>
        /\ name[c] \in Nick /\ asked[c] \in Room
    BY <1>13 DEF JoinFree, CanUse
  <2>2. /\ clean'[c] <=> ~Claimed(c, name[c], asked[c])
        /\ \A d \in Client \ {c} : clean'[d] = clean[d]
    <3>1. clean \in [Client -> BOOLEAN]
      OBVIOUS
    <3>2. clean' = [clean EXCEPT ![c] = ~Claimed(c, name[c], asked[c])]
      BY <2>1
    <3> QED BY ONLY <3>1, <3>2, Zenon
  <2>3. \A d \in members[asked[c]] :
          d # c /\ pc[d] # "assign" => name[d] # name[c]
    BY <1>13 DEF JoinFree, MayBeFree, NameReads
  <2>4. Claimed(c, name[c], asked[c])
          <=> \E d \in Client \ {c} : Claims(d, name[c], asked[c])
    BY DEF Claimed
  <2>5. \A x \in Nick, q \in Room :
          /\ \A d \in Client \ {c} : Claims(d, x, q)' <=> Claims(d, x, q)
          /\ Claims(c, x, q)' <=> x = name[c] /\ q = asked[c]
    BY <1>13, <2>1 DEF JoinFree, CanUse, RoomOf
  <2>6. \A q \in Room : Named(q)' \subseteq Named(q)
    BY <1>13, <2>1 DEF JoinFree, CanUse
  <2>7. NamesUnique'
    BY <2>1, <2>6
  <2>8. ASSUME NEW b \in Client, clean'[b], NEW x \in Nick, NEW q \in Room,
               Claims(b, x, q)'
        PROVE  /\ \A d \in Named(q)' : d # b /\ name[d] = x => d \in unsure
               /\ \A d \in Client \ {b} : Claims(d, x, q)' => ~clean'[d]
    <3>1. CASE b = c
      <4>1. x = name[c] /\ q = asked[c] /\ ~Claimed(c, name[c], asked[c])
        BY ONLY <2>5, <2>8, <2>2, <3>1
      <4>2. \A d \in Named(q)' : d \in members[q] /\ pc[d] # "assign"
        BY <2>6
      <4>3. \A d \in Named(q)' : d # b => name[d] # x
        BY ONLY <2>3, <3>1, <4>1, <4>2
      <4>4. \A d \in Client \ {b} : ~Claims(d, x, q)'
        BY ONLY <2>4, <2>5, <2>8, <3>1, <4>1
      <4> QED BY ONLY <4>3, <4>4
    <3>2. CASE b # c
      <4>1. clean[b] /\ Claims(b, x, q)
        BY <2>1, <2>5, <2>8, <3>2
      <4>2. /\ \A d \in Named(q) : d # b /\ name[d] = x => d \in unsure
            /\ \A d \in Client \ {b} : Claims(d, x, q) => ~clean[d]
        BY <4>1, <2>8 DEF CleanInv
      <4>3. Claims(c, x, q)' => ~clean'[c]
        BY ONLY <2>4, <2>5, <2>8, <2>2, <3>2, <4>1
      <4>4. \A d \in Client \ {b} : Claims(d, x, q)' => ~clean'[d]
        BY <2>1, <2>5, <2>8, <4>2, <4>3
      <4> QED BY <2>6, <4>2, <4>4
    <3> QED BY <3>1, <3>2
  <2> QED BY <2>1, <2>7, <2>8 DEF CleanInv
<1>14. ASSUME NEW c \in Client, Assign(c) PROVE NamesUnique' /\ CleanInv'
  BY <1>14 DEF Assign, Settle, Answered
<1>15. ASSUME NEW c \in Client, CastBegins(c) PROVE NamesUnique' /\ CleanInv'
  BY <1>15 DEF CastBegins, CanUse, RoomOf
<1>16. ASSUME NEW c \in Client, NEW d \in Client, CastTo(c, d)
       PROVE  NamesUnique' /\ CleanInv'
  BY <1>16 DEF CastTo
<1>17. ASSUME NEW c \in Client, CastEnds(c) PROVE NamesUnique' /\ CleanInv'
  BY <1>17, AfterIs DEF CastEnds
<1>18. ASSUME NEW c \in Client, UseStale(c) PROVE NamesUnique' /\ CleanInv'
  BY <1>18, AfterIs DEF UseStale
<1>19. ASSUME NEW c \in Client, NEW n \in Nick, DmRequest(c, n)
       PROVE  NamesUnique' /\ CleanInv'
  BY <1>19 DEF DmRequest
<1>20. ASSUME NEW c \in Client, DmSend(c) PROVE NamesUnique' /\ CleanInv'
  BY <1>20 DEF DmSend
<1>21. ASSUME NEW c \in Client, Unregister(c) PROVE NamesUnique' /\ CleanInv'
  BY <1>21 DEF Unregister
<1>22. ASSUME NEW c \in Client, Delete(c) PROVE NamesUnique' /\ CleanInv'
  BY <1>22 DEF Delete
<1>23. ASSUME NEW r \in Room, QueryRoom(r) PROVE NamesUnique' /\ CleanInv'
  BY <1>23 DEF QueryRoom
<1>24. CASE QueryEnds
  BY <1>24 DEF QueryEnds
<1>25. CASE Stop
  BY <1>25 DEF Stop
<1>26. CASE UNCHANGED vars
  BY <1>26 DEF vars
<1> QED
  BY <1>1, <1>2, <1>3, <1>4, <1>5, <1>6, <1>7, <1>8, <1>9, <1>10, <1>11,
     <1>12, <1>13, <1>14, <1>15, <1>16, <1>17, <1>18, <1>19, <1>20, <1>21,
     <1>22, <1>23, <1>24, <1>25, <1>26, ZenonT(40)
  DEF Next, ClientNext, ConsoleNext

-----------------------------------------------------------------------------

LEMMA TargetsHold == IInv => TargetsLive
<1> SUFFICES ASSUME IInv, NEW t \in (Client \cup {Console}) \ stale,
                    NEW d \in todo[t]
             PROVE  /\ pc[d] \notin {"absent", "accepted", "gone"}
                    /\ t # Console /\ pc[t] \in Casts
                         => pc[d] \in Inside \cup {"remove", "unroom"}
  BY DEF TargetsLive
<1> USE RoomsAssumption, UsesAre
    DEF IInv, Shape, TypeOK, StageInv, TargetsInv, MembershipAgrees, Casts
<1>1. CASE t = Console
  BY <1>1
<1>2. CASE t \in Client /\ stage[t] = "mutex"
  BY <1>2
<1>3. CASE t \in Client /\ stage[t] # "mutex"
  BY <1>3
<1> QED BY <1>1, <1>2, <1>3

LEMMA NextIInv == IInv /\ [Next]_vars => IInv'
  BY ShapeNext, MembershipNext, TargetsNext, NamesNext DEF IInv

LEMMA Inductive == Spec => []IInv
  BY InitIInv, NextIInv, PTL DEF Spec

-----------------------------------------------------------------------------
(* The refinement of RoomCast. *)

WhereIs == [c \in Client |-> IF c \in members[room[c]] THEN room[c] ELSE None]

PendingIs == [c \in Client |-> IF Underway(c) = {} THEN <<>>
                                                   ELSE SetToSeq(Underway(c))]

LEMMA SingleToSeq ==
  ASSUME NEW x
  PROVE  SetToSeq({x}) = <<x>>
<1>1. Cardinality({x}) = 1
  BY FS_Singleton
<1>2. <<x>> \in [1..1 -> {x}] /\ IsInjective(<<x>>)
  BY DEF IsInjective
<1>3. \A f \in [1..1 -> {x}] : f = <<x>>
  OBVIOUS
<1> QED BY <1>1, <1>2, <1>3 DEF SetToSeq

\* The room's mutex lets one broadcast at a time be under way to a client,
\* and it goes to members.
LEMMA OneUnderway ==
  ASSUME IInv, NEW c \in Client, NEW t \in Underway(c)
  PROVE  /\ Underway(c) = {t} /\ t \in Client /\ PendingIs[c] = <<t>>
         /\ c \in members[room[c]] /\ room[t] = room[c]
         /\ roomMutex[room[c]] = t
<1>1. ASSUME NEW u \in Underway(c)
      PROVE  u \in Client /\ c \in members[room[c]] /\ room[u] = room[c]
             /\ roomMutex[room[c]] = u
  BY DEF Underway, IInv, Shape, TypeOK, TargetsInv, MembershipAgrees
<1>2. Underway(c) = {t}
  BY <1>1
<1> QED BY <1>1, <1>2, SingleToSeq DEF PendingIs

\* Steps that move nobody between rooms and broadcast nothing.
LEMMA QuietStep ==
  ASSUME UNCHANGED <<members, room>>,
         \A c \in Client : Underway(c)' = Underway(c)
  PROVE  WhereIs' = WhereIs /\ PendingIs' = PendingIs
  BY DEF WhereIs, PendingIs

LEMMA Quiet ==
  ASSUME IInv, NEW c \in Client,
         \/ Accept(c) \/ Connect(c) \/ Handshake(c) \/ GetRoom(c)
         \/ \E n \in Requested : NickRequest(c, n)
         \/ \E r \in Room : JoinRequest(c, r)
         \/ ChatMsg(c) \/ LoopEnds(c)
         \/ Taken(c) \/ NickFree(c) \/ JoinFree(c) \/ Assign(c)
         \/ \E n \in Nick : DmRequest(c, n)
         \/ DmSend(c) \/ Unregister(c)
  PROVE  WhereIs' = WhereIs /\ PendingIs' = PendingIs
<1> USE DEF serverVars, roomVars, clientVars, history
<1>1. UNCHANGED <<members, room, stale>>
  BY DEF Accept, Connect, Handshake, GetRoom, NickRequest, JoinRequest,
         ChatMsg, LoopEnds, Request, Taken, NickFree, JoinFree, Assign,
         DmRequest, DmSend, Unregister
<1>2. \A t \in Client \ {c} : todo'[t] = todo[t] /\ stage'[t] = stage[t]
  BY DEF Accept, Connect, Handshake, GetRoom, NickRequest, JoinRequest,
         ChatMsg, LoopEnds, Request, Taken, NickFree, JoinFree, Assign,
         DmRequest, DmSend, Unregister, LetGo, IInv, Shape, TypeOK
<1>3. stage[c] # "mutex" /\ stage'[c] # "mutex"
  BY UsesAre
  DEF Accept, Connect, Handshake, GetRoom, NickRequest, JoinRequest,
      ChatMsg, LoopEnds, Request, Taken, NickFree, JoinFree, Assign,
      DmRequest, DmSend, Unregister, LetGo, CanUse, IInv, Shape, TypeOK,
      StageInv
<1>4. \A d \in Client : Underway(d)' = Underway(d)
  BY <1>1, <1>2, <1>3 DEF Underway
<1> QED BY <1>1, <1>4, QuietStep

\* A client enters the room it is to be in.
LEMMA EnterStep ==
  ASSUME IInv, NEW c \in Client, Add(c) \/ Move(c)
  PROVE  \E r \in Room : Cast!Enter(c, r)
<1> USE RoomsAssumption DEF IInv, Shape, TypeOK, serverVars, roomVars,
                            clientVars
<1>1. /\ room' = room /\ todo' = todo /\ stale' = stale
      /\ members' = [members EXCEPT ![room[c]] = @ \cup {c}]
      /\ stage' = [stage EXCEPT ![c] = "none"] /\ stage[c] = "reference"
      /\ pc[c] \in {"add", "move"}
  BY DEF Add, Move, CanUse, LetGo
<1>2. room[c] \in Room /\ c \notin members[room[c]]
  BY <1>1, UsesAre DEF MembershipAgrees
<1>3. WhereIs[c] = None /\ WhereIs' = [WhereIs EXCEPT ![c] = room[c]]
  <2>1. \A d \in Client :
          d \in members'[room[d]] <=> d = c \/ d \in members[room[d]]
    BY <1>1, <1>2
  <2>2. WhereIs[c] = None
    BY <1>2 DEF WhereIs
  <2>3. DOMAIN WhereIs = Client /\ DOMAIN WhereIs' = Client
    BY DEF WhereIs
  <2>4. ASSUME NEW d \in Client
        PROVE  WhereIs'[d] = IF d = c THEN room[c] ELSE WhereIs[d]
    BY <1>1, <2>1, SMTT(30) DEF WhereIs
  <2>5. WhereIs' = [d \in Client |-> WhereIs'[d]]
    BY DEF WhereIs
  <2>6. WhereIs = [d \in Client |-> WhereIs[d]]
    BY DEF WhereIs
  <2> HIDE DEF WhereIs
  <2> QED BY <2>2, <2>4, <2>5, <2>6, SMTT(30)
<1>4. \A d \in Client : Underway(d)' = Underway(d)
  BY <1>1 DEF Underway
<1>5. PendingIs' = PendingIs
  BY <1>4 DEF PendingIs
<1>6. \E r \in Room : /\ WhereIs[c] = None /\ PendingIs' = PendingIs
                     /\ WhereIs' = [WhereIs EXCEPT ![c] = r]
  BY <1>2, <1>3, <1>5
<1> QED BY ONLY <1>6 DEF Cast!Enter, WhereIs, PendingIs

\* A client leaves its room when nothing in it is under way.
LEMMA LeaveStep ==
  ASSUME IInv, NEW c \in Client, Quit(c) \/ Delete(c)
  PROVE  Cast!Leave(c) \/ (WhereIs' = WhereIs /\ PendingIs' = PendingIs)
<1> USE RoomsAssumption DEF IInv, Shape, TypeOK, serverVars, roomVars,
                            clientVars
<1>1. /\ members' = [members EXCEPT ![room[c]] = @ \ {c}]
      /\ \A d \in Client \ {c} : room'[d] = room[d]
      /\ todo' = todo /\ stale' = stale
      /\ \A d \in Client \ {c} : stage'[d] = stage[d]
      /\ stage[c] # "mutex" /\ stage'[c] # "mutex"
      /\ roomMutex[room[c]] = None
      /\ room'[c] \in Room
  BY UsesAre DEF Quit, Delete, CanUse, RoomOf, LetGo, AskedInv, StageInv
<1>2. \A d \in Client : Underway(d)' = Underway(d)
  BY ONLY <1>1 DEF Underway
<1>3. Underway(c) = {}
  BY <1>1, OneUnderway
<1>4. \A r \in Room : c \notin members'[r]
  BY <1>1 DEF MembershipAgrees
<1>5. WhereIs' = [WhereIs EXCEPT ![c] = None]
  <2>1. \A d \in Client \ {c} :
          d \in members'[room'[d]] <=> d \in members[room[d]]
    BY <1>1
  <2>2. \A d \in Client :
          (IF d \in members'[room'[d]] THEN room'[d] ELSE None)
            = IF d = c THEN None ELSE WhereIs[d]
    BY <1>1, <1>4, <2>1 DEF WhereIs
  <2>3. /\ WhereIs = [d \in Client |-> WhereIs[d]]
        /\ WhereIs' = [d \in Client |-> IF d = c THEN None ELSE WhereIs[d]]
    BY <2>2 DEF WhereIs
  <2> HIDE DEF WhereIs
  <2> QED BY ONLY <2>3
<1>6. PendingIs' = PendingIs /\ PendingIs[c] = <<>>
  BY <1>2, <1>3 DEF PendingIs
<1>7. CASE WhereIs[c] = None
  <2>1. WhereIs' = WhereIs
    <3>1. WhereIs = [d \in Client |-> WhereIs[d]]
      BY DEF WhereIs
    <3> HIDE DEF WhereIs
    <3> QED BY ONLY <1>5, <1>7, <3>1
  <2> QED BY <1>6, <2>1
<1>8. CASE WhereIs[c] # None
  BY <1>5, <1>6, <1>8 DEF Cast!Leave, WhereIs, PendingIs
<1> QED BY <1>7, <1>8

\* A broadcast is made when its mutex is taken ...
LEMMA BroadcastStep ==
  ASSUME IInv, NEW c \in Client, CastBegins(c)
  PROVE  \/ Cast!Broadcast(room[c], c) /\ room[c] \in Room
         \/ WhereIs' = WhereIs /\ PendingIs' = PendingIs
<1> USE RoomsAssumption DEF IInv, Shape, TypeOK, serverVars, roomVars,
                            clientVars
<1>1. /\ UNCHANGED <<members, room, stale>>
      /\ todo' = [todo EXCEPT ![c] = Audience(c)]
      /\ stage' = [stage EXCEPT ![c] = "mutex"]
      /\ stage[c] = "reference" /\ c \notin stale
      /\ roomMutex[room[c]] = None /\ room[c] \in Room
  BY UsesAre DEF CastBegins, CanUse, RoomOf, Casts
<1>2. PICK skip \in {{}, {c}} : Audience(c) = members[room[c]] \ skip
  BY DEF Audience
<1>3. \A d \in Client : Underway(d)' =
        IF d \in Audience(c) THEN Underway(d) \cup {c} ELSE Underway(d)
  BY <1>1 DEF Underway
<1>4. \A d \in Client : WhereIs[d] = room[c] <=> d \in members[room[c]]
  BY <1>1 DEF WhereIs, MembershipAgrees
<1>5. \A d \in members[room[c]] : Underway(d) = {} /\ d \in Client
  <2> SUFFICES ASSUME NEW d \in members[room[c]], NEW t \in Underway(d)
               PROVE  FALSE
    BY <1>1
  <2>1. d \in Client /\ room[d] = room[c]
    BY <1>1 DEF MembershipAgrees
  <2> QED BY <1>1, <2>1, OneUnderway
<1>6. \A d \in Client : PendingIs'[d] =
        IF WhereIs[d] = room[c] /\ d \notin skip THEN Append(PendingIs[d], c)
                                                 ELSE PendingIs[d]
  <2>1. ASSUME NEW d \in Client, d \in Audience(c)
        PROVE  PendingIs[d] = <<>> /\ PendingIs'[d] = <<c>>
    <3>1. Underway(d) = {} /\ Underway(d)' = {c}
      BY <1>2, <1>3, <1>5, <2>1
    <3> QED BY <3>1, SingleToSeq DEF PendingIs
  <2>2. ASSUME NEW d \in Client, d \notin Audience(c)
        PROVE  PendingIs'[d] = PendingIs[d]
    BY <1>3, <2>2 DEF PendingIs
  <2>3. Append(<<>>, c) = <<c>>
    OBVIOUS
  <2> QED BY <1>2, <1>4, <2>1, <2>2, <2>3
<1>7. CASE PendingIs' = PendingIs
  BY <1>1, <1>7 DEF WhereIs
<1>8. CASE PendingIs' # PendingIs
  <2>1. PendingIs' = [d \in Client |->
           IF WhereIs[d] = room[c] /\ d \notin skip
             THEN Append(PendingIs[d], c) ELSE PendingIs[d]]
    BY <1>6 DEF PendingIs
  <2>2. WhereIs' = WhereIs
    BY <1>1 DEF WhereIs
  <2> QED BY <1>1, <1>8, <2>1, <2>2, ZenonT(30)
         DEF Cast!Broadcast, WhereIs, PendingIs
<1> QED BY <1>7, <1>8

\* ... and reaches each client when it is sent to it.
LEMMA SendStep ==
  ASSUME IInv, NEW c \in Client, NEW d \in Client, CastTo(c, d)
  PROVE  Cast!Send(d)
<1> USE RoomsAssumption DEF IInv, Shape, TypeOK, serverVars, roomVars,
                            clientVars
<1>1. /\ UNCHANGED <<members, room, stale, stage>>
      /\ todo' = [todo EXCEPT ![c] = @ \ {d}]
  BY DEF CastTo
<1>2. c \in Underway(d)
  BY DEF CastTo, Underway
<1>3. Underway(d) = {c} /\ PendingIs[d] = <<c>>
  BY <1>2, OneUnderway
<1>4. /\ Underway(d)' = {}
      /\ \A e \in Client \ {d} : Underway(e)' = Underway(e)
  BY <1>1, <1>3 DEF Underway
<1>5. PendingIs' = [PendingIs EXCEPT ![d] = <<>>]
  BY <1>4 DEF PendingIs
<1>6. Tail(<<c>>) = <<>> /\ <<c>> # <<>>
  OBVIOUS
<1>7. WhereIs' = WhereIs
  BY <1>1 DEF WhereIs
<1> QED BY <1>3, <1>5, <1>6, <1>7 DEF Cast!Send, WhereIs, PendingIs

LEMMA EndsStep ==
  ASSUME IInv, NEW c \in Client, CastEnds(c) \/ UseStale(c)
  PROVE  WhereIs' = WhereIs /\ PendingIs' = PendingIs
<1> USE RoomsAssumption DEF IInv, Shape, TypeOK, serverVars, roomVars,
                            clientVars
<1>1. CASE CastEnds(c)
  <2>1. /\ UNCHANGED <<members, room, stale, todo>>
        /\ stage' = [stage EXCEPT ![c] = "none"] /\ todo[c] = {}
    BY <1>1 DEF CastEnds, LetGo
  <2>2. \A d \in Client : Underway(d)' = Underway(d)
    BY <2>1 DEF Underway
  <2> QED BY <2>1, <2>2, QuietStep
<1>2. CASE UseStale(c)
  <2>1. /\ members' = members /\ stale' = stale \ {c} /\ c \in stale
        /\ stage' = [stage EXCEPT ![c] = "none"]
        /\ todo' = [todo EXCEPT ![c] = {}]
        /\ \A d \in Client \ {c} : room'[d] = room[d]
        /\ room'[c] \in Room
    BY <1>2, UsesAre DEF UseStale, LetGo, AskedInv, StageInv
  <2>2. \A d \in Client : Underway(d)' = Underway(d)
    BY <2>1 DEF Underway
  <2>3. c \notin members[room[c]] /\ c \notin members[room'[c]]
    BY <2>1 DEF StageInv
  <2>4. WhereIs' = WhereIs
    BY <2>1, <2>3 DEF WhereIs
  <2> QED BY <2>2, <2>4 DEF PendingIs
<1> QED BY <1>1, <1>2

LEMMA StopStep ==
  ASSUME IInv, Stop
  PROVE  Cast!End
<1> USE RoomsAssumption DEF IInv, Shape, TypeOK, serverVars, roomVars,
                            clientVars
<1>1. \A c \in Client : c \notin members'[room'[c]]
  BY DEF Stop
<1>2. \A c \in Client : Underway(c)' = {}
  BY DEF Stop, Underway
<1> QED BY <1>1, <1>2 DEF Cast!End, Cast!Nowhere

LEMMA InitCast == Init => Cast!Init
<1> SUFFICES ASSUME Init PROVE Cast!Nowhere
  BY DEF Cast!Init
<1>1. \A c \in Client : c \notin members[room[c]] /\ Underway(c) = {}
  BY RoomsAssumption DEF Init, Underway
<1> QED BY <1>1 DEF Cast!Nowhere

LEMMA NextCast ==
  IInv /\ [Next]_vars => [Cast!Next]_<<WhereIs, PendingIs>>
<1> SUFFICES ASSUME IInv, [Next]_vars
             PROVE  Cast!Next \/ (WhereIs' = WhereIs /\ PendingIs' = PendingIs)
  OBVIOUS
<1> USE DEF Cast!Next
<1>1. ASSUME NEW c \in Client, Add(c) \/ Move(c) PROVE Cast!Next
  BY <1>1, EnterStep
<1>2. ASSUME NEW c \in Client, Quit(c) \/ Delete(c)
      PROVE  Cast!Next \/ (WhereIs' = WhereIs /\ PendingIs' = PendingIs)
  BY <1>2, LeaveStep
<1>3. ASSUME NEW c \in Client, CastBegins(c)
      PROVE  Cast!Next \/ (WhereIs' = WhereIs /\ PendingIs' = PendingIs)
  BY <1>3, BroadcastStep
<1>4. ASSUME NEW c \in Client, NEW d \in Client, CastTo(c, d) PROVE Cast!Next
  BY <1>4, SendStep
<1>5. ASSUME NEW c \in Client, CastEnds(c) \/ UseStale(c)
      PROVE  WhereIs' = WhereIs /\ PendingIs' = PendingIs
  BY <1>5, EndsStep
<1>6. CASE Stop
  BY <1>6, StopStep
<1>7. CASE (\E r \in Room : QueryRoom(r)) \/ QueryEnds
  <2>1. UNCHANGED <<members, room, stale, stage>>
        /\ \A t \in Client : todo'[t] = todo[t]
    BY <1>7, RoomsAssumption
    DEF QueryRoom, QueryEnds, IInv, Shape, TypeOK, serverVars, roomVars,
        clientVars
  <2>2. \A c \in Client : Underway(c)' = Underway(c)
    BY <2>1 DEF Underway
  <2> QED BY <2>1, <2>2, QuietStep
<1>8. CASE UNCHANGED vars
  <2>1. UNCHANGED <<members, room, stale, stage, todo>>
    BY <1>8 DEF vars, serverVars, roomVars, clientVars
  <2> QED BY <2>1, QuietStep DEF Underway
<1> HIDE DEF Cast!Next
<1> QED BY <1>1, <1>2, <1>3, <1>4, <1>5, <1>6, <1>7, <1>8, Quiet
    DEF Next, ClientNext, ConsoleNext

-----------------------------------------------------------------------------

\* Every variable keeps its type.
THEOREM TypeCorrect == Spec => []TypeOK
  BY Inductive, PTL DEF IInv, Shape

\* However joins, departures, broadcasts and stop() interleave, a client is
\* in no room but Client::room, and is in that one but for the moment of a
\* join.  (Client.cpp:355-363, Server.cpp:101)
THEOREM MembershipCorrect == Spec => []MembershipAgrees
  BY Inductive, PTL DEF IInv

\* Nobody that a broadcast, a direct message or a query has yet to come to
\* is deleted first.  (Room.cpp:28-33, Server.cpp:93-104, 338-355, 399-411)
THEOREM TargetsCorrect == Spec => []TargetsLive
  BY Inductive, TargetsHold, PTL

\* Checked nicknames collide in a room only by two checks that overlap.
\* (Client.cpp:322-330, 348-363)
THEOREM NamesCorrect == Spec => []NamesUnique
  BY Inductive, PTL DEF IInv

\* However the threads interleave, each broadcast reaches as if at once all who
\* are in the room, every client is sent them in the one order in which they
\* were made, and nobody leaves before it has been sent those of its stay:
\* the rooms implement RoomCast.  (Room.cpp:12-33)
THEOREM RefinesRoomCast == Spec => OneOrder
<1>1. Init => Cast!Init
  BY InitCast
<1>2. IInv /\ [Next]_vars => [Cast!Next]_<<WhereIs, PendingIs>>
  BY NextCast
<1> QED BY <1>1, <1>2, Inductive, PTL
    DEF Spec, OneOrder, Cast!Spec, Cast!vars, WhereIs, PendingIs
=============================================================================
