------------------------------- MODULE Rooms -------------------------------
(***************************************************************************)
(* Rooms and what is said in them: who is in which room, nicknames, the    *)
(* broadcasts to a room and the messages to one client.                    *)
(*                                                                         *)
(* A room is reached in two steps.  Server::getRoom looks it up under      *)
(* Server::mutex, creating it if need be, and returns a reference; the     *)
(* room's own methods then take the room's mutex.  A broadcast holds that  *)
(* mutex from the first member to the last; the other methods are one step *)
(* each.  Sends do not block here (module LockOrder has what they wait     *)
(* for).                                                                   *)
(*                                                                         *)
(* A client is named by its descriptor and keeps it: what happens when     *)
(* descriptors are reused is the concern of module Connections.  The end   *)
(* of the process, in order or by a crash, is a behaviour that stops.      *)
(***************************************************************************)
EXTENDS Naturals, FiniteSets, SequencesExt

CONSTANTS
  Client,       \* descriptors of the clients, in the order of the map's keys
  Room, Lobby,
  Nick,
  DefaultNick,  \* "usuario" + fd
  Requested,    \* nicknames clients ask for
  Console, None

ASSUME RoomsAssumption ==
  /\ Client \subseteq Nat
  /\ Lobby \in Room
  /\ DefaultNick \in [Client -> Nick] /\ Requested \subseteq Nick
  /\ None \notin Client \cup Room \cup Nick \cup {Console}
  /\ Console \notin Client

VARIABLES
  stopped,     \* stop() has cleared the maps
  mutex,       \* holder of Server::mutex, across steps
  registered,  \* the values of Server::clients
  members,     \* Room::clients; of a room not in Server::rooms, nobody
  roomMutex,   \* holder of each room's mutex, across steps
  name, room,  \* Client::name, Client::room
  pc,          \* where the client's thread is
  asked,       \* the nickname or room of its request
  stage,       \* what it has of the room: nothing, a reference, the mutex
  todo,        \* clients a loop or a message has yet to go to
  clean,       \* history: nobody was claiming the name in its last check
  unsure,      \* history: members whose name was not, or not alone, checked
  stale        \* threads whose reference is to a room that was destroyed

serverVars == <<stopped, mutex, registered>>
roomVars   == <<members, roomMutex>>
clientVars == <<name, room, asked>>
history    == <<clean, unsure>>
vars == <<serverVars, roomVars, clientVars, pc, stage, todo, history, stale>>

\* Positions that use a room, with where each can lead: into the room and
\* out of it, the two checks of a nickname, and the broadcasts.
After == [add       |-> {"greet"},
          quit      |-> {"move"},
          move      |-> {"arrive"},
          nickcheck |-> {"loop", "assign"},
          joincheck |-> {"loop", "part"},
          greet     |-> {"loop"},
          nicknote  |-> {"loop"},
          chat      |-> {"loop"},
          part      |-> {"quit"},
          arrive    |-> {"loop"},
          bye       |-> {"remove"}]

Uses  == DOMAIN After
Casts == {"greet", "nicknote", "chat", "part", "arrive", "bye"}

TypeOK ==
  /\ stopped \in BOOLEAN
  /\ mutex \in Client \cup {Console, None}
  /\ registered \subseteq Client
  /\ members \in [Room -> SUBSET Client]
  /\ roomMutex \in [Room -> Client \cup {None}]
  /\ name \in [Client -> Nick] /\ room \in [Client -> Room]
  /\ pc \in [Client -> Uses \cup {"absent", "accepted", "handshake", "loop",
                                  "assign", "dm", "remove", "unroom", "gone"}]
  /\ asked \in [Client -> Nick \cup Room \cup {None}]
  /\ stage \in [Client -> {"none", "reference", "mutex"}]
  /\ todo \in [Client \cup {Console} -> SUBSET Client]
  /\ clean \in [Client -> BOOLEAN]
  /\ unsure \subseteq Client /\ stale \subseteq Client

Init ==
  /\ stopped = FALSE /\ mutex = None
  /\ registered = {}
  /\ members = [r \in Room |-> {}]
  /\ roomMutex = [r \in Room |-> None]
  /\ name = DefaultNick
  /\ room = [c \in Client |-> Lobby]
  /\ pc = [c \in Client |-> "absent"]
  /\ asked = [c \in Client |-> None]
  /\ stage = [c \in Client |-> "none"]
  /\ todo = [t \in Client \cup {Console} |-> {}]
  /\ clean = [c \in Client |-> FALSE]
  /\ unsure = {} /\ stale = {}

-----------------------------------------------------------------------------
(* Helpers *)

Goto(c, p) == pc' = [pc EXCEPT ![c] = p]

\* The room a thread's current step is about: the one it asks to join while
\* it checks that room's names, its own otherwise.
RoomOf(c) == IF pc[c] = "joincheck" THEN asked[c] ELSE room[c]

\* A method of the room can run: the reference is good, the mutex is free.
CanUse(c, p) ==
  /\ pc[c] = p /\ stage[c] = "reference" /\ c \notin stale
  /\ roomMutex[RoomOf(c)] = None

LetGo(c) == stage' = [stage EXCEPT ![c] = "none"]

\* What getName() may return to another thread: while the string is being
\* assigned, without a lock, the old value, the new or a mixture.
NameReads(c) ==
  IF pc[c] = "assign" THEN {name[c], asked[c], None} ELSE {name[c]}

\* Server::isNicknameTaken may answer yes, or no.  (Its `exclude' changes
\* nothing: a client that asks for its own name was refused before.)
MayBeTaken(n, r) == \E d \in members[r] : n \in NameReads(d)
MayBeFree(n, r)  == \A d \in members[r] : NameReads(d) # {n}

\* Another client has passed its check for that name in that room and does
\* not bear it there yet.
Claimed(c, n, r) ==
  \E d \in Client \ {c} :
    \/ pc[d] = "assign" /\ asked[d] = n /\ room[d] = r
    \/ pc[d] \in {"part", "quit"} /\ name[d] = n /\ asked[d] = r
    \/ pc[d] = "move" /\ name[d] = n /\ room[d] = r

\* The name is published: what is known of it from the check.
Settle(c) ==
  /\ unsure' = IF clean[c] THEN unsure \ {c} ELSE unsure \cup {c}
  /\ clean' = [clean EXCEPT ![c] = FALSE]

\* The request is dealt with.
Answered(c) == asked' = [asked EXCEPT ![c] = None]

-----------------------------------------------------------------------------
(* The client's thread: Client::run and Client::processPacket. *)

\* accept() returns; the main thread has one connection at a time.
Accept(c) ==
  /\ ~stopped
  /\ pc[c] = "absent" /\ \A d \in Client : pc[d] # "accepted"
  /\ Goto(c, "accepted")
  /\ UNCHANGED <<serverVars, roomVars, clientVars, stage, todo, history,
                 stale>>

\* It is put in the map, which stop() may have cleared since, and the thread
\* starts.
Connect(c) ==
  /\ pc[c] = "accepted" /\ mutex = None
  /\ registered' = registered \cup {c}
  /\ Goto(c, "handshake")
  /\ UNCHANGED <<stopped, mutex, roomVars, clientVars, stage, todo,
                 history, stale>>

Handshake(c) ==
  /\ pc[c] = "handshake"
  /\ \E p \in {"add", "remove"} : Goto(c, p)
  /\ UNCHANGED <<serverVars, roomVars, clientVars, stage, todo, history,
                 stale>>

\* A request, or the end of the loop: nothing is read of any room yet.
Request(c, p, what) ==
  /\ pc[c] = "loop"
  /\ Goto(c, p)
  /\ asked' = [asked EXCEPT ![c] = what]
  /\ UNCHANGED <<serverVars, roomVars, name, room, stage, todo, history,
                 stale>>

NickRequest(c, n) == n # name[c] /\ Request(c, "nickcheck", n)
JoinRequest(c, r) == r # room[c] /\ Request(c, "joincheck", r)
ChatMsg(c)        == Request(c, "chat", None)     \* or an image for the room
LoopEnds(c)       == Request(c, "bye", None)

\* getRoom, under mutex: a room that is not there is created, empty.
GetRoom(c) ==
  /\ \E p \in Uses : pc[c] = p
  /\ stage[c] = "none" /\ mutex = None
  /\ stage' = [stage EXCEPT ![c] = "reference"]
  /\ UNCHANGED <<serverVars, roomVars, clientVars, pc, todo, history, stale>>

\* Room::addClient on arrival ...
Add(c) ==
  /\ CanUse(c, "add")
  /\ members' = [members EXCEPT ![room[c]] = @ \cup {c}]
  /\ unsure' = unsure \cup {c}
  /\ LetGo(c) /\ Goto(c, "greet")
  /\ UNCHANGED <<serverVars, roomMutex, clientVars, todo, clean, stale>>

\* ... and in a join.
Move(c) ==
  /\ CanUse(c, "move")
  /\ members' = [members EXCEPT ![room[c]] = @ \cup {c}]
  /\ Settle(c)
  /\ LetGo(c) /\ Goto(c, "arrive")
  /\ UNCHANGED <<serverVars, roomMutex, clientVars, todo, stale>>

\* Mutant: room is assigned before the client is taken out of the old one.
QuitNewRoom(c) ==
  /\ CanUse(c, "quit")
  /\ room' = [room EXCEPT ![c] = asked[c]]
  /\ members' = [members EXCEPT ![room'[c]] = @ \ {c}]
  /\ Answered(c) /\ LetGo(c) /\ Goto(c, "move")
  /\ UNCHANGED <<serverVars, roomMutex, name, todo, history, stale>>

\* Room::removeClient on the old room, then room = req->roomName.
Quit(c) ==
  /\ CanUse(c, "quit")
  /\ members' = [members EXCEPT ![room[c]] = @ \ {c}]
  /\ room' = [room EXCEPT ![c] = asked[c]]
  /\ Answered(c) /\ LetGo(c) /\ Goto(c, "move")
  /\ UNCHANGED <<serverVars, roomMutex, name, todo, history, stale>>

\* isNicknameTaken said yes: an error, and back to the loop.
Taken(c) ==
  /\ \/ CanUse(c, "nickcheck") /\ MayBeTaken(asked[c], room[c])
     \/ CanUse(c, "joincheck") /\ MayBeTaken(name[c], asked[c])
  /\ Answered(c) /\ LetGo(c) /\ Goto(c, "loop")
  /\ UNCHANGED <<serverVars, roomVars, name, room, todo, history, stale>>

\* It said no: name is about to be assigned ...
NickFree(c) ==
  /\ CanUse(c, "nickcheck") /\ MayBeFree(asked[c], room[c])
  /\ clean' = [clean EXCEPT ![c] = ~Claimed(c, asked[c], room[c])]
  /\ LetGo(c) /\ Goto(c, "assign")
  /\ UNCHANGED <<serverVars, roomVars, clientVars, todo, unsure, stale>>

\* Mutant: the name is looked for in the room the client is in.
JoinFreeOldRoom(c) ==
  /\ CanUse(c, "joincheck")
  /\ \A d \in members[room[c]] \ {c} : NameReads(d) # {name[c]}
  /\ clean' = [clean EXCEPT ![c] = ~Claimed(c, name[c], asked[c])]
  /\ LetGo(c) /\ Goto(c, "part")
  /\ UNCHANGED <<serverVars, roomVars, clientVars, todo, unsure, stale>>

\* ... or the leave notice to the old room is.
JoinFree(c) ==
  /\ CanUse(c, "joincheck") /\ MayBeFree(name[c], asked[c])
  /\ clean' = [clean EXCEPT ![c] = ~Claimed(c, name[c], asked[c])]
  /\ LetGo(c) /\ Goto(c, "part")
  /\ UNCHANGED <<serverVars, roomVars, clientVars, todo, unsure, stale>>

\* Mutant: newNick is moved from before it is copied.
AssignMoved(c) ==
  /\ pc[c] = "assign"
  /\ Answered(c)
  /\ name' = [name EXCEPT ![c] = asked'[c]]
  /\ Settle(c)
  /\ Goto(c, "nicknote")
  /\ UNCHANGED <<serverVars, roomVars, room, stage, todo, stale>>

\* The assignment of name is over.
Assign(c) ==
  /\ pc[c] = "assign"
  /\ name' = [name EXCEPT ![c] = asked[c]]
  /\ Settle(c)
  /\ Answered(c)
  /\ Goto(c, "nicknote")
  /\ UNCHANGED <<serverVars, roomVars, room, stage, todo, stale>>

-----------------------------------------------------------------------------
(* Room::broadcast.  A client's own arrival and departure are told to all, *)
(* the other notices to all but itself.                                    *)

Audience(c) ==
  members[room[c]] \ (IF pc[c] \in {"greet", "bye"} THEN {} ELSE {c})

\* Mutant: the members are sent to without the lock.
CastBeginsUnlocked(c) ==
  /\ \E p \in Casts : pc[c] = p
  /\ stage[c] = "reference" /\ c \notin stale
  /\ stage' = [stage EXCEPT ![c] = "mutex"]
  /\ todo' = [todo EXCEPT ![c] = Audience(c)]
  /\ UNCHANGED <<serverVars, roomVars, clientVars, pc, history, stale>>

CastBegins(c) ==
  /\ \E p \in Casts : CanUse(c, p)
  /\ roomMutex' = [roomMutex EXCEPT ![room[c]] = c]
  /\ stage' = [stage EXCEPT ![c] = "mutex"]
  /\ todo' = [todo EXCEPT ![c] = Audience(c)]
  /\ UNCHANGED <<serverVars, members, clientVars, pc, history, stale>>

CastTo(c, d) ==
  /\ stage[c] = "mutex" /\ c \notin stale
  /\ d \in todo[c]
  /\ todo' = [todo EXCEPT ![c] = @ \ {d}]
  /\ UNCHANGED <<serverVars, roomVars, clientVars, pc, stage, history, stale>>

CastEnds(c) ==
  /\ stage[c] = "mutex" /\ c \notin stale
  /\ todo[c] = {}
  /\ roomMutex' = [roomMutex EXCEPT ![room[c]] = None]
  /\ LetGo(c)
  /\ \E p \in After[pc[c]] : Goto(c, p)
  /\ UNCHANGED <<serverVars, members, clientVars, todo, history, stale>>

\* The room was destroyed under the thread's reference.  Its memory may end
\* the process (the behaviour stops), or look like a room still, with any
\* answer to a check; the rooms there are now do not change.
UseStale(c) ==
  /\ c \in stale
  /\ \E p \in After[pc[c]] : Goto(c, p)
  /\ stale' = stale \ {c}
  /\ todo' = [todo EXCEPT ![c] = {}]
  /\ clean' = [clean EXCEPT ![c] = FALSE]
  /\ room' = IF pc[c] = "quit" THEN [room EXCEPT ![c] = asked[c]] ELSE room
  /\ asked' = IF pc'[c] \in {"assign", "part", "quit"} THEN asked
                ELSE [asked EXCEPT ![c] = None]
  /\ LetGo(c)
  /\ UNCHANGED <<serverVars, roomVars, name, unsure>>

-----------------------------------------------------------------------------
(* Messages to one client, leaving, and the console. *)

\* sendDm and sendImageDm: the first client in the map, of whatever room,
\* that bears the name.  If there is none the sender is told.
Finds(n, d) ==
  /\ d \in registered /\ n \in NameReads(d)
  /\ \A e \in registered : e < d => NameReads(e) # {n}

DmRequest(c, n) ==
  /\ pc[c] = "loop" /\ mutex = None
  /\ \E d \in Client : Finds(n, d) /\ todo' = [todo EXCEPT ![c] = {d}]
  /\ mutex' = c
  /\ Goto(c, "dm")
  /\ UNCHANGED <<stopped, registered, roomVars, clientVars, stage,
                 history, stale>>

DmSend(c) ==
  /\ pc[c] = "dm"
  /\ todo' = [todo EXCEPT ![c] = {}]
  /\ mutex' = None
  /\ Goto(c, "loop")
  /\ UNCHANGED <<stopped, registered, roomVars, clientVars, stage,
                 history, stale>>

\* Server::removeClient: out of the map, with mutex ...
Unregister(c) ==
  /\ pc[c] = "remove" /\ mutex = None
  /\ mutex' = c
  /\ registered' = registered \ {c}
  /\ Goto(c, "unroom")
  /\ UNCHANGED <<stopped, roomVars, clientVars, stage, todo, history, stale>>

\* Mutant: Room::removeClient does not lock.
DeleteUnlocked(c) ==
  /\ pc[c] = "unroom"
  /\ members' = [members EXCEPT ![room[c]] = @ \ {c}]
  /\ unsure' = unsure \ {c}
  /\ mutex' = None
  /\ Goto(c, "gone")
  /\ UNCHANGED <<stopped, registered, roomMutex, clientVars, stage, todo,
                 clean, stale>>

\* ... out of the room, with the room's mutex too, and deleted.
Delete(c) ==
  /\ pc[c] = "unroom" /\ roomMutex[room[c]] = None
  /\ members' = [members EXCEPT ![room[c]] = @ \ {c}]
  /\ unsure' = unsure \ {c}
  /\ mutex' = None
  /\ Goto(c, "gone")
  /\ UNCHANGED <<stopped, registered, roomMutex, clientVars, stage, todo,
                 clean, stale>>

\* queryRoom copies the members with mutex but without the room's, then
\* reads their names.  (If a member is being added or removed meanwhile the
\* copy may end the process.)
QueryRoom(r) ==
  /\ mutex = None
  /\ mutex' = Console
  /\ todo' = [todo EXCEPT ![Console] = members[r]]
  /\ UNCHANGED <<stopped, registered, roomVars, clientVars, pc, stage, history,
                 stale>>

QueryEnds ==
  /\ mutex = Console
  /\ todo' = [todo EXCEPT ![Console] = {}]
  /\ mutex' = None
  /\ UNCHANGED <<stopped, registered, roomVars, clientVars, pc, stage,
                 history, stale>>

\* The end of stop(): both maps are cleared, with mutex only.  The rooms'
\* mutexes go with them.  ~Server does it again.
Stop ==
  /\ mutex = None
  /\ stopped' = TRUE
  /\ registered' = {}
  /\ members' = [r \in Room |-> {}]
  /\ roomMutex' = [r \in Room |-> None]
  /\ stale' = stale \cup {c \in Client : stage[c] # "none"}
  /\ clean' = [c \in Client |-> FALSE] /\ unsure' = {}
  /\ UNCHANGED <<mutex, clientVars, pc, stage, todo>>

-----------------------------------------------------------------------------
ClientNext(c) ==
  \/ Accept(c) \/ Connect(c) \/ Handshake(c) \/ GetRoom(c)
  \/ \E n \in Requested : NickRequest(c, n)
  \/ \E r \in Room : JoinRequest(c, r)
  \/ ChatMsg(c) \/ LoopEnds(c)
  \/ Add(c) \/ Move(c) \/ Quit(c)
  \/ Taken(c) \/ NickFree(c) \/ JoinFree(c) \/ Assign(c)
  \/ CastBegins(c) \/ (\E d \in Client : CastTo(c, d)) \/ CastEnds(c)
  \/ UseStale(c)
  \/ (\E n \in Nick : DmRequest(c, n)) \/ DmSend(c)
  \/ Unregister(c) \/ Delete(c)

ConsoleNext == (\E r \in Room : QueryRoom(r)) \/ QueryEnds \/ Stop

Next == (\E c \in Client : ClientNext(c)) \/ ConsoleNext

Spec == Init /\ [][Next]_vars

-----------------------------------------------------------------------------
(* Properties *)

\* Positions in which a client that has entered is in its room: all but
\* those between leaving the old room and entering the new.
Inside == (Uses \ {"add", "move"}) \cup {"loop", "assign", "dm"}

\* A client is in no room but Client::room, and until the server stops it
\* is in that one, but for the moment of a join between the two rooms.
\* (Client.cpp:355-363, Server.cpp:101)
MembershipAgrees ==
  /\ \A r \in Room : \A c \in members[r] :
       room[c] = r /\ pc[c] \in Inside \cup {"remove", "unroom"}
  /\ ~stopped =>
       \A c \in Client : pc[c] \in Inside => c \in members[room[c]]

\* Whoever a broadcast, a direct message or a query has yet to come to is
\* not deleted before, although a broadcast holds no server mutex and the
\* others no room mutex; and a broadcast goes to nobody still in the
\* handshake.  Threads left with a destroyed room are excepted.
\* (Room.cpp:28-33, Server.cpp:93-104, 338-355, 399-411)
TargetsLive ==
  \A t \in (Client \cup {Console}) \ stale : \A d \in todo[t] :
    /\ pc[d] \notin {"absent", "accepted", "gone"}
    /\ t # Console /\ pc[t] \in Casts =>
         pc[d] \in Inside \cup {"remove", "unroom"}

\* Two members of a room have one nickname only if one of them came with
\* its default nickname, which nothing checks, or was checked while the
\* other had passed its own check for it.  A member whose name is just
\* being assigned bears none.  (Client.cpp:28, 322-330, 348-363)
Named(r) == {c \in members[r] : pc[c] # "assign"}

NamesUnique ==
  \A r \in Room : \A c, d \in Named(r) :
    c # d /\ name[c] = name[d] => c \in unsure \/ d \in unsure

\* The broadcasts under way that client c is still to be sent.
Underway(c) ==
  {t \in Client \ stale : stage[t] = "mutex" /\ c \in todo[t]}

\* However the threads interleave, the rooms behave as if each broadcast
\* were made at once: see RoomCast.
Cast == INSTANCE RoomCast
          WITH where <- [c \in Client |->
                           IF c \in members[room[c]] THEN room[c] ELSE None],
               pending <- [c \in Client |->
                             IF Underway(c) = {} THEN <<>>
                                                 ELSE SetToSeq(Underway(c))]

OneOrder == Cast!Spec

=============================================================================
