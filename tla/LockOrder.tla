----------------------------- MODULE LockOrder -----------------------------
(***************************************************************************)
(* What threads wait for.  Server::mutex, the mutex of each room and the   *)
(* sendMutex of each client are taken one inside the other, and a send()   *)
(* made under all of them waits while the client's socket is full, that is *)
(* for as long as the client program does not read.                        *)
(*                                                                         *)
(* An operation is reduced to the locks it takes and the clients it sends  *)
(* to; whom it sends to, and in what order, is left open (see Rooms).  A   *)
(* critical section that neither sends nor takes another lock is one step. *)
(***************************************************************************)
EXTENDS Naturals, FiniteSets

CONSTANTS
  Client,    \* each with its thread, its sendMutex and its socket
  Room,      \* each with its mutex
  Admin,     \* the console's thread and the main thread
  Server,    \* Server::mutex
  None,
  Cap        \* bound: packets a socket takes while nobody reads

ASSUME LockAssumption ==
  /\ Cap \in Nat \ {0}
  /\ Client \cap Admin = {} /\ Client \cap Room = {}
  /\ Server \notin Client \cup Room
  /\ None \notin Client \cup Room \cup Admin

Thread == Client \cup Admin
Lock   == {Server} \cup Room \cup Client   \* a client stands for its sendMutex

VARIABLES
  holder,   \* of each lock
  pc,       \* what the thread is about to do
  op,       \* its operation
  place,    \* the operation's room
  todo,     \* clients it has yet to send to
  target,   \* the one it is sending to
  unread,   \* packets in each socket
  closed    \* connections that are down: send() fails at once

vars == <<holder, pc, op, place, todo, target, unread, closed>>

Ops == {"own", "direct", "cast", "look", "leave", "brief"}

TypeOK ==
  /\ holder \in [Lock -> Thread \cup {None}]
  /\ pc \in [Thread -> {"idle", "server", "room", "next", "send", "put",
                        "ended"}]
  /\ op \in [Thread -> Ops \cup {"none"}]
  /\ place \in [Thread -> Room \cup {None}]
  /\ todo \in [Thread -> SUBSET Client]
  /\ target \in [Thread -> Client \cup {None}]
  /\ unread \in [Client -> 0..Cap]
  /\ closed \subseteq Client
  /\ \A t \in Thread : pc[t] \in {"send", "put"} => target[t] \in Client
  /\ \A t \in Thread : pc[t] = "room" => place[t] \in Room

Init ==
  /\ holder = [l \in Lock |-> None]
  /\ pc = [t \in Thread |-> "idle"]
  /\ op = [t \in Thread |-> "none"]
  /\ place = [t \in Thread |-> None]
  /\ todo = [t \in Thread |-> {}]
  /\ target = [t \in Thread |-> None]
  /\ unread = [c \in Client |-> 0]
  /\ closed = {}

-----------------------------------------------------------------------------
(* Operations *)

Begin(t, o, r, cs, p) ==
  /\ pc[t] = "idle"
  /\ op' = [op EXCEPT ![t] = o]
  /\ place' = [place EXCEPT ![t] = r]
  /\ todo' = [todo EXCEPT ![t] = cs]
  /\ pc' = [pc EXCEPT ![t] = p]
  /\ UNCHANGED <<holder, target, unread, closed>>

\* A packet to the client itself: welcome, answers, errors, keepalives.
Own(c) == Begin(c, "own", None, {c}, "next")

\* Packets under Server::mutex: a direct message or its error from a client's
\* thread, a kick, a ban or stop() from the others'.
Direct(t, cs) == /\ cs # {} /\ (t \in Client => Cardinality(cs) = 1)
                 /\ Begin(t, "direct", None, cs, "server")

\* getRoom, then Room::broadcast.
Cast(c, r, cs) == cs # {} /\ Begin(c, "cast", r, cs, "server")

\* getRoom, then addClient, removeClient or getUserNames, or a broadcast to
\* nobody.
Look(c, r) == Begin(c, "look", r, {}, "server")

\* Server::removeClient, the thread's last act.
Leave(c, r) == Begin(c, "leave", r, {}, "server")

\* A look at the map or the bans, a registration, a list or a query, or a
\* loop over the map that finds nobody.
Brief(t) == Begin(t, "brief", None, {}, "server")

-----------------------------------------------------------------------------
(* Steps *)

Goto(t, p) == /\ pc' = [pc EXCEPT ![t] = p]
              /\ IF p \in {"idle", "ended"}
                   THEN /\ op' = [op EXCEPT ![t] = "none"]
                        /\ place' = [place EXCEPT ![t] = None]
                   ELSE UNCHANGED <<op, place>>

\* Server::mutex: for a moment, unless the operation goes on under it.
LockServer(t) ==
  /\ pc[t] = "server" /\ holder[Server] = None
  /\ holder' = IF op[t] \in {"direct", "leave"}
                 THEN [holder EXCEPT ![Server] = t] ELSE holder
  /\ Goto(t, CASE op[t] = "brief"  -> "idle"
               [] op[t] = "direct" -> "next"
               [] OTHER            -> "room")
  /\ UNCHANGED <<todo, target, unread, closed>>

\* Mutant: addClient announces the arrival itself, before it unlocks.
LockRoomAnnounces(t) ==
  /\ pc[t] = "room" /\ holder[place[t]] = None
  /\ holder' = IF op[t] = "leave" THEN [holder EXCEPT ![Server] = None]
                                  ELSE [holder EXCEPT ![place[t]] = t]
  /\ Goto(t, CASE op[t] = "cast" -> "next"
               [] op[t] = "look" -> "server"
               [] OTHER          -> "ended")
  /\ UNCHANGED <<todo, target, unread, closed>>

\* The room's mutex: a broadcast goes on under it; removeClient releases
\* Server::mutex after it.
LockRoom(t) ==
  /\ pc[t] = "room" /\ holder[place[t]] = None
  /\ holder' = CASE op[t] = "cast"  -> [holder EXCEPT ![place[t]] = t]
                 [] op[t] = "leave" -> [holder EXCEPT ![Server] = None]
                 [] OTHER           -> holder
  /\ Goto(t, CASE op[t] = "cast" -> "next"
               [] op[t] = "look" -> "idle"
               [] OTHER          -> "ended")
  /\ UNCHANGED <<todo, target, unread, closed>>

\* The loop over the members, or over the map, comes to a client to send to.
PickNext(t, c) ==
  /\ pc[t] = "next" /\ c \in todo[t]
  /\ todo' = [todo EXCEPT ![t] = @ \ {c}]
  /\ target' = [target EXCEPT ![t] = c]
  /\ Goto(t, "send")
  /\ UNCHANGED <<holder, unread, closed>>

\* sendPacket takes sendMutex ...
LockSend(t) ==
  /\ pc[t] = "send" /\ holder[target[t]] = None
  /\ holder' = [holder EXCEPT ![target[t]] = t]
  /\ Goto(t, "put")
  /\ UNCHANGED <<todo, target, unread, closed>>

\* Mutant: a send() that fails is tried again.
FullOrDown(c) == unread[c] = Cap \/ c \in closed

\* A send() to the client waits.
Full(c) == unread[c] = Cap /\ c \notin closed

\* Mutant: what does not fit is kept, without limit.
PutQueued(t) ==
  /\ pc[t] = "put"
  /\ closed' = IF t \in Admin THEN closed \cup {target[t]} ELSE closed
  /\ unread' = [unread EXCEPT ![target[t]] =
                   IF target[t] \in closed' THEN 0 ELSE @ + 1]
  /\ holder' = [holder EXCEPT ![target[t]] = None]
  /\ target' = [target EXCEPT ![t] = None]
  /\ Goto(t, "next")
  /\ UNCHANGED todo

\* ... and its send() returns once there is room, or at once if the
\* connection is down.  The console disconnects whom it has sent to.
Put(t) ==
  /\ pc[t] = "put" /\ ~Full(target[t])
  /\ closed' = IF t \in Admin THEN closed \cup {target[t]} ELSE closed
  /\ unread' = [unread EXCEPT ![target[t]] =
                   IF target[t] \in closed' THEN 0 ELSE @ + 1]
  /\ holder' = [holder EXCEPT ![target[t]] = None]
  /\ target' = [target EXCEPT ![t] = None]
  /\ Goto(t, "next")
  /\ UNCHANGED todo

\* Nobody is left to send to: the locks are released.
Finish(t) ==
  /\ pc[t] = "next" /\ todo[t] = {}
  /\ holder' = [l \in Lock |->
                  IF l \in {Server} \cup Room /\ holder[l] = t
                    THEN None ELSE holder[l]]
  /\ Goto(t, "idle")
  /\ UNCHANGED <<todo, target, unread, closed>>

\* The client programs, external: one reads, or closes.
Read(c) ==
  /\ unread[c] > 0 /\ c \notin closed
  /\ unread' = [unread EXCEPT ![c] = @ - 1]
  /\ UNCHANGED <<holder, pc, op, place, todo, target, closed>>

Close(c) ==
  /\ c \notin closed
  /\ closed' = closed \cup {c}
  /\ unread' = [unread EXCEPT ![c] = 0]
  /\ UNCHANGED <<holder, pc, op, place, todo, target>>

-----------------------------------------------------------------------------
ClientBegins(c) ==
  \/ Own(c) \/ Brief(c)
  \/ \E cs \in SUBSET Client : Direct(c, cs)
  \/ \E r \in Room : \/ Look(c, r) \/ Leave(c, r)
                     \/ \E cs \in SUBSET Client : Cast(c, r, cs)

AdminBegins(t) == Brief(t) \/ \E cs \in SUBSET Client : Direct(t, cs)

GoesOn(t) == \/ LockServer(t) \/ LockRoom(t) \/ LockSend(t)
             \/ (\E c \in Client : PickNext(t, c)) \/ Put(t) \/ Finish(t)

Next ==
  \/ \E c \in Client : ClientBegins(c) \/ Read(c) \/ Close(c)
  \/ \E t \in Admin : AdminBegins(t)
  \/ \E t \in Thread : GoesOn(t)

Spec == Init /\ [][Next]_vars

\* A thread that can go on does, and gets a lock that is free again and
\* again: locks are held briefly and std::mutex does not starve a thread
\* for ever while others come and go at the pace of people typing.
FairThreads == \A t \in Thread : SF_vars(GoesOn(t))

\* Client programs may stop reading (they are not the server's), or may not.
ThreadsFair == Spec /\ FairThreads
FairSpec    == ThreadsFair /\ \A c \in Client : WF_vars(Read(c))

-----------------------------------------------------------------------------
(* Properties *)

\* The lock a thread is about to take, if any.
Wants(t) == CASE pc[t] = "server" -> Server
              [] pc[t] = "room"   -> place[t]
              [] pc[t] = "send"   -> target[t]
              [] OTHER            -> None

Waits(t) == Wants(t) # None /\ holder[Wants(t)] # None

HeldUpBy(t) == holder[Wants(t)]

\* No threads wait for each other in a circle: whoever a waiting thread waits
\* for, through at most three locks there is a thread that waits for none.
\* It can go on, or it sends to a client that does not read.
\* (Server.cpp:93-104, 338-355, Room.cpp:28-33, Client.cpp:179)
ChainsEnd ==
  \A t \in Thread : Waits(t) =>
    LET u == HeldUpBy(t) IN Waits(u) =>
      LET v == HeldUpBy(u) IN Waits(v) => ~Waits(HeldUpBy(v))

\* As long as client programs read or close, every operation ends: no kick,
\* ban, broadcast or departure waits for ever for locks.
OperationsEnd == \A t \in Thread : pc[t] # "idle" ~> pc[t] \in {"idle", "ended"}

\* README.md: "kick: kick a client by socket fd or nickname", "stop: shut
\* down the server"; a command of the operator ends, whatever clients do.
CommandsEnd == \A t \in Admin : pc[t] # "idle" ~> pc[t] = "idle"

=============================================================================
