-------------------------- MODULE LockOrderProofs --------------------------
(* There is no circle of threads, for any number of clients, rooms and     *)
(* console threads: the locks a thread may hold while it waits for another *)
(* come before that one in the order Server::mutex, Room::mutex, sendMutex.*)
EXTENDS LockOrder, TLAPS

Sending == {"next", "send", "put"}

\* Who holds a lock, and where that thread is.
HolderInv ==
  \A t \in Thread :
    /\ holder[Server] = t =>
         \/ op[t] = "direct" /\ pc[t] \in Sending
         \/ op[t] = "leave" /\ pc[t] = "room"
    /\ \A r \in Room : holder[r] = t => op[t] = "cast" /\ pc[t] \in Sending
    /\ \A c \in Client : holder[c] = t => pc[t] = "put" /\ target[t] = c

\* A thread that is to go on to a room has one to go to.
PlaceInv ==
  \A t \in Thread :
    pc[t] = "server" => op[t] \in {"brief", "direct"} \/ place[t] \in Room

IInv == TypeOK /\ HolderInv /\ PlaceInv

LEMMA LocksDiffer ==
  /\ Server \in Lock /\ Server \notin Client /\ Server \notin Room
  /\ Room \subseteq Lock /\ Client \subseteq Lock
  /\ Client \cap Room = {}
  /\ None \notin Thread
  BY LockAssumption DEF Lock, Thread

LEMMA InitIInv == Init => IInv
  BY LockAssumption, LocksDiffer
  DEF Init, IInv, TypeOK, HolderInv, PlaceInv, Lock, Thread

LEMMA BeginIInv ==
  ASSUME IInv, NEW t \in Thread, NEW o \in Ops, NEW r \in Room \cup {None},
         NEW cs \in SUBSET Client, NEW p \in {"next", "server"},
         p = "server" => o \in {"brief", "direct"} \/ r \in Room,
         Begin(t, o, r, cs, p)
  PROVE  IInv'
<1> USE DEF IInv, Begin
<1>1. TypeOK'
  BY DEF TypeOK
<1>2. HolderInv'
  BY LocksDiffer DEF TypeOK, HolderInv, Sending
<1>3. PlaceInv'
  BY DEF TypeOK, PlaceInv
<1> QED BY <1>1, <1>2, <1>3

LEMMA LockServerIInv ==
  ASSUME IInv, NEW t \in Thread, LockServer(t)
  PROVE  IInv'
<1> USE DEF IInv, LockServer, Goto
<1>1. pc[t] = "server" /\ holder[Server] = None
  OBVIOUS
<1>2. TypeOK'
  BY <1>1, LocksDiffer DEF TypeOK, PlaceInv, Ops
<1>3. HolderInv'
  BY <1>1, LocksDiffer DEF TypeOK, HolderInv, Sending
<1>4. PlaceInv'
  BY <1>1 DEF TypeOK, PlaceInv
<1> QED BY <1>2, <1>3, <1>4

LEMMA LockRoomIInv ==
  ASSUME IInv, NEW t \in Thread, LockRoom(t)
  PROVE  IInv'
<1> USE DEF IInv, LockRoom, Goto
<1>1. pc[t] = "room" /\ place[t] \in Room /\ holder[place[t]] = None
  BY DEF TypeOK
<1>2. TypeOK'
  BY <1>1, LocksDiffer DEF TypeOK, Ops
<1>3. HolderInv'
  BY <1>1, LocksDiffer DEF TypeOK, HolderInv, Sending
<1>4. PlaceInv'
  BY <1>1 DEF TypeOK, PlaceInv
<1> QED BY <1>2, <1>3, <1>4

LEMMA SendIInv ==
  ASSUME IInv, NEW t \in Thread,
         (\E c \in Client : PickNext(t, c)) \/ LockSend(t) \/ Put(t)
  PROVE  IInv'
<1> USE DEF IInv, Goto
<1>1. ASSUME NEW c \in Client, PickNext(t, c) PROVE IInv'
  <2>1. TypeOK'
    BY <1>1 DEF PickNext, TypeOK
  <2>2. HolderInv'
    BY <1>1, LocksDiffer DEF PickNext, TypeOK, HolderInv, Sending
  <2>3. PlaceInv'
    BY <1>1 DEF PickNext, TypeOK, PlaceInv
  <2> QED BY <2>1, <2>2, <2>3
<1>2. CASE LockSend(t)
  <2>1. target[t] \in Client
    BY <1>2 DEF LockSend, TypeOK
  <2>2. TypeOK'
    BY <1>2, <2>1, LocksDiffer DEF LockSend, TypeOK
  <2>3. HolderInv'
    BY <1>2, <2>1, LocksDiffer DEF LockSend, TypeOK, HolderInv, Sending
  <2>4. PlaceInv'
    BY <1>2 DEF LockSend, TypeOK, PlaceInv
  <2> QED BY <2>2, <2>3, <2>4
<1>3. CASE Put(t)
  <2>1. target[t] \in Client
    BY <1>3 DEF Put, TypeOK
  <2>2. unread' \in [Client -> 0..Cap]
    <3>1. target[t] \notin closed' => unread[target[t]] < Cap
      BY <1>3, <2>1, LockAssumption DEF Put, Full, TypeOK
    <3> QED BY <1>3, <2>1, <3>1, LockAssumption DEF Put, TypeOK
  <2>3. TypeOK'
    BY <1>3, <2>1, <2>2, LocksDiffer DEF Put, TypeOK
  <2>4. HolderInv'
    BY <1>3, <2>1, LocksDiffer DEF Put, TypeOK, HolderInv, Sending
  <2>5. PlaceInv'
    BY <1>3 DEF Put, TypeOK, PlaceInv
  <2> QED BY <2>3, <2>4, <2>5
<1> QED BY <1>1, <1>2, <1>3

LEMMA FinishIInv ==
  ASSUME IInv, NEW t \in Thread, Finish(t)
  PROVE  IInv'
<1> USE DEF IInv, Finish, Goto
<1>1. TypeOK'
  BY DEF TypeOK
<1>2. HolderInv'
  BY LocksDiffer DEF TypeOK, HolderInv, Sending
<1>3. PlaceInv'
  BY DEF TypeOK, PlaceInv
<1> QED BY <1>1, <1>2, <1>3

LEMMA NextIInv == IInv /\ [Next]_vars => IInv'
<1> SUFFICES ASSUME IInv, [Next]_vars PROVE IInv'
  OBVIOUS
<1>1. ASSUME NEW c \in Client, ClientBegins(c) PROVE IInv'
  BY <1>1, BeginIInv
  DEF ClientBegins, Own, Brief, Direct, Look, Leave, Cast, Thread, Ops
<1>2. ASSUME NEW c \in Client, Read(c) \/ Close(c) PROVE IInv'
  <2>1. TypeOK'
    BY <1>2, LockAssumption DEF Read, Close, IInv, TypeOK
  <2>2. HolderInv' /\ PlaceInv'
    BY <1>2 DEF Read, Close, IInv, HolderInv, PlaceInv
  <2> QED BY <2>1, <2>2 DEF IInv
<1>3. ASSUME NEW t \in Admin, AdminBegins(t) PROVE IInv'
  BY <1>3, BeginIInv DEF AdminBegins, Brief, Direct, Thread, Ops
<1>4. ASSUME NEW t \in Thread, GoesOn(t) PROVE IInv'
  BY <1>4, LockServerIInv, LockRoomIInv, SendIInv, FinishIInv DEF GoesOn
<1>5. CASE UNCHANGED vars
  BY <1>5 DEF vars, IInv, TypeOK, HolderInv, PlaceInv
<1> QED BY <1>1, <1>2, <1>3, <1>4, <1>5 DEF Next

LEMMA Inductive == Spec => []IInv
  BY InitIInv, NextIInv, PTL DEF Spec

-----------------------------------------------------------------------------

\* Every variable keeps its type; in particular no socket is given more
\* than it takes.
THEOREM TypeCorrect == Spec => []TypeOK
  BY Inductive, PTL DEF IInv

\* Whoever a thread waits for, the chain of those who wait has an end.
\* (Server.cpp:93-104, 338-355, Room.cpp:28-33, Client.cpp:179)
THEOREM ChainsEndCorrect == Spec => []ChainsEnd
<1>1. ASSUME IInv PROVE ChainsEnd
  <2> SUFFICES ASSUME NEW t \in Thread, Waits(t), Waits(HeldUpBy(t)),
                      Waits(HeldUpBy(HeldUpBy(t)))
               PROVE  ~Waits(HeldUpBy(HeldUpBy(HeldUpBy(t))))
    BY DEF ChainsEnd
  <2>1. ASSUME NEW x \in Thread, Waits(x)
        PROVE  /\ HeldUpBy(x) \in Thread
               /\ pc[x] = "server" => pc[HeldUpBy(x)] \in Sending \cup {"room"}
               /\ pc[x] = "room" => pc[HeldUpBy(x)] \in Sending
               /\ pc[x] = "send" => pc[HeldUpBy(x)] = "put"
               /\ pc[x] \in {"server", "room", "send"}
    <3>1. pc[x] \in {"server", "room", "send"}
      BY <2>1 DEF Waits, Wants
    <3>2. CASE pc[x] = "server"
      <4>1. Wants(x) = Server
        BY <3>2 DEF Wants
      <4> QED BY <1>1, <2>1, <3>2, <4>1, LocksDiffer
              DEF IInv, TypeOK, HolderInv, Waits, HeldUpBy, Sending
    <3>3. CASE pc[x] = "room"
      <4>1. Wants(x) = place[x] /\ place[x] \in Room
        BY <1>1, <3>3 DEF Wants, IInv, TypeOK
      <4> QED BY <1>1, <2>1, <3>3, <4>1, LocksDiffer
              DEF IInv, TypeOK, HolderInv, Waits, HeldUpBy, Sending
    <3>4. CASE pc[x] = "send"
      <4>1. Wants(x) = target[x] /\ target[x] \in Client
        BY <1>1, <3>4 DEF Wants, IInv, TypeOK
      <4> QED BY <1>1, <2>1, <3>4, <4>1, LocksDiffer
              DEF IInv, TypeOK, HolderInv, Waits, HeldUpBy, Sending
    <3> QED BY <3>1, <3>2, <3>3, <3>4
  <2>2. ASSUME NEW x \in Thread, pc[x] = "put" PROVE ~Waits(x)
    BY <2>2 DEF Waits, Wants
  <2>3. ASSUME NEW x \in Thread, Waits(x), pc[x] \in Sending
        PROVE  pc[x] = "send"
    BY <2>1, <2>2, <2>3 DEF Sending
  <2> QED BY <2>1, <2>2, <2>3
<1> QED BY <1>1, Inductive, PTL
=============================================================================
