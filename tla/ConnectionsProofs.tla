------------------------- MODULE ConnectionsProofs -------------------------
(* Proofs about Connections, for any number of clients, descriptors,       *)
(* addresses and nicknames and any set of console commands.                *)
EXTENDS Connections, TLAPS

-----------------------------------------------------------------------------
(* The inductive invariant, in layers.  Each layer is preserved by every   *)
(* step from a state that satisfies it and the layers above it.            *)

\* An object is live from `new' to `delete', in the main thread's hands and
\* then in its own thread's, and no thread touches it outside.
LifeInv ==
  /\ mpc \in {"check", "register", "start", "log"} => incoming \in Client
  /\ mpc = "check" => object[incoming] = "none" /\ stream[incoming] # "none"
  /\ mpc \in {"register", "start"} =>
       object[incoming] = "live" /\ pc[incoming] = "none"
  /\ \A f \in Fd : fdt[f] \in Client => stream[fdt[f]] # "none"
  /\ \A c \in Client :
       /\ object[c] = "none" => pc[c] = "none"
       /\ object[c] = "freed" => pc[c] = "done"
       /\ object[c] = "live" =>
            \/ pc[c] \notin {"none", "done"}
            \/ mpc \in {"register", "start"} /\ incoming = c
       /\ pc[c] \in {"rename", "assign"} => newNick[c] \in Nick
       /\ c \in disconnected => object[c] # "none"

\* Who is where only with mutex.
LockInv ==
  /\ kpc = "scan" => mutex = Console
  /\ mpc = "dtorScan" => mutex = Main
  /\ \A c \in Client : pc[c] = "delete" => mutex = c

\* What the loop has still to visit is in the map; of what it has visited,
\* stop and ipban have disconnected all they look for.
Walking == kpc = "scan" \/ mpc = "dtorScan"

Sought(c) == \/ job.op = "stop"
             \/ job.op = "ipban" /\ ip[c] = job.key

ScanInv ==
  /\ Walking => scan \subseteq Registered
  /\ mpc = "dtorScan" => job.op = "stop"
  /\ Walking => \A f \in Registered \ scan :
                  Sought(clients[f]) => clients[f] \in disconnected

\* ListedUnlessForced, from registration on.
ListedInv ==
  \A c \in Client :
    /\ \/ pc[c] \notin {"none", "delete", "done"}
       \/ mpc = "start" /\ incoming = c
    /\ sockfd[c] \notin Forced
    => clients[sockfd[c]] = c

\* BanCatches, while the loop of an ipban is at other addresses too.
EscapeInv ==
  \A c, d \in Client :
    /\ object[c] = "live" /\ sockfd[c] \notin Forced
    /\ object[d] = "live" /\ sockfd[d] \notin Forced
    /\ ip[c] = ip[d] /\ ip[c] \in bannedIps
    /\ ~(kpc = "scan" /\ job.op = "ipban" /\ job.key = ip[c])
    => c = d

\* What the loop of stop has visited names no connection any more, and none
\* is accepted meanwhile; what a client is built on names no other's.
ClosedInv ==
  /\ kpc = "stopping" \/ (kpc = "scan" /\ job.op = "stop") => ~running
  /\ Walking /\ job.op = "stop" =>
       \A f \in Registered \ scan : fdt[f] \notin Client
  /\ mpc \in {"check", "register"} =>
       fdt[sockfd[incoming]] \notin Client \ {incoming}

\* ServedListed, from registration on and while clients are removed.
ServedInv ==
  \A c \in Client :
    /\ \/ pc[c] \notin {"none", "delete", "done"}
       \/ mpc = "start" /\ incoming = c
    /\ OwnsFd(c)
    => \/ clients[sockfd[c]] = c
       \/ \E d \in Client : pc[d] = "delete" /\ sockfd[d] = sockfd[c]

IInv == /\ TypeOK /\ LifeInv /\ LockInv /\ ScanInv /\ RegistryInv
        /\ DescriptorsOwned /\ ListedInv /\ EscapeInv /\ ClosedInv
        /\ ServedInv

-----------------------------------------------------------------------------
(* Every step preserves each layer. *)

\* The type invariant needs LifeInv: the object under construction has a
\* descriptor, hence a default nickname, and a rename has a new one.
LEMMA TypeStep ==
  ASSUME IInv, [Next]_vars
  PROVE  TypeOK'
<1> USE ConstantsAssumption
<1> USE DEF IInv, TypeOK, LifeInv, Bans, Jobs, Threads, Commands, kernelVars,
            banVars, lockVars, serverVars, objectVars, threadVars, clientVars,
            mainVars, consoleVars
<1>1. ASSUME NEW c \in Client, Accept(c) PROVE TypeOK'
  BY <1>1 DEF Accept, LowestFree
<1>2. CASE Refuse
  BY <1>2 DEF Refuse, Close
<1>3. CASE Construct
  <2> DEFINE i == incoming
  <2>1. i \in Client /\ sockfd[i] \in Fd /\ ip[i] \in Ip /\ stream[i] # "none"
    BY <1>3 DEF Construct, New
  <2> HIDE DEF i
  <2>2. DefaultNick[sockfd[i]] \in Nick
    BY <2>1
  <2>3. name'[i] \in Nick /\ name' \in [Client -> Nick \cup {None}]
    BY <1>3, <2>1, <2>2 DEF Construct, New, i
  <2>4. /\ object'[i] = "live"
        /\ object' \in [Client -> {"none", "live", "freed"}]
    BY <1>3, <2>1 DEF Construct, New, i
  <2> QED
    BY <1>3, <2>1, <2>3, <2>4 DEF Construct, New, i
<1>4. CASE Register
  BY <1>4 DEF Register
<1>5. CASE Start
  BY <1>5 DEF Start
<1>6. CASE LogJoined
  BY <1>6 DEF LogJoined
<1>7. CASE AcceptEnds
  BY <1>7 DEF AcceptEnds
<1>8. CASE Join
  BY <1>8 DEF Join
<1>9. CASE DtorStop
  BY <1>9 DEF DtorStop, Registered
<1>10. ASSUME NEW c \in Client, HandshakeOk(c) PROVE TypeOK'
  BY <1>10 DEF HandshakeOk, At
<1>11. ASSUME NEW c \in Client, NEW d \in Client,
          ReadForeign(c, d)
   PROVE  TypeOK'
  BY <1>11 DEF ReadForeign, Reading, At
<1>12. ASSUME NEW c \in Client, GiveUp(c) PROVE TypeOK'
  BY <1>12 DEF GiveUp, Reading, At
<1>13. ASSUME NEW c \in Client, Enter(c) PROVE TypeOK'
  BY <1>13 DEF Enter, At
<1>14. ASSUME NEW c \in Client, NEW n \in Requested,
          NickRequest(c, n)
   PROVE  TypeOK'
  BY <1>14 DEF NickRequest, At
<1>15. ASSUME NEW c \in Client, NickTaken(c) PROVE TypeOK'
  BY <1>15 DEF NickTaken, At
<1>16. ASSUME NEW c \in Client, AssignBegin(c) PROVE TypeOK'
  BY <1>16 DEF AssignBegin, At
<1>17. ASSUME NEW c \in Client, AssignEnd(c) PROVE TypeOK'
  BY <1>17 DEF AssignEnd, At
<1>18. ASSUME NEW c \in Client, RemoveEntry(c) PROVE TypeOK'
  BY <1>18 DEF RemoveEntry, At
<1>19. ASSUME NEW c \in Client, DeleteClient(c) PROVE TypeOK'
  BY <1>19 DEF DeleteClient, At, Close
<1>20. ASSUME NEW c \in Client, PeerClose(c) PROVE TypeOK'
  BY <1>20 DEF PeerClose
<1>21. ASSUME NEW f \in Fd, KickClient(f) PROVE TypeOK'
  BY <1>21 DEF KickClient, BeginScan, ConsoleAt, Registered
<1>22. ASSUME NEW n \in Typed, KickNick(n) PROVE TypeOK'
  BY <1>22 DEF KickNick, BeginScan, ConsoleAt, Registered
<1>23. ASSUME NEW n \in Typed, BanNickname(n) PROVE TypeOK'
  BY <1>23 DEF BanNickname, BeginScan, ConsoleAt, Registered
<1>24. ASSUME NEW a \in Ip, BanIp(a) PROVE TypeOK'
  BY <1>24 DEF BanIp, BeginScan, ConsoleAt, Registered
<1>25. ASSUME NEW n \in Typed, UnbanNickname(n) PROVE TypeOK'
  BY <1>25 DEF UnbanNickname, Unban, ConsoleAt
<1>26. ASSUME NEW a \in Ip, UnbanIp(a) PROVE TypeOK'
  BY <1>26 DEF UnbanIp, Unban, ConsoleAt
<1>27. ASSUME NEW f \in Fd, SaveOpen(f) PROVE TypeOK'
  BY <1>27 DEF SaveOpen, ConsoleAt, LowestFree
<1>28. CASE SaveOpenFails
  BY <1>28 DEF SaveOpenFails, SaveReturns, ConsoleAt
<1>29. CASE SaveClose
  <2>1. file' \in Bans
    BY <1>29 DEF SaveClose
  <2>2. fdt' \in [Fd -> Client \cup {BansFile, None}]
    BY <1>29 DEF SaveClose, Close
  <2>3. mutex' \in Threads \cup {None}
    BY <1>29 DEF SaveClose, SaveReturns
  <2> QED
    BY <1>29, <2>1, <2>2, <2>3 DEF SaveClose, SaveReturns
<1>30. CASE Stop
  <2>1. running' \in BOOLEAN
    BY <1>30, Zenon DEF Stop
  <2> QED
    BY <1>30, <2>1 DEF Stop, ConsoleAt
<1>31. CASE StopLock
  BY <1>31 DEF StopLock, ConsoleAt, Registered
<1>32. ASSUME NEW t \in {Main, Console}, NEW f \in Fd,
          VisitMiss(t, f)
   PROVE  TypeOK'
  BY <1>32 DEF VisitMiss, Scanning, ConsoleAt
<1>33. ASSUME NEW t \in {Main, Console}, NEW f \in Fd,
          VisitHit(t, f)
   PROVE  TypeOK'
  <2>1. fdt' \in [Fd -> Client \cup {BansFile, None}]
    BY <1>33 DEF VisitHit, Close
  <2>2. stream' \in [Client -> {"none", "open", "closed", "garbled"}]
    BY <1>33 DEF VisitHit
  <2>3. clients[f] \in Client
    BY <1>33 DEF VisitHit, Scanning, ConsoleAt, ScanInv, Walking, Registered
  <2>4. scan' \subseteq Fd
    BY <1>33 DEF VisitHit
  <2>5. disconnected' \subseteq Client
    BY <1>33, <2>3 DEF VisitHit
  <2>6. \A d \in Client : stream'[d] # "none" => stream[d] # "none"
    <3> SUFFICES ASSUME NEW d \in Client, stream'[d] # "none"
                 PROVE  stream[d] # "none"
      OBVIOUS
    <3>1. stream[d] # "none" \/ d = fdt[sockfd[clients[f]]]
      BY <1>33 DEF VisitHit
    <3>2. CASE stream[d] # "none"
      BY <3>2
    <3>3. CASE d = fdt[sockfd[clients[f]]]
      BY <3>3, <2>3 DEF RegistryInv
    <3> QED
      BY <3>1, <3>2, <3>3
  <2>7. \A d \in Client : object[d] # "none" => stream'[d] # "none"
    BY <1>33 DEF VisitHit
  <2> QED
    BY <1>33, <2>1, <2>2, <2>4, <2>5, <2>6, <2>7 DEF VisitHit
<1>34. ASSUME NEW t \in {Main, Console}, VisitEnd(t) PROVE TypeOK'
  BY <1>34 DEF VisitEnd, Scanning, ConsoleAt
<1>35. CASE UNCHANGED vars
  BY <1>35 DEF vars
<1> HIDE DEF IInv, TypeOK, LifeInv
<1>36. QED
  BY <1>1, <1>2, <1>3, <1>4, <1>5, <1>6, <1>7, <1>8, <1>9, <1>10, <1>11,
     <1>12, <1>13, <1>14, <1>15, <1>16, <1>17, <1>18, <1>19, <1>20, <1>21,
     <1>22, <1>23, <1>24, <1>25, <1>26, <1>27, <1>28, <1>29, <1>30, <1>31,
     <1>32, <1>33, <1>34, <1>35
  DEF Next, MainNext, ConsoleNext, ClientNext, Visit, Exited

\* Objects are created by Construct and deleted by DeleteClient only; a loop
\* disconnects objects that exist because it meets registered clients.
LEMMA LifeStep ==
  ASSUME IInv, [Next]_vars
  PROVE  LifeInv'
<1> USE ConstantsAssumption
<1> USE DEF IInv, TypeOK, LifeInv, kernelVars, banVars, lockVars, serverVars,
            objectVars, threadVars, clientVars, mainVars, consoleVars
<1>1. ASSUME NEW c \in Client, Accept(c) PROVE LifeInv'
  BY <1>1 DEF Accept, LowestFree
<1>2. CASE Refuse
  BY <1>2 DEF Refuse, Close
<1>3. CASE Construct
  BY <1>3 DEF Construct, New
<1>4. CASE Register
  BY <1>4 DEF Register
<1>5. CASE Start
  BY <1>5 DEF Start
<1>6. CASE LogJoined \/ AcceptEnds \/ Join
  BY <1>6 DEF LogJoined, AcceptEnds, Join
<1>7. CASE DtorStop
  BY <1>7 DEF DtorStop, Registered
<1>8. ASSUME NEW c \in Client, NEW d \in Client,
          HandshakeOk(c) \/ ReadForeign(c, d) \/ GiveUp(c)
   PROVE  LifeInv'
  BY <1>8 DEF HandshakeOk, ReadForeign, GiveUp, Reading, At
<1>9. ASSUME NEW c \in Client, Enter(c) PROVE LifeInv'
  BY <1>9 DEF Enter, At
<1>10. ASSUME NEW c \in Client, NEW n \in Requested,
          NickRequest(c, n)
   PROVE  LifeInv'
  BY <1>10 DEF NickRequest, At
<1>11. ASSUME NEW c \in Client,
          NickTaken(c) \/ AssignBegin(c) \/ AssignEnd(c)
   PROVE  LifeInv'
  BY <1>11 DEF NickTaken, AssignBegin, AssignEnd, At
<1>12. ASSUME NEW c \in Client, RemoveEntry(c) PROVE LifeInv'
  BY <1>12 DEF RemoveEntry, At
<1>13. ASSUME NEW c \in Client, DeleteClient(c) PROVE LifeInv'
  BY <1>13 DEF DeleteClient, At, Close
<1>14. ASSUME NEW c \in Client, PeerClose(c) PROVE LifeInv'
  BY <1>14 DEF PeerClose
<1>15. ASSUME NEW f \in Fd, KickClient(f) PROVE LifeInv'
  BY <1>15 DEF KickClient, BeginScan, ConsoleAt, Registered
<1>16. ASSUME NEW n \in Typed, KickNick(n) PROVE LifeInv'
  BY <1>16 DEF KickNick, BeginScan, ConsoleAt, Registered
<1>17. ASSUME NEW n \in Typed, BanNickname(n) PROVE LifeInv'
  BY <1>17 DEF BanNickname, BeginScan, ConsoleAt, Registered
<1>18. ASSUME NEW a \in Ip, BanIp(a) PROVE LifeInv'
  BY <1>18 DEF BanIp, BeginScan, ConsoleAt, Registered
<1>19. ASSUME NEW n \in Typed, UnbanNickname(n) PROVE LifeInv'
  BY <1>19 DEF UnbanNickname, Unban, ConsoleAt
<1>20. ASSUME NEW a \in Ip, UnbanIp(a) PROVE LifeInv'
  BY <1>20 DEF UnbanIp, Unban, ConsoleAt
<1>21. ASSUME NEW f \in Fd, SaveOpen(f) PROVE LifeInv'
  BY <1>21 DEF SaveOpen, ConsoleAt, LowestFree
<1>22. CASE SaveOpenFails
  BY <1>22 DEF SaveOpenFails, SaveReturns, ConsoleAt
<1>23. CASE SaveClose
  BY <1>23 DEF SaveClose, SaveReturns, ConsoleAt, Close
<1>24. CASE Stop
  BY <1>24 DEF Stop, ConsoleAt
<1>25. CASE StopLock
  BY <1>25 DEF StopLock, ConsoleAt, Registered
<1>26. ASSUME NEW t \in {Main, Console}, NEW f \in Fd,
          VisitMiss(t, f)
   PROVE  LifeInv'
  BY <1>26 DEF VisitMiss, Scanning, ConsoleAt
<1>27. ASSUME NEW t \in {Main, Console}, NEW f \in Fd,
          VisitHit(t, f)
   PROVE  LifeInv'
  <2>1. clients[f] \in Client /\ object[clients[f]] = "live"
    BY <1>27 DEF VisitHit, Scanning, ConsoleAt, ScanInv, RegistryInv, Walking,
             Registered
  <2>2. \A g \in Fd : fdt'[g] \in Client => stream'[fdt'[g]] # "none"
    BY <1>27 DEF VisitHit, Close
  <2>3. \A d \in Client : stream[d] # "none" => stream'[d] # "none"
    BY <1>27 DEF VisitHit
  <2> QED
    BY <1>27, <2>1, <2>2, <2>3 DEF VisitHit
<1>28. ASSUME NEW t \in {Main, Console}, VisitEnd(t) PROVE LifeInv'
  BY <1>28 DEF VisitEnd, Scanning, ConsoleAt
<1>29. CASE UNCHANGED vars
  BY <1>29 DEF vars
<1> HIDE DEF IInv, TypeOK, LifeInv
<1>30. QED
  BY <1>1, <1>2, <1>3, <1>4, <1>5, <1>6, <1>7, <1>8, <1>9, <1>10, <1>11,
     <1>12, <1>13, <1>14, <1>15, <1>16, <1>17, <1>18, <1>19, <1>20, <1>21,
     <1>22, <1>23, <1>24, <1>25, <1>26, <1>27, <1>28, <1>29
  DEF Next, MainNext, ConsoleNext, ClientNext, Visit, Exited

\* mutex excludes: whoever takes it finds it free, and gives up its own.
LEMMA LockStep ==
  ASSUME IInv, [Next]_vars
  PROVE  LockInv'
<1> USE ConstantsAssumption
<1> USE DEF IInv, TypeOK, LockInv, kernelVars, banVars, lockVars, serverVars,
            objectVars, threadVars, clientVars, mainVars, consoleVars
<1>1. ASSUME NEW c \in Client, Accept(c) PROVE LockInv'
  BY <1>1 DEF Accept, LowestFree
<1>2. CASE Refuse
  BY <1>2 DEF Refuse, Close
<1>3. CASE Construct
  BY <1>3 DEF Construct, New
<1>4. CASE Register
  BY <1>4 DEF Register
<1>5. CASE Start
  BY <1>5 DEF Start
<1>6. CASE LogJoined \/ AcceptEnds \/ Join
  BY <1>6 DEF LogJoined, AcceptEnds, Join
<1>7. CASE DtorStop
  BY <1>7 DEF DtorStop, Registered
<1>8. ASSUME NEW c \in Client, NEW d \in Client,
          HandshakeOk(c) \/ ReadForeign(c, d) \/ GiveUp(c)
   PROVE  LockInv'
  BY <1>8 DEF HandshakeOk, ReadForeign, GiveUp, Reading, At
<1>9. ASSUME NEW c \in Client, Enter(c) PROVE LockInv'
  BY <1>9 DEF Enter, At
<1>10. ASSUME NEW c \in Client, NEW n \in Requested,
          NickRequest(c, n)
   PROVE  LockInv'
  BY <1>10 DEF NickRequest, At
<1>11. ASSUME NEW c \in Client,
          NickTaken(c) \/ AssignBegin(c) \/ AssignEnd(c)
   PROVE  LockInv'
  BY <1>11 DEF NickTaken, AssignBegin, AssignEnd, At
<1>12. ASSUME NEW c \in Client, RemoveEntry(c) PROVE LockInv'
  BY <1>12 DEF RemoveEntry, At
<1>13. ASSUME NEW c \in Client, DeleteClient(c) PROVE LockInv'
  BY <1>13 DEF DeleteClient, At, Close
<1>14. ASSUME NEW c \in Client, PeerClose(c) PROVE LockInv'
  BY <1>14 DEF PeerClose
<1>15. ASSUME NEW f \in Fd, KickClient(f) PROVE LockInv'
  BY <1>15 DEF KickClient, BeginScan, ConsoleAt, Registered
<1>16. ASSUME NEW n \in Typed, KickNick(n) PROVE LockInv'
  BY <1>16 DEF KickNick, BeginScan, ConsoleAt, Registered
<1>17. ASSUME NEW n \in Typed, BanNickname(n) PROVE LockInv'
  BY <1>17 DEF BanNickname, BeginScan, ConsoleAt, Registered
<1>18. ASSUME NEW a \in Ip, BanIp(a) PROVE LockInv'
  BY <1>18 DEF BanIp, BeginScan, ConsoleAt, Registered
<1>19. ASSUME NEW n \in Typed, UnbanNickname(n) PROVE LockInv'
  BY <1>19 DEF UnbanNickname, Unban, ConsoleAt
<1>20. ASSUME NEW a \in Ip, UnbanIp(a) PROVE LockInv'
  BY <1>20 DEF UnbanIp, Unban, ConsoleAt
<1>21. ASSUME NEW f \in Fd, SaveOpen(f) PROVE LockInv'
  BY <1>21 DEF SaveOpen, ConsoleAt, LowestFree
<1>22. CASE SaveOpenFails
  BY <1>22 DEF SaveOpenFails, SaveReturns, ConsoleAt
<1>23. CASE SaveClose
  BY <1>23 DEF SaveClose, SaveReturns, ConsoleAt, Close
<1>24. CASE Stop
  BY <1>24 DEF Stop, ConsoleAt
<1>25. CASE StopLock
  BY <1>25 DEF StopLock, ConsoleAt, Registered
<1>26. ASSUME NEW t \in {Main, Console}, NEW f \in Fd,
          VisitMiss(t, f)
   PROVE  LockInv'
  BY <1>26 DEF VisitMiss, Scanning, ConsoleAt
<1>27. ASSUME NEW t \in {Main, Console}, NEW f \in Fd,
          VisitHit(t, f)
   PROVE  LockInv'
  BY <1>27 DEF VisitHit, Scanning, ConsoleAt, Close
<1>28. ASSUME NEW t \in {Main, Console}, VisitEnd(t) PROVE LockInv'
  BY <1>28 DEF VisitEnd, Scanning, ConsoleAt
<1>29. CASE UNCHANGED vars
  BY <1>29 DEF vars
<1> HIDE DEF IInv, TypeOK, LockInv
<1>30. QED
  BY <1>1, <1>2, <1>3, <1>4, <1>5, <1>6, <1>7, <1>8, <1>9, <1>10, <1>11,
     <1>12, <1>13, <1>14, <1>15, <1>16, <1>17, <1>18, <1>19, <1>20, <1>21,
     <1>22, <1>23, <1>24, <1>25, <1>26, <1>27, <1>28, <1>29
  DEF Next, MainNext, ConsoleNext, ClientNext, Visit, Exited

\* RemoveEntry erases under the key that leads to the client, and Accept
\* gives a descriptor only to an object not in the map.
LEMMA RegistryStep ==
  ASSUME IInv, [Next]_vars
  PROVE  RegistryInv'
<1> USE ConstantsAssumption
<1> USE DEF IInv, TypeOK, LifeInv, RegistryInv, kernelVars, banVars, lockVars,
            serverVars, objectVars, threadVars, clientVars, mainVars,
            consoleVars
<1>1. ASSUME NEW c \in Client, Accept(c) PROVE RegistryInv'
  BY <1>1 DEF Accept, LowestFree
<1>2. CASE Refuse
  BY <1>2 DEF Refuse, Close
<1>3. CASE Construct
  BY <1>3 DEF Construct, New
<1>4. CASE Register
  BY <1>4 DEF Register
<1>5. CASE Start
  BY <1>5 DEF Start
<1>6. CASE LogJoined \/ AcceptEnds \/ Join
  BY <1>6 DEF LogJoined, AcceptEnds, Join
<1>7. CASE DtorStop
  BY <1>7 DEF DtorStop, Registered
<1>8. ASSUME NEW c \in Client, NEW d \in Client,
          HandshakeOk(c) \/ ReadForeign(c, d) \/ GiveUp(c)
   PROVE  RegistryInv'
  BY <1>8 DEF HandshakeOk, ReadForeign, GiveUp, Reading, At
<1>9. ASSUME NEW c \in Client, Enter(c) PROVE RegistryInv'
  BY <1>9 DEF Enter, At
<1>10. ASSUME NEW c \in Client, NEW n \in Requested,
          NickRequest(c, n)
   PROVE  RegistryInv'
  BY <1>10 DEF NickRequest, At
<1>11. ASSUME NEW c \in Client,
          NickTaken(c) \/ AssignBegin(c) \/ AssignEnd(c)
   PROVE  RegistryInv'
  BY <1>11 DEF NickTaken, AssignBegin, AssignEnd, At
<1>12. ASSUME NEW c \in Client, RemoveEntry(c) PROVE RegistryInv'
  BY <1>12 DEF RemoveEntry, At
<1>13. ASSUME NEW c \in Client, DeleteClient(c) PROVE RegistryInv'
  BY <1>13 DEF DeleteClient, At, Close
<1>14. ASSUME NEW c \in Client, PeerClose(c) PROVE RegistryInv'
  BY <1>14 DEF PeerClose
<1>15. ASSUME NEW f \in Fd, KickClient(f) PROVE RegistryInv'
  BY <1>15 DEF KickClient, BeginScan, ConsoleAt, Registered
<1>16. ASSUME NEW n \in Typed, KickNick(n) PROVE RegistryInv'
  BY <1>16 DEF KickNick, BeginScan, ConsoleAt, Registered
<1>17. ASSUME NEW n \in Typed, BanNickname(n) PROVE RegistryInv'
  BY <1>17 DEF BanNickname, BeginScan, ConsoleAt, Registered
<1>18. ASSUME NEW a \in Ip, BanIp(a) PROVE RegistryInv'
  BY <1>18 DEF BanIp, BeginScan, ConsoleAt, Registered
<1>19. ASSUME NEW n \in Typed, UnbanNickname(n) PROVE RegistryInv'
  BY <1>19 DEF UnbanNickname, Unban, ConsoleAt
<1>20. ASSUME NEW a \in Ip, UnbanIp(a) PROVE RegistryInv'
  BY <1>20 DEF UnbanIp, Unban, ConsoleAt
<1>21. ASSUME NEW f \in Fd, SaveOpen(f) PROVE RegistryInv'
  BY <1>21 DEF SaveOpen, ConsoleAt, LowestFree
<1>22. CASE SaveOpenFails
  BY <1>22 DEF SaveOpenFails, SaveReturns, ConsoleAt
<1>23. CASE SaveClose
  BY <1>23 DEF SaveClose, SaveReturns, ConsoleAt, Close
<1>24. CASE Stop
  BY <1>24 DEF Stop, ConsoleAt
<1>25. CASE StopLock
  BY <1>25 DEF StopLock, ConsoleAt, Registered
<1>26. ASSUME NEW t \in {Main, Console}, NEW f \in Fd,
          VisitMiss(t, f)
   PROVE  RegistryInv'
  BY <1>26 DEF VisitMiss, Scanning, ConsoleAt
<1>27. ASSUME NEW t \in {Main, Console}, NEW f \in Fd,
          VisitHit(t, f)
   PROVE  RegistryInv'
  BY <1>27 DEF VisitHit, Scanning, ConsoleAt, Close
<1>28. ASSUME NEW t \in {Main, Console}, VisitEnd(t) PROVE RegistryInv'
  BY <1>28 DEF VisitEnd, Scanning, ConsoleAt
<1>29. CASE UNCHANGED vars
  BY <1>29 DEF vars
<1> HIDE DEF IInv, TypeOK, LifeInv, RegistryInv
<1>30. QED
  BY <1>1, <1>2, <1>3, <1>4, <1>5, <1>6, <1>7, <1>8, <1>9, <1>10, <1>11,
     <1>12, <1>13, <1>14, <1>15, <1>16, <1>17, <1>18, <1>19, <1>20, <1>21,
     <1>22, <1>23, <1>24, <1>25, <1>26, <1>27, <1>28, <1>29
  DEF Next, MainNext, ConsoleNext, ClientNext, Visit, Exited

\* Two holders of one number that was never forced would both be what the
\* number names: so a close by one cannot hit the other.
LEMMA OwnStep ==
  ASSUME IInv, [Next]_vars
  PROVE  DescriptorsOwned'
<1> USE ConstantsAssumption
<1> USE DEF IInv, TypeOK, LifeInv, DescriptorsOwned, Holds, Forced, OwnsFd,
            kernelVars, banVars, lockVars, serverVars, objectVars, threadVars,
            clientVars, mainVars, consoleVars
<1>1. ASSUME NEW c \in Client, Accept(c) PROVE DescriptorsOwned'
  BY <1>1 DEF Accept, LowestFree
<1>2. CASE Refuse
  BY <1>2 DEF Refuse, Close
<1>3. CASE Construct
  BY <1>3 DEF Construct, New
<1>4. CASE Register
  BY <1>4 DEF Register
<1>5. CASE Start
  BY <1>5 DEF Start
<1>6. CASE LogJoined \/ AcceptEnds \/ Join
  BY <1>6 DEF LogJoined, AcceptEnds, Join
<1>7. CASE DtorStop
  BY <1>7 DEF DtorStop, Registered
<1>8. ASSUME NEW c \in Client, NEW d \in Client,
          HandshakeOk(c) \/ ReadForeign(c, d) \/ GiveUp(c)
   PROVE  DescriptorsOwned'
  BY <1>8 DEF HandshakeOk, ReadForeign, GiveUp, Reading, At
<1>9. ASSUME NEW c \in Client, Enter(c) PROVE DescriptorsOwned'
  BY <1>9 DEF Enter, At
<1>10. ASSUME NEW c \in Client, NEW n \in Requested,
          NickRequest(c, n)
   PROVE  DescriptorsOwned'
  BY <1>10 DEF NickRequest, At
<1>11. ASSUME NEW c \in Client,
          NickTaken(c) \/ AssignBegin(c) \/ AssignEnd(c)
   PROVE  DescriptorsOwned'
  BY <1>11 DEF NickTaken, AssignBegin, AssignEnd, At
<1>12. ASSUME NEW c \in Client, RemoveEntry(c) PROVE DescriptorsOwned'
  BY <1>12 DEF RemoveEntry, At
<1>13. ASSUME NEW c \in Client, DeleteClient(c) PROVE DescriptorsOwned'
  BY <1>13 DEF DeleteClient, At, Close
<1>14. ASSUME NEW c \in Client, PeerClose(c) PROVE DescriptorsOwned'
  BY <1>14 DEF PeerClose
<1>15. ASSUME NEW f \in Fd, KickClient(f) PROVE DescriptorsOwned'
  BY <1>15 DEF KickClient, BeginScan, ConsoleAt, Registered
<1>16. ASSUME NEW n \in Typed, KickNick(n) PROVE DescriptorsOwned'
  BY <1>16 DEF KickNick, BeginScan, ConsoleAt, Registered
<1>17. ASSUME NEW n \in Typed, BanNickname(n) PROVE DescriptorsOwned'
  BY <1>17 DEF BanNickname, BeginScan, ConsoleAt, Registered
<1>18. ASSUME NEW a \in Ip, BanIp(a) PROVE DescriptorsOwned'
  BY <1>18 DEF BanIp, BeginScan, ConsoleAt, Registered
<1>19. ASSUME NEW n \in Typed, UnbanNickname(n) PROVE DescriptorsOwned'
  BY <1>19 DEF UnbanNickname, Unban, ConsoleAt
<1>20. ASSUME NEW a \in Ip, UnbanIp(a) PROVE DescriptorsOwned'
  BY <1>20 DEF UnbanIp, Unban, ConsoleAt
<1>21. ASSUME NEW f \in Fd, SaveOpen(f) PROVE DescriptorsOwned'
  BY <1>21 DEF SaveOpen, ConsoleAt, LowestFree
<1>22. CASE SaveOpenFails
  BY <1>22 DEF SaveOpenFails, SaveReturns, ConsoleAt
<1>23. CASE SaveClose
  BY <1>23 DEF SaveClose, SaveReturns, ConsoleAt, Close
<1>24. CASE Stop
  BY <1>24 DEF Stop, ConsoleAt
<1>25. CASE StopLock
  BY <1>25 DEF StopLock, ConsoleAt, Registered
<1>26. ASSUME NEW t \in {Main, Console}, NEW f \in Fd,
          VisitMiss(t, f)
   PROVE  DescriptorsOwned'
  BY <1>26 DEF VisitMiss, Scanning, ConsoleAt
<1>27. ASSUME NEW t \in {Main, Console}, NEW f \in Fd,
          VisitHit(t, f)
   PROVE  DescriptorsOwned'
  BY <1>27 DEF VisitHit, Scanning, ConsoleAt, Close
<1>28. ASSUME NEW t \in {Main, Console}, VisitEnd(t) PROVE DescriptorsOwned'
  BY <1>28 DEF VisitEnd, Scanning, ConsoleAt
<1>29. CASE UNCHANGED vars
  BY <1>29 DEF vars
<1> HIDE DEF IInv, TypeOK, LifeInv, DescriptorsOwned
<1>30. QED
  BY <1>1, <1>2, <1>3, <1>4, <1>5, <1>6, <1>7, <1>8, <1>9, <1>10, <1>11,
     <1>12, <1>13, <1>14, <1>15, <1>16, <1>17, <1>18, <1>19, <1>20, <1>21,
     <1>22, <1>23, <1>24, <1>25, <1>26, <1>27, <1>28, <1>29
  DEF Next, MainNext, ConsoleNext, ClientNext, Visit, Exited

\* Nobody registers or erases while a loop holds mutex.
LEMMA ScanStep ==
  ASSUME IInv, [Next]_vars
  PROVE  ScanInv'
<1> USE ConstantsAssumption
<1> USE DEF IInv, TypeOK, ScanInv, Walking, Sought, Registered, kernelVars,
            banVars, lockVars, serverVars, objectVars, threadVars, clientVars,
            mainVars, consoleVars
<1>1. ASSUME NEW c \in Client, Accept(c) PROVE ScanInv'
  BY <1>1 DEF Accept, LowestFree, LifeInv, RegistryInv
<1>2. CASE Refuse
  BY <1>2 DEF Refuse, Close
<1>3. CASE Construct
  BY <1>3 DEF Construct, New
<1>4. CASE Register
  BY <1>4 DEF Register, LockInv
<1>5. CASE Start
  BY <1>5 DEF Start
<1>6. CASE LogJoined \/ AcceptEnds \/ Join
  BY <1>6 DEF LogJoined, AcceptEnds, Join
<1>7. CASE DtorStop
  BY <1>7 DEF DtorStop, Registered
<1>8. ASSUME NEW c \in Client, NEW d \in Client,
          HandshakeOk(c) \/ ReadForeign(c, d) \/ GiveUp(c)
   PROVE  ScanInv'
  BY <1>8 DEF HandshakeOk, ReadForeign, GiveUp, Reading, At
<1>9. ASSUME NEW c \in Client, Enter(c) PROVE ScanInv'
  BY <1>9 DEF Enter, At
<1>10. ASSUME NEW c \in Client, NEW n \in Requested,
          NickRequest(c, n)
   PROVE  ScanInv'
  BY <1>10 DEF NickRequest, At
<1>11. ASSUME NEW c \in Client,
          NickTaken(c) \/ AssignBegin(c) \/ AssignEnd(c)
   PROVE  ScanInv'
  BY <1>11 DEF NickTaken, AssignBegin, AssignEnd, At
<1>12. ASSUME NEW c \in Client, RemoveEntry(c) PROVE ScanInv'
  BY <1>12 DEF RemoveEntry, At, LockInv
<1>13. ASSUME NEW c \in Client, DeleteClient(c) PROVE ScanInv'
  BY <1>13 DEF DeleteClient, At, Close
<1>14. ASSUME NEW c \in Client, PeerClose(c) PROVE ScanInv'
  BY <1>14 DEF PeerClose
<1>15. ASSUME NEW f \in Fd, KickClient(f) PROVE ScanInv'
  BY <1>15 DEF KickClient, BeginScan, ConsoleAt, Registered, LockInv
<1>16. ASSUME NEW n \in Typed, KickNick(n) PROVE ScanInv'
  BY <1>16 DEF KickNick, BeginScan, ConsoleAt, Registered, LockInv
<1>17. ASSUME NEW n \in Typed, BanNickname(n) PROVE ScanInv'
  BY <1>17 DEF BanNickname, BeginScan, ConsoleAt, Registered, LockInv
<1>18. ASSUME NEW a \in Ip, BanIp(a) PROVE ScanInv'
  BY <1>18 DEF BanIp, BeginScan, ConsoleAt, Registered, LockInv
<1>19. ASSUME NEW n \in Typed, UnbanNickname(n) PROVE ScanInv'
  BY <1>19 DEF UnbanNickname, Unban, ConsoleAt
<1>20. ASSUME NEW a \in Ip, UnbanIp(a) PROVE ScanInv'
  BY <1>20 DEF UnbanIp, Unban, ConsoleAt
<1>21. ASSUME NEW f \in Fd, SaveOpen(f) PROVE ScanInv'
  BY <1>21 DEF SaveOpen, ConsoleAt, LowestFree
<1>22. CASE SaveOpenFails
  BY <1>22 DEF SaveOpenFails, SaveReturns, ConsoleAt
<1>23. CASE SaveClose
  BY <1>23 DEF SaveClose, SaveReturns, ConsoleAt, Close
<1>24. CASE Stop
  BY <1>24 DEF Stop, ConsoleAt
<1>25. CASE StopLock
  BY <1>25 DEF StopLock, ConsoleAt, Registered
<1>26. ASSUME NEW t \in {Main, Console}, NEW f \in Fd,
          VisitMiss(t, f)
   PROVE  ScanInv'
  <2>1. clients[f] \in Client /\ ~Sought(clients[f])
    BY <1>26 DEF VisitMiss, Scanning, ConsoleAt, Matches, NameReads
  <2> QED
    BY <1>26, <2>1 DEF VisitMiss
<1>27. ASSUME NEW t \in {Main, Console}, NEW f \in Fd,
          VisitHit(t, f)
   PROVE  ScanInv'
  BY <1>27 DEF VisitHit, Scanning, ConsoleAt, Close
<1>28. ASSUME NEW t \in {Main, Console}, VisitEnd(t) PROVE ScanInv'
  BY <1>28 DEF VisitEnd, Scanning, ConsoleAt
<1>29. CASE UNCHANGED vars
  BY <1>29 DEF vars
<1> HIDE DEF IInv, TypeOK, ScanInv
<1>30. QED
  BY <1>1, <1>2, <1>3, <1>4, <1>5, <1>6, <1>7, <1>8, <1>9, <1>10, <1>11,
     <1>12, <1>13, <1>14, <1>15, <1>16, <1>17, <1>18, <1>19, <1>20, <1>21,
     <1>22, <1>23, <1>24, <1>25, <1>26, <1>27, <1>28, <1>29
  DEF Next, MainNext, ConsoleNext, ClientNext, Visit, Exited

\* An entry of an unforced number is erased or replaced by its own client
\* only; stop clears the map after it has forced every number in it.
LEMMA ListedStep ==
  ASSUME IInv, [Next]_vars
  PROVE  ListedInv'
<1> USE ConstantsAssumption
<1> USE DEF IInv, TypeOK, LifeInv, RegistryInv, DescriptorsOwned, ListedInv,
            Holds, OwnsFd, Forced, kernelVars, banVars, lockVars, serverVars,
            objectVars, threadVars, clientVars, mainVars, consoleVars
<1>1. ASSUME NEW c \in Client, Accept(c) PROVE ListedInv'
  BY <1>1 DEF Accept, LowestFree
<1>2. CASE Refuse
  BY <1>2 DEF Refuse, Close
<1>3. CASE Construct
  BY <1>3 DEF Construct, New
<1>4. CASE Register
  BY <1>4 DEF Register
<1>5. CASE Start
  BY <1>5 DEF Start
<1>6. CASE LogJoined \/ AcceptEnds \/ Join
  BY <1>6 DEF LogJoined, AcceptEnds, Join
<1>7. CASE DtorStop
  BY <1>7 DEF DtorStop, Registered
<1>8. ASSUME NEW c \in Client, NEW d \in Client,
          HandshakeOk(c) \/ ReadForeign(c, d) \/ GiveUp(c)
   PROVE  ListedInv'
  BY <1>8 DEF HandshakeOk, ReadForeign, GiveUp, Reading, At
<1>9. ASSUME NEW c \in Client, Enter(c) PROVE ListedInv'
  BY <1>9 DEF Enter, At
<1>10. ASSUME NEW c \in Client, NEW n \in Requested,
          NickRequest(c, n)
   PROVE  ListedInv'
  BY <1>10 DEF NickRequest, At
<1>11. ASSUME NEW c \in Client,
          NickTaken(c) \/ AssignBegin(c) \/ AssignEnd(c)
   PROVE  ListedInv'
  BY <1>11 DEF NickTaken, AssignBegin, AssignEnd, At
<1>12. ASSUME NEW c \in Client, RemoveEntry(c) PROVE ListedInv'
  BY <1>12 DEF RemoveEntry, At
<1>13. ASSUME NEW c \in Client, DeleteClient(c) PROVE ListedInv'
  BY <1>13 DEF DeleteClient, At, Close
<1>14. ASSUME NEW c \in Client, PeerClose(c) PROVE ListedInv'
  BY <1>14 DEF PeerClose
<1>15. ASSUME NEW f \in Fd, KickClient(f) PROVE ListedInv'
  BY <1>15 DEF KickClient, BeginScan, ConsoleAt, Registered
<1>16. ASSUME NEW n \in Typed, KickNick(n) PROVE ListedInv'
  BY <1>16 DEF KickNick, BeginScan, ConsoleAt, Registered
<1>17. ASSUME NEW n \in Typed, BanNickname(n) PROVE ListedInv'
  BY <1>17 DEF BanNickname, BeginScan, ConsoleAt, Registered
<1>18. ASSUME NEW a \in Ip, BanIp(a) PROVE ListedInv'
  BY <1>18 DEF BanIp, BeginScan, ConsoleAt, Registered
<1>19. ASSUME NEW n \in Typed, UnbanNickname(n) PROVE ListedInv'
  BY <1>19 DEF UnbanNickname, Unban, ConsoleAt
<1>20. ASSUME NEW a \in Ip, UnbanIp(a) PROVE ListedInv'
  BY <1>20 DEF UnbanIp, Unban, ConsoleAt
<1>21. ASSUME NEW f \in Fd, SaveOpen(f) PROVE ListedInv'
  BY <1>21 DEF SaveOpen, ConsoleAt, LowestFree
<1>22. CASE SaveOpenFails
  BY <1>22 DEF SaveOpenFails, SaveReturns, ConsoleAt
<1>23. CASE SaveClose
  BY <1>23 DEF SaveClose, SaveReturns, ConsoleAt, Close
<1>24. CASE Stop
  BY <1>24 DEF Stop, ConsoleAt
<1>25. CASE StopLock
  BY <1>25 DEF StopLock, ConsoleAt, Registered
<1>26. ASSUME NEW t \in {Main, Console}, NEW f \in Fd,
          VisitMiss(t, f)
   PROVE  ListedInv'
  BY <1>26 DEF VisitMiss, Scanning, ConsoleAt
<1>27. ASSUME NEW t \in {Main, Console}, NEW f \in Fd,
          VisitHit(t, f)
   PROVE  ListedInv'
  BY <1>27 DEF VisitHit, Scanning, ConsoleAt, Close
<1>28. ASSUME NEW t \in {Main, Console}, VisitEnd(t) PROVE ListedInv'
  <2>1. job.op = "stop" => \A f \in Registered : f \in Forced
    BY <1>28 DEF VisitEnd, Scanning, ConsoleAt, ScanInv, Walking, Sought,
             Registered
  <2> QED
    BY <1>28, <2>1 DEF VisitEnd, Registered
<1>29. CASE UNCHANGED vars
  BY <1>29 DEF vars
<1> HIDE DEF IInv, TypeOK, LifeInv, RegistryInv, DescriptorsOwned, ListedInv
<1>30. QED
  BY <1>1, <1>2, <1>3, <1>4, <1>5, <1>6, <1>7, <1>8, <1>9, <1>10, <1>11,
     <1>12, <1>13, <1>14, <1>15, <1>16, <1>17, <1>18, <1>19, <1>20, <1>21,
     <1>22, <1>23, <1>24, <1>25, <1>26, <1>27, <1>28, <1>29
  DEF Next, MainNext, ConsoleNext, ClientNext, Visit, Exited

\* At the end of an ipban's loop the only client of the address that is not
\* disconnected is the one the main thread is about to register.
LEMMA EscapeStep ==
  ASSUME IInv, [Next]_vars
  PROVE  EscapeInv'
<1> USE ConstantsAssumption
<1> USE DEF IInv, TypeOK, LifeInv, RegistryInv, DescriptorsOwned, ListedInv,
            EscapeInv, Holds, OwnsFd, Forced, kernelVars, banVars, lockVars,
            serverVars, objectVars, threadVars, clientVars, mainVars,
            consoleVars
<1>1. ASSUME NEW c \in Client, Accept(c) PROVE EscapeInv'
  BY <1>1 DEF Accept, LowestFree
<1>2. CASE Refuse
  BY <1>2 DEF Refuse, Close
<1>3. CASE Construct
  BY <1>3 DEF Construct, New
<1>4. CASE Register
  BY <1>4 DEF Register
<1>5. CASE Start
  BY <1>5 DEF Start
<1>6. CASE LogJoined \/ AcceptEnds \/ Join
  BY <1>6 DEF LogJoined, AcceptEnds, Join
<1>7. CASE DtorStop
  BY <1>7 DEF DtorStop, Registered, LockInv
<1>8. ASSUME NEW c \in Client, NEW d \in Client,
          HandshakeOk(c) \/ ReadForeign(c, d) \/ GiveUp(c)
   PROVE  EscapeInv'
  BY <1>8 DEF HandshakeOk, ReadForeign, GiveUp, Reading, At
<1>9. ASSUME NEW c \in Client, Enter(c) PROVE EscapeInv'
  BY <1>9 DEF Enter, At
<1>10. ASSUME NEW c \in Client, NEW n \in Requested,
          NickRequest(c, n)
   PROVE  EscapeInv'
  BY <1>10 DEF NickRequest, At
<1>11. ASSUME NEW c \in Client,
          NickTaken(c) \/ AssignBegin(c) \/ AssignEnd(c)
   PROVE  EscapeInv'
  BY <1>11 DEF NickTaken, AssignBegin, AssignEnd, At
<1>12. ASSUME NEW c \in Client, RemoveEntry(c) PROVE EscapeInv'
  BY <1>12 DEF RemoveEntry, At
<1>13. ASSUME NEW c \in Client, DeleteClient(c) PROVE EscapeInv'
  BY <1>13 DEF DeleteClient, At, Close
<1>14. ASSUME NEW c \in Client, PeerClose(c) PROVE EscapeInv'
  BY <1>14 DEF PeerClose
<1>15. ASSUME NEW f \in Fd, KickClient(f) PROVE EscapeInv'
  BY <1>15 DEF KickClient, BeginScan, ConsoleAt, Registered
<1>16. ASSUME NEW n \in Typed, KickNick(n) PROVE EscapeInv'
  BY <1>16 DEF KickNick, BeginScan, ConsoleAt, Registered
<1>17. ASSUME NEW n \in Typed, BanNickname(n) PROVE EscapeInv'
  BY <1>17 DEF BanNickname, BeginScan, ConsoleAt, Registered
<1>18. ASSUME NEW a \in Ip, BanIp(a) PROVE EscapeInv'
  BY <1>18 DEF BanIp, BeginScan, ConsoleAt, Registered
<1>19. ASSUME NEW n \in Typed, UnbanNickname(n) PROVE EscapeInv'
  BY <1>19 DEF UnbanNickname, Unban, ConsoleAt
<1>20. ASSUME NEW a \in Ip, UnbanIp(a) PROVE EscapeInv'
  BY <1>20 DEF UnbanIp, Unban, ConsoleAt
<1>21. ASSUME NEW f \in Fd, SaveOpen(f) PROVE EscapeInv'
  BY <1>21 DEF SaveOpen, ConsoleAt, LowestFree
<1>22. CASE SaveOpenFails
  BY <1>22 DEF SaveOpenFails, SaveReturns, ConsoleAt
<1>23. CASE SaveClose
  BY <1>23 DEF SaveClose, SaveReturns, ConsoleAt, Close
<1>24. CASE Stop
  BY <1>24 DEF Stop, ConsoleAt
<1>25. CASE StopLock
  BY <1>25 DEF StopLock, ConsoleAt, Registered
<1>26. ASSUME NEW t \in {Main, Console}, NEW f \in Fd,
          VisitMiss(t, f)
   PROVE  EscapeInv'
  BY <1>26 DEF VisitMiss, Scanning, ConsoleAt
<1>27. ASSUME NEW t \in {Main, Console}, NEW f \in Fd,
          VisitHit(t, f)
   PROVE  EscapeInv'
  BY <1>27 DEF VisitHit, Scanning, ConsoleAt, Close
<1>28. ASSUME NEW t \in {Main, Console}, VisitEnd(t) PROVE EscapeInv'
  <2>1. t = Console /\ job.op = "ipban" =>
          \A f \in Fd : clients[f] # None /\ ip[clients[f]] = job.key
                          => f \in Forced
    BY <1>28 DEF VisitEnd, Scanning, ConsoleAt, ScanInv, Walking, Sought,
             Registered
  <2>2. t = Console /\ job.op = "ipban" =>
          \A c \in Client :
            object[c] = "live" /\ sockfd[c] \notin Forced /\ ip[c] = job.key
            => mpc = "register" /\ incoming = c
    BY <1>28, <2>1 DEF VisitEnd, Scanning, ConsoleAt, LockInv
  <2>3. t = Main => kpc # "scan"
    BY <1>28 DEF VisitEnd, Scanning, LockInv
  <2> QED
    BY <1>28, <2>2, <2>3 DEF VisitEnd, Scanning, ConsoleAt
<1>29. CASE UNCHANGED vars
  BY <1>29 DEF vars
<1> HIDE DEF IInv, TypeOK, LifeInv, RegistryInv, DescriptorsOwned, ListedInv,
         EscapeInv
<1>30. QED
  BY <1>1, <1>2, <1>3, <1>4, <1>5, <1>6, <1>7, <1>8, <1>9, <1>10, <1>11,
     <1>12, <1>13, <1>14, <1>15, <1>16, <1>17, <1>18, <1>19, <1>20, <1>21,
     <1>22, <1>23, <1>24, <1>25, <1>26, <1>27, <1>28, <1>29
  DEF Next, MainNext, ConsoleNext, ClientNext, Visit, Exited

\* Only Accept makes a descriptor name a connection, and the loop of stop
\* closes each number it visits.
LEMMA ClosedStep ==
  ASSUME IInv, [Next]_vars
  PROVE  ClosedInv'
<1> USE ConstantsAssumption
<1> USE DEF IInv, TypeOK, LockInv, ClosedInv, Walking, Registered, kernelVars,
            banVars, lockVars, serverVars, objectVars, threadVars, clientVars,
            mainVars, consoleVars
<1>1. ASSUME NEW c \in Client, Accept(c) PROVE ClosedInv'
  BY <1>1 DEF Accept, LowestFree
<1>2. CASE Refuse
  BY <1>2 DEF Refuse, Close
<1>3. CASE Construct
  BY <1>3 DEF Construct, New
<1>4. CASE Register
  BY <1>4 DEF Register
<1>5. CASE Start
  BY <1>5 DEF Start
<1>6. CASE LogJoined \/ AcceptEnds \/ Join
  BY <1>6 DEF LogJoined, AcceptEnds, Join
<1>7. CASE DtorStop
  BY <1>7 DEF DtorStop, Registered
<1>8. ASSUME NEW c \in Client, NEW d \in Client,
          HandshakeOk(c) \/ ReadForeign(c, d) \/ GiveUp(c)
   PROVE  ClosedInv'
  BY <1>8 DEF HandshakeOk, ReadForeign, GiveUp, Reading, At
<1>9. ASSUME NEW c \in Client, Enter(c) PROVE ClosedInv'
  BY <1>9 DEF Enter, At
<1>10. ASSUME NEW c \in Client, NEW n \in Requested,
          NickRequest(c, n)
   PROVE  ClosedInv'
  BY <1>10 DEF NickRequest, At
<1>11. ASSUME NEW c \in Client,
          NickTaken(c) \/ AssignBegin(c) \/ AssignEnd(c)
   PROVE  ClosedInv'
  BY <1>11 DEF NickTaken, AssignBegin, AssignEnd, At
<1>12. ASSUME NEW c \in Client, RemoveEntry(c) PROVE ClosedInv'
  BY <1>12 DEF RemoveEntry, At
<1>13. ASSUME NEW c \in Client, DeleteClient(c) PROVE ClosedInv'
  BY <1>13 DEF DeleteClient, At, Close
<1>14. ASSUME NEW c \in Client, PeerClose(c) PROVE ClosedInv'
  BY <1>14 DEF PeerClose
<1>15. ASSUME NEW f \in Fd, KickClient(f) PROVE ClosedInv'
  BY <1>15 DEF KickClient, BeginScan, ConsoleAt, Registered
<1>16. ASSUME NEW n \in Typed, KickNick(n) PROVE ClosedInv'
  BY <1>16 DEF KickNick, BeginScan, ConsoleAt, Registered
<1>17. ASSUME NEW n \in Typed, BanNickname(n) PROVE ClosedInv'
  BY <1>17 DEF BanNickname, BeginScan, ConsoleAt, Registered
<1>18. ASSUME NEW a \in Ip, BanIp(a) PROVE ClosedInv'
  BY <1>18 DEF BanIp, BeginScan, ConsoleAt, Registered
<1>19. ASSUME NEW n \in Typed, UnbanNickname(n) PROVE ClosedInv'
  BY <1>19 DEF UnbanNickname, Unban, ConsoleAt
<1>20. ASSUME NEW a \in Ip, UnbanIp(a) PROVE ClosedInv'
  BY <1>20 DEF UnbanIp, Unban, ConsoleAt
<1>21. ASSUME NEW f \in Fd, SaveOpen(f) PROVE ClosedInv'
  BY <1>21 DEF SaveOpen, ConsoleAt, LowestFree
<1>22. CASE SaveOpenFails
  BY <1>22 DEF SaveOpenFails, SaveReturns, ConsoleAt
<1>23. CASE SaveClose
  BY <1>23 DEF SaveClose, SaveReturns, ConsoleAt, Close
<1>24. CASE Stop
  BY <1>24 DEF Stop, ConsoleAt
<1>25. CASE StopLock
  BY <1>25 DEF StopLock, ConsoleAt, Registered
<1>26. ASSUME NEW t \in {Main, Console}, NEW f \in Fd,
          VisitMiss(t, f)
   PROVE  ClosedInv'
  <2>1. job.op # "stop"
    BY <1>26 DEF VisitMiss, Scanning, ConsoleAt, NameReads, Matches
  <2> QED
    BY <1>26, <2>1 DEF VisitMiss
<1>27. ASSUME NEW t \in {Main, Console}, NEW f \in Fd,
          VisitHit(t, f)
   PROVE  ClosedInv'
  <2>1. sockfd[clients[f]] = f
    BY <1>27 DEF VisitHit, Scanning, ConsoleAt, ScanInv, RegistryInv
  <2> QED
    BY <1>27, <2>1 DEF VisitHit, Close
<1>28. ASSUME NEW t \in {Main, Console}, VisitEnd(t) PROVE ClosedInv'
  BY <1>28 DEF VisitEnd, Scanning, ConsoleAt
<1>29. CASE UNCHANGED vars
  BY <1>29 DEF vars
<1> HIDE DEF IInv, TypeOK, LockInv, ClosedInv
<1>30. QED
  BY <1>1, <1>2, <1>3, <1>4, <1>5, <1>6, <1>7, <1>8, <1>9, <1>10, <1>11,
     <1>12, <1>13, <1>14, <1>15, <1>16, <1>17, <1>18, <1>19, <1>20, <1>21,
     <1>22, <1>23, <1>24, <1>25, <1>26, <1>27, <1>28, <1>29
  DEF Next, MainNext, ConsoleNext, ClientNext, Visit, Exited

\* An entry is erased under another client's connection only by a thread
\* that goes on to close that connection, or by stop after it has.
LEMMA ServedStep ==
  ASSUME IInv, [Next]_vars
  PROVE  ServedInv'
<1> USE ConstantsAssumption
<1> USE DEF IInv, TypeOK, LifeInv, LockInv, ServedInv, OwnsFd, kernelVars,
            banVars, lockVars, serverVars, objectVars, threadVars, clientVars,
            mainVars, consoleVars
<1>1. ASSUME NEW c \in Client, Accept(c) PROVE ServedInv'
  BY <1>1 DEF Accept, LowestFree
<1>2. CASE Refuse
  BY <1>2 DEF Refuse, Close
<1>3. CASE Construct
  BY <1>3 DEF Construct, New
<1>4. CASE Register
  BY <1>4 DEF Register, ClosedInv
<1>5. CASE Start
  BY <1>5 DEF Start
<1>6. CASE LogJoined \/ AcceptEnds \/ Join
  BY <1>6 DEF LogJoined, AcceptEnds, Join
<1>7. CASE DtorStop
  BY <1>7 DEF DtorStop, Registered
<1>8. ASSUME NEW c \in Client, NEW d \in Client,
          HandshakeOk(c) \/ ReadForeign(c, d) \/ GiveUp(c)
   PROVE  ServedInv'
  BY <1>8 DEF HandshakeOk, ReadForeign, GiveUp, Reading, At
<1>9. ASSUME NEW c \in Client, Enter(c) PROVE ServedInv'
  BY <1>9 DEF Enter, At
<1>10. ASSUME NEW c \in Client, NEW n \in Requested,
          NickRequest(c, n)
   PROVE  ServedInv'
  BY <1>10 DEF NickRequest, At
<1>11. ASSUME NEW c \in Client,
          NickTaken(c) \/ AssignBegin(c) \/ AssignEnd(c)
   PROVE  ServedInv'
  BY <1>11 DEF NickTaken, AssignBegin, AssignEnd, At
<1>12. ASSUME NEW c \in Client, RemoveEntry(c) PROVE ServedInv'
  BY <1>12 DEF RemoveEntry, At
<1>13. ASSUME NEW c \in Client, DeleteClient(c) PROVE ServedInv'
  BY <1>13 DEF DeleteClient, At, Close
<1>14. ASSUME NEW c \in Client, PeerClose(c) PROVE ServedInv'
  BY <1>14 DEF PeerClose
<1>15. ASSUME NEW f \in Fd, KickClient(f) PROVE ServedInv'
  BY <1>15 DEF KickClient, BeginScan, ConsoleAt, Registered
<1>16. ASSUME NEW n \in Typed, KickNick(n) PROVE ServedInv'
  BY <1>16 DEF KickNick, BeginScan, ConsoleAt, Registered
<1>17. ASSUME NEW n \in Typed, BanNickname(n) PROVE ServedInv'
  BY <1>17 DEF BanNickname, BeginScan, ConsoleAt, Registered
<1>18. ASSUME NEW a \in Ip, BanIp(a) PROVE ServedInv'
  BY <1>18 DEF BanIp, BeginScan, ConsoleAt, Registered
<1>19. ASSUME NEW n \in Typed, UnbanNickname(n) PROVE ServedInv'
  BY <1>19 DEF UnbanNickname, Unban, ConsoleAt
<1>20. ASSUME NEW a \in Ip, UnbanIp(a) PROVE ServedInv'
  BY <1>20 DEF UnbanIp, Unban, ConsoleAt
<1>21. ASSUME NEW f \in Fd, SaveOpen(f) PROVE ServedInv'
  BY <1>21 DEF SaveOpen, ConsoleAt, LowestFree
<1>22. CASE SaveOpenFails
  BY <1>22 DEF SaveOpenFails, SaveReturns, ConsoleAt
<1>23. CASE SaveClose
  BY <1>23 DEF SaveClose, SaveReturns, ConsoleAt, Close
<1>24. CASE Stop
  BY <1>24 DEF Stop, ConsoleAt
<1>25. CASE StopLock
  BY <1>25 DEF StopLock, ConsoleAt, Registered
<1>26. ASSUME NEW t \in {Main, Console}, NEW f \in Fd,
          VisitMiss(t, f)
   PROVE  ServedInv'
  BY <1>26 DEF VisitMiss, Scanning, ConsoleAt
<1>27. ASSUME NEW t \in {Main, Console}, NEW f \in Fd,
          VisitHit(t, f)
   PROVE  ServedInv'
  BY <1>27 DEF VisitHit, Scanning, ConsoleAt, Close
<1>28. ASSUME NEW t \in {Main, Console}, VisitEnd(t) PROVE ServedInv'
  <2>1. job.op = "stop" => \A f \in Registered : fdt[f] \notin Client
    BY <1>28 DEF VisitEnd, Scanning, ConsoleAt, ClosedInv, Walking, Registered
  <2>2. \A d \in Client : pc[d] # "delete"
    BY <1>28 DEF VisitEnd, Scanning, ConsoleAt
  <2> QED
    BY <1>28, <2>1, <2>2 DEF VisitEnd, Registered
<1>29. CASE UNCHANGED vars
  BY <1>29 DEF vars
<1> HIDE DEF IInv, TypeOK, LifeInv, LockInv, ServedInv
<1>30. QED
  BY <1>1, <1>2, <1>3, <1>4, <1>5, <1>6, <1>7, <1>8, <1>9, <1>10, <1>11,
     <1>12, <1>13, <1>14, <1>15, <1>16, <1>17, <1>18, <1>19, <1>20, <1>21,
     <1>22, <1>23, <1>24, <1>25, <1>26, <1>27, <1>28, <1>29
  DEF Next, MainNext, ConsoleNext, ClientNext, Visit, Exited

-----------------------------------------------------------------------------
(* Theorems *)

LEMMA Inductive == Spec => []IInv
<1>1. Init => IInv
  BY ConstantsAssumption
  DEF Init, IInv, TypeOK, LifeInv, LockInv, ScanInv, RegistryInv,
      DescriptorsOwned, ListedInv, EscapeInv, ClosedInv, ServedInv, Bans, Jobs,
      Threads, Walking, Sought, Registered, Holds, OwnsFd, Forced
<1>2. IInv /\ [Next]_vars => IInv'
  BY TypeStep, LifeStep, LockStep, RegistryStep, OwnStep, ScanStep,
     ListedStep, EscapeStep, ClosedStep, ServedStep DEF IInv
<1>3. QED
  BY <1>1, <1>2, PTL DEF Spec

\* Every variable keeps its type; every connection has a descriptor number
\* and every object a nickname.
THEOREM TypeCorrect == Spec => []TypeOK
<1>1. IInv => TypeOK
  BY DEF IInv
<1>2. QED
  BY <1>1, Inductive, PTL

\* Entries are erased by descriptor number and numbers are reused, yet no
\* entry of the map, and no member of a room, is ever a deleted client.
THEOREM RegistryCorrect == Spec => []RegistryInv
<1>1. IInv => RegistryInv
  BY DEF IInv
<1>2. QED
  BY <1>1, Inductive, PTL

\* The loops of kick, ban and stop never come to a deleted client.
THEOREM LoopsAreSafe == Spec => []NoUseAfterFree
<1>1. IInv => NoUseAfterFree
  BY ConstantsAssumption
  DEF IInv, ScanInv, Walking, Registered, RegistryInv, NoUseAfterFree, TypeOK
<1>2. QED
  BY <1>1, Inductive, PTL

\* Only disconnectClient can make a descriptor number name another's file.
THEOREM DescriptorsCorrect == Spec => []DescriptorsOwned
<1>1. IInv => DescriptorsOwned
  BY DEF IInv
<1>2. QED
  BY <1>1, Inductive, PTL

\* Every running client is in the map, unless its number was forced.
THEOREM ListedCorrect == Spec => []ListedUnlessForced
<1>1. IInv => ListedUnlessForced
  BY DEF IInv, ListedInv, ListedUnlessForced
<1>2. QED
  BY <1>1, Inductive, PTL

\* Nor is a client whose descriptor is its own missing from the map, forced
\* numbers and stop included, but in the midst of a removal.
THEOREM ServedCorrect == Spec => []ServedListed
<1>1. IInv => ServedListed
  BY ConstantsAssumption
  DEF IInv, LockInv, ServedInv, ServedListed, OwnsFd, TypeOK
<1>2. QED
  BY <1>1, Inductive, PTL

\* An ipban misses at most the one connection being accepted.
THEOREM BanCorrect == Spec => []BanCatches
<1>1. IInv => BanCatches
  BY DEF IInv, EscapeInv, BanCatches
<1>2. QED
  BY <1>1, Inductive, PTL

\* An entry of an unforced number is erased by its own client only.
THEOREM EraseCorrect == Spec => EraseOwnEntry
<1>1. IInv /\ [Next]_vars => ErasesOwn
  <2> SUFFICES ASSUME IInv, [Next]_vars, NEW f \in Fd,
                      clients[f] # None, clients'[f] # clients[f]
               PROVE  pc'[clients[f]] = "delete" \/ f \in Forced
    BY DEF ErasesOwn
  <2> USE ConstantsAssumption DEF IInv, TypeOK
  <2>1. CASE Register
    BY <2>1 DEF Register, LifeInv, RegistryInv, DescriptorsOwned, Holds, OwnsFd
  <2>2. ASSUME NEW c \in Client, RemoveEntry(c)
        PROVE  pc'[clients[f]] = "delete" \/ f \in Forced
    BY <2>2 DEF RemoveEntry, At, LifeInv, RegistryInv, DescriptorsOwned, Holds,
                OwnsFd
  <2>3. ASSUME NEW t \in {Main, Console}, VisitEnd(t)
        PROVE  f \in Forced
    BY <2>3 DEF VisitEnd, Scanning, ConsoleAt, ScanInv, Walking, Sought,
                Registered, RegistryInv, Forced
  <2>4. \/ Register \/ \E c \in Client : RemoveEntry(c)
        \/ \E t \in {Main, Console} : VisitEnd(t)
    <3> HIDE DEF IInv, TypeOK
    <3> QED
      BY DEF Next, MainNext, ConsoleNext, ClientNext, Visit, Exited, vars,
             serverVars, Accept, Refuse, Construct, New, Start, LogJoined,
             AcceptEnds, DtorStop, Join, HandshakeOk, Enter, NickRequest,
             NickTaken, AssignBegin, AssignEnd, ReadForeign, GiveUp,
             DeleteClient, PeerClose, KickClient, KickNick, BanNickname, BanIp,
             BeginScan, UnbanNickname, UnbanIp, Unban, SaveOpen, SaveOpenFails,
             SaveClose, SaveReturns, Stop, StopLock, VisitMiss, VisitHit
  <2>5. QED
    BY <2>1, <2>2, <2>3, <2>4
<1>2. QED
  BY <1>1, Inductive, PTL DEF Spec, EraseOwnEntry

\* A save whose descriptor number was never forced reaches the file.
THEOREM SaveCorrect == Spec => SaveComplete
<1> DEFINE Saves == kpc = "close" /\ kpc' = "prompt" =>
                      \/ file' = [nicks |-> bannedNicks, ips |-> bannedIps]
                      \/ saveFd \in Forced
<1>1. IInv /\ [Next]_vars => Saves
  <2> SUFFICES ASSUME IInv, [Next]_vars, kpc = "close", kpc' = "prompt"
               PROVE  \/ file' = [nicks |-> bannedNicks, ips |-> bannedIps]
                      \/ saveFd \in Forced
    OBVIOUS
  <2>1. SaveClose
    BY DEF Next, MainNext, ConsoleNext, ClientNext, Visit, Exited, vars,
           consoleVars, threadVars, Accept, Refuse, Construct, New, Register,
           Start, LogJoined, AcceptEnds, DtorStop, Join, HandshakeOk, Enter,
           NickRequest, NickTaken, AssignBegin, AssignEnd, ReadForeign, GiveUp,
           RemoveEntry, DeleteClient, PeerClose, KickClient, KickNick,
           BanNickname, BanIp, BeginScan, UnbanNickname, UnbanIp, Unban,
           SaveOpen, SaveOpenFails, Stop, StopLock, VisitMiss, VisitHit,
           VisitEnd, Scanning, ConsoleAt
  <2>2. QED
    BY <2>1 DEF SaveClose, IInv, DescriptorsOwned
<1>2. QED
  BY <1>1, Inductive, PTL DEF Spec, SaveComplete

=============================================================================
