---------------------------- MODULE Connections ----------------------------
(***************************************************************************)
(* The life of a connection in the retchat server: the accept loop         *)
(* (Server::run), the detached thread of each client (Client::run), the    *)
(* operator's console (Server::consoleLoop) and the process's descriptor   *)
(* table they all share.                                                   *)
(*                                                                         *)
(* Descriptors are plain integers that the kernel hands out again as soon  *)
(* as they are closed.  The server keeps them in three places: the key of  *)
(* the map `clients', Client::sockfd, and the stream saveBans opens.  The  *)
(* console closes a client's descriptor (disconnectClient) while the       *)
(* client's own thread still uses it and will close it once more           *)
(* (~Client), so this module keeps the table explicit.                     *)
(*                                                                         *)
(* Rooms are reduced to the set of clients that are in some room; who is   *)
(* in which, and what is said there, is not the concern of this module.    *)
(* Once `running' is cleared and the main thread has joined the console    *)
(* the process is gone, and with it every thread.                          *)
(***************************************************************************)
EXTENDS Naturals, FiniteSets

CONSTANTS
  Client,        \* Client objects, one for each connection ever accepted
  Fd,            \* descriptor numbers still free once the server listens
  Ip,            \* addresses connections come from
  Nick,          \* nicknames
  DefaultNick,   \* "usuario" + fd: the nickname given to descriptor fd
  Requested,     \* nicknames clients ask for
  Typed,         \* nicknames the operator types
  Saved,         \* contents the bans file may have at startup
  Op,            \* console commands the operator uses
  Main, Console, \* the two threads that are not client threads
  BansFile,      \* owner of the descriptor saveBans has open
  None           \* no client, nobody, closed descriptor, unset

Commands == {"kick", "kicknick", "ban", "ipban", "unban", "unbanip"}

ASSUME ConstantsAssumption ==
  /\ Fd \subseteq Nat
  /\ DefaultNick \in [Fd -> Nick]
  /\ Requested \subseteq Nick /\ Typed \subseteq Nick
  /\ Saved \subseteq [nicks : SUBSET Nick, ips : SUBSET Ip]
  /\ Op \subseteq Commands
  /\ {Main, Console, BansFile, None} \cap Client = {}
  /\ None \notin Fd /\ None \notin Nick
  /\ Main # Console /\ None \notin {Main, Console, BansFile}

VARIABLES
  \* kernel
  fdt,           \* owner of each descriptor: a connection, BansFile or None
  stream,        \* what a read of the connection finds
  \* Server
  clients,       \* Server::clients, None where the map has no key
  members,       \* clients listed in some room
  bannedNicks, bannedIps,
  file,          \* contents of the bans file
  running,       \* Server::running, and whether listenFd is open
  mutex,         \* holder of Server::mutex
  scan,          \* entries of `clients' the holder's loop has yet to visit
  job,           \* what that loop looks for
  \* Client
  object,        \* the heap object: none, live or freed
  sockfd, ip, name,
  encKey,        \* the connection whose other end has the same key
  pc,            \* where the client's thread is
  newNick,       \* processPacket's local
  \* main and console threads
  mpc, incoming, \* accept loop: position, clientFd / client
  kpc, saveFd,   \* console: position, descriptor of saveBans' stream
  \* history
  disconnected   \* clients disconnectClient was called on

kernelVars  == <<fdt, stream>>
banVars     == <<bannedNicks, bannedIps, file>>
lockVars    == <<mutex, scan, job>>
serverVars  == <<clients, members, banVars, running, lockVars, disconnected>>
objectVars  == <<object, sockfd, ip, encKey>>
clientVars  == <<objectVars, name, pc, newNick>>
mainVars    == <<mpc, incoming>>
consoleVars == <<kpc, saveFd>>
threadVars  == <<mainVars, consoleVars>>
vars == <<kernelVars, serverVars, clientVars, threadVars>>

Threads == Client \cup {Main, Console}
Bans    == [nicks : SUBSET Nick, ips : SUBSET Ip]
Jobs    == [op  : Commands \cup {"stop"},
            key : Fd \cup Nick \cup Ip \cup {None}]

TypeOK ==
  /\ fdt \in [Fd -> Client \cup {BansFile, None}]
  /\ stream \in [Client -> {"none", "open", "closed", "garbled"}]
  /\ clients \in [Fd -> Client \cup {None}]
  /\ members \subseteq Client
  /\ bannedNicks \subseteq Nick /\ bannedIps \subseteq Ip
  /\ file \in Bans
  /\ running \in BOOLEAN
  /\ mutex \in Threads \cup {None}
  /\ scan \subseteq Fd
  /\ job \in Jobs
  /\ object \in [Client -> {"none", "live", "freed"}]
  /\ sockfd \in [Client -> Fd \cup {None}]
  /\ ip \in [Client -> Ip \cup {None}]
  /\ name \in [Client -> Nick \cup {None}]
  /\ encKey \in [Client -> Client \cup {None}]
  /\ newNick \in [Client -> Nick \cup {None}]
  /\ pc \in [Client -> {"none", "handshake", "enter", "loop", "rename",
                        "assign", "remove", "delete", "done"}]
  /\ mpc \in {"accept", "check", "register", "start", "log",
              "dtor", "dtorScan", "join", "exited"}
  /\ incoming \in Client \cup {None}
  /\ kpc \in {"prompt", "scan", "open", "close", "stopping", "ended"}
  /\ saveFd \in Fd \cup {None}
  /\ disconnected \subseteq Client
  /\ \A c \in Client :
       /\ stream[c] # "none" => sockfd[c] \in Fd /\ ip[c] \in Ip
       /\ object[c] # "none" => stream[c] # "none" /\ name[c] \in Nick

(* Server::Server: loadBans reads the file before anything else runs. *)
Init ==
  /\ file \in Saved
  /\ bannedNicks = file.nicks /\ bannedIps = file.ips
  /\ fdt = [f \in Fd |-> None]
  /\ stream = [c \in Client |-> "none"]
  /\ clients = [f \in Fd |-> None]
  /\ members = {}
  /\ running = TRUE
  /\ mutex = None /\ scan = {} /\ job = [op |-> "stop", key |-> None]
  /\ object = [c \in Client |-> "none"]
  /\ sockfd = [c \in Client |-> None]
  /\ ip = [c \in Client |-> None]
  /\ name = [c \in Client |-> None]
  /\ encKey = [c \in Client |-> None]
  /\ newNick = [c \in Client |-> None]
  /\ pc = [c \in Client |-> "none"]
  /\ mpc = "accept" /\ incoming = None
  /\ kpc = "prompt" /\ saveFd = None
  /\ disconnected = {}

-----------------------------------------------------------------------------
(* Helpers *)

Registered == {f \in Fd : clients[f] # None}

\* POSIX: a new descriptor is the lowest number not in use.
LowestFree(f) ==
  /\ f \in Fd /\ fdt[f] = None
  /\ \A g \in Fd : fdt[g] = None => f <= g

\* close(f) closes whatever f names by now; EBADF if nothing.
Close(f) == fdt' = [fdt EXCEPT ![f] = None]

\* The client's descriptor still names the client's own connection.
OwnsFd(c) == sockfd[c] \in Fd /\ fdt[sockfd[c]] = c

\* Where a thread is, while there is a process.
Alive        == mpc # "exited"
At(c, p)     == Alive /\ pc[c] = p
ConsoleAt(p) == Alive /\ kpc = p
Reading(c)   == At(c, "handshake") \/ At(c, "loop")

\* A frame can be read whose HMAC is right under the client's key: the
\* descriptor names the connection the key was agreed on, nobody else has
\* taken bytes of it, and what came before the end can be read after it.
Readable(c) ==
  /\ encKey[c] # None /\ fdt[sockfd[c]] = encKey[c]
  /\ encKey[c] = c => stream[c] # "garbled"

\* The client's connection is up, and its own.
Served(c) == OwnsFd(c) /\ stream[c] = "open"

\* The values a getName() by another thread may return: std::string is
\* assigned without a lock (Client.cpp:330), a read during the assignment
\* is a race and may also see a mixture of the two (None).
NameReads(c) ==
  IF pc[c] = "assign" THEN {name[c], newNick[c], None} ELSE {name[c]}

\* The condition under which a loop over `clients' acts on client c whose
\* name it reads as n.
Matches(c, n) ==
  \/ job.op = "stop"
  \/ job.op = "kick" /\ sockfd[c] = job.key
  \/ job.op \in {"kicknick", "ban"} /\ n = job.key
  \/ job.op = "ipban" /\ ip[c] = job.key

Scanning(t) == \/ t = Console /\ ConsoleAt("scan")
               \/ t = Main /\ mpc = "dtorScan"

-----------------------------------------------------------------------------
(* The main thread: Server::run and, at the end of main, Server::~Server. *)

\* accept() returns a connection; its address is read from the socket.
Accept(c) ==
  /\ mpc = "accept" /\ running
  /\ stream[c] = "none"
  /\ \E f \in Fd, a \in Ip :
       /\ LowestFree(f)
       /\ fdt' = [fdt EXCEPT ![f] = c]
       /\ sockfd' = [sockfd EXCEPT ![c] = f]
       /\ ip' = [ip EXCEPT ![c] = a]
  /\ stream' = [stream EXCEPT ![c] = "open"]
  /\ incoming' = c
  /\ mpc' = "check"
  /\ UNCHANGED <<serverVars, object, encKey, name, pc, newNick, consoleVars>>

\* isIpBanned said yes: close and go on accepting.
Refuse ==
  /\ mpc = "check" /\ mutex = None
  /\ ip[incoming] \in bannedIps
  /\ Close(sockfd[incoming])
  /\ incoming' = None
  /\ mpc' = "accept"
  /\ UNCHANGED <<stream, serverVars, clientVars, consoleVars>>

\* new Client
New(next) ==
  /\ object' = [object EXCEPT ![incoming] = "live"]
  /\ name' = [name EXCEPT ![incoming] = DefaultNick[sockfd[incoming]]]
  /\ mpc' = next
  /\ UNCHANGED <<kernelVars, serverVars, sockfd, ip, encKey, pc, newNick,
                 incoming, consoleVars>>

\* Mutant: the result of isIpBanned is not looked at.
ConstructUnchecked == mpc = "check" /\ mutex = None /\ New("register")

\* Mutant: the client is started without being put in the map.
ConstructUnregistered ==
  /\ mpc = "check" /\ mutex = None /\ ip[incoming] \notin bannedIps
  /\ New("start")

\* isIpBanned said no: new Client.
Construct ==
  /\ mpc = "check" /\ mutex = None /\ ip[incoming] \notin bannedIps
  /\ New("register")

\* clients[clientFd] = client: an entry left under the same key is replaced.
Register ==
  /\ mpc = "register" /\ mutex = None
  /\ clients' = [clients EXCEPT ![sockfd[incoming]] = incoming]
  /\ mpc' = "start"
  /\ UNCHANGED <<kernelVars, members, banVars, running, lockVars, clientVars,
                 incoming, consoleVars, disconnected>>

\* client->start(): the thread exists and is detached.
Start ==
  /\ mpc = "start"
  /\ pc' = [pc EXCEPT ![incoming] = "handshake"]
  /\ mpc' = "log"
  /\ UNCHANGED <<kernelVars, serverVars, objectVars, name, newNick, incoming,
                 consoleVars>>

\* The log line reads client->getName() after start(): the thread may have
\* deleted the object by then, and the read of freed memory may end the
\* process.
LogJoined ==
  /\ mpc = "log"
  /\ incoming' = None
  /\ \/ mpc' = "accept"
     \/ object[incoming] = "freed" /\ mpc' = "exited"
  /\ UNCHANGED <<kernelVars, serverVars, clientVars, consoleVars>>

\* The loop ends (accept fails on the closed listenFd, or the test of
\* `running'); `server' goes out of scope in main.
AcceptEnds ==
  /\ mpc = "accept" /\ ~running
  /\ mpc' = "dtor"
  /\ UNCHANGED <<kernelVars, serverVars, clientVars, incoming, consoleVars>>

\* ~Server calls stop() a second time.
DtorStop ==
  /\ mpc = "dtor" /\ mutex = None
  /\ mutex' = Main
  /\ scan' = Registered
  /\ job' = [op |-> "stop", key |-> None]
  /\ mpc' = "dtorScan"
  /\ UNCHANGED <<kernelVars, clients, members, banVars, running, clientVars,
                 incoming, consoleVars, disconnected>>

\* Mutant: main also waits for the client threads.
JoinEveryThread ==
  /\ mpc = "join" /\ kpc = "ended"
  /\ \A c \in Client : pc[c] \in {"none", "done"}
  /\ mpc' = "exited"
  /\ UNCHANGED <<kernelVars, serverVars, clientVars, incoming, consoleVars>>

\* consoleThread.join(), then main returns and the process ends.
Join ==
  /\ mpc = "join" /\ kpc = "ended"
  /\ mpc' = "exited"
  /\ UNCHANGED <<kernelVars, serverVars, clientVars, incoming, consoleVars>>

-----------------------------------------------------------------------------
(* The thread of client c: Client::run. *)

\* The key and version exchange succeed, on whatever connection the
\* descriptor names by now, even one that has been closed since.  Another
\* client's bytes are then lost to it.
HandshakeOk(c) ==
  /\ At(c, "handshake")
  /\ \E d \in Client :
       /\ fdt[sockfd[c]] = d /\ stream[d] \in {"open", "closed"}
       /\ encKey' = [encKey EXCEPT ![c] = d]
       /\ stream' = IF d = c \/ stream[d] = "closed" THEN stream
                      ELSE [stream EXCEPT ![d] = "garbled"]
  /\ pc' = [pc EXCEPT ![c] = "enter"]
  /\ UNCHANGED <<fdt, serverVars, object, sockfd, ip, name, newNick,
                 threadVars>>

\* Welcome, addClient on the lobby, join notice.
Enter(c) ==
  /\ At(c, "enter")
  /\ members' = members \cup {c}
  /\ pc' = [pc EXCEPT ![c] = "loop"]
  /\ UNCHANGED <<kernelVars, clients, banVars, running, lockVars, objectVars,
                 name, newNick, threadVars, disconnected>>

\* PKT_NICK_REQUEST up to isNicknameBanned, which locks and unlocks mutex.
\* A request that is refused here only sends an error.
NickRequest(c, n) ==
  /\ At(c, "loop") /\ Readable(c)
  /\ mutex = None
  /\ n # name[c] /\ n \notin bannedNicks
  /\ newNick' = [newNick EXCEPT ![c] = n]
  /\ pc' = [pc EXCEPT ![c] = "rename"]
  /\ UNCHANGED <<kernelVars, serverVars, objectVars, name, threadVars>>

\* isNicknameTaken says that the room already has the nickname ...
NickTaken(c) ==
  /\ At(c, "rename")
  /\ newNick' = [newNick EXCEPT ![c] = None]
  /\ pc' = [pc EXCEPT ![c] = "loop"]
  /\ UNCHANGED <<kernelVars, serverVars, objectVars, name, threadVars>>

\* ... or that it does not, and the assignment of name starts ...
AssignBegin(c) ==
  /\ At(c, "rename")
  /\ pc' = [pc EXCEPT ![c] = "assign"]
  /\ UNCHANGED <<kernelVars, serverVars, objectVars, name, newNick,
                 threadVars>>

\* Mutant: newNick is moved from before it is copied.
AssignEndMoved(c) ==
  /\ At(c, "assign")
  /\ newNick' = [newNick EXCEPT ![c] = None]
  /\ name' = [name EXCEPT ![c] = newNick'[c]]
  /\ pc' = [pc EXCEPT ![c] = "loop"]
  /\ UNCHANGED <<kernelVars, serverVars, objectVars, threadVars>>

\* ... and ends, with the acknowledgement and the notice to the room.
AssignEnd(c) ==
  /\ At(c, "assign")
  /\ name' = [name EXCEPT ![c] = newNick[c]]
  /\ newNick' = [newNick EXCEPT ![c] = None]
  /\ pc' = [pc EXCEPT ![c] = "loop"]
  /\ UNCHANGED <<kernelVars, serverVars, objectVars, threadVars>>

\* The descriptor was closed under the thread and now names another
\* connection: the thread takes bytes meant for d, their HMAC does not
\* verify under its own key, and it gives up.
ReadForeign(c, d) ==
  /\ Reading(c)
  /\ d # c /\ fdt[sockfd[c]] = d /\ stream[d] = "open"
  /\ stream' = [stream EXCEPT ![d] = "garbled"]
  /\ pc' = [pc EXCEPT ![c] = "remove"]
  /\ UNCHANGED <<fdt, serverVars, objectVars, name, newNick, threadVars>>

\* Mutant: the thread calls Client::disconnect before it leaves.
GiveUpDisconnects(c) ==
  /\ Reading(c)
  /\ Close(sockfd[c])
  /\ pc' = [pc EXCEPT ![c] = "remove"]
  /\ UNCHANGED <<stream, serverVars, objectVars, name, newNick, threadVars>>

\* Mutant: no keepalive timeout, POLLNVAL is polled for ever.
GiveUpNoTimeout(c) ==
  /\ Reading(c)
  /\ OwnsFd(c)
  /\ pc' = [pc EXCEPT ![c] = "remove"]
  /\ UNCHANGED <<kernelVars, serverVars, objectVars, name, newNick,
                 threadVars>>

\* The handshake fails or the loop breaks: end of stream, EBADF, a bad
\* frame, a keepalive timeout.  The leave notice changes no state here.
GiveUp(c) ==
  /\ Reading(c)
  /\ pc' = [pc EXCEPT ![c] = "remove"]
  /\ UNCHANGED <<kernelVars, serverVars, objectVars, name, newNick,
                 threadVars>>

\* Mutant: the entry stays in the map.
RemoveEntryForgets(c) ==
  /\ At(c, "remove") /\ mutex = None
  /\ mutex' = c
  /\ members' = members \ {c}
  /\ pc' = [pc EXCEPT ![c] = "delete"]
  /\ UNCHANGED <<kernelVars, clients, banVars, running, scan, job, objectVars,
                 name, newNick, threadVars, disconnected>>

\* Server::removeClient under mutex: the entry keyed by the client's
\* descriptor goes, whoever it holds, and the client leaves its room ...
RemoveEntry(c) ==
  /\ At(c, "remove") /\ mutex = None
  /\ mutex' = c
  /\ clients' = [clients EXCEPT ![sockfd[c]] = None]
  /\ members' = members \ {c}
  /\ pc' = [pc EXCEPT ![c] = "delete"]
  /\ UNCHANGED <<kernelVars, banVars, running, scan, job, objectVars, name,
                 newNick, threadVars, disconnected>>

\* Mutant: ~Client leaves a descriptor alone that was closed before.
DeleteClientOnce(c) ==
  /\ At(c, "delete")
  /\ object' = [object EXCEPT ![c] = "freed"]
  /\ IF c \in disconnected THEN UNCHANGED fdt ELSE Close(sockfd[c])
  /\ mutex' = None
  /\ pc' = [pc EXCEPT ![c] = "done"]
  /\ UNCHANGED <<stream, clients, members, banVars, running, scan, job, sockfd,
                 ip, encKey, name, newNick, threadVars, disconnected>>

\* ... then delete client: ~Client closes the descriptor, perhaps again.
DeleteClient(c) ==
  /\ At(c, "delete")
  /\ object' = [object EXCEPT ![c] = "freed"]
  /\ Close(sockfd[c])
  /\ mutex' = None
  /\ pc' = [pc EXCEPT ![c] = "done"]
  /\ UNCHANGED <<stream, clients, members, banVars, running, scan, job, sockfd,
                 ip, encKey, name, newNick, threadVars, disconnected>>

\* The remote end closes the connection.
PeerClose(c) ==
  /\ Alive
  /\ stream[c] \in {"open", "garbled"}
  /\ stream' = [stream EXCEPT ![c] = "closed"]
  /\ UNCHANGED <<fdt, serverVars, clientVars, threadVars>>

-----------------------------------------------------------------------------
(* The console thread: Server::consoleLoop. *)

\* Mutant: the loop runs without the lock.
BeginScanUnlocked(op, key) ==
  /\ ConsoleAt("prompt")
  /\ scan' = Registered
  /\ job' = [op |-> op, key |-> key]
  /\ kpc' = "scan"
  /\ UNCHANGED <<kernelVars, clients, members, file, running, mutex,
                 clientVars, mainVars, saveFd, disconnected>>

\* Lock mutex and start a loop over `clients'.
BeginScan(op, key) ==
  /\ ConsoleAt("prompt") /\ mutex = None
  /\ mutex' = Console
  /\ scan' = Registered
  /\ job' = [op |-> op, key |-> key]
  /\ kpc' = "scan"
  /\ UNCHANGED <<kernelVars, clients, members, file, running, clientVars,
                 mainVars, saveFd, disconnected>>

KickClient(f)  == BeginScan("kick", f) /\ UNCHANGED <<bannedNicks, bannedIps>>
KickNick(n) ==
  BeginScan("kicknick", n) /\ UNCHANGED <<bannedNicks, bannedIps>>
BanNickname(n) == /\ BeginScan("ban", n)
                  /\ bannedNicks' = bannedNicks \cup {n}
                  /\ UNCHANGED bannedIps
BanIp(a)       == /\ BeginScan("ipban", a)
                  /\ bannedIps' = bannedIps \cup {a}
                  /\ UNCHANGED bannedNicks

\* stop(): no new connections, then the loop that disconnects everyone.
Stop ==
  /\ ConsoleAt("prompt")
  /\ running' = FALSE
  /\ kpc' = "stopping"
  /\ UNCHANGED <<kernelVars, clients, members, banVars, lockVars, clientVars,
                 mainVars, saveFd, disconnected>>

StopLock ==
  /\ ConsoleAt("stopping") /\ mutex = None
  /\ mutex' = Console
  /\ scan' = Registered
  /\ job' = [op |-> "stop", key |-> None]
  /\ kpc' = "scan"
  /\ UNCHANGED <<kernelVars, clients, members, banVars, running, clientVars,
                 mainVars, saveFd, disconnected>>

\* The loop of thread t visits its next entry, in the order of the keys.
\* The client does not match: on to the next.
VisitMiss(t, f) ==
  /\ Scanning(t) /\ f \in scan /\ \A g \in scan : f <= g
  /\ \E n \in NameReads(clients[f]) : ~Matches(clients[f], n)
  /\ scan' = scan \ {f}
  /\ UNCHANGED <<kernelVars, clients, members, banVars, running, mutex, job,
                 clientVars, threadVars, disconnected>>

\* The client matches: a last packet, then disconnectClient shuts down and
\* closes whatever its descriptor names.  A kick stops at its first match.
VisitHit(t, f) ==
  /\ Scanning(t) /\ f \in scan /\ \A g \in scan : f <= g
  /\ \E n \in NameReads(clients[f]) : Matches(clients[f], n)
  /\ LET c == clients[f] IN
       /\ Close(sockfd[c])
       /\ stream' = [d \in Client |->
                       IF fdt[sockfd[c]] = d THEN "closed" ELSE stream[d]]
       /\ disconnected' = disconnected \cup {c}
  /\ scan' = IF job.op \in {"kick", "kicknick"} THEN {} ELSE scan \ {f}
  /\ UNCHANGED <<clients, members, banVars, running, mutex, job, clientVars,
                 threadVars>>

\* End of the loop: stop() clears both maps; unlock; a ban goes on to save.
VisitEnd(t) ==
  /\ Scanning(t) /\ scan = {}
  /\ mutex' = None
  /\ IF job.op = "stop"
       THEN clients' = [f \in Fd |-> None] /\ members' = {}
       ELSE UNCHANGED <<clients, members>>
  /\ kpc' = CASE t = Main -> kpc
              [] job.op = "stop" -> "ended"
              [] job.op \in {"ban", "ipban"} -> "open"
              [] OTHER -> "prompt"
  /\ mpc' = IF t = Main THEN "join" ELSE mpc
  /\ UNCHANGED <<kernelVars, banVars, running, scan, job, clientVars, incoming,
                 saveFd, disconnected>>

\* unban and unbanip save before they unlock.
Unban(nicks, ips) ==
  /\ ConsoleAt("prompt") /\ mutex = None
  /\ mutex' = Console
  /\ bannedNicks' = bannedNicks \ nicks
  /\ bannedIps' = bannedIps \ ips
  /\ kpc' = "open"
  /\ UNCHANGED <<kernelVars, clients, members, file, running, scan, job,
                 clientVars, mainVars, saveFd, disconnected>>

UnbanNickname(n) == Unban({n}, {})
UnbanIp(a)       == Unban({}, {a})

\* saveBans: std::ofstream with trunc.  If it cannot be opened: a warning.
SaveOpen(f) ==
  /\ ConsoleAt("open") /\ LowestFree(f)
  /\ fdt' = [fdt EXCEPT ![f] = BansFile]
  /\ saveFd' = f
  /\ file' = [nicks |-> {}, ips |-> {}]
  /\ kpc' = "close"
  /\ UNCHANGED <<stream, clients, members, bannedNicks, bannedIps, running,
                 lockVars, clientVars, mainVars, disconnected>>

\* Both ways the command ends, with mutex if it is unban's.
SaveReturns ==
  /\ kpc' = "prompt"
  /\ mutex' = IF mutex = Console THEN None ELSE mutex
  /\ UNCHANGED <<clients, members, bannedNicks, bannedIps, running, scan, job,
                 clientVars, mainVars, disconnected>>

SaveOpenFails ==
  /\ ConsoleAt("open")
  /\ SaveReturns
  /\ UNCHANGED <<kernelVars, file, saveFd>>

\* Mutant: the loop over bannedIps is missing.
SaveCloseNicksOnly ==
  /\ ConsoleAt("close")
  /\ file' = IF fdt[saveFd] = BansFile
               THEN [nicks |-> bannedNicks, ips |-> {}] ELSE file
  /\ Close(saveFd)
  /\ saveFd' = None
  /\ SaveReturns
  /\ UNCHANGED stream

\* ~ofstream writes the buffered lines and closes the descriptor: the lines
\* reach the file only if the descriptor still names it.
SaveClose ==
  /\ ConsoleAt("close")
  /\ file' = IF fdt[saveFd] = BansFile
               THEN [nicks |-> bannedNicks, ips |-> bannedIps] ELSE file
  /\ Close(saveFd)
  /\ saveFd' = None
  /\ SaveReturns
  /\ UNCHANGED stream

-----------------------------------------------------------------------------
MainNext == \/ \E c \in Client : Accept(c)
            \/ Refuse \/ Construct \/ Register \/ Start \/ LogJoined
            \/ AcceptEnds \/ DtorStop \/ Join

ClientNext(c) == \/ HandshakeOk(c) \/ Enter(c)
                 \/ \E n \in Requested : NickRequest(c, n)
                 \/ NickTaken(c) \/ AssignBegin(c) \/ AssignEnd(c)
                 \/ \E d \in Client : ReadForeign(c, d)
                 \/ GiveUp(c) \/ RemoveEntry(c) \/ DeleteClient(c)

ConsoleNext == \/ "kick" \in Op /\ \E f \in Fd : KickClient(f)
               \/ "kicknick" \in Op /\ \E n \in Typed : KickNick(n)
               \/ "ban" \in Op /\ \E n \in Typed : BanNickname(n)
               \/ "ipban" \in Op /\ \E a \in Ip : BanIp(a)
               \/ "unban" \in Op /\ \E n \in Typed : UnbanNickname(n)
               \/ "unbanip" \in Op /\ \E a \in Ip : UnbanIp(a)
               \/ \E f \in Fd : SaveOpen(f)
               \/ SaveOpenFails \/ SaveClose
               \/ Stop \/ StopLock

Visit(t) == \/ \E f \in Fd : VisitMiss(t, f) \/ VisitHit(t, f)
            \/ VisitEnd(t)

\* The process is gone; nothing happens any more.
Exited == mpc = "exited" /\ UNCHANGED vars

Next == \/ MainNext
        \/ ConsoleNext
        \/ \E t \in {Main, Console} : Visit(t)
        \/ \E c \in Client : ClientNext(c) \/ PeerClose(c)
        \/ Exited

Spec == Init /\ [][Next]_vars

-----------------------------------------------------------------------------
(* Fairness.  A thread that can take its next step takes it; a thread that *)
(* waits for mutex gets it once it is free often enough (the other threads *)
(* hold it briefly and the console is used at human pace).  A loop under   *)
(* the lock gets to its end: this takes for granted that the sockets take  *)
(* the packets it sends.  Nobody need connect, send, or type a command, so *)
(* those steps are not fair.  A thread leaves a connection that is shut    *)
(* down: poll and recv return at once while its descriptor still names the *)
(* connection or a plain file, and once it names nothing the loop turns    *)
(* until the keepalive timeout.  (Were requests buffered before the end    *)
(* among the steps, this would have to be SF: there are only so many.) No  *)
(* such promise is made for a descriptor that names another connection,    *)
(* whose bytes may not come, nor for a thread inside recv when its         *)
(* descriptor goes away and the connection does not.                       *)

Dead(c) == /\ stream[c] = "closed"
           /\ fdt[sockfd[c]] \in {None, BansFile, c}

Fairness ==
  /\ WF_vars(Start \/ LogJoined \/ AcceptEnds \/ Join)
  /\ SF_vars(Refuse \/ Construct \/ Register \/ DtorStop)
  /\ \A t \in {Main, Console} : WF_vars(Visit(t))
  /\ WF_vars(SaveOpenFails \/ SaveClose \/ \E f \in Fd : SaveOpen(f))
  /\ SF_vars(StopLock)
  /\ \A c \in Client :
       /\ WF_vars(\/ Enter(c) \/ NickTaken(c) \/ AssignBegin(c)
                  \/ AssignEnd(c) \/ DeleteClient(c))
       /\ WF_vars(Dead(c) /\ GiveUp(c))
       /\ SF_vars(RemoveEntry(c))

FairSpec == Spec /\ Fairness

-----------------------------------------------------------------------------
(* Properties *)

\* Descriptor numbers disconnectClient has closed.
Forced == {sockfd[c] : c \in disconnected}

\* The clients the map can lead to are alive and filed under their own
\* descriptor, although entries are erased by key and keys are reused: no
\* admin command and no direct message finds a deleted client.  No room
\* keeps a deleted client either.  (Server.cpp:93-104, 86)
RegistryInv ==
  /\ \A f \in Fd : clients[f] # None =>
       /\ object[clients[f]] = "live"
       /\ sockfd[clients[f]] = f
       /\ pc[clients[f]] # "delete"
  /\ \A c \in members : object[c] = "live" /\ pc[c] \in {"loop", "rename",
                                                         "assign", "remove"}

\* While kick, ban or stop walks the map, each entry still to visit is there
\* and its object is not deleted under the loop, whatever client threads do.
NoUseAfterFree ==
  (kpc = "scan" \/ mpc = "dtorScan") =>
    \A f \in scan : clients[f] # None /\ object[clients[f]] = "live"

\* A descriptor number that the console never forced shut has one user at a
\* time, and that user's file is the one it names: a live client, the
\* connection being accepted, or the bans file.  So descriptors are confused
\* only after disconnectClient has closed one under its client.
Holds(c) == object[c] = "live" \/ (mpc = "check" /\ incoming = c)

DescriptorsOwned ==
  /\ \A c \in Client : Holds(c) /\ sockfd[c] \notin Forced => OwnsFd(c)
  /\ kpc = "close" /\ saveFd \notin Forced => fdt[saveFd] = BansFile

\* Every client whose thread runs is in the map, where kick, ban, list and
\* direct messages can find it, unless its descriptor number was forced.
ListedUnlessForced ==
  \A c \in Client :
    /\ pc[c] \notin {"none", "delete", "done"}
    /\ sockfd[c] \notin Forced
    => clients[sockfd[c]] = c

\* Forced numbers included: unless a client is just being removed, every
\* client whose thread runs and whose descriptor still is its connection's
\* is in the map, where kick, ban, list and direct messages can find it.
\* Entries are erased by number whoever they hold, and stop() erases them
\* all, but never without closing the connection under that number too.
\* (Server.cpp:45-51, 93-104, 250, Client.cpp:33)
ServedListed ==
  mutex \notin Client =>
    \A c \in Client :
      pc[c] \notin {"none", "delete", "done"} /\ OwnsFd(c)
      => clients[sockfd[c]] = c

\* An ipban lets at most one client of that address stay: the connection
\* that was between isIpBanned and its registration when the ban came.
BanCatches ==
  kpc # "scan" =>
    \A c, d \in Client :
      /\ object[c] = "live" /\ sockfd[c] \notin Forced
      /\ object[d] = "live" /\ sockfd[d] \notin Forced
      /\ ip[c] = ip[d] /\ ip[c] \in bannedIps
      => c = d

\* An entry leaves the map only in its own client's removal, in stop(), or
\* because its descriptor number was forced.
ErasesOwn ==
  \A f \in Fd :
    clients[f] # None /\ clients'[f] # clients[f] =>
      \/ pc'[clients[f]] = "delete"
      \/ f \in Forced

EraseOwnEntry == [][ErasesOwn]_vars

\* When saveBans returns after opening the file, the file holds all bans in
\* force, unless the number of its descriptor had been forced before.
SaveComplete ==
  [][kpc = "close" /\ kpc' = "prompt" =>
       \/ file' = [nicks |-> bannedNicks, ips |-> bannedIps]
       \/ saveFd \in Forced]_vars

\* A client that kick, ban or stop disconnected and whose connection is
\* down is removed from the map and deleted, unless its descriptor number
\* is given to a new connection first.  (Client.cpp:211-264)
DisconnectedIsRemoved ==
  \A c \in Client :
    c \in disconnected /\ stream[c] = "closed" ~>
      \/ object[c] = "freed" /\ \A f \in Fd : clients[f] # c
      \/ \E d \in Client \ {c} : sockfd[c] \in Fd /\ fdt[sockfd[c]] = d
      \/ mpc = "exited"

\* stop ends the process, whatever clients do and wherever the accept loop
\* is when running is cleared.
StopEnds == kpc = "stopping" ~> mpc = "exited"

(* What the documentation says of the program, and the code does not do.   *)

\* README.md: "kick: kick a client by socket fd or nickname"; a client in
\* its loop that no command was aimed at, and that has not closed, keeps its
\* connection, whoever else is kicked.
KickSparesOthers ==
  mutex = None =>
    \A c \in Client :
      pc[c] = "loop" /\ c \notin disconnected /\ stream[c] = "open"
      => OwnsFd(c)

\* README.md: the bans file is "updated automatically after every ban or
\* unban".
BansFileUpdated ==
  [][kpc = "close" /\ kpc' = "prompt" =>
       file' = [nicks |-> bannedNicks, ips |-> bannedIps]]_vars

\* README.md: "ban: ban a nickname"; at the prompt no client that is being
\* served has a banned nickname.
BannedNickNotServed ==
  kpc = "prompt" =>
    \A c \in Client :
      pc[c] = "loop" /\ Served(c) => name[c] \notin bannedNicks

=============================================================================
