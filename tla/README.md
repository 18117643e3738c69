# retchat: models, checks and proofs

retchat is a chat server of about 1900 lines of C++ (`src/src/`): one thread
accepts connections, each client has a detached thread of its own, and the
operator types commands at a console thread.  There are no tests.  This
directory holds TLA+ modules translated from the code, the TLC configurations
that check them, and proofs for TLAPS.

## 1. The system

| Component | State | Operations | Interacts through |
|---|---|---|---|
| Accept loop, main thread (`Server.cpp` 53-91, 427-436) | `listenFd`, `running` | accept, `isIpBanned`, new `Client`, register, start, log; at the end `~Server` | `Server::mutex`, `clients`, the descriptor table |
| Client registry (`Server.cpp` 36-51, 93-104, 244-303) | `clients` (descriptor → object), the objects | `removeClient`, `disconnectClient`, `stop`, the loops of kick and ban | `Server::mutex`; descriptors closed from two threads |
| Console (`Server.cpp` 154-242) | the command being run | kick, ban, ipban, unban, unbanip, stop; list and query | the same, and the bans file |
| Ban store (`Server.cpp` 268-327, 357-379) | `bannedNicks`, `bannedIps`, the file | load at startup, save after each change | the file's descriptor comes from the same table |
| Client thread (`Client.cpp` 184-414) | `name`, `room`, timers, `connected` | handshake, welcome, loop, requests, leave | rooms, `Server::mutex`, its socket |
| Sending (`Client.cpp` 163-183) | `sendCounter`, `sendMutex` | `sendPacket`, called by every thread | the client's socket |
| Receiving (`Client.cpp` 123-161) | `recvCounter` | `readFrame` | the client's socket |
| Handshake (`Client.cpp` 44-121) | `encKey` | key exchange, version exchange | the socket, OpenSSL |
| Codec (`Packet.cpp`) | none | serialize and deserialize of 20 packet types | |
| Rooms (`Room.cpp`, `Server.cpp` 106-148, 338-355, `Client.cpp` 322-410) | members of each room, `Server::rooms` | join, leave, broadcast, direct message, image, nickname check | room mutex, `Server::mutex` |
| Key agreement and cipher (`DiffieHellman.cpp`) | none | | OpenSSL |
| Logger, command texts | none | | |

What makes the program hard to get right, each at its line under `hazards` in
`PROJECT.json`:

- **Descriptors.**  `disconnectClient` closes a client's socket while the
  client's thread is in `poll` or `recv` on it, and `~Client` closes the number
  again.  The kernel hands a closed number out at once: to `accept`, or to the
  stream of `saveBans`.  `clients` is keyed by the same number.
- **Check, then act.**  Bans and nickname uniqueness are checked in one
  critical section and acted on in another.
- **Unlocked data.**  `name`, `room` and `sendCounter` are written without a
  lock and read by other threads; the accept loop reads an object that its own
  thread may have deleted.
- **Shutdown.**  `stop` clears map and rooms under threads that still run and
  are never joined.
- **Waiting.**  The timers are looked at once per turn of a loop that can block
  in `recv`; sends happen under the room's and the server's mutex.

What each component must get right: the registry leads to live objects only and
lists everyone who is served; a ban disconnects everyone it names and reaches
the file; a client that is disconnected or silent goes away, and one that
answers stays; `stop` ends the process; each client is sent whole frames, in
order, that it can decrypt; packets survive the codec; nicknames are unique in a
room and a broadcast reaches its members in one order.

## 2. The modules

| Module | What it is |
|---|---|
| `Connections` | accept loop, client threads, console and descriptor table |
| `SendPath` | `Client::sendPacket` for one client, called by many threads |
| `FrameLog` | what sending promises: a log of whole packets, each sender's in order |
| `Keepalive` | handshake and loop of a client's thread: what it reads, and its timers |
| `Packets` | the codec: operators only |
| `Frames` | a connection from end to end: packets to frames to bytes in pieces, and back; uses `Packets` |
| `Rooms` | rooms, nicknames, broadcasts and messages to one client |
| `RoomCast` | what rooms promise: broadcasts made at once, in one order |
| `LockOrder` | who waits for whom: the three kinds of mutex and full sockets |
| `BanStore` | the bans file over many lives of the server |
| `MCConnections`, `MCSendPath`, `MCFrames`, `MCRooms`, `MCBanStore` | instances for TLC; `Keepalive` and `LockOrder` need none, their constants are numbers and model values |
| `ConnectionsProofs`, `SendPathProofs`, `KeepaliveProofs`, `PacketsProofs`, `FramesProofs`, `RoomsProofs`, `LockOrderProofs`, `BanStoreProofs` | theorems |

The modules are views of one program, each with the state one kind of question
needs.  They meet where one has as a step what another takes apart:
`HandshakeOk` and the loop of `Connections` are `Keepalive`; `GetRoom`, `Add`
and `CastTo` of `Rooms` are the lock steps of `LockOrder`; a `CastTo` or
`DmSend` of `Rooms` is a `Call` to `SendPath`; a whole item of `Keepalive` is
what `Frames` reads byte by byte; the two steps of a save in `Connections` are
the many writes of `BanStore`.

A definition whose comment begins with `Mutant:` is a variant of the one after
it with a plausible bug; no specification uses it.  The `mutants` of
`PROJECT.json` pair each with the property that finds it.

### Connections

One TLA+ variable stands for one field of the program; `fdt`, `stream` and
`file` stand for the kernel's side.  `fdt` gives each descriptor number its
owner (a connection, the bans file, nobody), and `LowestFree` is POSIX's rule
for new numbers.  `object` is the heap object's state, so that a use after
`delete` can be told.  `mpc`, `pc`, `kpc` are the positions of the main, client
and console threads.

- *Main*: `Accept`, `Refuse`, `Construct`, `Register`, `Start`, `LogJoined` are
  the steps of one turn of `Server::run`, cut where another thread can come
  between: around each critical section, and after `start()`.  `AcceptEnds`,
  `DtorStop`, the loop, and `Join` are the end of `main`.
- *Client thread*: `HandshakeOk`, `Enter`, the loop, `GiveUp` (any failure of
  the handshake or end of the loop), `RemoveEntry` and `DeleteClient`, which
  holds the mutex between the two.  A rename is `NickRequest` (the ban check),
  `NickTaken` or `AssignBegin`, and `AssignEnd`: while it lasts another thread
  may read the old name, the new one, or a mixture that is neither.
  `ReadForeign` is a thread whose descriptor was closed under it and names
  another connection by now: it takes that connection's bytes.  `encKey` is the
  connection whose other end has the thread's key, as a handshake may be made
  over such a number too; frames of that connection are read (`Readable`) as
  long as they arrive whole, those still buffered when its peer closes included.
- *Console*: a command that walks the map is `BeginScan`, then one
  `VisitMiss` or `VisitHit` per entry in the order of the keys, then `VisitEnd`;
  the mutex is held throughout, and client threads run meanwhile.  `SaveOpen`
  and `SaveClose` are the constructor and destructor of the `std::ofstream` in
  `saveBans`: the text is buffered and reaches the descriptor in the destructor.
  `unban` and `unbanip` save under the mutex, `ban` and `ipban` after it.

Left out here: who is in which room, the texts, `list` and `query`, the
listening socket's own number, and the process's other files.  A send never
blocks (see fairness, and `LockOrder`).  The bytes a thread sends on a number it
no longer owns are the receiver's problem and not followed.

### SendPath and FrameLog

All senders to one client, each in `sendPacket`: encrypt with the counter,
increment it (a load and a store), lock, send HMAC, length and body, unlock.
`Log == INSTANCE FrameLog` maps the bodies on the wire to the abstract log:
the step that completes a frame is the abstract `Send`, all others stutter.  The
receiver decrypts its n-th frame with counter n (`readFrame` does, and a client
must).

### Keepalive

What the client sends is a sequence of items: the length of its key, the key,
the `HandshakePacket`, then frames.  `Offer`, `ReadLength`, `ReadKey`,
`ReadVersion` and `HandshakeFails` are `Client::handshake`: the two plain reads
fail on an item that has come in part (`recv` returns less than asked for), the
third is `readFrame` and waits for the rest.  A length of 0 is one the code
accepts, and no key is read after it.  In the loop `Drop`, `Ask`, `GoOn`
are the tests at the top of a turn, `PollReports`, `PollTimesOut` and
`PollInterrupted` the outcomes of `poll`, `ReadFrame` and `ReadFails` those of
`readFrame`.  The `break` after an error of `poll` other than EINTR is left out:
for one descriptor none is defined.  Time
passes in ticks while the thread waits.  The client program is external and
comes in three kinds: it follows the protocol, answers each keepalive in time
and its items arrive whole; the same, but they arrive in pieces; or it does as
it likes, or nothing.

### Packets and Frames

A packet is the sequence of its fields and a layout names their kinds, so that
`Serialize` and `Deserialize` go through a layout field by field (`ReadFields`
is a recursive function that stops at the first field that fails); each kind
has its reading and writing rule with the code's bounds.  Types that differ only in
names share a rule; `chat` is read with another layout than it is written with.
In `Frames` one end sends two packets (`Send` is `sendPacket` with the keystream
of `DiffieHellman.cpp`), the network delivers any number of bytes at a time
(`Recv`) or ends, and the other end is `readFrame` part by part, then
`Packet::create` and `deserialize` (`Unpack`).  Both ends run this code with one
key; the digests of the keystream and the exclusive or of two bytes
(`DigestByte`, `ByteXor`) are constants: of the first only that they are bytes is
assumed, of the second that it undoes itself.  An HMAC names the bytes it was
made of, so that two frames have one HMAC only if they are the same.  A frame's
length is the four bytes of `htonl`.  As nobody alters bytes on the way, the branch
of `BodyRead` for a wrong HMAC is not reached; `Other` stands for a sender of
any bytes under the right key.

### Rooms and RoomCast

A thread uses a room in two steps, as in the code: `GetRoom` looks it up under
`Server::mutex` and yields a reference (`stage`), and the room's method takes
the room's mutex.  `After` lists the thirteen-odd places in `Client::run` and
`processPacket` that do so and where each leads.  A broadcast holds the room's
mutex from `CastBegins` to `CastEnds`; direct messages and queries hold
`Server::mutex`.  A rename is the check (`NickFree` or `Taken`) and later
`Assign`; while the string is being assigned others may read either value or
neither.  A connection is accepted while the server runs (`Accept`) and may be
registered after `Stop` (`Connect`).  A join is the check, the leave notice, `Quit`, `Move` and the arrival
notice, each with its own lookup.  `Stop` destroys the rooms; a thread that held
a reference goes on with memory that is gone (`UseStale`): it may end the
process, or find any answer.  Clients keep their descriptors here.

`Cast == INSTANCE RoomCast` maps a client's place to the room that lists it and
its pending broadcasts to those under way that have yet to come to it.
`CastBegins` is the abstract `Broadcast` at once to everyone, `CastTo` the
abstract `Send`, `Add`, `Move`, `Quit` and `Delete` are `Enter` and `Leave`; all
else stutters.

### LockOrder

An operation is reduced to the locks it takes, in the code's order, and the
clients it sends to: `own` (an answer), `direct` (a message, kick, ban or stop
under `Server::mutex`), `cast`, `look` (any other use of a room), `leave`
(`removeClient`: room's mutex inside the server's) and `brief`.  A send takes
the client's `sendMutex`, then waits while the socket is full.  Whom an
operation sends to is left open, so every order of members is covered.

### BanStore

The sets, the file, and `saveBans` as a truncation followed by writes that end
anywhere: `Write` adds whole lines and perhaps the beginning of the next one,
which `loadBans` would read as another name (`Cuts`).  A write may fail
unnoticed, the process may end at any step, and the operator may edit the file
while it is down.  Its only actor is the console.

## 3. The runs

All finish in under three minutes with two workers.  Passing:

| Run | Instance | Shows |
|---|---|---|
| `bans` | 2 connections, 2 descriptors, 1 address, renames to a default nickname, `ban`, `ipban`, `unban`, `unbanip` | `TypeOK`, `NoUseAfterFree`, `ListedUnlessForced`, `BanCatches`, `DescriptorsOwned`, `SaveComplete` |
| `kick` | 2 connections, 2 descriptors, kick by fd and by nickname, fair threads | `RegistryInv`, `ServedListed`, `EraseOwnEntry`, `DisconnectedIsRemoved`, `StopEnds` |
| `send` | 2 senders of 3 packets each | `TypeOK`, `FramesWhole`, `DecryptsUnlessOverlapped`, `SendsInOrder` (refines `FrameLog`) |
| `keepalive` | interval 6, wait 4, poll 2 ticks, 2 unread items, three kinds of client, fair thread | `TypeOK`, `SilentDropped`, `AnsweringKept`, `PiecesKept`, `ClosedIsLeft` |
| `packets` | 2 strings, 5 numbers, lists up to 2 and of 16 to 18, images up to one byte over the limit, a frame limit of 22 bytes; all byte sequences of length up to 6 over three bytes | `RoundTrip`, `Exact`, `FramesRead` |
| `rooms` | 2 clients, 2 rooms, their two default nicknames | `TypeOK`, `MembershipAgrees`, `TargetsLive`, `NamesUnique`, `OneOrder` (refines `RoomCast`) |
| `locks` | 2 clients, 1 room, the console, sockets of 1 packet, fair threads | `TypeOK`, `ChainsEnd`, `OperationsEnd` |
| `banstore` | 2 nicknames and 2 addresses, one of each the beginning of the other | `TypeOK`, `Durable`, `NothingRevived` |

`stop` is part of every run of `Connections` and of `rooms`.

`DescriptorsOwned`, `ListedUnlessForced`, `EraseOwnEntry` and `SaveComplete`
speak of descriptor numbers that no `disconnectClient` has closed (`Forced`).
That is what they are for: they say that the early close is the *only* way
descriptors are confused, entries lost and saves spoilt.  `RegistryInv`,
`NoUseAfterFree` and `ServedListed` hold with it too, which is less obvious:
entries are erased under the wrong key, but never so that a deleted client is
left in the map, and a client that has lost its entry to a stranger's removal
has lost its connection too before the lock is free: nobody is served whom a
command cannot reach.

Violations, each of a line of the documentation or a comment (quoted under
`findings`):

| Run | Says | What happens |
|---|---|---|
| `kick_others` | `README.md` 29 | a kicked client's `~Client` closes the connection that was accepted on its number: another client is cut off |
| `bans_file` | `README.md` 48 | `~Client` closes the number that `saveBans` has just opened; the file stays empty |
| `banned_nick` | `README.md` 30, `Server.cpp` 272 | a ban between the check of a nickname and its assignment finds nobody; default nicknames are not checked |
| `stuck` | `README.md` 29 | a command sends under `Server::mutex` and waits for ever for a client that does not read |

Two more are the exceptions of properties that pass: `BanCatches` allows for the
one connection that has passed `isIpBanned` and is not registered yet, and
escapes an `ipban`; `DecryptsUnlessOverlapped` speaks only of calls that do not
overlap before the lock, as others may leave in another order than their
counters or share one, and do not decrypt.  So does `NamesUnique`, of names that
were checked while nobody else was between check and use; without that two
members of a room can bear one name.

Bounds, and why they are enough.  What goes wrong in `Connections` needs a
number closed under its client and one other user of it: a second connection or
the bans file.  Two descriptors and two connections give both, next to each
other and in either order; with both numbers free again a third owner is a
repetition of the second.  A connection is used once, so a run has as many
accepts as connections; commands are not bounded.  Two senders and three packets
each let a frame of one fall before, between and after those of the other.  The
keepalive times keep the code's proportions roughly (30 s, 10 s, 1 s) with
`Wait` a multiple of `Poll`; `SilentDropped` fails if `Limit` is one tick less,
so the instance reaches its edge, and the proof covers all times.  Its exception
for a frame begun is needed: such a frame holds the thread past any deadline.
In `rooms` two clients suffice for every pair that a property speaks of, each
may take the other's default nickname, be in either room, send, be sent to and
leave, and requests are not bounded.  In `locks` the longest chain the code
allows (a thread that leaves, one that broadcasts, one that sends) has three
links: two clients' threads and the console make it with one room, and the proof
covers any number.  Two frames are enough for the counters and the boundary
between frames to matter.  Symmetry is used on connections only, and in safety
runs only; descriptors are numbers and not symmetric.

Deadlock is checked everywhere but in `packets`, whose behaviours end when all
is read.  `Exited`, `Done` and `Left` stand for a process, a sender and a
thread that have ended.

### Fairness

`FairSpec` asks that a thread which can take a step takes it, and that a thread
waiting for `Server::mutex` gets it if it is free again and again: strong
fairness for a lock that other threads hold briefly and that a console at human
pace does not monopolise.  No client need connect, send or close, and no command
need be typed.  Two things are taken for granted.  A send under the mutex
returns; what happens when it does not is `LockOrder`.
And a thread whose connection is shut down leaves: `poll` and `recv` return at
once while the number names the connection or a plain file, and a number that
names nothing gives POLLNVAL until the keepalive timeout.  This is not assumed
for a number that names another connection, nor for a connection that is not
down, and `DisconnectedIsRemoved` excepts exactly the first.

`LockOrder` asks the same of its threads (`FairThreads`, strong because locks
and full sockets are enabled and disabled by others), and for `OperationsEnd`
that client programs go on reading (`WF` of `Read`).  `CommandsEnd` is checked
without the latter: nothing makes a client read, and no timeout ends a send.
`Keepalive` asks that the thread does not stop where it can go on; nothing is
asked of the client, and `ClosedIsLeft` needs nothing of time.

## 4. The proofs

`ConnectionsProofs` proves nine theorems of `Spec` for any sets of clients,
descriptors, addresses and nicknames, any saved bans and any set of commands,
from `ConstantsAssumption` alone (the sets have the right types and the model
values for threads, the bans file and "none" are not clients or descriptors):
`TypeCorrect`, `RegistryCorrect`, `LoopsAreSafe`, `DescriptorsCorrect`,
`ListedCorrect`, `ServedCorrect`, `BanCorrect`, `EraseCorrect`, `SaveCorrect`.  Each is the
property of the same runs.

No property is inductive alone.  `IInv` has ten layers, each shown preserved
by every step (one lemma each) from those it needs:

1. `TypeOK`;
2. `LifeInv`: an object is live from `new` until its own thread deletes it,
   first in the main thread's hands, then in its own; without it a reused number
   could be registered for a dead object;
3. `LockInv`: the loops, and the moment between erase and delete, hold the mutex;
4. `ScanInv`: what a loop has yet to visit is in the map, and of what it has
   visited everyone it seeks is disconnected;
5. `RegistryInv`: entries are live and filed under their own number.  It rests
   on layers 2 and 3: a client erases whatever its number keys before it is
   deleted, so the entry that could dangle is gone, at a stranger's expense
   if need be;
6. `DescriptorsOwned`: a number that was never forced names its user's file;
7. `ListedInv`: `ListedUnlessForced`, extended to the client just registered;
8. `EscapeInv`: `BanCatches`, weakened while an `ipban` of that address walks;
9. `ClosedInv`: what the loop of `stop` has visited names no connection, and
   none is accepted any more, so that clearing the map forgets nobody;
10. `ServedInv`: `ServedListed`, extended to the client just registered, and
   weakened while some client with the same number is between its erase and its
   close.

`IInv` was checked as an invariant by TLC on the instances above before it was
proved.  The two action properties follow from `IInv` and one step.

`SendPathProofs` proves `TypeOK`, `FramesWhole` and `DecryptsUnlessOverlapped`
for any number of senders and packets.  `LockInv` ties the lock to the place in
the frame: its holder, and nobody else, is between two pieces, and the wire ends
with the pieces it has sent.  `CountInv`, as long as no calls have overlapped,
says that at most one thread is before the lock and that the counter is the
number of frames sent, in hand and counted but not begun.  One lemma shows what
a single `send` does to all of this.  `RefinesFrameLog` proves that `SendPath`
implements `FrameLog` (`SendsInOrder`), overlapping calls included.  `SeqInv` is
what it needs beyond `LockInv`: the whole frames of a thread on the wire are as
many as the calls it has returned from, so the frame that a thread completes is
the next of its own.  `InitLog` and `NextLog` map
the initial state, and each step to `Send` or to a stutter.

`KeepaliveProofs` proves `TypeOK`, `SilentDropped`, `AnsweringKept` and the
action property `PiecesKept` for any three times.  `TimeInv` bounds each timer in
each position by what one poll can add; `ItemsInv` says that what a proper
client has sent and not been read is what the thread reads next, so that nothing
it sends is refused; `AckInv` that its acknowledgement is on its way or not yet
late.

`LockOrderProofs` proves `ChainsEnd` for any number of clients, rooms and other
threads: a thread that waits for a lock holds only locks of an earlier rank
(server, room, client), so each link of a chain goes one rank down.

`BanStoreProofs` proves `Durable` and `NothingRevived` for any bans and any way
in which a line may be cut.

`RoomsProofs` proves `MembershipAgrees`, `TargetsLive` and `NamesUnique` for any
clients, rooms and nicknames.  `Shape` places each reference and each room mutex
in the positions that use them.  `TargetsInv` says who excludes whom: whoever
deletes a client, or sends to one found in the map, holds `Server::mutex`;
whoever broadcasts holds its room's, and has yet to send only to members.
`CleanInv` is what makes the nicknames inductive: if nobody else was claiming a
client's name when it was checked, then until the client publishes it every
bearer of that name in the room is unsure of it, and every other claimant has
seen the claim.  With two overlapping checks neither half could be kept, which is
the race of `isNicknameTaken`.

`RefinesRoomCast` proves that `Rooms` implements `RoomCast` (`OneOrder`) from the
same invariant.  The step that matters is `OneUnderway`: since a broadcast holds
its room's mutex to the end and goes to members only, at most one is under way to
a client, so what is pending to it never has an order to get wrong, and a client
leaves its room only when nothing is.

`PacketsProofs` proves what the codec computes, for any strings without NUL, any
16-bit numbers, any lists and any image contents.  `PayloadBack`: a packet of any
type within the receiver's limits comes back as it was, one over them is refused,
and so is a chat message with its sender.  The case that needs thought is a
system message with more than 255 parameters, whose number is cut to a byte and
may look small enough: then some parameters are left over (`TooManyParams`).
`AcceptedExactly`: whatever bytes `deserialize` accepts are, but for the flag of
a system message, what `serialize` makes of the result.  `Holds` says at which
offset a field's bytes are; each kind of field is read back from where its bytes
are (`ReadFieldBack`) and what is read was there (`ReadFieldExact`).  The reads
are recursive functions, and the provers have no induction rule that they can
instantiate; `SetInduction` states induction of a *set* of numbers, which is
first-order, and is proved from the library's theorem on minimal elements of
well-founded relations.  With it each function is unfolded once
(`ReadStringsDef`, `FlattenDef`, `ReadFieldsDef`, `PacketsOfDef`) and described
by what it does at the last field (`ReadFieldsAppend` and the like).

`FramesProofs` proves `RoundTrip`, `Exact` and `FramesRead` for the same packets,
any bytes of another sender, any lengths of an HMAC and a digest, any limit that a
32-bit length can state, and any way in which the bytes are cut.  `FrameInv` is
the inductive invariant.  Its heart is `Stands`: what `readFrame` has of the
current part, followed by what is on its way, is how the rest of the sent frames
begins, and all of it until the connection ends.  So a part that has all its
bytes is the sender's (`PartRead`): the HMAC is that of the frame that follows,
the length is within the limit unless the first packet is over it, the counters
agree, and what is made of the frame is what `PayloadBack` says.  Frames of other
senders, of any bytes, are the other disjunct, and `AcceptedExactly` says what
becomes of them.

Each module's constants are constrained only by its named assumption.

Only model-checked: `DisconnectedIsRemoved`, `StopEnds`, `ClosedIsLeft` and
`OperationsEnd`, as liveness under fairness is beyond the prover.

## 5. Not modelled

- Logger, command parsing and texts, socket setup: output and plumbing.
- `list` and `query client`: they only read, under the mutex.
- OpenSSL's arithmetic and digests: external.  That a message to a client in its
  handshake is encrypted with a key that is not set yet follows from the order of
  `Server.cpp` 83-88 and `Client.cpp` 78 and is a hazard without a property.
- Memory: what is leaked, and the growth of `Server::rooms`.
- Data races on a string or a vector are choices between the values a read may
  return; that such a read may also crash is said where the model stops short.
- What another client makes of bytes sent on a number that has changed hands.

## 6. Plan

Done, in this order: `Connections` and its proofs, `SendPath`, `Keepalive`,
`Packets`; then `Rooms`, `LockOrder`, `BanStore`, the handshake in `Keepalive`,
`Frames`, and the proofs of five modules; then the refinements of `FrameLog` and
`RoomCast`, and the proofs of the codec and of the frames.  What is left:

1. `Frames` with any number of packets instead of two: `FrameInv` speaks of the
   two frames by name, and would speak of a sequence of them.
2. `SendPath` from before the handshake's key, composed with descriptors that
   change hands between two pieces of a frame.
