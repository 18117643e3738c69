----------------------------- MODULE Keepalive -----------------------------
(***************************************************************************)
(* What a client's thread makes of what arrives, and when: the handshake   *)
(* (Client::handshake), then the loop of Client::run with its timers.      *)
(*                                                                         *)
(* The handshake reads the length of the client's public key and the key   *)
(* with one recv each, and then one frame that must be a HandshakePacket   *)
(* of this version.  Nothing limits how long it waits.  In the loop a      *)
(* client from which nothing is read for KEEPALIVE_INTERVAL_SEC is sent    *)
(* PKT_KEEPALIVE, and one that does not answer with PKT_KEEPALIVE_ACK      *)
(* within KEEPALIVE_WAIT_SEC is dropped.  Both timers are looked at once   *)
(* per turn.  A turn waits in poll for at most POLL_TIMEOUT_MS, but once   *)
(* poll reports the first byte of a frame readFrame waits for all of it.   *)
(*                                                                         *)
(* What the client sends is a sequence of items: the length, the key, then *)
(* frames.  Time passes in ticks while the thread waits; what it does      *)
(* between two waits takes no time.                                        *)
(***************************************************************************)
EXTENDS Naturals, Sequences

CONSTANTS
  Interval, Wait, Poll,  \* the three times, in ticks
  Peers,                 \* kinds of client program: see Peer below
  MaxUnread              \* bound: items waiting in the socket

ASSUME KeepaliveAssumption ==
  /\ {Interval, Wait, Poll} \subseteq Nat \ {0}
  /\ Peers \subseteq {"whole", "pieces", "any"}
  /\ MaxUnread \in Nat \ {0}

VARIABLES
  pc,            \* offer, length, key, version: the handshake;
                 \* check, poll, read (in readFrame): the loop; left
  waitingForAck,
  idle,          \* ticks since lastRecvTime
  sinceSent,     \* ticks since lastKeepAliveSent
  polled,        \* ticks in this poll
  why,           \* why the thread left
  unread,        \* whole items that have arrived
  partial,       \* the first bytes of another item have arrived
  eof,           \* the client has closed
  peer,          \* kind of client program
  due,           \* the item it sends next
  owed,          \* a PKT_KEEPALIVE it has yet to answer
  quiet          \* history: ticks since a byte last arrived

timers == <<waitingForAck, idle, sinceSent>>
stream == <<unread, partial, eof>>
socket == <<stream, peer, due, owed>>
vars   == <<pc, timers, polled, why, socket, quiet>>

\* The longest a silent client may stay: both times, each noticed one poll
\* late.  Ticks are counted no further than one more.
Limit == Interval + Wait + 2 * Poll
Later(t) == IF t > Limit THEN t ELSE t + 1

\* "empty" is a length of 0, which no key follows; "hello" a HandshakePacket
\* of this version, "other" any packet the loop reads without effect on the
\* timers; "bad" is a length over 4096, or a frame of a wrong length or HMAC.
Items == {"length", "empty", "key", "hello", "ack", "other", "bad"}

Shaking == {"offer", "length", "key", "version"}

TypeOK ==
  /\ pc \in Shaking \cup {"check", "poll", "read", "left"}
  /\ waitingForAck \in BOOLEAN
  /\ idle \in 0..(Limit + 1) /\ sinceSent \in 0..(Limit + 1)
  /\ quiet \in 0..(Limit + 1)
  /\ polled \in 0..Poll
  /\ why \in {"none", "keepalive", "bad", "eof", "short", "version"}
  /\ (why = "none") = (pc # "left")
  /\ unread \in Seq(Items) /\ Len(unread) <= MaxUnread
  /\ partial \in BOOLEAN /\ eof \in BOOLEAN /\ owed \in BOOLEAN
  /\ peer \in Peers /\ due \in {"length", "key", "hello", "frame"}

Init ==
  /\ pc = "offer"
  /\ waitingForAck = FALSE /\ idle = 0 /\ sinceSent = 0
  /\ polled = 0
  /\ why = "none"
  /\ unread = <<>> /\ partial = FALSE /\ eof = FALSE
  /\ peer \in Peers /\ due = "length" /\ owed = FALSE
  /\ quiet = 0

-----------------------------------------------------------------------------
(* The handshake *)

Goto(p)       == pc' = p /\ UNCHANGED why
Leave(reason) == pc' = "left" /\ why' = reason
Take          == unread' = Tail(unread) /\ UNCHANGED <<partial, eof>>

Has(items) == unread # <<>> /\ Head(unread) \in items

\* The server's key goes out; the two sends may fail once the client has
\* closed.
Offer ==
  /\ pc = "offer"
  /\ Goto("length") \/ (eof /\ Leave("eof"))
  /\ UNCHANGED <<timers, polled, socket, quiet>>

\* The recv of a key of no bytes takes nothing.  Where such a recv waits for
\* something to read, so does the next one.
ReadLength ==
  /\ pc = "length" /\ Has({"length", "empty"})
  /\ Goto(IF Head(unread) = "empty" THEN "version" ELSE "key") /\ Take
  /\ UNCHANGED <<timers, polled, peer, due, owed, quiet>>

ReadKey ==
  /\ pc = "key" /\ unread # <<>>
  /\ Goto("version") /\ Take
  /\ UNCHANGED <<timers, polled, peer, due, owed, quiet>>

ReadVersion ==
  /\ pc = "version" /\ Has({"hello"})
  /\ Goto("check") /\ Take
  /\ UNCHANGED <<timers, polled, peer, due, owed, quiet>>

\* A length over 4096; a recv that returns less than it was asked for; a
\* bad frame, another packet or another version; the end of the stream.
HandshakeFails ==
  /\ \/ pc \in {"length", "version"} /\ Has({"bad"}) /\ Leave("bad")
     \/ pc \in {"length", "key"} /\ unread = <<>> /\ partial /\ Leave("short")
     \/ pc = "version" /\ Has(Items \ {"hello", "bad"}) /\ Leave("version")
     \/ pc \in Shaking \ {"offer"} /\ unread = <<>> /\ eof /\ Leave("eof")
  /\ UNCHANGED <<timers, polled, socket, quiet>>

-----------------------------------------------------------------------------
(* The loop *)

\* The acknowledgement is late.
TimedOut == waitingForAck /\ sinceSent > Wait

\* Mutant: the warning is logged and the loop goes on.
DropWarnsOnly ==
  /\ pc = "check" /\ TimedOut
  /\ pc' = "poll" /\ polled' = 0 /\ why' = "keepalive"
  /\ UNCHANGED <<timers, socket, quiet>>

\* The loop ends.
Drop ==
  /\ pc = "check" /\ TimedOut
  /\ Leave("keepalive")
  /\ UNCHANGED <<timers, polled, socket, quiet>>

EnterPoll == Goto("poll") /\ polled' = 0

\* Mutant: waitingForAck is not set.
AskForgets ==
  /\ pc = "check" /\ ~waitingForAck /\ idle > Interval
  /\ sinceSent' = 0
  /\ owed' = TRUE
  /\ EnterPoll
  /\ UNCHANGED <<waitingForAck, idle, stream, peer, due, quiet>>

\* Nothing for too long: PKT_KEEPALIVE, then poll.
Ask ==
  /\ pc = "check" /\ ~waitingForAck /\ idle > Interval
  /\ waitingForAck' = TRUE /\ sinceSent' = 0
  /\ owed' = TRUE
  /\ EnterPoll
  /\ UNCHANGED <<idle, stream, peer, due, quiet>>

\* Neither: poll.
GoOn ==
  /\ pc = "check" /\ ~TimedOut
  /\ waitingForAck \/ idle <= Interval
  /\ EnterPoll
  /\ UNCHANGED <<timers, socket, quiet>>

Readable == unread # <<>> \/ partial \/ eof

PollReports ==
  /\ pc = "poll" /\ Readable
  /\ Goto("read")
  /\ UNCHANGED <<timers, polled, socket, quiet>>

PollTimesOut ==
  /\ pc = "poll" /\ ~Readable /\ polled = Poll
  /\ Goto("check")
  /\ UNCHANGED <<timers, polled, socket, quiet>>

\* EINTR: the wait ends early and the loop goes on.  Nothing is readable then,
\* as poll looks at the descriptor first.  The program catches no signal now,
\* and of one pollfd poll reports no other error.
PollInterrupted ==
  /\ pc = "poll" /\ ~Readable
  /\ Goto("check")
  /\ UNCHANGED <<timers, polled, socket, quiet>>

\* Mutant: only traffic that answers counts as life, the flag stays.
ReadFrameKeepsFlag ==
  /\ pc = "read" /\ unread # <<>> /\ Head(unread) # "bad"
  /\ idle' = 0
  /\ Goto("check") /\ Take
  /\ UNCHANGED <<waitingForAck, sinceSent, polled, peer, due, owed, quiet>>

\* readFrame has a whole frame: it is processed, the timer starts again.
ReadFrame ==
  /\ pc = "read" /\ unread # <<>> /\ Head(unread) # "bad"
  /\ waitingForAck' = (waitingForAck /\ Head(unread) # "ack")
  /\ idle' = 0
  /\ Goto("check") /\ Take
  /\ UNCHANGED <<sinceSent, polled, peer, due, owed, quiet>>

\* Mutant: recv is called once, and must return the whole frame.
ReadFailsShort ==
  /\ pc = "read"
  /\ \/ Has({"bad"}) /\ Leave("bad")
     \/ unread = <<>> /\ (partial \/ eof) /\ Leave("eof")
  /\ UNCHANGED <<timers, polled, socket, quiet>>

\* Mutant: a recv that returns 0 is tried again.
ReadFailsNotAtEnd ==
  /\ pc = "read"
  /\ \/ Has({"bad"}) /\ Leave("bad")
     \/ unread = <<>> /\ eof /\ Goto("read")
  /\ UNCHANGED <<timers, polled, socket, quiet>>

\* Its length or HMAC is wrong, or the stream ends before a whole frame.
ReadFails ==
  /\ pc = "read"
  /\ \/ Has({"bad"}) /\ Leave("bad")
     \/ unread = <<>> /\ eof /\ Leave("eof")
  /\ UNCHANGED <<timers, polled, socket, quiet>>

\* The thread waits: in poll until it reports or times out, in recv until
\* there are bytes, or until the frame is whole.
Waiting ==
  \/ pc = "poll" /\ ~Readable /\ polled < Poll
  \/ pc \in {"length", "key"} /\ ~Readable
  \/ pc \in {"version", "read"} /\ unread = <<>> /\ ~eof

-----------------------------------------------------------------------------
(* The client program, external.  One kind follows the protocol, answers   *)
(* each PKT_KEEPALIVE within Wait, and sends its items whole; another does *)
(* the same, but the network may cut its items in pieces.  The last may do *)
(* as it likes, or nothing.                                                *)

Proper == peer \in {"whole", "pieces"}

IfImproper(kinds) == IF Proper THEN {} ELSE kinds

MaySend == CASE due = "length" -> {"length"} \cup IfImproper({"empty", "bad"})
             [] due = "key"    -> {"key"}
             [] due = "hello"  -> {"hello"} \cup IfImproper({"other", "bad"})
             [] due = "frame"  -> {"ack", "other"} \cup IfImproper({"bad"})

NextDue(kind) == IF due = "length" /\ kind # "empty" THEN "key"
                 ELSE IF due \in {"length", "key"} THEN "hello" ELSE "frame"

Arrives == quiet' = 0 /\ UNCHANGED <<pc, timers, polled, why, peer>>

\* An item is there, with its first bytes or after them.
PeerSends(kind) ==
  /\ ~eof /\ Len(unread) < MaxUnread
  /\ kind \in MaySend
  /\ unread' = Append(unread, kind) /\ partial' = FALSE
  /\ due' = NextDue(kind)
  /\ owed' = (owed /\ kind # "ack")
  /\ UNCHANGED eof
  /\ Arrives

PeerStarts ==
  /\ peer # "whole" /\ ~eof /\ ~partial
  /\ partial' = TRUE
  /\ UNCHANGED <<unread, eof, due, owed>>
  /\ Arrives

PeerCloses ==
  /\ ~eof
  /\ eof' = TRUE
  /\ UNCHANGED <<unread, partial, due, owed>>
  /\ Arrives

\* A proper client answers before Wait has passed.
Overdue == Proper /\ owed /\ ~eof /\ sinceSent >= Wait

Tick ==
  /\ Waiting /\ ~Overdue
  /\ idle' = Later(idle) /\ sinceSent' = Later(sinceSent)
  /\ quiet' = Later(quiet)
  /\ polled' = IF pc = "poll" THEN polled + 1 ELSE polled
  /\ UNCHANGED <<pc, waitingForAck, why, socket>>

Left == pc = "left" /\ UNCHANGED vars

Thread == \/ Offer \/ ReadLength \/ ReadKey \/ ReadVersion \/ HandshakeFails
          \/ Drop \/ Ask \/ GoOn
          \/ PollReports \/ PollTimesOut \/ PollInterrupted
          \/ ReadFrame \/ ReadFails

PeerNext == \/ \E kind \in Items : PeerSends(kind)
            \/ PeerStarts \/ PeerCloses

Next == Thread \/ (pc # "left" /\ PeerNext) \/ Tick \/ Left

Spec == Init /\ [][Next]_vars

\* The thread does not stand still while it can go on.
FairSpec == Spec /\ WF_vars(Thread)

-----------------------------------------------------------------------------
(* Properties *)

\* A client from which nothing has come for both times, each noticed up to
\* a poll late, is no longer served, unless a frame it began holds the
\* thread in readFrame.  The handshake has no such limit.
\* (Client.cpp:211-235)
SilentDropped == quiet > Limit /\ ~partial => pc \in Shaking \cup {"left"}

\* A client that follows the protocol and answers each PKT_KEEPALIVE within
\* KEEPALIVE_WAIT_SEC is never dropped, however long its handshake took,
\* however late in the wait the answer comes and whatever is queued before
\* it.  (Client.cpp:44-114, 216-229, 274-277)
AnsweringKept == peer = "whole" => why \in {"none", "eof"}

\* Nor is it when its bytes come in pieces, until it closes, but for the two
\* reads of the handshake that take what one recv returns.
\* (Client.cpp:65-72, 123-148)
ShortInHandshake == pc \in {"length", "key"} /\ unread = <<>> /\ partial

PiecesKept ==
  [][peer = "pieces" /\ pc' = "left" =>
       eof \/ ShortInHandshake \/ pc = "left"]_vars

\* Once a client has closed, its thread comes to its end from wherever it
\* is: in the handshake, within a frame, waiting for an acknowledgement.
\* (Client.cpp:65-72, 127-147, 249-252)
ClosedIsLeft == eof ~> pc = "left"

=============================================================================
