----------------------------- MODULE SendPath ------------------------------
(***************************************************************************)
(* Client::sendPacket for one client.  The client's own thread answers it, *)
(* threads of other clients broadcast and send it direct messages, and the *)
(* console kicks it: all of them call sendPacket on the same object.       *)
(*                                                                         *)
(* A packet is encrypted with the keystream of sendCounter and the counter *)
(* is incremented before sendMutex is taken, so both happen unprotected;   *)
(* only the three sends of a frame are under the lock.  sendCounter++ is   *)
(* not atomic: another thread's may come between its load and its store.   *)
(*                                                                         *)
(* The receiver counts the frames it reads (Client::readFrame does, and a  *)
(* client program must do the same): the n-th frame, from 0, decrypts if   *)
(* it was encrypted with counter n.                                        *)
(***************************************************************************)
EXTENDS Naturals, Sequences

CONSTANTS
  Sender,       \* threads that send to this client
  MaxPackets,   \* bound: packets each of them sends
  None

ASSUME SendAssumption == None \notin Sender /\ MaxPackets \in Nat

VARIABLES
  sendCounter,
  sendMutex,    \* its holder, or None
  wire,         \* pieces given to send(), in order
  spc,          \* where each thread is in sendPacket
  seq,          \* packets the thread has called sendPacket for
  used,         \* counter its current packet was encrypted with
  loaded,       \* value that sendCounter++ has read
  overlapped    \* history: a call began while another was before the lock

vars == <<sendCounter, sendMutex, wire, spc, seq, used, loaded, overlapped>>

Parts == <<"hmac", "length", "body">>

\* Where a call handles the counter: nothing protects it.
Unlocked == {"encrypt", "load", "store", "lock"}

Piece == [part : {"hmac", "length", "body"}, sender : Sender,
          seq : 1..MaxPackets, counter : Nat]

TypeOK ==
  /\ sendCounter \in Nat
  /\ sendMutex \in Sender \cup {None}
  /\ wire \in Seq(Piece)
  /\ spc \in [Sender -> Unlocked \cup {"idle", "hmac", "length", "body"}]
  /\ seq \in [Sender -> 0..MaxPackets]
  /\ used \in [Sender -> Nat]
  /\ loaded \in [Sender -> Nat]
  /\ overlapped \in BOOLEAN
  /\ \A s \in Sender : spc[s] \in {"hmac", "length", "body"} => sendMutex = s

Init ==
  /\ sendCounter = 0
  /\ sendMutex = None
  /\ wire = <<>>
  /\ spc = [s \in Sender |-> "idle"]
  /\ seq = [s \in Sender |-> 0]
  /\ used = [s \in Sender |-> 0]
  /\ loaded = [s \in Sender |-> 0]
  /\ overlapped = FALSE

\* The packet is serialized, in memory of the thread's own.
Call(s) ==
  /\ spc[s] = "idle" /\ seq[s] < MaxPackets
  /\ seq' = [seq EXCEPT ![s] = @ + 1]
  /\ spc' = [spc EXCEPT ![s] = "encrypt"]
  /\ overlapped' = (overlapped \/ \E t \in Sender : spc[t] \in Unlocked)
  /\ UNCHANGED <<sendCounter, sendMutex, wire, used, loaded>>

\* DH::xorCrypt with the counter as it is now.
Encrypt(s) ==
  /\ spc[s] = "encrypt"
  /\ used' = [used EXCEPT ![s] = sendCounter]
  /\ spc' = [spc EXCEPT ![s] = "load"]
  /\ UNCHANGED <<sendCounter, sendMutex, wire, seq, loaded, overlapped>>

\* sendCounter++: a load ...
Load(s) ==
  /\ spc[s] = "load"
  /\ loaded' = [loaded EXCEPT ![s] = sendCounter]
  /\ spc' = [spc EXCEPT ![s] = "store"]
  /\ UNCHANGED <<sendCounter, sendMutex, wire, seq, used, overlapped>>

\* Mutant: the counter is not incremented.
StoreSame(s) ==
  /\ spc[s] = "store"
  /\ sendCounter' = loaded[s]
  /\ spc' = [spc EXCEPT ![s] = "lock"]
  /\ UNCHANGED <<sendMutex, wire, seq, used, loaded, overlapped>>

\* ... and a store.
Store(s) ==
  /\ spc[s] = "store"
  /\ sendCounter' = loaded[s] + 1
  /\ spc' = [spc EXCEPT ![s] = "lock"]
  /\ UNCHANGED <<sendMutex, wire, seq, used, loaded, overlapped>>

\* Mutant: the frame is sent without the lock.
LockNothing(s) ==
  /\ spc[s] = "lock"
  /\ spc' = [spc EXCEPT ![s] = "hmac"]
  /\ UNCHANGED <<sendCounter, sendMutex, wire, seq, used, loaded, overlapped>>

Lock(s) ==
  /\ spc[s] = "lock" /\ sendMutex = None
  /\ sendMutex' = s
  /\ spc' = [spc EXCEPT ![s] = "hmac"]
  /\ UNCHANGED <<sendCounter, wire, seq, used, loaded, overlapped>>

\* One send(): the socket takes the piece whole, in order.
SendPiece(s, part) ==
  /\ spc[s] = part
  /\ wire' = Append(wire, [part |-> part, sender |-> s, seq |-> seq[s],
                           counter |-> used[s]])

SendHmac(s) ==
  /\ SendPiece(s, "hmac")
  /\ spc' = [spc EXCEPT ![s] = "length"]
  /\ UNCHANGED <<sendCounter, sendMutex, seq, used, loaded, overlapped>>

\* Mutant: the lock is given up between length and ciphertext.
SendLengthUnlocks(s) ==
  /\ SendPiece(s, "length")
  /\ sendMutex' = None
  /\ spc' = [spc EXCEPT ![s] = "body"]
  /\ UNCHANGED <<sendCounter, seq, used, loaded, overlapped>>

SendLength(s) ==
  /\ SendPiece(s, "length")
  /\ spc' = [spc EXCEPT ![s] = "body"]
  /\ UNCHANGED <<sendCounter, sendMutex, seq, used, loaded, overlapped>>

\* Mutant: the last send is tried again when it may have succeeded.
SendBodyRetries(s) ==
  /\ SendPiece(s, "body")
  /\ \/ sendMutex' = None /\ spc' = [spc EXCEPT ![s] = "idle"]
     \/ spc' = [spc EXCEPT ![s] = "hmac"] /\ UNCHANGED sendMutex
  /\ UNCHANGED <<sendCounter, seq, used, loaded, overlapped>>

\* The last send, then the lock is released and sendPacket returns.
SendBody(s) ==
  /\ SendPiece(s, "body")
  /\ sendMutex' = None
  /\ spc' = [spc EXCEPT ![s] = "idle"]
  /\ UNCHANGED <<sendCounter, seq, used, loaded, overlapped>>

\* Everyone has sent all the bound allows.
Done == /\ \A s \in Sender : spc[s] = "idle" /\ seq[s] = MaxPackets
        /\ UNCHANGED vars

Next == \/ \E s \in Sender : \/ Call(s) \/ Encrypt(s) \/ Load(s) \/ Store(s)
                             \/ Lock(s)
                             \/ SendHmac(s) \/ SendLength(s) \/ SendBody(s)
        \/ Done

Spec == Init /\ [][Next]_vars

-----------------------------------------------------------------------------
(* Properties *)

\* The stream is a sequence of whole frames with at most the last one
\* unfinished: no thread's piece comes between the pieces of another's
\* frame, however the calls interleave.  (Client.cpp:179-182)
FramesWhole ==
  \A i \in 1..Len(wire) :
    LET first == i - ((i - 1) % 3) IN
      wire[i] = [wire[first] EXCEPT !.part = Parts[(i - first) + 1]]

\* The frames on the wire, by the piece that completes them.
Frames == [n \in 1..(Len(wire) \div 3) |-> wire[3 * n]]

\* Packets of each thread leave in the order it sent them, each once.
Log == INSTANCE FrameLog
         WITH log <- [n \in DOMAIN Frames |-> [sender |-> Frames[n].sender,
                                               seq |-> Frames[n].seq]]

SendsInOrder == Log!Spec

\* As long as no call begins while another is on its way to the lock, every
\* frame decrypts: it was encrypted with the number of frames before it,
\* across all the threads.  (Client.cpp:169-171)
DecryptsUnlessOverlapped ==
  ~overlapped => \A n \in DOMAIN Frames : Frames[n].counter = n - 1

=============================================================================
