------------------------------- MODULE Frames ------------------------------
(***************************************************************************)
(* A connection from one end to the other: Client::sendPacket makes frames *)
(* of packets, the network delivers their bytes in pieces of any size or   *)
(* ends before all are there, and Client::readFrame and Client::run make   *)
(* packets of them again.  Both ends are taken to run this code with one   *)
(* key.  How frames of several threads come to follow each other whole is  *)
(* the concern of SendPath.                                                *)
(*                                                                         *)
(* An HMAC is its bytes, each named by what it is the HMAC of.             *)
(***************************************************************************)
EXTENDS Packets

CONSTANTS
  HmacLen, BlockLen,    \* length of an HMAC, and of a digest of SHA-256
  MaxPacket,            \* MAX_PACKET_SIZE
  DigestByte(_, _, _),  \* of a counter's chain of digests: which, what byte
  ByteXor(_, _),        \* of two bytes
  Byte, MaxBytes        \* any other bytes a frame may have held, and their number

ASSUME FramesAssumption ==
  /\ HmacLen \in Nat \ {0} /\ BlockLen \in Nat \ {0}
  /\ MaxPacket \in Nat \ {0} /\ ((MaxPacket \div 256) \div 256) \div 256 < 256
  /\ \A counter \in 0..1, block \in 0..MaxPacket, i \in 0..(BlockLen - 1) :
       DigestByte(counter, block, i) \in 0..255
  /\ \A a, b \in 0..255 : ByteXor(a, b) \in 0..255 /\ ByteXor(ByteXor(a, b), b) = a
  /\ Byte \subseteq 0..255 /\ MaxBytes \in Nat

VARIABLES
  type, sent,     \* the first packet, or the type and bytes that arrive
  toSend,         \* payloads yet to be sent
  sendCounter, recvCounter,
  stream,         \* bytes sent and not read
  eof,            \* no more will come
  part, got,      \* what readFrame is reading, and has of it
  hmac, msgLen,   \* what it has read of this frame before
  result,         \* what run has made of the frames
  dropped         \* readFrame has failed

frame == <<part, got, hmac, msgLen>>
vars  == <<type, sent, toSend, sendCounter, recvCounter, stream, eof, frame,
           result, dropped>>

\* The packet that follows the first.
Second == [ok |-> TRUE, type |-> "keepalive_ack", value |-> <<>>]

Init ==
  /\ type \in Types
  /\ \/ /\ sent \in PacketsOf(type)
        /\ toSend = <<Payload(type, sent), Payload(Second.type, Second.value)>>
     \/ /\ sent \in BoundedSeq(Byte, MaxBytes)
        /\ toSend = <<>>
  /\ result = <<>>
  /\ sendCounter = 0 /\ recvCounter = 0
  /\ stream = <<>> /\ eof = FALSE
  /\ part = "hmac" /\ got = <<>> /\ hmac = <<>> /\ msgLen = 0
  /\ dropped = FALSE

-----------------------------------------------------------------------------
(* The cipher and the frame *)

\* DH::deriveKeystream: a digest of the counter, then each digest's own.
Keystream(len, counter) ==
  [i \in 1..len |-> DigestByte(counter, (i - 1) \div BlockLen,
                               (i - 1) % BlockLen)]

XorCrypt(data, counter) ==
  LET keystream == Keystream(Len(data), counter) IN
    [i \in DOMAIN data |-> ByteXor(data[i], keystream[i])]

Hmac(data) == [i \in 1..HmacLen |-> <<data, i>>]

\* htonl and ntohl of a length of 32 bits
NetLen(n) == <<(((n \div 256) \div 256) \div 256) % 256,
               ((n \div 256) \div 256) % 256, (n \div 256) % 256, n % 256>>
HostLen(data) == 256 * (256 * (256 * data[1] + data[2]) + data[3]) + data[4]

\* sendPacket
Send ==
  /\ toSend # <<>>
  /\ LET cipher == XorCrypt(Head(toSend), sendCounter) IN
       stream' = stream \o Hmac(cipher) \o NetLen(Len(cipher)) \o cipher
  /\ sendCounter' = sendCounter + 1
  /\ toSend' = Tail(toSend)
  /\ UNCHANGED <<type, sent, recvCounter, eof, frame, result, dropped>>

-----------------------------------------------------------------------------
(* readFrame *)

Wanted == (CASE part = "hmac"   -> HmacLen
             [] part = "length" -> 4
             [] part = "body"   -> msgLen) - Len(got)

\* One recv: any number of the bytes that are there, up to those wanted.
Recv(n) ==
  /\ ~dropped
  /\ n <= Wanted
  /\ got' = got \o SubSeq(stream, 1, n)
  /\ stream' = SubSeq(stream, n + 1, Len(stream))
  /\ UNCHANGED <<type, sent, toSend, sendCounter, recvCounter, eof, part,
                 hmac, msgLen, result, dropped>>

HmacRead ==
  /\ part = "hmac" /\ Wanted = 0 /\ ~dropped
  /\ hmac' = got
  /\ part' = "length" /\ got' = <<>>
  /\ UNCHANGED <<type, sent, toSend, sendCounter, recvCounter, stream, eof,
                 msgLen, result, dropped>>

LengthRead ==
  /\ part = "length" /\ Wanted = 0 /\ ~dropped
  /\ IF HostLen(got) \in 1..MaxPacket
       THEN msgLen' = HostLen(got) /\ part' = "body" /\ got' = <<>>
            /\ UNCHANGED dropped
       ELSE dropped' = TRUE /\ UNCHANGED <<msgLen, part, got>>
  /\ UNCHANGED <<type, sent, toSend, sendCounter, recvCounter, stream, eof,
                 hmac, result>>

\* Mutant: the counter stays.
BodyReadSameCounter ==
  /\ part = "body" /\ Wanted = 0 /\ ~dropped
  /\ hmac = Hmac(got)
  /\ result' = Append(result, Unpack(XorCrypt(got, recvCounter)))
  /\ part' = "hmac" /\ got' = <<>>
  /\ UNCHANGED <<type, sent, toSend, sendCounter, recvCounter, stream, eof,
                 hmac, msgLen, dropped>>

\* The HMAC is compared, the frame decrypted, and run makes a packet of it.
BodyRead ==
  /\ part = "body" /\ Wanted = 0 /\ ~dropped
  /\ IF hmac = Hmac(got)
       THEN /\ result' = Append(result, Unpack(XorCrypt(got, recvCounter)))
            /\ recvCounter' = recvCounter + 1
            /\ part' = "hmac" /\ got' = <<>>
            /\ UNCHANGED dropped
       ELSE dropped' = TRUE /\ UNCHANGED <<result, recvCounter, part, got>>
  /\ UNCHANGED <<type, sent, toSend, sendCounter, stream, eof, hmac, msgLen>>

\* recv returns 0.
EndOfStream ==
  /\ eof /\ stream = <<>> /\ Wanted > 0 /\ ~dropped
  /\ dropped' = TRUE
  /\ UNCHANGED <<type, sent, toSend, sendCounter, recvCounter, stream, eof,
                 frame, result>>

\* The connection ends; only the first n bytes on their way come through.
Ends(n) ==
  /\ ~eof /\ toSend = <<>> /\ sendCounter > 0
  /\ eof' = TRUE
  /\ stream' = SubSeq(stream, 1, n)
  /\ UNCHANGED <<type, sent, toSend, sendCounter, recvCounter, frame, result,
                 dropped>>

ReadFrame == \/ \E n \in 1..Len(stream) : Recv(n)
             \/ HmacRead \/ LengthRead \/ BodyRead \/ EndOfStream

\* Some other sender's frame, read whole: its fields may be any bytes.
Other ==
  /\ sendCounter = 0 /\ toSend = <<>> /\ result = <<>>
  /\ result' = <<Unpack(<<Code[type]>> \o sent)>>
  /\ UNCHANGED <<type, sent, toSend, sendCounter, recvCounter, stream, eof,
                 frame, dropped>>

Next == Send \/ Other \/ ReadFrame \/ (\E n \in 0..Len(stream) : Ends(n))

Spec == Init /\ [][Next]_vars

-----------------------------------------------------------------------------
(* Properties *)

\* A packet comes back as it was, whatever strings are empty and wherever a
\* number's bytes or an image's contents are zero; one over a limit, or a
\* chat message with its sender, is refused.  (Packet.cpp:64-322)
RoundTrip ==
  sendCounter > 0 /\ result # <<>> =>
    IF Fits(type, sent) /\ type # "chat"
      THEN result[1] = [ok |-> TRUE, type |-> type, value |-> sent]
      ELSE ~result[1].ok

\* Bytes that are accepted are the serialization of what was made of them:
\* nothing in them was skipped, read twice or left over.  The flag of a
\* system message alone is normalised: any byte but 0 reads as 1.
\* (Packet.cpp:16-26, 64-322)
Normalised == IF type = "system" /\ sent[1] # 0
                THEN [sent EXCEPT ![1] = 1] ELSE sent

Exact ==
  sendCounter = 0 /\ result # <<>> /\ type # "chat" /\ result[1].ok =>
    Serialize(type, result[1].value) = Normalised

\* However the bytes of two frames are cut, both are read, in order and each
\* with its own counter, also if the packet in the first is refused; only a
\* frame over the limit ends the connection, and one that is cut off is not
\* read at all.  (Client.cpp:123-160, 170-182, 240-251)
TooLong  == Len(Payload(type, sent)) > MaxPacket
NoneLeft == toSend = <<>> /\ stream = <<>> /\ part = "hmac" /\ got = <<>>

FramesRead ==
  /\ dropped /\ ~eof => TooLong
  /\ sendCounter > 0 /\ NoneLeft /\ ~eof => Len(result) = 2
  /\ Len(result) = 2 => result[2] = Second

=============================================================================
