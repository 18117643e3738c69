------------------------------ MODULE Packets ------------------------------
(***************************************************************************)
(* The codec of Packet.cpp: how each packet is laid out in bytes, what     *)
(* deserialize accepts, and what it makes of it.  A packet is its fields   *)
(* in the order of their serialization; a layout names their kinds.        *)
(***************************************************************************)
EXTENDS Naturals, Sequences, FiniteSets, FiniteSetsExt, SequencesExt

CONSTANTS
  Strings,      \* strings the server puts in packets: no NUL in them
  Numbers,      \* 16-bit numbers
  StringLists,  \* lists of rooms, of users, and of a system message's parameters
  Images,       \* image contents
  MaxImage      \* MAX_IMAGE_DATA_SIZE

ASSUME PacketsAssumption ==
  /\ Strings \subseteq Seq(1..255) /\ StringLists \subseteq Seq(Strings)
  /\ Numbers \subseteq 0..(256 * 256 - 1)
  /\ Images \subseteq Seq(0..255) /\ MaxImage \in Nat

MaxParams == 16

\* Packets of control and membership.
SmallPackets ==
  [handshake     |-> <<"number">>,
   keepalive     |-> <<>>,
   keepalive_ack |-> <<>>,
   nick_request  |-> <<"string">>,
   nick_ack      |-> <<"string">>,
   nick_notify   |-> <<"string", "string">>,
   join_request  |-> <<"string">>,
   join_ack      |-> <<"string">>,
   join_notify   |-> <<"string">>,
   leave_notify  |-> <<"string">>,
   room_list     |-> <<"strings">>,
   user_list     |-> <<"strings">>]

\* Packets that carry content.
ContentPackets ==
  [chat       |-> <<"string", "string">>,
   system     |-> <<"flag", "number", "params">>,
   disconnect |-> <<>>,
   kick       |-> <<"string">>,
   ban        |-> <<"string">>,
   dm_request |-> <<"string", "string">>,
   dm         |-> <<"string", "string">>,
   image      |-> <<"string", "string", "string", "string", "data">>]

\* serialize writes these fields ...
WriteLayout ==
  [t \in DOMAIN SmallPackets \cup DOMAIN ContentPackets |->
     IF t \in DOMAIN SmallPackets THEN SmallPackets[t] ELSE ContentPackets[t]]

\* ... and deserialize reads the same, but for a chat message: the server
\* sends sender and text, and receives the text alone.
ReadLayout == [WriteLayout EXCEPT !.chat = <<"string">>]

Types == DOMAIN WriteLayout

\* The first byte of a packet says which it is.
Code ==
  [handshake |-> 1, keepalive |-> 2, keepalive_ack |-> 3,
   nick_request |-> 16, nick_ack |-> 17, nick_notify |-> 18,
   join_request |-> 19, join_ack |-> 20, join_notify |-> 21,
   leave_notify |-> 22, room_list |-> 23, user_list |-> 24,
   chat |-> 32, system |-> 33, dm_request |-> 34, dm |-> 35, image |-> 36,
   disconnect |-> 48, kick |-> 49, ban |-> 50]

\* Packet::create: the types a first byte stands for, one or none.
Create(byte) == {t \in Types : Code[t] = byte}

-----------------------------------------------------------------------------
(* Serialization *)

\* serializeString
StringBytes(s) == Append(s, 0)

StringsBytes(ss) == FlattenSeq([i \in DOMAIN ss |-> StringBytes(ss[i])])

FieldBytes(kind, v) ==
  CASE kind = "number"  -> <<(v \div 256) % 256, v % 256>>
    [] kind = "flag"    -> <<IF v THEN 1 ELSE 0>>
    [] kind = "string"  -> StringBytes(v)
    [] kind = "strings" -> StringsBytes(v)
    [] kind = "params"  -> <<Len(v) % 256>> \o StringsBytes(v)
    [] kind = "data"    -> v

Serialize(type, fields) ==
  LET layout == WriteLayout[type] IN
    FlattenSeq([i \in DOMAIN layout |-> FieldBytes(layout[i], fields[i])])

-----------------------------------------------------------------------------
(* Deserialization: a read from offset off either fails or gives a value   *)
(* and the offset after it.                                                *)

Fail == [ok |-> FALSE]
Got(v, off) == [ok |-> TRUE, value |-> v, off |-> off]

\* Mutant: the offset stays at the NUL.
ReadStringAtNul(data, off) ==
  LET nuls == {i \in (off + 1)..Len(data) : data[i] = 0} IN
    IF nuls = {} THEN Fail
    ELSE Got(SubSeq(data, off + 1, Min(nuls) - 1), Min(nuls) - 1)

\* deserializeString: up to the first NUL, and past it.
ReadString(data, off) ==
  LET nuls == {i \in (off + 1)..Len(data) : data[i] = 0} IN
    IF nuls = {} THEN Fail
    ELSE Got(SubSeq(data, off + 1, Min(nuls) - 1), Min(nuls))

\* After what r has read, one more: f.
Then(r, f) == IF f.ok THEN Got(Append(r.value, f.value), f.off) ELSE Fail

\* n strings, one after the other.
ReadStrings(data, off, n) ==
  LET read[k \in 0..n] ==
        IF k = 0 THEN Got(<<>>, off)
        ELSE LET r == read[k - 1] IN
               IF r.ok THEN Then(r, ReadString(data, r.off)) ELSE Fail
  IN  read[n]

ReadField(kind, data, off) ==
  LET left == Len(data) - off IN
  CASE kind = "number" ->
         IF left < 2 THEN Fail
         ELSE Got(256 * data[off + 1] + data[off + 2], off + 2)
    [] kind = "flag" ->
         IF left < 1 THEN Fail ELSE Got(data[off + 1] # 0, off + 1)
    [] kind = "string" -> ReadString(data, off)
    [] kind = "strings" ->
         ReadStrings(data, off,
                     Cardinality({i \in (off + 1)..Len(data) : data[i] = 0}))
    [] kind = "params" ->
         IF left < 1 \/ data[off + 1] > MaxParams THEN Fail
         ELSE ReadStrings(data, off + 1, data[off + 1])
    [] kind = "data" ->
         IF left > MaxImage THEN Fail
         ELSE Got(SubSeq(data, off + 1, Len(data)), Len(data))

\* The fields of a layout, one after the other.
ReadFields(layout, data) ==
  LET read[k \in 0..Len(layout)] ==
        IF k = 0 THEN Got(<<>>, 0)
        ELSE LET r == read[k - 1] IN
               IF r.ok THEN Then(r, ReadField(layout[k], data, r.off)) ELSE Fail
  IN  read[Len(layout)]

\* Mutant: bytes after the last field are ignored.
DeserializeLoosely(type, data) == ReadFields(ReadLayout[type], data)

\* All the fields of the layout, and not a byte more.
Deserialize(type, data) ==
  LET r == ReadFields(ReadLayout[type], data) IN
    IF r.ok /\ r.off = Len(data) THEN r ELSE Fail

\* What sendPacket encrypts, and what run makes of it: a packet, or nothing
\* if the type is unknown or the fields are not as they should be.
Payload(type, fields) == <<Code[type]>> \o Serialize(type, fields)

Unpack(plain) ==
  IF Create(plain[1]) = {} THEN Fail
  ELSE LET type == CHOOSE t \in Create(plain[1]) : TRUE
           r == Deserialize(type, Tail(plain))
       IN  IF r.ok THEN [ok |-> TRUE, type |-> type, value |-> r.value]
                   ELSE Fail

-----------------------------------------------------------------------------
(* The packets of a type, and those within the receiver's limits. *)

Values(kind) ==
  CASE kind = "number"  -> Numbers
    [] kind = "flag"    -> BOOLEAN
    [] kind = "string"  -> Strings
    [] kind = "strings" -> StringLists
    [] kind = "params"  -> StringLists
    [] kind = "data"    -> Images

\* With one field more.
Extended(packets, kind) ==
  UNION {{Append(p, v) : v \in Values(kind)} : p \in packets}

PacketsOf(t) ==
  LET layout == WriteLayout[t]
      packets[k \in 0..Len(layout)] ==
        IF k = 0 THEN {<<>>} ELSE Extended(packets[k - 1], layout[k])
  IN  packets[Len(layout)]

Fits(t, p) == /\ t = "system" => Len(p[3]) <= MaxParams
              /\ t = "image" => Len(p[5]) <= MaxImage

=============================================================================
