---------------------------- MODULE FramesProofs ----------------------------
(***************************************************************************)
(* That a connection's frames come through: RoundTrip, Exact and           *)
(* FramesRead hold of Frames, for all packets and however their bytes are  *)
(* cut. FrameInv is the inductive invariant. Its heart is Stands: what     *)
(* readFrame has of a part, followed by what is on its way, is how the     *)
(* rest of the frames sent begins, and all of it while the connection      *)
(* lasts. From it follows that each part read whole is the sender's, that  *)
(* the counters agree, and, by the codec's theorems, that the packets do.  *)
(***************************************************************************)
EXTENDS Frames, PacketsProofs

\* A quotient and a remainder are no larger than what they are of.
LEMMA DivBound ==
  ASSUME NEW x \in Nat, NEW y \in Nat \ {0}
  PROVE  x \div y \in 0..x /\ x % y \in 0..(y - 1)
<1>1. x % y \in 0..(y - 1)
  OBVIOUS
<1>2. x \div y \in Nat
  OBVIOUS
<1>3. x \div y <= x
  OBVIOUS
<1> QED BY <1>1, <1>2, <1>3

\* The lengths are lengths.
LEMMA FramesConstants ==
  HmacLen \in Nat \ {0} /\ BlockLen \in Nat \ {0} /\ MaxPacket \in Nat \ {0}
<1>1. HmacLen \in Nat \ {0}
  BY FramesAssumption
<1>2. BlockLen \in Nat \ {0}
  BY FramesAssumption
<1>3. MaxPacket \in Nat \ {0}
  BY FramesAssumption
<1> QED BY <1>1, <1>2, <1>3

\* The keystream of a frame within the limit is bytes.
LEMMA KeystreamByte ==
  ASSUME NEW n \in Nat, n <= MaxPacket, NEW counter \in 0..1, NEW i \in 1..n
  PROVE  Keystream(n, counter)[i] \in Octets
<1>0. i - 1 \in Nat
  OBVIOUS
<1>1. i - 1 \in Nat /\ BlockLen \in Nat \ {0} /\ MaxPacket \in Nat
  BY <1>0, FramesConstants
<1> DEFINE q == (i - 1) \div BlockLen
           r == (i - 1) % BlockLen
<1>2. q \in 0..(i - 1) /\ r \in 0..(BlockLen - 1)
  BY <1>1, DivBound
<1>3. Keystream(n, counter)[i] = DigestByte(counter, q, r)
  BY DEF Keystream
<1> HIDE DEF q, r
<1>4. q \in 0..MaxPacket
  BY <1>1, <1>2
<1>5. DigestByte(counter, q, r) \in 0..255
  BY <1>2, <1>4, FramesAssumption
<1> QED BY <1>3, <1>5 DEF Octets

\* A byte is what it was once it has been changed twice.
LEMMA XorInverse ==
  ASSUME NEW a \in Octets, NEW b \in Octets
  PROVE  ByteXor(a, b) \in Octets /\ ByteXor(ByteXor(a, b), b) = a
BY FramesAssumption DEF Octets

\* XorCrypt, byte by byte.
LEMMA XorCryptOf ==
  ASSUME NEW data, NEW counter, Len(data) \in Nat, DOMAIN data = 1..Len(data)
  PROVE  /\ DOMAIN XorCrypt(data, counter) = 1..Len(data)
         /\ \A i \in 1..Len(data) :
              XorCrypt(data, counter)[i] = ByteXor(data[i], Keystream(Len(data), counter)[i])
BY DEF XorCrypt

\* It makes as many bytes as it is given.
LEMMA CipherType ==
  ASSUME NEW data \in Seq(Octets), NEW counter \in 0..1, Len(data) <= MaxPacket
  PROVE  XorCrypt(data, counter) \in Seq(Octets) /\ Len(XorCrypt(data, counter)) = Len(data)
<1> DEFINE n == Len(data)
           c == XorCrypt(data, counter)
           key == Keystream(n, counter)
<1>1. n \in Nat /\ DOMAIN data = 1..n /\ \A i \in 1..n : data[i] \in Octets
  OBVIOUS
<1>2. \A i \in 1..n : key[i] \in Octets
  <2> HIDE DEF n
  <2> QED BY <1>1, KeystreamByte DEF n
<1>3. c = [i \in 1..n |-> ByteXor(data[i], key[i])]
  BY <1>1 DEF XorCrypt
<1> HIDE DEF n, c, key
<1>4. \A i \in 1..n : ByteXor(data[i], key[i]) \in Octets
  BY <1>1, <1>2, XorInverse
<1>5. c \in Seq(Octets) /\ Len(c) = n
  BY <1>1, <1>3, <1>4
<1> QED BY <1>5 DEF c, n

\* What is encrypted is decrypted with the same counter.
\* (DiffieHellman.cpp: xorCrypt)
LEMMA Decrypted ==
  ASSUME NEW data \in Seq(Octets), NEW counter \in 0..1, Len(data) <= MaxPacket
  PROVE  XorCrypt(XorCrypt(data, counter), counter) = data
<1> DEFINE n == Len(data)
           c == XorCrypt(data, counter)
           d == XorCrypt(c, counter)
           key == Keystream(n, counter)
<1>1. n \in Nat /\ DOMAIN data = 1..n /\ \A i \in 1..n : data[i] \in Octets
  OBVIOUS
<1>2. \A i \in 1..n : key[i] \in Octets
  <2> HIDE DEF n
  <2> QED BY <1>1, KeystreamByte DEF n
<1>3. c \in Seq(Octets) /\ Len(c) = n
  BY CipherType
<1>4. \A i \in 1..n : c[i] = ByteXor(data[i], key[i])
  BY <1>1, XorCryptOf
<1> HIDE DEF c
<1>5. DOMAIN c = 1..n /\ Len(c) <= MaxPacket
  BY <1>3
<1>6. d \in Seq(Octets) /\ Len(d) = n
  BY <1>3, <1>5, CipherType
<1>7. \A i \in 1..n : d[i] = ByteXor(c[i], key[i])
  BY <1>1, <1>3, <1>5, XorCryptOf
<1> HIDE DEF d, key
<1>8. \A i \in 1..n : d[i] = data[i]
  <2> SUFFICES ASSUME NEW i \in 1..n PROVE d[i] = data[i]
    OBVIOUS
  <2>1. data[i] \in Octets /\ key[i] \in Octets
    BY <1>1, <1>2
  <2>2. d[i] = ByteXor(ByteXor(data[i], key[i]), key[i])
    BY <1>4, <1>7
  <2> QED BY <2>1, <2>2, XorInverse
<1>9. d = data
  BY <1>6, <1>8, SeqEqual
<1> QED BY <1>9 DEF d, c

\* What is less has the smaller quotient.
LEMMA DivLess ==
  ASSUME NEW a \in Nat, NEW b \in Nat, a <= b
  PROVE  a \div 256 \in Nat /\ b \div 256 \in Nat /\ a \div 256 <= b \div 256
OBVIOUS

\* ntohl gives the length that htonl was given.
LEMMA LengthBack ==
  ASSUME NEW n \in Nat, n <= MaxPacket
  PROVE  HostLen(NetLen(n)) = n
<1> DEFINE q1 == n \div 256
           q2 == q1 \div 256
           q3 == q2 \div 256
           m1 == MaxPacket \div 256
           m2 == m1 \div 256
           m3 == m2 \div 256
<1>1. MaxPacket \in Nat /\ m3 < 256
  BY FramesAssumption
<1>2. q1 \in Nat /\ m1 \in Nat /\ q1 <= m1
  BY <1>1, DivLess
<1>a. n % 256 = n - 256 * q1
  BY DivMod
<1> HIDE DEF q1, m1
<1>3. q2 \in Nat /\ m2 \in Nat /\ q2 <= m2
  BY <1>2, DivLess
<1>b. q1 % 256 = q1 - 256 * q2
  BY <1>2, DivMod
<1> HIDE DEF q2, m2
<1>4. q3 \in Nat /\ m3 \in Nat /\ q3 <= m3
  BY <1>3, DivLess
<1>c. q2 % 256 = q2 - 256 * q3
  BY <1>3, DivMod
<1> HIDE DEF q3, m3
<1>5. q3 % 256 = q3
  BY <1>1, <1>4
<1> DEFINE w == NetLen(n)
<1>6. w = <<q3 % 256, q2 % 256, q1 % 256, n % 256>>
  BY DEF NetLen, q1, q2, q3
<1> HIDE DEF w
<1>7. w[1] = q3 /\ w[2] = q2 - 256 * q3 /\ w[3] = q1 - 256 * q2 /\ w[4] = n - 256 * q1
  BY <1>5, <1>6, <1>a, <1>b, <1>c
<1>8. 256 * (256 * (256 * w[1] + w[2]) + w[3]) + w[4] = n
  BY <1>2, <1>3, <1>4, <1>7
<1> QED BY <1>8 DEF HostLen, w

-----------------------------------------------------------------------------


\* All that may be on the wire: bytes, an encrypted byte, and those of an HMAC.
Encrypted == {ByteXor(q[1], DigestByte(q[2], q[3], q[4])) : q \in Octets \X Nat \X Nat \X Nat}

\* Beyond the limit the model says nothing of a digest's bytes: the proofs
\* need no more than what this set holds.
Signs == Octets \cup Encrypted \cup (Seq(Encrypted) \X Nat)

\* What is encrypted is as long as it was.
LEMMA EncryptedType ==
  ASSUME NEW data \in Seq(Octets), NEW counter \in Nat
  PROVE  XorCrypt(data, counter) \in Seq(Encrypted) /\ Len(XorCrypt(data, counter)) = Len(data)
<1> DEFINE n == Len(data)
           c == XorCrypt(data, counter)
           key == Keystream(n, counter)
<1>1. n \in Nat /\ DOMAIN data = 1..n /\ \A i \in 1..n : data[i] \in Octets
  OBVIOUS
<1>2. c = [i \in 1..n |-> ByteXor(data[i], key[i])]
  BY <1>1 DEF XorCrypt
<1>3. BlockLen \in Nat \ {0}
  BY FramesConstants
<1>4. ASSUME NEW i \in 1..n PROVE ByteXor(data[i], key[i]) \in Encrypted
  <2> DEFINE block == (i - 1) \div BlockLen
             r == (i - 1) % BlockLen
  <2>1. key[i] = DigestByte(counter, block, r)
    BY DEF Keystream
  <2>2. block \in Nat /\ r \in Nat
    <3>1. i - 1 \in Nat
      OBVIOUS
    <3>2. block \in 0..(i - 1) /\ r \in 0..(BlockLen - 1)
      BY <1>3, <3>1, DivBound
    <3> HIDE DEF block, r
    <3> QED BY <1>3, <3>1, <3>2
  <2>3. data[i] \in Octets
    BY <1>1
  <2> HIDE DEF block, r, key, n
  <2> DEFINE q == <<data[i], counter, block, r>>
  <2>4. q \in Octets \X Nat \X Nat \X Nat
    BY <2>2, <2>3
  <2>5. ByteXor(data[i], key[i]) = ByteXor(q[1], DigestByte(q[2], q[3], q[4]))
    BY <2>1
  <2> HIDE DEF q
  <2> QED BY <2>4, <2>5, Zenon DEF Encrypted
<1> HIDE DEF n, key, c
<1>5. c \in Seq(Encrypted) /\ Len(c) = n
  BY <1>1, <1>2, <1>4
<1> QED BY <1>5 DEF c, n

\* An HMAC is HmacLen signs.
LEMMA HmacType ==
  ASSUME NEW c \in Seq(Encrypted)
  PROVE  Hmac(c) \in Seq(Signs) /\ Len(Hmac(c)) = HmacLen /\ c \in Seq(Signs)
<1>1. HmacLen \in Nat
  BY FramesConstants
<1>2. \A i \in 1..HmacLen : <<c, i>> \in Signs
  BY DEF Signs
<1>3. c \in Seq(Signs)
  <2>1. Encrypted \subseteq Signs
    BY DEF Signs
  <2> QED BY <2>1, SeqMonotonic
<1> QED BY <1>1, <1>2, <1>3 DEF Hmac

\* No two frames have one HMAC.
LEMMA HmacInjective ==
  ASSUME NEW a, NEW b, Hmac(a) = Hmac(b)
  PROVE  a = b
<1>1. 1 \in 1..HmacLen
  BY FramesConstants
<1>2. Hmac(a)[1] = <<a, 1>> /\ Hmac(b)[1] = <<b, 1>>
  BY <1>1 DEF Hmac
<1>3. <<a, 1>> = <<b, 1>>
  BY <1>2
<1> QED BY <1>3

\* A length is four.
LEMMA NetLenType ==
  ASSUME NEW n \in Nat
  PROVE  NetLen(n) \in Seq(Signs) /\ Len(NetLen(n)) = 4
<1> DEFINE q1 == n \div 256
           q2 == q1 \div 256
           q3 == q2 \div 256
<1>1. n % 256 \in Octets /\ q1 \in Nat
  BY DivMod
<1> HIDE DEF q1
<1>2. q1 % 256 \in Octets /\ q2 \in Nat
  BY <1>1, DivMod
<1> HIDE DEF q2
<1>3. q2 % 256 \in Octets /\ q3 \in Nat
  BY <1>2, DivMod
<1> HIDE DEF q3
<1>4. q3 % 256 \in Octets
  BY <1>3, DivMod
<1> DEFINE b1 == q3 % 256
           b2 == q2 % 256
           b3 == q1 % 256
           b4 == n % 256
<1>5. NetLen(n) = <<b1, b2, b3, b4>>
  BY DEF NetLen, q1, q2, q3
<1>6. b1 \in Signs /\ b2 \in Signs /\ b3 \in Signs /\ b4 \in Signs
  BY <1>1, <1>2, <1>3, <1>4 DEF Signs
<1> HIDE DEF b1, b2, b3, b4
<1>7. <<b1, b2, b3, b4>> \in Seq(Signs) /\ Len(<<b1, b2, b3, b4>>) = 4
  BY <1>6
<1> QED BY <1>5, <1>7

-----------------------------------------------------------------------------

\* What has been read of rest, and what is on its way, is how it begins; all
\* of it, unless the connection has ended.
Stands(rest, g, s, ended) ==
  /\ g \in Seq(Signs) /\ s \in Seq(Signs)
  /\ Holds(rest, 0, g) /\ Holds(rest, Len(g), s)
  /\ ~ended => Len(g) + Len(s) = Len(rest)

\* To have bytes is to have the first n of them.
LEMMA HoldsPart ==
  ASSUME NEW S, NEW data \in Seq(S), NEW off \in Nat, NEW s \in Seq(S), Holds(data, off, s),
         NEW n \in 0..Len(s)
  PROVE  Holds(data, off, SubSeq(s, 1, n))
<1> DEFINE h == SubSeq(s, 1, n)
<1>1. Len(h) = n /\ \A i \in 1..n : h[i] = s[i]
  OBVIOUS
<1>2. Len(s) \in Nat /\ Len(data) \in Nat /\ n \in Nat /\ n <= Len(s)
  OBVIOUS
<1>3. off + Len(s) <= Len(data) /\ \A i \in 1..Len(s) : data[off + i] = s[i]
  BY DEF Holds
<1> HIDE DEF h
<1>4. off + Len(h) <= Len(data)
  BY <1>1, <1>2, <1>3
<1>5. ASSUME NEW i \in 1..Len(h) PROVE data[off + i] = h[i]
  <2>1. i \in 1..Len(s) /\ h[i] = s[i]
    BY <1>1, <1>2
  <2> QED BY <1>3, <2>1
<1>6. Holds(data, off, h)
  BY <1>4, <1>5 DEF Holds
<1> QED BY <1>6 DEF h

\* What is had is had also when more comes after it.
LEMMA HoldsLonger ==
  ASSUME NEW S, NEW data \in Seq(S), NEW more \in Seq(S), NEW off \in Nat, NEW s \in Seq(S),
         Holds(data, off, s)
  PROVE  Holds(data \o more, off, s)
<1> DEFINE d == data \o more
<1>1. /\ Len(d) = Len(data) + Len(more) /\ Len(data) \in Nat /\ Len(more) \in Nat
      /\ Len(s) \in Nat
      /\ \A i \in 1..Len(data) : d[i] = data[i]
  OBVIOUS
<1>2. off + Len(s) <= Len(data) /\ \A i \in 1..Len(s) : data[off + i] = s[i]
  BY DEF Holds
<1> HIDE DEF d
<1>3. ASSUME NEW i \in 1..Len(s) PROVE d[off + i] = s[i]
  <2>1. off + i \in 1..Len(data)
    BY <1>1, <1>2
  <2> QED BY <1>1, <1>2, <2>1
<1>4. off + Len(s) <= Len(d)
  BY <1>1, <1>2
<1> QED BY <1>3, <1>4 DEF Holds, d

\* What comes after data is had at its end.
LEMMA HoldsAfter ==
  ASSUME NEW S, NEW data \in Seq(S), NEW more \in Seq(S)
  PROVE  Holds(data \o more, Len(data), more)
<1> DEFINE d == data \o more
<1>1. /\ Len(d) = Len(data) + Len(more) /\ Len(data) \in Nat /\ Len(more) \in Nat
      /\ \A i \in 1..Len(more) : d[Len(data) + i] = more[i]
  OBVIOUS
<1> HIDE DEF d
<1> QED BY <1>1 DEF Holds, d

\* recv: what moves from the stream to got keeps its place.
LEMMA ReadOn ==
  ASSUME NEW rest \in Seq(Signs), NEW g, NEW s, NEW ended, Stands(rest, g, s, ended),
         NEW n \in 1..Len(s)
  PROVE  Stands(rest, g \o SubSeq(s, 1, n), SubSeq(s, n + 1, Len(s)), ended)
<1> DEFINE h == SubSeq(s, 1, n)
           t == SubSeq(s, n + 1, Len(s))
           g1 == g \o h
<1>1. /\ g \in Seq(Signs) /\ s \in Seq(Signs)
      /\ Holds(rest, 0, g) /\ Holds(rest, Len(g), s)
      /\ ~ended => Len(g) + Len(s) = Len(rest)
  BY DEF Stands
<1>2. Len(g) \in Nat /\ Len(s) \in Nat /\ Len(rest) \in Nat /\ n \in Nat /\ n <= Len(s)
  BY <1>1
<1>3. h \in Seq(Signs) /\ Len(h) = n /\ \A i \in 1..n : h[i] = s[i]
  BY <1>1, <1>2
<1>4. t \in Seq(Signs) /\ Len(t) = Len(s) - n /\ \A i \in 1..(Len(s) - n) : t[i] = s[n + i]
  BY <1>1, <1>2
<1> HIDE DEF h, t
<1>5. g1 \in Seq(Signs) /\ Len(g1) = Len(g) + n
  BY <1>1, <1>3
<1>6. Holds(rest, Len(g), h)
  <2>1. n \in 0..Len(s)
    BY <1>2
  <2> QED BY <1>1, <1>2, <2>1, HoldsPart DEF h
<1>7. Holds(rest, 0, g1)
  <2>1. Holds(rest, 0 + Len(g), h)
    BY <1>2, <1>6
  <2> QED BY <1>1, <1>3, <2>1, HoldsConcat
<1> HIDE DEF g1
<1>8. Holds(rest, Len(g1), t)
  <2>1. Len(g1) + Len(t) <= Len(rest)
    BY <1>1, <1>2, <1>4, <1>5 DEF Holds
  <2>2. ASSUME NEW i \in 1..Len(t) PROVE rest[Len(g1) + i] = t[i]
    <3>1. n + i \in 1..Len(s) /\ Len(g1) + i = Len(g) + (n + i) /\ t[i] = s[n + i]
      BY <1>2, <1>4, <1>5
    <3>2. rest[Len(g) + (n + i)] = s[n + i]
      BY <1>1, <3>1 DEF Holds
    <3> QED BY <3>1, <3>2
  <2> QED BY <2>1, <2>2 DEF Holds
<1>9. ~ended => Len(g1) + Len(t) = Len(rest)
  <2> SUFFICES ASSUME ~ended PROVE Len(g1) + Len(t) = Len(rest)
    OBVIOUS
  <2>1. Len(g) + Len(s) = Len(rest)
    BY <1>1
  <2>2. Len(t) = Len(s) - n /\ Len(g1) = Len(g) + n
    BY <1>4, <1>5
  <2> QED BY <1>2, <2>1, <2>2
<1>10. Stands(rest, g1, t, ended)
  BY <1>4, <1>5, <1>7, <1>8, <1>9 DEF Stands
<1> QED BY <1>10 DEF g1, h, t

\* When as many bytes as the next part has are in got, they are that part,
\* and what is on its way is how what follows it begins.
LEMMA PartRead ==
  ASSUME NEW a \in Seq(Signs), NEW b \in Seq(Signs), NEW g, NEW s, NEW ended,
         Stands(a \o b, g, s, ended), Len(g) = Len(a)
  PROVE  g = a /\ Stands(b, <<>>, s, ended)
<1> DEFINE rest == a \o b
<1>1. /\ g \in Seq(Signs) /\ s \in Seq(Signs)
      /\ Holds(rest, 0, g) /\ Holds(rest, Len(g), s)
      /\ ~ended => Len(g) + Len(s) = Len(rest)
  BY DEF Stands
<1>2. /\ Len(rest) = Len(a) + Len(b) /\ Len(a) \in Nat /\ Len(b) \in Nat
      /\ \A i \in 1..Len(a) : rest[i] = a[i]
      /\ \A i \in 1..Len(b) : rest[Len(a) + i] = b[i]
  OBVIOUS
<1> HIDE DEF rest
<1>3. g = a
  <2>1. \A i \in 1..Len(g) : g[i] = a[i]
    <3> SUFFICES ASSUME NEW i \in 1..Len(g) PROVE g[i] = a[i]
      OBVIOUS
    <3>1. rest[0 + i] = g[i] /\ 0 + i = i
      BY <1>1 DEF Holds
    <3> QED BY <1>2, <3>1
  <2> QED BY <1>1, <2>1, SeqEqual
<1>4. Len(s) \in Nat
  BY <1>1
<1>5. Holds(b, 0, s)
  <2>1. Len(a) + Len(s) <= Len(rest)
    BY <1>1 DEF Holds
  <2>2. 0 + Len(s) <= Len(b)
    BY <1>2, <1>4, <2>1
  <2>3. ASSUME NEW i \in 1..Len(s) PROVE b[0 + i] = s[i]
    <3>1. rest[Len(a) + i] = s[i]
      BY <1>1 DEF Holds
    <3>2. i \in 1..Len(b) /\ 0 + i = i
      BY <1>2, <1>4, <2>2
    <3> QED BY <1>2, <3>1, <3>2
  <2> QED BY <2>2, <2>3 DEF Holds
<1>6. <<>> \in Seq(Signs) /\ Len(<<>>) = 0
  OBVIOUS
<1>7. Holds(b, 0, <<>>)
  BY <1>2, <1>6 DEF Holds
<1>8. ~ended => 0 + Len(s) = Len(b)
  BY <1>1, <1>2, <1>4
<1>9. Stands(b, <<>>, s, ended)
  BY <1>1, <1>5, <1>6, <1>7, <1>8 DEF Stands
<1> QED BY <1>3, <1>9

\* sendPacket: a frame sent comes after all that was still to come.
LEMMA SentOn ==
  ASSUME NEW rest \in Seq(Signs), NEW f \in Seq(Signs), NEW g, NEW s, Stands(rest, g, s, FALSE)
  PROVE  Stands(rest \o f, g, s \o f, FALSE)
<1> DEFINE r1 == rest \o f
           s1 == s \o f
<1>1. /\ g \in Seq(Signs) /\ s \in Seq(Signs)
      /\ Holds(rest, 0, g) /\ Holds(rest, Len(g), s)
      /\ Len(g) + Len(s) = Len(rest)
  BY DEF Stands
<1>2. /\ r1 \in Seq(Signs) /\ s1 \in Seq(Signs)
      /\ Len(r1) = Len(rest) + Len(f) /\ Len(s1) = Len(s) + Len(f)
      /\ Len(rest) \in Nat /\ Len(f) \in Nat /\ Len(s) \in Nat /\ Len(g) \in Nat
  BY <1>1
<1>3. Holds(r1, 0, g)
  <2>1. 0 \in Nat
    OBVIOUS
  <2> QED BY <1>1, <2>1, HoldsLonger
<1>4. Holds(r1, Len(g), s)
  BY <1>1, <1>2, HoldsLonger
<1>5. Holds(r1, Len(g) + Len(s), f)
  BY <1>1, HoldsAfter
<1> HIDE DEF r1
<1>6. Holds(r1, Len(g), s1)
  BY <1>1, <1>2, <1>4, <1>5, HoldsConcat
<1> HIDE DEF s1
<1>a. Len(g) + Len(s1) = Len(r1)
  <2>1. Len(g) + Len(s) = Len(rest)
    BY <1>1
  <2>2. /\ Len(r1) = Len(rest) + Len(f) /\ Len(s1) = Len(s) + Len(f)
        /\ Len(rest) \in Nat /\ Len(f) \in Nat /\ Len(s) \in Nat /\ Len(g) \in Nat
    BY <1>2
  <2> DEFINE i == Len(g)
             j == Len(s)
             k == Len(rest)
             m == Len(f)
  <2>3. i \in Nat /\ j \in Nat /\ k \in Nat /\ m \in Nat /\ i + j = k
    BY <2>1, <2>2
  <2>4. Len(s1) = j + m /\ Len(r1) = k + m
    BY <2>2
  <2> HIDE DEF i, j, k, m
  <2>5. i + (j + m) = k + m
    BY <2>3
  <2>6. Len(g) = i
    BY DEF i
  <2> QED BY <2>4, <2>5, <2>6, Zenon
<1>7. Stands(r1, g, s1, FALSE)
  BY <1>1, <1>2, <1>3, <1>6, <1>a DEF Stands
<1> QED BY <1>7 DEF r1, s1

\* The end of the connection leaves the beginning of it.
LEMMA CutOff ==
  ASSUME NEW rest \in Seq(Signs), NEW g, NEW s, NEW ended, Stands(rest, g, s, ended),
         NEW n \in 0..Len(s)
  PROVE  Stands(rest, g, SubSeq(s, 1, n), TRUE)
<1> DEFINE h == SubSeq(s, 1, n)
<1>1. /\ g \in Seq(Signs) /\ s \in Seq(Signs)
      /\ Holds(rest, 0, g) /\ Holds(rest, Len(g), s)
  BY DEF Stands
<1>2. h \in Seq(Signs) /\ Len(h) = n /\ n <= Len(s) /\ \A i \in 1..n : h[i] = s[i]
  BY <1>1
<1> HIDE DEF h
<1>3. Len(g) \in Nat /\ Len(s) \in Nat /\ Len(rest) \in Nat /\ n \in Nat
  BY <1>1
<1>4. Holds(rest, Len(g), h)
  BY <1>1, <1>3, HoldsPart DEF h
<1> QED BY <1>1, <1>2, <1>4 DEF Stands, h

-----------------------------------------------------------------------------


\* What is sent second, and the k-th frame's plain and encrypted bytes, when
\* p is what is sent first.
SecondPayload == Payload(Second.type, Second.value)

\* The k-th frame's plain bytes when p is what is sent first, its
\* encrypted ones, and the frame.
PlainOf(k, p) == IF k = 1 THEN p ELSE SecondPayload
Cipher(k, p)  == XorCrypt(PlainOf(k, p), k - 1)
FrameOf(k, p) == LET c == Cipher(k, p) IN Hmac(c) \o (NetLen(Len(c)) \o c)

\* The frames after the r-th, up to the s-th.
Pending(r, s, p) == (IF r < 1 /\ 1 <= s THEN FrameOf(1, p) ELSE <<>>)
                      \o (IF r < 2 /\ 2 <= s THEN FrameOf(2, p) ELSE <<>>)

\* What is still to come when frame r + 1 has been read up to a part of it.
Rest(pt, r, s, p) ==
  LET c == Cipher(r + 1, p) IN
    IF pt = "hmac" THEN Pending(r, s, p)
    ELSE IF pt = "length" THEN NetLen(Len(c)) \o (c \o Pending(r + 1, s, p))
         ELSE c \o Pending(r + 1, s, p)

\* A payload: a code and the fields.
Payloads == {p \in Seq(Octets) : Len(p) >= 1}

\* Three sequences, one after the other.
LEMMA ConcatThree ==
  ASSUME NEW S, NEW a \in Seq(S), NEW b \in Seq(S), NEW c \in Seq(S)
  PROVE  (a \o b) \o c = a \o (b \o c)
OBVIOUS

\* A packet's payload is one byte and its serialization.
LEMMA PayloadType ==
  ASSUME NEW t \in Types, NEW p \in PacketsOf(t)
  PROVE  Payload(t, p) \in Payloads /\ Len(Payload(t, p)) = 1 + Len(Serialize(t, p))
<1> DEFINE s == Serialize(t, p)
           c == Code[t]
<1>1. s \in Seq(Octets) /\ c \in Octets
  BY SerializeType, Codes DEF Octets
<1>2. Payload(t, p) = <<c>> \o s
  BY DEF Payload
<1> HIDE DEF s, c
<1>3. <<c>> \in Seq(Octets) /\ Len(<<c>>) = 1
  BY <1>1
<1>4. <<c>> \o s \in Seq(Octets) /\ Len(<<c>> \o s) = 1 + Len(s) /\ Len(s) \in Nat
  BY <1>1, <1>3
<1> QED BY <1>2, <1>4 DEF Payloads, s

\* What is sent second is a packet, and comes back.
LEMMA SecondPacket ==
  /\ Second.type = "keepalive_ack" /\ Second.value = <<>>
  /\ "keepalive_ack" \in Types /\ <<>> \in PacketsOf("keepalive_ack")
  /\ SecondPayload \in Payloads /\ Len(SecondPayload) = 1
  /\ Unpack(SecondPayload) = Second
<1>1. Second.type = "keepalive_ack" /\ Second.value = <<>>
  BY DEF Second
<1>2. "keepalive_ack" \in Types /\ WriteLayout["keepalive_ack"] = <<>>
  BY TypesAre, Layouts DEF SmallTypes
<1>3. <<>> \in PacketsOf("keepalive_ack")
  <2>1. PICK f : /\ PacketsOf("keepalive_ack") = f[Len(WriteLayout["keepalive_ack"])]
                 /\ PacketByPacket(f, WriteLayout["keepalive_ack"])
    BY <1>2, PacketsOfDef
  <2>2. Len(<<>>) = 0
    OBVIOUS
  <2>3. f[0] = {<<>>}
    BY <2>1 DEF PacketByPacket
  <2> QED BY <1>2, <2>1, <2>2, <2>3
<1>4. Len(Serialize("keepalive_ack", <<>>)) = 0
  <2>1. Serialize("keepalive_ack", <<>>) = <<>>
    BY <1>2, SerializeFields, FieldsBytesEmpty
  <2>2. Len(<<>>) = 0
    OBVIOUS
  <2> QED BY <2>1, <2>2
<1>5. SecondPayload \in Payloads /\ Len(SecondPayload) = 1
  <2>1. SecondPayload = Payload("keepalive_ack", <<>>)
    BY <1>1 DEF SecondPayload
  <2>2. SecondPayload \in Payloads /\ Len(SecondPayload) = 1 + 0
    BY <1>2, <1>3, <1>4, <2>1, PayloadType
  <2> QED BY <2>2
<1>6. Unpack(SecondPayload) = Second
  <2>1. Fits("keepalive_ack", <<>>)
    BY DEF Fits
  <2>2. SecondPayload = Payload("keepalive_ack", <<>>)
    BY <1>1 DEF SecondPayload
  <2>3. "keepalive_ack" # "chat"
    OBVIOUS
  <2>4. Unpack(SecondPayload) = [ok |-> TRUE, type |-> "keepalive_ack", value |-> <<>>]
    BY <1>2, <1>3, <2>1, <2>2, <2>3, PayloadBack
  <2> QED BY <2>4 DEF Second
<1> QED BY <1>1, <1>2, <1>3, <1>5, <1>6

\* The encrypted bytes of a frame: as many, within the limit if the first
\* packet is, and decrypted again.
LEMMA CipherOf ==
  ASSUME NEW p \in Payloads, NEW k \in 1..2
  PROVE  /\ Cipher(k, p) \in Seq(Encrypted) /\ Cipher(k, p) \in Seq(Signs)
         /\ Len(Cipher(k, p)) = Len(PlainOf(k, p))
         /\ Len(Cipher(k, p)) \in Nat \ {0}
         /\ Len(p) <= MaxPacket => Len(Cipher(k, p)) <= MaxPacket
         /\ Len(Cipher(k, p)) <= MaxPacket => XorCrypt(Cipher(k, p), k - 1) = PlainOf(k, p)
<1> DEFINE q == PlainOf(k, p)
           c == Cipher(k, p)
<1>1. q \in Seq(Octets) /\ Len(q) \in Nat /\ Len(q) >= 1
  BY SecondPacket DEF PlainOf, Payloads
<1>2. Len(p) <= MaxPacket => Len(q) <= MaxPacket
  <2>1. k = 1 => q = p
    BY DEF PlainOf
  <2>2. k # 1 => Len(q) = 1
    BY SecondPacket DEF PlainOf
  <2>3. MaxPacket \in Nat \ {0}
    BY FramesConstants
  <2> HIDE DEF q
  <2> QED BY <2>1, <2>2, <2>3
<1>3. k - 1 \in Nat /\ k - 1 \in 0..1
  OBVIOUS
<1>4. c = XorCrypt(q, k - 1)
  BY DEF Cipher
<1> HIDE DEF q, c
<1>5. c \in Seq(Encrypted) /\ Len(c) = Len(q)
  BY <1>1, <1>3, <1>4, EncryptedType
<1>6. c \in Seq(Signs)
  BY <1>5, HmacType
<1>7. Len(c) <= MaxPacket => XorCrypt(c, k - 1) = q
  BY <1>1, <1>3, <1>4, <1>5, Decrypted
<1> QED BY <1>1, <1>2, <1>5, <1>6, <1>7 DEF q, c

\* A frame and its parts are signs, and it is not empty.
LEMMA FrameOfType ==
  ASSUME NEW p \in Payloads, NEW k \in 1..2
  PROVE  /\ FrameOf(k, p) \in Seq(Signs) /\ Len(FrameOf(k, p)) > 0
         /\ Hmac(Cipher(k, p)) \in Seq(Signs) /\ Len(Hmac(Cipher(k, p))) = HmacLen
         /\ NetLen(Len(Cipher(k, p))) \in Seq(Signs) /\ Len(NetLen(Len(Cipher(k, p)))) = 4
<1> DEFINE c == Cipher(k, p)
           h == Hmac(c)
           l == NetLen(Len(c))
<1>1. c \in Seq(Encrypted) /\ c \in Seq(Signs) /\ Len(c) \in Nat
  BY CipherOf
<1> HIDE DEF c
<1>2. h \in Seq(Signs) /\ Len(h) = HmacLen
  BY <1>1, HmacType
<1>3. l \in Seq(Signs) /\ Len(l) = 4
  BY <1>1, NetLenType
<1>4. FrameOf(k, p) = h \o (l \o c)
  BY DEF FrameOf, c
<1> HIDE DEF h, l
<1>5. l \o c \in Seq(Signs)
  BY <1>1, <1>3
<1>6. /\ h \o (l \o c) \in Seq(Signs) /\ Len(h \o (l \o c)) = Len(h) + Len(l \o c)
      /\ Len(l \o c) \in Nat
  BY <1>2, <1>5
<1>7. HmacLen \in Nat \ {0}
  BY FramesConstants
<1> QED BY <1>2, <1>3, <1>4, <1>6, <1>7 DEF c, h, l

\* Nothing before or after a sequence leaves it.
LEMMA EmptyConcat ==
  ASSUME NEW S, NEW s \in Seq(S)
  PROVE  <<>> \o s = s /\ s \o <<>> = s
OBVIOUS

\* The frames still to come, case by case.
LEMMA PendingAre ==
  ASSUME NEW p \in Payloads
  PROVE  /\ Pending(0, 0, p) = <<>> /\ Pending(1, 1, p) = <<>> /\ Pending(2, 2, p) = <<>>
         /\ Pending(0, 1, p) = FrameOf(1, p) /\ Pending(1, 2, p) = FrameOf(2, p)
         /\ Pending(0, 2, p) = FrameOf(1, p) \o FrameOf(2, p)
<1>1. FrameOf(1, p) \in Seq(Signs) /\ FrameOf(2, p) \in Seq(Signs)
  BY FrameOfType
<1>2. <<>> \o <<>> = <<>>
  OBVIOUS
<1>3. FrameOf(1, p) \o <<>> = FrameOf(1, p) /\ <<>> \o FrameOf(2, p) = FrameOf(2, p)
  BY <1>1, EmptyConcat
<1> HIDE DEF FrameOf
<1>4. Pending(0, 0, p) = <<>> /\ Pending(1, 1, p) = <<>> /\ Pending(2, 2, p) = <<>>
  BY <1>2 DEF Pending
<1>5. Pending(0, 1, p) = FrameOf(1, p) /\ Pending(1, 2, p) = FrameOf(2, p)
  BY <1>3 DEF Pending
<1>6. Pending(0, 2, p) = FrameOf(1, p) \o FrameOf(2, p)
  BY DEF Pending
<1> QED BY <1>4, <1>5, <1>6

\* One frame more is sent: it is the last to come.
LEMMA PendingMore ==
  ASSUME NEW p \in Payloads, NEW s \in 0..1, NEW r \in 0..s
  PROVE  /\ Pending(r, s, p) \in Seq(Signs) /\ Pending(r, s + 1, p) \in Seq(Signs)
         /\ Pending(r, s + 1, p) = Pending(r, s, p) \o FrameOf(s + 1, p)
<1>1. FrameOf(1, p) \in Seq(Signs) /\ FrameOf(2, p) \in Seq(Signs)
  BY FrameOfType
<1>2. <<>> \o FrameOf(1, p) = FrameOf(1, p) /\ <<>> \o FrameOf(2, p) = FrameOf(2, p)
  BY <1>1, EmptyConcat
<1>3. FrameOf(1, p) \o FrameOf(2, p) \in Seq(Signs) /\ <<>> \in Seq(Signs)
  BY <1>1
<1> DEFINE More(q, t) == /\ Pending(q, t, p) \in Seq(Signs) /\ Pending(q, t + 1, p) \in Seq(Signs)
                         /\ Pending(q, t + 1, p) = Pending(q, t, p) \o FrameOf(t + 1, p)
<1>0. 0 + 1 = 1 /\ 1 + 1 = 2
  OBVIOUS
<1>a. /\ Pending(0, 0, p) = <<>> /\ Pending(1, 1, p) = <<>>
      /\ Pending(0, 1, p) = FrameOf(1, p) /\ Pending(1, 2, p) = FrameOf(2, p)
      /\ Pending(0, 2, p) = FrameOf(1, p) \o FrameOf(2, p)
  BY PendingAre
<1>4. More(0, 0) /\ More(0, 1) /\ More(1, 1)
  BY <1>0, <1>1, <1>2, <1>3, <1>a, Zenon
<1>5. \/ s = 0 /\ r = 0
      \/ s = 1 /\ r = 0
      \/ s = 1 /\ r = 1
  OBVIOUS
<1> HIDE DEF More
<1>6. More(r, s)
  BY <1>4, <1>5
<1> QED BY <1>6 DEF More

\* The next frame is the first to come.
LEMMA PendingNext ==
  ASSUME NEW p \in Payloads, NEW s \in 1..2, NEW r \in 0..(s - 1)
  PROVE  /\ Pending(r + 1, s, p) \in Seq(Signs)
         /\ Pending(r, s, p) = FrameOf(r + 1, p) \o Pending(r + 1, s, p)
<1>1. FrameOf(1, p) \in Seq(Signs) /\ FrameOf(2, p) \in Seq(Signs)
  BY FrameOfType
<1>2. FrameOf(1, p) \o <<>> = FrameOf(1, p) /\ FrameOf(2, p) \o <<>> = FrameOf(2, p)
  BY <1>1, EmptyConcat
<1>3. <<>> \in Seq(Signs)
  OBVIOUS
<1> DEFINE HeadOf(q, t) == /\ Pending(q + 1, t, p) \in Seq(Signs)
                           /\ Pending(q, t, p) = FrameOf(q + 1, p) \o Pending(q + 1, t, p)
<1>0. 0 + 1 = 1 /\ 1 + 1 = 2
  OBVIOUS
<1>a. /\ Pending(1, 1, p) = <<>> /\ Pending(2, 2, p) = <<>>
      /\ Pending(0, 1, p) = FrameOf(1, p) /\ Pending(1, 2, p) = FrameOf(2, p)
      /\ Pending(0, 2, p) = FrameOf(1, p) \o FrameOf(2, p)
  BY PendingAre
<1>4. HeadOf(0, 1) /\ HeadOf(0, 2) /\ HeadOf(1, 2)
  BY <1>0, <1>1, <1>2, <1>3, <1>a, Zenon
<1>5. \/ s = 1 /\ r = 0
      \/ s = 2 /\ r = 0
      \/ s = 2 /\ r = 1
  OBVIOUS
<1> HIDE DEF HeadOf
<1>6. HeadOf(r, s)
  BY <1>4, <1>5
<1> QED BY <1>6 DEF HeadOf

\* A frame, its HMAC first, before those after it.
LEMMA PendingFrame ==
  ASSUME NEW p \in Payloads, NEW s \in 1..2, NEW r \in 0..(s - 1)
  PROVE  /\ Rest("hmac", r, s, p) = Hmac(Cipher(r + 1, p)) \o Rest("length", r, s, p)
         /\ Rest("length", r, s, p) = NetLen(Len(Cipher(r + 1, p))) \o Rest("body", r, s, p)
         /\ Rest("body", r, s, p) = Cipher(r + 1, p) \o Rest("hmac", r + 1, s, p)
         /\ Rest("hmac", r + 1, s, p) \in Seq(Signs)
         /\ Rest("body", r, s, p) \in Seq(Signs)
         /\ Rest("length", r, s, p) \in Seq(Signs)
         /\ Rest("hmac", r, s, p) \in Seq(Signs)
<1> DEFINE c == Cipher(r + 1, p)
           h == Hmac(c)
           l == NetLen(Len(c))
           d == Pending(r + 1, s, p)
<1>0. r + 1 \in 1..2
  OBVIOUS
<1>1. d \in Seq(Signs) /\ Pending(r, s, p) = FrameOf(r + 1, p) \o d
  BY PendingNext
<1>2. c \in Seq(Signs) /\ h \in Seq(Signs) /\ l \in Seq(Signs)
  BY <1>0, CipherOf, FrameOfType
<1>3. FrameOf(r + 1, p) = h \o (l \o c)
  BY DEF FrameOf
<1>4. /\ Rest("hmac", r, s, p) = Pending(r, s, p) /\ Rest("hmac", r + 1, s, p) = d
      /\ Rest("length", r, s, p) = l \o (c \o d) /\ Rest("body", r, s, p) = c \o d
  BY DEF Rest
<1> HIDE DEF c, h, l, d
<1>5. (h \o (l \o c)) \o d = h \o (l \o (c \o d))
  <2>1. h \in Seq(Signs) /\ l \in Seq(Signs) /\ c \in Seq(Signs) /\ d \in Seq(Signs)
    BY <1>1, <1>2
  <2> QED BY <2>1, SMTT(30)
<1>6. c \o d \in Seq(Signs)
  BY <1>1, <1>2
<1>7. l \o (c \o d) \in Seq(Signs)
  BY <1>2, <1>6
<1>8. h \o (l \o (c \o d)) \in Seq(Signs)
  BY <1>2, <1>7
<1> QED BY <1>1, <1>3, <1>4, <1>5, <1>6, <1>7, <1>8 DEF c, h, l, d

\* What is still to come is signs.
LEMMA RestType ==
  ASSUME NEW p \in Payloads, NEW s \in 0..2, NEW r \in 0..s,
         NEW pt \in {"hmac", "length", "body"}, pt # "hmac" => r < s
  PROVE  Rest(pt, r, s, p) \in Seq(Signs)
<1>1. CASE r < s
  <2>1. s \in 1..2 /\ r \in 0..(s - 1)
    BY <1>1
  <2> QED BY <2>1, PendingFrame
<1>2. CASE r = s
  <2>1. Rest(pt, r, s, p) = Pending(r, s, p)
    BY <1>2 DEF Rest
  <2>2. Pending(r, s, p) = <<>>
    BY <1>2, PendingAre
  <2>3. <<>> \in Seq(Signs)
    OBVIOUS
  <2> QED BY <2>1, <2>2, <2>3
<1> QED BY <1>1, <1>2

\* One frame more is sent: it comes after all that is still to come.
LEMMA RestMore ==
  ASSUME NEW p \in Payloads, NEW s \in 0..1, NEW r \in 0..s,
         NEW pt \in {"hmac", "length", "body"}, pt # "hmac" => r < s
  PROVE  Rest(pt, r, s + 1, p) = Rest(pt, r, s, p) \o FrameOf(s + 1, p)
<1> DEFINE f == FrameOf(s + 1, p)
<1>0. s + 1 \in 1..2
  OBVIOUS
<1>1. f \in Seq(Signs)
  BY <1>0, FrameOfType
<1>2. CASE pt = "hmac"
  BY <1>2, PendingMore DEF Rest
<1>3. CASE pt # "hmac"
  <2> DEFINE c == Cipher(r + 1, p)
             l == NetLen(Len(c))
             d == Pending(r + 1, s, p)
             e == Pending(r + 1, s + 1, p)
  <2>1. r + 1 \in 0..s /\ r + 1 \in 1..2
    BY <1>3
  <2>2. d \in Seq(Signs) /\ e = d \o f
    BY <2>1, PendingMore
  <2>3. c \in Seq(Signs) /\ l \in Seq(Signs)
    BY <2>1, CipherOf, FrameOfType
  <2>4. /\ pt = "body" => Rest(pt, r, s, p) = c \o d /\ Rest(pt, r, s + 1, p) = c \o e
        /\ pt = "length" => /\ Rest(pt, r, s, p) = l \o (c \o d)
                            /\ Rest(pt, r, s + 1, p) = l \o (c \o e)
    BY DEF Rest
  <2> HIDE DEF c, l, d, e, f
  <2>5. (c \o d) \o f = c \o (d \o f)
    BY <1>1, <2>2, <2>3, ConcatThree, SMTT(30)
  <2>6. (l \o (c \o d)) \o f = l \o (c \o (d \o f))
    <3>1. /\ l \in Seq(Signs) /\ c \in Seq(Signs) /\ d \in Seq(Signs)
          /\ f \in Seq(Signs)
      BY <1>1, <2>2, <2>3
    <3>2. (l \o (c \o d)) \o f = l \o (c \o (d \o f))
      BY <3>1, SMTT(30)
    <3> QED BY <3>2
  <2>7. Rest(pt, r, s + 1, p) = Rest(pt, r, s, p) \o f
    BY <1>3, <2>2, <2>4, <2>5, <2>6
  <2> QED BY <2>7 DEF f
<1> QED BY <1>2, <1>3

-----------------------------------------------------------------------------


\* What is sent first.
First == Payload(type, sent)

\* Another sender's frame: nothing is on the wire.
OtherInv ==
  /\ sent \in Seq(Octets)
  /\ sendCounter = 0 /\ toSend = <<>> /\ recvCounter = 0
  /\ part = "hmac" /\ got = <<>> /\ stream = <<>> /\ eof = FALSE /\ dropped = FALSE
  /\ result \in {<<>>, <<Unpack(<<Code[type]>> \o sent)>>}

\* What has been sent, in order, and what is yet to be.
Sending ==
  /\ sent \in PacketsOf(type)
  /\ \/ sendCounter = 0 /\ toSend = <<First, SecondPayload>>
     \/ sendCounter = 1 /\ toSend = <<SecondPayload>>
     \/ sendCounter = 2 /\ toSend = <<>>
  /\ eof \in BOOLEAN /\ (eof => sendCounter = 2)

\* What has been read: the parts of the current frame that are behind are
\* the sender's, and got and stream are how the rest begins.
Reading ==
  /\ recvCounter \in 0..sendCounter
  /\ part \in {"hmac", "length", "body"}
  /\ part # "hmac" => /\ recvCounter < sendCounter
                      /\ hmac = Hmac(Cipher(recvCounter + 1, First))
  /\ part = "body" => /\ msgLen = HostLen(NetLen(Len(Cipher(recvCounter + 1, First))))
                      /\ msgLen \in 1..MaxPacket
  /\ Stands(Rest(part, recvCounter, sendCounter, First), got, stream, eof)

\* What has been made of the frames that were read, and why readFrame may
\* have failed.
Made ==
  /\ recvCounter = 0 => result = <<>>
  /\ recvCounter = 1 => result = <<Unpack(First)>>
  /\ recvCounter = 2 => result = <<Unpack(First), Second>>
  /\ dropped \in BOOLEAN /\ (dropped /\ ~eof => TooLong)

\* The invariant: what has been read of a frame, and what is on its way,
\* is how the frames sent and not yet read begin, and what was read before
\* is what was sent.
FrameInv == type \in Types /\ (OtherInv \/ (Sending /\ Reading /\ Made))

\* What readFrame still needs, by the part it is at.
LEMMA WantedIs ==
  /\ part = "hmac" => Wanted = HmacLen - Len(got)
  /\ part = "length" => Wanted = 4 - Len(got)
  /\ part = "body" => Wanted = msgLen - Len(got)
<1>1. part = "hmac" => Wanted = HmacLen - Len(got)
  BY Zenon DEF Wanted
<1>2. part = "length" => Wanted = 4 - Len(got)
  BY Zenon DEF Wanted
<1>3. part = "body" => Wanted = msgLen - Len(got)
  BY Zenon DEF Wanted
<1> QED BY <1>1, <1>2, <1>3

\* Sequences of one and of two.
LEMMA TailOf ==
  ASSUME NEW a, NEW b
  PROVE  Tail(<<a, b>>) = <<b>> /\ Tail(<<a>>) = <<>>
OBVIOUS

\* They are not empty.
LEMMA NotEmpty ==
  ASSUME NEW a, NEW b
  PROVE  <<a, b>> # <<>> /\ <<a>> # <<>>
OBVIOUS

\* One more makes them.
LEMMA AppendSecond ==
  ASSUME NEW a, NEW b
  PROVE  Append(<<a>>, b) = <<a, b>> /\ Append(<<>>, a) = <<a>>
<1> DEFINE s == <<a>>
<1>1. s \in Seq({a, b}) /\ Len(s) = 1 /\ s[1] = a /\ <<>> \in Seq({a, b}) /\ Len(<<>>) = 0
  OBVIOUS
<1> HIDE DEF s
<1>2. Append(s, b) = <<a, b>>
  <2>1. /\ Len(Append(s, b)) = 2 /\ Append(s, b)[1] = a /\ Append(s, b)[2] = b
        /\ Append(s, b) \in Seq({a, b})
    <3> DEFINE S == {a, b}
               t == Append(s, b)
    <3>1. s \in Seq(S) /\ b \in S
      BY <1>1
    <3> HIDE DEF S
    <3>2. /\ t \in Seq(S) /\ Len(t) = Len(s) + 1 /\ t[Len(s) + 1] = b
          /\ \A i \in 1..Len(s) : t[i] = s[i]
      BY <3>1
    <3> HIDE DEF t
    <3>3. Len(t) = 2 /\ t[1] = a /\ t[2] = b /\ t \in Seq(S)
      BY <1>1, <3>2
    <3> QED BY <3>3 DEF S, t
  <2>2. <<a, b>> \in Seq({a, b}) /\ Len(<<a, b>>) = 2
    OBVIOUS
  <2>3. \A i \in 1..2 : Append(s, b)[i] = <<a, b>>[i]
    BY <2>1
  <2> QED BY <2>1, <2>2, <2>3, SeqEqual
<1>3. Append(<<>>, a) = <<a>>
  <2>1. /\ Len(Append(<<>>, a)) = 1 /\ Append(<<>>, a)[1] = a
        /\ Append(<<>>, a) \in Seq({a, b})
    BY <1>1
  <2>2. <<a>> \in Seq({a, b}) /\ Len(<<a>>) = 1
    OBVIOUS
  <2>3. \A i \in 1..1 : Append(<<>>, a)[i] = <<a>>[i]
    BY <2>1
  <2> QED BY <2>1, <2>2, <2>3, SeqEqual
<1> QED BY <1>2, <1>3 DEF s

\* Both packets are payloads, and only the first may be over the limit.
LEMMA FirstType ==
  ASSUME type \in Types, Sending
  PROVE  /\ First \in Payloads /\ SecondPayload \in Payloads
         /\ sendCounter \in 0..2 /\ Len(First) \in Nat
         /\ TooLong <=> Len(First) > MaxPacket
<1>1. First \in Payloads
  BY PayloadType DEF First, Sending
<1>2. TooLong <=> Len(First) > MaxPacket
  BY DEF TooLong, First
<1>3. sendCounter \in 0..2
  BY DEF Sending
<1>4. Len(First) \in Nat
  BY <1>1 DEF Payloads
<1> QED BY <1>1, <1>2, <1>3, <1>4, SecondPacket

\* It holds at first.
LEMMA FrameInit == Init => FrameInv
<1> SUFFICES ASSUME Init PROVE FrameInv
  OBVIOUS
<1> USE DEF Init
<1>1. CASE sent \in BoundedSeq(Byte, MaxBytes) /\ toSend = <<>>
  <2>1. sent \in Seq(Octets)
    <3>1. Byte \subseteq Octets
      BY FramesAssumption DEF Octets
    <3>2. PICK m \in 0..MaxBytes : sent \in [1..m -> Byte]
      BY <1>1, Zenon DEF BoundedSeq, SeqOf
    <3>3. m \in Nat
      BY <3>2
    <3>4. sent \in Seq(Byte)
      BY <3>2, <3>3
    <3> QED BY <3>1, <3>4, SeqMonotonic
  <2> QED BY <1>1, <2>1 DEF FrameInv, OtherInv
<1>2. CASE /\ sent \in PacketsOf(type)
           /\ toSend = <<Payload(type, sent), Payload(Second.type, Second.value)>>
  <2>1. Sending
    BY <1>2 DEF Sending, First, SecondPayload
  <2>2. First \in Payloads
    BY <2>1, FirstType
  <2>3. Rest("hmac", 0, 0, First) = <<>>
    BY <2>2, PendingAre DEF Rest
  <2>4. Stands(<<>>, <<>>, <<>>, FALSE)
    <3>1. <<>> \in Seq(Signs) /\ Len(<<>>) = 0
      OBVIOUS
    <3>2. Holds(<<>>, 0, <<>>)
      BY <3>1 DEF Holds
    <3>3. 0 + 0 = 0
      OBVIOUS
    <3> QED BY <3>1, <3>2, <3>3 DEF Stands
  <2>5. Reading
    <3>1. /\ recvCounter = 0 /\ sendCounter = 0 /\ part = "hmac" /\ got = <<>>
          /\ stream = <<>> /\ eof = FALSE
      OBVIOUS
    <3>2. Stands(Rest(part, recvCounter, sendCounter, First), got, stream, eof)
      BY <2>3, <2>4, <3>1
    <3>3. recvCounter \in 0..sendCounter /\ part \in {"hmac", "length", "body"}
          /\ part = "hmac"
      BY <3>1
    <3> QED BY <3>2, <3>3 DEF Reading
  <2>6. Made
    <3>1. recvCounter = 0 /\ result = <<>> /\ dropped = FALSE
      OBVIOUS
    <3>2. recvCounter # 1 /\ recvCounter # 2
      BY <3>1
    <3>3. dropped \in BOOLEAN /\ ~dropped
      BY <3>1
    <3> QED BY <3>1, <3>2, <3>3, Zenon DEF Made
  <2> QED BY <2>1, <2>5, <2>6 DEF FrameInv
<1> QED BY <1>1, <1>2

\* What is in the stream and in got is a sequence.
LEMMA StandsType ==
  ASSUME NEW rest, NEW g, NEW s, NEW ended, Stands(rest, g, s, ended)
  PROVE  g \in Seq(Signs) /\ s \in Seq(Signs) /\ Len(g) \in Nat /\ Len(s) \in Nat
<1>1. g \in Seq(Signs) /\ s \in Seq(Signs)
  BY DEF Stands
<1> QED BY <1>1

\* Nothing but another sender's frame is read where one is.
LEMMA StepOther ==
  ASSUME type \in Types, OtherInv, [Next]_vars
  PROVE  type' \in Types /\ OtherInv'
<1> USE DEF OtherInv
<1>1. CASE Send
  BY <1>1 DEF Send
<1>2. CASE Other
  BY <1>2 DEF Other, frame
<1>3. CASE ReadFrame
  <2>0. Len(stream) = 0 /\ Len(got) = 0
    OBVIOUS
  <2>1. ~(\E n \in 1..Len(stream) : Recv(n))
    BY <2>0
  <2>2. ~HmacRead
    <3>1. Wanted = HmacLen - 0
      BY <2>0, WantedIs
    <3>2. HmacLen \in Nat \ {0}
      BY FramesConstants
    <3>3. Wanted # 0
      BY <3>1, <3>2
    <3> QED BY <3>3 DEF HmacRead
  <2>3. ~LengthRead /\ ~BodyRead /\ ~EndOfStream
    BY DEF LengthRead, BodyRead, EndOfStream
  <2> QED BY <1>3, <2>1, <2>2, <2>3 DEF ReadFrame
<1>4. CASE \E n \in 0..Len(stream) : Ends(n)
  BY <1>4 DEF Ends
<1>5. CASE UNCHANGED vars
  BY <1>5 DEF vars, frame
<1> QED BY <1>1, <1>2, <1>3, <1>4, <1>5 DEF Next

\* sendPacket: the frame joins what is still to come, encrypted with the
\* counter that the receiver will have come to.
LEMMA StepSend ==
  ASSUME type \in Types, Sending, Reading, Made, Send
  PROVE  type' \in Types /\ Sending' /\ Reading' /\ Made'
<1> DEFINE s == sendCounter
           c == XorCrypt(Head(toSend), s)
           p == First
<1>0. /\ p \in Payloads /\ SecondPayload \in Payloads /\ s \in 0..2
  BY FirstType
<1>1. /\ toSend # <<>> /\ stream' = stream \o Hmac(c) \o NetLen(Len(c)) \o c
      /\ sendCounter' = s + 1 /\ toSend' = Tail(toSend)
      /\ type' = type /\ sent' = sent /\ recvCounter' = recvCounter /\ eof' = eof
      /\ part' = part /\ got' = got /\ hmac' = hmac /\ msgLen' = msgLen
      /\ result' = result /\ dropped' = dropped
  BY DEF Send, frame
<1>2. p' = p
  BY <1>1 DEF First
<1>3. s \in 0..1 /\ eof = FALSE /\ Head(toSend) = PlainOf(s + 1, p)
  BY <1>1 DEF Sending, PlainOf
<1>4. c = Cipher(s + 1, p)
  <2>1. (s + 1) - 1 = s
    BY <1>3
  <2> QED BY <1>3, <2>1 DEF Cipher
<1>5. Sending'
  <2>1. \/ s = 0 /\ toSend' = <<SecondPayload>>
        \/ s = 1 /\ toSend' = <<>>
    <3>1. \/ s = 0 /\ toSend = <<First, SecondPayload>>
          \/ s = 1 /\ toSend = <<SecondPayload>>
      BY <1>3 DEF Sending
    <3>2. toSend' = Tail(toSend)
      BY <1>1
    <3> HIDE DEF s
    <3> QED BY <3>1, <3>2, TailOf
  <2>2. \/ sendCounter' = 1 /\ toSend' = <<SecondPayload>>
        \/ sendCounter' = 2 /\ toSend' = <<>>
    BY <1>1, <2>1
  <2>3. SecondPayload' = SecondPayload
    BY DEF SecondPayload, Second
  <2>4. sent' \in PacketsOf(type')
    BY <1>1 DEF Sending
  <2>5. eof' = FALSE
    BY <1>1, <1>3
  <2> QED BY <2>2, <2>4, <2>5 DEF Sending
<1>6. Reading'
  <2>1. /\ recvCounter \in 0..s /\ part \in {"hmac", "length", "body"}
        /\ part # "hmac" => recvCounter < s
        /\ Stands(Rest(part, recvCounter, s, p), got, stream, FALSE)
    BY <1>3 DEF Reading
  <2>2. Rest(part, recvCounter, s + 1, p) = Rest(part, recvCounter, s, p) \o FrameOf(s + 1, p)
    BY <1>0, <1>3, <2>1, RestMore
  <2>3. Rest(part, recvCounter, s, p) \in Seq(Signs)
    BY <1>0, <2>1, RestType
  <2>4. s + 1 \in 1..2
    BY <1>3
  <2>5. FrameOf(s + 1, p) \in Seq(Signs)
    BY <1>0, <2>4, FrameOfType
  <2>6. stream' = stream \o FrameOf(s + 1, p)
    <3> DEFINE d == Cipher(s + 1, p)
               h == Hmac(d)
               l == NetLen(Len(d))
    <3>1. d \in Seq(Signs) /\ h \in Seq(Signs) /\ l \in Seq(Signs)
      BY <1>0, <2>4, CipherOf, FrameOfType
    <3>2. stream \in Seq(Signs)
      BY <2>1, StandsType
    <3>3. stream' = ((stream \o h) \o l) \o d
      BY <1>1, <1>4
    <3>4. FrameOf(s + 1, p) = h \o (l \o d)
      BY DEF FrameOf
    <3> HIDE DEF d, h, l
    <3>5. ((stream \o h) \o l) \o d = stream \o (h \o (l \o d))
      <4> DEFINE x == stream \o h
                 y == l \o d
      <4>1. x \in Seq(Signs) /\ y \in Seq(Signs)
        BY <3>1, <3>2
      <4> HIDE DEF y
      <4>2. (stream \o h) \o y = stream \o (h \o y)
        BY <3>1, <3>2, <4>1
      <4> HIDE DEF x
      <4>3. (x \o l) \o d = x \o (l \o d)
        BY <3>1, <4>1
      <4>4. x \o y = stream \o (h \o y)
        BY <4>2 DEF x
      <4> QED BY <4>3, <4>4 DEF x, y
    <3> QED BY <3>3, <3>4, <3>5
  <2> DEFINE rest == Rest(part, recvCounter, s, p)
             f == FrameOf(s + 1, p)
  <2> HIDE DEF rest, f
  <2>7. Stands(rest \o f, got, stream \o f, FALSE)
    BY <2>1, <2>3, <2>5, SentOn DEF rest, f
  <2>8. Stands(Rest(part', recvCounter', sendCounter', p'), got', stream', eof')
    BY <1>1, <1>2, <1>3, <2>2, <2>6, <2>7 DEF rest, f
  <2>9. recvCounter' \in 0..sendCounter' /\ (part' # "hmac" => recvCounter' < sendCounter')
    BY <1>1, <1>3, <2>1
  <2>10. /\ part' # "hmac" => hmac' = Hmac(Cipher(recvCounter' + 1, First'))
         /\ part' = "body" => /\ msgLen' = HostLen(NetLen(Len(Cipher(recvCounter' + 1, First'))))
                              /\ msgLen' \in 1..MaxPacket
    BY <1>1, <1>2 DEF Reading
  <2> QED BY <1>1, <2>1, <2>8, <2>9, <2>10 DEF Reading
<1>7. Made'
  <2>1. TooLong' = TooLong
    BY <1>1 DEF TooLong
  <2> QED BY <1>1, <1>2, <2>1 DEF Made
<1> QED BY <1>1, <1>5, <1>6, <1>7

\* What does not send leaves what was sent.
LEMMA SameSending ==
  ASSUME Sending, UNCHANGED <<type, sent, toSend, sendCounter, eof>>
  PROVE  Sending' /\ First' = First
<1>1. First' = First
  BY DEF First
<1> QED BY <1>1 DEF Sending

\* What makes nothing of a frame leaves what was made.
LEMMA SameMade ==
  ASSUME Made, UNCHANGED <<type, sent, recvCounter, result, eof, dropped>>
  PROVE  Made'
<1>1. First' = First /\ TooLong' = TooLong
  BY DEF First, TooLong
<1> QED BY <1>1 DEF Made

\* One recv, of any number of bytes.
LEMMA StepRecv ==
  ASSUME type \in Types, Sending, Reading, Made, NEW n \in 1..Len(stream), Recv(n)
  PROVE  type' \in Types /\ Sending' /\ Reading' /\ Made'
<1> DEFINE rest == Rest(part, recvCounter, sendCounter, First)
<1>1. /\ got' = got \o SubSeq(stream, 1, n)
      /\ stream' = SubSeq(stream, n + 1, Len(stream))
      /\ UNCHANGED <<type, sent, toSend, sendCounter, recvCounter, eof, part,
                     hmac, msgLen, result, dropped>>
  BY DEF Recv
<1>2. Sending' /\ First' = First
  BY <1>1, SameSending
<1>3. Made'
  BY <1>1, SameMade
<1>4. rest \in Seq(Signs)
  BY FirstType, RestType DEF Reading
<1>5. Stands(rest, got, stream, eof)
  BY DEF Reading
<1> HIDE DEF rest
<1>6. Stands(rest, got', stream', eof)
  BY <1>1, <1>4, <1>5, ReadOn
<1>7. rest = Rest(part', recvCounter', sendCounter', First') /\ eof' = eof
  BY <1>1, <1>2 DEF rest
<1>8. Stands(Rest(part', recvCounter', sendCounter', First'), got', stream', eof')
  BY <1>6, <1>7
<1>9. Reading'
  BY <1>1, <1>2, <1>8 DEF Reading
<1> QED BY <1>1, <1>2, <1>3, <1>9

\* The HMAC is there whole: it is the next frame's, as one was sent.
LEMMA StepHmacRead ==
  ASSUME type \in Types, Sending, Reading, Made, HmacRead
  PROVE  type' \in Types /\ Sending' /\ Reading' /\ Made'
<1> DEFINE s == sendCounter
           r == recvCounter
           p == First
           c == Cipher(r + 1, p)
<1>1. /\ part = "hmac" /\ Wanted = 0
      /\ hmac' = got /\ part' = "length" /\ got' = <<>>
      /\ UNCHANGED <<type, sent, toSend, sendCounter, recvCounter, stream, eof,
                     msgLen, result, dropped>>
  BY DEF HmacRead
<1>2. Sending' /\ First' = First
  BY <1>1, SameSending
<1>3. Made'
  BY <1>1, SameMade
<1>4. p \in Payloads /\ s \in 0..2 /\ r \in 0..s
  BY FirstType DEF Reading
<1>5. Stands(Rest("hmac", r, s, p), got, stream, eof)
  BY <1>1 DEF Reading
<1>6. Len(got) = HmacLen /\ HmacLen \in Nat \ {0}
  <2>1. Len(got) \in Nat
    BY <1>5, StandsType
  <2>2. HmacLen \in Nat \ {0}
    BY FramesConstants
  <2>3. HmacLen - Len(got) = 0
    BY <1>1, WantedIs
  <2> QED BY <2>1, <2>2, <2>3
<1>7. r < s
  <2> SUFFICES ASSUME r = s PROVE FALSE
    BY <1>4
  <2>1. Rest("hmac", r, s, p) = <<>>
    BY <1>4, PendingAre DEF Rest
  <2>2. Holds(<<>>, 0, got)
    BY <1>5, <2>1 DEF Stands
  <2>3. 0 + Len(got) <= 0
    BY <2>2 DEF Holds
  <2> QED BY <1>6, <2>3
<1>8. s \in 1..2 /\ r \in 0..(s - 1) /\ r + 1 \in 1..2
  BY <1>4, <1>7
<1>9. /\ Rest("hmac", r, s, p) = Hmac(c) \o Rest("length", r, s, p)
      /\ Rest("length", r, s, p) \in Seq(Signs)
  BY <1>4, <1>8, PendingFrame
<1>10. Hmac(c) \in Seq(Signs) /\ Len(Hmac(c)) = HmacLen
  BY <1>4, <1>8, FrameOfType
<1>11. got = Hmac(c) /\ Stands(Rest("length", r, s, p), <<>>, stream, eof)
  <2> DEFINE a == Hmac(c)
             b == Rest("length", r, s, p)
  <2>1. a \in Seq(Signs) /\ b \in Seq(Signs) /\ Len(got) = Len(a)
    BY <1>6, <1>9, <1>10
  <2>2. Stands(a \o b, got, stream, eof)
    BY <1>5, <1>9
  <2> HIDE DEF a, b
  <2>3. got = a /\ Stands(b, <<>>, stream, eof)
    BY <2>1, <2>2, PartRead
  <2> QED BY <2>3 DEF a, b
<1> HIDE DEF c
<1>12. Stands(Rest(part', recvCounter', sendCounter', First'), got', stream', eof')
  BY <1>1, <1>2, <1>11
<1>13. hmac' = Hmac(Cipher(recvCounter' + 1, First'))
  BY <1>1, <1>2, <1>11 DEF c
<1>14. recvCounter' \in 0..sendCounter' /\ recvCounter' < sendCounter'
  BY <1>1, <1>4, <1>7
<1>15. Reading'
  BY <1>1, <1>12, <1>13, <1>14 DEF Reading
<1> QED BY <1>1, <1>2, <1>3, <1>15

\* Where a frame's length or body is read, the frame has been sent.
LEMMA FrameSent ==
  ASSUME type \in Types, Sending, Reading, part # "hmac"
  PROVE  /\ First \in Payloads /\ sendCounter \in 1..2
         /\ recvCounter \in 0..(sendCounter - 1) /\ recvCounter + 1 \in 1..2
         /\ hmac = Hmac(Cipher(recvCounter + 1, First))
         /\ Cipher(recvCounter + 1, First) \in Seq(Signs)
         /\ ~TooLong => /\ Len(Cipher(recvCounter + 1, First)) \in 1..MaxPacket
                        /\ HostLen(NetLen(Len(Cipher(recvCounter + 1, First))))
                             = Len(Cipher(recvCounter + 1, First))
<1> DEFINE c == Cipher(recvCounter + 1, First)
<1>1. First \in Payloads /\ sendCounter \in 0..2 /\ Len(First) \in Nat
      /\ (TooLong <=> Len(First) > MaxPacket)
  BY FirstType
<1>2. recvCounter \in 0..sendCounter /\ recvCounter < sendCounter
      /\ hmac = Hmac(Cipher(recvCounter + 1, First))
  BY DEF Reading
<1>3. sendCounter \in 1..2 /\ recvCounter \in 0..(sendCounter - 1) /\ recvCounter + 1 \in 1..2
  BY <1>1, <1>2
<1>4. /\ c \in Seq(Signs) /\ Len(c) \in Nat \ {0}
      /\ Len(First) <= MaxPacket => Len(c) <= MaxPacket
  BY <1>1, <1>3, CipherOf
<1>5. MaxPacket \in Nat \ {0}
  BY FramesConstants
<1> HIDE DEF c
<1>6. ASSUME ~TooLong PROVE Len(c) \in 1..MaxPacket /\ HostLen(NetLen(Len(c))) = Len(c)
  <2>1. Len(First) <= MaxPacket
    BY <1>1, <1>5, <1>6
  <2>2. Len(c) \in Nat /\ Len(c) <= MaxPacket /\ Len(c) \in 1..MaxPacket
    BY <1>4, <1>5, <2>1
  <2> DEFINE n == Len(c)
  <2> HIDE DEF n
  <2>3. n \in Nat /\ n <= MaxPacket
    BY <2>2 DEF n
  <2>4. HostLen(NetLen(n)) = n
    BY <2>3, LengthBack
  <2> QED BY <2>2, <2>4 DEF n
<1> QED BY <1>1, <1>2, <1>3, <1>4, <1>6 DEF c

\* The length is there whole: it is the frame's, and is refused only over
\* the limit.
LEMMA StepLengthRead ==
  ASSUME type \in Types, Sending, Reading, Made, LengthRead
  PROVE  type' \in Types /\ Sending' /\ Reading' /\ Made'
<1> DEFINE s == sendCounter
           r == recvCounter
           p == First
           c == Cipher(r + 1, p)
           l == NetLen(Len(c))
<1>1. /\ part = "length" /\ Wanted = 0
      /\ UNCHANGED <<type, sent, toSend, sendCounter, recvCounter, stream, eof,
                     hmac, result>>
  BY DEF LengthRead
<1>2. Sending' /\ First' = First
  BY <1>1, SameSending
<1>3. /\ p \in Payloads /\ s \in 1..2 /\ r \in 0..(s - 1) /\ r + 1 \in 1..2
      /\ hmac = Hmac(c)
      /\ ~TooLong => Len(c) \in 1..MaxPacket /\ HostLen(l) = Len(c)
  BY <1>1, FrameSent
<1>4. Stands(Rest("length", r, s, p), got, stream, eof)
  BY <1>1 DEF Reading
<1>5. Len(got) = 4
  <2>1. Len(got) \in Nat
    BY <1>4, StandsType
  <2>2. 4 - Len(got) = 0
    BY <1>1, WantedIs
  <2> QED BY <2>1, <2>2
<1>6. Rest("length", r, s, p) = l \o Rest("body", r, s, p) /\ Rest("body", r, s, p) \in Seq(Signs)
  BY <1>3, PendingFrame
<1>7. l \in Seq(Signs) /\ Len(l) = 4
  BY <1>3, FrameOfType
<1> HIDE DEF l, c
<1>8. got = l /\ Stands(Rest("body", r, s, p), <<>>, stream, eof)
  <2> DEFINE b == Rest("body", r, s, p)
  <2>1. b \in Seq(Signs) /\ Len(got) = Len(l)
    BY <1>5, <1>6, <1>7
  <2>2. Stands(l \o b, got, stream, eof)
    BY <1>4, <1>6
  <2> HIDE DEF b
  <2>3. got = l /\ Stands(b, <<>>, stream, eof)
    BY <1>7, <2>1, <2>2, PartRead
  <2> QED BY <2>3 DEF b
<1>9. CASE HostLen(got) \in 1..MaxPacket
  <2>1. /\ msgLen' = HostLen(l) /\ part' = "body" /\ got' = <<>> /\ dropped' = dropped
        /\ msgLen' \in 1..MaxPacket
    BY <1>8, <1>9 DEF LengthRead
  <2>2. Made'
    BY <1>1, <2>1, SameMade
  <2>3. Stands(Rest(part', recvCounter', sendCounter', First'), got', stream', eof')
    BY <1>1, <1>2, <1>8, <2>1
  <2>4. msgLen' = HostLen(NetLen(Len(Cipher(recvCounter' + 1, First'))))
    BY <1>1, <1>2, <2>1 DEF l, c
  <2>5. hmac' = Hmac(Cipher(recvCounter' + 1, First'))
    BY <1>1, <1>2, <1>3 DEF c
  <2>6. recvCounter' \in 0..sendCounter' /\ recvCounter' < sendCounter'
    BY <1>1, <1>3
  <2>7. Reading'
    BY <2>1, <2>3, <2>4, <2>5, <2>6 DEF Reading
  <2> QED BY <1>1, <1>2, <2>2, <2>7
<1>10. CASE HostLen(got) \notin 1..MaxPacket
  <2>1. dropped' = TRUE /\ msgLen' = msgLen /\ part' = part /\ got' = got
    BY <1>10 DEF LengthRead
  <2>2. TooLong
    BY <1>3, <1>8, <1>10
  <2>3. Made'
    <3>1. TooLong' = TooLong
      BY <1>1 DEF TooLong
    <3> QED BY <1>1, <1>2, <2>1, <2>2, <3>1 DEF Made
  <2>4. Reading'
    BY <1>1, <1>2, <2>1 DEF Reading
  <2> QED BY <1>1, <1>2, <2>3, <2>4
<1> QED BY <1>9, <1>10

\* The body is there whole: it is the frame's, so its HMAC matches, it is
\* decrypted with the counter it was encrypted with, and its packet made.
LEMMA StepBodyRead ==
  ASSUME type \in Types, Sending, Reading, Made, BodyRead
  PROVE  type' \in Types /\ Sending' /\ Reading' /\ Made'
<1> DEFINE s == sendCounter
           r == recvCounter
           p == First
           c == Cipher(r + 1, p)
<1>1. /\ part = "body" /\ Wanted = 0
      /\ UNCHANGED <<type, sent, toSend, sendCounter, stream, eof, hmac, msgLen>>
  BY DEF BodyRead
<1>2. Sending' /\ First' = First
  BY <1>1, SameSending
<1>3. /\ p \in Payloads /\ s \in 1..2 /\ r \in 0..(s - 1) /\ r + 1 \in 1..2
      /\ hmac = Hmac(c) /\ c \in Seq(Signs)
      /\ ~TooLong => Len(c) \in 1..MaxPacket /\ HostLen(NetLen(Len(c))) = Len(c)
  BY <1>1, FrameSent
<1>4. Stands(Rest("body", r, s, p), got, stream, eof)
  BY <1>1 DEF Reading
<1>5. msgLen = HostLen(NetLen(Len(c))) /\ msgLen \in 1..MaxPacket
  BY <1>1 DEF Reading
<1>6. Len(got) = msgLen
  <2>1. Len(got) \in Nat
    BY <1>4, StandsType
  <2>2. msgLen - Len(got) = 0
    BY <1>1, WantedIs
  <2>3. msgLen \in Nat
    BY <1>5
  <2> QED BY <2>1, <2>2, <2>3
<1>7. /\ Rest("body", r, s, p) = c \o Rest("hmac", r + 1, s, p)
      /\ Rest("hmac", r + 1, s, p) \in Seq(Signs)
  BY <1>3, PendingFrame
<1>8. XorCrypt(c, r) = PlainOf(r + 1, p) \/ Len(c) > MaxPacket
  <2>1. (r + 1) - 1 = r
    BY <1>3
  <2>2. Len(c) <= MaxPacket => XorCrypt(c, (r + 1) - 1) = PlainOf(r + 1, p)
    BY <1>3, CipherOf
  <2>3. MaxPacket \in Nat /\ Len(c) \in Nat
    BY <1>3, FramesConstants
  <2> HIDE DEF c
  <2> QED BY <2>1, <2>2, <2>3
<1>9. CASE hmac = Hmac(got)
  <2>1. /\ result' = Append(result, Unpack(XorCrypt(got, r)))
        /\ recvCounter' = r + 1 /\ part' = "hmac" /\ got' = <<>> /\ dropped' = dropped
    BY <1>9 DEF BodyRead
  <2>2. got = c
    BY <1>3, <1>9, HmacInjective
  <2> HIDE DEF c
  <2>3. Stands(Rest("hmac", r + 1, s, p), <<>>, stream, eof)
    <3> DEFINE b == Rest("hmac", r + 1, s, p)
    <3>1. c \in Seq(Signs) /\ b \in Seq(Signs) /\ Len(got) = Len(c)
      BY <1>3, <1>7, <2>2
    <3>2. Stands(c \o b, got, stream, eof)
      BY <1>4, <1>7
    <3> HIDE DEF b
    <3>3. Stands(b, <<>>, stream, eof)
      BY <3>1, <3>2, PartRead
    <3> QED BY <3>3 DEF b
  <2>4. result' = Append(result, Unpack(PlainOf(r + 1, p)))
    <3>1. MaxPacket \in Nat /\ ~(Len(c) > MaxPacket)
      BY <1>5, <1>6, <2>2, FramesConstants
    <3> QED BY <1>8, <2>1, <2>2, <3>1
  <2>5. Made'
    <3>1. TooLong' = TooLong
      BY <1>1 DEF TooLong
    <3>2. eof' = eof /\ dropped' = dropped
      BY <1>1, <2>1
    <3>3. CASE r = 0
      <4>1. result = <<>> /\ PlainOf(r + 1, p) = First
        BY <3>3 DEF Made, PlainOf
      <4>2. result' = <<Unpack(First)>> /\ recvCounter' = 1
        BY <2>1, <2>4, <3>3, <4>1, AppendSecond
      <4> QED BY <1>2, <3>1, <3>2, <4>2 DEF Made
    <3>4. CASE r = 1
      <4>1. result = <<Unpack(First)>> /\ PlainOf(r + 1, p) = SecondPayload
        BY <3>4 DEF Made, PlainOf
      <4>2. result' = Append(<<Unpack(First)>>, Second) /\ recvCounter' = 2
        BY <2>1, <2>4, <3>4, <4>1, SecondPacket
      <4>3. Append(<<Unpack(First)>>, Second) = <<Unpack(First), Second>>
        BY AppendSecond
      <4> QED BY <1>2, <3>1, <3>2, <4>2, <4>3 DEF Made
    <3> QED BY <1>3, <3>3, <3>4
  <2>6. Stands(Rest(part', recvCounter', sendCounter', First'), got', stream', eof')
    BY <1>1, <1>2, <2>1, <2>3
  <2>7. recvCounter' \in 0..sendCounter'
    BY <1>1, <1>3, <2>1
  <2>8. Reading'
    BY <2>1, <2>6, <2>7 DEF Reading
  <2> QED BY <1>1, <1>2, <2>5, <2>8
<1>10. CASE hmac # Hmac(got)
  <2>1. dropped' = TRUE /\ result' = result /\ recvCounter' = r /\ part' = part /\ got' = got
    BY <1>10 DEF BodyRead
  <2> HIDE DEF c
  <2>2. TooLong
    <3> SUFFICES ASSUME ~TooLong PROVE FALSE
      OBVIOUS
    <3>1. Len(got) = Len(c)
      BY <1>3, <1>5, <1>6
    <3>2. got = c
      <4> DEFINE b == Rest("hmac", r + 1, s, p)
      <4>1. c \in Seq(Signs) /\ b \in Seq(Signs)
        BY <1>3, <1>7
      <4>2. Stands(c \o b, got, stream, eof)
        BY <1>4, <1>7
      <4> HIDE DEF b
      <4> QED BY <3>1, <4>1, <4>2, PartRead
    <3> QED BY <1>3, <1>10, <3>2
  <2>3. Made'
    <3>1. TooLong' = TooLong
      BY <1>1 DEF TooLong
    <3> QED BY <1>1, <1>2, <2>1, <2>2, <3>1 DEF Made
  <2>4. Reading'
    BY <1>1, <1>2, <2>1 DEF Reading
  <2> QED BY <1>1, <1>2, <2>3, <2>4
<1> QED BY <1>9, <1>10

\* The connection ends: what still comes is the beginning of what was
\* sent.
LEMMA StepEnds ==
  ASSUME type \in Types, Sending, Reading, Made, NEW n \in 0..Len(stream), Ends(n)
  PROVE  type' \in Types /\ Sending' /\ Reading' /\ Made'
<1> DEFINE rest == Rest(part, recvCounter, sendCounter, First)
<1>1. /\ toSend = <<>> /\ eof' = TRUE /\ stream' = SubSeq(stream, 1, n)
      /\ UNCHANGED <<type, sent, toSend, sendCounter, recvCounter, part, got, hmac, msgLen,
                     result, dropped>>
  BY DEF Ends, frame
<1>2. First' = First /\ TooLong' = TooLong
  BY <1>1 DEF First, TooLong
<1>3. sendCounter = 2
  BY <1>1 DEF Sending
<1>4. Sending'
  BY <1>1, <1>2, <1>3 DEF Sending
<1>5. Made'
  BY <1>1, <1>2 DEF Made
<1>6. rest \in Seq(Signs)
  BY FirstType, RestType DEF Reading
<1>7. Stands(rest, got, stream, eof)
  BY DEF Reading
<1> HIDE DEF rest
<1>8. Stands(rest, got, stream', TRUE)
  BY <1>1, <1>6, <1>7, CutOff
<1>9. Stands(Rest(part', recvCounter', sendCounter', First'), got', stream', eof')
  BY <1>1, <1>2, <1>8 DEF rest
<1>10. Reading'
  BY <1>1, <1>2, <1>9 DEF Reading
<1> QED BY <1>1, <1>4, <1>5, <1>10

\* recv returns 0: only then is a frame within the limit given up.
LEMMA StepEndOfStream ==
  ASSUME type \in Types, Sending, Reading, Made, EndOfStream
  PROVE  type' \in Types /\ Sending' /\ Reading' /\ Made'
<1>1. /\ eof /\ dropped' = TRUE
      /\ UNCHANGED <<type, sent, toSend, sendCounter, recvCounter, stream, eof, part, got,
                     hmac, msgLen, result>>
  BY DEF EndOfStream, frame
<1>2. Sending' /\ First' = First
  BY <1>1, SameSending
<1>3. Made'
  BY <1>1, <1>2 DEF Made
<1>4. Reading'
  BY <1>1, <1>2 DEF Reading
<1> QED BY <1>1, <1>2, <1>3, <1>4

\* Every step keeps the invariant.
LEMMA FrameStep == FrameInv /\ [Next]_vars => FrameInv'
<1> SUFFICES ASSUME FrameInv, [Next]_vars PROVE FrameInv'
  OBVIOUS
<1>0. type \in Types
  BY DEF FrameInv
<1>1. CASE OtherInv
  <2>1. type' \in Types /\ OtherInv'
    BY <1>0, <1>1, StepOther
  <2> QED BY <2>1 DEF FrameInv
<1>2. CASE Sending /\ Reading /\ Made
  <2>a. Sending
    BY <1>2
  <2>b. Reading
    BY <1>2
  <2>c. Made
    BY <1>2
  <2>d. ASSUME type' \in Types /\ Sending' /\ Reading' /\ Made' PROVE FrameInv'
    BY <2>d DEF FrameInv
  <2>1. CASE Send
    BY <1>0, <2>a, <2>b, <2>c, <2>d, <2>1, StepSend
  <2>2. CASE Other
    <3>1. sendCounter = 0 /\ toSend = <<>>
      BY <2>2 DEF Other
    <3>2. toSend = <<First, SecondPayload>>
      BY <2>a, <3>1 DEF Sending
    <3> QED BY <3>1, <3>2, NotEmpty
  <2>3. ASSUME NEW n \in 1..Len(stream), Recv(n) PROVE FrameInv'
    BY <1>0, <2>a, <2>b, <2>c, <2>d, <2>3, StepRecv
  <2>4. CASE HmacRead
    BY <1>0, <2>a, <2>b, <2>c, <2>d, <2>4, StepHmacRead
  <2>5. CASE LengthRead
    BY <1>0, <2>a, <2>b, <2>c, <2>d, <2>5, StepLengthRead
  <2>6. CASE BodyRead
    BY <1>0, <2>a, <2>b, <2>c, <2>d, <2>6, StepBodyRead
  <2>7. CASE EndOfStream
    BY <1>0, <2>a, <2>b, <2>c, <2>d, <2>7, StepEndOfStream
  <2>8. ASSUME NEW n \in 0..Len(stream), Ends(n) PROVE FrameInv'
    BY <1>0, <2>a, <2>b, <2>c, <2>d, <2>8, StepEnds
  <2>9. CASE UNCHANGED vars
    <3>1. UNCHANGED <<type, sent, toSend, sendCounter, recvCounter, stream, eof, part, got,
                      hmac, msgLen, result, dropped>>
      BY <2>9 DEF vars, frame
    <3>2. Sending' /\ First' = First
      BY <2>a, <3>1, SameSending
    <3>3. Made'
      BY <2>c, <3>1, SameMade
    <3>4. Reading'
      BY <2>b, <3>1, <3>2 DEF Reading
    <3>5. type' \in Types
      BY <1>0, <3>1
    <3> QED BY <2>d, <3>2, <3>3, <3>4, <3>5
  <2> QED BY <2>1, <2>2, <2>3, <2>4, <2>5, <2>6, <2>7, <2>8, <2>9 DEF Next, ReadFrame
<1> QED BY <1>1, <1>2 DEF FrameInv

\* However the bytes are cut, the receiver of a connection's frames stands
\* where the sender's frames say.  (Client.cpp:123-182, 240-251)
THEOREM FrameInvariant == Spec => []FrameInv
BY FrameInit, FrameStep, PTL DEF Spec

-----------------------------------------------------------------------------


\* The members of sequences of one and of two.
LEMMA ElementsOf ==
  ASSUME NEW a, NEW b
  PROVE  /\ <<a>>[1] = a /\ <<a>> # <<>> /\ Len(<<a>>) = 1
         /\ <<a, b>>[1] = a /\ <<a, b>>[2] = b /\ Len(<<a, b>>) = 2
         /\ Len(<<>>) = 0
OBVIOUS

\* What has been made of the frames, by their number.
LEMMA ResultOf ==
  ASSUME Sending, Reading, Made
  PROVE  /\ recvCounter \in 0..2 /\ recvCounter = Len(result)
         /\ result # <<>> => result[1] = Unpack(First)
         /\ Len(result) = 2 => result[2] = Second
<1>1. sendCounter \in 0..2
  BY DEF Sending
<1>2. recvCounter \in 0..sendCounter
  BY DEF Reading
<1>3. recvCounter = 0 \/ recvCounter = 1 \/ recvCounter = 2
  BY <1>1, <1>2
<1>4. CASE recvCounter = 0
  <2>1. result = <<>>
    BY <1>4 DEF Made
  <2> QED BY <1>4, <2>1, ElementsOf
<1>5. CASE recvCounter = 1
  <2>1. result = <<Unpack(First)>>
    BY <1>5 DEF Made
  <2>2. Len(result) = 1 /\ result[1] = Unpack(First)
    BY <2>1, ElementsOf
  <2> QED BY <1>5, <2>2
<1>6. CASE recvCounter = 2
  <2>1. result = <<Unpack(First), Second>>
    BY <1>6 DEF Made
  <2>2. Len(result) = 2 /\ result[1] = Unpack(First) /\ result[2] = Second
    BY <2>1, ElementsOf
  <2> QED BY <1>6, <2>2
<1> QED BY <1>3, <1>4, <1>5, <1>6

\* A packet sent comes back from the receiver's frames as it was, or is
\* refused if it is over a limit or a chat message with its sender,
\* whatever the strings, numbers and lists are and however the frames are
\* cut.  (Packet.cpp:64-322, Client.cpp:123-182)
THEOREM RoundTripCorrect == Spec => []RoundTrip
<1>1. FrameInv => RoundTrip
  <2> SUFFICES ASSUME FrameInv, sendCounter > 0, result # <<>>
               PROVE  IF Fits(type, sent) /\ type # "chat"
                        THEN result[1] = [ok |-> TRUE, type |-> type, value |-> sent]
                        ELSE ~result[1].ok
    BY DEF RoundTrip
  <2>1. sendCounter # 0
    OBVIOUS
  <2>2. type \in Types /\ Sending /\ Reading /\ Made
    BY <2>1 DEF FrameInv, OtherInv
  <2>3. result[1] = Unpack(Payload(type, sent))
    BY <2>2, ResultOf DEF First
  <2>4. sent \in PacketsOf(type)
    BY <2>2 DEF Sending
  <2> QED BY <2>2, <2>3, <2>4, PayloadBack
<1> QED BY <1>1, FrameInvariant, PTL

\* Whatever bytes another sender's frame holds, what is accepted
\* serializes to just these bytes.  (Packet.cpp:16-26, 64-322)
THEOREM ExactCorrect == Spec => []Exact
<1>1. FrameInv => Exact
  <2> SUFFICES ASSUME FrameInv, sendCounter = 0, result # <<>>, type # "chat", result[1].ok
               PROVE  Serialize(type, result[1].value) = Normalised
    BY DEF Exact
  <2>1. type \in Types
    BY DEF FrameInv
  <2>2. ~(Sending /\ Reading /\ Made)
    <3> SUFFICES ASSUME Sending, Reading, Made PROVE FALSE
      OBVIOUS
    <3>1. recvCounter \in 0..sendCounter
      BY DEF Reading
    <3>2. recvCounter = 0
      BY <3>1
    <3>3. result = <<>>
      BY <3>2 DEF Made
    <3> QED BY <3>3
  <2>3. OtherInv
    BY <2>2 DEF FrameInv
  <2>4. sent \in Seq(Octets) /\ result = <<Unpack(<<Code[type]>> \o sent)>>
    BY <2>3 DEF OtherInv
  <2> DEFINE u == Unpack(<<Code[type]>> \o sent)
  <2>5. result[1] = u
    <3> HIDE DEF u
    <3>1. result = <<u>>
      BY <2>4 DEF u
    <3> QED BY <3>1, ElementsOf
  <2>6. u.ok
    BY <2>5
  <2>7. Serialize(type, u.value)
          = IF type = "system" /\ sent[1] # 0 THEN [sent EXCEPT ![1] = 1] ELSE sent
    BY <2>1, <2>4, <2>6, AcceptedExactly
  <2> HIDE DEF u
  <2> QED BY <2>5, <2>7 DEF Normalised
<1> QED BY <1>1, FrameInvariant, PTL

\* Where all that came has been read, no frame is left.
LEMMA NoneLeftThenAll ==
  ASSUME type \in Types, Sending, Reading, sendCounter = 2, NoneLeft, ~eof
  PROVE  recvCounter = 2
<1> DEFINE p == First
<1>1. p \in Payloads
  BY FirstType
<1>2. recvCounter \in 0..2 /\ part = "hmac" /\ got = <<>> /\ stream = <<>>
  BY DEF Reading, NoneLeft
<1>3. Stands(Pending(recvCounter, 2, p), <<>>, <<>>, FALSE)
  <2>1. Stands(Rest(part, recvCounter, sendCounter, p), got, stream, eof)
    BY DEF Reading
  <2>2. eof = FALSE
    BY DEF Sending
  <2>3. Rest(part, recvCounter, sendCounter, p) = Pending(recvCounter, 2, p)
    BY <1>2 DEF Rest
  <2> QED BY <1>2, <2>1, <2>2, <2>3
<1>4. Len(Pending(recvCounter, 2, p)) = 0
  <2>1. Len(<<>>) + Len(<<>>) = Len(Pending(recvCounter, 2, p))
    BY <1>3 DEF Stands
  <2>2. Len(<<>>) = 0
    OBVIOUS
  <2> QED BY <2>1, <2>2
<1>5. recvCounter # 0 /\ recvCounter # 1
  <2> DEFINE f == FrameOf(1, p)
             g == FrameOf(2, p)
  <2>1. Pending(1, 2, p) = g /\ Pending(0, 2, p) = f \o g
    BY <1>1, PendingAre
  <2>2. f \in Seq(Signs) /\ g \in Seq(Signs) /\ Len(g) > 0
    BY <1>1, FrameOfType
  <2> HIDE DEF f, g
  <2>3. Len(f \o g) = Len(f) + Len(g) /\ Len(f) \in Nat
    BY <2>2
  <2>4. Len(f \o g) # 0 /\ Len(g) # 0
    <3>1. Len(g) \in Nat
      BY <2>2
    <3> QED BY <2>2, <2>3, <3>1
  <2>5. ASSUME recvCounter = 0 PROVE FALSE
    BY <1>4, <2>1, <2>4, <2>5
  <2>6. ASSUME recvCounter = 1 PROVE FALSE
    BY <1>4, <2>1, <2>4, <2>6
  <2> QED BY <2>5, <2>6
<1> QED BY <1>2, <1>5

\* Both frames are read in order, each with its counter; only a frame over
\* the limit ends the connection, and one cut off is not read.
\* (Client.cpp:123-160, 170-182, 240-251)
THEOREM FramesReadCorrect == Spec => []FramesRead
<1>1. FrameInv => FramesRead
  <2> SUFFICES ASSUME FrameInv PROVE FramesRead
    OBVIOUS
  <2>0. type \in Types
    BY DEF FrameInv
  <2>1. CASE OtherInv
    <3>1. ~dropped /\ sendCounter = 0
      BY <2>1 DEF OtherInv
    <3>2. Len(result) # 2
      <4> DEFINE u == Unpack(<<Code[type]>> \o sent)
      <4> HIDE DEF u
      <4>1. result = <<>> \/ result = <<u>>
        BY <2>1 DEF OtherInv, u
      <4>2. Len(result) = 0 \/ Len(result) = 1
        BY <4>1, ElementsOf
      <4> QED BY <4>2
    <3>3. ~(sendCounter > 0)
      BY <3>1
    <3> QED BY <3>1, <3>2, <3>3 DEF FramesRead
  <2>2. CASE Sending /\ Reading /\ Made
    <3>1. dropped /\ ~eof => TooLong
      BY <2>2 DEF Made
    <3>2. recvCounter = Len(result) /\ (Len(result) = 2 => result[2] = Second)
      BY <2>2, ResultOf
    <3>3. ASSUME sendCounter > 0, NoneLeft, ~eof PROVE Len(result) = 2
      <4>1. toSend = <<>>
        BY <3>3 DEF NoneLeft
      <4>2. sendCounter = 2
        <5>1. sendCounter # 0
          BY <3>3
        <5>2. ~(sendCounter = 1 /\ toSend = <<SecondPayload>>)
          BY <4>1, NotEmpty
        <5> QED BY <2>2, <5>1, <5>2 DEF Sending
      <4>3. recvCounter = 2
        BY <2>0, <2>2, <3>3, <4>2, NoneLeftThenAll
      <4> QED BY <3>2, <4>3
    <3> QED BY <3>1, <3>2, <3>3 DEF FramesRead
  <2> QED BY <2>1, <2>2 DEF FrameInv
<1> QED BY <1>1, FrameInvariant, PTL

=============================================================================
