--------------------------- MODULE PacketsProofs ----------------------------
(***************************************************************************)
(* That the codec of Packet.cpp gives back what it was given               *)
(* (PayloadBack), and accepts only what it makes of bytes that serialize   *)
(* to them again (AcceptedExactly), for all strings, numbers, lists and    *)
(* images that the constants may be and, the second, for any bytes at all. *)
(* The reads are recursive functions: each is unfolded by induction over a *)
(* set of numbers (ReadStringsDef, ReadFieldsDef, PacketsOfDef), and told  *)
(* by what it does at the last field (ReadFieldsAppend). Holds is how both *)
(* theorems speak of bytes: where a field's bytes are, the field is read,  *)
(* and what is read was there.                                             *)
(***************************************************************************)
EXTENDS Packets, SequenceTheorems, FiniteSetTheorems, WellFoundedInduction, TLAPS

\* Induction over the numbers, told of a set: whatever holds of 0 and goes
\* from n to n + 1 holds of all.
LEMMA SetInduction ==
  ASSUME NEW S, 0 \in S, \A n \in Nat : n \in S => n + 1 \in S
  PROVE  Nat \subseteq S
<1> DEFINE R == {ss \in Nat \X Nat : ss[1] < ss[2]}
           T == Nat \ S
<1>1. SUFFICES ASSUME T # {} PROVE FALSE
  OBVIOUS
<1>2. IsWellFoundedOn(R, Nat)
  BY NatLessThanWellFounded, Zenon DEF OpToRel
<1>3. PICK x \in T : \A y \in T : ~(<<y, x>> \in R)
  BY <1>1, <1>2, WFMin, Zenon
<1>4. x \in Nat /\ x # 0 /\ x - 1 \in Nat
  OBVIOUS
<1>5. <<x - 1, x>> \in R
  BY <1>4
<1> QED BY <1>3, <1>4, <1>5

\* read is the course of reading n strings from offset off: read[k] after
\* k of them.
OneByOne(read, data, off, n) ==
  /\ read[0] = Got(<<>>, off)
  /\ \A k \in 1..n : read[k] = IF read[k - 1].ok
                                THEN Then(read[k - 1], ReadString(data, read[k - 1].off))
                                ELSE Fail

\* ReadStrings unfolds: it is the end of such a course.
LEMMA ReadStringsDef ==
  ASSUME NEW data, NEW off, NEW n \in Nat
  PROVE  \E read : ReadStrings(data, off, n) = read[n] /\ OneByOne(read, data, off, n)
<1> DEFINE Step(f, k) == IF k = 0 THEN Got(<<>>, off)
                         ELSE IF f[k - 1].ok
                                THEN Then(f[k - 1], ReadString(data, f[k - 1].off))
                                ELSE Fail
           S == {m \in Nat : \E f : f = [k \in 0..m |-> Step(f, k)]}
           Read == CHOOSE f : f = [k \in 0..n |-> Step(f, k)]
<1>1. 0 \in S
  <2> DEFINE f == [k \in 0..0 |-> Got(<<>>, off)]
  <2> f = [k \in 0..0 |-> Step(f, k)]
    OBVIOUS
  <2> QED OBVIOUS
<1>2. ASSUME NEW m \in Nat, m \in S PROVE m + 1 \in S
  <2>1. PICK f : f = [k \in 0..m |-> Step(f, k)]
    BY <1>2
  <2> DEFINE g == [k \in 0..(m + 1) |-> IF k = m + 1 THEN Step(f, k) ELSE f[k]]
  <2>2. ASSUME NEW k \in 0..(m + 1) PROVE g[k] = Step(g, k)
    <3>1. k # 0 => k - 1 \in 0..m /\ g[k - 1] = f[k - 1]
      OBVIOUS
    <3>2. k # m + 1 => k \in 0..m /\ g[k] = f[k] /\ f[k] = Step(f, k)
      BY <2>1
    <3>3. Step(g, k) = Step(f, k)
      BY <3>1
    <3> QED BY <3>2, <3>3
  <2>3. g = [k \in 0..(m + 1) |-> Step(g, k)]
    BY <2>2
  <2> HIDE DEF g
  <2> QED BY <2>3
<1>3. Nat \subseteq S
  <2> HIDE DEF S
  <2> QED BY <1>1, <1>2, SetInduction
<1>4. Read = [k \in 0..n |-> Step(Read, k)]
  BY <1>3
<1>5. ReadStrings(data, off, n) = Read[n]
  BY DEF ReadStrings
<1> HIDE DEF Read
<1>6. Read[0] = Got(<<>>, off)
  BY <1>4
<1>7. \A k \in 1..n : Read[k] = Step(Read, k)
  BY <1>4
<1>8. OneByOne(Read, data, off, n)
  BY <1>6, <1>7 DEF OneByOne
<1> QED BY <1>5, <1>8

-----------------------------------------------------------------------------


\* FlattenSeq unfolds: it appends one sequence after the other.
LEMMA FlattenDef ==
  ASSUME NEW seqs, Len(seqs) \in Nat \ {0}
  PROVE  \E flat : /\ FlattenSeq(seqs) = flat[Len(seqs)]
                   /\ flat[1] = seqs[1]
                   /\ \A k \in 2..Len(seqs) : flat[k] = flat[k - 1] \o seqs[k]
<1> DEFINE n == Len(seqs)
           Step(f, k) == IF k = 1 THEN seqs[k] ELSE f[k - 1] \o seqs[k]
           S == {m \in Nat : \E f : f = [k \in 1..m |-> Step(f, k)]}
           Flat == CHOOSE f : f = [k \in 1..n |-> Step(f, k)]
<1>1. 0 \in S
  <2> DEFINE f == [k \in 1..0 |-> seqs[k]]
  <2> f = [k \in 1..0 |-> Step(f, k)]
    OBVIOUS
  <2> HIDE DEF f
  <2> QED OBVIOUS
<1>2. ASSUME NEW m \in Nat, m \in S PROVE m + 1 \in S
  <2>1. PICK f : f = [k \in 1..m |-> Step(f, k)]
    BY <1>2
  <2>a. \A k \in 1..m : f[k] = Step(f, k)
    <3> HIDE DEF Step
    <3> QED BY <2>1
  <2> DEFINE g == [k \in 1..(m + 1) |-> IF k = m + 1 THEN Step(f, k) ELSE f[k]]
  <2>2. ASSUME NEW k \in 1..(m + 1) PROVE g[k] = Step(g, k)
    <3>1. k # 1 => k - 1 \in 1..m /\ g[k - 1] = f[k - 1]
      OBVIOUS
    <3>2. k # m + 1 => k \in 1..m /\ g[k] = f[k] /\ f[k] = Step(f, k)
      <4> HIDE DEF Step
      <4> QED BY <2>a
    <3>3. Step(g, k) = Step(f, k)
      BY <3>1
    <3> QED BY <3>2, <3>3
  <2>3. g = [k \in 1..(m + 1) |-> Step(g, k)]
    BY <2>2
  <2> HIDE DEF g, Step
  <2> QED BY <2>3
<1>3. Nat \subseteq S
  <2> HIDE DEF S
  <2> QED BY <1>1, <1>2, SetInduction
<1>4. Flat = [k \in 1..n |-> Step(Flat, k)]
  BY <1>3
<1>5. FlattenSeq(seqs) = Flat[n]
  BY DEF FlattenSeq
<1>a. \A k \in 1..n : Flat[k] = Step(Flat, k)
  <2> HIDE DEF Flat, Step, n
  <2> QED BY <1>4
<1>b. n \in Nat \ {0}
  OBVIOUS
<1> HIDE DEF Flat, n
<1>6. Flat[1] = seqs[1]
  BY <1>a, <1>b
<1>7. ASSUME NEW k \in 2..n PROVE Flat[k] = Flat[k - 1] \o seqs[k]
  <2>1. k \in 1..n /\ k # 1
    BY <1>b
  <2>2. Flat[k] = Step(Flat, k)
    BY <1>a, <2>1
  <2> QED BY <2>1, <2>2
<1> USE DEF n
<1> QED BY <1>5, <1>6, <1>7

\* Of no sequences it makes none.
LEMMA FlattenEmpty == FlattenSeq(<<>>) = <<>>
BY DEF FlattenSeq

\* One sequence more comes at the end.
LEMMA FlattenAppend ==
  ASSUME NEW S, NEW ss \in Seq(Seq(S)), NEW s \in Seq(S)
  PROVE  FlattenSeq(Append(ss, s)) = FlattenSeq(ss) \o s
<1> DEFINE n  == Len(ss)
           tt == Append(ss, s)
<1>1. /\ n \in Nat /\ Len(tt) = n + 1 /\ tt[n + 1] = s
      /\ \A k \in 1..n : tt[k] = ss[k]
  OBVIOUS
<1>2. PICK g : /\ FlattenSeq(tt) = g[n + 1]
               /\ g[1] = tt[1]
               /\ \A k \in 2..(n + 1) : g[k] = g[k - 1] \o tt[k]
  <2>1. Len(tt) \in Nat \ {0} /\ Len(tt) = n + 1
    BY <1>1
  <2> HIDE DEF n, tt
  <2>2. PICK g : /\ FlattenSeq(tt) = g[Len(tt)]
                 /\ g[1] = tt[1]
                 /\ \A k \in 2..Len(tt) : g[k] = g[k - 1] \o tt[k]
    BY <2>1, FlattenDef
  <2> QED BY <2>1, <2>2
<1> HIDE DEF tt
<1>3. CASE n = 0
  <2>1. ss = <<>>
    BY <1>3
  <2>2. FlattenSeq(tt) = s
    BY <1>1, <1>2, <1>3
  <2>3. <<>> \o s = s
    OBVIOUS
  <2> QED BY <2>1, <2>2, <2>3, FlattenEmpty DEF tt
<1>4. CASE n # 0
  <2>1. PICK f : /\ FlattenSeq(ss) = f[n]
                 /\ f[1] = ss[1]
                 /\ \A k \in 2..n : f[k] = f[k - 1] \o ss[k]
    BY <1>1, <1>4, FlattenDef
  <2> DEFINE T == {m \in Nat : m + 1 \in 1..n => g[m + 1] = f[m + 1]}
  <2>2. 0 \in T
    BY <1>1, <1>2, <2>1
  <2>3. ASSUME NEW m \in Nat, m \in T PROVE m + 1 \in T
    <3> SUFFICES ASSUME (m + 1) + 1 \in 1..n PROVE g[(m + 1) + 1] = f[(m + 1) + 1]
      OBVIOUS
    <3> HIDE DEF n
    <3>1. /\ m + 1 \in 1..n /\ (m + 1) + 1 \in 2..n /\ (m + 1) + 1 \in 2..(n + 1)
          /\ ((m + 1) + 1) - 1 = m + 1
      BY <1>1
    <3>2. g[m + 1] = f[m + 1]
      BY <2>3, <3>1
    <3>3. g[(m + 1) + 1] = g[m + 1] \o tt[(m + 1) + 1]
      BY <1>2, <3>1
    <3>4. f[(m + 1) + 1] = f[m + 1] \o ss[(m + 1) + 1]
      BY <2>1, <3>1
    <3>5. tt[(m + 1) + 1] = ss[(m + 1) + 1]
      BY <1>1
    <3> QED BY <3>2, <3>3, <3>4, <3>5
  <2>4. Nat \subseteq T
    <3> HIDE DEF T
    <3> QED BY <2>2, <2>3, SetInduction
  <2>5. g[n] = f[n]
    <3>1. n - 1 \in Nat /\ (n - 1) + 1 = n /\ n \in 1..n
      BY <1>1, <1>4
    <3> HIDE DEF n
    <3>2. n - 1 \in T
      BY <2>4, <3>1
    <3>3. (n - 1) + 1 \in 1..n => g[(n - 1) + 1] = f[(n - 1) + 1]
      BY <3>2
    <3> QED BY <3>1, <3>3
  <2>6. g[n + 1] = g[n] \o tt[n + 1]
    <3>1. n + 1 \in 2..(n + 1) /\ (n + 1) - 1 = n
      BY <1>1, <1>4
    <3> HIDE DEF n
    <3>2. g[n + 1] = g[(n + 1) - 1] \o tt[n + 1]
      BY <1>2, <3>1
    <3> QED BY <3>1, <3>2
  <2> HIDE DEF n
  <2> QED BY <1>1, <1>2, <2>1, <2>5, <2>6 DEF tt
<1> QED BY <1>3, <1>4

\* What it makes of sequences over S is one over S.
LEMMA FlattenType ==
  ASSUME NEW S, NEW ss \in Seq(Seq(S))
  PROVE  FlattenSeq(ss) \in Seq(S)
<1> DEFINE T == {n \in Nat : \A tt \in Seq(Seq(S)) :
                                Len(tt) = n => FlattenSeq(tt) \in Seq(S)}
<1>1. 0 \in T
  BY FlattenEmpty
<1>2. ASSUME NEW n \in Nat, n \in T PROVE n + 1 \in T
  <2> SUFFICES ASSUME NEW tt \in Seq(Seq(S)), Len(tt) = n + 1
               PROVE  FlattenSeq(tt) \in Seq(S)
    OBVIOUS
  <2> DEFINE uu == SubSeq(tt, 1, n)
  <2>1. uu \in Seq(Seq(S)) /\ Len(uu) = n /\ tt[n + 1] \in Seq(S)
    OBVIOUS
  <2>2. tt = Append(uu, tt[n + 1])
    OBVIOUS
  <2>3. FlattenSeq(uu) \in Seq(S)
    BY <1>2, <2>1
  <2> HIDE DEF uu
  <2>4. FlattenSeq(tt) = FlattenSeq(uu) \o tt[n + 1]
    BY <2>1, <2>2, FlattenAppend
  <2> QED BY <2>1, <2>3, <2>4
<1>3. Nat \subseteq T
  <2> HIDE DEF T
  <2> QED BY <1>1, <1>2, SetInduction
<1> QED BY <1>3

\* After offset off, data has these bytes.
Holds(data, off, bytes) ==
  /\ off + Len(bytes) <= Len(data)
  /\ \A i \in 1..Len(bytes) : data[off + i] = bytes[i]

\* To have a \o b is to have a, and b after it.
LEMMA HoldsConcat ==
  ASSUME NEW S, NEW data \in Seq(S), NEW off \in Nat,
         NEW a \in Seq(S), NEW b \in Seq(S)
  PROVE  Holds(data, off, a \o b) <=> Holds(data, off, a) /\ Holds(data, off + Len(a), b)
<1>1. /\ Len(a) \in Nat /\ Len(b) \in Nat /\ Len(a \o b) = Len(a) + Len(b)
      /\ \A i \in 1..Len(a) : (a \o b)[i] = a[i]
      /\ \A i \in 1..Len(b) : (a \o b)[Len(a) + i] = b[i]
  OBVIOUS
<1>2. ASSUME Holds(data, off, a \o b)
      PROVE  Holds(data, off, a) /\ Holds(data, off + Len(a), b)
  <2>1. Holds(data, off, a)
    BY <1>1, <1>2 DEF Holds
  <2>2. ASSUME NEW i \in 1..Len(b) PROVE data[(off + Len(a)) + i] = b[i]
    <3>1. Len(a) + i \in 1..Len(a \o b) /\ off + (Len(a) + i) = (off + Len(a)) + i
      BY <1>1
    <3>2. data[off + (Len(a) + i)] = (a \o b)[Len(a) + i]
      BY <1>2, <3>1 DEF Holds
    <3> QED BY <1>1, <3>1, <3>2
  <2> QED BY <1>1, <1>2, <2>1, <2>2 DEF Holds
<1>3. ASSUME Holds(data, off, a), Holds(data, off + Len(a), b)
      PROVE  Holds(data, off, a \o b)
  <2> DEFINE c == a \o b
  <2> SUFFICES ASSUME NEW i \in 1..Len(c) PROVE data[off + i] = c[i]
    BY <1>1, <1>3 DEF Holds
  <2>1. CASE i <= Len(a)
    BY <1>1, <1>3, <2>1 DEF Holds
  <2>2. CASE i > Len(a)
    <3>1. i - Len(a) \in 1..Len(b) /\ i = Len(a) + (i - Len(a))
      BY <1>1, <2>2
    <3>2. c[i] = b[i - Len(a)]
      BY <1>1, <3>1
    <3>3. data[(off + Len(a)) + (i - Len(a))] = b[i - Len(a)]
      BY <1>3, <3>1 DEF Holds
    <3> QED BY <1>1, <3>1, <3>2, <3>3
  <2> QED BY <1>1, <2>1, <2>2
<1> QED BY <1>2, <1>3

\* To have b is to have what b begins with.
LEMMA HoldsWithin ==
  ASSUME NEW S, NEW data \in Seq(S), NEW off \in Nat,
         NEW a \in Seq(S), NEW b \in Seq(S),
         Holds(data, off, b), Holds(b, 0, a)
  PROVE  Holds(data, off, a)
BY DEF Holds

\* To have as many bytes as one is long is to be them.
LEMMA HoldsAll ==
  ASSUME NEW S, NEW data \in Seq(S), NEW bytes \in Seq(S),
         Holds(data, 0, bytes), Len(bytes) = Len(data)
  PROVE  bytes = data
BY SeqEqual DEF Holds

\* A flattened sequence begins with what its first k members flatten to.
LEMMA FlattenPrefix ==
  ASSUME NEW S, NEW ss \in Seq(Seq(S)), NEW k \in 0..Len(ss)
  PROVE  Holds(FlattenSeq(ss), 0, FlattenSeq(SubSeq(ss, 1, k)))
<1> DEFINE Upto(j) == FlattenSeq(SubSeq(ss, 1, j))
           T == {n \in Nat : k + n <= Len(ss) => Holds(Upto(k + n), 0, Upto(k))}
<1>1. ASSUME NEW j \in 0..Len(ss)
      PROVE  SubSeq(ss, 1, j) \in Seq(Seq(S)) /\ Upto(j) \in Seq(S)
  <2>1. SubSeq(ss, 1, j) \in Seq(Seq(S))
    OBVIOUS
  <2> QED BY <2>1, FlattenType
<1>2. 0 \in T
  BY <1>1 DEF Holds
<1>3. ASSUME NEW n \in Nat, n \in T PROVE n + 1 \in T
  <2> SUFFICES ASSUME k + (n + 1) <= Len(ss)
               PROVE  Holds(Upto(k + (n + 1)), 0, Upto(k))
    OBVIOUS
  <2> DEFINE j == k + n
  <2>1. j \in 0..Len(ss) /\ j + 1 \in 0..Len(ss) /\ ss[j + 1] \in Seq(S)
    OBVIOUS
  <2>2. SubSeq(ss, 1, j + 1) = Append(SubSeq(ss, 1, j), ss[j + 1])
    BY <2>1
  <2> HIDE DEF j
  <2>3. Upto(j + 1) = Upto(j) \o ss[j + 1]
    BY <1>1, <2>1, <2>2, FlattenAppend
  <2>4. Holds(Upto(j), 0, Upto(k))
    BY <1>3 DEF j
  <2>5. Upto(j) \in Seq(S) /\ Upto(k) \in Seq(S)
    BY <1>1, <2>1
  <2> HIDE DEF Upto
  <2>6. Holds(Upto(j + 1), 0, Upto(k))
    BY <2>1, <2>3, <2>4, <2>5 DEF Holds
  <2> QED BY <2>6 DEF j
<1>4. Nat \subseteq T
  <2> HIDE DEF T
  <2> QED BY <1>2, <1>3, SetInduction
<1>5. SubSeq(ss, 1, Len(ss)) = ss
  OBVIOUS
<1>6. Len(ss) - k \in Nat /\ k + (Len(ss) - k) = Len(ss)
  OBVIOUS
<1>7. Holds(Upto(k + (Len(ss) - k)), 0, Upto(k))
  <2>1. Len(ss) - k \in T
    BY <1>4, <1>6
  <2> HIDE DEF Upto
  <2> QED BY <1>6, <2>1
<1> HIDE DEF Upto
<1>8. Holds(Upto(Len(ss)), 0, Upto(k))
  BY <1>6, <1>7
<1> QED BY <1>5, <1>8 DEF Upto

-----------------------------------------------------------------------------


\* A byte, and the bytes of a string: any but NUL.
Octets == 0..255
Text   == Seq(1..255)

\* A set of numbers with a member has a smallest.
LEMMA MinOf ==
  ASSUME NEW S \in SUBSET Nat, S # {}
  PROVE  Min(S) \in S /\ \A y \in S : Min(S) <= y
<1> DEFINE R == {ss \in Nat \X Nat : ss[1] < ss[2]}
<1>1. IsWellFoundedOn(R, Nat)
  BY NatLessThanWellFounded, Zenon DEF OpToRel
<1>2. PICK x \in S : \A y \in S : ~(<<y, x>> \in R)
  BY <1>1, WFMin, Zenon
<1>3. \A y \in S : x <= y
  <2> SUFFICES ASSUME NEW y \in S PROVE x <= y
    OBVIOUS
  <2>1. ~(<<y, x>> \in R)
    BY <1>2
  <2> QED BY <2>1
<1> QED BY <1>2, <1>3 DEF Min

\* What a read that succeeded gives.
LEMMA GotFields ==
  ASSUME NEW v, NEW off
  PROVE  Got(v, off).ok /\ Got(v, off).value = v /\ Got(v, off).off = off
BY DEF Got

\* The same without the flag, for the provers' sake.
LEMMA GotValue ==
  ASSUME NEW v, NEW off
  PROVE  Got(v, off).value = v /\ Got(v, off).off = off
BY DEF Got

\* A read that failed has not succeeded.
LEMMA FailField == ~Fail.ok
BY DEF Fail

\* One field after another: the value is appended, the offset the
\* second's.
LEMMA ThenGot ==
  ASSUME NEW v, NEW off, NEW w, NEW end
  PROVE  Then(Got(v, off), Got(w, end)) = Got(Append(v, w), end)
BY GotFields DEF Then

\* If a read followed by another is successful, the second was.
LEMMA ThenOk ==
  ASSUME NEW r, NEW f, Then(r, f).ok
  PROVE  f.ok /\ Then(r, f) = Got(Append(r.value, f.value), f.off)
BY FailField DEF Then

\* The length of two sequences, one after the other.
LEMMA LenConcat ==
  ASSUME NEW S, NEW a \in Seq(S), NEW b \in Seq(S)
  PROVE  Len(a) \in Nat /\ Len(b) \in Nat /\ Len(a \o b) = Len(a) + Len(b)
OBVIOUS

\* A string's bytes are its own and one NUL after them.
\* (Packet.cpp:182-186)
LEMMA StringBytesType ==
  ASSUME NEW s \in Text
  PROVE  /\ StringBytes(s) \in Seq(Octets) /\ Len(StringBytes(s)) = Len(s) + 1
         /\ StringBytes(s)[Len(s) + 1] = 0
         /\ \A i \in 1..Len(s) : StringBytes(s)[i] = s[i] /\ s[i] # 0
<1>1. s \in Seq(Octets) /\ 0 \in Octets
  BY SeqMonotonic DEF Text, Octets
<1>2. ASSUME NEW i \in 1..Len(s) PROVE s[i] # 0
  <2>1. s[i] \in 1..255
    BY ElementOfSeq DEF Text
  <2>2. \A x \in 1..255 : x # 0
    OBVIOUS
  <2> QED BY <2>1, <2>2
<1>3. /\ Append(s, 0) \in Seq(Octets) /\ Len(Append(s, 0)) = Len(s) + 1
      /\ Append(s, 0)[Len(s) + 1] = 0
      /\ \A i \in 1..Len(s) : Append(s, 0)[i] = s[i]
  BY <1>1, AppendProperties
<1> QED BY <1>2, <1>3 DEF StringBytes

\* Where a string's bytes are, ReadString gives the string and the offset
\* after the NUL.
LEMMA ReadStringBack ==
  ASSUME NEW data \in Seq(Octets), NEW off \in Nat, NEW s \in Text,
         Holds(data, off, StringBytes(s))
  PROVE  ReadString(data, off) = Got(s, off + Len(StringBytes(s)))
<1> DEFINE nuls == {i \in (off + 1)..Len(data) : data[i] = 0}
           m == off + Len(s) + 1
<1>1. /\ Len(s) \in Nat /\ Len(data) \in Nat /\ m <= Len(data) /\ data[m] = 0
      /\ \A i \in 1..Len(s) : data[off + i] = s[i] /\ s[i] # 0
  <2>1. /\ Len(StringBytes(s)) = Len(s) + 1 /\ StringBytes(s)[Len(s) + 1] = 0
        /\ \A i \in 1..Len(s) : StringBytes(s)[i] = s[i] /\ s[i] # 0
    BY StringBytesType
  <2>2. Len(s) \in Nat /\ Len(data) \in Nat
    BY DEF Text
  <2>3. /\ off + (Len(s) + 1) <= Len(data)
        /\ \A i \in 1..(Len(s) + 1) : data[off + i] = StringBytes(s)[i]
    BY <2>1 DEF Holds
  <2>4. Len(s) + 1 \in 1..(Len(s) + 1) /\ off + (Len(s) + 1) = m
    BY <2>2
  <2>5. data[m] = 0
    BY <2>1, <2>3, <2>4
  <2> QED BY <2>1, <2>2, <2>3, <2>4, <2>5
<1>2. nuls \in SUBSET Nat /\ m \in nuls
  BY <1>1
<1>3. Min(nuls) \in nuls /\ Min(nuls) <= m
  <2> HIDE DEF nuls, m
  <2> QED BY <1>2, MinOf
<1>4. Min(nuls) = m
  <2> SUFFICES ASSUME NEW x \in nuls, x < m PROVE FALSE
    BY <1>1, <1>3
  <2>1. x - off \in 1..Len(s) /\ off + (x - off) = x
    BY <1>1
  <2> QED BY <1>1, <2>1
<1>5. SubSeq(data, off + 1, m - 1) = s
  <2>1. m - 1 = off + Len(s) /\ m - 1 <= Len(data)
    BY <1>1
  <2> DEFINE t == SubSeq(data, off + 1, m - 1)
  <2>2. t \in Seq(Octets) /\ Len(t) = Len(s) /\ \A i \in 1..Len(s) : t[i] = data[off + i]
    BY <1>1, <2>1
  <2>3. s \in Seq(Octets)
    BY SeqMonotonic DEF Text, Octets
  <2> HIDE DEF t
  <2> QED BY <1>1, <2>2, <2>3, SeqEqual DEF t
<1>6. off + Len(StringBytes(s)) = m
  <2>1. Len(StringBytes(s)) = Len(s) + 1
    BY StringBytesType
  <2> QED BY <1>1, <2>1
<1>7. nuls # {}
  BY <1>2
<1> HIDE DEF m
<1> QED BY <1>4, <1>5, <1>6, <1>7 DEF ReadString

\* What ReadString gives was there, byte by byte, up to the offset it
\* gives.
LEMMA ReadStringExact ==
  ASSUME NEW data \in Seq(Octets), NEW off \in 0..Len(data),
         ReadString(data, off).ok
  PROVE  LET r == ReadString(data, off) IN
           /\ r.value \in Text
           /\ Holds(data, off, StringBytes(r.value))
           /\ r.off = off + Len(StringBytes(r.value))
           /\ r.off \in 0..Len(data)
<1> DEFINE nuls == {i \in (off + 1)..Len(data) : data[i] = 0}
           m == Min(nuls)
           t == SubSeq(data, off + 1, m - 1)
<1>1. nuls # {} /\ ReadString(data, off) = Got(t, m)
  BY FailField DEF ReadString
<1>2. nuls \in SUBSET Nat
  OBVIOUS
<1>3. m \in nuls /\ \A i \in nuls : m <= i
  <2> HIDE DEF nuls
  <2> QED BY <1>1, <1>2, MinOf
<1>4. Len(data) \in Nat /\ m \in (off + 1)..Len(data) /\ data[m] = 0 /\ off \in Nat
  BY <1>3
<1>5. \A i \in (off + 1)..(m - 1) : data[i] \in 1..255
  <2> SUFFICES ASSUME NEW i \in (off + 1)..(m - 1) PROVE data[i] \in 1..255
    OBVIOUS
  <2> HIDE DEF m
  <2>1. i \in (off + 1)..Len(data) /\ ~(m <= i)
    BY <1>4
  <2>2. data[i] # 0
    BY <1>3, <2>1
  <2>3. data[i] \in Octets
    BY <1>4, <2>1
  <2> QED BY <2>2, <2>3 DEF Octets
<1>6. t \in Text /\ Len(t) = m - off - 1 /\ \A i \in 1..Len(t) : t[i] = data[off + i]
  <2> HIDE DEF m
  <2>1. /\ t \in Seq(1..255)
        /\ Len(t) = IF off + 1 <= m - 1 THEN (m - 1) - (off + 1) + 1 ELSE 0
        /\ \A i \in 1..((m - 1) - (off + 1) + 1) : t[i] = data[(off + 1) + i - 1]
    <3> HIDE DEF t
    <3> QED BY <1>4, <1>5, SubSeqProperties DEF t
  <2> HIDE DEF t
  <2> QED BY <1>4, <2>1 DEF Text
<1> HIDE DEF m, t
<1>7. Holds(data, off, StringBytes(t)) /\ m = off + Len(StringBytes(t))
  <2>1. /\ Len(StringBytes(t)) = Len(t) + 1 /\ StringBytes(t)[Len(t) + 1] = 0
        /\ \A i \in 1..Len(t) : StringBytes(t)[i] = t[i]
    BY <1>6, StringBytesType
  <2>2. off + Len(t) + 1 = m /\ Len(t) \in Nat
    BY <1>4, <1>6
  <2> SUFFICES ASSUME NEW i \in 1..(Len(t) + 1) PROVE data[off + i] = StringBytes(t)[i]
    BY <1>4, <2>1, <2>2 DEF Holds
  <2>3. CASE i = Len(t) + 1
    BY <1>4, <2>1, <2>2, <2>3
  <2>4. CASE i # Len(t) + 1
    <3>1. i \in 1..Len(t)
      BY <2>2, <2>4
    <3> QED BY <1>6, <2>1, <3>1
  <2> QED BY <2>3, <2>4
<1>8. m \in 0..Len(data)
  BY <1>4
<1> QED BY <1>1, <1>6, <1>7, <1>8, GotFields, SMTT(30)

-----------------------------------------------------------------------------
\* Of no strings there are no bytes.
LEMMA StringsBytesEmpty == StringsBytes(<<>>) = <<>>
<1>1. [i \in DOMAIN <<>> |-> StringBytes(<<>>[i])] = <<>>
  OBVIOUS
<1> QED BY <1>1, FlattenEmpty DEF StringsBytes

\* The last string's bytes come last.
LEMMA StringsBytesAppend ==
  ASSUME NEW ss \in Seq(Text), NEW s \in Text
  PROVE  StringsBytes(Append(ss, s)) = StringsBytes(ss) \o StringBytes(s)
<1> DEFINE bb == [i \in DOMAIN ss |-> StringBytes(ss[i])]
           cc == [i \in DOMAIN Append(ss, s) |-> StringBytes(Append(ss, s)[i])]
<1>1. /\ Len(ss) \in Nat /\ DOMAIN ss = 1..Len(ss)
      /\ DOMAIN Append(ss, s) = 1..(Len(ss) + 1)
      /\ \A i \in 1..Len(ss) : Append(ss, s)[i] = ss[i] /\ ss[i] \in Text
      /\ Append(ss, s)[Len(ss) + 1] = s
  OBVIOUS
<1>2. bb \in Seq(Seq(Octets)) /\ Len(bb) = Len(ss)
  <2>1. \A i \in 1..Len(ss) : StringBytes(ss[i]) \in Seq(Octets)
    BY <1>1, StringBytesType
  <2> QED BY <1>1, <2>1
<1>3. StringBytes(s) \in Seq(Octets)
  BY StringBytesType
<1>4. cc = Append(bb, StringBytes(s))
  <2>1. cc \in Seq(Seq(Octets)) /\ Len(cc) = Len(ss) + 1
    <3>1. \A i \in 1..(Len(ss) + 1) : StringBytes(Append(ss, s)[i]) \in Seq(Octets)
      BY <1>1, StringBytesType
    <3> QED BY <1>1, <3>1
  <2>2. /\ Append(bb, StringBytes(s)) \in Seq(Seq(Octets))
        /\ Len(Append(bb, StringBytes(s))) = Len(ss) + 1
    <3> HIDE DEF bb
    <3> QED BY <1>2, <1>3
  <2>3. \A i \in 1..(Len(ss) + 1) : cc[i] = Append(bb, StringBytes(s))[i]
    <3> SUFFICES ASSUME NEW i \in 1..(Len(ss) + 1)
                 PROVE  cc[i] = Append(bb, StringBytes(s))[i]
      OBVIOUS
    <3>1. CASE i = Len(ss) + 1
      BY <1>1, <1>2, <3>1
    <3>2. CASE i # Len(ss) + 1
      BY <1>1, <1>2, <3>2
    <3> QED BY <3>1, <3>2
  <2> HIDE DEF bb, cc
  <2> QED BY <2>1, <2>2, <2>3, SeqEqual
<1> HIDE DEF bb, cc
<1>5. FlattenSeq(cc) = FlattenSeq(bb) \o StringBytes(s)
  BY <1>2, <1>3, <1>4, FlattenAppend
<1> QED BY <1>5 DEF StringsBytes, bb, cc

\* They are bytes.
LEMMA StringsBytesType ==
  ASSUME NEW ss \in Seq(Text)
  PROVE  StringsBytes(ss) \in Seq(Octets)
<1> DEFINE bb == [i \in DOMAIN ss |-> StringBytes(ss[i])]
<1>1. bb \in Seq(Seq(Octets))
  <2>1. \A i \in 1..Len(ss) : StringBytes(ss[i]) \in Seq(Octets)
    BY StringBytesType
  <2> QED BY <2>1
<1> HIDE DEF bb
<1> QED BY <1>1, FlattenType DEF StringsBytes, bb

\* The first k strings' bytes come first.
LEMMA StringsBytesPrefix ==
  ASSUME NEW ss \in Seq(Text), NEW k \in 0..Len(ss)
  PROVE  Holds(StringsBytes(ss), 0, StringsBytes(SubSeq(ss, 1, k)))
<1> DEFINE bb == [i \in DOMAIN ss |-> StringBytes(ss[i])]
           tt == SubSeq(ss, 1, k)
<1>1. bb \in Seq(Seq(Octets)) /\ Len(bb) = Len(ss)
  <2>1. \A i \in 1..Len(ss) : StringBytes(ss[i]) \in Seq(Octets)
    BY StringBytesType
  <2> QED BY <2>1
<1>2. [i \in DOMAIN tt |-> StringBytes(tt[i])] = SubSeq(bb, 1, k)
  OBVIOUS
<1> HIDE DEF bb
<1>3. Holds(FlattenSeq(bb), 0, FlattenSeq(SubSeq(bb, 1, k)))
  BY <1>1, FlattenPrefix
<1> QED BY <1>2, <1>3 DEF StringsBytes, bb

-----------------------------------------------------------------------------


\* The first k + 1 strings are the first k and one more, in bytes too.
LEMMA StringsUpto ==
  ASSUME NEW ss \in Seq(Text), NEW k \in Nat, k + 1 <= Len(ss)
  PROVE  /\ SubSeq(ss, 1, k) \in Seq(Text) /\ ss[k + 1] \in Text
         /\ SubSeq(ss, 1, k + 1) = Append(SubSeq(ss, 1, k), ss[k + 1])
         /\ StringsBytes(SubSeq(ss, 1, k + 1))
              = StringsBytes(SubSeq(ss, 1, k)) \o StringBytes(ss[k + 1])
<1>1. SubSeq(ss, 1, k) \in Seq(Text) /\ ss[k + 1] \in Text
  OBVIOUS
<1>2. SubSeq(ss, 1, k + 1) = Append(SubSeq(ss, 1, k), ss[k + 1])
  OBVIOUS
<1> QED BY <1>1, <1>2, StringsBytesAppend

\* Where the bytes of strings are, ReadStrings gives as many of them as it
\* is asked for.
LEMMA ReadStringsBack ==
  ASSUME NEW data \in Seq(Octets), NEW off \in Nat, NEW ss \in Seq(Text),
         Holds(data, off, StringsBytes(ss)), NEW n \in Nat, n <= Len(ss)
  PROVE  ReadStrings(data, off, n)
           = Got(SubSeq(ss, 1, n), off + Len(StringsBytes(SubSeq(ss, 1, n))))
<1>1. PICK read : ReadStrings(data, off, n) = read[n] /\ OneByOne(read, data, off, n)
  BY ReadStringsDef
<1>a. /\ read[0] = Got(<<>>, off)
      /\ \A k \in 1..n : read[k] = IF read[k - 1].ok
                                THEN Then(read[k - 1], ReadString(data, read[k - 1].off))
                                ELSE Fail
  BY <1>1 DEF OneByOne
<1> DEFINE tt(k)  == SubSeq(ss, 1, k)
           end(k) == off + Len(StringsBytes(tt(k)))
           T == {k \in Nat : k <= n => read[k] = Got(tt(k), end(k))}
<1>2. 0 \in T
  <2>1. tt(0) = <<>>
    OBVIOUS
  <2>2. end(0) = off
    <3>1. Len(<<>>) = 0
      OBVIOUS
    <3> HIDE DEF tt
    <3> QED BY <2>1, <3>1, StringsBytesEmpty
  <2> QED BY <1>a, <2>1, <2>2
<1>3. ASSUME NEW k \in Nat, k \in T PROVE k + 1 \in T
  <2> SUFFICES ASSUME k + 1 <= n PROVE read[k + 1] = Got(tt(k + 1), end(k + 1))
    OBVIOUS
  <2>1. /\ k + 1 \in 1..n /\ k + 1 <= Len(ss) /\ (k + 1) - 1 = k /\ k <= n
        /\ k + 1 \in 0..Len(ss)
    OBVIOUS
  <2>2. /\ tt(k) \in Seq(Text) /\ ss[k + 1] \in Text /\ tt(k + 1) = Append(tt(k), ss[k + 1])
        /\ StringsBytes(tt(k + 1)) = StringsBytes(tt(k)) \o StringBytes(ss[k + 1])
    BY <2>1, StringsUpto
  <2>3. tt(k + 1) \in Seq(Text)
    BY <2>1
  <2>4. read[k] = Got(tt(k), end(k))
    BY <1>3, <2>1
  <2>5. /\ StringsBytes(ss) \in Seq(Octets)
        /\ StringsBytes(tt(k)) \in Seq(Octets) /\ StringsBytes(tt(k + 1)) \in Seq(Octets)
        /\ StringBytes(ss[k + 1]) \in Seq(Octets)
    BY <2>2, <2>3, StringsBytesType, StringBytesType
  <2>6. Holds(data, off, StringsBytes(tt(k + 1)))
    <3>1. Holds(StringsBytes(ss), 0, StringsBytes(tt(k + 1)))
      BY <2>1, StringsBytesPrefix
    <3> HIDE DEF tt
    <3> QED BY <2>5, <3>1, HoldsWithin
  <2> HIDE DEF tt
  <2>7. Holds(data, end(k), StringBytes(ss[k + 1]))
    <3>1. Holds(data, off, StringsBytes(tt(k)) \o StringBytes(ss[k + 1]))
      BY <2>2, <2>6
    <3> QED BY <2>5, <3>1, HoldsConcat
  <2>8. end(k) \in Nat
    BY <2>5
  <2>9. end(k + 1) = end(k) + Len(StringBytes(ss[k + 1]))
    <3>1. /\ Len(StringsBytes(tt(k))) \in Nat /\ Len(StringBytes(ss[k + 1])) \in Nat
          /\ Len(StringsBytes(tt(k)) \o StringBytes(ss[k + 1]))
               = Len(StringsBytes(tt(k))) + Len(StringBytes(ss[k + 1]))
      BY <2>5, LenConcat
    <3>2. Len(StringsBytes(tt(k + 1)))
            = Len(StringsBytes(tt(k))) + Len(StringBytes(ss[k + 1]))
      BY <2>2, <3>1
    <3> QED BY <3>1, <3>2, SMTT(30)
  <2> HIDE DEF end
  <2>10. ReadString(data, end(k)) = Got(ss[k + 1], end(k + 1))
    BY <2>2, <2>7, <2>8, <2>9, ReadStringBack
  <2>11. read[k + 1] = IF read[k].ok THEN Then(read[k], ReadString(data, read[k].off)) ELSE Fail
    BY <1>a, <2>1
  <2>12. read[k + 1] = Then(Got(tt(k), end(k)), ReadString(data, end(k)))
    BY <2>4, <2>11, GotFields
  <2>13. read[k + 1] = Got(Append(tt(k), ss[k + 1]), end(k + 1))
    BY <2>10, <2>12, ThenGot
  <2> QED BY <2>2, <2>13
<1>4. Nat \subseteq T
  <2> HIDE DEF T
  <2> QED BY <1>2, <1>3, SetInduction
<1> HIDE DEF tt, end
<1>5. read[n] = Got(tt(n), end(n))
  BY <1>4
<1> QED BY <1>1, <1>5 DEF tt, end

\* What ReadStrings gives was there, byte by byte, and is as many strings
\* as asked for.
LEMMA ReadStringsExact ==
  ASSUME NEW data \in Seq(Octets), NEW off \in 0..Len(data), NEW n \in Nat,
         ReadStrings(data, off, n).ok
  PROVE  LET r == ReadStrings(data, off, n) IN
           /\ r.value \in Seq(Text) /\ Len(r.value) = n
           /\ Holds(data, off, StringsBytes(r.value))
           /\ r.off = off + Len(StringsBytes(r.value))
           /\ r.off \in 0..Len(data)
<1>1. PICK read : ReadStrings(data, off, n) = read[n] /\ OneByOne(read, data, off, n)
  BY ReadStringsDef
<1>a. /\ read[0] = Got(<<>>, off)
      /\ \A k \in 1..n : read[k] = IF read[k - 1].ok
                                THEN Then(read[k - 1], ReadString(data, read[k - 1].off))
                                ELSE Fail
  BY <1>1 DEF OneByOne
<1> DEFINE Right(k, r) == /\ r.value \in Seq(Text) /\ Len(r.value) = k
                          /\ Holds(data, off, StringsBytes(r.value))
                          /\ r.off = off + Len(StringsBytes(r.value))
                          /\ r.off \in 0..Len(data)
           T == {k \in Nat : k <= n /\ read[k].ok => Right(k, read[k])}
<1>2. 0 \in T
  <2>1. /\ Got(<<>>, off).value = <<>> /\ Got(<<>>, off).off = off
    BY GotFields
  <2>2. Holds(data, off, <<>>)
    BY DEF Holds
  <2>3. off = off + Len(<<>>) /\ <<>> \in Seq(Text) /\ Len(<<>>) = 0
    OBVIOUS
  <2>4. Right(0, Got(<<>>, off))
    BY <2>1, <2>2, <2>3, StringsBytesEmpty
  <2> HIDE DEF Right
  <2> QED BY <1>a, <2>4
<1>3. ASSUME NEW k \in Nat, k \in T PROVE k + 1 \in T
  <2> SUFFICES ASSUME k + 1 <= n, read[k + 1].ok PROVE Right(k + 1, read[k + 1])
    <3> HIDE DEF Right
    <3> QED OBVIOUS
  <2>1. k + 1 \in 1..n /\ (k + 1) - 1 = k /\ k <= n
    OBVIOUS
  <2> DEFINE r == read[k]
             f == ReadString(data, r.off)
  <2>2. read[k + 1] = IF r.ok THEN Then(r, f) ELSE Fail
    BY <1>a, <2>1
  <2>3. r.ok /\ f.ok /\ read[k + 1] = Got(Append(r.value, f.value), f.off)
    <3> HIDE DEF r, f
    <3>1. r.ok
      BY <2>2, FailField
    <3>2. read[k + 1] = Then(r, f)
      BY <2>2, <3>1
    <3> QED BY <3>1, <3>2, ThenOk
  <2>4. Right(k, r)
    BY <1>3, <2>1, <2>3
  <2>5. /\ f.value \in Text
        /\ Holds(data, r.off, StringBytes(f.value))
        /\ f.off = r.off + Len(StringBytes(f.value))
        /\ f.off \in 0..Len(data)
    BY <2>3, <2>4, ReadStringExact
  <2> HIDE DEF r, f
  <2> DEFINE vv == Append(r.value, f.value)
  <2>6. read[k + 1].value = vv /\ read[k + 1].off = f.off
    <3>1. read[k + 1] = Got(vv, f.off)
      BY <2>3
    <3> HIDE DEF vv
    <3> QED BY <3>1, GotValue
  <2>7. StringsBytes(vv) = StringsBytes(r.value) \o StringBytes(f.value)
    BY <2>4, <2>5, StringsBytesAppend
  <2>8. StringsBytes(r.value) \in Seq(Octets) /\ StringBytes(f.value) \in Seq(Octets)
    BY <2>4, <2>5, StringsBytesType, StringBytesType
  <2>9. vv \in Seq(Text) /\ Len(vv) = k + 1
    BY <2>4, <2>5
  <2>10. Holds(data, off, StringsBytes(vv))
    BY <2>4, <2>5, <2>7, <2>8, HoldsConcat
  <2>11. f.off = off + Len(StringsBytes(vv))
    BY <2>4, <2>5, <2>7, <2>8
  <2> HIDE DEF vv
  <2> QED BY <2>5, <2>6, <2>9, <2>10, <2>11
<1>4. Nat \subseteq T
  <2> HIDE DEF T
  <2> QED BY <1>2, <1>3, SetInduction
<1>5. Right(n, read[n])
  <2>1. n \in T
    BY <1>4
  <2> HIDE DEF Right
  <2> QED BY <1>1, <2>1
<1> QED BY <1>1, <1>5

\* As many NULs as strings.
LEMMA NulCount ==
  ASSUME NEW data \in Seq(Octets), NEW off \in Nat, NEW ss \in Seq(Text),
         Holds(data, off, StringsBytes(ss)),
         off + Len(StringsBytes(ss)) = Len(data)
  PROVE  Cardinality({i \in (off + 1)..Len(data) : data[i] = 0}) = Len(ss)
<1> DEFINE tt(k)  == SubSeq(ss, 1, k)
           end(k) == off + Len(StringsBytes(tt(k)))
           nuls(k) == {i \in (off + 1)..end(k) : data[i] = 0}
           T == {k \in Nat : k <= Len(ss) => IsFiniteSet(nuls(k)) /\ Cardinality(nuls(k)) = k}
<1>1. 0 \in T
  <2>1. tt(0) = <<>>
    OBVIOUS
  <2>2. end(0) = off
    <3>1. Len(<<>>) = 0
      OBVIOUS
    <3> HIDE DEF tt
    <3> QED BY <2>1, <3>1, StringsBytesEmpty
  <2>3. nuls(0) = {}
    BY <2>2
  <2> QED BY <2>3, FS_EmptySet
<1>2. ASSUME NEW k \in Nat, k \in T PROVE k + 1 \in T
  <2> SUFFICES ASSUME k + 1 <= Len(ss)
               PROVE  IsFiniteSet(nuls(k + 1)) /\ Cardinality(nuls(k + 1)) = k + 1
    OBVIOUS
  <2>1. /\ tt(k) \in Seq(Text) /\ tt(k + 1) \in Seq(Text) /\ ss[k + 1] \in Text
        /\ StringsBytes(tt(k + 1)) = StringsBytes(tt(k)) \o StringBytes(ss[k + 1])
    BY StringsUpto
  <2>2. IsFiniteSet(nuls(k)) /\ Cardinality(nuls(k)) = k
    BY <1>2
  <2>3. /\ StringsBytes(ss) \in Seq(Octets)
        /\ StringsBytes(tt(k)) \in Seq(Octets) /\ StringsBytes(tt(k + 1)) \in Seq(Octets)
        /\ StringBytes(ss[k + 1]) \in Seq(Octets)
    BY <2>1, StringsBytesType, StringBytesType
  <2>4. Holds(data, off, StringsBytes(tt(k + 1)))
    <3>1. Holds(StringsBytes(ss), 0, StringsBytes(tt(k + 1)))
      BY StringsBytesPrefix
    <3> HIDE DEF tt
    <3> QED BY <2>3, <3>1, HoldsWithin
  <2> HIDE DEF tt
  <2>5. Holds(data, end(k), StringBytes(ss[k + 1]))
    <3> DEFINE b == StringsBytes(tt(k))
               c == StringBytes(ss[k + 1])
    <3>1. b \in Seq(Octets) /\ c \in Seq(Octets) /\ Holds(data, off, b \o c)
      BY <2>1, <2>3, <2>4
    <3> HIDE DEF b, c
    <3>2. Holds(data, off + Len(b), c)
      BY <3>1, HoldsConcat
    <3> QED BY <3>2 DEF b, c
  <2>6. end(k) \in Nat /\ end(k) >= off /\ end(k + 1) = end(k) + Len(StringBytes(ss[k + 1]))
    <3>1. /\ Len(StringsBytes(tt(k))) \in Nat /\ Len(StringBytes(ss[k + 1])) \in Nat
          /\ Len(StringsBytes(tt(k)) \o StringBytes(ss[k + 1]))
               = Len(StringsBytes(tt(k))) + Len(StringBytes(ss[k + 1]))
      BY <2>3, LenConcat
    <3>2. Len(StringsBytes(tt(k + 1)))
            = Len(StringsBytes(tt(k))) + Len(StringBytes(ss[k + 1]))
      BY <2>1, <3>1
    <3> QED BY <3>1, <3>2, SMTT(30)
  <2> DEFINE s == ss[k + 1]
             e == end(k)
  <2>7. /\ Len(StringBytes(s)) = Len(s) + 1 /\ StringBytes(s)[Len(s) + 1] = 0
        /\ \A i \in 1..Len(s) : StringBytes(s)[i] # 0
        /\ Len(s) \in Nat
    <3> HIDE DEF s
    <3>1. s \in Text
      BY <2>1 DEF s
    <3>2. Len(s) \in Nat
      BY <3>1 DEF Text
    <3> QED BY <3>1, <3>2, StringBytesType
  <2> HIDE DEF s, e
  <2>8. \A i \in 1..(Len(s) + 1) : data[e + i] = StringBytes(s)[i]
    BY <2>5, <2>7 DEF Holds, s, e
  <2>9. data[e + (Len(s) + 1)] = 0 /\ \A i \in 1..Len(s) : data[e + i] # 0
    BY <2>7, <2>8
  <2> DEFINE x == e + (Len(s) + 1)
  <2>10. end(k + 1) = x /\ e \in Nat /\ e >= off
    BY <2>6, <2>7 DEF s, e
  <2>11. nuls(k) = {i \in (off + 1)..e : data[i] = 0}
    BY DEF e
  <2> HIDE DEF end
  <2>12. nuls(k + 1) = nuls(k) \cup {x}
    <3>1. ASSUME NEW i \in (off + 1)..x, data[i] = 0 PROVE i <= e \/ i = x
      <4> SUFFICES ASSUME ~(i <= e), i # x PROVE FALSE
        OBVIOUS
      <4>1. i - e \in 1..Len(s) /\ e + (i - e) = i
        BY <2>7, <2>10, SMTT(30)
      <4> QED BY <2>9, <3>1, <4>1
    <3>2. nuls(k + 1) = {i \in (off + 1)..x : data[i] = 0}
      BY <2>10
    <3> QED BY <2>7, <2>9, <2>10, <2>11, <3>1, <3>2
  <2>13. x \notin nuls(k)
    BY <2>7, <2>10, <2>11
  <2> HIDE DEF nuls, x
  <2>14. /\ IsFiniteSet(nuls(k) \cup {x})
         /\ Cardinality(nuls(k) \cup {x}) = Cardinality(nuls(k)) + 1
    BY <2>2, <2>13, FS_AddElement
  <2> QED BY <2>2, <2>12, <2>14
<1>3. Nat \subseteq T
  <2> HIDE DEF T
  <2> QED BY <1>1, <1>2, SetInduction
<1>4. tt(Len(ss)) = ss /\ Len(ss) \in Nat
  OBVIOUS
<1>5. end(Len(ss)) = Len(data)
  BY <1>4
<1> HIDE DEF end, tt
<1>6. Cardinality(nuls(Len(ss))) = Len(ss)
  <2>1. Len(ss) \in T
    BY <1>3, <1>4
  <2> HIDE DEF nuls
  <2> QED BY <1>4, <2>1
<1> QED BY <1>5, <1>6

-----------------------------------------------------------------------------


\* The types of SmallPackets and of ContentPackets, by name.
SmallTypes == {"handshake", "keepalive", "keepalive_ack", "nick_request", "nick_ack",
  "nick_notify", "join_request", "join_ack", "join_notify", "leave_notify", "room_list",
  "user_list"}
ContentTypes == {"chat", "system", "disconnect", "kick", "ban", "dm_request", "dm", "image"}

\* There are no others.
LEMMA TypesAre == Types = SmallTypes \cup ContentTypes
<1>1. DOMAIN SmallPackets = SmallTypes
  BY DEF SmallPackets, SmallTypes
<1>2. DOMAIN ContentPackets = ContentTypes
  BY DEF ContentPackets, ContentTypes
<1> QED BY <1>1, <1>2 DEF Types, WriteLayout

\* What the layouts of the types are.  All but a chat message's are read
\* as they are written.
LEMMA Layouts ==
  /\ \A t \in Types : t # "chat" => ReadLayout[t] = WriteLayout[t]
  /\ ReadLayout["chat"] = <<"string">>
  /\ WriteLayout["chat"] = <<"string", "string">>
  /\ WriteLayout["system"] = <<"flag", "number", "params">>
  /\ WriteLayout["image"] = <<"string", "string", "string", "string", "data">>
  /\ WriteLayout["keepalive_ack"] = <<>>
  /\ \A t \in Types \ {"system", "image"} :
       WriteLayout[t] \in
         {<<>>, <<"number">>, <<"string">>, <<"string", "string">>, <<"strings">>}
<1>1. DOMAIN SmallPackets = SmallTypes
  BY DEF SmallPackets, SmallTypes
<1>2. DOMAIN ContentPackets = ContentTypes
  BY DEF ContentPackets, ContentTypes
<1>3. \A t \in SmallTypes :
        SmallPackets[t] \in
          {<<>>, <<"number">>, <<"string">>, <<"string", "string">>, <<"strings">>}
  BY DEF SmallPackets, SmallTypes
<1>4. \A t \in ContentTypes \ {"system", "image"} :
        ContentPackets[t] \in
          {<<>>, <<"number">>, <<"string">>, <<"string", "string">>, <<"strings">>}
  BY DEF ContentPackets, ContentTypes
<1>5. /\ \A t \in SmallTypes : WriteLayout[t] = SmallPackets[t]
      /\ \A t \in ContentTypes : WriteLayout[t] = ContentPackets[t]
  BY <1>1, <1>2 DEF WriteLayout, SmallTypes, ContentTypes
<1>6. /\ ContentPackets["chat"] = <<"string", "string">>
      /\ ContentPackets["system"] = <<"flag", "number", "params">>
      /\ ContentPackets["image"] = <<"string", "string", "string", "string", "data">>
      /\ SmallPackets["keepalive_ack"] = <<>>
  BY DEF ContentPackets, SmallPackets
<1>7. /\ {"chat", "system", "image"} \subseteq ContentTypes /\ "keepalive_ack" \in SmallTypes
  BY DEF SmallTypes, ContentTypes
<1>8. DOMAIN WriteLayout = Types
  BY DEF Types
<1>9. /\ \A t \in Types : t # "chat" => ReadLayout[t] = WriteLayout[t]
      /\ ReadLayout["chat"] = <<"string">>
  <2> HIDE DEF Types
  <2>1. "chat" \in Types
    BY <1>7, TypesAre
  <2> QED BY <1>8, <2>1 DEF ReadLayout
<1> QED BY <1>3, <1>4, <1>5, <1>6, <1>7, <1>9, TypesAre

\* A type's code is a byte, and no two types have one.
LEMMA Codes ==
  /\ \A t \in Types : Code[t] \in 0..255
  /\ \A t, u \in Types : Code[t] = Code[u] => t = u
<1>1. \A t \in Types : Code[t] \in 0..255
  BY TypesAre DEF Code, SmallTypes, ContentTypes
<1>2. \A t, u \in Types : Code[t] = Code[u] => t = u
  BY TypesAre DEF Code, SmallTypes, ContentTypes
<1> QED BY <1>1, <1>2

-----------------------------------------------------------------------------


\* The kinds of fields.
Kinds == {"number", "flag", "string", "strings", "params", "data"}

\* Numbers of 16 bits.
Shorts == 0..(256 * 256 - 1)

\* A number and its lowest byte.
LEMMA DivMod ==
  ASSUME NEW n \in Nat
  PROVE  /\ n \div 256 \in Nat /\ n % 256 \in Octets
         /\ n % 256 = n - 256 * (n \div 256)
BY DEF Octets

\* A number is what htons made of it.
LEMMA TwoBytes ==
  ASSUME NEW v \in Shorts
  PROVE  /\ (v \div 256) % 256 \in Octets /\ v % 256 \in Octets
         /\ 256 * ((v \div 256) % 256) + (v % 256) = v
<1>1. v \in Nat /\ v < 256 * 256
  <2> DEFINE m == 256 * 256
  <2>1. m \in Nat
    OBVIOUS
  <2>2. Shorts = 0..(m - 1)
    BY DEF Shorts
  <2> HIDE DEF m
  <2>3. v \in Nat /\ v < m
    BY <2>1, <2>2
  <2> QED BY <2>3 DEF m
<1>2. v \div 256 \in 0..255
  BY <1>1
<1>3. (v \div 256) % 256 = v \div 256
  BY <1>2
<1> QED BY <1>1, <1>2, <1>3, DivMod DEF Octets

\* The values a field of a kind may have.
Valid ==
  [number |-> Shorts, flag |-> BOOLEAN, string |-> Text, strings |-> Seq(Text),
   params |-> Seq(Text), data |-> Seq(Octets)]

\* The same one by one.
LEMMA ValidIs ==
  /\ Valid["number"] = Shorts
  /\ Valid["flag"] = BOOLEAN
  /\ Valid["string"] = Text
  /\ Valid["strings"] = Seq(Text)
  /\ Valid["params"] = Seq(Text)
  /\ Valid["data"] = Seq(Octets)
BY DEF Valid

\* The constants give every kind valid values only.
LEMMA ValuesValid ==
  ASSUME NEW kind \in Kinds
  PROVE  Values(kind) \subseteq Valid[kind]
<1>1. /\ Strings \subseteq Text /\ Numbers \subseteq Shorts /\ Images \subseteq Seq(Octets)
  BY PacketsAssumption DEF Text, Octets, Shorts
<1>2. StringLists \subseteq Seq(Text)
  <2> SUFFICES ASSUME NEW ss \in StringLists PROVE ss \in Seq(Text)
    OBVIOUS
  <2>1. ss \in Seq(Strings)
    BY PacketsAssumption
  <2> QED BY <1>1, <2>1, SeqMonotonic
<1>3. /\ Values("number") = Numbers /\ Values("flag") = BOOLEAN
      /\ Values("string") = Strings /\ Values("strings") = StringLists
      /\ Values("params") = StringLists /\ Values("data") = Images
  BY Zenon DEF Values
<1> QED BY <1>1, <1>2, <1>3, ValidIs DEF Kinds

\* The bytes of a field, kind by kind.
LEMMA FieldBytesAre ==
  /\ \A v : FieldBytes("number", v) = <<(v \div 256) % 256, v % 256>>
  /\ \A v : FieldBytes("flag", v) = <<IF v THEN 1 ELSE 0>>
  /\ \A v : FieldBytes("string", v) = StringBytes(v)
  /\ \A v : FieldBytes("strings", v) = StringsBytes(v)
  /\ \A v : FieldBytes("params", v) = <<Len(v) % 256>> \o StringsBytes(v)
  /\ \A v : FieldBytes("data", v) = v
<1>1. \A v : FieldBytes("number", v) = <<(v \div 256) % 256, v % 256>>
  BY Zenon DEF FieldBytes
<1>2. \A v : FieldBytes("flag", v) = <<IF v THEN 1 ELSE 0>>
  BY Zenon DEF FieldBytes
<1>3. \A v : FieldBytes("string", v) = StringBytes(v)
  BY Zenon DEF FieldBytes
<1>4. \A v : FieldBytes("strings", v) = StringsBytes(v)
  BY Zenon DEF FieldBytes
<1>5. \A v : FieldBytes("params", v) = <<Len(v) % 256>> \o StringsBytes(v)
  BY Zenon DEF FieldBytes
<1>6. \A v : FieldBytes("data", v) = v
  BY Zenon DEF FieldBytes
<1> QED BY <1>1, <1>2, <1>3, <1>4, <1>5, <1>6

\* They are bytes.
LEMMA FieldBytesType ==
  ASSUME NEW kind \in Kinds, NEW v \in Valid[kind]
  PROVE  FieldBytes(kind, v) \in Seq(Octets)
<1>1. CASE kind = "number"
  <2>1. v \in Shorts
    BY <1>1, ValidIs
  <2> DEFINE high == (v \div 256) % 256
             low  == v % 256
  <2>2. high \in Octets /\ low \in Octets
    BY <2>1, TwoBytes
  <2>3. FieldBytes(kind, v) = <<high, low>>
    BY <1>1, FieldBytesAre
  <2> HIDE DEF high, low
  <2>4. <<high, low>> \in Seq(Octets)
    BY <2>2
  <2> QED BY <2>3, <2>4
<1>2. CASE kind = "flag"
  <2> DEFINE b == IF v THEN 1 ELSE 0
  <2>1. FieldBytes(kind, v) = <<b>>
    BY <1>2, FieldBytesAre
  <2>2. b \in Octets
    BY DEF Octets
  <2> HIDE DEF b
  <2>3. <<b>> \in Seq(Octets)
    BY <2>2
  <2> QED BY <2>1, <2>3
<1>3. CASE kind = "string"
  BY <1>3, FieldBytesAre, StringBytesType, ValidIs
<1>4. CASE kind = "strings"
  BY <1>4, FieldBytesAre, StringsBytesType, ValidIs
<1>5. CASE kind = "params"
  <2>1. v \in Seq(Text)
    BY <1>5, ValidIs
  <2> DEFINE n == Len(v) % 256
             b == StringsBytes(v)
  <2>2. n \in Octets
    BY <2>1, DivMod
  <2>3. FieldBytes(kind, v) = <<n>> \o b
    BY <1>5, FieldBytesAre
  <2>4. b \in Seq(Octets)
    BY <2>1, StringsBytesType
  <2> HIDE DEF n, b
  <2>5. <<n>> \o b \in Seq(Octets)
    BY <2>2, <2>4
  <2> QED BY <2>3, <2>5
<1>6. CASE kind = "data"
  BY <1>6, FieldBytesAre, ValidIs
<1> QED BY <1>1, <1>2, <1>3, <1>4, <1>5, <1>6 DEF Kinds

\* ReadField of a number: two bytes, the higher first.
LEMMA ReadNumber ==
  ASSUME NEW data, NEW off
  PROVE  ReadField("number", data, off) =
           IF Len(data) - off < 2 THEN Fail
           ELSE Got(256 * data[off + 1] + data[off + 2], off + 2)
BY Zenon DEF ReadField

\* ReadField of a flag: one byte.
LEMMA ReadFlag ==
  ASSUME NEW data, NEW off
  PROVE  ReadField("flag", data, off) =
           IF Len(data) - off < 1 THEN Fail ELSE Got(data[off + 1] # 0, off + 1)
BY Zenon DEF ReadField

\* ReadField of a string.
LEMMA ReadText ==
  ASSUME NEW data, NEW off
  PROVE  ReadField("string", data, off) = ReadString(data, off)
BY Zenon DEF ReadField

\* ReadField of a list: as many strings as there are NULs left.
LEMMA ReadList ==
  ASSUME NEW data, NEW off
  PROVE  ReadField("strings", data, off) =
           ReadStrings(data, off, Cardinality({i \in (off + 1)..Len(data) : data[i] = 0}))
BY Zenon DEF ReadField

\* ReadField of parameters: their number, and as many strings.
LEMMA ReadParams ==
  ASSUME NEW data, NEW off
  PROVE  ReadField("params", data, off) =
           IF Len(data) - off < 1 \/ data[off + 1] > MaxParams THEN Fail
           ELSE ReadStrings(data, off + 1, data[off + 1])
BY Zenon DEF ReadField

\* ReadField of an image's contents: all that is left.
LEMMA ReadData ==
  ASSUME NEW data, NEW off
  PROVE  ReadField("data", data, off) =
           IF Len(data) - off > MaxImage THEN Fail
           ELSE Got(SubSeq(data, off + 1, Len(data)), Len(data))
BY Zenon DEF ReadField

\* No more is left after this kind of field than what it takes.
TakesRest == {"strings", "data"}

\* The limits that a receiver sets a field: MAX_SYS_PARAMS and
\* MAX_IMAGE_DATA_SIZE.
Within(kind, v) ==
  /\ kind = "params" => Len(v) <= MaxParams
  /\ kind = "data" => Len(v) <= MaxImage

\* The number of parameters fits a byte.
LEMMA ShortLen ==
  ASSUME NEW n \in Nat, n <= 16
  PROVE  n % 256 = n /\ n \in Octets
<1>1. n \in 0..255
  OBVIOUS
<1>2. n % 256 = n
  BY <1>1
<1> QED BY <1>1, <1>2 DEF Octets

\* Where the bytes of strings are, all are read if all are asked for.
LEMMA ReadStringsAll ==
  ASSUME NEW data \in Seq(Octets), NEW off \in Nat, NEW ss \in Seq(Text),
         Holds(data, off, StringsBytes(ss))
  PROVE  ReadStrings(data, off, Len(ss)) = Got(ss, off + Len(StringsBytes(ss)))
<1> DEFINE n == Len(ss)
<1>1. n \in Nat /\ n <= n /\ n <= Len(ss) /\ SubSeq(ss, 1, n) = ss
  OBVIOUS
<1> HIDE DEF n
<1>2. ReadStrings(data, off, n)
        = Got(SubSeq(ss, 1, n), off + Len(StringsBytes(SubSeq(ss, 1, n))))
  BY <1>1, ReadStringsBack
<1> QED BY <1>1, <1>2 DEF n

\* Where a field's bytes are, ReadField gives its value and the offset
\* after it; a field that takes the rest must be the last.
LEMMA ReadFieldBack ==
  ASSUME NEW data \in Seq(Octets), NEW off \in Nat,
         NEW kind \in Kinds, NEW v \in Valid[kind],
         Holds(data, off, FieldBytes(kind, v)), Within(kind, v),
         kind \in TakesRest => off + Len(FieldBytes(kind, v)) = Len(data)
  PROVE  ReadField(kind, data, off) = Got(v, off + Len(FieldBytes(kind, v)))
<1>0. Len(data) \in Nat
  OBVIOUS
<1>1. CASE kind = "number"
  <2>1. v \in Shorts
    BY <1>1, ValidIs
  <2> DEFINE high == (v \div 256) % 256
             low  == v % 256
  <2>2. FieldBytes(kind, v) = <<high, low>>
    BY <1>1, FieldBytesAre
  <2>4. 256 * high + low = v
    BY <2>1, TwoBytes
  <2> HIDE DEF high, low
  <2>3. off + 2 <= Len(data) /\ data[off + 1] = high /\ data[off + 2] = low
    BY <2>2 DEF Holds
  <2>5. Len(FieldBytes(kind, v)) = 2
    BY <2>2
  <2>6. ~(Len(data) - off < 2)
    BY <1>0, <2>3
  <2>7. ReadField(kind, data, off) = Got(256 * data[off + 1] + data[off + 2], off + 2)
    BY <1>1, <2>6, ReadNumber
  <2> QED BY <2>3, <2>4, <2>5, <2>7
<1>2. CASE kind = "flag"
  <2>1. v \in BOOLEAN
    BY <1>2, ValidIs
  <2> DEFINE b == IF v THEN 1 ELSE 0
  <2>2. FieldBytes(kind, v) = <<b>>
    BY <1>2, FieldBytesAre
  <2>b. b = IF v THEN 1 ELSE 0
    OBVIOUS
  <2> HIDE DEF b
  <2>3. off + 1 <= Len(data) /\ data[off + 1] = b
    BY <2>2 DEF Holds
  <2>4. Len(FieldBytes(kind, v)) = 1
    BY <2>2
  <2>5. ~(Len(data) - off < 1)
    BY <1>0, <2>3
  <2>6. (data[off + 1] # 0) = v
    BY <2>1, <2>3, <2>b
  <2>7. ReadField(kind, data, off) = Got(data[off + 1] # 0, off + 1)
    BY <1>2, <2>5, ReadFlag
  <2> QED BY <2>4, <2>6, <2>7, Zenon
<1>3. CASE kind = "string"
  <2>1. v \in Text
    BY <1>3, ValidIs
  <2>2. FieldBytes(kind, v) = StringBytes(v) /\ ReadField(kind, data, off) = ReadString(data, off)
    BY <1>3, FieldBytesAre, ReadText
  <2> QED BY <2>1, <2>2, ReadStringBack
<1>4. CASE kind = "strings"
  <2>1. v \in Seq(Text)
    BY <1>4, ValidIs
  <2>2. FieldBytes(kind, v) = StringsBytes(v)
    BY <1>4, FieldBytesAre
  <2>3. Holds(data, off, StringsBytes(v)) /\ off + Len(StringsBytes(v)) = Len(data)
    BY <1>4, <2>2 DEF TakesRest
  <2>4. Cardinality({i \in (off + 1)..Len(data) : data[i] = 0}) = Len(v)
    BY <2>1, <2>3, NulCount
  <2>5. ReadField(kind, data, off) = ReadStrings(data, off, Len(v))
    BY <1>4, <2>4, ReadList
  <2> QED BY <2>1, <2>2, <2>3, <2>5, ReadStringsAll
<1>5. CASE kind = "params"
  <2>1. v \in Seq(Text) /\ Len(v) \in Nat /\ Len(v) <= 16
    BY <1>5, ValidIs DEF Within, MaxParams
  <2> DEFINE a == <<Len(v) % 256>>
             b == StringsBytes(v)
  <2>2. FieldBytes(kind, v) = a \o b
    BY <1>5, FieldBytesAre
  <2>3. Len(v) % 256 = Len(v) /\ Len(v) \in Octets
    BY <2>1, ShortLen
  <2>4. a \in Seq(Octets) /\ b \in Seq(Octets) /\ Len(a) = 1 /\ a[1] = Len(v)
    BY <2>1, <2>3, StringsBytesType
  <2> HIDE DEF a
  <2>5. Holds(data, off, a) /\ Holds(data, off + 1, b)
    <3>1. Holds(data, off, a \o b)
      BY <2>2
    <3> HIDE DEF b
    <3> QED BY <2>4, <3>1, HoldsConcat
  <2>6. off + 1 <= Len(data) /\ data[off + 1] = Len(v)
    BY <2>4, <2>5 DEF Holds
  <2>7. ReadField(kind, data, off) = ReadStrings(data, off + 1, Len(v))
    <3>1. ~(Len(data) - off < 1 \/ data[off + 1] > MaxParams)
      BY <1>0, <2>1, <2>6 DEF MaxParams
    <3> QED BY <1>5, <2>6, <3>1, ReadParams
  <2>8. off + 1 \in Nat
    OBVIOUS
  <2>9. ReadStrings(data, off + 1, Len(v)) = Got(v, (off + 1) + Len(b))
    BY <2>1, <2>5, <2>8, ReadStringsAll
  <2>10. off + Len(FieldBytes(kind, v)) = (off + 1) + Len(b)
    <3> HIDE DEF b
    <3>1. Len(a \o b) = Len(a) + Len(b) /\ Len(b) \in Nat
      BY <2>4, LenConcat
    <3> QED BY <2>2, <2>4, <3>1
  <2> QED BY <2>7, <2>9, <2>10
<1>6. CASE kind = "data"
  <2>1. v \in Seq(Octets) /\ Len(v) \in Nat /\ Len(v) <= MaxImage
    BY <1>6, ValidIs DEF Within
  <2>2. FieldBytes(kind, v) = v
    BY <1>6, FieldBytesAre
  <2>3. off + Len(v) = Len(data) /\ \A i \in 1..Len(v) : data[off + i] = v[i]
    BY <1>6, <2>2 DEF TakesRest, Holds
  <2>4. SubSeq(data, off + 1, Len(data)) = v
    <3> DEFINE t == SubSeq(data, off + 1, Len(data))
    <3>1. t \in Seq(Octets) /\ Len(t) = Len(v) /\ \A i \in 1..Len(v) : t[i] = data[off + i]
      BY <1>0, <2>1, <2>3
    <3> HIDE DEF t
    <3> QED BY <2>1, <2>3, <3>1, SeqEqual DEF t
  <2>a. MaxImage \in Nat
    BY PacketsAssumption
  <2>5. ~(Len(data) - off > MaxImage)
    BY <1>0, <2>1, <2>3, <2>a
  <2> QED BY <1>6, <2>2, <2>3, <2>4, <2>5, ReadData
<1> QED BY <1>1, <1>2, <1>3, <1>4, <1>5, <1>6 DEF Kinds

\* What ReadField gives was there, byte by byte, but for a flag, any byte
\* of which but 0 reads as 1.
LEMMA ReadFieldExact ==
  ASSUME NEW data \in Seq(Octets), NEW off \in 0..Len(data), NEW kind \in Kinds,
         ReadField(kind, data, off).ok
  PROVE  LET r == ReadField(kind, data, off) IN
           /\ r.value \in Valid[kind]
           /\ r.off = off + Len(FieldBytes(kind, r.value))
           /\ r.off \in 0..Len(data)
           /\ IF kind = "flag"
                THEN FieldBytes(kind, r.value) = <<IF data[off + 1] # 0 THEN 1 ELSE 0>>
                ELSE Holds(data, off, FieldBytes(kind, r.value))
<1> DEFINE r == ReadField(kind, data, off)
<1>0. Len(data) \in Nat /\ off \in Nat /\ off <= Len(data)
  OBVIOUS
<1>1. CASE kind = "number"
  <2> DEFINE v == 256 * data[off + 1] + data[off + 2]
  <2>1. ~(Len(data) - off < 2) /\ r = Got(v, off + 2)
    BY <1>1, ReadNumber, FailField
  <2>2. off + 1 \in 1..Len(data) /\ off + 2 \in 1..Len(data)
    BY <1>0, <2>1
  <2>3. data[off + 1] \in Octets /\ data[off + 2] \in Octets
    BY <2>2
  <2>a. data[off + 1] \in 0..255 /\ data[off + 2] \in 0..255
    BY <2>3 DEF Octets
  <2>4. v \in Shorts /\ (v \div 256) % 256 = data[off + 1] /\ v % 256 = data[off + 2]
    <3> DEFINE h == data[off + 1]
               l == data[off + 2]
    <3>1. h \in 0..255 /\ l \in 0..255 /\ v = 256 * h + l
      BY <2>a
    <3> HIDE DEF h, l, v
    <3>2. 256 * h + l \in Shorts
      <4> DEFINE m == 256 * 256
                 n == 256 * h + l
      <4>1. m \in Nat /\ n \in Nat /\ n < m
        BY <3>1
      <4>2. Shorts = 0..(m - 1)
        BY DEF Shorts
      <4> HIDE DEF m, n
      <4>3. n \in 0..(m - 1)
        BY <4>1
      <4> QED BY <4>2, <4>3 DEF n
    <3>3. ((256 * h + l) \div 256) % 256 = h
      BY <3>1
    <3>4. (256 * h + l) % 256 = l
      BY <3>1
    <3>5. v \in Shorts /\ (v \div 256) % 256 = h /\ v % 256 = l
      BY <3>1, <3>2, <3>3, <3>4, Zenon
    <3> QED BY <3>5 DEF h, l
  <2>5. FieldBytes(kind, v) = <<data[off + 1], data[off + 2]>>
    <3> HIDE DEF v
    <3> QED BY <1>1, <2>4, FieldBytesAre
  <2>6. Holds(data, off, <<data[off + 1], data[off + 2]>>)
    BY <1>0, <2>2 DEF Holds
  <2>7. Len(<<data[off + 1], data[off + 2]>>) = 2 /\ off + 2 \in 0..Len(data)
    BY <2>2
  <2>8. v \in Valid[kind]
    BY <1>1, <2>4, ValidIs
  <2> HIDE DEF v, r
  <2>9. r.value = v /\ r.off = off + 2
    BY <2>1, GotValue
  <2> QED BY <1>1, <2>5, <2>6, <2>7, <2>8, <2>9 DEF r
<1>2. CASE kind = "flag"
  <2> DEFINE v == data[off + 1] # 0
  <2>1. ~(Len(data) - off < 1) /\ r = Got(v, off + 1)
    BY <1>2, ReadFlag, FailField
  <2>2. r.value = v /\ r.off = off + 1
    <3> HIDE DEF v, r
    <3> QED BY <2>1, GotValue
  <2>3. FieldBytes(kind, r.value) = <<IF data[off + 1] # 0 THEN 1 ELSE 0>>
    <3>1. FieldBytes("flag", r.value) = <<IF r.value THEN 1 ELSE 0>>
      BY FieldBytesAre
    <3> HIDE DEF r
    <3> QED BY <1>2, <2>2, <3>1
  <2>4. Len(<<IF data[off + 1] # 0 THEN 1 ELSE 0>>) = 1 /\ off + 1 \in 0..Len(data)
    BY <1>0, <2>1
  <2>5. r.value \in Valid[kind]
    BY <1>2, <2>2, ValidIs
  <2> HIDE DEF r, v
  <2> QED BY <1>2, <2>2, <2>3, <2>4, <2>5 DEF r
<1>3. CASE kind = "string"
  <2>1. r = ReadString(data, off)
    BY <1>3, ReadText
  <2>2. /\ r.value \in Text /\ Holds(data, off, StringBytes(r.value))
        /\ r.off = off + Len(StringBytes(r.value)) /\ r.off \in 0..Len(data)
    BY <2>1, ReadStringExact
  <2>3. FieldBytes(kind, r.value) = StringBytes(r.value) /\ Valid[kind] = Text
    BY <1>3, FieldBytesAre, ValidIs
  <2> HIDE DEF r
  <2> QED BY <1>3, <2>2, <2>3 DEF r
<1>4. CASE kind = "strings"
  <2> DEFINE n == Cardinality({i \in (off + 1)..Len(data) : data[i] = 0})
  <2>1. r = ReadStrings(data, off, n)
    BY <1>4, ReadList
  <2>2. n \in Nat
    <3>1. IsFiniteSet((off + 1)..Len(data))
      BY <1>0, FS_Interval
    <3>2. IsFiniteSet({i \in (off + 1)..Len(data) : data[i] = 0})
      BY <3>1, FS_Subset
    <3> QED BY <3>2, FS_CardinalityType
  <2> HIDE DEF n
  <2>3. /\ r.value \in Seq(Text) /\ Holds(data, off, StringsBytes(r.value))
        /\ r.off = off + Len(StringsBytes(r.value)) /\ r.off \in 0..Len(data)
    BY <2>1, <2>2, ReadStringsExact
  <2>4. FieldBytes(kind, r.value) = StringsBytes(r.value) /\ Valid[kind] = Seq(Text)
    BY <1>4, FieldBytesAre, ValidIs
  <2> HIDE DEF r
  <2> QED BY <1>4, <2>3, <2>4 DEF r
<1>5. CASE kind = "params"
  <2> DEFINE n == data[off + 1]
  <2>1. /\ ~(Len(data) - off < 1 \/ n > 16)
        /\ r = ReadStrings(data, off + 1, n)
    BY <1>5, ReadParams, FailField DEF MaxParams
  <2>2. off + 1 \in 1..Len(data) /\ off + 1 \in 0..Len(data)
    BY <1>0, <2>1
  <2>3. n \in Octets /\ n \in Nat /\ n <= 16
    <3>1. n \in Octets
      BY <2>2
    <3>3. ~(n > 16)
      BY <2>1
    <3> HIDE DEF n
    <3>2. n \in Nat
      BY <3>1 DEF Octets
    <3>4. n <= 16
      BY <3>2, <3>3
    <3> QED BY <3>1, <3>2, <3>4
  <2> HIDE DEF n
  <2>4. /\ r.value \in Seq(Text) /\ Len(r.value) = n /\ Holds(data, off + 1, StringsBytes(r.value))
        /\ r.off = (off + 1) + Len(StringsBytes(r.value)) /\ r.off \in 0..Len(data)
    <3> DEFINE e == off + 1
    <3>1. r = ReadStrings(data, e, n) /\ r.ok /\ e \in 0..Len(data)
      BY <2>1, <2>2
    <3> HIDE DEF r, e
    <3>2. /\ r.value \in Seq(Text) /\ Len(r.value) = n /\ Holds(data, e, StringsBytes(r.value))
          /\ r.off = e + Len(StringsBytes(r.value)) /\ r.off \in 0..Len(data)
      BY <2>3, <3>1, ReadStringsExact
    <3> QED BY <3>2 DEF e
  <2> HIDE DEF r
  <2> DEFINE a == <<n>>
             b == StringsBytes(r.value)
  <2>5. FieldBytes(kind, r.value) = a \o b
    <3>1. n % 256 = n
      BY <2>3, ShortLen
    <3> QED BY <1>5, <2>4, <3>1, FieldBytesAre
  <2>6. a \in Seq(Octets) /\ Len(a) = 1 /\ a[1] = n /\ b \in Seq(Octets)
    BY <2>3, <2>4, StringsBytesType
  <2>7. Holds(data, off, a)
    BY <1>0, <2>2, <2>6 DEF Holds, n
  <2> HIDE DEF a, b
  <2>8. Holds(data, off, a \o b)
    BY <1>0, <2>4, <2>6, <2>7, HoldsConcat DEF b
  <2>9. r.off = off + Len(a \o b)
    <3>0. a \in Seq(Octets) /\ b \in Seq(Octets)
      BY <2>6
    <3>1. Len(a \o b) = Len(a) + Len(b) /\ Len(b) \in Nat
      BY <3>0, LenConcat
    <3>2. r.off = (off + 1) + Len(b) /\ Len(a) = 1
      BY <2>4, <2>6 DEF b
    <3> QED BY <1>0, <3>1, <3>2
  <2>10. Valid[kind] = Seq(Text)
    BY <1>5, ValidIs
  <2> QED BY <1>5, <2>4, <2>5, <2>8, <2>9, <2>10 DEF r
<1>6. CASE kind = "data"
  <2> DEFINE t == SubSeq(data, off + 1, Len(data))
  <2>1. r = Got(t, Len(data))
    BY <1>6, ReadData, FailField
  <2>2. /\ t \in Seq(Octets) /\ Len(t) = Len(data) - off
        /\ \A i \in 1..Len(t) : t[i] = data[off + i]
    BY <1>0
  <2> HIDE DEF t, r
  <2>3. r.value = t /\ r.off = Len(data)
    BY <2>1, GotValue
  <2>4. Holds(data, off, t) /\ Len(data) = off + Len(t)
    BY <1>0, <2>2 DEF Holds
  <2>5. FieldBytes(kind, t) = t /\ t \in Valid[kind]
    BY <1>6, <2>2, FieldBytesAre, ValidIs
  <2> QED BY <1>0, <1>6, <2>3, <2>4, <2>5 DEF r
<1> QED BY <1>1, <1>2, <1>3, <1>4, <1>5, <1>6 DEF Kinds

-----------------------------------------------------------------------------


\* One more field is read unless one before it failed.
NextField(r, kind, data) == IF r.ok THEN Then(r, ReadField(kind, data, r.off)) ELSE Fail

\* read is the course of reading a layout: read[k] after k fields.
FieldByField(read, layout, data) ==
  /\ read[0] = Got(<<>>, 0)
  /\ \A k \in 1..Len(layout) : read[k] = NextField(read[k - 1], layout[k], data)

\* ReadFields unfolds: it is the end of such a course.
LEMMA ReadFieldsDef ==
  ASSUME NEW layout, NEW data, Len(layout) \in Nat
  PROVE  \E read : /\ ReadFields(layout, data) = read[Len(layout)]
                   /\ FieldByField(read, layout, data)
<1> DEFINE n == Len(layout)
           Step(f, k) == IF k = 0 THEN Got(<<>>, 0)
                         ELSE IF f[k - 1].ok
                                THEN Then(f[k - 1], ReadField(layout[k], data, f[k - 1].off))
                                ELSE Fail
           S == {m \in Nat : \E f : f = [k \in 0..m |-> Step(f, k)]}
           Read == CHOOSE f : f = [k \in 0..n |-> Step(f, k)]
<1>1. 0 \in S
  <2> DEFINE f == [k \in 0..0 |-> Got(<<>>, 0)]
  <2> f = [k \in 0..0 |-> Step(f, k)]
    OBVIOUS
  <2> QED OBVIOUS
<1>2. ASSUME NEW m \in Nat, m \in S PROVE m + 1 \in S
  <2>1. PICK f : f = [k \in 0..m |-> Step(f, k)]
    BY <1>2
  <2>a. \A k \in 0..m : f[k] = Step(f, k)
    <3> HIDE DEF Step
    <3> QED BY <2>1
  <2> DEFINE g == [k \in 0..(m + 1) |-> IF k = m + 1 THEN Step(f, k) ELSE f[k]]
  <2>2. ASSUME NEW k \in 0..(m + 1) PROVE g[k] = Step(g, k)
    <3>1. k # 0 => k - 1 \in 0..m /\ g[k - 1] = f[k - 1]
      OBVIOUS
    <3>2. k # m + 1 => k \in 0..m /\ g[k] = f[k] /\ f[k] = Step(f, k)
      <4> HIDE DEF Step
      <4> QED BY <2>a
    <3>3. Step(g, k) = Step(f, k)
      BY <3>1
    <3> QED BY <3>2, <3>3
  <2>3. g = [k \in 0..(m + 1) |-> Step(g, k)]
    BY <2>2
  <2> HIDE DEF g, Step
  <2> QED BY <2>3
<1>3. Nat \subseteq S
  <2> HIDE DEF S
  <2> QED BY <1>1, <1>2, SetInduction
<1>4. Read = [k \in 0..n |-> Step(Read, k)]
  BY <1>3
<1>5. ReadFields(layout, data) = Read[n]
  BY DEF ReadFields
<1>b. n \in Nat
  OBVIOUS
<1>a. \A k \in 0..n : Read[k] = Step(Read, k)
  <2> HIDE DEF Read, Step, n
  <2> QED BY <1>4
<1> HIDE DEF Read, n
<1>6. Read[0] = Got(<<>>, 0)
  BY <1>a, <1>b
<1>7. ASSUME NEW k \in 1..n PROVE Read[k] = NextField(Read[k - 1], layout[k], data)
  <2>1. k \in 0..n /\ k # 0
    BY <1>b
  <2>2. Read[k] = Step(Read, k)
    BY <1>a, <2>1
  <2> QED BY <2>1, <2>2 DEF NextField
<1> USE DEF n
<1>8. FieldByField(Read, layout, data)
  BY <1>6, <1>7 DEF FieldByField
<1> QED BY <1>5, <1>8

\* Of no fields nothing is read.
LEMMA ReadFieldsEmpty ==
  ASSUME NEW data
  PROVE  ReadFields(<<>>, data) = Got(<<>>, 0)
<1>1. Len(<<>>) = 0 /\ Len(<<>>) \in Nat
  OBVIOUS
<1>2. PICK f : ReadFields(<<>>, data) = f[Len(<<>>)] /\ FieldByField(f, <<>>, data)
  BY <1>1, ReadFieldsDef
<1> QED BY <1>1, <1>2 DEF FieldByField

\* The last field is read last.
LEMMA ReadFieldsAppend ==
  ASSUME NEW S, NEW layout \in Seq(S), NEW kind \in S, NEW data
  PROVE  ReadFields(Append(layout, kind), data)
           = NextField(ReadFields(layout, data), kind, data)
<1> DEFINE n  == Len(layout)
           ll == Append(layout, kind)
<1>1. /\ n \in Nat /\ Len(ll) = n + 1 /\ ll[n + 1] = kind
      /\ \A k \in 1..n : ll[k] = layout[k]
  OBVIOUS
<1>2. PICK f : ReadFields(layout, data) = f[n] /\ FieldByField(f, layout, data)
  BY <1>1, ReadFieldsDef
<1> HIDE DEF ll
<1>3. PICK g : ReadFields(ll, data) = g[n + 1] /\ FieldByField(g, ll, data)
  <2>1. Len(ll) \in Nat
    BY <1>1
  <2>2. PICK g : ReadFields(ll, data) = g[Len(ll)] /\ FieldByField(g, ll, data)
    BY <2>1, ReadFieldsDef
  <2> QED BY <1>1, <2>2
<1>4. f[0] = Got(<<>>, 0) /\ \A k \in 1..n : f[k] = NextField(f[k - 1], layout[k], data)
  BY <1>2 DEF FieldByField
<1>5. g[0] = Got(<<>>, 0) /\ \A k \in 1..(n + 1) : g[k] = NextField(g[k - 1], ll[k], data)
  BY <1>1, <1>3 DEF FieldByField
<1> HIDE DEF n
<1> DEFINE T == {m \in Nat : m <= n => g[m] = f[m]}
<1>6. 0 \in T
  BY <1>4, <1>5
<1>7. ASSUME NEW m \in Nat, m \in T PROVE m + 1 \in T
  <2> SUFFICES ASSUME m + 1 <= n PROVE g[m + 1] = f[m + 1]
    OBVIOUS
  <2>1. m + 1 \in 1..n /\ m + 1 \in 1..(n + 1) /\ (m + 1) - 1 = m /\ m <= n
    BY <1>1
  <2>2. g[m] = f[m]
    BY <1>7, <2>1
  <2>3. g[m + 1] = NextField(g[m], ll[m + 1], data)
    BY <1>5, <2>1
  <2>4. f[m + 1] = NextField(f[m], layout[m + 1], data)
    BY <1>4, <2>1
  <2>5. ll[m + 1] = layout[m + 1]
    BY <1>1, <2>1
  <2> QED BY <2>2, <2>3, <2>4, <2>5
<1>8. Nat \subseteq T
  <2> HIDE DEF T
  <2> QED BY <1>6, <1>7, SetInduction
<1>9. g[n] = f[n]
  BY <1>1, <1>8
<1>10. g[n + 1] = NextField(g[n], ll[n + 1], data)
  <2>1. n + 1 \in 1..(n + 1) /\ (n + 1) - 1 = n
    BY <1>1
  <2>2. g[n + 1] = NextField(g[(n + 1) - 1], ll[n + 1], data)
    BY <1>5, <2>1
  <2> QED BY <2>1, <2>2
<1> QED BY <1>1, <1>2, <1>3, <1>9, <1>10 DEF ll, n

-----------------------------------------------------------------------------


\* A value of a field of any kind.
AnyValue == UNION {Valid[kind] : kind \in Kinds}

\* Values of the fields of a layout.
Fillings(layout) ==
  {p \in Seq(AnyValue) : /\ Len(p) = Len(layout)
                         /\ \A i \in 1..Len(layout) : p[i] \in Valid[layout[i]]}

\* The bytes of the fields of a layout.
FieldsBytes(layout, p) == FlattenSeq([i \in DOMAIN layout |-> FieldBytes(layout[i], p[i])])

\* No fields have no values.
LEMMA FillingsEmpty == <<>> \in Fillings(<<>>) /\ \A p \in Fillings(<<>>) : p = <<>>
BY DEF Fillings

\* A value more for a field more.
LEMMA FillingsAppend ==
  ASSUME NEW layout \in Seq(Kinds), NEW kind \in Kinds,
         NEW p \in Fillings(layout), NEW v \in Valid[kind]
  PROVE  Append(p, v) \in Fillings(Append(layout, kind))
<1>1. v \in AnyValue
  BY DEF AnyValue
<1> DEFINE ll == Append(layout, kind)
           q  == Append(p, v)
<1>2. /\ p \in Seq(AnyValue) /\ Len(p) = Len(layout)
      /\ \A i \in 1..Len(layout) : p[i] \in Valid[layout[i]]
  BY DEF Fillings
<1>3. /\ Len(layout) \in Nat
      /\ Len(ll) = Len(layout) + 1 /\ ll[Len(layout) + 1] = kind
      /\ \A i \in 1..Len(layout) : ll[i] = layout[i]
  OBVIOUS
<1>4. /\ q \in Seq(AnyValue) /\ Len(q) = Len(p) + 1 /\ q[Len(p) + 1] = v
      /\ \A i \in 1..Len(p) : q[i] = p[i]
  BY <1>1, <1>2
<1> HIDE DEF ll, q
<1>5. ASSUME NEW i \in 1..Len(ll) PROVE q[i] \in Valid[ll[i]]
  <2>1. CASE i = Len(layout) + 1
    BY <1>2, <1>3, <1>4, <2>1
  <2>2. CASE i \in 1..Len(layout)
    BY <1>2, <1>3, <1>4, <2>2
  <2> QED BY <1>3, <2>1, <2>2
<1>6. q \in Fillings(ll)
  BY <1>2, <1>3, <1>4, <1>5 DEF Fillings
<1> QED BY <1>6 DEF ll, q

\* The last value is the last field's, those before it the others'.
LEMMA FillingsFront ==
  ASSUME NEW layout \in Seq(Kinds), NEW kind \in Kinds,
         NEW p \in Fillings(Append(layout, kind))
  PROVE  \E q \in Fillings(layout), v \in Valid[kind] :
           p = Append(q, v) /\ v = p[Len(layout) + 1]
<1> DEFINE n  == Len(layout)
           ll == Append(layout, kind)
           q  == SubSeq(p, 1, n)
           v  == p[n + 1]
<1>1. /\ n \in Nat /\ Len(ll) = n + 1 /\ ll[n + 1] = kind
      /\ \A i \in 1..n : ll[i] = layout[i]
  OBVIOUS
<1>2. p \in Seq(AnyValue) /\ Len(p) = Len(ll) /\ \A i \in 1..Len(ll) : p[i] \in Valid[ll[i]]
  BY DEF Fillings
<1> HIDE DEF ll
<1>3. v \in Valid[kind]
  <2>1. n + 1 \in 1..Len(ll)
    BY <1>1
  <2> HIDE DEF n
  <2> QED BY <1>1, <1>2, <2>1
<1>4. q \in Seq(AnyValue) /\ Len(q) = n /\ \A i \in 1..n : q[i] = p[i]
  BY <1>1, <1>2
<1>5. \A i \in 1..n : q[i] \in Valid[layout[i]]
  BY <1>1, <1>2, <1>4
<1>6. q \in Fillings(layout)
  <2> HIDE DEF q
  <2> QED BY <1>4, <1>5 DEF Fillings
<1>7. p = Append(q, v)
  <2> HIDE DEF n
  <2> QED BY <1>1, <1>2
<1> QED BY <1>3, <1>6, <1>7

\* No fields have no bytes.
LEMMA FieldsBytesEmpty ==
  ASSUME NEW p
  PROVE  FieldsBytes(<<>>, p) = <<>>
<1>1. [i \in DOMAIN <<>> |-> FieldBytes(<<>>[i], p[i])] = <<>>
  OBVIOUS
<1> QED BY <1>1, FlattenEmpty DEF FieldsBytes

\* The last field's bytes come last.
LEMMA FieldsBytesAppend ==
  ASSUME NEW layout \in Seq(Kinds), NEW kind \in Kinds,
         NEW p \in Fillings(layout), NEW v \in Valid[kind]
  PROVE  FieldsBytes(Append(layout, kind), Append(p, v))
           = FieldsBytes(layout, p) \o FieldBytes(kind, v)
<1> DEFINE ll == Append(layout, kind)
           q  == Append(p, v)
           b  == [i \in DOMAIN layout |-> FieldBytes(layout[i], p[i])]
           c  == [i \in DOMAIN ll |-> FieldBytes(ll[i], q[i])]
           e  == FieldBytes(kind, v)
<1>1. v \in AnyValue
  BY DEF AnyValue
<1>2. /\ p \in Seq(AnyValue) /\ Len(p) = Len(layout)
      /\ \A i \in 1..Len(layout) : p[i] \in Valid[layout[i]]
  BY DEF Fillings
<1>3. /\ Len(layout) \in Nat /\ DOMAIN layout = 1..Len(layout)
      /\ Len(ll) = Len(layout) + 1 /\ ll[Len(layout) + 1] = kind
      /\ DOMAIN ll = 1..(Len(layout) + 1)
      /\ \A i \in 1..Len(layout) : ll[i] = layout[i] /\ layout[i] \in Kinds
  OBVIOUS
<1>4. /\ q[Len(layout) + 1] = v /\ \A i \in 1..Len(layout) : q[i] = p[i]
  BY <1>1, <1>2
<1>5. e \in Seq(Octets) /\ \A i \in 1..Len(layout) : FieldBytes(layout[i], p[i]) \in Seq(Octets)
  BY <1>2, <1>3, FieldBytesType
<1>6. b \in Seq(Seq(Octets)) /\ Len(b) = Len(layout)
  BY <1>3, <1>5
<1> HIDE DEF ll, q
<1>7. c = Append(b, e)
  <2>1. c \in Seq(Seq(Octets)) /\ Len(c) = Len(layout) + 1
    <3>1. ASSUME NEW i \in 1..(Len(layout) + 1) PROVE FieldBytes(ll[i], q[i]) \in Seq(Octets)
      <4>1. CASE i = Len(layout) + 1
        BY <1>3, <1>4, <1>5, <4>1
      <4>2. CASE i \in 1..Len(layout)
        BY <1>3, <1>4, <1>5, <4>2
      <4> QED BY <1>3, <4>1, <4>2
    <3> QED BY <1>3, <3>1
  <2>2. c[Len(layout) + 1] = e
    BY <1>3, <1>4
  <2>3. \A i \in 1..Len(layout) : c[i] = b[i]
    BY <1>3, <1>4
  <2>4. /\ Append(b, e) \in Seq(Seq(Octets)) /\ Len(Append(b, e)) = Len(layout) + 1
        /\ Append(b, e)[Len(layout) + 1] = e
        /\ \A i \in 1..Len(layout) : Append(b, e)[i] = b[i]
    <3> HIDE DEF b, e
    <3> QED BY <1>3, <1>5, <1>6
  <2> DEFINE d == Append(b, e)
  <2> HIDE DEF b, c, d, e
  <2>5. d \in Seq(Seq(Octets)) /\ Len(d) = Len(c) /\ \A i \in 1..Len(c) : d[i] = c[i]
    BY <1>3, <2>1, <2>2, <2>3, <2>4 DEF d
  <2> QED BY <2>1, <2>5, SeqEqual DEF d
<1> HIDE DEF b, c, e
<1>8. FlattenSeq(c) = FlattenSeq(b) \o e
  BY <1>5, <1>6, <1>7, FlattenAppend
<1> QED BY <1>8 DEF FieldsBytes, b, c, e, ll, q

\* They are bytes.
LEMMA FieldsBytesType ==
  ASSUME NEW layout \in Seq(Kinds), NEW p \in Fillings(layout)
  PROVE  FieldsBytes(layout, p) \in Seq(Octets)
<1> DEFINE b == [i \in DOMAIN layout |-> FieldBytes(layout[i], p[i])]
<1>1. \A i \in 1..Len(layout) : p[i] \in Valid[layout[i]]
  BY DEF Fillings
<1>2. \A i \in 1..Len(layout) : layout[i] \in Kinds /\ FieldBytes(layout[i], p[i]) \in Seq(Octets)
  BY <1>1, FieldBytesType
<1>3. b \in Seq(Seq(Octets))
  BY <1>2
<1> HIDE DEF b
<1>4. FlattenSeq(b) \in Seq(Octets)
  BY <1>3, FlattenType
<1> QED BY <1>4 DEF FieldsBytes, b

\* Serialize makes the bytes of the fields of the type's layout.
LEMMA SerializeFields ==
  ASSUME NEW t, NEW p
  PROVE  Serialize(t, p) = FieldsBytes(WriteLayout[t], p)
BY DEF Serialize, FieldsBytes

-----------------------------------------------------------------------------


\* The kinds that have no limit and do not take the rest.
Plain == {"number", "flag", "string"}

\* Sequences of three, and of five, by their last member.
LEMMA AppendThird ==
  ASSUME NEW a, NEW b, NEW c
  PROVE  Append(<<a, b>>, c) = <<a, b, c>>
<1> DEFINE S == {a, b, c}
           s == <<a, b>>
           t == Append(s, c)
<1>1. <<a, b, c>> \in Seq(S) /\ s \in Seq(S) /\ c \in S
  OBVIOUS
<1>2. Len(s) = 2 /\ s[1] = a /\ s[2] = b
  OBVIOUS
<1> HIDE DEF s, S
<1>a. /\ t \in Seq(S) /\ Len(t) = Len(s) + 1 /\ t[Len(s) + 1] = c
      /\ \A i \in 1..Len(s) : t[i] = s[i]
  BY <1>1
<1> HIDE DEF t
<1>3. t \in Seq(S) /\ Len(t) = 3 /\ t[1] = a /\ t[2] = b /\ t[3] = c
  BY <1>2, <1>a
<1>4. \A i \in 1..Len(t) : t[i] = <<a, b, c>>[i]
  BY <1>3
<1> QED BY <1>1, <1>3, <1>4, SeqEqual DEF t, s

\* The same for five.
LEMMA AppendFifth ==
  ASSUME NEW a, NEW b, NEW c, NEW d, NEW e
  PROVE  Append(<<a, b, c, d>>, e) = <<a, b, c, d, e>>
<1> DEFINE S == {a, b, c, d, e}
           s == <<a, b, c, d>>
           t == Append(s, e)
<1>1. <<a, b, c, d, e>> \in Seq(S) /\ s \in Seq(S) /\ e \in S
  OBVIOUS
<1>2. Len(s) = 4 /\ s[1] = a /\ s[2] = b /\ s[3] = c /\ s[4] = d
  OBVIOUS
<1> HIDE DEF s, S
<1>f. /\ t \in Seq(S) /\ Len(t) = Len(s) + 1 /\ t[Len(s) + 1] = e
      /\ \A i \in 1..Len(s) : t[i] = s[i]
  BY <1>1
<1> HIDE DEF t
<1>3. /\ t \in Seq(S) /\ Len(t) = 5
      /\ t[1] = a /\ t[2] = b /\ t[3] = c /\ t[4] = d /\ t[5] = e
  BY <1>2, <1>f
<1>4. \A i \in 1..Len(t) : t[i] = <<a, b, c, d, e>>[i]
  BY <1>3
<1> QED BY <1>1, <1>3, <1>4, SeqEqual DEF t, s

\* A layout is empty, or plain fields and one more; only a system message
\* ends in parameters and only an image in data.
LEMMA LayoutShape ==
  ASSUME NEW t \in Types
  PROVE  \/ /\ WriteLayout[t] = <<>> /\ t \notin {"chat", "system", "image"}
         \/ \E front \in Seq(Plain), kind \in Kinds :
              /\ WriteLayout[t] = Append(front, kind)
              /\ kind = "params" <=> t = "system"
              /\ kind = "data" <=> t = "image"
              /\ t = "system" => Len(front) = 2
              /\ t = "image" => Len(front) = 4
<1> DEFINE Shaped(front, kind) ==
             /\ WriteLayout[t] = Append(front, kind)
             /\ kind = "params" <=> t = "system"
             /\ kind = "data" <=> t = "image"
             /\ t = "system" => Len(front) = 2
             /\ t = "image" => Len(front) = 4
<1>1. CASE t = "system"
  <2> DEFINE front == <<"flag", "number">>
  <2>1. front \in Seq(Plain) /\ "params" \in Kinds
    BY DEF Plain, Kinds
  <2>2. Append(front, "params") = <<"flag", "number", "params">> /\ Len(front) = 2
    BY AppendThird
  <2>3. Shaped(front, "params")
    <3> HIDE DEF front
    <3> QED BY <1>1, <2>2, Layouts
  <2> HIDE DEF front, Shaped
  <2>4. \E f \in Seq(Plain), kind \in Kinds : Shaped(f, kind)
    BY <2>1, <2>3
  <2> QED BY <2>4 DEF Shaped
<1>2. CASE t = "image"
  <2> DEFINE front == <<"string", "string", "string", "string">>
  <2>1. front \in Seq(Plain) /\ "data" \in Kinds
    BY DEF Plain, Kinds
  <2>2. /\ Append(front, "data") = <<"string", "string", "string", "string", "data">>
        /\ Len(front) = 4
    BY AppendFifth
  <2>3. Shaped(front, "data")
    <3> HIDE DEF front
    <3> QED BY <1>2, <2>2, Layouts
  <2> HIDE DEF front, Shaped
  <2>4. \E f \in Seq(Plain), kind \in Kinds : Shaped(f, kind)
    BY <2>1, <2>3
  <2> QED BY <2>4 DEF Shaped
<1>3. CASE t \notin {"system", "image"}
  <2>1. WriteLayout[t] \in
         {<<>>, <<"number">>, <<"string">>, <<"string", "string">>, <<"strings">>}
    BY <1>3, Layouts
  <2>2. CASE WriteLayout[t] = <<>>
    <3>1. t # "chat"
      <4>1. WriteLayout["chat"] # <<>>
        BY Layouts
      <4> QED BY <2>2, <4>1
    <3> QED BY <1>3, <2>2, <3>1
  <2>3. ASSUME NEW kind \in {"number", "string", "strings"}, WriteLayout[t] = <<kind>>
        PROVE  \E f \in Seq(Plain), k \in Kinds : Shaped(f, k)
    <3>1. Shaped(<<>>, kind)
      BY <1>3, <2>3
    <3>2. <<>> \in Seq(Plain) /\ kind \in Kinds
      BY DEF Kinds
    <3> HIDE DEF Shaped
    <3> QED BY <3>1, <3>2
  <2>4. CASE WriteLayout[t] = <<"string", "string">>
    <3>1. Shaped(<<"string">>, "string")
      BY <1>3, <2>4
    <3>2. <<"string">> \in Seq(Plain) /\ "string" \in Kinds
      BY DEF Kinds, Plain
    <3> HIDE DEF Shaped
    <3>3. \E f \in Seq(Plain), k \in Kinds : Shaped(f, k)
      BY <3>1, <3>2
    <3> QED BY <3>3 DEF Shaped
  <2>5. \/ WriteLayout[t] = <<>>
        \/ \E f \in Seq(Plain), k \in Kinds : Shaped(f, k)
    <3> HIDE DEF Shaped
    <3>1. ASSUME WriteLayout[t] = <<"string", "string">>
          PROVE  \E f \in Seq(Plain), k \in Kinds : Shaped(f, k)
      BY <2>4, <3>1 DEF Shaped
    <3> QED BY <2>1, <2>3, <3>1
  <2> QED BY <2>2, <2>5
<1> QED BY <1>1, <1>2, <1>3

\* A layout is of kinds of fields.
LEMMA LayoutKinds ==
  ASSUME NEW t \in Types
  PROVE  WriteLayout[t] \in Seq(Kinds)
<1>1. WriteLayout[t] = <<>> \/ \E front \in Seq(Plain), kind \in Kinds : WriteLayout[t] = Append(front, kind)
  BY LayoutShape
<1>2. ASSUME NEW front \in Seq(Plain), NEW kind \in Kinds PROVE Append(front, kind) \in Seq(Kinds)
  <2>1. front \in Seq(Kinds)
    <3>1. Plain \subseteq Kinds
      BY DEF Plain, Kinds
    <3> QED BY <3>1, SeqMonotonic
  <2> QED BY <2>1
<1>3. <<>> \in Seq(Kinds)
  OBVIOUS
<1>4. CASE WriteLayout[t] = <<>>
  BY <1>3, <1>4
<1>5. CASE \E front \in Seq(Plain), kind \in Kinds : WriteLayout[t] = Append(front, kind)
  <2>1. PICK front \in Seq(Plain), kind \in Kinds : WriteLayout[t] = Append(front, kind)
    BY <1>5
  <2> QED BY <1>2, <2>1
<1> QED BY <1>1, <1>4, <1>5

\* packets[k] is the set of packets of the first k fields.
PacketByPacket(packets, layout) ==
  /\ packets[0] = {<<>>}
  /\ \A k \in 1..Len(layout) : packets[k] = Extended(packets[k - 1], layout[k])

\* PacketsOf unfolds: it is the last of such sets.
LEMMA PacketsOfDef ==
  ASSUME NEW t \in Types
  PROVE  \E packets : /\ PacketsOf(t) = packets[Len(WriteLayout[t])]
                      /\ PacketByPacket(packets, WriteLayout[t])
<1> DEFINE layout == WriteLayout[t]
           n == Len(layout)
           Step(f, k) == IF k = 0 THEN {<<>>} ELSE Extended(f[k - 1], layout[k])
           S == {m \in Nat : \E f : f = [k \in 0..m |-> Step(f, k)]}
           Packets1 == CHOOSE f : f = [k \in 0..n |-> Step(f, k)]
<1>1. 0 \in S
  <2> DEFINE f == [k \in 0..0 |-> {<<>>}]
  <2> f = [k \in 0..0 |-> Step(f, k)]
    OBVIOUS
  <2> QED OBVIOUS
<1>2. ASSUME NEW m \in Nat, m \in S PROVE m + 1 \in S
  <2>1. PICK f : f = [k \in 0..m |-> Step(f, k)]
    BY <1>2
  <2>a. \A k \in 0..m : f[k] = Step(f, k)
    <3> HIDE DEF Step
    <3> QED BY <2>1
  <2> DEFINE g == [k \in 0..(m + 1) |-> IF k = m + 1 THEN Step(f, k) ELSE f[k]]
  <2>2. ASSUME NEW k \in 0..(m + 1) PROVE g[k] = Step(g, k)
    <3>1. k # 0 => k - 1 \in 0..m /\ g[k - 1] = f[k - 1]
      OBVIOUS
    <3>2. k # m + 1 => k \in 0..m /\ g[k] = f[k] /\ f[k] = Step(f, k)
      <4> HIDE DEF Step
      <4> QED BY <2>a
    <3>3. Step(g, k) = Step(f, k)
      BY <3>1
    <3> QED BY <3>2, <3>3
  <2>3. g = [k \in 0..(m + 1) |-> Step(g, k)]
    BY <2>2
  <2> HIDE DEF g, Step
  <2> QED BY <2>3
<1>3. Nat \subseteq S
  <2> HIDE DEF S
  <2> QED BY <1>1, <1>2, SetInduction
<1>b. n \in Nat
  BY LayoutKinds
<1>4. Packets1 = [k \in 0..n |-> Step(Packets1, k)]
  <2> HIDE DEF n, Step
  <2> QED BY <1>3, <1>b
<1>5. PacketsOf(t) = Packets1[n]
  BY DEF PacketsOf
<1>a. \A k \in 0..n : Packets1[k] = Step(Packets1, k)
  <2> HIDE DEF Packets1, Step, n
  <2> QED BY <1>4
<1> HIDE DEF Packets1, n
<1>6. Packets1[0] = {<<>>}
  BY <1>a, <1>b
<1>7. ASSUME NEW k \in 1..n PROVE Packets1[k] = Extended(Packets1[k - 1], layout[k])
  <2>1. k \in 0..n /\ k # 0
    BY <1>b
  <2>2. Packets1[k] = Step(Packets1, k)
    BY <1>a, <2>1
  <2> QED BY <2>1, <2>2
<1> USE DEF n
<1>8. PacketByPacket(Packets1, layout)
  BY <1>6, <1>7 DEF PacketByPacket
<1> QED BY <1>5, <1>8

\* A packet's fields are valid values of its type's layout.
LEMMA PacketsFill ==
  ASSUME NEW t \in Types
  PROVE  PacketsOf(t) \subseteq Fillings(WriteLayout[t])
<1> DEFINE layout == WriteLayout[t]
           n == Len(layout)
<1>1. layout \in Seq(Kinds) /\ n \in Nat
  BY LayoutKinds
<1>2. PICK f : PacketsOf(t) = f[n] /\ PacketByPacket(f, layout)
  BY PacketsOfDef
<1>3. f[0] = {<<>>} /\ \A k \in 1..n : f[k] = Extended(f[k - 1], layout[k])
  BY <1>2 DEF PacketByPacket
<1> HIDE DEF layout
<1> DEFINE front(k) == SubSeq(layout, 1, k)
           T == {k \in Nat : k <= n => f[k] \subseteq Fillings(front(k))}
<1>4. 0 \in T
  <2>1. front(0) = <<>>
    BY <1>1
  <2> QED BY <1>3, <2>1, FillingsEmpty
<1>5. ASSUME NEW k \in Nat, k \in T PROVE k + 1 \in T
  <2> SUFFICES ASSUME k + 1 <= n, NEW q \in f[k + 1] PROVE q \in Fillings(front(k + 1))
    OBVIOUS
  <2>1. /\ front(k) \in Seq(Kinds) /\ layout[k + 1] \in Kinds
        /\ front(k + 1) = Append(front(k), layout[k + 1])
    BY <1>1
  <2>2. k + 1 \in 1..n /\ (k + 1) - 1 = k
    BY <1>1
  <2>3. f[k] \subseteq Fillings(front(k))
    BY <1>1, <1>5
  <2> HIDE DEF n, front
  <2>4. q \in Extended(f[k], layout[k + 1])
    BY <1>3, <2>2
  <2>5. PICK p \in f[k], v \in Values(layout[k + 1]) : q = Append(p, v)
    BY <2>4, Zenon DEF Extended
  <2>6. v \in Valid[layout[k + 1]]
    BY <2>1, ValuesValid
  <2>7. p \in Fillings(front(k))
    BY <2>3
  <2> QED BY <2>1, <2>5, <2>6, <2>7, FillingsAppend
<1>6. Nat \subseteq T
  <2> HIDE DEF T
  <2> QED BY <1>4, <1>5, SetInduction
<1>7. front(n) = layout
  BY <1>1
<1> HIDE DEF front, n
<1> QED BY <1>1, <1>2, <1>6, <1>7 DEF layout

-----------------------------------------------------------------------------


\* A sequence with a member is what is before the last, and the last.
LEMMA SeqFront ==
  ASSUME NEW S, NEW s \in Seq(S), NEW n \in Nat, Len(s) = n + 1
  PROVE  /\ SubSeq(s, 1, n) \in Seq(S) /\ Len(SubSeq(s, 1, n)) = n /\ s[n + 1] \in S
         /\ s = Append(SubSeq(s, 1, n), s[n + 1])
OBVIOUS

\* Bytes have themselves.
LEMMA HoldsSelf ==
  ASSUME NEW S, NEW s \in Seq(S)
  PROVE  Holds(s, 0, s)
BY DEF Holds

\* Plain kinds are kinds, and the kinds with limits are not among them.
LEMMA PlainKinds == Plain \subseteq Kinds /\ Plain \cap TakesRest = {} /\ "params" \notin Plain
BY DEF Plain, Kinds, TakesRest

\* Plain fields come back wherever their bytes come first.
LEMMA ReadPlain ==
  ASSUME NEW data \in Seq(Octets), NEW layout \in Seq(Plain), NEW p \in Fillings(layout),
         Holds(data, 0, FieldsBytes(layout, p))
  PROVE  ReadFields(layout, data) = Got(p, Len(FieldsBytes(layout, p)))
<1> DEFINE Back(ll) == \A q \in Fillings(ll) :
                         Holds(data, 0, FieldsBytes(ll, q)) =>
                           ReadFields(ll, data) = Got(q, Len(FieldsBytes(ll, q)))
           T == {n \in Nat : \A ll \in Seq(Plain) : Len(ll) = n => Back(ll)}
<1>1. 0 \in T
  <2> SUFFICES ASSUME NEW ll \in Seq(Plain), Len(ll) = 0 PROVE Back(ll)
    OBVIOUS
  <2>1. ll = <<>>
    OBVIOUS
  <2> SUFFICES ASSUME NEW q \in Fillings(<<>>)
               PROVE  ReadFields(<<>>, data) = Got(q, Len(FieldsBytes(<<>>, q)))
    BY <2>1
  <2>2. q = <<>> /\ FieldsBytes(<<>>, q) = <<>> /\ Len(<<>>) = 0
    BY FillingsEmpty, FieldsBytesEmpty
  <2>3. Len(FieldsBytes(<<>>, q)) = 0
    BY <2>2
  <2> QED BY <2>2, <2>3, ReadFieldsEmpty
<1>2. ASSUME NEW n \in Nat, n \in T PROVE n + 1 \in T
  <2> SUFFICES ASSUME NEW l1 \in Seq(Plain), Len(l1) = n + 1,
                      NEW q1 \in Fillings(l1), Holds(data, 0, FieldsBytes(l1, q1))
               PROVE  ReadFields(l1, data) = Got(q1, Len(FieldsBytes(l1, q1)))
    OBVIOUS
  <2> DEFINE ll == SubSeq(l1, 1, n)
             kind == l1[n + 1]
  <2>1. ll \in Seq(Plain) /\ Len(ll) = n /\ kind \in Plain /\ l1 = Append(ll, kind)
    BY SeqFront
  <2>2. Back(ll)
    BY <1>2, <2>1
  <2> HIDE DEF ll, kind, T
  <2>3. ll \in Seq(Kinds) /\ kind \in Kinds /\ kind \notin TakesRest /\ kind # "params" /\ kind # "data"
    <3>1. ll \in Seq(Kinds)
      BY <2>1, PlainKinds, SeqMonotonic
    <3> QED BY <2>1, <3>1, PlainKinds DEF TakesRest
  <2>4. PICK q \in Fillings(ll), v \in Valid[kind] : q1 = Append(q, v)
    <3>1. \E q \in Fillings(ll), v \in Valid[kind] : q1 = Append(q, v) /\ v = q1[Len(ll) + 1]
      BY <2>1, <2>3, FillingsFront
    <3> QED BY <3>1
  <2> DEFINE a == FieldsBytes(ll, q)
             b == FieldBytes(kind, v)
             off == Len(a)
  <2>5. FieldsBytes(l1, q1) = a \o b
    BY <2>1, <2>3, <2>4, FieldsBytesAppend
  <2>6. a \in Seq(Octets) /\ b \in Seq(Octets)
    BY <2>3, FieldsBytesType, FieldBytesType
  <2> HIDE DEF a, b
  <2>7. off \in Nat /\ Holds(data, 0, a) /\ Holds(data, off, b)
    <3>1. Holds(data, 0, a \o b)
      BY <2>5
    <3>2. Holds(data, 0, a) /\ Holds(data, 0 + Len(a), b)
      BY <2>6, <3>1, HoldsConcat
    <3>3. 0 + Len(a) = Len(a) /\ Len(a) \in Nat
      BY <2>6
    <3> QED BY <3>2, <3>3
  <2> HIDE DEF off
  <2>8. ReadFields(ll, data) = Got(q, off)
    BY <2>2, <2>7 DEF a, off
  <2>9. ReadField(kind, data, off) = Got(v, off + Len(b))
    <3>1. Within(kind, v)
      BY <2>3 DEF Within
    <3> QED BY <2>3, <2>7, <3>1, ReadFieldBack DEF b
  <2>10. ReadFields(l1, data) = NextField(Got(q, off), kind, data)
    BY <2>1, <2>3, <2>8, ReadFieldsAppend
  <2>11. NextField(Got(q, off), kind, data) = Then(Got(q, off), Got(v, off + Len(b)))
    BY <2>9, GotFields DEF NextField
  <2>12. ReadFields(l1, data) = Got(Append(q, v), off + Len(b))
    BY <2>10, <2>11, ThenGot
  <2>13. Len(FieldsBytes(l1, q1)) = off + Len(b)
    BY <2>5, <2>6, LenConcat DEF off
  <2> QED BY <2>4, <2>12, <2>13
<1>3. Nat \subseteq T
  <2> HIDE DEF T
  <2> QED BY <1>1, <1>2, SetInduction
<1>4. Back(layout)
  <2>1. Len(layout) \in T
    BY <1>3
  <2> HIDE DEF Back
  <2> QED BY <2>1
<1> QED BY <1>4

\* The last field is read where the plain ones before it end.
LEMMA ReadLast ==
  ASSUME NEW layout \in Seq(Plain), NEW kind \in Kinds,
         NEW p \in Fillings(layout), NEW v \in Valid[kind]
  PROVE  LET data == FieldsBytes(Append(layout, kind), Append(p, v))
             off  == Len(FieldsBytes(layout, p))
         IN  /\ data \in Seq(Octets) /\ off \in Nat
             /\ Holds(data, off, FieldBytes(kind, v))
             /\ off + Len(FieldBytes(kind, v)) = Len(data)
             /\ ReadFields(Append(layout, kind), data)
                  = Then(Got(p, off), ReadField(kind, data, off))
<1> DEFINE a == FieldsBytes(layout, p)
           b == FieldBytes(kind, v)
           data == FieldsBytes(Append(layout, kind), Append(p, v))
           off == Len(a)
<1>1. layout \in Seq(Kinds)
  BY PlainKinds, SeqMonotonic
<1>2. a \in Seq(Octets) /\ b \in Seq(Octets) /\ data = a \o b
  BY <1>1, FieldsBytesType, FieldBytesType, FieldsBytesAppend
<1> HIDE DEF b, data
<1>3. data \in Seq(Octets) /\ off \in Nat /\ off + Len(b) = Len(data)
  <2> HIDE DEF a
  <2> QED BY <1>2
<1>4. Holds(data, 0, a) /\ Holds(data, off, b)
  <2> HIDE DEF a
  <2>1. Holds(data, 0, a \o b)
    BY <1>2, <1>3, HoldsSelf
  <2>2. Holds(data, 0, a) /\ Holds(data, 0 + Len(a), b)
    BY <1>2, <1>3, <2>1, HoldsConcat
  <2>3. 0 + Len(a) = Len(a)
    BY <1>2
  <2> QED BY <2>2, <2>3
<1>5. ReadFields(layout, data) = Got(p, off)
  BY <1>3, <1>4, ReadPlain
<1> HIDE DEF off
<1>6. ReadFields(Append(layout, kind), data) = NextField(Got(p, off), kind, data)
  BY <1>1, <1>5, ReadFieldsAppend
<1>7. NextField(Got(p, off), kind, data) = Then(Got(p, off), ReadField(kind, data, off))
  BY GotFields DEF NextField
<1> USE DEF off
<1>8. ReadFields(Append(layout, kind), data) = Then(Got(p, off), ReadField(kind, data, off))
  BY <1>6, <1>7
<1> QED BY <1>3, <1>4, <1>8 DEF data, b

\* A packet within the limits comes back, read to the end.
LEMMA LayoutBack ==
  ASSUME NEW layout \in Seq(Plain), NEW kind \in Kinds,
         NEW p \in Fillings(layout), NEW v \in Valid[kind], Within(kind, v)
  PROVE  LET data == FieldsBytes(Append(layout, kind), Append(p, v)) IN
           ReadFields(Append(layout, kind), data) = Got(Append(p, v), Len(data))
<1> DEFINE data == FieldsBytes(Append(layout, kind), Append(p, v))
           off  == Len(FieldsBytes(layout, p))
<1>1. /\ data \in Seq(Octets) /\ off \in Nat
      /\ Holds(data, off, FieldBytes(kind, v))
      /\ off + Len(FieldBytes(kind, v)) = Len(data)
      /\ ReadFields(Append(layout, kind), data) = Then(Got(p, off), ReadField(kind, data, off))
  BY ReadLast
<1> HIDE DEF data, off
<1>2. ReadField(kind, data, off) = Got(v, Len(data))
  <2>1. ReadField(kind, data, off) = Got(v, off + Len(FieldBytes(kind, v)))
    BY <1>1, ReadFieldBack
  <2> QED BY <1>1, <2>1
<1>3. ReadFields(Append(layout, kind), data) = Got(Append(p, v), Len(data))
  BY <1>1, <1>2, ThenGot
<1> QED BY <1>3 DEF data

\* Fewer strings have fewer bytes.
LEMMA StringsBytesShorter ==
  ASSUME NEW ss \in Seq(Text), NEW n \in Nat, n < Len(ss)
  PROVE  Len(StringsBytes(SubSeq(ss, 1, n))) < Len(StringsBytes(ss))
<1> DEFINE a == StringsBytes(SubSeq(ss, 1, n))
           b == StringBytes(ss[n + 1])
           c == StringsBytes(SubSeq(ss, 1, n + 1))
<1>1. n + 1 <= Len(ss) /\ n + 1 \in 0..Len(ss)
  OBVIOUS
<1>2. SubSeq(ss, 1, n) \in Seq(Text) /\ ss[n + 1] \in Text /\ c = a \o b
  BY <1>1, StringsUpto
<1>3. a \in Seq(Octets) /\ b \in Seq(Octets) /\ Len(b) = Len(ss[n + 1]) + 1
  BY <1>2, StringsBytesType, StringBytesType
<1>4. Len(ss[n + 1]) \in Nat
  BY <1>2 DEF Text
<1>5. Holds(StringsBytes(ss), 0, c)
  BY <1>1, StringsBytesPrefix
<1> HIDE DEF a, b, c
<1>6. Len(c) <= Len(StringsBytes(ss))
  <2>1. 0 + Len(c) <= Len(StringsBytes(ss))
    BY <1>5 DEF Holds
  <2>2. Len(c) \in Nat
    BY <1>2, <1>3
  <2> QED BY <2>1, <2>2
<1>7. Len(c) = Len(a) + Len(b) /\ Len(a) \in Nat
  BY <1>2, <1>3, LenConcat
<1>8. Len(StringsBytes(ss)) \in Nat
  BY StringsBytesType
<1>9. Len(a) < Len(StringsBytes(ss))
  BY <1>3, <1>4, <1>6, <1>7, <1>8
<1> QED BY <1>9 DEF a

\* A system message with too many parameters is refused, or does not end
\* where it is read to: the number's lowest byte may be small enough, but
\* then some are left over.
LEMMA TooManyParams ==
  ASSUME NEW layout \in Seq(Plain), NEW p \in Fillings(layout),
         NEW v \in Seq(Text), Len(v) > MaxParams
  PROVE  LET data == FieldsBytes(Append(layout, "params"), Append(p, v))
             r == ReadFields(Append(layout, "params"), data)
         IN  ~(r.ok /\ r.off = Len(data))
<1> DEFINE kind == "params"
           data == FieldsBytes(Append(layout, kind), Append(p, v))
           off  == Len(FieldsBytes(layout, p))
           r == ReadFields(Append(layout, kind), data)
           n == Len(v) % 256
           b == StringsBytes(v)
           f == ReadField(kind, data, off)
<1>0. kind \in Kinds /\ v \in Valid[kind]
  BY ValidIs DEF Kinds
<1>1. /\ data \in Seq(Octets) /\ off \in Nat
      /\ Holds(data, off, FieldBytes(kind, v))
      /\ off + Len(FieldBytes(kind, v)) = Len(data)
      /\ r = Then(Got(p, off), f)
  <2> HIDE DEF kind
  <2> QED BY <1>0, ReadLast
<1>2. FieldBytes(kind, v) = <<n>> \o b
  BY FieldBytesAre
<1>3. n \in Octets /\ Len(v) \in Nat
  BY DivMod
<1>4. b \in Seq(Octets)
  BY StringsBytesType
<1>5. f = IF Len(data) - off < 1 \/ data[off + 1] > MaxParams THEN Fail
          ELSE ReadStrings(data, off + 1, data[off + 1])
  BY ReadParams
<1> HIDE DEF kind, data, off, b, f, n
<1>6. <<n>> \in Seq(Octets) /\ Len(<<n>>) = 1 /\ <<n>>[1] = n
  BY <1>3
<1>7. Holds(data, off, <<n>>) /\ Holds(data, off + 1, b)
  <2>1. Holds(data, off, <<n>> \o b)
    BY <1>1, <1>2
  <2>2. Holds(data, off, <<n>>) /\ Holds(data, off + Len(<<n>>), b)
    BY <1>1, <1>4, <1>6, <2>1, HoldsConcat
  <2> QED BY <1>6, <2>2
<1>8. data[off + 1] = n
  BY <1>6, <1>7 DEF Holds
<1>9. Len(data) = (off + 1) + Len(b) /\ Len(b) \in Nat
  <2>1. Len(<<n>> \o b) = Len(<<n>>) + Len(b) /\ Len(b) \in Nat
    BY <1>4, <1>6, LenConcat
  <2> QED BY <1>1, <1>2, <1>6, <2>1
<1> SUFFICES ASSUME r.ok, r.off = Len(data) PROVE FALSE
  BY DEF data, kind
<1> HIDE DEF r
<1>10. f.ok /\ r = Got(Append(Got(p, off).value, f.value), f.off)
  BY <1>1, ThenOk
<1>11. f.off = Len(data)
  BY <1>10, GotFields
<1>12. n \in Nat /\ n <= 16 /\ f = ReadStrings(data, off + 1, n)
  <2>1. n \in Nat
    BY <1>3 DEF Octets
  <2>2. ~(data[off + 1] > MaxParams) /\ f = ReadStrings(data, off + 1, data[off + 1])
    BY <1>5, <1>10, FailField
  <2> QED BY <1>8, <2>1, <2>2 DEF MaxParams
<1>13. n < Len(v)
  BY <1>3, <1>12 DEF MaxParams
<1>14. off + 1 \in Nat /\ n <= Len(v)
  BY <1>1, <1>3, <1>12, <1>13
<1>15. f = Got(SubSeq(v, 1, n), (off + 1) + Len(StringsBytes(SubSeq(v, 1, n))))
  BY <1>1, <1>7, <1>12, <1>14, ReadStringsBack DEF b
<1>16. Len(StringsBytes(SubSeq(v, 1, n))) < Len(b)
  BY <1>12, <1>13, StringsBytesShorter DEF b
<1>17. Len(data) = (off + 1) + Len(StringsBytes(SubSeq(v, 1, n)))
  BY <1>11, <1>15, GotFields
<1>18. Len(StringsBytes(SubSeq(v, 1, n))) \in Nat
  <2>1. SubSeq(v, 1, n) \in Seq(Text)
    BY <1>12, <1>14
  <2> QED BY <2>1, StringsBytesType
<1> QED BY <1>1, <1>9, <1>16, <1>17, <1>18

\* An image with too much data is refused.
LEMMA TooMuchData ==
  ASSUME NEW layout \in Seq(Plain), NEW p \in Fillings(layout),
         NEW v \in Seq(Octets), Len(v) > MaxImage
  PROVE  LET data == FieldsBytes(Append(layout, "data"), Append(p, v)) IN
           ~ReadFields(Append(layout, "data"), data).ok
<1> DEFINE kind == "data"
           data == FieldsBytes(Append(layout, kind), Append(p, v))
           off  == Len(FieldsBytes(layout, p))
<1>0. kind \in Kinds /\ v \in Valid[kind]
  BY ValidIs DEF Kinds
<1>1. /\ data \in Seq(Octets) /\ off \in Nat
      /\ off + Len(FieldBytes(kind, v)) = Len(data)
      /\ ReadFields(Append(layout, kind), data) = Then(Got(p, off), ReadField(kind, data, off))
  <2> HIDE DEF kind
  <2> QED BY <1>0, ReadLast
<1>2. FieldBytes(kind, v) = v
  BY FieldBytesAre
<1>3. ReadField(kind, data, off) = IF Len(data) - off > MaxImage THEN Fail
                                   ELSE Got(SubSeq(data, off + 1, Len(data)), Len(data))
  BY ReadData
<1> HIDE DEF kind, data, off
<1>a. MaxImage \in Nat
  BY PacketsAssumption
<1>4. MaxImage \in Nat /\ Len(v) \in Nat
  BY <1>a
<1>5. Len(data) - off > MaxImage
  BY <1>1, <1>2, <1>4
<1>6. ReadFields(Append(layout, kind), data) = Then(Got(p, off), Fail)
  BY <1>1, <1>3, <1>5
<1>7. ~Then(Got(p, off), Fail).ok
  BY FailField DEF Then
<1>8. ~ReadFields(Append(layout, kind), data).ok
  BY <1>6, <1>7
<1> QED BY <1>8 DEF kind, data

-----------------------------------------------------------------------------


\* The code is the first byte, the fields are the others.
LEMMA FirstByte ==
  ASSUME NEW S, NEW c \in S, NEW s \in Seq(S)
  PROVE  (<<c>> \o s)[1] = c /\ Tail(<<c>> \o s) = s /\ <<c>> \o s \in Seq(S)
<1> DEFINE a == <<c>> \o s
           t == Tail(a)
<1>1. /\ a \in Seq(S) /\ Len(a) = Len(s) + 1 /\ a[1] = c /\ Len(s) \in Nat
      /\ \A i \in 1..Len(s) : a[i + 1] = s[i]
  OBVIOUS
<1> HIDE DEF a
<1>2. t \in Seq(S) /\ Len(t) = Len(s) /\ \A i \in 1..Len(s) : t[i] = a[i + 1]
  <2>1. a # <<>>
    BY <1>1
  <2> QED BY <1>1, <2>1
<1> HIDE DEF t
<1>3. t = s
  BY <1>1, <1>2, SeqEqual
<1> QED BY <1>1, <1>3 DEF a, t

\* Unpack goes by the code's type, as no two types have one code.
LEMMA UnpackOf ==
  ASSUME NEW t \in Types, NEW s \in Seq(Octets)
  PROVE  Unpack(<<Code[t]>> \o s) =
           IF Deserialize(t, s).ok
             THEN [ok |-> TRUE, type |-> t, value |-> Deserialize(t, s).value]
             ELSE Fail
<1> DEFINE plain == <<Code[t]>> \o s
<1>1. plain[1] = Code[t] /\ Tail(plain) = s
  <2>1. Code[t] \in Octets
    BY Codes DEF Octets
  <2> QED BY <2>1, FirstByte
<1> HIDE DEF plain
<1>2. Create(plain[1]) = {t}
  BY <1>1, Codes DEF Create
<1>3. (CHOOSE u \in Create(plain[1]) : TRUE) = t
  BY <1>2
<1>4. Create(plain[1]) # {}
  BY <1>2
<1>5. Unpack(plain) =
        LET type == CHOOSE u \in Create(plain[1]) : TRUE
            r == Deserialize(type, Tail(plain))
        IN  IF r.ok THEN [ok |-> TRUE, type |-> type, value |-> r.value] ELSE Fail
  BY <1>4 DEF Unpack
<1> QED BY <1>1, <1>3, <1>5 DEF plain

\* Deserialize unfolds.
LEMMA DeserializeIs ==
  ASSUME NEW t, NEW data
  PROVE  LET r == ReadFields(ReadLayout[t], data) IN
           Deserialize(t, data) = IF r.ok /\ r.off = Len(data) THEN r ELSE Fail
BY DEF Deserialize

\* A packet fits if its last field is within the limits.
LEMMA FitsWithin ==
  ASSUME NEW t \in Types, NEW front \in Seq(Plain), NEW kind \in Kinds,
         NEW q \in Fillings(front), NEW v,
         kind = "params" <=> t = "system",
         kind = "data" <=> t = "image",
         t = "system" => Len(front) = 2,
         t = "image" => Len(front) = 4
  PROVE  Fits(t, Append(q, v)) <=> Within(kind, v)
<1>1. q \in Seq(AnyValue) /\ Len(q) = Len(front)
  BY DEF Fillings
<1>2. Append(q, v)[Len(q) + 1] = v
  BY <1>1
<1>3. t = "system" => Append(q, v)[3] = v
  BY <1>1, <1>2
<1>4. t = "image" => Append(q, v)[5] = v
  BY <1>1, <1>2
<1> QED BY <1>3, <1>4 DEF Fits, Within

\* A packet's serialization is bytes.
LEMMA SerializeType ==
  ASSUME NEW t \in Types, NEW p \in PacketsOf(t)
  PROVE  Serialize(t, p) \in Seq(Octets)
BY PacketsFill, LayoutKinds, FieldsBytesType, SerializeFields

\* What was serialized is deserialized, unless it is too much or a chat
\* message.
LEMMA DeserializeBack ==
  ASSUME NEW t \in Types, NEW p \in PacketsOf(t), t # "chat"
  PROVE  LET r == Deserialize(t, Serialize(t, p)) IN
           IF Fits(t, p) THEN r.ok /\ r.value = p ELSE ~r.ok
<1> DEFINE data == Serialize(t, p)
           r == Deserialize(t, data)
<1>1. p \in Fillings(WriteLayout[t])
  BY PacketsFill
<1>2. data = FieldsBytes(WriteLayout[t], p)
  BY SerializeFields
<1>3. ReadLayout[t] = WriteLayout[t]
  BY Layouts
<1>4. ASSUME NEW f, f = ReadFields(WriteLayout[t], data)
      PROVE  r = IF f.ok /\ f.off = Len(data) THEN f ELSE Fail
  <2> HIDE DEF data
  <2> QED BY <1>3, <1>4, DeserializeIs
<1>5. CASE WriteLayout[t] = <<>> /\ t \notin {"chat", "system", "image"}
  <2>1. p = <<>> /\ data = <<>> /\ Len(data) = 0
    <3>1. p = <<>>
      BY <1>1, <1>5, FillingsEmpty
    <3>2. data = <<>>
      BY <1>2, <1>5, FieldsBytesEmpty
    <3>3. Len(<<>>) = 0
      OBVIOUS
    <3> HIDE DEF data
    <3> QED BY <3>1, <3>2, <3>3
  <2> HIDE DEF data, r
  <2>2. ReadFields(WriteLayout[t], data) = Got(<<>>, 0)
    BY <1>5, ReadFieldsEmpty
  <2>3. r = Got(<<>>, 0)
    BY <1>4, <2>1, <2>2, GotFields
  <2>4. Fits(t, p)
    BY <1>5 DEF Fits
  <2>5. r.ok /\ r.value = p
    BY <2>1, <2>3, GotFields
  <2> QED BY <2>4, <2>5 DEF r, data
<1>6. ASSUME NEW front \in Seq(Plain), NEW kind \in Kinds,
             WriteLayout[t] = Append(front, kind),
             kind = "params" <=> t = "system",
             kind = "data" <=> t = "image",
             t = "system" => Len(front) = 2,
             t = "image" => Len(front) = 4
      PROVE  IF Fits(t, p) THEN r.ok /\ r.value = p ELSE ~r.ok
  <2>1. front \in Seq(Kinds)
    BY PlainKinds, SeqMonotonic
  <2>2. PICK q \in Fillings(front), v \in Valid[kind] : p = Append(q, v)
    <3>1. \E q \in Fillings(front), v \in Valid[kind] : p = Append(q, v) /\ v = p[Len(front) + 1]
      BY <1>1, <1>6, <2>1, FillingsFront
    <3> QED BY <3>1
  <2>3. data = FieldsBytes(Append(front, kind), Append(q, v))
    BY <1>2, <1>6, <2>2
  <2> HIDE DEF data, r
  <2>4. Fits(t, p) <=> Within(kind, v)
    BY <1>6, <2>2, FitsWithin
  <2>5. CASE Within(kind, v)
    <3>1. ReadFields(WriteLayout[t], data) = Got(Append(q, v), Len(data))
      BY <1>6, <2>3, <2>5, LayoutBack
    <3>2. r = Got(Append(q, v), Len(data))
      BY <1>4, <3>1, GotFields
    <3>3. r.ok /\ r.value = p
      BY <2>2, <3>2, GotFields
    <3> QED BY <2>4, <2>5, <3>3
  <2>6. CASE ~Within(kind, v)
    <3> DEFINE f == ReadFields(WriteLayout[t], data)
    <3>1. CASE kind = "params" /\ ~(Len(v) <= MaxParams)
      <4>1. v \in Seq(Text)
        BY <3>1, ValidIs
      <4>2. Len(v) > MaxParams
        BY <3>1, <4>1 DEF MaxParams
      <4>3. ~(f.ok /\ f.off = Len(data))
        BY <1>6, <2>3, <3>1, <4>1, <4>2, TooManyParams
      <4> HIDE DEF f
      <4>4. r = Fail
        BY <1>4, <4>3 DEF f
      <4> QED BY <2>4, <2>6, <4>4, FailField
    <3>2. CASE kind = "data" /\ ~(Len(v) <= MaxImage)
      <4>1. v \in Seq(Octets)
        BY <3>2, ValidIs
      <4>a. MaxImage \in Nat
        BY PacketsAssumption
      <4>2. Len(v) > MaxImage
        BY <3>2, <4>1, <4>a
      <4>3. ~f.ok
        BY <1>6, <2>3, <3>2, <4>1, <4>2, TooMuchData
      <4> HIDE DEF f
      <4>4. r = Fail
        BY <1>4, <4>3 DEF f
      <4> QED BY <2>4, <2>6, <4>4, FailField
    <3> QED BY <2>6, <3>1, <3>2 DEF Within
  <2> QED BY <2>5, <2>6
<1> HIDE DEF r
<1>7. IF Fits(t, p) THEN r.ok /\ r.value = p ELSE ~r.ok
  BY <1>5, <1>6, LayoutShape DEF r
<1> QED BY <1>7 DEF r

\* A chat message's sender stays in the server's bytes, and is more than is read.
LEMMA ChatRefused ==
  ASSUME NEW p \in PacketsOf("chat")
  PROVE  ~Deserialize("chat", Serialize("chat", p)).ok
<1> DEFINE data == Serialize("chat", p)
           kind == "string"
<1>1. "chat" \in Types /\ WriteLayout["chat"] = <<kind, kind>> /\ ReadLayout["chat"] = <<kind>>
  BY TypesAre, Layouts DEF ContentTypes
<1>a. <<kind>> \in Seq(Plain) /\ <<kind>> \in Seq(Kinds) /\ kind \in Kinds
  BY DEF Plain, Kinds
<1>b. <<kind, kind>> = Append(<<kind>>, kind)
  OBVIOUS
<1> HIDE DEF kind
<1>2. p \in Fillings(Append(<<kind>>, kind))
  BY <1>1, <1>b, PacketsFill
<1>3. PICK q \in Fillings(<<kind>>), v \in Valid[kind] : p = Append(q, v)
  <2>1. \E q \in Fillings(<<kind>>), v \in Valid[kind] : p = Append(q, v) /\ v = p[Len(<<kind>>) + 1]
    BY <1>2, <1>a, FillingsFront
  <2> QED BY <2>1
<1> DEFINE a == FieldsBytes(<<kind>>, q)
           b == FieldBytes(kind, v)
<1>4. data = a \o b
  <2>1. data = FieldsBytes(Append(<<kind>>, kind), p)
    BY <1>1, <1>b, SerializeFields
  <2> DEFINE layout == <<kind>>
  <2>2. layout \in Seq(Kinds)
    BY <1>a
  <2> HIDE DEF layout
  <2>3. FieldsBytes(Append(layout, kind), Append(q, v)) = FieldsBytes(layout, q) \o b
    BY <1>3, <1>a, <2>2, FieldsBytesAppend DEF layout
  <2> QED BY <1>3, <2>1, <2>3 DEF layout
<1>5. a \in Seq(Octets) /\ b \in Seq(Octets)
  BY <1>a, FieldsBytesType, FieldBytesType
<1>6. Len(b) > 0
  <2>1. v \in Text /\ b = StringBytes(v)
    BY ValidIs, FieldBytesAre DEF kind
  <2>2. Len(b) = Len(v) + 1
    BY <2>1, StringBytesType
  <2>3. Len(v) \in Nat
    BY <2>1 DEF Text
  <2> QED BY <2>2, <2>3
<1> HIDE DEF data, b
<1>7. Holds(data, 0, a) /\ data \in Seq(Octets) /\ Len(a) < Len(data)
  <2> HIDE DEF a
  <2>1. data \in Seq(Octets) /\ Len(data) = Len(a) + Len(b) /\ Len(a) \in Nat /\ Len(b) \in Nat
    BY <1>4, <1>5, LenConcat
  <2>2. Holds(data, 0, a \o b)
    BY <1>4, <2>1, HoldsSelf
  <2>3. Holds(data, 0, a)
    BY <1>5, <2>1, <2>2, HoldsConcat
  <2> QED BY <1>6, <2>1, <2>3
<1>8. ReadFields(<<kind>>, data) = Got(q, Len(a))
  BY <1>7, <1>a, ReadPlain
<1> HIDE DEF a
<1>9. Len(a) # Len(data)
  BY <1>5, <1>7
<1>10. Deserialize("chat", data) = Fail
  BY <1>1, <1>8, <1>9, DeserializeIs, GotFields
<1>11. ~Deserialize("chat", data).ok
  BY <1>10, FailField
<1> QED BY <1>11 DEF data

\* A packet that is written and read comes back as it was if it is within
\* the receiver's limits and no chat message, and is refused otherwise:
\* for all strings, numbers, lists and images that the constants may be.
\* (Packet.cpp:64-322)
THEOREM PayloadBack ==
  ASSUME NEW t \in Types, NEW p \in PacketsOf(t)
  PROVE  IF Fits(t, p) /\ t # "chat"
           THEN Unpack(Payload(t, p)) = [ok |-> TRUE, type |-> t, value |-> p]
           ELSE ~Unpack(Payload(t, p)).ok
<1> DEFINE s == Serialize(t, p)
           d == Deserialize(t, s)
           u == Unpack(Payload(t, p))
<1>1. s \in Seq(Octets)
  BY SerializeType
<1>2. Payload(t, p) = <<Code[t]>> \o s
  BY DEF Payload
<1> HIDE DEF s
<1>3. u = IF d.ok THEN [ok |-> TRUE, type |-> t, value |-> d.value] ELSE Fail
  BY <1>1, <1>2, UnpackOf
<1>4. CASE t = "chat"
  <2>1. ~d.ok
    BY <1>4, ChatRefused DEF s
  <2> HIDE DEF d
  <2>2. ~u.ok
    BY <1>3, <2>1, FailField
  <2> QED BY <1>4, <2>2
<1>5. CASE t # "chat"
  <2>1. IF Fits(t, p) THEN d.ok /\ d.value = p ELSE ~d.ok
    BY <1>5, DeserializeBack DEF s
  <2> HIDE DEF d, u
  <2>2. CASE Fits(t, p)
    <3>1. u = [ok |-> TRUE, type |-> t, value |-> p]
      BY <1>3, <2>1, <2>2
    <3> QED BY <1>5, <2>2, <3>1 DEF u
  <2>3. CASE ~Fits(t, p)
    <3>1. ~u.ok
      BY <1>3, <2>1, <2>3, FailField
    <3> QED BY <2>3, <3>1 DEF u
  <2> QED BY <2>2, <2>3
<1> QED BY <1>4, <1>5

-----------------------------------------------------------------------------


\* A layout has a flag only as its first field.
FlagFirst(layout, flag) == \A i \in 1..Len(layout) : layout[i] = "flag" <=> (i = 1 /\ flag)

\* norm is data, but with a first byte of 0 or 1 if that is a flag.
Normal(norm, data, flag) ==
  /\ norm \in Seq(Octets) /\ Len(norm) = Len(data)
  /\ \A i \in 1..Len(data) : i # 1 \/ ~flag => norm[i] = data[i]
  /\ flag /\ Len(data) >= 1 => norm[1] = IF data[1] # 0 THEN 1 ELSE 0

\* What ReadField gives was there, byte by byte, once the flag is
\* normalised.
LEMMA ReadFieldNormal ==
  ASSUME NEW data \in Seq(Octets), NEW norm, NEW flag \in BOOLEAN, Normal(norm, data, flag),
         NEW off \in 0..Len(data), NEW kind \in Kinds, ReadField(kind, data, off).ok,
         kind = "flag" => off = 0 /\ flag,
         kind # "flag" /\ flag => off >= 1
  PROVE  LET r == ReadField(kind, data, off) IN
           /\ r.value \in Valid[kind]
           /\ r.off = off + Len(FieldBytes(kind, r.value))
           /\ r.off \in 0..Len(data)
           /\ kind = "flag" => r.off = 1
           /\ Holds(norm, off, FieldBytes(kind, r.value))
<1> DEFINE r == ReadField(kind, data, off)
           b == FieldBytes(kind, r.value)
<1>1. /\ r.value \in Valid[kind]
      /\ r.off = off + Len(b)
      /\ r.off \in 0..Len(data)
      /\ IF kind = "flag" THEN b = <<IF data[off + 1] # 0 THEN 1 ELSE 0>>
                          ELSE Holds(data, off, b)
  BY ReadFieldExact
<1>2. b \in Seq(Octets)
  BY <1>1, FieldBytesType
<1>3. Len(data) \in Nat /\ Len(b) \in Nat /\ off \in Nat
  <2> HIDE DEF b
  <2> QED BY <1>2
<1> HIDE DEF r, b
<1>4. CASE kind = "flag"
  <2> DEFINE x == IF data[1] # 0 THEN 1 ELSE 0
  <2>1. off = 0 /\ flag /\ b = <<x>>
    BY <1>1, <1>4
  <2> HIDE DEF x
  <2>2. Len(b) = 1 /\ b[1] = x
    BY <2>1
  <2>3. r.off = 1 /\ Len(data) >= 1
    BY <1>1, <1>3, <2>1, <2>2
  <2>4. norm[1] = x /\ Len(norm) = Len(data)
    BY <2>1, <2>3 DEF Normal, x
  <2>5. Holds(norm, off, b)
    BY <1>3, <2>1, <2>2, <2>3, <2>4 DEF Holds
  <2> QED BY <1>1, <2>3, <2>5 DEF r, b
<1>5. CASE kind # "flag"
  <2>1. Holds(data, off, b)
    BY <1>1, <1>5
  <2>2. ASSUME NEW i \in 1..Len(b) PROVE norm[off + i] = b[i]
    <3>1. off + i \in 1..Len(data) /\ data[off + i] = b[i]
      BY <1>3, <2>1 DEF Holds
    <3>2. off + i # 1 \/ ~flag
      BY <1>3, <1>5
    <3> QED BY <3>1, <3>2 DEF Normal
  <2>3. Holds(norm, off, b)
    BY <2>1, <2>2 DEF Holds, Normal
  <2> QED BY <1>1, <1>5, <2>3 DEF r, b
<1> QED BY <1>4, <1>5

\* What ReadFields gives was there, byte by byte, once the flag is
\* normalised.
LEMMA ReadFieldsExact ==
  ASSUME NEW data \in Seq(Octets), NEW norm, NEW flag \in BOOLEAN, Normal(norm, data, flag),
         NEW layout \in Seq(Kinds), FlagFirst(layout, flag), ReadFields(layout, data).ok
  PROVE  LET r == ReadFields(layout, data) IN
           /\ r.value \in Fillings(layout)
           /\ r.off = Len(FieldsBytes(layout, r.value))
           /\ r.off \in 0..Len(data)
           /\ Holds(norm, 0, FieldsBytes(layout, r.value))
<1> DEFINE Right(ll, r) == /\ r.value \in Fillings(ll)
                           /\ r.off = Len(FieldsBytes(ll, r.value))
                           /\ r.off \in 0..Len(data)
                           /\ flag /\ Len(ll) >= 1 => r.off >= 1
                           /\ Holds(norm, 0, FieldsBytes(ll, r.value))
           T == {n \in Nat : \A ll \in Seq(Kinds) :
                   Len(ll) = n /\ FlagFirst(ll, flag) /\ ReadFields(ll, data).ok
                     => Right(ll, ReadFields(ll, data))}
<1>n. norm \in Seq(Octets) /\ Len(norm) = Len(data) /\ Len(data) \in Nat
  BY DEF Normal
<1>1. 0 \in T
  <2> SUFFICES ASSUME NEW ll \in Seq(Kinds), Len(ll) = 0
               PROVE  Right(ll, ReadFields(ll, data))
    OBVIOUS
  <2>1. ll = <<>>
    OBVIOUS
  <2> DEFINE r == ReadFields(<<>>, data)
  <2>2. r.value = <<>> /\ r.off = 0
    BY ReadFieldsEmpty, GotFields
  <2> HIDE DEF r
  <2>3. FieldsBytes(<<>>, r.value) = <<>> /\ Len(<<>>) = 0
    BY FieldsBytesEmpty
  <2>4. Holds(norm, 0, <<>>)
    BY <1>n, <2>3 DEF Holds
  <2>5. r.value \in Fillings(<<>>)
    BY <2>2, FillingsEmpty
  <2>6. Right(<<>>, r)
    BY <1>n, <2>2, <2>3, <2>4, <2>5
  <2> HIDE DEF Right
  <2> QED BY <2>1, <2>6 DEF r
<1>2. ASSUME NEW n \in Nat, n \in T PROVE n + 1 \in T
  <2> SUFFICES ASSUME NEW l1 \in Seq(Kinds), Len(l1) = n + 1, FlagFirst(l1, flag),
                      ReadFields(l1, data).ok
               PROVE  Right(l1, ReadFields(l1, data))
    <3> HIDE DEF Right
    <3> QED OBVIOUS
  <2> DEFINE ll == SubSeq(l1, 1, n)
             kind == l1[n + 1]
             r == ReadFields(ll, data)
             f == ReadField(kind, data, r.off)
             r1 == ReadFields(l1, data)
  <2>1. ll \in Seq(Kinds) /\ Len(ll) = n /\ kind \in Kinds /\ l1 = Append(ll, kind)
    BY SeqFront
  <2>2. FlagFirst(ll, flag) /\ (kind = "flag" <=> n = 0 /\ flag)
    <3>1. \A i \in 1..n : ll[i] = l1[i]
      BY <2>1
    <3> HIDE DEF ll
    <3> QED BY <2>1, <3>1 DEF FlagFirst
  <2>a. n \in T
    BY <1>2
  <2> HIDE DEF ll, kind
  <2>b. Len(ll) = n /\ FlagFirst(ll, flag) /\ r.ok => Right(ll, r)
    <3> HIDE DEF Right
    <3> QED BY <2>a, <2>1
  <2> HIDE DEF T
  <2>3. r1 = NextField(r, kind, data)
    BY <2>1, ReadFieldsAppend
  <2> HIDE DEF r1, r
  <2>4. r.ok /\ f.ok /\ r1 = Got(Append(r.value, f.value), f.off)
    <3> HIDE DEF f
    <3>0. r1.ok
      BY DEF r1
    <3>1. r1 = IF r.ok THEN Then(r, f) ELSE Fail
      BY <2>3 DEF NextField, f
    <3>2. r.ok
      BY <3>0, <3>1, FailField
    <3>3. r1 = Then(r, f)
      BY <3>1, <3>2
    <3> QED BY <3>0, <3>2, <3>3, ThenOk
  <2>5. Right(ll, r)
    <3> HIDE DEF Right
    <3> QED BY <2>b, <2>1, <2>2, <2>4
  <2> DEFINE a == FieldsBytes(ll, r.value)
             b == FieldBytes(kind, f.value)
             v == Append(r.value, f.value)
  <2>6. n = 0 => r.off = 0
    <3>1. n = 0 => ll = <<>>
      BY <2>1
    <3>2. r.off = Len(a)
      BY <2>5
    <3>3. Len(<<>>) = 0
      OBVIOUS
    <3> QED BY <3>1, <3>2, <3>3, FieldsBytesEmpty
  <2>7. r.off \in 0..Len(data) /\ (flag /\ n >= 1 => r.off >= 1)
    BY <2>1, <2>5
  <2>8. /\ f.value \in Valid[kind]
        /\ f.off = r.off + Len(b)
        /\ f.off \in 0..Len(data)
        /\ kind = "flag" => f.off = 1
        /\ Holds(norm, r.off, b)
    <3>1. kind = "flag" => r.off = 0 /\ flag
      BY <2>2, <2>6
    <3>2. kind # "flag" /\ flag => r.off >= 1
      BY <2>2, <2>7
    <3> QED BY <2>1, <2>4, <2>7, <3>1, <3>2, ReadFieldNormal
  <2> HIDE DEF f
  <2>9. /\ FieldsBytes(l1, v) = a \o b
        /\ v \in Fillings(l1)
    BY <2>1, <2>5, <2>8, FieldsBytesAppend, FillingsAppend
  <2>10. a \in Seq(Octets) /\ b \in Seq(Octets)
    BY <2>1, <2>5, <2>8, FieldsBytesType, FieldBytesType
  <2>11. r.off = Len(a) /\ Holds(norm, 0, a)
    BY <2>5
  <2> HIDE DEF a, b, v, Right
  <2>12. Len(a) \in Nat /\ Len(b) \in Nat /\ Len(a \o b) = Len(a) + Len(b)
    BY <2>10, LenConcat
  <2>13. Holds(norm, 0, a \o b)
    <3>1. Holds(norm, 0 + Len(a), b)
      BY <2>8, <2>11, <2>12
    <3> QED BY <1>n, <2>10, <2>11, <3>1, HoldsConcat
  <2>14. flag => f.off >= 1
    BY <1>n, <2>2, <2>7, <2>8, <2>11, <2>12
  <2>15. r1.value = v /\ r1.off = f.off
    BY <2>4, GotValue, ZenonT(30) DEF v
  <2>16. f.off = Len(a \o b)
    BY <2>8, <2>11, <2>12
  <2>17. Right(l1, r1)
    BY <2>8, <2>9, <2>13, <2>14, <2>15, <2>16 DEF Right
  <2> QED BY <2>17 DEF r1
<1>3. Nat \subseteq T
  <2> HIDE DEF T
  <2> QED BY <1>1, <1>2, SetInduction
<1>4. Right(layout, ReadFields(layout, data))
  <2>1. Len(layout) \in T
    BY <1>3
  <2> HIDE DEF Right
  <2> QED BY <2>1
<1> QED BY <1>4

\* Only a system message has a flag, and has it first.
LEMMA LayoutFlag ==
  ASSUME NEW t \in Types
  PROVE  FlagFirst(WriteLayout[t], t = "system")
<1>1. CASE t = "system"
  BY <1>1, Layouts DEF FlagFirst
<1>2. CASE t = "image"
  BY <1>2, Layouts DEF FlagFirst
<1>3. CASE t \notin {"system", "image"}
  BY <1>3, Layouts DEF FlagFirst
<1> QED BY <1>1, <1>2, <1>3

\* Of any bytes at all, what unpack accepts serializes to just these
\* bytes, but for the flag of a system message: nothing was skipped, read
\* twice or left over.  (Packet.cpp:16-26, 64-322)
THEOREM AcceptedExactly ==
  ASSUME NEW t \in Types, t # "chat", NEW s \in Seq(Octets),
         Unpack(<<Code[t]>> \o s).ok
  PROVE  Serialize(t, Unpack(<<Code[t]>> \o s).value)
           = IF t = "system" /\ s[1] # 0 THEN [s EXCEPT ![1] = 1] ELSE s
<1> DEFINE layout == WriteLayout[t]
           flag == (t = "system")
           norm == [i \in 1..Len(s) |->
                      IF i = 1 /\ flag THEN IF s[1] # 0 THEN 1 ELSE 0 ELSE s[i]]
           d == Deserialize(t, s)
           f == ReadFields(layout, s)
           u == Unpack(<<Code[t]>> \o s)
<1>1. d.ok /\ u.value = d.value
  <2>1. u = IF d.ok THEN [ok |-> TRUE, type |-> t, value |-> d.value] ELSE Fail
    BY UnpackOf
  <2>2. u.ok
    OBVIOUS
  <2> HIDE DEF u, d
  <2>3. d.ok
    BY <2>1, <2>2, FailField
  <2> QED BY <2>1, <2>3
<1>2. f.ok /\ f.off = Len(s) /\ d = f
  <2>1. ReadLayout[t] = layout
    BY Layouts
  <2>2. d = IF f.ok /\ f.off = Len(s) THEN f ELSE Fail
    BY <2>1, DeserializeIs
  <2> HIDE DEF d, f
  <2> QED BY <1>1, <2>2, FailField
<1>3. Normal(norm, s, flag)
  <2>1. ASSUME NEW i \in 1..Len(s) PROVE norm[i] \in Octets
    <3>1. s[i] \in Octets
      BY ElementOfSeq
    <3>2. 0 \in Octets /\ 1 \in Octets
      BY DEF Octets
    <3> QED BY <3>1, <3>2
  <2>2. norm \in Seq(Octets) /\ Len(norm) = Len(s)
    BY <2>1
  <2>3. \A i \in 1..Len(s) : i # 1 \/ ~flag => norm[i] = s[i]
    OBVIOUS
  <2>4. flag /\ Len(s) >= 1 => norm[1] = IF s[1] # 0 THEN 1 ELSE 0
    OBVIOUS
  <2> HIDE DEF norm
  <2> QED BY <2>2, <2>3, <2>4 DEF Normal
<1>4. layout \in Seq(Kinds) /\ FlagFirst(layout, flag) /\ flag \in BOOLEAN
  BY LayoutKinds, LayoutFlag
<1> DEFINE bytes == FieldsBytes(layout, f.value)
<1>5. /\ f.value \in Fillings(layout) /\ f.off = Len(bytes)
      /\ Holds(norm, 0, bytes)
  <2> HIDE DEF layout, flag, norm
  <2> QED BY <1>2, <1>3, <1>4, ReadFieldsExact
<1>6. bytes \in Seq(Octets)
  <2> HIDE DEF layout, f
  <2> QED BY <1>4, <1>5, FieldsBytesType
<1>7. bytes = norm
  <2> HIDE DEF bytes, norm, f, flag
  <2>1. norm \in Seq(Octets) /\ Len(norm) = Len(bytes)
    BY <1>2, <1>3, <1>5 DEF Normal
  <2> QED BY <1>5, <1>6, <2>1, HoldsAll
<1>8. norm = IF t = "system" /\ s[1] # 0 THEN [s EXCEPT ![1] = 1] ELSE s
  <2>1. CASE ~flag
    <3>1. norm = [i \in 1..Len(s) |-> s[i]]
      BY <2>1
    <3>2. s = [i \in 1..Len(s) |-> s[i]]
      OBVIOUS
    <3> QED BY <2>1, <3>1, <3>2
  <2>2. CASE flag /\ s[1] # 0
    <3>1. norm = [i \in 1..Len(s) |-> IF i = 1 THEN 1 ELSE s[i]]
      BY <2>2
    <3>2. [s EXCEPT ![1] = 1] = [i \in 1..Len(s) |-> IF i = 1 THEN 1 ELSE s[i]]
      OBVIOUS
    <3> QED BY <2>2, <3>1, <3>2
  <2>3. CASE flag /\ s[1] = 0
    <3>1. \A i \in 1..Len(s) : norm[i] = s[i]
      BY <2>3
    <3>2. norm \in Seq(Octets) /\ Len(norm) = Len(s)
      BY <1>3 DEF Normal
    <3> HIDE DEF norm
    <3>3. norm = s
      BY <3>1, <3>2, SeqEqual
    <3> QED BY <2>3, <3>3
  <2> QED BY <2>1, <2>2, <2>3
<1>9. Serialize(t, u.value) = bytes
  <2> HIDE DEF u, d, f
  <2> QED BY <1>1, <1>2, SerializeFields
<1> QED BY <1>7, <1>8, <1>9

=============================================================================
