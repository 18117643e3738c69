-------------------------- MODULE SendPathProofs ---------------------------
(* The safety properties of SendPath, for any number of sending threads    *)
(* and of packets.                                                         *)
EXTENDS SendPath, FiniteSetTheorems, TLAPS

Sending == {"hmac", "length", "body"}

\* Pieces of its frame that a thread in Sending has sent.
Sent(p) == IF p = "hmac" THEN 0 ELSE IF p = "length" THEN 1 ELSE 2

PieceOf(s, k) == [part |-> Parts[k], sender |-> s, seq |-> seq[s],
                  counter |-> used[s]]

\* The one thread in Sending holds the lock, and the wire ends with the
\* pieces it has sent.
LockInv ==
  /\ \A s \in Sender : sendMutex = s <=> spc[s] \in Sending
  /\ \A s \in Sender : spc[s] # "idle" => seq[s] \in 1..MaxPackets
  /\ sendMutex = None => Len(wire) % 3 = 0
  /\ \A s \in Sender : spc[s] \in Sending =>
       /\ Len(wire) % 3 = Sent(spc[s])
       /\ \A k \in 1..Sent(spc[s]) :
            wire[Len(wire) - Sent(spc[s]) + k] = PieceOf(s, k)

Whole   == Len(wire) \div 3
Locked  == IF sendMutex = None THEN 0 ELSE 1
Counted == IF \E s \in Sender : spc[s] = "lock" THEN 1 ELSE 0

\* As long as no calls overlap before the lock, at most one thread is there:
\* the counter is the number of frames sent, being sent, and about to be.
CountInv ==
  /\ \A s, t \in Sender : spc[s] \in Unlocked /\ spc[t] \in Unlocked => s = t
  /\ \A s \in Sender :
       /\ spc[s] \in Sending => used[s] = Whole
       /\ spc[s] \in {"load", "store", "lock"} => used[s] = Whole + Locked
       /\ spc[s] = "store" => loaded[s] = Whole + Locked
  /\ sendCounter = Whole + Locked + Counted

IInv == /\ TypeOK /\ LockInv /\ FramesWhole
        /\ DecryptsUnlessOverlapped
        /\ ~overlapped => CountInv

-----------------------------------------------------------------------------

LEMMA Thirds ==
  ASSUME NEW n \in Nat
  PROVE  /\ n % 3 \in 0..2 /\ n % 3 <= n /\ n \div 3 \in Nat
         /\ 3 * (n \div 3) <= n
         /\ n % 3 = 0 => n = 3 * (n \div 3)
         /\ n % 3 < 2 => (n + 1) % 3 = (n % 3) + 1 /\ (n + 1) \div 3 = n \div 3
         /\ n % 3 = 2 => (n + 1) % 3 = 0 /\ (n + 1) \div 3 = n \div 3 + 1
<1>1. n % 3 \in 0..2 /\ n % 3 <= n /\ n \div 3 \in Nat
  OBVIOUS
<1>2. ASSUME n % 3 < 2
      PROVE  (n + 1) % 3 = (n % 3) + 1 /\ (n + 1) \div 3 = n \div 3
  BY <1>2
<1>3. ASSUME n % 3 = 2
      PROVE  (n + 1) % 3 = 0 /\ (n + 1) \div 3 = n \div 3 + 1
  BY <1>3
<1>4. 3 * (n \div 3) <= n
  BY <1>1
<1>5. n % 3 = 0 => n = 3 * (n \div 3)
  BY <1>1
<1> QED BY <1>1, <1>2, <1>3, <1>4, <1>5

LEMMA PartSet ==
  ASSUME NEW p, NEW q, NEW s, NEW n, NEW c
  PROVE  [[part |-> p, sender |-> s, seq |-> n, counter |-> c] EXCEPT !.part = q]
           = [part |-> q, sender |-> s, seq |-> n, counter |-> c]
  OBVIOUS

LEMMA InitIInv == Init => IInv
<1> SUFFICES ASSUME Init PROVE IInv
  OBVIOUS
<1> USE SendAssumption DEF Init, Sending, Unlocked
<1>1. wire = <<>> /\ Len(wire) = 0 /\ Whole = 0 /\ Len(wire) % 3 = 0
  BY DEF Whole
<1>2. TypeOK
  <2>1. wire \in Seq(Piece)
    BY <1>1
  <2>2. overlapped \in BOOLEAN
    OBVIOUS
  <2> QED BY <2>1, <2>2 DEF TypeOK
<1>3. LockInv
  BY <1>1 DEF LockInv
<1>4. FramesWhole /\ DecryptsUnlessOverlapped
  BY <1>1 DEF FramesWhole, DecryptsUnlessOverlapped, Frames, Whole
<1>5. CountInv
  BY <1>1 DEF CountInv, Locked, Counted
<1> QED BY <1>2, <1>3, <1>4, <1>5 DEF IInv

\* What one send() does to the wire, to whole frames and to the invariants
\* on them.
LEMMA PieceSent ==
  ASSUME IInv, NEW s \in Sender, NEW k \in 1..3,
         spc[s] = Parts[k], SendPiece(s, Parts[k])
  PROVE  /\ wire' \in Seq(Piece) /\ Len(wire') = Len(wire) + 1
         /\ \A i \in 1..Len(wire) : wire'[i] = wire[i]
         /\ wire'[Len(wire')] = PieceOf(s, k)
         /\ Len(wire) % 3 = k - 1 /\ Len(wire') % 3 = k % 3
         /\ Whole' = IF k = 3 THEN Whole + 1 ELSE Whole
         /\ \A j \in 1..k : wire'[Len(wire') - k + j] = PieceOf(s, j)
         /\ FramesWhole'
<1> USE DEF IInv, TypeOK, LockInv, Sending, Parts
<1>1. PieceOf(s, k) \in Piece
  BY DEF PieceOf, Piece
<1>2. wire' = Append(wire, PieceOf(s, k))
  BY DEF SendPiece, PieceOf
<1>3. /\ wire' \in Seq(Piece) /\ Len(wire') = Len(wire) + 1
      /\ \A i \in 1..Len(wire) : wire'[i] = wire[i]
      /\ wire'[Len(wire')] = PieceOf(s, k)
      /\ Len(wire) \in Nat
  BY <1>1, <1>2
<1>4. /\ Sent(spc[s]) = k - 1 /\ spc[s] \in Sending /\ k \in {1, 2, 3}
      /\ Len(wire) % 3 = k - 1
  <2>1. k = 1 \/ k = 2 \/ k = 3
    OBVIOUS
  <2>2. Sent(spc[s]) = k - 1 /\ spc[s] \in Sending
    BY <2>1 DEF Sent
  <2> QED BY <2>1, <2>2
<1>5. Len(wire') % 3 = k % 3 /\ Whole' = IF k = 3 THEN Whole + 1 ELSE Whole
  <2>1. CASE k = 3
    BY <1>3, <1>4, <2>1, Thirds DEF Whole
  <2>2. CASE k # 3
    <3>1. k = 1 \/ k = 2
      BY <2>2
    <3>2. k % 3 = k
      <4>1. 1 % 3 = 1 /\ 2 % 3 = 2
        OBVIOUS
      <4> QED BY <3>1, <4>1
    <3> QED BY <1>3, <1>4, <3>1, <3>2, Thirds DEF Whole
  <2> QED BY <2>1, <2>2
<1>6. ASSUME NEW j \in 1..k PROVE wire'[Len(wire') - k + j] = PieceOf(s, j)
  <2>1. CASE j = k
    BY <1>3, <1>4, <2>1
  <2>2. CASE j < k
    <3>1. j \in 1..(k - 1) /\ Len(wire) - (k - 1) + j = Len(wire') - k + j
      BY <1>3, <1>4, <2>2
    <3>2. wire[Len(wire) - (k - 1) + j] = PieceOf(s, j)
      BY <1>4, <3>1
    <3>3. Len(wire) - (k - 1) + j \in 1..Len(wire)
      BY <1>3, <1>4, <3>1, Thirds
    <3> QED BY <1>3, <3>1, <3>2, <3>3
  <2> QED BY <1>4, <2>1, <2>2
<1>7. FramesWhole'
  <2> SUFFICES ASSUME NEW i \in 1..Len(wire'), NEW first,
                      first = i - ((i - 1) % 3)
               PROVE  wire'[i] = [wire'[first] EXCEPT
                                    !.part = Parts[(i - first) + 1]]
    BY DEF FramesWhole
  <2>1. CASE i \in 1..Len(wire)
    <3>1. first \in 1..Len(wire)
      <4>1. i - 1 \in Nat
        BY <1>3, <2>1
      <4>2. (i - 1) % 3 \in 0..2 /\ (i - 1) % 3 <= i - 1
        BY <4>1, Thirds
      <4> HIDE DEF IInv, TypeOK, LockInv
      <4> QED BY <1>3, <2>1, <4>2
    <3>2. wire[i] = [wire[first] EXCEPT !.part = Parts[(i - first) + 1]]
      BY <2>1 DEF FramesWhole
    <3> QED BY <1>3, <2>1, <3>1, <3>2
  <2>2. CASE i = Len(wire')
    <3>1. (i - 1) % 3 = k - 1
      BY <1>3, <1>4, <2>2
    <3>2. first = Len(wire') - k + 1 /\ i - first + 1 = k
      BY <1>3, <2>2, <3>1
    <3>3. wire'[first] = PieceOf(s, 1)
      BY <1>6, <3>2, SMTT(30)
    <3>4. wire'[i] = PieceOf(s, k)
      BY <1>3, <2>2
    <3>5. [PieceOf(s, 1) EXCEPT !.part = Parts[k]] = PieceOf(s, k)
      <4> HIDE DEF IInv, TypeOK, LockInv, Parts
      <4> DEFINE P == Parts[1]
                 Q == Parts[k]
                 N == seq[s]
                 C == used[s]
      <4>1. /\ PieceOf(s, 1) = [part |-> P, sender |-> s, seq |-> N, counter |-> C]
            /\ PieceOf(s, k) = [part |-> Q, sender |-> s, seq |-> N, counter |-> C]
        BY DEF PieceOf
      <4> HIDE DEF P, Q, N, C
      <4>2. [[part |-> P, sender |-> s, seq |-> N, counter |-> C] EXCEPT !.part = Q]
              = [part |-> Q, sender |-> s, seq |-> N, counter |-> C]
        BY PartSet
      <4>3. [PieceOf(s, 1) EXCEPT !.part = Q] = PieceOf(s, k)
        BY <4>1, <4>2
      <4> QED BY <4>3 DEF Q
    <3> QED BY <3>2, <3>3, <3>4, <3>5
  <2> QED BY <1>3, <2>1, <2>2
<1> QED BY <1>3, <1>4, <1>5, <1>6, <1>7

\* Before the lock: the wire and its lock stay as they are.
Early(s) == Call(s) \/ Encrypt(s) \/ Load(s) \/ Store(s)

LEMMA EarlyLock ==
  ASSUME IInv, NEW s \in Sender, Early(s)
  PROVE  TypeOK' /\ LockInv' /\ FramesWhole' /\ DecryptsUnlessOverlapped'
<1> USE SendAssumption DEF IInv, Early, Call, Encrypt, Load, Store
<1>1. /\ UNCHANGED <<wire, sendMutex>>
      /\ spc[s] \in Unlocked \cup {"idle"} /\ spc' = [spc EXCEPT ![s] = spc'[s]]
      /\ spc'[s] \in Unlocked
  BY DEF TypeOK, Unlocked
<1>2. seq' \in [Sender -> 0..MaxPackets] /\ seq'[s] \in 1..MaxPackets
  <2>1. CASE Call(s)
    BY <2>1 DEF TypeOK
  <2>2. CASE ~Call(s)
    BY <2>2 DEF TypeOK, LockInv
  <2> QED BY <2>1, <2>2
<1>3. /\ sendCounter' \in Nat /\ used' \in [Sender -> Nat]
      /\ loaded' \in [Sender -> Nat] /\ overlapped' \in BOOLEAN
  <2>1. sendCounter' \in Nat
    BY DEF TypeOK
  <2>2. used' \in [Sender -> Nat] /\ loaded' \in [Sender -> Nat]
    BY ZenonT(30) DEF TypeOK
  <2>3. overlapped' \in BOOLEAN
    BY DEF TypeOK
  <2> QED BY <2>1, <2>2, <2>3
<1>4. /\ \A t \in Sender \ {s} : seq'[t] = seq[t] /\ used'[t] = used[t]
      /\ overlapped => overlapped'
  BY DEF TypeOK
<1> HIDE DEF Early, Call, Encrypt, Load, Store
<1>5. TypeOK'
  BY <1>1, <1>2, <1>3 DEF TypeOK, Unlocked
<1>6. LockInv'
  <2>1. \A t \in Sender : spc'[t] \in Sending => t # s /\ spc'[t] = spc[t]
    BY <1>1 DEF Sending, Unlocked, TypeOK
  <2>2. ASSUME NEW t \in Sender, spc'[t] \in Sending
        PROVE  \A k \in 1..3 : PieceOf(t, k)' = PieceOf(t, k)
    BY <1>4, <2>1, <2>2 DEF PieceOf
  <2>3. ASSUME NEW t \in Sender
        PROVE  sendMutex' = t <=> spc'[t] \in Sending
    BY <1>1, <2>1 DEF LockInv, TypeOK, Sending, Unlocked
  <2>4. ASSUME NEW t \in Sender, spc'[t] # "idle"
        PROVE  seq'[t] \in 1..MaxPackets
    BY <1>1, <1>2, <1>4, <2>4 DEF LockInv, TypeOK
  <2>5. ASSUME NEW t \in Sender, spc'[t] \in Sending
        PROVE  /\ Len(wire') % 3 = Sent(spc'[t])
               /\ \A k \in 1..Sent(spc'[t]) :
                    wire'[Len(wire') - Sent(spc'[t]) + k] = PieceOf(t, k)'
    BY <1>1, <2>1, <2>2, <2>5 DEF LockInv, Sent
  <2> QED BY <1>1, <2>3, <2>4, <2>5 DEF LockInv
<1>7. FramesWhole' /\ DecryptsUnlessOverlapped'
  BY <1>1, <1>4 DEF FramesWhole, DecryptsUnlessOverlapped, Frames
<1> QED BY <1>5, <1>6, <1>7

LEMMA EarlyCount ==
  ASSUME IInv, NEW s \in Sender, Early(s), ~overlapped'
  PROVE  CountInv'
<1>1. ~overlapped /\ CountInv /\ TypeOK
  BY DEF Early, Call, Encrypt, Load, Store, IInv, TypeOK
<1>2. /\ Whole' = Whole /\ Locked' = Locked
      /\ Whole \in Nat /\ Locked \in Nat
  BY <1>1, Thirds
  DEF Early, Call, Encrypt, Load, Store, Whole, Locked, TypeOK
<1> HIDE DEF Whole, Locked
<1>3. CASE Call(s)
  BY <1>1, <1>2, <1>3 DEF Call, CountInv, Counted, TypeOK, Sending, Unlocked
<1>4. \A t \in Sender : spc[t] = "lock" /\ spc[s] \in Unlocked => t = s
  BY <1>1 DEF CountInv, Unlocked
<1>5. CASE Encrypt(s)
  BY <1>1, <1>2, <1>4, <1>5, SMTT(30)
  DEF Encrypt, CountInv, Counted, TypeOK, Sending, Unlocked
<1>6. CASE Load(s)
  BY <1>1, <1>2, <1>4, <1>6
  DEF Load, CountInv, Counted, TypeOK, Sending, Unlocked
<1>7. CASE Store(s)
  BY <1>1, <1>2, <1>4, <1>7
  DEF Store, CountInv, Counted, TypeOK, Sending, Unlocked
<1> QED BY <1>3, <1>5, <1>6, <1>7 DEF Early

LEMMA LockStep ==
  ASSUME IInv, NEW s \in Sender, Lock(s)
  PROVE  IInv'
<1> USE SendAssumption DEF IInv, Lock
<1>1. TypeOK'
  BY DEF TypeOK, Unlocked
<1>2. UNCHANGED wire /\ Len(wire) % 3 = 0
  BY DEF LockInv
<1>3. LockInv'
  <2>1. ASSUME NEW t \in Sender
        PROVE  /\ sendMutex' = t <=> spc'[t] \in Sending
               /\ spc'[t] # "idle" => seq'[t] \in 1..MaxPackets
    BY DEF LockInv, TypeOK, Sending
  <2>2. ASSUME NEW t \in Sender, spc'[t] \in Sending
        PROVE  Len(wire') % 3 = Sent(spc'[t]) /\ Sent(spc'[t]) = 0
    BY <1>2, <2>1, <2>2 DEF Sent, TypeOK
  <2> QED BY <2>1, <2>2 DEF LockInv
<1>4. FramesWhole' /\ DecryptsUnlessOverlapped'
  BY DEF FramesWhole, DecryptsUnlessOverlapped, Frames
<1>5. ASSUME ~overlapped' PROVE CountInv'
  <2>1. CountInv /\ Whole' = Whole /\ Whole \in Nat /\ Locked = 0 /\ Locked' = 1
    BY <1>5, Thirds DEF Whole, Locked, TypeOK
  <2> HIDE DEF Whole, Locked
  <2>2. Counted = 1 /\ \A t \in Sender : spc[t] \in Unlocked => t = s
    BY <2>1 DEF CountInv, Counted, Unlocked
  <2>3. Counted' = 0
    BY <2>2 DEF Counted, Unlocked, TypeOK
  <2>4. \A t \in Sender : spc[t] \notin Sending
    BY DEF LockInv
  <2> QED BY <2>1, <2>2, <2>3, <2>4
      DEF CountInv, TypeOK, Unlocked, Sending
<1> QED BY <1>1, <1>3, <1>4, <1>5

LEMMA PieceStep ==
  ASSUME IInv, NEW s \in Sender, NEW k \in 1..2,
         spc[s] = Parts[k], SendPiece(s, Parts[k]),
         spc' = [spc EXCEPT ![s] = Parts[k + 1]],
         UNCHANGED <<sendCounter, sendMutex, seq, used, loaded, overlapped>>
  PROVE  IInv'
<1>1. /\ k \in 1..3 /\ (k = 1 \/ k = 2) /\ spc[s] \in Sending
      /\ spc'[s] = Parts[k + 1] /\ spc'[s] \in {"length", "body"}
      /\ Sent(spc'[s]) = k /\ k % 3 = k /\ k # 3
  <2>1. 1 % 3 = 1 /\ 2 % 3 = 2
    OBVIOUS
  <2>2. spc'[s] = Parts[k + 1]
    BY DEF IInv, TypeOK
  <2>3. CASE k = 1
    BY <2>1, <2>2, <2>3 DEF Parts, Sending, Sent
  <2>4. CASE k = 2
    BY <2>1, <2>2, <2>4 DEF Parts, Sending, Sent
  <2> QED BY <2>3, <2>4
<1>2. /\ wire' \in Seq(Piece) /\ Len(wire') = Len(wire) + 1
      /\ \A i \in 1..Len(wire) : wire'[i] = wire[i]
      /\ Len(wire') % 3 = k /\ Whole' = Whole
      /\ \A j \in 1..k : wire'[Len(wire') - k + j] = PieceOf(s, j)
      /\ FramesWhole'
  BY <1>1, PieceSent
<1>3. sendMutex = s /\ \A t \in Sender : spc[t] \in Sending => t = s
  BY <1>1 DEF IInv, LockInv
<1>4. TypeOK'
  BY <1>1, <1>2, <1>3 DEF IInv, TypeOK, Unlocked
<1>5. LockInv'
  <2>1. \A t \in Sender : spc'[t] \in Sending <=> t = s
    BY <1>1, <1>3 DEF IInv, TypeOK, Sending
  <2>2. \A j \in 1..k : PieceOf(s, j)' = PieceOf(s, j)
    BY DEF PieceOf
  <2>3. seq[s] \in 1..MaxPackets
    BY <1>1 DEF IInv, LockInv, Sending
  <2>4. \A t \in Sender : /\ sendMutex' = t <=> spc'[t] \in Sending
                          /\ spc'[t] # "idle" => seq'[t] \in 1..MaxPackets
    BY <1>3, <2>1, <2>3 DEF IInv, LockInv, TypeOK
  <2>5. sendMutex' # None
    BY <1>3, SendAssumption
  <2> QED BY <1>1, <1>2, <2>1, <2>2, <2>4, <2>5 DEF LockInv
<1>6. Frames' = Frames
  <2>1. ASSUME NEW n \in 1..Whole PROVE wire'[3 * n] = wire[3 * n]
    <3>1. 3 * Whole <= Len(wire) /\ Whole \in Nat /\ Len(wire) \in Nat
      BY Thirds DEF Whole, IInv, TypeOK
    <3>2. 3 * n \in 1..Len(wire)
      BY <3>1
    <3> QED BY <1>2, <3>2
  <2> QED BY <1>2, <2>1 DEF Frames, Whole
<1>7. DecryptsUnlessOverlapped'
  BY <1>6 DEF IInv, DecryptsUnlessOverlapped
<1>8. ASSUME ~overlapped' PROVE CountInv'
  <2>1. Locked' = Locked /\ Counted' = Counted
    BY <1>1 DEF Locked, Counted, IInv, TypeOK, Sending
  <2> QED BY <1>1, <1>2, <1>8, <2>1
      DEF IInv, CountInv, TypeOK, Unlocked, Sending
<1> QED BY <1>2, <1>4, <1>5, <1>7, <1>8 DEF IInv

LEMMA BodyStep ==
  ASSUME IInv, NEW s \in Sender, SendBody(s)
  PROVE  IInv'
<1>1. /\ spc[s] = Parts[3] /\ SendPiece(s, Parts[3]) /\ spc[s] \in Sending
      /\ spc' = [spc EXCEPT ![s] = "idle"] /\ sendMutex' = None
      /\ UNCHANGED <<sendCounter, seq, used, loaded, overlapped>>
  BY DEF SendBody, SendPiece, Parts, Sending
<1>2. /\ wire' \in Seq(Piece) /\ Len(wire') = Len(wire) + 1
      /\ \A i \in 1..Len(wire) : wire'[i] = wire[i]
      /\ wire'[Len(wire')] = PieceOf(s, 3) /\ Len(wire) % 3 = 2
      /\ Len(wire') % 3 = 0 /\ Whole' = Whole + 1
      /\ FramesWhole'
  <2>1. 3 \in 1..3 /\ 3 % 3 = 0
    OBVIOUS
  <2> QED BY <1>1, <2>1, PieceSent
<1>3. sendMutex = s /\ \A t \in Sender : spc[t] \in Sending => t = s
  BY <1>1 DEF IInv, LockInv
<1>4. TypeOK'
  BY <1>1, <1>2, <1>3 DEF IInv, TypeOK, Sending
<1>5. LockInv'
  <2>1. \A t \in Sender : spc'[t] \notin Sending
    BY <1>1, <1>3 DEF IInv, TypeOK, Sending
  <2> QED BY <1>1, <1>2, <2>1, SendAssumption DEF IInv, LockInv, TypeOK
<1>6. Whole \in Nat /\ 3 * Whole <= Len(wire) /\ Len(wire') = 3 * Whole'
  <2>1. Len(wire) \in Nat /\ Len(wire') \in Nat
    BY <1>2 DEF IInv, TypeOK
  <2> QED BY <1>2, <2>1, Thirds DEF Whole
<1>7. DecryptsUnlessOverlapped'
  <2> SUFFICES ASSUME ~overlapped, NEW n \in 1..Whole'
               PROVE  wire'[3 * n].counter = n - 1
    BY <1>1 DEF DecryptsUnlessOverlapped, Frames, Whole
  <2>1. CASE n = Whole + 1
    BY <1>1, <1>2, <1>6, <2>1, SMTT(30) DEF IInv, CountInv, PieceOf
  <2>2. CASE n \in 1..Whole
    <3>1. Frames[n].counter = n - 1 /\ Frames[n] = wire[3 * n]
      BY <2>2 DEF IInv, DecryptsUnlessOverlapped, Frames, Whole
    <3>2. 3 * n \in 1..Len(wire)
      BY <1>2, <1>6, <2>2 DEF IInv, TypeOK
    <3> QED BY <1>2, <3>1, <3>2
  <2> QED BY <1>2, <1>6, <2>1, <2>2
<1>8. ASSUME ~overlapped' PROVE CountInv'
  <2>1. Locked = 1 /\ Locked' = 0 /\ Counted' = Counted
    BY <1>1, <1>3, SendAssumption DEF Locked, Counted, IInv, TypeOK, Sending
  <2>2. \A t \in Sender : spc'[t] \notin Sending
    BY <1>5, <1>1, SendAssumption DEF LockInv
  <2>3. CountInv /\ Whole' = Whole + 1 /\ Whole \in Nat
    BY <1>1, <1>2, <1>6, <1>8 DEF IInv
  <2>4. \A t \in Sender : spc'[t] = IF t = s THEN "idle" ELSE spc[t]
    BY <1>1 DEF IInv, TypeOK
  <2> HIDE DEF Whole, Locked, Counted
  <2>5. \A t, u \in Sender :
          spc'[t] \in Unlocked /\ spc'[u] \in Unlocked => t = u
    BY <2>3, <2>4 DEF CountInv, Unlocked
  <2>6. ASSUME NEW t \in Sender, spc'[t] \in {"load", "store", "lock"}
        PROVE  /\ used'[t] = Whole' + Locked'
               /\ spc'[t] = "store" => loaded'[t] = Whole' + Locked'
    <3>1. spc[t] = spc'[t]
      BY <2>4, <2>6
    <3>2. used[t] = Whole + 1 /\ (spc[t] = "store" => loaded[t] = Whole + 1)
      BY <2>1, <2>3, <2>6, <3>1 DEF CountInv
    <3>3. Whole' + Locked' = Whole + 1
      BY <2>1, <2>3
    <3> QED BY <1>1, <3>1, <3>2, <3>3
  <2>7. sendCounter' = Whole' + Locked' + Counted'
    <3>1. Counted \in Nat
      BY DEF Counted
    <3>2. sendCounter = Whole + 1 + Counted
      BY <2>1, <2>3 DEF CountInv
    <3> QED BY <1>1, <2>1, <2>3, <3>1, <3>2
  <2> QED BY <2>2, <2>5, <2>6, <2>7 DEF CountInv
<1> QED BY <1>2, <1>4, <1>5, <1>7, <1>8 DEF IInv

LEMMA NextIInv == IInv /\ [Next]_vars => IInv'
<1> SUFFICES ASSUME IInv, [Next]_vars PROVE IInv'
  OBVIOUS
<1>1. ASSUME NEW s \in Sender, Early(s) PROVE IInv'
  BY <1>1, EarlyLock, EarlyCount DEF IInv
<1>2. ASSUME NEW s \in Sender, Lock(s) PROVE IInv'
  BY <1>2, LockStep
<1>3. ASSUME NEW s \in Sender, SendHmac(s) PROVE IInv'
  <2>1. /\ 1 \in 1..2 /\ Parts[1] = "hmac" /\ Parts[1 + 1] = "length"
    BY DEF Parts
  <2> QED BY <1>3, <2>1, PieceStep DEF SendHmac, SendPiece
<1>4. ASSUME NEW s \in Sender, SendLength(s) PROVE IInv'
  <2>1. /\ 2 \in 1..2 /\ Parts[2] = "length" /\ Parts[2 + 1] = "body"
    BY DEF Parts
  <2> QED BY <1>4, <2>1, PieceStep DEF SendLength, SendPiece
<1>5. ASSUME NEW s \in Sender, SendBody(s) PROVE IInv'
  BY <1>5, BodyStep
<1>6. CASE UNCHANGED vars
  BY <1>6
  DEF vars, IInv, TypeOK, LockInv, PieceOf, FramesWhole,
      DecryptsUnlessOverlapped, Frames, CountInv, Whole, Locked, Counted
<1> QED BY <1>1, <1>2, <1>3, <1>4, <1>5, <1>6 DEF Next, Done, Early

-----------------------------------------------------------------------------
(* The refinement of FrameLog. *)

\* The frames of a thread on the wire are those of the calls that have
\* returned.
FramesOf(s) == {n \in 1..Whole : Frames[n].sender = s}

SeqInv ==
  \A s \in Sender :
    Cardinality(FramesOf(s)) = IF spc[s] = "idle" THEN seq[s] ELSE seq[s] - 1

\* Only the last piece adds a frame.
LEMMA FramesKept ==
  ASSUME IInv, NEW s \in Sender,
         Early(s) \/ Lock(s) \/ SendHmac(s) \/ SendLength(s)
  PROVE  Whole' = Whole /\ Frames' = Frames
<1>1. CASE Early(s) \/ Lock(s)
  BY <1>1 DEF Early, Call, Encrypt, Load, Store, Lock, Whole, Frames
<1>2. ASSUME NEW k \in 1..2, spc[s] = Parts[k], SendPiece(s, Parts[k])
      PROVE  Whole' = Whole /\ Frames' = Frames
  <2>1. /\ k \in 1..3 /\ k # 3
        /\ \A i \in 1..Len(wire) : wire'[i] = wire[i]
        /\ Whole' = Whole
    BY <1>2, PieceSent
  <2>2. ASSUME NEW n \in 1..Whole PROVE wire'[3 * n] = wire[3 * n]
    <3>1. 3 * Whole <= Len(wire) /\ Whole \in Nat /\ Len(wire) \in Nat
      BY Thirds DEF Whole, IInv, TypeOK
    <3>2. 3 * n \in 1..Len(wire)
      BY <3>1
    <3> QED BY <2>1, <3>2
  <2> QED BY <2>1, <2>2 DEF Frames, Whole
<1>3. CASE SendHmac(s)
  <2>1. 1 \in 1..2 /\ Parts[1] = "hmac"
    BY DEF Parts
  <2> QED BY <1>2, <1>3, <2>1 DEF SendHmac, SendPiece
<1>4. CASE SendLength(s)
  <2>1. 2 \in 1..2 /\ Parts[2] = "length"
    BY DEF Parts
  <2> QED BY <1>2, <1>4, <2>1 DEF SendLength, SendPiece
<1> QED BY <1>1, <1>3, <1>4

LEMMA FrameAdded ==
  ASSUME IInv, NEW s \in Sender, SendBody(s)
  PROVE  /\ Whole \in Nat /\ Whole' = Whole + 1
         /\ \A n \in 1..Whole : Frames'[n] = Frames[n]
         /\ Frames'[Whole + 1] = PieceOf(s, 3)
<1>1. 3 \in 1..3 /\ Parts[3] = "body" /\ 3 % 3 = 0
  BY DEF Parts
<1>2. /\ \A i \in 1..Len(wire) : wire'[i] = wire[i]
      /\ Len(wire') = Len(wire) + 1 /\ wire'[Len(wire')] = PieceOf(s, 3)
      /\ Len(wire') % 3 = 0 /\ Whole' = Whole + 1
  <2>1. spc[s] = Parts[3] /\ SendPiece(s, Parts[3])
    BY <1>1 DEF SendBody, SendPiece
  <2> QED BY <1>1, <2>1, PieceSent
<1>3. /\ Len(wire) \in Nat /\ Len(wire') \in Nat /\ Whole \in Nat
      /\ 3 * Whole <= Len(wire) /\ Len(wire') = 3 * Whole'
  <2>1. Len(wire) \in Nat /\ Len(wire') \in Nat
    BY <1>2 DEF IInv, TypeOK
  <2> QED BY <1>2, <2>1, Thirds DEF Whole
<1>4. \A n \in 1..Whole : 3 * n \in 1..Len(wire) /\ n \in 1..Whole'
  BY <1>2, <1>3
<1>5. Whole + 1 \in 1..Whole' /\ 3 * (Whole + 1) = Len(wire')
  BY <1>2, <1>3
<1>6. /\ Frames = [n \in 1..Whole |-> wire[3 * n]]
      /\ Frames' = [n \in 1..Whole' |-> wire'[3 * n]]
  BY DEF Frames, Whole
<1> HIDE DEF Whole
<1> QED BY <1>2, <1>3, <1>4, <1>5, <1>6

LEMMA InitSeqInv == Init => SeqInv
<1> SUFFICES ASSUME Init PROVE SeqInv
  OBVIOUS
<1>1. Whole = 0
  <2>1. Len(wire) = 0
    BY DEF Init
  <2> QED BY <2>1 DEF Whole
<1>2. \A s \in Sender : FramesOf(s) = {}
  BY <1>1 DEF FramesOf
<1> QED BY <1>2, FS_EmptySet DEF SeqInv, Init

\* The frame of one more call is added to those of its thread.
LEMMA BodySeq ==
  ASSUME IInv, NEW s \in Sender, SendBody(s)
  PROVE  /\ \A t \in Sender \ {s} : FramesOf(t)' = FramesOf(t)
         /\ Cardinality(FramesOf(s)') = Cardinality(FramesOf(s)) + 1
<1>1. /\ Whole \in Nat /\ Whole' = Whole + 1
      /\ \A n \in 1..Whole : Frames'[n] = Frames[n]
      /\ Frames'[Whole + 1] = PieceOf(s, 3)
  BY FrameAdded
<1>2. PieceOf(s, 3).sender = s
  BY DEF PieceOf
<1> HIDE DEF Whole
<1>3. 1..Whole' = (1..Whole) \cup {Whole + 1}
  BY <1>1
<1>4. \A t \in Sender \ {s} : FramesOf(t)' = FramesOf(t)
  BY <1>1, <1>2, <1>3 DEF FramesOf
<1>5. FramesOf(s)' = FramesOf(s) \cup {Whole + 1}
  BY <1>1, <1>2, <1>3 DEF FramesOf
<1>6. IsFiniteSet(FramesOf(s)) /\ Whole + 1 \notin FramesOf(s)
  <2>1. IsFiniteSet(1..Whole)
    BY <1>1, FS_Interval
  <2>2. FramesOf(s) \in SUBSET (1..Whole)
    BY DEF FramesOf
  <2>3. IsFiniteSet(FramesOf(s))
    BY <2>1, <2>2, FS_Subset
  <2> QED BY <1>1, <2>2, <2>3
<1>7. Cardinality(FramesOf(s) \cup {Whole + 1}) = Cardinality(FramesOf(s)) + 1
  BY <1>6, FS_AddElement
<1> QED BY <1>4, <1>5, <1>7

LEMMA NextSeqInv == IInv /\ SeqInv /\ [Next]_vars => SeqInv'
<1> SUFFICES ASSUME IInv, SeqInv, [Next]_vars PROVE SeqInv'
  OBVIOUS
<1>1. ASSUME NEW s \in Sender,
             Early(s) \/ Lock(s) \/ SendHmac(s) \/ SendLength(s)
      PROVE  SeqInv'
  <2>1. \A t \in Sender : FramesOf(t)' = FramesOf(t)
    BY <1>1, FramesKept DEF FramesOf
  <2>2. \A t \in Sender :
          (IF spc'[t] = "idle" THEN seq'[t] ELSE seq'[t] - 1)
            = IF spc[t] = "idle" THEN seq[t] ELSE seq[t] - 1
    <3>1. CASE Call(s)
      BY <3>1 DEF Call, IInv, TypeOK
    <3>2. CASE ~Call(s)
      <4>1. spc[s] # "idle" /\ UNCHANGED seq
            /\ spc' = [spc EXCEPT ![s] = spc'[s]] /\ spc'[s] # "idle"
        BY <1>1, <3>2 DEF IInv, TypeOK, Early, Encrypt, Load, Store, Lock,
                          SendHmac, SendLength, SendPiece
      <4>2. \A t \in Sender : spc'[t] = "idle" <=> spc[t] = "idle"
        BY <4>1 DEF IInv, TypeOK
      <4> QED BY <4>1, <4>2
    <3> QED BY <3>1, <3>2
  <2> QED BY <2>1, <2>2 DEF SeqInv
<1>2. ASSUME NEW s \in Sender, SendBody(s) PROVE SeqInv'
  <2>1. \A t \in Sender : /\ spc'[t] = IF t = s THEN "idle" ELSE spc[t]
                          /\ seq'[t] = seq[t] /\ seq[t] \in Nat
    BY <1>2 DEF SendBody, IInv, TypeOK
  <2>2. Cardinality(FramesOf(s)) = seq[s] - 1
    BY <1>2 DEF SendBody, SendPiece, SeqInv
  <2> QED BY <1>2, <2>1, <2>2, BodySeq DEF SeqInv
<1>3. CASE UNCHANGED vars
  BY <1>3 DEF vars, SeqInv, FramesOf, Whole, Frames
<1> QED BY <1>1, <1>2, <1>3 DEF Next, Done, Early

\* What the log is, in the terms of the lemmas above.
LogIs == [n \in DOMAIN Frames |-> [sender |-> Frames[n].sender,
                                   seq |-> Frames[n].seq]]

LEMMA InitLog == Init => Log!Init
<1> SUFFICES ASSUME Init PROVE LogIs = <<>>
  BY DEF Log!Init, LogIs
<1>1. Whole = 0
  <2>1. Len(wire) = 0
    BY DEF Init
  <2> QED BY <2>1 DEF Whole
<1> QED BY <1>1 DEF LogIs, Frames, Whole

LEMMA NextLog == IInv /\ SeqInv /\ [Next]_vars => [Log!Next]_LogIs
<1> SUFFICES ASSUME IInv, SeqInv, [Next]_vars PROVE Log!Next \/ LogIs' = LogIs
  OBVIOUS
<1>1. ASSUME NEW s \in Sender,
             Early(s) \/ Lock(s) \/ SendHmac(s) \/ SendLength(s)
      PROVE  LogIs' = LogIs
  BY <1>1, FramesKept DEF LogIs
<1>2. ASSUME NEW s \in Sender, SendBody(s) PROVE Log!Send(s)
  <2> DEFINE Entry == [sender |-> s, seq |-> seq[s]]
  <2>1. /\ Whole \in Nat /\ Whole' = Whole + 1
        /\ \A n \in 1..Whole : Frames'[n] = Frames[n]
        /\ Frames'[Whole + 1] = PieceOf(s, 3)
    BY <1>2, FrameAdded
  <2>2. DOMAIN Frames = 1..Whole /\ DOMAIN Frames' = 1..Whole'
    BY DEF Frames, Whole
  <2> HIDE DEF Whole
  <2>3. /\ DOMAIN LogIs = 1..Whole /\ Len(LogIs) = Whole
        /\ LogIs \in Seq({LogIs[n] : n \in 1..Whole})
    BY <2>1, <2>2 DEF LogIs
  <2>4. LogIs' = Append(LogIs, Entry)
    <3>1. PieceOf(s, 3).sender = s /\ PieceOf(s, 3).seq = seq[s]
      BY DEF PieceOf
    <3>2. LogIs' = [n \in 1..(Whole + 1) |->
                      IF n = Whole + 1 THEN Entry ELSE LogIs[n]]
      BY <2>1, <2>2, <3>1 DEF LogIs
    <3>3. Append(LogIs, Entry) = [n \in 1..(Whole + 1) |->
                      IF n = Whole + 1 THEN Entry ELSE LogIs[n]]
      BY <2>1, <2>3
    <3> QED BY <3>2, <3>3
  <2>5. Log!From(s) = FramesOf(s)
    BY <2>2 DEF Log!From, FramesOf
  <2>6. Cardinality(FramesOf(s)) + 1 = seq[s]
    <3>1. seq[s] \in Nat /\ spc[s] = "body"
      BY <1>2 DEF SendBody, SendPiece, IInv, TypeOK
    <3>2. Cardinality(FramesOf(s)) = seq[s] - 1
      BY <3>1 DEF SeqInv
    <3> QED BY <3>1, <3>2
  <2> QED BY <2>4, <2>5, <2>6, ZenonT(30) DEF Log!Send, LogIs, Log!Cardinality, Cardinality
<1>3. CASE UNCHANGED vars
  BY <1>3 DEF vars, LogIs, Frames
<1> QED BY <1>1, <1>2, <1>3 DEF Next, Done, Early, Log!Next

LEMMA Inductive == Spec => []IInv
  BY InitIInv, NextIInv, PTL DEF Spec

-----------------------------------------------------------------------------

\* Every variable keeps its type, and a thread that sends holds the lock.
THEOREM TypeCorrect == Spec => []TypeOK
  BY Inductive, PTL DEF IInv

\* The stream to a client is a sequence of whole frames, whatever threads
\* send.  (Client.cpp:179-182)
THEOREM FramesWholeCorrect == Spec => []FramesWhole
  BY Inductive, PTL DEF IInv

\* As long as no calls overlap before the lock, the n-th frame was encrypted
\* with counter n.  (Client.cpp:169-171)
THEOREM DecryptsCorrect == Spec => []DecryptsUnlessOverlapped
  BY Inductive, PTL DEF IInv

\* However many threads send, the client is sent whole packets, one after the
\* other, those of one thread in its order and each once: sendPacket
\* implements FrameLog.  (Client.cpp:163-182)
THEOREM RefinesFrameLog == Spec => SendsInOrder
<1>1. Init => SeqInv /\ Log!Init
  BY InitSeqInv, InitLog
<1>2. Spec => [](IInv /\ SeqInv)
  BY <1>1, InitIInv, NextIInv, NextSeqInv, PTL DEF Spec
<1>3. IInv /\ SeqInv /\ [Next]_vars => [Log!Next]_LogIs
  BY NextLog
<1> QED BY <1>1, <1>2, <1>3, PTL DEF Spec, SendsInOrder, Log!Spec, LogIs
=============================================================================
