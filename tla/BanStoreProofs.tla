--------------------------- MODULE BanStoreProofs --------------------------
(* The properties of BanStore, for any nicknames and addresses and any way *)
(* in which lines may be cut.                                              *)
EXTENDS BanStore, TLAPS

\* What is in the file was meant to be there, in part or whole, and a save
\* under way has exactly the rest to write.
FileInv ==
  /\ file \subseteq meant
  /\ cut # None => \E m \in meant \ file : cut \in Cuts[m]
  /\ pc = "write" => /\ meant = Bans
                     /\ file \cup rest = meant /\ file \cap rest = {}

IInv == TypeOK /\ FileInv /\ Durable

LEMMA InitIInv == Init => IInv
  BY BanStoreAssumption
  DEF Init, IInv, TypeOK, FileInv, Durable, Loaded, Ban

\* A command changes neither the file nor what is known of it.
LEMMA CommandIInv ==
  ASSUME IInv, NEW nicks \in SUBSET Nick, NEW ips \in SUBSET Ip,
         Command(nicks, ips)
  PROVE  IInv'
  BY DEF IInv, TypeOK, FileInv, Durable, Loaded, Bans, Command

LEMMA WriteIInv ==
  ASSUME IInv, NEW lines \in SUBSET rest, Write(lines)
  PROVE  IInv'
<1> DEFINE next == IF rest' \cap Nick # {} THEN rest' \cap Nick ELSE rest'
<1>1. /\ pc = "write" /\ pc' = "write"
      /\ file' = file \cup lines /\ rest' = rest \ lines
      /\ cut' \in {None} \cup UNION {Cuts[b] : b \in next}
      /\ UNCHANGED <<bannedNicks, bannedIps, meant, kept, torn>>
  BY DEF Write
<1>2. next \subseteq rest'
  OBVIOUS
<1>3. cut' # None => \E m \in rest' : cut' \in Cuts[m]
  BY <1>1, <1>2
<1>4. rest' = meant' \ file'
  BY <1>1 DEF IInv, FileInv
<1>5. FileInv'
  BY <1>1, <1>3, <1>4 DEF IInv, FileInv, Bans
<1>6. rest' \subseteq Ban /\ \A b \in Ban : Cuts[b] \subseteq Ban
  BY <1>1, BanStoreAssumption DEF IInv, TypeOK, Ban
<1>7. cut' \in Ban \cup {None}
  BY <1>3, <1>6
<1>8. TypeOK'
  BY <1>1, <1>6, <1>7 DEF IInv, TypeOK
<1>9. Durable'
  BY <1>1 DEF Durable
<1> QED BY <1>5, <1>8, <1>9 DEF IInv

\* A save that has written all its lines has cut none.
LEMMA SaveEndsIInv == ASSUME IInv, SaveEnds PROVE IInv'
<1>1. file = Bans /\ cut = None
  BY DEF IInv, FileInv, SaveEnds
<1>2. Loaded = Bans
  BY <1>1 DEF Loaded
<1>3. TypeOK' /\ FileInv'
  BY DEF IInv, TypeOK, FileInv, SaveEnds, Bans, Ban
<1>4. Durable'
  BY <1>2 DEF SaveEnds, Durable, Loaded, Bans
<1> QED BY <1>3, <1>4 DEF IInv

LEMMA StartIInv == ASSUME IInv, Start PROVE IInv'
<1>1. Loaded \subseteq Ban
  BY DEF IInv, TypeOK, Loaded
<1>2. Bans' = Loaded /\ Loaded' = Loaded
  BY <1>1 DEF Start, Bans, Loaded, Ban
<1>3. TypeOK' /\ FileInv'
  BY <1>1 DEF IInv, TypeOK, FileInv, Start, Bans
<1>4. kept' = Loaded
  BY DEF IInv, Start, Durable
<1>5. Durable'
  BY <1>2, <1>4 DEF Start, Durable
<1> QED BY <1>3, <1>5 DEF IInv

LEMMA NextIInv == IInv /\ [Next]_vars => IInv'
<1> SUFFICES ASSUME IInv, [Next]_vars PROVE IInv'
  OBVIOUS
<1> USE DEF IInv
<1>1. ASSUME NEW n \in Nick, BanNickname(n) \/ UnbanNickname(n) PROVE IInv'
  BY <1>1, CommandIInv DEF BanNickname, UnbanNickname, TypeOK
<1>2. ASSUME NEW a \in Ip, BanIp(a) \/ UnbanIp(a) PROVE IInv'
  BY <1>2, CommandIInv DEF BanIp, UnbanIp, TypeOK
<1>3. CASE SaveOpen
  BY <1>3 DEF SaveOpen, TypeOK, FileInv, Durable, Bans, Ban
<1>4. CASE SaveOpenFails
  BY <1>4 DEF SaveOpenFails, TypeOK, FileInv, Durable, Bans
<1>5. CASE SaveEnds
  BY <1>5, SaveEndsIInv
<1>6. CASE SaveFails
  BY <1>6 DEF SaveFails, TypeOK, FileInv, Durable, Bans
<1>7. ASSUME NEW lines \in SUBSET rest, Write(lines) PROVE IInv'
  BY <1>7, WriteIInv
<1>8. CASE Ends
  BY <1>8 DEF Ends, TypeOK, FileInv, Durable, Bans, Loaded
<1>9. CASE Start
  BY <1>9, StartIInv
<1>10. ASSUME NEW lines \in SUBSET Ban, Edit(lines) PROVE IInv'
  BY <1>10 DEF Edit, TypeOK, FileInv, Durable, Loaded
<1>11. CASE UNCHANGED vars
  BY <1>11 DEF vars, TypeOK, FileInv, Durable, Bans, Loaded
<1> QED
  BY <1>1, <1>2, <1>3, <1>4, <1>5, <1>6, <1>7, <1>8, <1>9, <1>10, <1>11
  DEF Next

LEMMA Inductive == Spec => []IInv
  BY InitIInv, NextIInv, PTL DEF Spec

-----------------------------------------------------------------------------

\* Every variable keeps its type: what a cut line is read as is a ban too.
THEOREM TypeCorrect == Spec => []TypeOK
  BY Inductive, PTL DEF IInv

\* A server that starts again finds the bans of the last whole save, and no
\* trace of a command that was not saved.  (Server.cpp:357-379)
THEOREM DurableCorrect == Spec => []Durable
  BY Inductive, PTL DEF IInv

\* However saves are interrupted, no lifted ban comes back, but for one cut
\* line.  (Server.cpp:363-367, 375)
THEOREM NothingRevivedCorrect == Spec => []NothingRevived
<1>1. IInv => NothingRevived
  BY DEF IInv, FileInv, NothingRevived, Loaded
<1> QED BY <1>1, Inductive, PTL
=============================================================================
