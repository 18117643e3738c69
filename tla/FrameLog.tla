----------------------------- MODULE FrameLog ------------------------------
(* What Client::sendPacket promises its callers: however many threads send *)
(* to a client, the client is sent whole packets, one after the other, and *)
(* those of one thread in the order the thread sent them.                  *)
EXTENDS Naturals, FiniteSets, Sequences

CONSTANT Sender

VARIABLE log   \* packets sent so far

From(s) == {n \in DOMAIN log : log[n].sender = s}

Init == log = <<>>

Send(s) ==
  log' = Append(log, [sender |-> s, seq |-> Cardinality(From(s)) + 1])

Next == \E s \in Sender : Send(s)

Spec == Init /\ [][Next]_log
=============================================================================
