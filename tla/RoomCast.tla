------------------------------ MODULE RoomCast -----------------------------
(* What the rooms promise: a broadcast goes at once to everyone who is in  *)
(* the room, each client is sent the broadcasts in the one order in which  *)
(* they were made, and nobody leaves a room before it has been sent those  *)
(* made while it was there.  Only the end of the server takes any back.    *)
EXTENDS Sequences

CONSTANTS Client, Room, None

VARIABLES
  where,    \* the room each client is in, or None
  pending   \* broadcasts a client is still to be sent, by author, in order

vars == <<where, pending>>

Nowhere == /\ where = [c \in Client |-> None]
           /\ pending = [c \in Client |-> <<>>]

Init == Nowhere

Enter(c, r) == /\ where[c] = None
               /\ where' = [where EXCEPT ![c] = r]
               /\ UNCHANGED pending

Leave(c) == /\ where[c] # None /\ pending[c] = <<>>
            /\ where' = [where EXCEPT ![c] = None]
            /\ UNCHANGED pending

\* A broadcast by client b, to all in the room or to all but itself, if
\* that is anyone.
Broadcast(r, b) ==
  /\ pending' # pending
  /\ \E skip \in {{}, {b}} :
       pending' = [c \in Client |-> IF where[c] = r /\ c \notin skip
                                      THEN Append(pending[c], b)
                                      ELSE pending[c]]
  /\ UNCHANGED where

Send(c) == /\ pending[c] # <<>>
           /\ pending' = [pending EXCEPT ![c] = Tail(@)]
           /\ UNCHANGED where

End == Nowhere'

Next == \/ \E c \in Client : \/ \E r \in Room : Enter(c, r)
                             \/ Leave(c) \/ Send(c)
        \/ \E r \in Room, b \in Client : Broadcast(r, b)
        \/ End

Spec == Init /\ [][Next]_vars
=============================================================================
