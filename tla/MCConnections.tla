--------------------------- MODULE MCConnections ---------------------------
(* Small instances of Connections. *)
EXTENDS Connections, TLC

CONSTANTS c1, c2,              \* connections
          usuario4, usuario5,  \* the default nicknames
          home                 \* an address

TwoClients == {c1, c2}

\* Interchangeable connections: only for the safety runs.
Symmetry == Permutations(TwoClients)

\* The first descriptors after the listening socket.
TwoFds == {4, 5}

OneIp == {home}

DefaultNicks == [f \in TwoFds |-> IF f = 4 THEN usuario4 ELSE usuario5]
Defaults     == {usuario4, usuario5}

\* The bans file the server starts with.
NoBans == [nicks : {{}}, ips : {{}}]
=============================================================================
