----------------------------- MODULE MCBanStore ----------------------------
(* A small instance of BanStore. *)
EXTENDS BanStore

\* Names of which one begins with the other, and so with the addresses
\* 10.0.0.1 and 10.0.0.12.
CONSTANTS usuario4, usuario45, ip1, ip12

Beginnings == [b \in Ban |-> CASE b = usuario45 -> {usuario4}
                               [] b = ip12      -> {ip1}
                               [] OTHER         -> {}]
=============================================================================
