------------------------------ MODULE BanStore -----------------------------
(***************************************************************************)
(* The bans file over many lives of the server: the sets of banned         *)
(* nicknames and addresses, Server::saveBans after every command that      *)
(* changes them, and Server::loadBans when the server starts again.        *)
(*                                                                         *)
(* A save empties the file and then writes one line for each ban, in any   *)
(* order of the nicknames and then of the addresses (they are unordered    *)
(* sets).  The stream is buffered: the file grows in pieces that end       *)
(* anywhere in a line, the last one when the stream is closed.  The        *)
(* process may die at any moment.  Only the console changes or saves bans, *)
(* so the steps of a command interleave with nothing else here; what other *)
(* threads can do to the stream's descriptor is in Connections, and what   *)
(* comes of it, a write that fails unnoticed, is SaveFails.                *)
(***************************************************************************)
EXTENDS Naturals, FiniteSets

CONSTANTS
  Nick, Ip,   \* what the operator bans
  Cuts,       \* what loadBans may read from a line that ends too early
  None

Ban == Nick \cup Ip

ASSUME BanStoreAssumption ==
  /\ Nick \cap Ip = {} /\ None \notin Ban
  /\ Cuts \in [Ban -> SUBSET Ban]
  /\ \A n \in Nick : Cuts[n] \subseteq Nick
  /\ \A a \in Ip : Cuts[a] \subseteq Ip

VARIABLES
  pc,                    \* prompt, save (to be opened), write, or down
  bannedNicks, bannedIps,
  file,                  \* bans with a whole line in the file
  cut,                   \* what its last, cut line would be read as
  rest,                  \* bans the save under way has yet to write
  meant,                 \* history: bans when the file was last emptied
  kept,                  \* history: bans of the last save that was whole
  torn                   \* history: the last save was not

vars == <<pc, bannedNicks, bannedIps, file, cut, rest, meant, kept, torn>>

TypeOK ==
  /\ pc \in {"prompt", "save", "write", "down"}
  /\ bannedNicks \subseteq Nick /\ bannedIps \subseteq Ip
  /\ file \subseteq Ban /\ rest \subseteq Ban
  /\ cut \in Ban \cup {None}
  /\ meant \subseteq Ban /\ kept \subseteq Ban
  /\ torn \in BOOLEAN

Bans == bannedNicks \cup bannedIps

\* What loadBans would find.
Loaded == file \cup ({cut} \ {None})

\* The server has not run yet; the file is as the operator wrote it.
Init ==
  /\ pc = "down"
  /\ bannedNicks = {} /\ bannedIps = {}
  /\ file \in SUBSET Ban /\ cut = None
  /\ rest = {}
  /\ meant = file /\ kept = file /\ torn = FALSE

-----------------------------------------------------------------------------
(* Commands *)

Command(nicks, ips) ==
  /\ pc = "prompt"
  /\ bannedNicks' = nicks /\ bannedIps' = ips
  /\ pc' = "save"
  /\ UNCHANGED <<file, cut, rest, meant, kept, torn>>

BanNickname(n)   == Command(bannedNicks \cup {n}, bannedIps)
BanIp(a)         == Command(bannedNicks, bannedIps \cup {a})
UnbanNickname(n) == Command(bannedNicks \ {n}, bannedIps)

\* Mutant: the ban is lifted in memory only.
UnbanIpUnsaved(a) ==
  /\ pc = "prompt"
  /\ bannedIps' = bannedIps \ {a}
  /\ UNCHANGED <<pc, bannedNicks, file, cut, rest, meant, kept, torn>>

UnbanIp(a)       == Command(bannedNicks, bannedIps \ {a})

-----------------------------------------------------------------------------
(* saveBans *)

\* Mutant: the stream is opened for appending.
SaveOpenAppends ==
  /\ pc = "save"
  /\ cut' = None
  /\ rest' = Bans
  /\ meant' = Bans
  /\ pc' = "write"
  /\ UNCHANGED <<bannedNicks, bannedIps, file, kept, torn>>

SaveOpen ==
  /\ pc = "save"
  /\ file' = {} /\ cut' = None
  /\ rest' = Bans
  /\ meant' = Bans
  /\ pc' = "write"
  /\ UNCHANGED <<bannedNicks, bannedIps, kept, torn>>

\* A warning, and the file stays as it is.
SaveOpenFails ==
  /\ pc = "save"
  /\ pc' = "prompt" /\ torn' = TRUE
  /\ UNCHANGED <<bannedNicks, bannedIps, file, cut, rest, meant, kept>>

\* One write: whole lines, nicknames before addresses, and perhaps the
\* beginning of the next line.
Write(lines) ==
  /\ pc = "write"
  /\ lines \subseteq rest
  /\ lines \cap Ip # {} => rest \cap Nick \subseteq lines
  /\ file' = file \cup lines
  /\ rest' = rest \ lines
  /\ LET next == IF rest' \cap Nick # {} THEN rest' \cap Nick ELSE rest'
     IN  cut' \in {None} \cup UNION {Cuts[b] : b \in next}
  /\ UNCHANGED <<pc, bannedNicks, bannedIps, meant, kept, torn>>

SaveEnds ==
  /\ pc = "write" /\ rest = {}
  /\ pc' = "prompt"
  /\ kept' = Bans /\ torn' = FALSE
  /\ UNCHANGED <<bannedNicks, bannedIps, file, cut, rest, meant>>

\* A write fails: the stream writes nothing more, and nobody asks it.
SaveFails ==
  /\ pc = "write" /\ rest # {}
  /\ pc' = "prompt"
  /\ rest' = {}
  /\ torn' = TRUE
  /\ UNCHANGED <<bannedNicks, bannedIps, file, cut, meant, kept>>

-----------------------------------------------------------------------------
(* The process ends, by a crash or by stop, and is started again. *)

Ends ==
  /\ pc # "down"
  /\ pc' = "down"
  /\ bannedNicks' = {} /\ bannedIps' = {}
  /\ rest' = {}
  /\ torn' = (torn \/ pc = "write")
  /\ UNCHANGED <<file, cut, meant, kept>>

\* Mutant: the prefix of a line is taken off but not looked at.
StartNicksOnly ==
  /\ pc = "down"
  /\ bannedNicks' = Loaded /\ bannedIps' = {}
  /\ pc' = "prompt"
  /\ kept' = (IF torn THEN Loaded ELSE kept) /\ torn' = FALSE
  /\ UNCHANGED <<file, cut, rest, meant>>

\* Server::Server and loadBans.
Start ==
  /\ pc = "down"
  /\ bannedNicks' = Loaded \cap Nick /\ bannedIps' = Loaded \cap Ip
  /\ pc' = "prompt"
  /\ kept' = (IF torn THEN Loaded ELSE kept) /\ torn' = FALSE
  /\ UNCHANGED <<file, cut, rest, meant>>

\* The operator, external, edits the file while the server is stopped.
Edit(lines) ==
  /\ pc = "down"
  /\ file' = lines /\ cut' = None
  /\ meant' = lines /\ kept' = lines /\ torn' = FALSE
  /\ UNCHANGED <<pc, bannedNicks, bannedIps, rest>>

Next ==
  \/ \E n \in Nick : BanNickname(n) \/ UnbanNickname(n)
  \/ \E a \in Ip : BanIp(a) \/ UnbanIp(a)
  \/ SaveOpen \/ SaveOpenFails \/ SaveEnds \/ SaveFails
  \/ \E lines \in SUBSET rest : Write(lines)
  \/ Ends \/ Start \/ (\E lines \in SUBSET Ban : Edit(lines))

Spec == Init /\ [][Next]_vars

-----------------------------------------------------------------------------
(* Properties *)

\* A command and its save are one: a server that starts again finds the
\* bans of the last save that was whole, and one that ends between the
\* change and the save leaves no trace of the change, unless a save was
\* interrupted or failed.  (Server.cpp:284, 302, 309, 316, 357-379)
Durable ==
  pc \in {"prompt", "save", "down"} /\ ~torn =>
    /\ Loaded = kept
    /\ pc = "prompt" => Bans = kept

\* Even then the file holds no ban that was not in force when it was last
\* emptied, a lifted ban in particular, but for one whose line was cut:
\* that one is read as a ban of some other name.  (Server.cpp:363-367, 375)
NothingRevived ==
  \A b \in Loaded \ meant : b = cut /\ \E m \in meant \ file : b \in Cuts[m]

=============================================================================
