------------------------------ MODULE MCRooms ------------------------------
(* A small instance of Rooms. *)
EXTENDS Rooms

CONSTANTS lobby, sala,              \* rooms
          usuario4, usuario5

DefaultNicks == [c \in Client |-> IF c = 4 THEN usuario4 ELSE usuario5]
=============================================================================
