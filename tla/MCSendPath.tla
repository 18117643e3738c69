---------------------------- MODULE MCSendPath -----------------------------
(* Small instances of SendPath. *)
EXTENDS SendPath, TLC

CONSTANTS self, alice

TwoSenders   == {self, alice}
Symmetry     == Permutations(TwoSenders)
=============================================================================
