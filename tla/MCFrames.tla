----------------------------- MODULE MCFrames ------------------------------
(* A small instance of Frames. *)
EXTENDS Frames, Bitwise

FewStrings == {<<>>, <<97, 255>>}
FewNumbers == {0, 1, 255, 256, 65535}

\* Short lists, and as many parameters as are allowed and more.
FewLists  == BoundedSeq(FewStrings, 2)
             \cup {[i \in 1..n |-> <<>>] : n \in {16, 17, 18}}
FewImages == {<<>>, <<0>>, <<7, 0>>, <<0, 0, 7>>}

\* A digest is nobody's guess; any bytes do that differ with all three.
SomeDigest(counter, block, i) == (101 * counter + 67 * block + 31 * i + 5) % 256

ExclusiveOr(a, b) == a ^^ b
=============================================================================
