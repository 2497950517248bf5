--------------------------- MODULE MCLoopIdentity ---------------------------
(* Instances of LoopIdentity for TLC. *)
EXTENDS LoopIdentity, TLC
CONSTANTS k1, k2, u1, u2, l1, l2, d1, d2, d3, d4
TwoKeys == {k1, k2}
TwoUserKeys == {u1, u2}
TwoLoops == {l1, l2}
FourDicts == {d1, d2, d3, d4}
SomeUsages == {{"auto"}, {"full"}, {"auto", "full"}, {"partial"}, {"key"}}
Both == BOOLEAN
Symm == Permutations(TwoKeys) \union Permutations(TwoUserKeys) \union Permutations(TwoLoops)
=============================================================================
