---------------------------- MODULE MCPyIdentity ----------------------------
(* Instances of PyIdentity for TLC. *)
EXTENDS PyIdentity, TLC
CONSTANTS k1, k2, f1, t1, t2
TwoKeys == {k1, k2}
OneFriend == {f1}
TwoTasks == {t1, t2}
Both == BOOLEAN
Symm == Permutations(TwoKeys) \union Permutations(TwoTasks)
=============================================================================
