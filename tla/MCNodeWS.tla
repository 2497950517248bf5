------------------------------ MODULE MCNodeWS ------------------------------
(* Instances of NodeWS for TLC. *)
EXTENDS NodeWS
CONSTANTS s1, s2, s3
MCSockets == {s1, s2, s3}
Both == BOOLEAN
=============================================================================
