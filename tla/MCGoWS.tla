------------------------------- MODULE MCGoWS -------------------------------
(* Instances of GoWS for TLC. *)
EXTENDS GoWS
CONSTANTS c1, c2, u1, l1
TwoConns == {c1, c2}
OneCaller == {u1}
OneLoop == {l1}
JsonOnly == {"json"}
Any == {TRUE, FALSE}
=============================================================================
