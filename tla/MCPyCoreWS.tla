----------------------------- MODULE MCPyCoreWS -----------------------------
(* Instances of PyCoreWS for TLC. *)
EXTENDS PyCoreWS
CONSTANTS s1, s2, s3, u1
MCSockets == {s1, s2, s3}
OneCaller == {u1}
AgentOnly == {"agent"}
AgentAndRoom == {"agent", "room"}
=============================================================================
