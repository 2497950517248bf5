--------------------------- MODULE MCSpecPromises ---------------------------
(* Instances of SpecPromises for TLC: one read loop, as the code means it. *)
EXTENDS SpecPromises
CONSTANTS t1, t2, a, b, c, d, e, r1
TwoTasks == {t1, t2}
AllSdks == {"python", "go", "node"}
MCIds == {a, b, c, d, e}
OneReader == {r1}
=============================================================================
