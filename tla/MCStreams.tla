------------------------------ MODULE MCStreams ------------------------------
(* Instances of StreamOutputs for TLC: every pair of SDKs, and every caller. *)
EXTENDS StreamOutputs
CONSTANTS f1
OneFriend == {f1}
Sdks == {"python", "go", "node"}
Clients == Sdks \union {"browser"}
=============================================================================
