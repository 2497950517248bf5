---------------------------- MODULE MCMessaging ----------------------------
(* Instances of Messaging for TLC. *)
EXTENDS Messaging, TLC

CONSTANTS a1, a2, g1, g2, f1, t1, t2

MCAgents == {a1, a2}
MCGroups == {g1, g2}
MCFrames == {f1}
MCTasks == {t1, t2}
\* The careful user with each fault, and the other one without.
MCModes == {<<TRUE, TRUE, TRUE>>, <<TRUE, FALSE, TRUE>>, <<FALSE, TRUE, TRUE>>, <<TRUE, TRUE, FALSE>>}
Symmetry == Permutations(MCAgents) \union Permutations(MCGroups) \union Permutations(MCTasks)
=============================================================================
