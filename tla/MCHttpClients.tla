--------------------------- MODULE MCHttpClients ---------------------------
(* Instances of HttpClients for TLC. *)
EXTENDS HttpClients, TLC

CONSTANTS c1, c2, o1, o2, t1, t2

MCCodes == {c1, c2}
MCOwners == {o1, o2}
MCTasks == {t1, t2}
\* Commands do not overlap.  The owner's client with overlapping calls and
\* failures at once is left out: it has more states than the rest together.
MCModes == {<<"room", se, sa>> : se \in BOOLEAN, sa \in BOOLEAN}
           \union {<<"cli", TRUE, sa>> : sa \in BOOLEAN}
           \union {<<"owner", TRUE, TRUE>>, <<"owner", TRUE, FALSE>>, <<"owner", FALSE, TRUE>>}
Symmetry == Permutations(MCCodes) \union Permutations(MCOwners) \union Permutations(MCTasks)
=============================================================================
