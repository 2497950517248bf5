---------------------------- MODULE DedupPromise ----------------------------
(***************************************************************************)
(* What SPEC.md ("Message Deduplication") promises of every SDK, without   *)
(* the data structure: an id handled within the last Keep deliveries is    *)
(* never handled again, and a message is only ever dropped when its id was *)
(* handled within the last PruneAt deliveries.  Between the two bounds an  *)
(* implementation is free.                                                 *)
(***************************************************************************)
EXTENDS Naturals

CONSTANTS Ids,      \* message ids
          Keep,     \* ids that are certainly remembered
          PruneAt,  \* ids that may be remembered
          NoId      \* "no verdict yet", not an id

VARIABLES n,        \* deliveries since the last Reset
          at,       \* at[id]: number of the last delivery of id, 0 if none
          last      \* last verdict: which id, and whether it was handled

promiseVars == <<n, at, last>>

Age(id) == n - at[id]
Seen(id) == at[id] > 0

PromiseInit ==
    /\ n = 0
    /\ at = [id \in Ids |-> 0]
    /\ last = [id |-> NoId, handled |-> FALSE]

Handle(id) ==
    /\ Seen(id) => Age(id) >= Keep
    /\ n' = n + 1
    /\ at' = [at EXCEPT ![id] = n + 1]
    /\ last' = [id |-> id, handled |-> TRUE]

Skip(id) ==
    /\ Seen(id)
    /\ Age(id) < PruneAt
    /\ last' = [id |-> id, handled |-> FALSE]
    /\ UNCHANGED <<n, at>>

Forget == n' = 0 /\ at' = [id \in Ids |-> 0] /\ UNCHANGED last

PromiseNext == Forget \/ \E id \in Ids : Handle(id) \/ Skip(id)

PromiseSpec == PromiseInit /\ [][PromiseNext]_promiseVars
=============================================================================
