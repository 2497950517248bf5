------------------------------- MODULE Dedup --------------------------------
(***************************************************************************)
(* go/db.go DedupTracker, and how the read loops of go/ws.go use it: a     *)
(* handler asks Has, and in a second, separately locked call says Add, and *)
(* only then runs the user's callback.  The set of read loops is a         *)
(* parameter: WSManager means to run one, but nothing in Connect prevents  *)
(* a second (module GoWS).                                                 *)
(***************************************************************************)
EXTENDS Naturals, Sequences

CONSTANTS Ids, NoId,
          Readers,           \* readLoop goroutines
          PruneAt,           \* dedupPruneAt, 1000 in the code
          Keep,              \* dedupKeepAfter, 500 in the code
          MaxDeliveries      \* model bound on deliveries between Resets

ASSUME DedupAssumption ==
    /\ PruneAt \in Nat /\ Keep \in Nat /\ Keep > 0 /\ Keep <= PruneAt
    /\ MaxDeliveries \in Nat
    /\ NoId \notin Ids

VARIABLES ids,      \* DedupTracker.ids
          index,    \* DedupTracker.index
          pend,     \* pend[r]: id that r found absent and has not added yet
          n, at, last   \* history: see DedupPromise

tracker == <<ids, index>>
trackerVars == <<ids, index, pend, n, at, last>>

Promise == INSTANCE DedupPromise

Has(id) == id \in index

\* The slice kept when the list outgrows PruneAt: ids[len(ids)-dedupKeepAfter:].
Pruned(s) == IF Len(s) > PruneAt
             THEN SubSeq(s, Len(s) - Keep + 1, Len(s))
             ELSE s

Listed(s) == {s[i] : i \in 1..Len(s)}

\* Mutation of Add: the pruned ids stay in the map.
AddKeepsIndex(id) ==
    IF Has(id)
    THEN UNCHANGED tracker
    ELSE /\ ids' = Pruned(Append(ids, id))
         /\ index' = index \union {id}

\* Mutation of Add: reaching PruneAt drops the whole list.
AddClears(id) ==
    IF Has(id)
    THEN UNCHANGED tracker
    ELSE /\ ids' = IF Len(ids) = PruneAt THEN <<id>> ELSE Append(ids, id)
         /\ index' = Listed(ids')

Add(id) ==
    IF Has(id)
    THEN UNCHANGED tracker
    ELSE LET grown == Append(ids, id)
         IN /\ ids' = Pruned(grown)
            /\ index' = (index \union {id}) \
                        (IF Len(grown) > PruneAt
                         THEN {grown[i] : i \in 1..(Len(grown) - Keep)}
                         ELSE {})

TrackerInit ==
    /\ ids = <<>>
    /\ index = {}
    /\ pend = [r \in Readers |-> NoId]
    /\ Promise!PromiseInit

\* handleMessage / handleGroupMessage up to the unlock of Has.
Check(r, id) ==
    /\ pend[r] = NoId
    /\ IF Has(id)
       THEN last' = [id |-> id, handled |-> FALSE] /\ UNCHANGED pend
       ELSE pend' = [pend EXCEPT ![r] = id] /\ UNCHANGED last
    /\ UNCHANGED <<ids, index, n, at>>

\* The rest of the handler: Add, then the callback.
Deliver(r) ==
    /\ pend[r] # NoId
    /\ n < MaxDeliveries
    /\ Add(pend[r])
    /\ pend' = [pend EXCEPT ![r] = NoId]
    /\ n' = n + 1
    /\ at' = [at EXCEPT ![pend[r]] = n + 1]
    /\ last' = [id |-> pend[r], handled |-> TRUE]

Reset ==
    /\ ids' = <<>>
    /\ index' = {}
    /\ Promise!Forget
    /\ UNCHANGED pend

TrackerNext == Reset \/ \E r \in Readers : Deliver(r) \/ \E id \in Ids : Check(r, id)

TrackerSpec == TrackerInit /\ [][TrackerNext]_trackerVars

-----------------------------------------------------------------------------
TrackerTypes ==
    /\ ids \in Seq(Ids)
    /\ index \in SUBSET Ids
    /\ pend \in [Readers -> Ids \union {NoId}]
    /\ n \in Nat
    /\ at \in [Ids -> Nat]
    /\ last \in [id : Ids \union {NoId}, handled : BOOLEAN]

\* The list and the map of DedupTracker never disagree, the list has no id
\* twice and stays within PruneAt, whatever the read loops interleave.
TrackerConsistent ==
    /\ index = Listed(ids)
    /\ \A i, j \in 1..Len(ids) : ids[i] = ids[j] => i = j
    /\ Len(ids) <= PruneAt

\* With one read loop the tracker is exactly the tail of the delivery history.
TailOfHistory ==
    /\ \A i \in 1..Len(ids) : at[ids[i]] = n - Len(ids) + i
    /\ Len(ids) <= n
    /\ \A id \in Ids : at[id] <= n
    /\ \A id \in Ids \ index : at[id] > 0 => n - at[id] >= Keep
    /\ \A r \in Readers : pend[r] # NoId => pend[r] \notin index

\* A message whose id is among the last Keep handled ones is never handled
\* again, and one that is dropped was handled recently: the reader's handlers
\* implement the promise of SPEC.md.
KeepsPromise == Promise!PromiseSpec
=============================================================================
