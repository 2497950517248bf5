------------------------------ MODULE GoProofs ------------------------------
(***************************************************************************)
(* Proofs about the Go client: Dedup, whose tracker is consistent for      *)
(* every set of read loops and keeps the promise of SPEC.md with a single  *)
(* one for every PruneAt and Keep, and GoWS, whose read loops the tracker  *)
(* serves, for any number of callers, reconnect loops and connections.     *)
(***************************************************************************)
EXTENDS GoWS, Dedup, FiniteSetTheorems, TLAPS

\* The model has a single read loop, as WSManager intends.
SingleReader == \A r, s \in Readers : r = s

-----------------------------------------------------------------------------
\* Appending an absent id to a duplicate-free list, then pruning it, yields a
\* duplicate-free list that is the tail of the grown list.
LEMMA PrunedIsTail ==
    ASSUME NEW s \in Seq(Ids)
    PROVE  /\ Pruned(s) \in Seq(Ids)
           /\ Len(Pruned(s)) = IF Len(s) > PruneAt THEN Keep ELSE Len(s)
           /\ \A i \in 1..Len(Pruned(s)) :
                 Pruned(s)[i] = s[Len(s) - Len(Pruned(s)) + i]
<1> USE DedupAssumption
<1>1. CASE Len(s) > PruneAt
  <2>1. Pruned(s) = SubSeq(s, Len(s) - Keep + 1, Len(s))
    BY <1>1 DEF Pruned
  <2>2. Len(s) \in Nat /\ Len(s) - Keep + 1 \in 1..Len(s)
    BY <1>1
  <2>3. \A i \in (Len(s) - Keep + 1)..Len(s) : s[i] \in Ids
    BY <2>2
  <2>4. SubSeq(s, Len(s) - Keep + 1, Len(s)) \in Seq(Ids)
    BY <2>2, <2>3
  <2>5. Len(SubSeq(s, Len(s) - Keep + 1, Len(s))) = Keep
    BY <2>2
  <2>6. \A i \in 1..Keep :
           SubSeq(s, Len(s) - Keep + 1, Len(s))[i] = s[Len(s) - Keep + i]
    BY <2>2
  <2>7. QED
    BY <1>1, <2>1, <2>4, <2>5, <2>6
<1>2. CASE ~(Len(s) > PruneAt)
  BY <1>2 DEF Pruned
<1>3. QED
  BY <1>1, <1>2

\* Every delivery appends the delivered id, unless it is listed already.
LEMMA AddEffect ==
    ASSUME TrackerTypes, TrackerConsistent, NEW id \in Ids, Add(id)
    PROVE  /\ ids' \in Seq(Ids)
           /\ index' \in SUBSET Ids
           /\ TrackerConsistent'
<1> USE DedupAssumption
<1>1. CASE Has(id)
  <2>1. ids' = ids /\ index' = index
    BY <1>1 DEF Add, tracker
  <2>2. TrackerConsistent'
    BY <2>1 DEF TrackerConsistent, Listed
  <2>3. QED
    BY <2>1, <2>2 DEF TrackerTypes
<1>2. CASE ~Has(id)
  <2> DEFINE g == Append(ids, id)
  <2>1. /\ g \in Seq(Ids)
        /\ Len(g) = Len(ids) + 1
        /\ g[Len(g)] = id
        /\ \A i \in 1..Len(ids) : g[i] = ids[i]
    BY DEF TrackerTypes
  <2>2. \A i, j \in 1..Len(g) : g[i] = g[j] => i = j
    BY <1>2, <2>1 DEF Has, TrackerConsistent, Listed, TrackerTypes
  <2>3. index \union {id} = {g[i] : i \in 1..Len(g)}
    BY <2>1 DEF TrackerConsistent, Listed, TrackerTypes
  <2>4. /\ ids' = Pruned(g)
        /\ index' = (index \union {id}) \
                        (IF Len(g) > PruneAt
                         THEN {g[i] : i \in 1..(Len(g) - Keep)}
                         ELSE {})
    BY <1>2 DEF Add
  <2> HIDE DEF g
  <2> DEFINE k == Len(Pruned(g))
  <2>5. /\ Pruned(g) \in Seq(Ids)
        /\ k = IF Len(g) > PruneAt THEN Keep ELSE Len(g)
        /\ \A i \in 1..k : Pruned(g)[i] = g[Len(g) - k + i]
    BY <2>1, PrunedIsTail
  <2>6. Len(g) \in Nat /\ k \in Nat /\ k <= Len(g) /\ k <= PruneAt
    BY <2>1, <2>5 DEF TrackerConsistent, TrackerTypes
  <2>7. index' = {g[i] : i \in (Len(g) - k + 1)..Len(g)}
    <3>1. CASE Len(g) > PruneAt
      <4>1. k = Keep
        BY <3>1, <2>5
      <4>2. index' = {g[i] : i \in 1..Len(g)} \ {g[i] : i \in 1..(Len(g) - k)}
        BY <3>1, <4>1, <2>3, <2>4
      <4>3. QED
        BY <4>2, <2>2, <2>6
    <3>2. CASE ~(Len(g) > PruneAt)
      <4>1. index' = {g[i] : i \in 1..Len(g)}
        BY <3>2, <2>3, <2>4
      <4>2. (Len(g) - k + 1)..Len(g) = 1..Len(g)
        BY <3>2, <2>5, <2>6
      <4>3. QED
        BY <4>1, <4>2
    <3>3. QED
      BY <3>1, <3>2
  <2>8. index' = Listed(ids')
    <3>1. \A x : x \in Listed(ids') => x \in index'
      <4>1. SUFFICES ASSUME NEW i \in 1..k
                     PROVE  Pruned(g)[i] \in index'
        BY <2>4 DEF Listed
      <4>2. Len(g) - k + i \in (Len(g) - k + 1)..Len(g)
        BY <2>6
      <4>3. QED
        BY <4>2, <2>5, <2>7
    <3>2. \A x : x \in index' => x \in Listed(ids')
      <4>1. SUFFICES ASSUME NEW j \in (Len(g) - k + 1)..Len(g)
                     PROVE  g[j] \in Listed(Pruned(g))
        BY <2>4, <2>7
      <4>2. j - (Len(g) - k) \in 1..k /\ Len(g) - k + (j - (Len(g) - k)) = j
        BY <2>6
      <4>3. QED
        BY <4>2, <2>5 DEF Listed
    <3>3. QED
      BY <3>1, <3>2
  <2>9. \A i, j \in 1..Len(ids') : ids'[i] = ids'[j] => i = j
    <3>1. SUFFICES ASSUME NEW i \in 1..k, NEW j \in 1..k,
                          Pruned(g)[i] = Pruned(g)[j]
                   PROVE  i = j
      BY <2>4
    <3>2. Len(g) - k + i \in 1..Len(g) /\ Len(g) - k + j \in 1..Len(g)
      BY <2>6
    <3>3. g[Len(g) - k + i] = g[Len(g) - k + j]
      BY <3>1, <2>5
    <3>4. QED
      BY <3>2, <3>3, <2>2, <2>6
  <2>10. index' \in SUBSET Ids
    BY <2>1, <2>6, <2>7
  <2>11. QED
    BY <2>4, <2>5, <2>6, <2>8, <2>9, <2>10 DEF TrackerConsistent
<1>3. QED
  BY <1>1, <1>2

\* The variables of the tracker and of the history keep their types, and the
\* list and the map of DedupTracker agree, whatever read loops there are.
THEOREM TrackerInvariant == TrackerSpec => [](TrackerTypes /\ TrackerConsistent)
<1> USE DedupAssumption
<1>1. TrackerInit => TrackerTypes /\ TrackerConsistent
  BY DEF TrackerInit, Promise!PromiseInit, TrackerTypes, TrackerConsistent, Listed
<1>2. TrackerTypes /\ TrackerConsistent /\ [TrackerNext]_trackerVars => (TrackerTypes /\ TrackerConsistent)'
  <2> SUFFICES ASSUME TrackerTypes, TrackerConsistent, [TrackerNext]_trackerVars
               PROVE  (TrackerTypes /\ TrackerConsistent)'
    OBVIOUS
  <2>1. CASE Reset
    BY <2>1 DEF Reset, Promise!Forget, TrackerTypes, TrackerConsistent, Listed
  <2>2. ASSUME NEW r \in Readers, Deliver(r)
        PROVE  (TrackerTypes /\ TrackerConsistent)'
    <3>1. pend[r] \in Ids /\ Add(pend[r])
      BY <2>2 DEF Deliver, TrackerTypes
    <3>2. ids' \in Seq(Ids) /\ index' \in SUBSET Ids /\ TrackerConsistent'
      BY <3>1, AddEffect
    <3>3. QED
      BY <2>2, <3>1, <3>2 DEF Deliver, TrackerTypes
  <2>3. ASSUME NEW r \in Readers, NEW id \in Ids, Check(r, id)
        PROVE  (TrackerTypes /\ TrackerConsistent)'
    <3>1. ids' = ids /\ index' = index /\ n' = n /\ at' = at
      BY <2>3 DEF Check
    <3>2. pend' \in [Readers -> Ids \union {NoId}]
      BY <2>3 DEF Check, TrackerTypes
    <3>3. last' \in [id : Ids \union {NoId}, handled : BOOLEAN]
      <4>1. CASE Has(id)
        <5>1. last' = [id |-> id, handled |-> FALSE]
          BY <2>3, <4>1 DEF Check
        <5>2. QED
          BY <5>1
      <4>2. CASE ~Has(id)
        BY <2>3, <4>2 DEF Check, TrackerTypes
      <4>3. QED
        BY <4>1, <4>2
    <3>4. QED
      BY <3>1, <3>2, <3>3 DEF TrackerTypes, TrackerConsistent, Listed
  <2>4. CASE UNCHANGED trackerVars
    BY <2>4 DEF trackerVars, TrackerTypes, TrackerConsistent, Listed
  <2>5. QED
    BY <2>1, <2>2, <2>3, <2>4 DEF TrackerNext
<1>3. QED
  BY <1>1, <1>2, PTL DEF TrackerSpec

-----------------------------------------------------------------------------
\* With one read loop the tracker is exactly the tail of the delivery history:
\* the last Min(Keep, n) deliveries, at least, are all listed, in order.
THEOREM HistoryInvariant == ASSUME SingleReader PROVE TrackerSpec => []TailOfHistory
<1> USE DedupAssumption
<1>1. TrackerInit => TailOfHistory
  BY DEF TrackerInit, Promise!PromiseInit, TailOfHistory
<1>2. TrackerTypes /\ TrackerConsistent /\ TailOfHistory /\ [TrackerNext]_trackerVars => TailOfHistory'
  <2> SUFFICES ASSUME TrackerTypes, TrackerConsistent, TailOfHistory, [TrackerNext]_trackerVars
               PROVE  TailOfHistory'
    OBVIOUS
  <2>1. CASE Reset
    BY <2>1, SingleReader
    DEF Reset, Promise!Forget, TailOfHistory, TrackerTypes
  <2>2. ASSUME NEW r \in Readers, Deliver(r)
        PROVE  TailOfHistory'
    <3> DEFINE id == pend[r]
               g  == Append(ids, id)
               k  == Len(Pruned(g))
    <3>1. id \in Ids /\ ~Has(id)
      BY <2>2 DEF Deliver, TrackerTypes, TailOfHistory, Has
    <3>2. /\ ids' = Pruned(g)
          /\ n' = n + 1
          /\ at' = [at EXCEPT ![id] = n + 1]
          /\ pend' = [pend EXCEPT ![r] = NoId]
      BY <2>2, <3>1 DEF Deliver, Add
    <3>3. /\ g \in Seq(Ids)
          /\ Len(g) = Len(ids) + 1
          /\ g[Len(g)] = id
          /\ \A i \in 1..Len(ids) : g[i] = ids[i]
      BY <3>1 DEF TrackerTypes
    <3>4. \A i \in 1..Len(g) : at'[g[i]] = n' - Len(g) + i
      <4>1. SUFFICES ASSUME NEW i \in 1..Len(g)
                     PROVE  at'[g[i]] = n' - Len(g) + i
        OBVIOUS
      <4>2. CASE i = Len(g)
        BY <4>2, <3>1, <3>2, <3>3 DEF TrackerTypes
      <4>3. CASE i \in 1..Len(ids)
        <5>1. g[i] = ids[i] /\ ids[i] \in Ids /\ ids[i] # id
          BY <4>3, <3>1, <3>3 DEF Has, TrackerConsistent, Listed, TrackerTypes
        <5>2. at'[ids[i]] = at[ids[i]]
          BY <5>1, <3>2 DEF TrackerTypes
        <5>3. at[ids[i]] = n - Len(ids) + i
          BY <4>3 DEF TailOfHistory
        <5>4. QED
          BY <5>1, <5>2, <5>3, <3>2, <3>3 DEF TrackerTypes
      <4>4. QED
        BY <4>2, <4>3, <3>3 DEF TrackerTypes
    <3> HIDE DEF g
    <3>5. /\ k = IF Len(g) > PruneAt THEN Keep ELSE Len(g)
          /\ \A i \in 1..k : Pruned(g)[i] = g[Len(g) - k + i]
      BY <3>3, PrunedIsTail
    <3>6. Len(g) \in Nat /\ k \in Nat /\ k <= Len(g)
      BY <3>3, <3>5 DEF TrackerTypes
    <3>7. \A i \in 1..Len(ids') : at'[ids'[i]] = n' - Len(ids') + i
      <4>1. SUFFICES ASSUME NEW i \in 1..k
                     PROVE  at'[Pruned(g)[i]] = n' - k + i
        BY <3>2
      <4>2. Len(g) - k + i \in 1..Len(g)
        BY <3>6
      <4>3. at'[g[Len(g) - k + i]] = n' - Len(g) + (Len(g) - k + i)
        BY <4>2, <3>4
      <4>4. Pruned(g)[i] = g[Len(g) - k + i]
        BY <3>5
      <4>5. n' \in Nat /\ i \in Nat
        BY <3>2, <3>6 DEF TrackerTypes
      <4>6. n' - Len(g) + (Len(g) - k + i) = n' - k + i
        BY <4>5, <3>6
      <4>7. QED
        BY <4>3, <4>4, <4>6
    <3>8. Len(ids') <= n' /\ \A x \in Ids : at'[x] <= n'
      BY <3>1, <3>2, <3>3, <3>6 DEF TailOfHistory, TrackerTypes
    <3>9. \A x \in Ids \ index' : at'[x] > 0 => n' - at'[x] >= Keep
      <4>1. SUFFICES ASSUME NEW x \in Ids \ index', at'[x] > 0
                     PROVE  n' - at'[x] >= Keep
        OBVIOUS
      <4>2. CASE x \in index \union {id}
        <5>1. Len(g) > PruneAt /\ x \in {g[i] : i \in 1..(Len(g) - Keep)}
          BY <2>2, <3>1, <4>2 DEF Deliver, Add, g
        <5>2. PICK i \in 1..(Len(g) - Keep) : x = g[i]
          BY <5>1
        <5>3. at'[x] = n' - Len(g) + i
          BY <5>2, <3>4, <3>6
        <5>4. QED
          BY <5>3, <3>2, <3>6 DEF TrackerTypes
      <4>3. CASE x \notin index \union {id}
        <5>1. at'[x] = at[x]
          BY <4>3, <3>2 DEF TrackerTypes
        <5>2. at[x] > 0 => n - at[x] >= Keep
          BY <4>3 DEF TailOfHistory
        <5>3. QED
          BY <4>1, <5>1, <5>2, <3>2 DEF TrackerTypes
      <4>4. QED
        BY <4>2, <4>3
    <3>10. \A s \in Readers : pend'[s] # NoId => pend'[s] \notin index'
      BY SingleReader, <3>2 DEF SingleReader, TrackerTypes
    <3>11. QED
      BY <3>7, <3>8, <3>9, <3>10 DEF TailOfHistory
  <2>3. ASSUME NEW r \in Readers, NEW id \in Ids, Check(r, id)
        PROVE  TailOfHistory'
    BY <2>3 DEF Check, Has, TailOfHistory, TrackerTypes
  <2>4. CASE UNCHANGED trackerVars
    BY <2>4 DEF trackerVars, TailOfHistory
  <2>5. QED
    BY <2>1, <2>2, <2>3, <2>4 DEF TrackerNext
<1>3. QED
  BY <1>1, <1>2, TrackerInvariant, PTL DEF TrackerSpec

\* With one read loop the handlers implement the promise of SPEC.md: no id
\* among the last Keep handled ones is handled again, and only an id handled
\* within the last PruneAt deliveries is dropped.
THEOREM ImplementsPromise == ASSUME SingleReader PROVE TrackerSpec => KeepsPromise
<1> USE DedupAssumption
<1>1. TrackerInit => Promise!PromiseInit
  BY DEF TrackerInit
<1>2. /\ TrackerTypes /\ TrackerConsistent /\ TailOfHistory
      /\ [TrackerNext]_trackerVars
      => [Promise!PromiseNext]_(Promise!promiseVars)
  <2> SUFFICES ASSUME TrackerTypes, TrackerConsistent, TailOfHistory, [TrackerNext]_trackerVars
               PROVE  [Promise!PromiseNext]_(Promise!promiseVars)
    OBVIOUS
  <2>1. CASE Reset
    BY <2>1 DEF Reset, Promise!PromiseNext
  <2>2. ASSUME NEW r \in Readers, Deliver(r)
        PROVE  Promise!PromiseNext
    <3>1. pend[r] \in Ids /\ pend[r] \notin index
      BY <2>2 DEF Deliver, TrackerTypes, TailOfHistory
    <3>2. Promise!Handle(pend[r])
      BY <2>2, <3>1
      DEF Deliver, TailOfHistory, Promise!Handle, Promise!Seen, Promise!Age
    <3>3. QED
      BY <3>1, <3>2 DEF Promise!PromiseNext
  <2>3. ASSUME NEW r \in Readers, NEW id \in Ids, Check(r, id)
        PROVE  [Promise!PromiseNext]_(Promise!promiseVars)
    <3>1. CASE Has(id)
      <4>1. PICK i \in 1..Len(ids) : id = ids[i]
        BY <3>1 DEF Has, TrackerConsistent, Listed
      <4>2. at[id] = n - Len(ids) + i /\ Len(ids) <= n /\ Len(ids) <= PruneAt
        BY <4>1 DEF TailOfHistory, TrackerConsistent
      <4>3. at[id] > 0 /\ n - at[id] < PruneAt
        BY <4>1, <4>2 DEF TrackerTypes
      <4>4. Promise!Skip(id)
        BY <2>3, <3>1, <4>3 DEF Check, Promise!Skip, Promise!Seen, Promise!Age
      <4>5. QED
        BY <4>4 DEF Promise!PromiseNext
    <3>2. CASE ~Has(id)
      BY <2>3, <3>2 DEF Check, Promise!promiseVars
    <3>3. QED
      BY <3>1, <3>2
  <2>4. CASE UNCHANGED trackerVars
    BY <2>4 DEF trackerVars, Promise!promiseVars
  <2>5. QED
    BY <2>1, <2>2, <2>3, <2>4 DEF TrackerNext
<1>3. QED
  BY <1>1, <1>2, TrackerInvariant, HistoryInvariant, PTL
  DEF TrackerSpec, KeepsPromise, Promise!PromiseSpec

-----------------------------------------------------------------------------
(***************************************************************************)
(* go/ws.go. A calm user has one goroutine that acts at a time, its        *)
(* channels are those of the one connection, and the one read loop is that *)
(* of this connection. What any user may rely on is less: a connection has *)
(* a ping loop unless somebody is about to start one or to close it.       *)
(***************************************************************************)
GoIn(pcs) == \E a \in Actors : actor[a].pc \in pcs

\* The fields agree: the channels and the read loop are those of the connection.
GoFields ==
    /\ conn # NoConn => chan = conn
    /\ connected => conn # NoConn /\ chan \notin stopped
    /\ connected => want /\ (GoIn({"greet"}) \/ Reading(chan))
    /\ \A c \in Conns : Live(c) => c = conn /\ (connected \/ GoIn({"stop", "await"}))

\* A read loop has the current channels and the doneCh it will close is open.
GoReaders ==
    /\ \A c \in Conns : Reading(c) => c = chan /\ chan \notin done
    /\ \A c \in Conns : reader[c].pc = "ready" =>
          connected /\ \A a \in Actors : actor[a] = Idle
    /\ \A c \in Conns : reader[c].pc = "reading" =>
          reader[c].ch = chan /\ (conn # NoConn => reader[c].on = conn)

\* Only one goroutine acts; who dials has no read loop beside it.
GoActors ==
    /\ \A a, b \in Actors : actor[a] # Idle /\ actor[b] # Idle => a = b
    /\ GoIn({"dial", "greet", "wait"}) => want /\ \A c \in Conns : ~Reading(c)
    /\ GoIn({"dial", "wait"}) => ~connected
    /\ \A a \in Actors : actor[a].pc = "greet" =>
          connected /\ actor[a].c = conn /\ chan \notin done
    /\ \A a \in Actors : actor[a].pc \in {"stop", "await"} =>
          /\ a \in Callers /\ ~connected
          /\ actor[a].c = conn /\ conn # NoConn
          /\ actor[a].pc = "stop" => chan \notin stopped

GoCalm == ~panicked /\ GoFields /\ GoReaders /\ GoActors

\* Of any user: the current stopCh is closed only on the way to the close frame.
GoPinged ==
    /\ conn # NoConn /\ chan \in stopped => GoIn({"await"})
    /\ connected /\ Live(conn) => IsPinged \/ GoIn({"greet", "stop", "await"})

\* What a call or a loop may be: at rest it is Idle, and who greets has a connection.
GoActor == [pc : {"idle", "dial", "greet", "wait", "stop", "await"},
            mode : {"none", "once", "retry", "loop"}, c : Chans, ch : Chans]
GoFit == {r \in GoActor : (r.pc = "idle" => r = Idle) /\ (r.pc = "greet" => r.c \in Conns)}

\* The types, a few variables at a time.
GoNetType == net \in [Conns -> {"free", "open", "closing", "lost", "closed"}]
GoConnType == conn \in Chans /\ chan \in Chans /\ connected \in BOOLEAN
GoFlagType == /\ panicked \in BOOLEAN /\ calm \in BOOLEAN /\ want \in BOOLEAN
              /\ server \in {"up", "down"}
GoDoneType == stopped \subseteq Chans /\ done \subseteq Chans
GoBackoffType == backoff \in InitialBackoff..MaxBackoff
GoActorType == actor \in [Actors -> GoFit]
GoReaderType == reader \in [Conns -> [pc : {"none", "ready", "reading"},
                                      on : Chans, ch : Chans]]
GoPingType == pings \subseteq [kind : Kinds, by : Conns, stop : Chans]
GoType == /\ GoNetType /\ GoConnType /\ GoFlagType /\ GoDoneType
          /\ GoBackoffType /\ GoActorType /\ GoReaderType /\ GoPingType

GoInv == /\ GoType
         /\ "json" \in Kinds => GoPinged
         /\ calm => GoCalm

-----------------------------------------------------------------------------
LEMMA GoTypeOK == GoType => TypeOK
<1> SUFFICES ASSUME GoType PROVE TypeOK
  OBVIOUS
<1>1. actor \in [Actors -> GoActor]
  BY DEF GoType, GoActorType, GoFit
<1>2. {conn, chan} \subseteq Chans /\ {connected, panicked, calm, want} \subseteq BOOLEAN
  BY DEF GoType, GoConnType, GoFlagType
<1>3. QED
  BY <1>1, <1>2 DEF GoType, TypeOK, GoNetType, GoFlagType, GoDoneType, GoBackoffType,
     GoActor, GoReaderType, GoPingType

\* The backoff stays within its bounds.
LEMMA GoBackoff ==
    /\ InitialBackoff \in InitialBackoff..MaxBackoff
    /\ \A b \in InitialBackoff..MaxBackoff :
          Capped(2 * b) \in InitialBackoff..MaxBackoff
BY GoAssumption DEF Capped

\* The forms that the steps give to a call or a loop.
LEMMA GoForms ==
    ASSUME NEW r \in GoFit, NEW x \in Chans
    PROVE  /\ Idle \in GoFit /\ Idle.pc = "idle"
           /\ [r EXCEPT !.pc = "wait", !.c = NoConn, !.ch = x] \in GoFit
           /\ [r EXCEPT !.pc = "wait", !.c = NoConn, !.ch = x].pc = "wait"
           /\ [pc |-> "wait", mode |-> "loop", c |-> NoConn, ch |-> x] \in GoFit
           /\ [Idle EXCEPT !.pc = "stop", !.c = x] \in GoFit
           /\ [Idle EXCEPT !.pc = "stop", !.c = x].pc = "stop"
           /\ [Idle EXCEPT !.pc = "stop", !.c = x].c = x
<1>1. Idle \in GoFit /\ Idle.pc = "idle"
  BY DEF GoFit, GoActor, Idle, Chans
<1>2. /\ [r EXCEPT !.pc = "wait", !.c = NoConn, !.ch = x] \in GoFit
      /\ [r EXCEPT !.pc = "wait", !.c = NoConn, !.ch = x].pc = "wait"
  BY DEF GoFit, GoActor, Chans
<1>3. [pc |-> "wait", mode |-> "loop", c |-> NoConn, ch |-> x] \in GoFit
  BY DEF GoFit, GoActor, Chans
<1>4. /\ [Idle EXCEPT !.pc = "stop", !.c = x] \in GoFit
      /\ [Idle EXCEPT !.pc = "stop", !.c = x].pc = "stop"
      /\ [Idle EXCEPT !.pc = "stop", !.c = x].c = x
  BY DEF GoFit, GoActor, Idle, Chans
<1>5. QED
  BY <1>1, <1>2, <1>3, <1>4

LEMMA GoDials ==
    ASSUME NEW m \in {"once", "retry"}
    PROVE  /\ [Idle EXCEPT !.pc = "dial", !.mode = m] \in GoFit
           /\ [Idle EXCEPT !.pc = "dial", !.mode = m].pc = "dial"
BY DEF GoFit, GoActor, Idle, Chans

\* Goroutine a goes on to one of pcs, and the others stay where they are.
GoMoves(a, pcs) ==
    /\ GoActorType'
    /\ actor'[a].pc \in pcs
    /\ \A b \in Actors \ {a} : actor'[b] = actor[b]

LEMMA GoMove ==
    ASSUME GoActorType, NEW a \in Actors, NEW r \in GoFit, actor' = [actor EXCEPT ![a] = r]
    PROVE  GoMoves(a, {r.pc}) /\ actor'[a] = r
BY DEF GoActorType, GoMoves

LEMMA GoFailed ==
    ASSUME GoActorType, GoConnType, GoBackoffType,
           NEW a \in Actors, Failed(a)
    PROVE  GoMoves(a, {"idle", "wait"}) /\ GoBackoffType'
<1>0. actor[a] \in GoFit /\ chan \in Chans
  BY DEF GoActorType, GoConnType
<1>1. CASE actor' = [actor EXCEPT ![a] = Idle] /\ UNCHANGED backoff
  <2>1. GoMoves(a, {Idle.pc}) /\ Idle.pc = "idle"
    BY <1>0, <1>1, GoForms, GoMove
  <2>2. QED
    BY <1>1, <2>1 DEF GoMoves, GoBackoffType
<1>2. CASE /\ backoff' = Capped(2 * backoff)
           /\ actor' = [actor EXCEPT ![a] = [actor[a] EXCEPT !.pc = "wait", !.c = NoConn,
                                                             !.ch = chan]]
  <2> DEFINE r == [actor[a] EXCEPT !.pc = "wait", !.c = NoConn, !.ch = chan]
  <2>1. r \in GoFit /\ r.pc = "wait"
    BY <1>0, GoForms
  <2>2. actor' = [actor EXCEPT ![a] = r]
    BY <1>2
  <2> HIDE DEF r
  <2>3. GoMoves(a, {r.pc})
    BY <2>1, <2>2, GoMove
  <2>4. GoBackoffType'
    BY <1>2, GoBackoff DEF GoBackoffType
  <2>5. QED
    BY <2>1, <2>3, <2>4 DEF GoMoves
<1>3. QED
  BY <1>1, <1>2 DEF Failed

\* Where each step takes its goroutine.
LEMMA GoCallMoves ==
    ASSUME GoActorType, NEW u \in Callers, NEW m \in {"once", "retry"}, Call(u, m)
    PROVE  GoMoves(u, {"dial"})
<1> DEFINE r == [Idle EXCEPT !.pc = "dial", !.mode = m]
<1>1. r \in GoFit /\ r.pc = "dial"
  BY GoDials
<1>2. u \in Actors /\ actor' = [actor EXCEPT ![u] = r]
  BY DEF Call, Actors
<1> HIDE DEF r
<1>3. GoMoves(u, {r.pc})
  BY <1>1, <1>2, GoMove
<1>4. QED
  BY <1>1, <1>3

LEMMA GoDialMoves ==
    ASSUME GoActorType, NEW a \in Actors, NEW c \in Conns,
           actor' = [actor EXCEPT ![a].pc = "greet", ![a].c = c]
    PROVE  GoMoves(a, {"greet"}) /\ actor'[a].c = c
<1>1. \A r \in GoFit : LET s == [[r EXCEPT !.pc = "greet"] EXCEPT !.c = c]
                       IN  s \in GoFit /\ s.pc = "greet" /\ s.c = c
  BY DEF GoFit, GoActor, Chans
<1>2. /\ actor'[a] = [[actor[a] EXCEPT !.pc = "greet"] EXCEPT !.c = c]
      /\ \A b \in Actors \ {a} : actor'[b] = actor[b]
      /\ actor' = [b \in Actors |-> actor'[b]]
  BY DEF GoActorType
<1>3. \A b \in Actors : actor[b] \in GoFit
  BY DEF GoActorType
<1>4. actor'[a] \in GoFit /\ actor'[a].pc = "greet" /\ actor'[a].c = c
  BY <1>1, <1>2, <1>3
<1>5. \A b \in Actors : actor'[b] \in GoFit
  BY <1>2, <1>3, <1>4
<1>6. GoActorType'
  BY <1>2, <1>5 DEF GoActorType
<1>7. QED
  BY <1>2, <1>4, <1>6 DEF GoMoves

LEMMA GoWakeMoves ==
    ASSUME GoActorType, NEW a \in Actors, Wake(a)
    PROVE  GoMoves(a, {"dial"})
<1>1. \A r \in GoFit : LET s == [[r EXCEPT !.pc = "dial"] EXCEPT !.ch = NoConn]
                       IN  s \in GoFit /\ s.pc = "dial"
  BY DEF GoFit, GoActor, Chans
<1>2. /\ actor'[a] = [[actor[a] EXCEPT !.pc = "dial"] EXCEPT !.ch = NoConn]
      /\ \A b \in Actors \ {a} : actor'[b] = actor[b]
      /\ actor' = [b \in Actors |-> actor'[b]]
  BY DEF GoActorType, Wake
<1>3. \A b \in Actors : actor[b] \in GoFit
  BY DEF GoActorType
<1>4. actor'[a] \in GoFit /\ actor'[a].pc = "dial"
  BY <1>1, <1>2, <1>3
<1>5. \A b \in Actors : actor'[b] \in GoFit
  BY <1>2, <1>3, <1>4
<1>6. GoActorType'
  BY <1>2, <1>5 DEF GoActorType
<1>7. QED
  BY <1>2, <1>4, <1>6 DEF GoMoves

LEMMA GoStopMoves ==
    ASSUME GoActorType, GoConnType, NEW u \in Callers, StopLoops(u)
    PROVE  GoMoves(u, {"await"}) /\ actor'[u].c = actor[u].c
<1>1. \A r \in GoFit : LET s == [[r EXCEPT !.pc = "await"] EXCEPT !.ch = chan]
                       IN  s \in GoFit /\ s.pc = "await" /\ s.c = r.c
  BY DEF GoFit, GoActor, GoConnType
<1>2. /\ u \in Actors
      /\ actor'[u] = [[actor[u] EXCEPT !.pc = "await"] EXCEPT !.ch = chan]
      /\ \A b \in Actors \ {u} : actor'[b] = actor[b]
      /\ actor' = [b \in Actors |-> actor'[b]]
  BY DEF GoActorType, StopLoops, Actors
<1>3. \A b \in Actors : actor[b] \in GoFit
  BY DEF GoActorType
<1>4. actor'[u] \in GoFit /\ actor'[u].pc = "await" /\ actor'[u].c = actor[u].c
  BY <1>1, <1>2, <1>3
<1>5. \A b \in Actors : actor'[b] \in GoFit
  BY <1>2, <1>3, <1>4
<1>6. GoActorType'
  BY <1>2, <1>5 DEF GoActorType
<1>7. QED
  BY <1>2, <1>4, <1>6 DEF GoMoves

\* Whoever is done is Idle.
LEMMA GoRests ==
    ASSUME GoActorType, NEW a \in Actors, actor' = [actor EXCEPT ![a] = Idle]
    PROVE  GoMoves(a, {"idle"})
<1>1. Idle \in GoFit /\ Idle.pc = "idle"
  BY DEF GoFit, GoActor, Idle, Chans
<1>2. QED
  BY <1>1, GoMove

LEMMA GoInitTypes ==
    ASSUME Init
    PROVE  GoType
<1>1. GoActorType
  <2>1. Idle \in GoFit
    BY DEF GoFit, GoActor, Idle, Chans
  <2>2. QED
    BY <2>1 DEF Init, GoActorType
<1>2. GoReaderType /\ GoNetType
  BY DEF Init, GoReaderType, GoNetType, NoReader, Chans
<1>3. GoConnType /\ GoDoneType /\ GoPingType
  BY DEF Init, GoConnType, GoDoneType, GoPingType, Chans
<1>4. GoFlagType
  BY GoAssumption DEF Init, GoFlagType
<1>5. GoBackoffType
  BY GoBackoff DEF Init, GoBackoffType
<1>6. QED
  BY <1>1, <1>2, <1>3, <1>4, <1>5 DEF GoType

\* The step of a reader that ends or goes on.
LEMMA GoReaderForms ==
    /\ NoReader \in [pc : {"none", "ready", "reading"}, on : Chans, ch : Chans]
    /\ [NoReader EXCEPT !.pc = "ready"]
          \in [pc : {"none", "ready", "reading"}, on : Chans, ch : Chans]
    /\ NoReader.pc = "none"
    /\ [NoReader EXCEPT !.pc = "ready"].pc = "ready"
BY DEF NoReader, Chans

LEMMA GoTypeStep ==
    ASSUME GoType, Next
    PROVE  GoType'
<1>0. /\ GoNetType /\ GoConnType /\ GoFlagType /\ GoDoneType
      /\ GoBackoffType /\ GoActorType /\ GoReaderType /\ GoPingType
  BY DEF GoType
<1> USE <1>0 DEF connVars, chanVars
<1>1. ASSUME NEW u \in Callers, NEW m \in {"once", "retry"}, Call(u, m) PROVE GoType'
  <2>1. GoActorType'
    BY <1>1, GoCallMoves DEF GoMoves
  <2>2. QED
    BY <1>1, <2>1 DEF Call, GoType, GoNetType, GoConnType, GoFlagType, GoDoneType,
       GoBackoffType, GoReaderType, GoPingType
<1>2. ASSUME NEW a \in Actors, Dial(a) PROVE GoType'
  <2>1. ASSUME NEW c \in Conns,
               /\ net' = [net EXCEPT ![c] = "open"]
               /\ conn' = c /\ connected' = TRUE /\ chan' = c
               /\ stopped' = stopped \ {c} /\ done' = done \ {c}
               /\ actor' = [actor EXCEPT ![a].pc = "greet", ![a].c = c],
               UNCHANGED backoff
        PROVE  GoType'
    <3>1. GoActorType'
      BY <2>1, GoDialMoves DEF GoMoves
    <3>2. GoNetType' /\ GoConnType' /\ GoDoneType' /\ GoBackoffType'
      BY <2>1 DEF GoNetType, GoConnType, GoDoneType, GoBackoffType, Chans
    <3>3. QED
      BY <1>2, <3>1, <3>2 DEF Dial, GoType, GoFlagType, GoReaderType, GoPingType
  <2>2. ASSUME Failed(a), UNCHANGED <<net, connVars, stopped, done>>
        PROVE  GoType'
    <3>1. GoActorType' /\ GoBackoffType'
      BY <2>2, GoFailed DEF GoMoves
    <3>2. QED
      BY <1>2, <2>2, <3>1 DEF Dial, GoType, GoNetType, GoConnType, GoFlagType,
         GoDoneType, GoReaderType, GoPingType
  <2>3. QED
    BY <1>2, <2>1, <2>2 DEF Dial
<1>3. ASSUME NEW a \in Actors, Greet(a) PROVE GoType'
  <2> DEFINE c == actor[a].c
  <2>0. c \in Conns
    BY <1>3 DEF Greet, GoActorType, GoFit
  <2>1. CASE /\ backoff' = InitialBackoff
             /\ reader' = [reader EXCEPT ![c] = [NoReader EXCEPT !.pc = "ready"]]
             /\ pings' = pings \union {[kind |-> k, by |-> c, stop |-> chan] : k \in Kinds}
             /\ actor' = [actor EXCEPT ![a] = Idle]
             /\ UNCHANGED <<net, conn, connected>>
    <3>1. GoActorType'
      BY <2>1, GoRests DEF GoMoves
    <3>2. GoReaderType'
      BY <2>1, GoReaderForms DEF GoReaderType
    <3> HIDE DEF c
    <3>3. GoPingType'
      BY <2>0, <2>1 DEF GoPingType, GoConnType
    <3>4. GoBackoffType'
      BY <2>1, GoBackoff DEF GoBackoffType
    <3>5. QED
      BY <1>3, <2>1, <3>1, <3>2, <3>3, <3>4 DEF Greet, GoType, GoNetType, GoConnType,
         GoFlagType, GoDoneType
  <2>2. CASE /\ conn' = NoConn /\ connected' = FALSE
             /\ net' = [net EXCEPT ![c] = "closed"]
             /\ Failed(a)
             /\ UNCHANGED <<reader, pings>>
    <3>1. GoActorType' /\ GoBackoffType'
      BY <2>2, GoFailed DEF GoMoves
    <3>2. GoNetType' /\ GoReaderType' /\ GoPingType'
      BY <2>2 DEF GoNetType, GoReaderType, GoPingType
    <3>3. GoConnType' /\ GoFlagType' /\ GoDoneType'
      BY <1>3, <2>2 DEF Greet, GoConnType, GoFlagType, GoDoneType, Chans
    <3>4. QED
      BY <3>1, <3>2, <3>3 DEF GoType
  <2>3. QED
    BY <1>3, <2>1, <2>2 DEF Greet
<1>4. ASSUME NEW a \in Actors, Wake(a) PROVE GoType'
  <2>1. GoActorType'
    BY <1>4, GoWakeMoves DEF GoMoves
  <2>2. QED
    BY <1>4, <2>1 DEF Wake, GoType, GoNetType, GoConnType, GoFlagType, GoDoneType,
       GoBackoffType, GoReaderType, GoPingType
<1>5. ASSUME NEW a \in Actors, Cancelled(a) PROVE GoType'
  <2>1. GoActorType'
    BY <1>5, GoRests DEF GoMoves, Cancelled
  <2>2. QED
    BY <1>5, <2>1 DEF Cancelled, GoType, GoNetType, GoConnType, GoFlagType, GoDoneType,
       GoBackoffType, GoReaderType, GoPingType
<1>6. ASSUME NEW u \in Callers, Disconnect(u) PROVE GoType'
  <2>1. GoActorType'
    <3>1. CASE actor' = actor
      BY <3>1 DEF GoActorType
    <3>2. CASE actor' = [actor EXCEPT ![u] = [Idle EXCEPT !.pc = "stop", !.c = conn]]
      <4>1. [Idle EXCEPT !.pc = "stop", !.c = conn] \in GoFit
        BY DEF GoFit, GoActor, Idle, Chans, GoConnType
      <4>2. u \in Actors
        BY DEF Actors
      <4>3. QED
        BY <3>2, <4>1, <4>2, GoMove DEF GoMoves
    <3>3. QED
      BY <1>6, <3>1, <3>2 DEF Disconnect
  <2>2. QED
    BY <1>6, <2>1 DEF Disconnect, GoType, GoNetType, GoConnType, GoFlagType, GoDoneType,
       GoBackoffType, GoReaderType, GoPingType
<1>7. ASSUME NEW u \in Callers, StopLoops(u) PROVE GoType'
  <2>1. GoActorType'
    BY <1>7, GoStopMoves DEF GoMoves
  <2>2. GoNetType' /\ GoDoneType' /\ GoFlagType'
    BY <1>7 DEF StopLoops, CloseStop, GoNetType, GoDoneType, GoFlagType, GoConnType
  <2>3. QED
    BY <1>7, <2>1, <2>2 DEF StopLoops, GoType, GoConnType, GoBackoffType, GoReaderType, GoPingType
<1>8. ASSUME NEW u \in Callers, Closed(u) PROVE GoType'
  <2>1. GoActorType'
    BY <1>8, GoRests DEF GoMoves, Closed, Actors
  <2>2. GoNetType' /\ GoConnType'
    BY <1>8 DEF Closed, GoNetType, GoConnType, Chans
  <2>3. QED
    BY <1>8, <2>1, <2>2 DEF Closed, GoType, GoFlagType, GoDoneType, GoBackoffType,
       GoReaderType, GoPingType
<1>9. ASSUME NEW c \in Conns, ReadStart(c) PROVE GoType'
  <2>1. GoReaderType'
    BY <1>9, GoReaderForms DEF ReadStart, GoReaderType, GoConnType
  <2>2. GoDoneType' /\ GoFlagType'
    BY <1>9 DEF ReadStart, CloseDone, GoDoneType, GoFlagType, GoConnType
  <2>3. QED
    BY <1>9, <2>1, <2>2 DEF ReadStart, GoType, GoNetType, GoConnType, GoBackoffType,
       GoActorType, GoPingType
<1>10. ASSUME NEW c \in Conns, ReadMessage(c) PROVE GoType'
  <2>1. GoReaderType'
    BY <1>10, GoReaderForms DEF ReadMessage, GoReaderType, GoConnType
  <2>0. reader[c].ch \in Chans
    BY DEF GoReaderType
  <2>2. GoDoneType' /\ GoFlagType'
    <3>1. CASE CloseDone(reader[c].ch)
      BY <1>10, <2>0, <3>1 DEF ReadMessage, CloseDone, GoDoneType, GoFlagType
    <3>2. CASE UNCHANGED <<done, panicked>>
      BY <1>10, <3>2 DEF ReadMessage, GoDoneType, GoFlagType
    <3>3. QED
      BY <1>10, <3>1, <3>2 DEF ReadMessage
  <2>3. QED
    BY <1>10, <2>1, <2>2 DEF ReadMessage, GoType, GoNetType, GoConnType, GoBackoffType,
       GoActorType, GoPingType
<1>11. ASSUME NEW c \in Conns, ReadError(c) PROVE GoType'
  <2>1. GoReaderType'
    BY <1>11, GoReaderForms DEF ReadError, GoReaderType
  <2>2. GoDoneType' /\ GoFlagType' /\ GoConnType'
    BY <1>11 DEF ReadError, CloseDone, GoDoneType, GoFlagType, GoReaderType, GoConnType
  <2>3. GoActorType'
    <3>1. CASE actor' = actor
      BY <3>1 DEF GoActorType
    <3>2. ASSUME NEW l \in Loops,
                 actor' = [actor EXCEPT ![l] = [pc |-> "wait", mode |-> "loop",
                                                c |-> NoConn, ch |-> chan]]
          PROVE  GoActorType'
      <4>1. [pc |-> "wait", mode |-> "loop", c |-> NoConn, ch |-> chan] \in GoFit
        BY DEF GoFit, GoActor, Chans, GoConnType
      <4>2. l \in Actors
        BY DEF Actors
      <4>3. QED
        BY <3>2, <4>1, <4>2, GoMove DEF GoMoves
    <3>3. QED
      BY <1>11, <3>1, <3>2 DEF ReadError
  <2>4. QED
    BY <1>11, <2>1, <2>2, <2>3 DEF ReadError, GoType, GoNetType, GoBackoffType, GoPingType
<1>12. ASSUME NEW p \in pings, Ping(p) PROVE GoType'
  <2>1. [p EXCEPT !.stop = chan] \in [kind : Kinds, by : Conns, stop : Chans]
    BY DEF GoPingType, GoConnType
  <2>2. GoPingType'
    BY <1>12, <2>1 DEF Ping, GoPingType
  <2>3. QED
    BY <1>12, <2>2 DEF Ping, GoType, GoNetType, GoConnType, GoFlagType, GoDoneType,
       GoBackoffType, GoActorType, GoReaderType
<1>13. ASSUME NEW c \in Conns, Drop(c) \/ PeerCloses(c) PROVE GoType'
  <2>1. GoNetType'
    BY <1>13 DEF Drop, PeerCloses, GoNetType
  <2>2. QED
    BY <1>13, <2>1 DEF Drop, PeerCloses, GoType, GoConnType, GoFlagType, GoDoneType,
       GoBackoffType, GoActorType, GoReaderType, GoPingType
<1>14. ASSUME ServerDown \/ ServerUp PROVE GoType'
  <2>1. GoNetType' /\ GoFlagType'
    BY <1>14 DEF ServerDown, ServerUp, GoNetType, GoFlagType
  <2>2. QED
    BY <1>14, <2>1 DEF ServerDown, ServerUp, GoType, GoConnType, GoDoneType,
       GoBackoffType, GoActorType, GoReaderType, GoPingType
<1>15. QED
  <2>1. ASSUME NEW u \in Callers, User(u) PROVE GoType'
    BY <1>1, <1>6, <2>1 DEF User, Connect, ConnectWithRetry
  <2>2. ASSUME NEW a \in Actors, ActorStep(a) PROVE GoType'
    BY <1>2, <1>3, <1>4, <1>5, <1>7, <1>8, <2>2 DEF ActorStep
  <2>3. ASSUME NEW c \in Conns, ReaderStep(c) PROVE GoType'
    BY <1>9, <1>10, <1>11, <2>3 DEF ReaderStep
  <2>4. QED
    BY <1>12, <1>13, <1>14, <2>1, <2>2, <2>3 DEF Next

\* A step that neither makes a connection nor ends one keeps the ping loops' promise.
LEMMA GoPingedKept ==
    ASSUME GoPinged, conn' = conn, chan' = chan, stopped' = stopped, pings' = pings,
           connected' => connected, Live(conn)' => Live(conn),
           GoIn({"await"}) => GoIn({"await"})',
           GoIn({"greet", "stop", "await"}) => GoIn({"greet", "stop", "await"})'
    PROVE  GoPinged'
BY DEF GoPinged, IsPinged

\* Who was on the way stays on the way, unless it is the one who moves.
LEMMA GoStays ==
    ASSUME NEW pcs, NEW a \in Actors, actor[a].pc \notin pcs, GoIn(pcs),
           \A b \in Actors \ {a} : actor'[b] = actor[b]
    PROVE  GoIn(pcs)'
BY DEF GoIn

LEMMA GoPingedStep ==
    ASSUME GoType, "json" \in Kinds, GoPinged, Next
    PROVE  GoPinged'
<1>0. GoNetType /\ GoConnType /\ GoActorType /\ GoPingType
  BY DEF GoType
<1> USE <1>0 DEF connVars, chanVars
<1>1. ASSUME NEW u \in Callers, NEW m \in {"once", "retry"}, Call(u, m) PROVE GoPinged'
  <2>1. u \in Actors /\ actor[u].pc = "idle"
    BY <1>1 DEF Call, Actors, Idle
  <2>2. \A b \in Actors \ {u} : actor'[b] = actor[b]
    BY <1>1, GoCallMoves DEF GoMoves
  <2>3. QED
    BY <1>1, <2>1, <2>2, GoStays, GoPingedKept DEF Call, Live
<1>2. ASSUME NEW a \in Actors, Dial(a) PROVE GoPinged'
  <2>1. ASSUME NEW c \in Conns,
               /\ net' = [net EXCEPT ![c] = "open"]
               /\ conn' = c /\ connected' = TRUE /\ chan' = c
               /\ stopped' = stopped \ {c} /\ done' = done \ {c}
               /\ actor' = [actor EXCEPT ![a].pc = "greet", ![a].c = c]
        PROVE  GoPinged'
    <3>1. actor'[a].pc = "greet"
      BY <2>1, GoDialMoves DEF GoMoves
    <3>2. GoIn({"greet", "stop", "await"})'
      BY <3>1 DEF GoIn
    <3>3. QED
      BY <2>1, <3>2 DEF GoPinged
  <2>2. ASSUME Failed(a), UNCHANGED <<net, connVars, stopped, done>>
        PROVE  GoPinged'
    <3>1. \A b \in Actors \ {a} : actor'[b] = actor[b]
      BY <2>2, GoFailed DEF GoMoves, GoType
    <3>2. QED
      BY <1>2, <2>2, <3>1, GoStays, GoPingedKept DEF Dial, Live
  <2>3. QED
    BY <1>2, <2>1, <2>2 DEF Dial
<1>3. ASSUME NEW a \in Actors, Greet(a) PROVE GoPinged'
  <2> DEFINE c == actor[a].c
  <2>1. CASE /\ pings' = pings \union {[kind |-> k, by |-> c, stop |-> chan] : k \in Kinds}
             /\ actor' = [actor EXCEPT ![a] = Idle]
             /\ UNCHANGED <<net, conn, connected>>
    <3>1. \A b \in Actors \ {a} : actor'[b] = actor[b]
      BY <2>1, GoRests DEF GoMoves
    <3>2. actor[a].pc = "greet"
      BY <1>3 DEF Greet
    <3>3. UNCHANGED <<chan, stopped, conn>>
      BY <1>3, <2>1 DEF Greet
    <3>4. GoIn({"await"}) => GoIn({"await"})'
      BY <3>1, <3>2, GoStays
    <3>5. CASE GoIn({"await"})
      BY <3>4, <3>5 DEF GoPinged, GoIn
    <3>6. CASE ~GoIn({"await"})
      <4>1. conn # NoConn => chan \notin stopped
        BY <3>6 DEF GoPinged
      <4>2. [kind |-> "json", by |-> c, stop |-> chan] \in pings'
        BY <2>1
      <4>3. conn # NoConn => IsPinged'
        BY <3>3, <4>1, <4>2 DEF IsPinged
      <4>4. QED
        BY <3>3, <4>1, <4>3 DEF GoPinged, Live
    <3>7. QED
      BY <3>5, <3>6
  <2>2. CASE conn' = NoConn /\ connected' = FALSE
    BY <2>2 DEF GoPinged
  <2>3. QED
    BY <1>3, <2>1, <2>2 DEF Greet
<1>4. ASSUME NEW a \in Actors, Wake(a) PROVE GoPinged'
  <2>1. \A b \in Actors \ {a} : actor'[b] = actor[b]
    BY <1>4, GoWakeMoves DEF GoMoves
  <2>2. QED
    BY <1>4, <2>1, GoStays, GoPingedKept DEF Wake, Live
<1>5. ASSUME NEW a \in Actors, Cancelled(a) PROVE GoPinged'
  <2>1. \A b \in Actors \ {a} : actor'[b] = actor[b]
    BY <1>5, GoRests DEF GoMoves, Cancelled
  <2>2. QED
    BY <1>5, <2>1, GoStays, GoPingedKept DEF Cancelled, Live
<1>6. ASSUME NEW u \in Callers, Disconnect(u) PROVE GoPinged'
  <2>1. u \in Actors /\ actor[u].pc = "idle"
    BY <1>6 DEF Disconnect, Actors, Idle
  <2>2. \A b \in Actors \ {u} : actor'[b] = actor[b]
    BY <1>6 DEF Disconnect, GoActorType
  <2>3. QED
    BY <1>6, <2>1, <2>2, GoStays, GoPingedKept DEF Disconnect, Live
<1>7. ASSUME NEW u \in Callers, StopLoops(u) PROVE GoPinged'
  <2>1. u \in Actors /\ actor'[u].pc = "await"
    BY <1>7, GoStopMoves DEF GoMoves, Actors
  <2>2. GoIn({"await"})' /\ GoIn({"greet", "stop", "await"})'
    BY <2>1 DEF GoIn
  <2>3. QED
    BY <2>2 DEF GoPinged
<1>8. ASSUME NEW u \in Callers, Closed(u) PROVE GoPinged'
  BY <1>8 DEF Closed, GoPinged, Live
<1>9. ASSUME NEW c \in Conns, ReadStart(c) \/ ReadMessage(c) PROVE GoPinged'
  BY <1>9, GoPingedKept DEF ReadStart, ReadMessage, GoIn, Live
<1>10. ASSUME NEW c \in Conns, ReadError(c) PROVE GoPinged'
  <2>1. UNCHANGED <<conn, chan, stopped, pings, net>> /\ ~connected'
    BY <1>10 DEF ReadError
  <2>2. GoIn({"await"}) => GoIn({"await"})'
    <3>1. CASE actor' = actor
      BY <3>1 DEF GoIn
    <3>2. ASSUME NEW l \in Loops, actor[l] = Idle,
                 actor' = [actor EXCEPT ![l] = [pc |-> "wait", mode |-> "loop",
                                                c |-> NoConn, ch |-> chan]]
          PROVE  GoIn({"await"}) => GoIn({"await"})'
      <4>1. l \in Actors /\ actor[l].pc = "idle"
        BY <3>2 DEF Actors, Idle
      <4>2. \A b \in Actors \ {l} : actor'[b] = actor[b]
        BY <3>2 DEF GoActorType
      <4>3. QED
        BY <4>1, <4>2, GoStays
    <3>3. QED
      BY <1>10, <3>1, <3>2 DEF ReadError
  <2>3. QED
    BY <2>1, <2>2 DEF GoPinged
<1>11. ASSUME NEW p \in pings, Ping(p) PROVE GoPinged'
  <2>1. UNCHANGED <<conn, chan, stopped, connected, net, actor>>
    BY <1>11 DEF Ping
  <2>2. conn # NoConn /\ chan \in stopped => GoIn({"await"})'
    BY <2>1 DEF GoPinged, GoIn
  <2>3. ASSUME connected, Live(conn), ~GoIn({"greet", "stop", "await"})
        PROVE  IsPinged'
    <3>1. PICK q \in pings : q.kind = "json" /\ q.stop \notin stopped
      BY <2>3 DEF GoPinged, IsPinged
    <3>2. chan \notin stopped
      BY <2>3 DEF GoPinged, GoIn, Live
    <3>3. CASE q \in pings'
      BY <2>1, <3>1, <3>3 DEF IsPinged
    <3>4. CASE q \notin pings'
      <4>1. q = p
        BY <1>11, <3>4 DEF Ping
      <4>2. ~(TickEnds(p) \/ p.stop \in stopped \/ ~Live(conn))
        BY <2>3, <3>1, <4>1 DEF TickEnds, Live
      <4> DEFINE next == [p EXCEPT !.stop = chan]
      <4>3. next \in pings'
        BY <1>11, <4>2 DEF Ping
      <4>4. next.kind = "json" /\ next.stop = chan
        BY <3>1, <4>1 DEF GoPingType
      <4> HIDE DEF next
      <4>5. QED
        BY <2>1, <3>2, <4>3, <4>4 DEF IsPinged
    <3>5. QED
      BY <3>3, <3>4
  <2>4. QED
    BY <2>1, <2>2, <2>3 DEF GoPinged, GoIn, Live
<1>12. ASSUME NEW c \in Conns, Drop(c) \/ PeerCloses(c) PROVE GoPinged'
  BY <1>12, GoPingedKept DEF Drop, PeerCloses, GoIn, Live, GoNetType, GoConnType, Chans
<1>13. ASSUME ServerDown PROVE GoPinged'
  BY <1>13, GoPingedKept DEF ServerDown, GoIn, Live, GoNetType, GoConnType, Chans
<1>14. ASSUME ServerUp PROVE GoPinged'
  BY <1>14, GoPingedKept DEF ServerUp, GoIn, Live
<1>15. QED
  <2>1. ASSUME NEW u \in Callers, User(u) PROVE GoPinged'
    BY <1>1, <1>6, <2>1 DEF User, Connect, ConnectWithRetry
  <2>2. ASSUME NEW a \in Actors, ActorStep(a) PROVE GoPinged'
    BY <1>2, <1>3, <1>4, <1>5, <1>7, <1>8, <2>2 DEF ActorStep
  <2>3. ASSUME NEW c \in Conns, ReaderStep(c) PROVE GoPinged'
    BY <1>9, <1>10, <2>3 DEF ReaderStep
  <2>4. QED
    BY <1>11, <1>12, <1>13, <1>14, <2>1, <2>2, <2>3 DEF Next

\* Steps of the network and of the ping loops: nothing becomes live by them.
LEMMA GoCalmKept ==
    ASSUME GoCalm,
           UNCHANGED <<conn, connected, chan, stopped, done, panicked, actor, reader, want>>,
           \A c \in Conns : Live(c)' => Live(c)
    PROVE  GoCalm'
<1>1. GoFields'
  BY DEF GoCalm, GoFields, GoIn, Reading
<1>2. GoReaders' /\ GoActors'
  BY DEF GoCalm, GoReaders, GoActors, GoIn, Reading
<1>3. QED
  BY <1>1, <1>2 DEF GoCalm

\* What a goroutine that acts knows: it acts alone.
LEMMA GoAlone ==
    ASSUME GoActorType, GoActors, NEW a \in Actors, actor[a].pc # "idle"
    PROVE  \A b \in Actors \ {a} : actor[b] = Idle
BY DEF GoActors, Idle

\* Whoever is at rest is Idle.
LEMMA GoAtRest ==
    ASSUME GoActorType, NEW a \in Actors, actor[a].pc = "idle"
    PROVE  actor[a] = Idle
BY DEF GoActorType, GoFit

\* After a step of a alone, the goroutines that act are a or none.
LEMMA GoThenIn ==
    ASSUME NEW a \in Actors, NEW pcs, NEW to, "idle" \notin to, GoMoves(a, pcs),
           \A b \in Actors \ {a} : actor[b] = Idle
    PROVE  /\ \A b \in Actors \ {a} : actor'[b] = Idle /\ actor'[b].pc = "idle"
           /\ GoIn(to)' <=> actor'[a].pc \in to
           /\ \A b, d \in Actors : actor'[b] # Idle /\ actor'[d] # Idle => b = d
<1>1. \A b \in Actors \ {a} : actor'[b] = Idle /\ actor'[b].pc = "idle"
  BY DEF GoMoves, Idle
<1>2. QED
  BY <1>1 DEF GoIn

\* Nobody acts beside a, who is in disconnect.
LEMMA GoStopping ==
    ASSUME NEW a \in Actors, GoMoves(a, {"stop"}) \/ GoMoves(a, {"await"}),
           \A b \in Actors \ {a} : actor[b] = Idle
    PROVE  /\ \A b \in Actors \ {a} : actor'[b].pc = "idle"
           /\ \A b, d \in Actors : actor'[b] # Idle /\ actor'[d] # Idle => b = d
           /\ GoIn({"stop", "await"})'
           /\ ~GoIn({"dial", "greet", "wait"})' /\ ~GoIn({"dial", "wait"})'
<1>1. actor'[a].pc \in {"stop", "await"}
  BY DEF GoMoves
<1>2. \A b \in Actors \ {a} : actor'[b] = Idle /\ actor'[b].pc = "idle"
  BY DEF GoMoves, Idle
<1>3. QED
  BY <1>1, <1>2 DEF GoIn

\* Nobody acts beside a, who dials, waits or is done; no connection is live, no read
\* loop runs and the user wants a connection.
LEMMA GoTrying ==
    ASSUME NEW a \in Actors, GoMoves(a, {"idle", "dial", "wait"}),
           \A b \in Actors \ {a} : actor[b] = Idle,
           conn' # NoConn => chan' = conn',
           ~connected', want', ~panicked',
           \A c \in Conns : ~Live(c)' /\ ~Reading(c)'
    PROVE  GoCalm'
<1>1. GoFields'
  BY DEF GoFields
<1>2. GoReaders'
  BY DEF GoReaders, Reading
<1>3. GoActors'
  <2>1. \A b \in Actors \ {a} : actor'[b].pc = "idle"
    BY DEF GoMoves, Idle
  <2>2. ~GoIn({"greet", "stop", "await"})'
    BY <2>1 DEF GoIn, GoMoves
  <2>3. \A b \in Actors : actor'[b].pc \notin {"greet", "stop", "await"}
    BY <2>2 DEF GoIn
  <2>4. \A b, d \in Actors : actor'[b] # Idle /\ actor'[d] # Idle => b = d
    BY DEF GoMoves
  <2>5. QED
    BY <2>3, <2>4 DEF GoActors
<1>4. QED
  BY <1>1, <1>2, <1>3 DEF GoCalm

LEMMA GoCalmStep ==
    ASSUME GoType, calm, GoCalm, Next
    PROVE  GoCalm'
<1>0. /\ GoNetType /\ GoConnType /\ GoActorType /\ GoReaderType
      /\ GoFields /\ GoReaders /\ GoActors /\ ~panicked
  BY DEF GoType, GoCalm
<1> USE <1>0 DEF connVars, chanVars
\* Everyone is at rest: then what is live is connected, and it is read.
<1>a. ASSUME Quiet, ~LoopAlive
      PROVE  /\ \A a \in Actors : actor[a] = Idle
             /\ \A pcs : "idle" \notin pcs => ~GoIn(pcs)
  <2>1. \A a \in Actors : actor[a] = Idle
    BY <1>a DEF Quiet, LoopAlive, Actors
  <2>2. QED
    BY <2>1 DEF GoIn, Idle
\* Who dials or waits has nothing live and no read loop beside it.
<1>b. ASSUME NEW a \in Actors, actor[a].pc \in {"dial", "wait"}
      PROVE  /\ ~connected /\ want
             /\ \A c \in Conns : ~Live(c) /\ ~Reading(c)
             /\ \A b \in Actors \ {a} : actor[b] = Idle
  <2>1. GoIn({"dial", "greet", "wait"}) /\ GoIn({"dial", "wait"})
    BY <1>b DEF GoIn
  <2>2. \A b \in Actors \ {a} : actor[b] = Idle
    BY <1>b, GoAlone
  <2>3. ~GoIn({"stop", "await"})
    BY <1>b, <2>2 DEF GoIn, Idle
  <2>4. QED
    BY <2>1, <2>2, <2>3 DEF GoActors, GoFields
<1>1. ASSUME NEW u \in Callers, NEW m \in {"once", "retry"}, Call(u, m) PROVE GoCalm'
  <2>1. /\ Quiet /\ ~LoopAlive /\ ~IsConnected
        /\ \A c \in Conns : ~Reading(c)
    BY <1>1 DEF Call, MayConnect
  <2>2. ~connected
    BY <2>1 DEF IsConnected, GoFields
  <2>3. \A c \in Conns : ~Live(c)
    BY <1>a, <2>1, <2>2 DEF GoFields
  <2>4. u \in Actors /\ GoMoves(u, {"dial"})
    BY <1>1, GoCallMoves DEF Actors
  <2>5. /\ UNCHANGED <<net, conn, connected, chan, reader, panicked>> /\ want'
    BY <1>1 DEF Call
  <2>6. \A c \in Conns : ~Live(c)' /\ ~Reading(c)'
    BY <2>1, <2>3, <2>5 DEF Live, Reading
  <2>7. QED
    BY <1>a, <2>1, <2>2, <2>4, <2>5, <2>6, GoTrying DEF GoMoves, GoFields
<1>2. ASSUME NEW a \in Actors, Dial(a) PROVE GoCalm'
  <2>0. /\ ~connected /\ want /\ want' = want
        /\ \A c \in Conns : ~Live(c) /\ ~Reading(c)
        /\ \A b \in Actors \ {a} : actor[b] = Idle
        /\ UNCHANGED <<reader, panicked>>
    BY <1>2, <1>b DEF Dial
  <2>1. ASSUME NEW c \in Conns,
               /\ net' = [net EXCEPT ![c] = "open"]
               /\ conn' = c /\ connected' = TRUE /\ chan' = c
               /\ stopped' = stopped \ {c} /\ done' = done \ {c}
               /\ actor' = [actor EXCEPT ![a].pc = "greet", ![a].c = c]
        PROVE  GoCalm'
    <3>1. GoMoves(a, {"greet"}) /\ actor'[a].c = c
      BY <2>1, GoDialMoves
    <3>2. /\ \A b \in Actors \ {a} : actor'[b] = Idle /\ actor'[b].pc = "idle"
          /\ GoIn({"greet"})' /\ ~GoIn({"dial", "wait"})' /\ actor'[a].pc = "greet"
          /\ \A b, d \in Actors : actor'[b] # Idle /\ actor'[d] # Idle => b = d
      BY <2>0, <3>1, GoThenIn DEF GoMoves
    <3>3. \A d \in Conns : ~Reading(d)' /\ (Live(d)' => d = c)
      BY <2>0, <2>1 DEF Reading, Live, GoNetType
    <3>4. GoFields'
      BY GoAssumption, <2>0, <2>1, <3>2, <3>3 DEF GoFields
    <3>5. GoReaders'
      BY <3>3 DEF GoReaders, Reading
    <3>6. GoActors'
      BY <2>0, <2>1, <3>1, <3>2, <3>3 DEF GoActors
    <3>7. QED
      BY <2>0, <3>4, <3>5, <3>6 DEF GoCalm
  <2>2. ASSUME Failed(a), UNCHANGED <<net, connVars, stopped, done>>
        PROVE  GoCalm'
    <3>1. GoMoves(a, {"idle", "wait"})
      BY <2>2, GoFailed DEF GoType
    <3>2. \A c \in Conns : ~Live(c)' /\ ~Reading(c)'
      BY <2>0, <2>2 DEF Live, Reading
    <3>3. QED
      BY <2>0, <2>2, <3>1, <3>2, GoTrying DEF GoMoves, GoFields
  <2>3. QED
    BY <1>2, <2>1, <2>2 DEF Dial
<1>3. ASSUME NEW a \in Actors, Greet(a) PROVE GoCalm'
  <2> DEFINE c == actor[a].c
  <2>0. /\ c = conn /\ chan = conn /\ conn # NoConn /\ chan \notin done /\ connected /\ want
        /\ \A d \in Conns : ~Reading(d)
        /\ \A b \in Actors \ {a} : actor[b] = Idle
        /\ c \in Conns
    <3>1. actor[a].pc = "greet"
      BY <1>3 DEF Greet
    <3>2. GoIn({"dial", "greet", "wait"})
      BY <3>1 DEF GoIn
    <3>3. \A b \in Actors \ {a} : actor[b] = Idle
      BY <3>1, GoAlone
    <3>4. c \in Conns
      BY <3>1 DEF GoActorType, GoFit
    <3>5. QED
      BY <3>1, <3>2, <3>3, <3>4 DEF GoActors, GoFields
  <2>1. UNCHANGED <<chan, stopped, done, panicked, want>>
    BY <1>3 DEF Greet
  <2>2. CASE /\ reader' = [reader EXCEPT ![c] = [NoReader EXCEPT !.pc = "ready"]]
             /\ actor' = [actor EXCEPT ![a] = Idle]
             /\ UNCHANGED <<net, conn, connected>>
    <3>1. \A b \in Actors : actor'[b] = Idle /\ actor'[b].pc = "idle"
      BY <2>0, <2>2 DEF GoActorType, Idle
    <3>2. \A pcs : "idle" \notin pcs => ~GoIn(pcs)'
      BY <3>1 DEF GoIn
    <3>3. reader'[c].pc = "ready" /\ \A d \in Conns \ {c} : reader'[d] = reader[d]
      BY <2>0, <2>2, GoReaderForms DEF GoReaderType
    <3> HIDE DEF c
    <3>4. \A d \in Conns : Reading(d)' => d = c
      BY <2>0, <3>3 DEF Reading
    <3>5. Reading(chan)'
      BY <2>0, <2>1, <3>3 DEF Reading
    <3>6. \A d \in Conns : Live(d)' => Live(d)
      BY <2>2 DEF Live
    <3>7. GoFields'
      BY <2>0, <2>1, <2>2, <3>5, <3>6 DEF GoFields
    <3>8. GoReaders'
      BY <2>0, <2>1, <2>2, <3>1, <3>3, <3>4 DEF GoReaders, Reading
    <3>9. GoActors'
      BY <3>1, <3>2 DEF GoActors
    <3>10. QED
      BY <2>1, <3>7, <3>8, <3>9 DEF GoCalm
  <2>3. CASE /\ ~Live(conn)
             /\ conn' = NoConn /\ connected' = FALSE
             /\ net' = [net EXCEPT ![c] = "closed"]
             /\ Failed(a)
             /\ UNCHANGED reader
    <3>1. GoMoves(a, {"idle", "wait"})
      BY <2>3, GoFailed DEF GoType
    <3>2. \A d \in Conns : ~Live(d)
      BY <2>3 DEF GoFields
    <3>3. \A d \in Conns : ~Live(d)' /\ ~Reading(d)'
      BY <2>0, <2>3, <3>2 DEF Live, Reading, GoNetType
    <3> HIDE DEF c
    <3>4. QED
      BY <2>0, <2>1, <2>3, <3>1, <3>3, GoTrying DEF GoMoves
  <2>4. QED
    BY <1>3, <2>2, <2>3 DEF Greet
<1>4. ASSUME NEW a \in Actors, Wake(a) PROVE GoCalm'
  <2>1. UNCHANGED <<net, conn, connected, chan, reader, panicked, want>>
        /\ actor[a].pc = "wait"
    BY <1>4 DEF Wake
  <2>2. \A c \in Conns : ~Live(c)' /\ ~Reading(c)'
    BY <1>b, <2>1 DEF Live, Reading
  <2>3. QED
    BY <1>4, <1>b, <2>1, <2>2, GoWakeMoves, GoTrying DEF GoMoves, GoFields
<1>5. ASSUME NEW a \in Actors, Cancelled(a) PROVE GoCalm'
  <2>1. UNCHANGED <<net, conn, connected, chan, reader, panicked, want>>
        /\ actor[a].pc = "wait" /\ actor' = [actor EXCEPT ![a] = Idle]
    BY <1>5 DEF Cancelled
  <2>2. \A c \in Conns : ~Live(c)' /\ ~Reading(c)'
    BY <1>b, <2>1 DEF Live, Reading
  <2>3. QED
    BY <1>b, <2>1, <2>2, GoRests, GoTrying DEF GoMoves, GoFields
<1>6. ASSUME NEW u \in Callers, Disconnect(u) PROVE GoCalm'
  <2>1. /\ Quiet /\ ~LoopAlive /\ connected /\ conn # NoConn
        /\ \A c \in Conns : reader[c].pc # "ready"
        /\ UNCHANGED <<net, conn, chan, stopped, done, panicked, reader>>
        /\ ~connected'
    BY <1>6 DEF Disconnect, MayDisconnect, IsConnected
  <2>2. \A a \in Actors : actor[a] = Idle
    BY <1>a, <2>1
  <2> DEFINE r == [Idle EXCEPT !.pc = "stop", !.c = conn]
  <2>3. u \in Actors /\ actor' = [actor EXCEPT ![u] = r]
    BY <1>6, <2>1 DEF Disconnect, Actors
  <2>4. r \in GoFit /\ r.pc = "stop" /\ r.c = conn
    BY GoForms DEF GoActorType, GoConnType, GoFit, GoActor, Idle, Chans
  <2> HIDE DEF r
  <2>5. GoMoves(u, {"stop"}) /\ actor'[u].c = conn
    BY <2>3, <2>4, GoMove
  <2>6. /\ \A b \in Actors \ {u} : actor'[b].pc = "idle"
        /\ \A b, d \in Actors : actor'[b] # Idle /\ actor'[d] # Idle => b = d
        /\ GoIn({"stop", "await"})' /\ ~GoIn({"dial", "greet", "wait"})' /\ ~GoIn({"dial", "wait"})'
    BY <2>2, <2>3, <2>5, GoStopping
  <2>7. GoFields'
    BY <2>1, <2>6 DEF GoFields, Live
  <2>8. GoReaders'
    BY <2>1 DEF GoReaders, Reading
  <2>9. chan \notin stopped
    BY <2>1 DEF GoFields
  <2>10. \A a \in Actors : actor'[a].pc \in {"stop", "await"} => a = u
    BY <2>6
  <2>11. \A a \in Actors : actor'[a].pc # "greet"
    BY <2>5, <2>6 DEF GoMoves
  <2>12. GoActors'
    BY <2>1, <2>5, <2>6, <2>9, <2>10, <2>11 DEF GoActors
  <2>13. QED
    BY <2>1, <2>7, <2>8, <2>12 DEF GoCalm
<1>7. ASSUME NEW u \in Callers, StopLoops(u) PROVE GoCalm'
  <2>1. /\ u \in Actors /\ actor[u].pc = "stop"
        /\ UNCHANGED <<conn, connected, chan, done, reader, want>>
        /\ CloseStop(chan)
        /\ net' = [net EXCEPT ![actor[u].c] = IF @ = "open" THEN "closing" ELSE @]
    BY <1>7 DEF StopLoops, Actors
  <2>2. ~connected /\ actor[u].c = conn /\ conn # NoConn /\ chan \notin stopped
    BY <2>1 DEF GoActors
  <2>3. ~panicked'
    BY <2>1, <2>2 DEF CloseStop
  <2>4. \A b \in Actors \ {u} : actor[b] = Idle
    BY <2>1, GoAlone
  <2>5. GoMoves(u, {"await"}) /\ actor'[u].c = conn
    BY <1>7, <2>2, GoStopMoves
  <2>6. /\ \A b \in Actors \ {u} : actor'[b].pc = "idle"
        /\ \A b, d \in Actors : actor'[b] # Idle /\ actor'[d] # Idle => b = d
        /\ GoIn({"stop", "await"})' /\ ~GoIn({"dial", "greet", "wait"})' /\ ~GoIn({"dial", "wait"})'
    BY <2>1, <2>4, <2>5, GoStopping
  <2>7. \A c \in Conns : Live(c)' => Live(c)
    BY <2>1 DEF Live, GoNetType
  <2>8. GoFields'
    BY <2>1, <2>2, <2>6, <2>7 DEF GoFields
  <2>9. GoReaders'
    BY <2>1, <2>2 DEF GoReaders, Reading
  <2>10. \A a \in Actors : actor'[a].pc \in {"stop", "await"} => a = u
    BY <2>6
  <2>11. \A a \in Actors : actor'[a].pc # "greet"
    BY <2>5, <2>6 DEF GoMoves
  <2>12. GoActors'
    BY <2>1, <2>2, <2>5, <2>6, <2>10, <2>11 DEF GoActors, GoMoves
  <2>13. QED
    BY <2>3, <2>8, <2>9, <2>12 DEF GoCalm
<1>8. ASSUME NEW u \in Callers, Closed(u) PROVE GoCalm'
  <2>1. /\ u \in Actors /\ actor[u].pc = "await"
        /\ UNCHANGED <<connected, chan, done, reader, want, stopped, panicked>>
        /\ conn' = NoConn
        /\ net' = [net EXCEPT ![actor[u].c] = "closed"]
        /\ actor' = [actor EXCEPT ![u] = Idle]
    BY <1>8 DEF Closed, Actors
  <2>2. ~connected /\ actor[u].c = conn
    BY <2>1 DEF GoActors
  <2>3. \A b \in Actors \ {u} : actor[b] = Idle
    BY <2>1, GoAlone
  <2>4. \A b \in Actors : actor'[b] = Idle /\ actor'[b].pc = "idle"
    BY <2>1, <2>3 DEF GoActorType, Idle
  <2>5. \A pcs : "idle" \notin pcs => ~GoIn(pcs)'
    BY <2>4 DEF GoIn
  <2>6. \A c \in Conns : ~Live(c)'
    BY <2>1, <2>2 DEF Live, GoNetType, GoFields
  <2>7. GoFields'
    BY <2>1, <2>2, <2>6 DEF GoFields
  <2>8. GoReaders'
    BY <2>1, <2>2 DEF GoReaders, Reading
  <2>9. GoActors'
    BY <2>4, <2>5 DEF GoActors
  <2>10. QED
    BY <2>1, <2>7, <2>8, <2>9 DEF GoCalm
<1>9. ASSUME NEW c \in Conns, ReadStart(c) PROVE GoCalm'
  <2>1. /\ reader[c].pc = "ready" /\ c = chan /\ chan \notin done /\ connected /\ conn # NoConn
        /\ \A a \in Actors : actor[a] = Idle
    BY <1>9 DEF ReadStart, GoReaders, Reading, GoFields
  <2>2. /\ UNCHANGED <<net, conn, connected, chan, stopped, done, panicked, actor, want>>
        /\ reader' = [reader EXCEPT ![c] = [pc |-> "reading", on |-> conn, ch |-> chan]]
    BY <1>9, <2>1 DEF ReadStart
  <2>3. /\ reader'[c].pc = "reading" /\ reader'[c].on = conn /\ reader'[c].ch = chan
        /\ \A d \in Conns \ {c} : reader'[d] = reader[d]
    BY <2>2 DEF GoReaderType
  <2>4. \A d \in Conns : Reading(d)' => d = c
    BY <2>1, <2>3 DEF GoReaders, Reading
  <2>5. GoFields'
    BY <2>1, <2>2, <2>3 DEF GoFields, Live, Reading, GoIn
  <2>6. GoReaders'
    BY <2>1, <2>2, <2>3, <2>4 DEF GoReaders, Reading
  <2>7. \A pcs : "idle" \notin pcs => ~GoIn(pcs)'
    BY <2>1, <2>2 DEF GoIn, Idle
  <2>8. \A a \in Actors : actor'[a].pc = "idle" /\ actor'[a] = Idle
    BY <2>1, <2>2 DEF Idle
  <2>9. GoActors'
    BY <2>7, <2>8 DEF GoActors
  <2>10. QED
    BY <2>2, <2>5, <2>6, <2>9 DEF GoCalm
<1>10. ASSUME NEW c \in Conns PROVE ~ReadMessage(c)
  <2>1. SUFFICES ASSUME ReadMessage(c) PROVE FALSE
    OBVIOUS
  <2>2. Live(reader[c].on) /\ reader[c].on # conn /\ reader[c].pc = "reading"
    BY <2>1 DEF ReadMessage
  <2>3. reader[c].on \in Conns
    BY <2>2 DEF Live, GoReaderType, Chans
  <2>4. QED
    BY <2>2, <2>3 DEF GoFields
<1>11. ASSUME NEW c \in Conns, ReadError(c) PROVE GoCalm'
  <2>1. /\ reader[c].pc = "reading" /\ ~Live(reader[c].on)
        /\ ~connected'
        /\ reader' = [reader EXCEPT ![c] = NoReader]
        /\ CloseDone(reader[c].ch)
        /\ UNCHANGED <<net, conn, chan, stopped, want>>
    BY <1>11 DEF ReadError
  <2>2. /\ c = chan /\ chan \notin done /\ reader[c].ch = chan
        /\ conn # NoConn => reader[c].on = conn
    BY <2>1 DEF GoReaders, Reading
  <2>3. ~panicked'
    BY <2>1, <2>2 DEF CloseDone
  <2>4. \A d \in Conns : ~Reading(d)'
    BY <2>1, <2>2, GoReaderForms DEF GoReaders, Reading, GoReaderType
  <2>5. \A d \in Conns : ~Live(d)
    BY <2>1, <2>2 DEF GoFields, Live
  <2>6. \A d \in Conns : ~Live(d)'
    BY <2>1, <2>5 DEF Live
  <2>7. ~GoIn({"dial", "greet", "wait"})
    BY <2>1 DEF GoActors, Reading
  <2>8. CASE connected
    <3>1. chan \notin stopped /\ want
      BY <2>8 DEF GoFields
    <3>2. \A a \in Actors : actor[a] = Idle
      <4>1. \A a \in Actors : actor[a].pc \notin {"stop", "await"}
        BY <2>8 DEF GoActors
      <4>2. \A a \in Actors : actor[a].pc = "idle"
        BY <2>7, <4>1 DEF GoIn, GoActorType, GoFit, GoActor
      <4>3. QED
        BY <4>2, GoAtRest
    <3>3. PICK l \in Loops : actor' = [actor EXCEPT ![l] = [pc |-> "wait", mode |-> "loop",
                                                          c |-> NoConn, ch |-> chan]]
      BY <1>11, <2>8, <3>1 DEF ReadError
    <3>4. l \in Actors /\ GoMoves(l, {"wait"})
      <4> DEFINE r == [pc |-> "wait", mode |-> "loop", c |-> NoConn, ch |-> chan]
      <4>1. r \in GoFit /\ r.pc = "wait"
        BY DEF GoFit, GoActor, Chans, GoConnType
      <4>2. l \in Actors /\ actor' = [actor EXCEPT ![l] = r]
        BY <3>3 DEF Actors
      <4> HIDE DEF r
      <4>3. QED
        BY <4>1, <4>2, GoMove
    <3>5. QED
      BY <2>1, <2>3, <2>4, <2>6, <3>1, <3>2, <3>4, GoTrying DEF GoMoves, GoFields
  <2>9. CASE ~connected
    <3>1. actor' = actor
      BY <1>11, <2>9 DEF ReadError
    <3>2. GoFields'
      BY <2>1, <2>6 DEF GoFields
    <3>3. GoReaders'
      BY <2>4 DEF GoReaders, Reading
    <3>4. \A a \in Actors : actor[a].pc # "greet"
      BY <2>7 DEF GoIn
    <3>6. GoActors'
      BY <2>1, <2>7, <2>9, <3>1, <3>4 DEF GoActors, GoIn
    <3>7. QED
      BY <2>3, <3>2, <3>3, <3>6 DEF GoCalm
  <2>10. QED
    BY <2>8, <2>9 DEF GoConnType
<1>12. ASSUME NEW p \in pings, Ping(p) PROVE GoCalm'
  BY <1>12, GoCalmKept DEF Ping, Live
<1>13. ASSUME NEW c \in Conns, Drop(c) \/ PeerCloses(c) PROVE GoCalm'
  BY <1>13, GoCalmKept DEF Drop, PeerCloses, Live, GoNetType
<1>14. ASSUME ServerDown PROVE GoCalm'
  BY <1>14, GoCalmKept DEF ServerDown, Live, GoNetType
<1>15. ASSUME ServerUp PROVE GoCalm'
  BY <1>15, GoCalmKept DEF ServerUp, Live
<1>16. QED
  <2>1. ASSUME NEW u \in Callers, User(u) PROVE GoCalm'
    BY <1>1, <1>6, <2>1 DEF User, Connect, ConnectWithRetry
  <2>2. ASSUME NEW a \in Actors, ActorStep(a) PROVE GoCalm'
    BY <1>2, <1>3, <1>4, <1>5, <1>7, <1>8, <2>2 DEF ActorStep
  <2>3. ASSUME NEW c \in Conns, ReaderStep(c) PROVE GoCalm'
    BY <1>9, <1>10, <1>11, <2>3 DEF ReaderStep
  <2>4. QED
    BY <1>12, <1>13, <1>14, <1>15, <2>1, <2>2, <2>3 DEF Next

\* A set of which every member is one and the same has at most one.
LEMMA AtMostOne ==
    ASSUME NEW S, NEW x, \A y \in S : y = x
    PROVE  Cardinality(S) <= 1
<1>1. CASE S = {}
  BY <1>1, FS_EmptySet
<1>2. CASE S # {}
  <2>1. S = {x}
    BY <1>2
  <2>2. Cardinality(S) = 1
    BY <2>1, FS_Singleton
  <2>3. QED
    BY <2>2
<1>3. QED
  BY <1>1, <1>2

LEMMA GoInitHolds ==
    ASSUME Init
    PROVE  GoInv
<1>1. GoType
  BY GoInitTypes
<1>2. \A a \in Actors : actor[a] = Idle /\ actor[a].pc = "idle"
  BY DEF Init, Idle
<1>3. \A c \in Conns : reader[c].pc = "none" /\ ~Reading(c) /\ ~Live(c)
  BY DEF Init, NoReader, Reading, Live
<1>4. conn = NoConn /\ connected = FALSE /\ panicked = FALSE
  BY DEF Init
<1>5. \A pcs : "idle" \notin pcs => ~GoIn(pcs)
  BY <1>2 DEF GoIn
<1>6. GoPinged
  BY <1>4 DEF GoPinged
<1>7. GoFields /\ GoReaders
  BY <1>3, <1>4 DEF GoFields, GoReaders
<1>8. GoActors
  BY <1>2, <1>5 DEF GoActors
<1>9. QED
  BY <1>1, <1>4, <1>6, <1>7, <1>8 DEF GoInv, GoCalm

\* The discipline is fixed.
LEMMA GoCalmFixed ==
    ASSUME Next
    PROVE  calm' = calm
<1>1. ASSUME NEW u \in Callers, User(u) PROVE calm' = calm
  BY <1>1 DEF User, Connect, ConnectWithRetry, Call, Disconnect
<1>2. ASSUME NEW a \in Actors, ActorStep(a) PROVE calm' = calm
  BY <1>2 DEF ActorStep, Dial, Greet, Wake, Cancelled, StopLoops, Closed
<1>3. ASSUME NEW c \in Conns, ReaderStep(c) \/ Drop(c) \/ PeerCloses(c)
      PROVE  calm' = calm
  BY <1>3 DEF ReaderStep, ReadStart, ReadMessage, ReadError, Drop, PeerCloses
<1>4. ASSUME NEW p \in pings, Ping(p) PROVE calm' = calm
  BY <1>4 DEF Ping
<1>5. CASE ServerDown \/ ServerUp
  BY <1>5 DEF ServerDown, ServerUp
<1>6. QED
  BY <1>1, <1>2, <1>3, <1>4, <1>5 DEF Next

LEMMA GoInvKept ==
    ASSUME GoInv, [Next]_vars
    PROVE  GoInv'
<1>1. CASE Next
  BY <1>1, GoTypeStep, GoPingedStep, GoCalmStep, GoCalmFixed DEF GoInv
<1>2. CASE UNCHANGED vars
  <2>1. /\ UNCHANGED <<net, conn, connected, chan, stopped, done, backoff, actor, reader>>
        /\ UNCHANGED <<pings, panicked, calm, server, want>>
    BY <1>2 DEF vars, connVars, chanVars
  <2>2. GoType'
    BY <2>1 DEF GoInv, GoType, GoNetType, GoConnType, GoFlagType, GoDoneType, GoBackoffType,
       GoActorType, GoReaderType, GoPingType
  <2>3. \A c : Live(c)' <=> Live(c)
    BY <2>1 DEF Live
  <2>4. GoPinged => GoPinged'
    BY <2>1, <2>3, GoPingedKept DEF GoIn
  <2>5. GoCalm => GoCalm'
    BY <2>1, <2>3, GoCalmKept
  <2>6. QED
    BY <2>1, <2>2, <2>4, <2>5 DEF GoInv
<1>3. QED
  BY <1>1, <1>2

\* What holds in every reachable state, whatever the constants.
LEMMA GoInvAlways ==
    Spec => []GoInv
<1>1. Init => GoInv
  BY GoInitHolds
<1>2. GoInv /\ [Next]_vars => GoInv'
  BY GoInvKept
<1>3. QED
  BY <1>1, <1>2, PTL DEF Spec

\* The types of the Go manager's state.
THEOREM GoTypesHold ==
    Spec => []TypeOK
<1>1. GoInv => TypeOK
  BY GoTypeOK DEF GoInv
<1>2. QED
  BY <1>1, GoInvAlways, PTL

\* A calm user's process never panics: no stopCh and no doneCh is closed twice,
\* whatever the network does and in whatever order the goroutines run.
THEOREM GoNeverPanics ==
    Spec => []NoPanic
<1>1. GoInv => NoPanic
  BY DEF GoInv, GoCalm, NoPanic
<1>2. QED
  BY <1>1, GoInvAlways, PTL

\* Once a calm user's Disconnect has returned no connection is live and no
\* ReconnectLoop is left.
THEOREM GoDisconnectIsFinal ==
    Spec => []DisconnectIsFinal
<1>1. GoInv => DisconnectIsFinal
  <2> SUFFICES ASSUME GoInv, calm, Quiet, ~want
               PROVE  ~LoopAlive /\ \A c \in Conns : ~Live(c)
    BY DEF DisconnectIsFinal
  <2>0. GoFields /\ GoActors /\ GoActorType
    BY DEF GoInv, GoCalm, GoType
  <2>1. \A a \in Actors : actor[a].pc \notin {"stop", "await"}
    BY <2>0 DEF GoActors, Quiet, Idle
  <2>2. \A a \in Actors : actor[a].pc \notin {"dial", "greet", "wait"}
    BY <2>0 DEF GoActors, GoIn
  <2>3. \A a \in Actors : actor[a].pc = "idle"
    BY <2>0, <2>1, <2>2 DEF GoActorType, GoFit, GoActor
  <2>4. \A a \in Actors : actor[a] = Idle
    BY <2>0, <2>3, GoAtRest
  <2>5. ~LoopAlive
    BY <2>4 DEF LoopAlive, Actors
  <2>6. ~GoIn({"stop", "await"})
    BY <2>1 DEF GoIn
  <2>7. QED
    BY <2>0, <2>5, <2>6 DEF GoFields
<1>2. QED
  BY <1>1, GoInvAlways, PTL

\* To a calm user the server sees at most one live connection and at most one read
\* loop runs; the connection that IsConnected speaks of is read, with the doneCh that
\* Listen waits on, and, where JSON pings run, it is pinged, whatever the user does.
THEOREM GoServesOneConn ==
    ASSUME "json" \in Kinds
    PROVE  Spec => []OneServedConn
<1>1. GoInv => OneServedConn
  <2> SUFFICES ASSUME GoInv PROVE OneServedConn
    OBVIOUS
  <2>1. calm => OneConn
    <3> SUFFICES ASSUME calm PROVE OneConn
      OBVIOUS
    <3>1. \A c \in {d \in Conns : Live(d)} : c = conn
      BY DEF GoInv, GoCalm, GoFields
    <3>2. \A c \in {d \in Conns : Reading(d)} : c = chan
      BY DEF GoInv, GoCalm, GoReaders
    <3>3. Cardinality({c \in Conns : Live(c)}) <= 1
      BY <3>1, AtMostOne
    <3>4. Cardinality({c \in Conns : Reading(c)}) <= 1
      BY <3>2, AtMostOne
    <3>5. QED
      BY <3>3, <3>4 DEF OneConn
  <2>2. ASSUME IsConnected, Quiet, ~LoopAlive
        PROVE  (Live(conn) => IsPinged) /\ (calm => IsRead)
    <3>1. \A a \in Actors : actor[a].pc = "idle"
      BY <2>2 DEF Quiet, LoopAlive, Actors, Idle
    <3>2. ~GoIn({"greet", "stop", "await"}) /\ ~GoIn({"greet"})
      BY <3>1 DEF GoIn
    <3>3. Live(conn) => IsPinged
      BY <2>2, <3>2 DEF GoInv, GoPinged, IsConnected
    <3>4. ASSUME calm PROVE IsRead
      <4>1. conn \in Conns /\ chan = conn
        BY <2>2, <3>4 DEF IsConnected, GoInv, GoType, GoConnType, Chans, GoCalm, GoFields
      <4>2. Reading(conn)
        BY <2>2, <3>2, <3>4, <4>1 DEF IsConnected, GoInv, GoCalm, GoFields
      <4>3. QED
        BY <2>2, <3>4, <4>1, <4>2 DEF IsConnected, IsRead, GoInv, GoCalm, GoReaders
    <3>5. QED
      BY <3>3, <3>4
  <2>3. QED
    BY <2>1, <2>2 DEF OneServedConn
<1>2. QED
  BY <1>1, GoInvAlways, PTL

=============================================================================
