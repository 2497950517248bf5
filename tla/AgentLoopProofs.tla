-------------------------- MODULE AgentLoopProofs --------------------------
(***************************************************************************)
(* Proofs about startLoop of aicq/loop.py.  AgentLoop: the dedup set keeps *)
(* the promise of SPEC.md on every connection, for every size of the set,  *)
(* and the delay before a reconnect stays within its bounds and is reset   *)
(* by every connection.  LoopIdentity: the tasks of a process keep their   *)
(* keys, and speak as who they are, for any number of tasks and keys.      *)
(***************************************************************************)
EXTENDS AgentLoop, LoopIdentity, FiniteSetTheorems, TLAPS

\* message_ids_seen is the tail of the history since the connection was made,
\* and what it has forgotten is MaxSize deliveries old.
Window ==
    /\ Len(seen) <= n - start
    /\ \A i \in 1..Len(seen) : at[seen[i]] = n - Len(seen) + i
    /\ \A id \in Ids \ Listed(seen) : at[id] > start => n - at[id] >= MaxSize

\* The delay is that of a fresh start as long as there is a socket, and only
\* then is a frame awaited or handled.
Reset ==
    /\ sock # "none" => delay = BaseDelay
    /\ pc \in {"recv", "callback"} <=> sock # "none"

IInv == TypeOK /\ Window /\ Reset

\* The steps that leave the dedup set and the history alone.
Elsewhere ==
    \/ Login \/ Wake \/ Unlisted \/ OtherFrame \/ CallbackDone \/ ConnectionEnds
    \/ Cancel \/ PingInterval \/ Drop \/ ServerDown \/ ServerUp
    \/ Dial /\ server = "down"

LEMMA ElsewhereUnchanged ==
    ASSUME Elsewhere
    PROVE  UNCHANGED <<seen, n, at, last, start>>
BY DEF Elsewhere, Login, Wake, Unlisted, OtherFrame, CallbackDone, ConnectionEnds,
       Cancel, PingInterval, Drop, ServerDown, ServerUp, Dial, history

\* Every step is one of these, a message with an id, or a new connection.
LEMMA StepKinds ==
    ASSUME TypeOK, [Next]_vars
    PROVE  \/ Elsewhere \/ UNCHANGED vars
           \/ Dial /\ server = "up"
           \/ \E id \in Ids : Message(id)
BY DEF Next, Elsewhere, TypeOK

-----------------------------------------------------------------------------
\* _LRUSet.add of an absent id: it is appended, and of a full set the oldest
\* goes.
LEMMA AddedIsTail ==
    ASSUME TypeOK, NEW id \in Ids
    PROVE  /\ Added(id) \in Seq(Ids)
           /\ Len(Added(id)) \in 1..MaxSize
           /\ Len(Added(id)) = IF Len(seen) = MaxSize THEN MaxSize ELSE Len(seen) + 1
           /\ Added(id)[Len(Added(id))] = id
           /\ \A i \in 1..(Len(Added(id)) - 1) :
                 Added(id)[i] = seen[Len(seen) - Len(Added(id)) + 1 + i]
<1> USE LoopAssumption
<1>1. CASE Len(seen) = MaxSize
  <2>1. seen # <<>> /\ seen \in Seq(Ids)
    BY <1>1 DEF TypeOK
  <2>2. /\ Tail(seen) \in Seq(Ids) /\ Len(Tail(seen)) = MaxSize - 1
        /\ \A i \in 1..(MaxSize - 1) : Tail(seen)[i] = seen[i + 1]
    BY <1>1, <2>1
  <2>3. Added(id) = Append(Tail(seen), id)
    BY <1>1 DEF Added
  <2>4. QED
    BY <1>1, <2>2, <2>3
<1>2. CASE Len(seen) # MaxSize
  <2>1. seen \in Seq(Ids) /\ Len(seen) \in Nat /\ Len(seen) < MaxSize
    BY <1>2 DEF TypeOK
  <2>2. Added(id) = Append(seen, id)
    BY <1>2 DEF Added
  <2>3. /\ Append(seen, id) \in Seq(Ids) /\ Len(Append(seen, id)) = Len(seen) + 1
        /\ Append(seen, id)[Len(seen) + 1] = id
        /\ \A i \in 1..Len(seen) : Append(seen, id)[i] = seen[i]
    BY <2>1
  <2>4. QED
    BY <1>2, <2>1, <2>2, <2>3
<1>3. QED
  BY <1>1, <1>2

\* What a message that is not a duplicate does to set and history.
LEMMA HandledKeepsWindow ==
    ASSUME TypeOK, Window, NEW id \in Ids, id \notin Listed(seen),
           seen' = Added(id), n' = n + 1, at' = [at EXCEPT ![id] = n + 1],
           start' = start
    PROVE  Window'
<1> USE LoopAssumption
<1> DEFINE s == Added(id)
           k == Len(s)
<1>1. /\ s \in Seq(Ids) /\ k \in 1..MaxSize
      /\ k = IF Len(seen) = MaxSize THEN MaxSize ELSE Len(seen) + 1
      /\ s[k] = id
      /\ \A i \in 1..(k - 1) : s[i] = seen[Len(seen) - k + 1 + i]
  BY AddedIsTail
<1> HIDE DEF s
<1>2. n \in Nat /\ start \in Nat /\ Len(seen) \in Nat /\ k \in Nat /\ Len(seen) <= n - start
      /\ MaxSize \in Nat /\ Len(seen) <= MaxSize
  BY <1>1 DEF TypeOK, Window
<1>a. k \in 1..MaxSize /\ k = IF Len(seen) = MaxSize THEN MaxSize ELSE Len(seen) + 1
  BY <1>1
<1>b. s[k] = id /\ \A i \in 1..(k - 1) : s[i] = seen[Len(seen) - k + 1 + i]
  BY <1>1
<1> HIDE DEF k
<1>3. k <= n' - start'
  BY <1>a, <1>2
<1>4. \A i \in 1..k : at'[s[i]] = n' - k + i
  <2>1. SUFFICES ASSUME NEW i \in 1..k PROVE at'[s[i]] = n' - k + i
    OBVIOUS
  <2>2. CASE i = k
    BY <2>2, <1>b, <1>2 DEF TypeOK
  <2>3. CASE i # k
    <3> DEFINE j == Len(seen) - k + 1 + i
    <3>0. i \in 1..(k - 1)
      BY <2>3, <1>2
    <3>1. j \in 1..Len(seen)
      BY <3>0, <1>a, <1>2
    <3>1a. s[i] = seen[j]
      BY <3>0, <1>b
    <3>2. at[seen[j]] = n - Len(seen) + j
      BY <3>1 DEF Window
    <3>3. seen[j] \in Ids /\ seen[j] # id
      BY <3>1 DEF TypeOK, Listed
    <3>4. at'[seen[j]] = at[seen[j]]
      BY <3>3 DEF TypeOK
    <3>5. QED
      BY <3>1, <3>1a, <3>2, <3>4, <1>2
  <2>4. QED
    BY <2>2, <2>3
<1>5. ASSUME NEW x \in Ids \ Listed(s), at'[x] > start'
      PROVE  n' - at'[x] >= MaxSize
  <2>1. x # id
    BY <1>a, <1>b, <1>2 DEF Listed, k
  <2>2. at'[x] = at[x] /\ at[x] \in Nat
    BY <2>1 DEF TypeOK
  <2>3. CASE x \in Listed(seen)
    <3>1. PICK j \in 1..Len(seen) : x = seen[j]
      BY <2>3 DEF Listed
    <3>2. at[x] = n - Len(seen) + j
      BY <3>1 DEF Window
    <3>3. ASSUME NEW i \in 1..(k - 1), Len(seen) - k + 1 + i = j PROVE FALSE
      <4>1. s[i] = seen[j]
        BY <3>3, <1>b
      <4>2. i \in 1..Len(s)
        BY <3>3, <1>2 DEF k
      <4>3. QED
        BY <3>1, <4>1, <4>2 DEF Listed
    <3>4. Len(seen) = MaxSize
      <4>1. SUFFICES ASSUME Len(seen) # MaxSize PROVE FALSE
        OBVIOUS
      <4>2. k = Len(seen) + 1
        BY <4>1, <1>a
      <4>3. j \in 1..(k - 1) /\ Len(seen) - k + 1 + j = j
        BY <4>2, <1>2
      <4>4. QED
        BY <4>3, <3>3
    <3>5. j = 1
      <4>1. SUFFICES ASSUME j # 1 PROVE FALSE
        OBVIOUS
      <4>2. k = Len(seen)
        BY <3>4, <1>a
      <4>3. j - 1 \in 1..(k - 1) /\ Len(seen) - k + 1 + (j - 1) = j
        BY <4>1, <4>2, <1>2
      <4>4. QED
        BY <4>3, <3>3
    <3>6. QED
      BY <2>2, <3>2, <3>4, <3>5, <1>2
  <2>4. CASE x \notin Listed(seen)
    <3>1. n - at[x] >= MaxSize
      BY <1>5, <2>2, <2>4 DEF Window
    <3>2. QED
      BY <2>2, <3>1, <1>2
  <2>5. QED
    BY <2>3, <2>4
<1>6. QED
  BY <1>3, <1>4, <1>5 DEF Window, s, k

-----------------------------------------------------------------------------
\* Types, the window, and the reset of the delay, together inductive.
THEOREM LoopInvariant == Spec => []IInv
<1> USE LoopAssumption
<1>1. Init => IInv
  <2> SUFFICES ASSUME Init PROVE IInv
    OBVIOUS
  <2>1. TypeOK
    <3>1. seen \in Seq(Ids) /\ Len(seen) <= MaxSize
      BY DEF Init
    <3>2. delay \in BaseDelay..MaxDelay
      BY DEF Init
    <3>3. n \in Nat /\ start \in 0..n /\ at \in [Ids -> 0..n]
      BY DEF Init
    <3>4. last \in [id : Ids \union {NoId}, handled : BOOLEAN]
      BY DEF Init
    <3>5. {auto, cancelled} \subseteq BOOLEAN
      BY DEF Init
    <3>6. QED
      BY <3>1, <3>2, <3>3, <3>4, <3>5 DEF Init, TypeOK
  <2>2. Window
    BY DEF Init, Window, Listed
  <2>3. QED
    BY <2>1, <2>2 DEF IInv, Init, Reset
<1>2. IInv /\ [Next]_vars => IInv'
  <2> SUFFICES ASSUME TypeOK, Window, Reset, [Next]_vars PROVE IInv'
    BY DEF IInv
  <2>1. CASE Elsewhere
    <3>1. UNCHANGED <<seen, n, at, last, start>>
      BY <2>1, ElsewhereUnchanged
    <3>2. Window'
      BY <3>1 DEF Window, Listed
    <3>3. /\ pc' \in {"login", "dial", "recv", "callback", "sleep", "ended"}
          /\ sock' \in {"none", "open", "lost"} /\ server' \in {"up", "down"}
          /\ auto' \in BOOLEAN /\ cancelled' \in BOOLEAN
      BY <2>1
      DEF TypeOK, Elsewhere, Login, Wake, Unlisted, OtherFrame, CallbackDone, ConnectionEnds,
          Cancel, PingInterval, Drop, ServerDown, ServerUp, Dial, Retry, RoundEnds
    <3>4. age' \in 0..2
      BY <2>1
      DEF TypeOK, Elsewhere, Login, Wake, Unlisted, OtherFrame, CallbackDone, ConnectionEnds,
          Cancel, PingInterval, Drop, ServerDown, ServerUp, Dial, RoundEnds
    <3>5. delay' \in BaseDelay..MaxDelay
      <4>1. CASE Wake
        BY <4>1 DEF Wake, TypeOK
      <4>2. CASE ~Wake
        BY <2>1, <4>2
        DEF TypeOK, Elsewhere, Login, Unlisted, OtherFrame, CallbackDone, ConnectionEnds,
            Cancel, PingInterval, Drop, ServerDown, ServerUp, Dial
      <4>3. QED
        BY <4>1, <4>2
    <3>6. TypeOK'
      BY <3>1, <3>3, <3>4, <3>5 DEF TypeOK
    <3>7. Reset'
      BY <2>1
      DEF TypeOK, Reset, Elsewhere, Login, Wake, Unlisted, OtherFrame, CallbackDone,
          ConnectionEnds, Cancel, PingInterval, Drop, ServerDown, ServerUp, Dial, Retry, RoundEnds
    <3>8. QED
      BY <3>2, <3>6, <3>7 DEF IInv
  <2>2. CASE UNCHANGED vars
    BY <2>2 DEF vars, history, IInv, TypeOK, Window, Reset, Listed
  <2>3. CASE Dial /\ server = "up"
    <3>1. /\ pc' = "recv" /\ sock' = "open" /\ delay' = BaseDelay
          /\ seen' = <<>> /\ age' = 0 /\ start' = n
          /\ UNCHANGED <<auto, server, cancelled, n, at, last>>
      BY <2>3 DEF Dial
    <3>2. QED
      BY <3>1 DEF IInv, TypeOK, Window, Reset, Listed
  <2>4. ASSUME NEW id \in Ids, Message(id) PROVE IInv'
    <3>1. CASE id \in Listed(seen)
      <4>1. /\ last' = [id |-> id, handled |-> FALSE]
            /\ UNCHANGED <<pc, sock, delay, seen, age, auto, server, cancelled, n, at, start>>
        BY <2>4, <3>1 DEF Message
      <4>2. TypeOK'
        BY <4>1 DEF TypeOK
      <4>3. QED
        BY <4>1, <4>2 DEF IInv, Window, Reset, Listed
    <3>2. CASE id \notin Listed(seen)
      <4>1. /\ seen' = Added(id) /\ pc' = "callback" /\ n' = n + 1
            /\ at' = [at EXCEPT ![id] = n + 1]
            /\ last' = [id |-> id, handled |-> TRUE]
            /\ pc = "recv"
            /\ UNCHANGED <<sock, delay, age, auto, server, cancelled, start>>
        BY <2>4, <3>2 DEF Message
      <4>2. Window'
        BY <3>2, <4>1, HandledKeepsWindow
      <4>3. Added(id) \in Seq(Ids) /\ Len(Added(id)) <= MaxSize
        BY AddedIsTail
      <4>4. TypeOK'
        BY <4>1, <4>3 DEF TypeOK
      <4>5. QED
        BY <4>1, <4>2, <4>4 DEF IInv, Reset
    <3>3. QED
      BY <3>1, <3>2
  <2>5. QED
    BY <2>1, <2>2, <2>3, <2>4, StepKinds
<1>3. QED
  BY <1>1, <1>2, PTL DEF Spec

\* The types: the set of seen ids never outgrows its size, nor the delay its bound.
THEOREM Types == Spec => []TypeOK
BY LoopInvariant, PTL DEF IInv

\* message_ids_seen implements the promise of SPEC.md on every connection, for
\* every maxsize: a handled id is not handled again within maxsize deliveries,
\* and only such an id is dropped.
THEOREM ImplementsPromise == Spec => KeepsPromise
<1> USE LoopAssumption
<1> DEFINE since == [id \in Ids |-> IF at[id] > start THEN at[id] - start ELSE 0]
<1>1. Init => PerConnection!PromiseInit
  BY DEF Init, PerConnection!PromiseInit
<1>2. IInv /\ [Next]_vars => [PerConnection!PromiseNext]_(PerConnection!promiseVars)
  <2> SUFFICES ASSUME TypeOK, Window, [Next]_vars
               PROVE  [PerConnection!PromiseNext]_(PerConnection!promiseVars)
    BY DEF IInv
  <2>1. CASE Elsewhere \/ UNCHANGED vars
    <3>1. UNCHANGED <<n, at, last, start>>
      BY <2>1, ElsewhereUnchanged DEF vars, history
    <3>2. QED
      BY <3>1 DEF PerConnection!promiseVars
  <2>2. CASE Dial /\ server = "up"
    <3>1. start' = n /\ UNCHANGED <<n, at, last>>
      BY <2>2 DEF Dial
    <3>2. n' - start' = 0 /\ \A id \in Ids : ~(at'[id] > start')
      BY <3>1 DEF TypeOK
    <3>3. PerConnection!Forget
      BY <3>1, <3>2 DEF PerConnection!Forget
    <3>4. QED
      BY <3>3 DEF PerConnection!PromiseNext
  <2>3. ASSUME NEW id \in Ids, Message(id)
        PROVE  [PerConnection!PromiseNext]_(PerConnection!promiseVars)
    <3>1. n \in Nat /\ start \in Nat /\ start <= n /\ at \in [Ids -> 0..n]
      BY DEF TypeOK
    <3>2. CASE id \in Listed(seen)
      <4>1. PICK i \in 1..Len(seen) : id = seen[i]
        BY <3>2 DEF Listed
      <4>2. at[id] = n - Len(seen) + i /\ Len(seen) <= n - start /\ Len(seen) <= MaxSize
        BY <4>1 DEF Window, TypeOK
      <4>3. at[id] > start /\ n - at[id] < MaxSize
        BY <3>1, <4>1, <4>2 DEF TypeOK
      <4>4. last' = [id |-> id, handled |-> FALSE] /\ UNCHANGED <<n, at, start>>
        BY <2>3, <3>2 DEF Message
      <4>5. PerConnection!Skip(id)
        BY <3>1, <4>3, <4>4 DEF PerConnection!Skip, PerConnection!Seen, PerConnection!Age
      <4>6. QED
        BY <4>5 DEF PerConnection!PromiseNext
    <3>3. CASE id \notin Listed(seen)
      <4>1. /\ n' = n + 1 /\ at' = [at EXCEPT ![id] = n + 1] /\ start' = start
            /\ last' = [id |-> id, handled |-> TRUE]
        BY <2>3, <3>3 DEF Message
      <4>2. at[id] > start => n - at[id] >= MaxSize
        BY <3>3 DEF Window
      <4>3. PerConnection!Seen(id) => PerConnection!Age(id) >= MaxSize
        BY <3>1, <4>2 DEF PerConnection!Seen, PerConnection!Age
      <4>4. n' - start' = n - start + 1
        BY <3>1, <4>1
      <4>5. since' = [since EXCEPT ![id] = n - start + 1]
        <5>1. at'[id] = n + 1 /\ n + 1 > start /\ n + 1 - start = n - start + 1
          BY <3>1, <4>1
        <5>2. \A x \in Ids : x # id => at'[x] = at[x]
          BY <3>1, <4>1
        <5>3. \A x \in Ids :
                 since'[x] = IF x = id THEN n - start + 1 ELSE since[x]
          <6>1. since'[id] = n - start + 1
            <7>1. at'[id] > start' /\ at'[id] - start' = n - start + 1
              <8>1. at'[id] = n + 1 /\ start' = start
                BY <5>1, <4>1
              <8>2. QED
                BY <3>1, <8>1
            <7>2. QED
              BY <7>1
          <6>2. ASSUME NEW x \in Ids, x # id PROVE since'[x] = since[x]
            <7>1. at'[x] = at[x] /\ start' = start
              BY <5>2, <6>2, <4>1
            <7>2. QED
              BY <7>1
          <6>3. QED
            BY <6>1, <6>2
        <5>4. QED
          BY <5>3
      <4>6. PerConnection!Handle(id)
        BY <4>1, <4>3, <4>4, <4>5 DEF PerConnection!Handle
      <4>7. QED
        BY <4>6 DEF PerConnection!PromiseNext
    <3>4. QED
      BY <3>2, <3>3
  <2>4. QED
    BY <2>1, <2>2, <2>3, StepKinds
<1>3. QED
  BY <1>1, <1>2, LoopInvariant, PTL DEF Spec, KeepsPromise, PerConnection!PromiseSpec

\* The exponential backoff of startLoop never goes back without a connection,
\* and a lost connection is tried again after the shortest delay.
THEOREM DelaysBackOff == Spec => BacksOff
<1> USE LoopAssumption
<1>1. IInv /\ [Next]_vars
      => [/\ delay' < delay => sock' = "open"
          /\ sock # "none" /\ pc' = "sleep" => delay' = BaseDelay]_vars
  <2> SUFFICES ASSUME TypeOK, Reset, [Next]_vars
               PROVE  \/ /\ delay' < delay => sock' = "open"
                         /\ sock # "none" /\ pc' = "sleep" => delay' = BaseDelay
                      \/ UNCHANGED vars
    BY DEF IInv
  <2>1. CASE Wake
    BY <2>1 DEF Wake, TypeOK
  <2>2. CASE Dial
    BY <2>2 DEF Dial, TypeOK, Reset
  <2>3. CASE Elsewhere /\ ~Wake /\ ~Dial
    <3>1. delay' = delay
      BY <2>3 DEF Elsewhere, Login, Unlisted, OtherFrame, CallbackDone, ConnectionEnds,
                  Cancel, PingInterval, Drop, ServerDown, ServerUp
    <3>2. QED
      BY <3>1 DEF TypeOK, Reset
  <2>4. ASSUME NEW id \in Ids, Message(id) PROVE delay' = delay
    BY <2>4 DEF Message
  <2>5. QED
    BY <2>1, <2>2, <2>3, <2>4, StepKinds DEF TypeOK, Reset
<1>2. QED
  BY <1>1, LoopInvariant, PTL DEF Spec, BacksOff

-----------------------------------------------------------------------------
(***************************************************************************)
(* Whose keys the tasks use. Where startLoop is called in a way its shared *)
(* dicts stand, every dict in use holds a key of the user together with    *)
(* its account, or the key of the file; a task has the key of its dict.    *)
(***************************************************************************)
Pcs == {"idle", "register", "lookup", "login", "dial", "online", "sleep"}
Names == Keys \union {NoKey}
Started == [pc : Pcs, d : Dicts \union {NoDict}, key : Names, as : Names, up : Names]
Contents == Identities \union {Blank}

\* The file, the keys and what the server knows of them.
IdFile ==
    /\ file \in Contents
    /\ made \subseteq AutoKeys
    /\ registered \subseteq UserKeys \union made
    /\ file # Blank => file.key \in made /\ file.acc \in {NoKey, file.key}
    /\ whole => made \subseteq {file.key}
    /\ "auto" \notin usage => file = Blank

\* A dict holds a key of the user with its account, or the key of the file.
IdDict(d) ==
    /\ heap[d] \in Identities
    /\ \/ heap[d].key \in UserKeys /\ heap[d].acc = heap[d].key /\ "full" \in usage
       \/ heap[d].key = file.key /\ heap[d].acc \in {NoKey, file.key}

IdDicts ==
    /\ heap \in [Dicts -> Contents]
    /\ cache \in Dicts \union {NoDict}
    /\ \A d \in Used \ {NoDict} : IdDict(d)

\* A task has the key that its dict holds; while it registers, so has the cache.
IdTask(l) ==
    /\ loop[l].pc # "idle" /\ loop[l].d \in Dicts /\ cache \in Dicts
    /\ serial => loop[l].d = cache
    /\ loop[l].pc # "sleep" => loop[l].key = heap[loop[l].d].key
    /\ loop[l].pc \in {"register", "lookup"} =>
          loop[l].key = file.key /\ heap[cache].key = file.key
    /\ loop[l].pc = "online" => loop[l].as \in {NoKey, loop[l].key}
    /\ loop[l].pc # "online" => loop[l].up = NoKey

IdTasks ==
    /\ loop \in [Loops -> Started]
    /\ \A l \in Loops : loop[l] = Idle \/ IdTask(l)
    /\ serial => \A k, l \in Loops : loop[k] # Idle /\ loop[l] # Idle => k = l

\* The context is that of a task, and where there is one task or one key, so are the
\* tokens that are used with it.
IdContext ==
    /\ ctx.tok \in Names
    /\ \A l \in Loops : loop[l].pc = "online" => ctx.of \in Loops
    /\ serial => \A l \in Loops : loop[l].pc = "online" =>
          ctx.of = l /\ ctx.tok = loop[l].key /\ loop[l].up \in {NoKey, loop[l].key}
    /\ usage = {"auto"} =>
          ctx.tok \in {NoKey, file.key} /\ \A l \in Loops : loop[l].up \in {NoKey, file.key}
    /\ "name" \notin slips
    /\ serial \/ usage = {"auto"} => slips = {}

IdInv == IdFile /\ IdDicts /\ IdTasks /\ IdContext

-----------------------------------------------------------------------------
\* _get_or_create_identity always finds an unused dict: there is one to spare.
LEMMA IdSpare ==
    New \in Dicts /\ New \notin Used
<1> DEFINE held == {loop[l].d : l \in Loops}
           f == [l \in Loops |-> loop[l].d]
<1>1. f \in Surjection(Loops, held)
  BY DEF Surjection
<1> HIDE DEF f
<1>2. IsFiniteSet(held) /\ Cardinality(held) <= Cardinality(Loops)
  BY <1>1, FS_Surjection, IdentityAssumption
<1> HIDE DEF held
<1>3. /\ IsFiniteSet(held \union {cache})
      /\ Cardinality(held \union {cache}) \in Nat /\ Cardinality(held) \in Nat
      /\ Cardinality(held \union {cache}) <= Cardinality(held) + 1
  <2>1. /\ IsFiniteSet(held \union {cache})
        /\ Cardinality(held \union {cache})
              = IF cache \in held THEN Cardinality(held) ELSE Cardinality(held) + 1
    BY <1>2, FS_AddElement
  <2>2. Cardinality(held \union {cache}) \in Nat /\ Cardinality(held) \in Nat
    BY <1>2, <2>1, FS_CardinalityType
  <2>3. QED
    BY <2>1, <2>2
<1>4. held \union {cache} = Used
  BY DEF Used, held
<1>5. Cardinality(Loops) \in Nat /\ Cardinality(Dicts) \in Nat
  BY IdentityAssumption, FS_CardinalityType
<1>6. ~ Cardinality(Dicts) <= Cardinality(held \union {cache})
  BY <1>2, <1>3, <1>5, IdentityAssumption
<1>7. ~ Dicts \subseteq held \union {cache}
  BY <1>3, <1>6, FS_Subset
<1>8. \E d \in Dicts : d \notin Used
  BY <1>4, <1>7
<1>9. QED
  BY <1>8 DEF New

\* What a step of task l leaves alone.
Beside(l) == \A k \in Loops \ {l} : loop'[k] = loop[k]

LEMMA IdIdle ==
    /\ Idle \in Started /\ Idle.pc = "idle" /\ Idle.d = NoDict
    /\ Idle.key = NoKey /\ Idle.as = NoKey /\ Idle.up = NoKey
BY DEF Idle, Started, Pcs, Names

LEMMA IdGoes ==
    ASSUME loop \in [Loops -> Started], NEW l \in Loops, NEW p \in Pcs,
           NEW d \in Dicts, NEW key \in Names, Goes(l, p, d, key)
    PROVE  /\ loop' \in [Loops -> Started] /\ Beside(l)
           /\ loop'[l].pc = p /\ loop'[l].d = d /\ loop'[l].key = key
           /\ loop'[l].as = NoKey /\ loop'[l].up = NoKey
<1> DEFINE r == [Idle EXCEPT !.pc = p, !.d = d, !.key = key]
<1>1. /\ r \in Started /\ r.pc = p /\ r.d = d /\ r.key = key
      /\ r.as = NoKey /\ r.up = NoKey
  BY IdIdle DEF Started
<1>2. loop' = [loop EXCEPT ![l] = r]
  BY DEF Goes
<1> HIDE DEF r
<1>3. QED
  BY <1>1, <1>2 DEF Beside

\* What the dicts in use hold after Holds.
LEMMA IdHolds ==
    ASSUME NEW c \in [Dicts -> Contents], Holds(c)
    PROVE  /\ heap' \in [Dicts -> Contents]
           /\ \A d \in Dicts : d \in Used' => heap'[d] = c[d]
BY DEF Holds, Contents

\* The keys and what they say of a dict.
LEMMA IdKeys ==
    /\ NoKey \notin Keys /\ UserKeys \subseteq Keys /\ AutoKeys \subseteq Keys
    /\ UserKeys \intersect AutoKeys = {}
    /\ \A id \in Identities : id.key \in Keys /\ id.key # NoKey /\ id # Blank
    /\ Blank.key = NoKey
BY IdentityAssumption DEF Keys, Identities, Blank

LEMMA IdOfTask ==
    ASSUME IdDicts, IdTasks, NEW l \in Loops, loop[l] # Idle
    PROVE  /\ IdTask(l) /\ loop[l].d \in Dicts /\ cache \in Dicts
           /\ loop[l].d \in Used /\ cache \in Used
           /\ IdDict(loop[l].d) /\ IdDict(cache)
<1>1. IdTask(l)
  BY DEF IdTasks
<1>2. loop[l].d \in Dicts /\ cache \in Dicts
  BY <1>1 DEF IdTask
<1>3. loop[l].d \in Used /\ cache \in Used
  BY DEF Used
<1>4. loop[l].d # NoDict /\ cache # NoDict
  BY <1>2, IdentityAssumption
<1>5. QED
  BY <1>1, <1>2, <1>3, <1>4 DEF IdDicts

\* A task whose dict has no account yet registers the key of the file.
LEMMA IdNoAccount ==
    ASSUME Sound, IdFile, IdDicts, IdTasks, NEW l \in Loops, loop[l] # Idle,
           heap[loop[l].d].acc = NoKey
    PROVE  heap[loop[l].d].key = file.key /\ heap[cache].key = file.key
<1>1. IdTask(l) /\ IdDict(loop[l].d) /\ IdDict(cache)
  BY IdOfTask
<1>2. heap[loop[l].d].key = file.key
  BY <1>1, IdKeys DEF IdDict
<1>3. CASE serial
  BY <1>1, <1>2, <1>3 DEF IdTask
<1>4. CASE "full" \notin usage
  BY <1>1, <1>2, <1>4 DEF IdDict
<1>5. CASE "auto" \notin usage
  <2>1. file = Blank
    BY <1>5 DEF IdFile
  <2>2. QED
    BY <1>1, <1>2, <2>1, IdKeys DEF IdDict
<1>6. QED
  BY <1>3, <1>4, <1>5 DEF Sound

-----------------------------------------------------------------------------
\* A step of a task that keeps its dict, while nothing is written.
LEMMA IdQuiet ==
    ASSUME IdFile, IdDicts, IdTasks, NEW l \in Loops, loop[l] # Idle,
           UNCHANGED <<file, heap, cache, made, modes>>,
           registered' \subseteq UserKeys \union made,
           loop' \in [Loops -> Started], Beside(l), loop'[l].d = loop[l].d, IdTask(l)'
    PROVE  IdFile' /\ IdDicts' /\ IdTasks'
<1>0. UNCHANGED <<usage, serial, whole>>
  BY DEF modes
<1>1. IdFile'
  BY <1>0 DEF IdFile
<1>2. \A k \in Loops : loop'[k].d = loop[k].d
  BY DEF Beside
<1>3. Used' = Used
  BY <1>2 DEF Used
<1>4. IdDicts'
  BY <1>0, <1>3 DEF IdDicts, IdDict
<1>5. \A k \in Loops \ {l} : loop'[k] = Idle \/ IdTask(k)'
  BY <1>0 DEF IdTasks, IdTask, Beside
<1>6. \A k \in Loops : loop'[k] # Idle => loop[k] # Idle
  BY DEF Beside
<1>7. IdTasks'
  BY <1>0, <1>5, <1>6 DEF IdTasks
<1>8. QED
  BY <1>1, <1>4, <1>7

\* A step of a task after which it is not online leaves the context alone.
LEMMA IdOffline ==
    ASSUME IdContext, NEW l \in Loops, Beside(l), UNCHANGED <<ctx, slips, modes>>,
           loop'[l].pc # "online", loop'[l].up = NoKey,
           file.key \in {NoKey, file'.key}
    PROVE  IdContext'
BY DEF IdContext, Beside, modes

-----------------------------------------------------------------------------
\* The account of the task's key has become known: it is written to the file, to
\* the dict of the cache and to the task's own, which all have that key.
LEMMA IdKnown ==
    ASSUME IdFile, IdDicts, IdTasks, NEW l \in Loops,
           loop[l].pc \in {"register", "lookup"}, Known(l),
           registered' \subseteq UserKeys \union made, UNCHANGED <<made, modes>>
    PROVE  /\ IdFile' /\ IdDicts' /\ IdTasks'
           /\ Beside(l) /\ loop'[l].pc = "login" /\ loop'[l].up = NoKey
           /\ file'.key = file.key
<1> DEFINE k == loop[l].key
           e == loop[l].d
           updated == [heap EXCEPT ![cache].acc = k]
           both == [updated EXCEPT ![e].acc = k]
<1>0. UNCHANGED <<usage, serial, whole>>
  BY DEF modes
<1>1. /\ loop[l] # Idle /\ IdTask(l) /\ e \in Dicts /\ cache \in Dicts
      /\ IdDict(e) /\ IdDict(cache)
  BY IdOfTask, IdIdle
<1>2. /\ heap[e].key = k /\ heap[cache].key = k /\ file.key = k
      /\ heap[e] \in Identities /\ heap[cache] \in Identities
  BY <1>1 DEF IdTask, IdDict
<1>3. k \in Keys /\ k # NoKey /\ file # Blank /\ k \in made
  BY <1>2, IdKeys DEF IdFile
<1>4. heap \in [Dicts -> Contents]
  BY DEF IdDicts
<1>5. /\ updated \in [Dicts -> Contents]
      /\ updated[cache] \in Identities /\ updated[cache].key = k /\ updated[cache].acc = k
      /\ updated[e] \in Identities /\ updated[e].key = k
      /\ \A d \in Dicts \ {cache} : updated[d] = heap[d]
  BY <1>1, <1>2, <1>3, <1>4 DEF Contents, Identities
<1>6. /\ file' = updated[cache] /\ cache' = cache
      /\ Goes(l, "login", e, heap[e].key) /\ Holds(both)
  BY DEF Known
<1> HIDE DEF updated
<1>7. /\ both \in [Dicts -> Contents]
      /\ both[e] \in Identities /\ both[e].key = k /\ both[e].acc = k
      /\ \A d \in Dicts \ {e} : both[d] = updated[d]
  BY <1>1, <1>3, <1>5 DEF Contents, Identities
<1> HIDE DEF both
<1>8. /\ loop' \in [Loops -> Started] /\ Beside(l)
      /\ loop'[l].pc = "login" /\ loop'[l].d = e /\ loop'[l].key = k
      /\ loop'[l].as = NoKey /\ loop'[l].up = NoKey
  <2>1. k \in Names /\ "login" \in Pcs /\ loop \in [Loops -> Started]
    BY <1>3 DEF Names, Pcs, IdTasks
  <2>2. QED
    BY <1>1, <1>2, <1>6, <2>1, IdGoes
<1>9. Used' = Used
  <2>1. \A j \in Loops : loop'[j].d = loop[j].d
    BY <1>8 DEF Beside
  <2>2. QED
    BY <1>6, <2>1 DEF Used
<1>10. /\ heap' \in [Dicts -> Contents]
       /\ \A d \in Dicts : d \in Used => heap'[d] = both[d]
  BY <1>6, <1>7, <1>9, IdHolds
<1>11. file'.key = k /\ file'.acc = k /\ file' \in Identities
  BY <1>5, <1>6
<1>12. IdFile'
  BY <1>0, <1>2, <1>3, <1>11 DEF IdFile, Contents
<1>13. \A d \in Dicts : d \in Used => heap'[d].key = heap[d].key
  BY <1>2, <1>5, <1>7, <1>10
<1>14. IdDicts'
  <2>1. ASSUME NEW d \in Used \ {NoDict} PROVE IdDict(d)'
    <3>1. d \in Dicts /\ IdDict(d) /\ heap'[d] = both[d]
      BY <1>10 DEF IdDicts, Used, IdTasks, Started
    <3>2. CASE d \in {e, cache}
      BY <1>2, <1>5, <1>7, <1>11, <3>1, <3>2 DEF IdDict
    <3>3. CASE d \notin {e, cache}
      <4>1. heap'[d] = heap[d]
        BY <1>5, <1>7, <3>1, <3>3
      <4>2. QED
        BY <1>0, <1>2, <1>11, <3>1, <4>1 DEF IdDict
    <3>4. QED
      BY <3>2, <3>3
  <2>2. QED
    BY <1>1, <1>6, <1>9, <1>10, <2>1 DEF IdDicts
<1>15. IdTasks'
  <2>1. IdTask(l)'
    BY <1>0, <1>1, <1>2, <1>6, <1>8, <1>10, <1>7 DEF IdTask, Used
  <2>2. ASSUME NEW j \in Loops \ {l}, loop'[j] # Idle PROVE IdTask(j)'
    <3>1. loop'[j] = loop[j] /\ loop[j] # Idle
      BY <1>8, <2>2 DEF Beside
    <3>2. /\ IdTask(j) /\ loop[j].d \in Dicts /\ loop[j].d \in Used /\ cache \in Used
      BY <3>1, IdOfTask
    <3>3. heap'[loop[j].d].key = heap[loop[j].d].key /\ heap'[cache].key = heap[cache].key
      BY <1>1, <1>13, <3>2
    <3>4. QED
      BY <1>0, <1>2, <1>6, <1>11, <3>1, <3>2, <3>3 DEF IdTask
  <2>3. \A j \in Loops : loop'[j] # Idle => loop[j] # Idle
    BY <1>1, <1>8 DEF Beside
  <2>4. QED
    BY <1>0, <1>8, <2>1, <2>2, <2>3 DEF IdTasks
<1>16. QED
  BY <1>2, <1>8, <1>11, <1>12, <1>14, <1>15

-----------------------------------------------------------------------------
\* What a dict that is handed out may hold, as the file is then.
Proper(id) ==
    /\ id \in Identities
    /\ \/ id.key \in UserKeys /\ id.acc = id.key /\ "full" \in usage
       \/ id.key = file.key /\ id.acc \in {NoKey, file.key}

\* The dicts of the tasks still hold what they held when d holds id, and where a key of
\* the file is being registered, d holds that key.
Undisturbed(d, id) ==
    \A k \in Loops : loop[k] # Idle =>
        /\ file' = file /\ (loop[k].d = d => heap[d] = id)
        /\ loop[k].pc \in {"register", "lookup"} => id.key = file.key

\* A task begins with dict d, which holds id.
LEMMA IdRuns ==
    ASSUME IdDicts, IdTasks, UNCHANGED modes, NEW l \in Loops, loop[l] = Idle,
           NEW d \in Dicts, NEW id \in Identities, Runs(l, d, id), Proper(id)',
           serial => \A k \in Loops : loop[k] = Idle, Undisturbed(d, id)
    PROVE  /\ IdDicts' /\ IdTasks'
           /\ Beside(l) /\ loop'[l].pc # "online" /\ loop'[l].up = NoKey
<1> DEFINE filled == [heap EXCEPT ![d] = id]
<1>0. UNCHANGED <<usage, serial, whole>>
  BY DEF modes
<1>1. cache' = d /\ Holds(filled)
  BY DEF Runs
<1>2. /\ filled \in [Dicts -> Contents] /\ filled[d] = id
      /\ \A x \in Dicts \ {d} : filled[x] = heap[x]
  BY DEF IdDicts, Contents
<1> HIDE DEF filled
<1>3. /\ heap' \in [Dicts -> Contents]
      /\ \A x \in Dicts : x \in Used' => heap'[x] = filled[x]
  BY <1>1, <1>2, IdHolds
<1>4. /\ loop' \in [Loops -> Started] /\ Beside(l)
      /\ loop'[l].pc = IF id.acc = NoKey THEN "register" ELSE "login"
      /\ loop'[l].d = d /\ loop'[l].key = id.key
      /\ loop'[l].as = NoKey /\ loop'[l].up = NoKey
  <2>1. Goes(l, IF id.acc = NoKey THEN "register" ELSE "login", d, id.key)
    BY DEF Runs, Iterate
  <2>2. (IF id.acc = NoKey THEN "register" ELSE "login") \in Pcs /\ id.key \in Names
    BY IdKeys DEF Pcs, Names
  <2>3. loop \in [Loops -> Started]
    BY DEF IdTasks
  <2>4. QED
    BY <2>1, <2>2, <2>3, IdGoes
<1>5. heap'[d] = id
  BY <1>1, <1>2, <1>3 DEF Used
<1>6. \A k \in Loops \ {l} : loop'[k] # Idle =>
          /\ loop'[k] = loop[k] /\ loop[k] # Idle
          /\ loop[k].d \in Dicts /\ heap'[loop[k].d] = heap[loop[k].d]
  <2> SUFFICES ASSUME NEW k \in Loops \ {l}, loop'[k] # Idle
               PROVE  /\ loop'[k] = loop[k] /\ loop[k] # Idle
                      /\ loop[k].d \in Dicts /\ heap'[loop[k].d] = heap[loop[k].d]
    OBVIOUS
  <2>1. loop'[k] = loop[k] /\ loop[k] # Idle
    BY <1>4 DEF Beside
  <2>2. loop[k].d \in Dicts
    BY <2>1, IdOfTask
  <2>3. loop[k].d \in Used'
    BY <2>1 DEF Used
  <2>4. heap'[loop[k].d] = filled[loop[k].d]
    BY <1>3, <2>2, <2>3
  <2>5. QED
    BY <1>2, <2>1, <2>2, <2>4 DEF Undisturbed
<1>7. IdDicts'
  <2>1. ASSUME NEW x \in Used', x # NoDict, x # d PROVE IdDict(x)'
    <3>1. PICK k \in Loops \ {l} : x = loop'[k].d
      BY <1>1, <1>4, <2>1 DEF Used
    <3>2. loop'[k] # Idle
      BY <2>1, <3>1, IdIdle
    <3>3. x = loop[k].d /\ loop[k] # Idle /\ heap'[x] = heap[x] /\ file' = file
      BY <1>6, <3>1, <3>2 DEF Undisturbed
    <3>4. IdDict(x)
      BY <3>3, IdOfTask
    <3>5. QED
      BY <1>0, <3>3, <3>4 DEF IdDict
  <2>2. IdDict(d)'
    BY <1>0, <1>5 DEF IdDict, Proper
  <2>3. QED
    BY <1>1, <1>3, <2>1, <2>2 DEF IdDicts
<1>8. IdTask(l)'
  <2>1. id.acc = NoKey => id.key = file'.key
    BY IdKeys DEF Proper
  <2>2. QED
    BY <1>0, <1>1, <1>4, <1>5, <2>1 DEF IdTask
<1>9. ASSUME NEW k \in Loops \ {l}, loop'[k] # Idle PROVE IdTask(k)'
  <2>1. /\ loop'[k] = loop[k] /\ loop[k] # Idle /\ heap'[loop[k].d] = heap[loop[k].d]
        /\ file' = file
    BY <1>6, <1>9 DEF Undisturbed
  <2>2. IdTask(k) /\ ~serial
    BY <2>1, IdOfTask
  <2>3. loop[k].pc \in {"register", "lookup"} => id.key = file.key
    BY <2>1 DEF Undisturbed
  <2>4. QED
    BY <1>0, <1>1, <1>5, <2>1, <2>2, <2>3 DEF IdTask
<1>10. serial' => \A k \in Loops \ {l} : loop'[k] = Idle
  BY <1>0, <1>6
<1>11. IdTasks'
  BY <1>0, <1>4, <1>8, <1>9, <1>10 DEF IdTasks
<1>12. QED
  BY <1>4, <1>7, <1>11

\* What _get_or_create_identity hands out without a key: the dict of the cache, or one
\* that holds the key of the file; and nobody is there who remembers another.
LEMMA IdGotten ==
    ASSUME IdFile, IdDicts, IdTasks, "auto" \in usage,
           NEW d \in Dicts, NEW id \in Identities, GetOrCreate(NoKey, d, id),
           UNCHANGED <<registered, modes>>
    PROVE  /\ IdFile' /\ Proper(id)' /\ file.key \in {NoKey, file'.key}
           /\ \/ cache = d /\ heap[d] = id /\ file' = file
              \/ \A k \in Loops : loop[k] = Idle
<1>0. UNCHANGED <<usage, serial, whole>>
  BY DEF modes
<1>1. ~Hit(NoKey) => \A k \in Loops : loop[k] = Idle
  BY IdOfTask, IdentityAssumption DEF Hit
<1>2. CASE Hit(NoKey)
  <2>1. d = cache /\ id = heap[cache] /\ cache # NoDict /\ UNCHANGED <<file, made>>
    BY <1>2 DEF GetOrCreate, Hit
  <2>2. IdDict(cache)
    BY <2>1 DEF IdDicts, Used
  <2>3. IdFile' /\ Proper(id)'
    BY <1>0, <2>1, <2>2 DEF IdFile, IdDict, Proper
  <2>4. QED
    BY <2>1, <2>3
<1>3. CASE ~Hit(NoKey) /\ file # Blank
  <2>1. id = file /\ UNCHANGED <<file, made>>
    BY <1>3 DEF GetOrCreate, InFile
  <2>2. IdFile' /\ Proper(id)'
    BY <1>0, <1>3, <2>1 DEF IdFile, Proper
  <2>3. QED
    BY <1>1, <1>3, <2>1, <2>2
<1>4. CASE ~Hit(NoKey) /\ file = Blank
  <2>1. /\ id.key \in AutoKeys \ made /\ id.acc = NoKey
        /\ made' = made \union {id.key} /\ file' = id
    BY <1>4 DEF GetOrCreate, InFile
  <2>2. whole => made = {}
    BY <1>4, IdKeys DEF IdFile
  <2>3. IdFile'
    BY <1>0, <2>1, <2>2 DEF IdFile, Contents
  <2>4. Proper(id)'
    BY <2>1 DEF Proper
  <2>5. QED
    BY <1>1, <1>4, <2>3, <2>4, IdKeys
<1>5. QED
  BY <1>2, <1>3, <1>4

-----------------------------------------------------------------------------
LEMMA IdStarts ==
    ASSUME Sound, IdInv, NEW l \in Loops,
           StartAuto(l) \/ StartFull(l) \/ StartKey(l) \/ StartPartial(l)
    PROVE  IdInv'
<1> USE DEF IdInv
<1>0. /\ UNCHANGED <<registered, rest, ctx, slips, modes>>
      /\ loop[l] = Idle /\ (serial => \A k \in Loops : loop[k] = Idle)
  BY DEF StartAuto, StartFull, StartKey, StartPartial, MayStart, rest
<1>1. "key" \notin usage /\ "partial" \notin usage
  BY DEF Sound
<1>2. CASE StartAuto(l)
  <2>1. "auto" \in usage
    BY <1>2 DEF StartAuto
  <2>2. PICK d \in Dicts, id \in Identities : GetOrCreate(NoKey, d, id) /\ Runs(l, d, id)
    BY <1>2 DEF StartAuto
  <2>3. /\ IdFile' /\ Proper(id)' /\ file.key \in {NoKey, file'.key}
        /\ \/ cache = d /\ heap[d] = id /\ file' = file
           \/ \A k \in Loops : loop[k] = Idle
    BY <1>0, <2>1, <2>2, IdGotten
  <2>4. Undisturbed(d, id)
    BY <2>3 DEF Undisturbed, IdTasks, IdTask
  <2>5. /\ IdDicts' /\ IdTasks'
        /\ Beside(l) /\ loop'[l].pc # "online" /\ loop'[l].up = NoKey
    BY <1>0, <2>2, <2>3, <2>4, IdRuns
  <2>6. QED
    BY <1>0, <2>3, <2>5, IdOffline
<1>3. CASE StartFull(l)
  <2>1. "full" \in usage /\ UNCHANGED <<file, made>>
    BY <1>3 DEF StartFull
  <2>2. PICK u \in UserKeys : Runs(l, New, [key |-> u, acc |-> u])
    BY <1>3 DEF StartFull
  <2> DEFINE id == [key |-> u, acc |-> u]
  <2>3. id \in Identities /\ id.key = u /\ id.acc = u
    BY IdKeys DEF Identities
  <2>4. Runs(l, New, id)
    BY <2>2
  <2> HIDE DEF id
  <2>5. IdFile'
    BY <1>0, <2>1 DEF IdFile, modes
  <2>6. Proper(id)'
    BY <1>0, <2>1, <2>3 DEF Proper, modes
  <2>7. ASSUME NEW k \in Loops, loop[k] # Idle
        PROVE  loop[k].d # New /\ loop[k].pc \notin {"register", "lookup"}
    <3>1. IdTask(k) /\ loop[k].d \in Used /\ IdDict(loop[k].d)
      BY <2>7, IdOfTask
    <3>2. ~serial /\ usage # {"auto", "full"} /\ usage \subseteq {"auto", "full"}
      BY <1>0, <2>7 DEF Sound
    <3>3. "auto" \notin usage
      <4>1. "auto" \in usage => usage = {"auto", "full"}
        BY <2>1, <3>2
      <4>2. QED
        BY <3>2, <4>1
    <3>4. file = Blank
      BY <3>3 DEF IdFile
    <3>5. QED
      BY <3>1, <3>4, IdSpare, IdKeys DEF IdTask, IdDict
  <2>0. New \in Dicts /\ Undisturbed(New, id)
    BY <2>1, <2>7, IdSpare DEF Undisturbed
  <2>8. /\ IdDicts' /\ IdTasks'
        /\ Beside(l) /\ loop'[l].pc # "online" /\ loop'[l].up = NoKey
    BY <1>0, <2>0, <2>3, <2>4, <2>6, IdRuns
  <2>9. QED
    BY <1>0, <2>1, <2>5, <2>8, IdOffline
<1>4. QED
  BY <1>1, <1>2, <1>3 DEF StartKey, StartPartial

LEMMA IdMySecret ==
    ASSUME Sound, IdInv, MySecret
    PROVE  IdInv'
<1> USE DEF IdInv
<1>0. /\ UNCHANGED <<loop, registered, ctx, slips, modes>>
      /\ UNCHANGED <<usage, serial, whole>> /\ "auto" \in usage
  BY DEF MySecret, rest, modes
<1>1. PICK d \in Dicts, id \in Identities :
          GetOrCreate(NoKey, d, id) /\ cache' = d /\ Holds([heap EXCEPT ![d] = id])
  BY DEF MySecret
<1> DEFINE filled == [heap EXCEPT ![d] = id]
<1>2. /\ IdFile' /\ Proper(id)' /\ file.key \in {NoKey, file'.key}
      /\ \/ cache = d /\ heap[d] = id /\ file' = file
         \/ \A k \in Loops : loop[k] = Idle
  BY <1>0, <1>1, IdGotten
<1>3. /\ filled \in [Dicts -> Contents] /\ filled[d] = id
      /\ \A x \in Dicts \ {d} : filled[x] = heap[x]
  BY DEF IdDicts, Contents
<1>4. Holds(filled)
  BY <1>1
<1> HIDE DEF filled
<1>5. /\ heap' \in [Dicts -> Contents]
      /\ \A x \in Dicts : x \in Used' => heap'[x] = filled[x]
  BY <1>3, <1>4, IdHolds
<1>6. heap'[d] = id
  BY <1>1, <1>3, <1>5 DEF Used
<1>7. ASSUME NEW k \in Loops, loop[k] # Idle
      PROVE  /\ file' = file /\ cache' = cache /\ loop[k].d \in Dicts /\ IdTask(k)
             /\ heap'[loop[k].d] = heap[loop[k].d] /\ heap'[cache] = heap[cache]
             /\ IdDict(loop[k].d)
  <2>1. file' = file /\ cache = d /\ heap[d] = id
    BY <1>2, <1>7
  <2>2. loop[k].d \in Dicts /\ IdTask(k) /\ IdDict(loop[k].d)
    BY <1>7, IdOfTask
  <2>3. loop[k].d \in Used'
    BY <1>0 DEF Used
  <2>4. QED
    BY <1>1, <1>3, <1>5, <1>6, <2>1, <2>2, <2>3
<1>8. IdDicts'
  <2>1. ASSUME NEW x \in Used', x # NoDict, x # d PROVE IdDict(x)'
    <3>1. PICK k \in Loops : x = loop[k].d
      BY <1>0, <1>1, <2>1 DEF Used
    <3>2. loop[k] # Idle
      BY <2>1, <3>1, IdIdle
    <3>3. QED
      BY <1>0, <1>7, <3>1, <3>2 DEF IdDict
  <2>2. IdDict(d)'
    BY <1>0, <1>2, <1>6 DEF IdDict, Proper
  <2>3. QED
    BY <1>1, <1>5, <2>1, <2>2 DEF IdDicts
<1>9. IdTasks'
  <2>1. ASSUME NEW k \in Loops, loop[k] # Idle PROVE IdTask(k)'
    BY <1>0, <1>7, <2>1 DEF IdTask
  <2>2. QED
    BY <1>0, <2>1 DEF IdTasks
<1>10. IdContext'
  BY <1>0, <1>2 DEF IdContext
<1>11. QED
  BY <1>2, <1>8, <1>9, <1>10

\* The requests of a task, and what becomes of their answers.
LEMMA IdRequests ==
    ASSUME Sound, IdInv, NEW l \in Loops, Register(l) \/ Lookup(l)
    PROVE  IdInv'
<1> USE DEF IdInv
<1>0. /\ UNCHANGED <<made, ctx, slips, modes>> /\ UNCHANGED <<usage, serial, whole>>
      /\ loop[l].pc \in {"register", "lookup"}
  BY DEF Register, Lookup, rest, modes
<1>1. /\ loop[l] # Idle /\ IdTask(l) /\ loop[l].d \in Dicts /\ cache \in Dicts
      /\ IdDict(loop[l].d)
  BY <1>0, IdOfTask, IdIdle
<1>2. loop[l].key = file.key /\ loop[l].key = heap[loop[l].d].key /\ loop[l].key \in Keys
  BY <1>0, <1>1, IdKeys DEF IdTask, IdDict
<1>3. loop[l].key \in made
  BY <1>2, IdKeys DEF IdFile
<1>4. registered' \subseteq UserKeys \union made
  BY <1>0, <1>3 DEF Register, Lookup, IdFile
<1>5. CASE Known(l)
  <2>1. /\ IdFile' /\ IdDicts' /\ IdTasks'
        /\ Beside(l) /\ loop'[l].pc = "login" /\ loop'[l].up = NoKey /\ file'.key = file.key
    BY <1>0, <1>4, <1>5, IdKnown
  <2>2. IdContext'
    BY <1>0, <2>1, IdOffline
  <2>3. QED
    BY <2>1, <2>2
<1>6. ASSUME NEW p \in {"lookup", "login"}, Unknown(l, p) PROVE IdInv'
  <2>1. Goes(l, p, loop[l].d, loop[l].key) /\ UNCHANGED <<file, heap, cache>>
    BY <1>2, <1>6 DEF Unknown
  <2>2. p \in Pcs /\ loop[l].key \in Names /\ loop \in [Loops -> Started]
    BY <1>2 DEF Pcs, Names, IdTasks
  <2>3. /\ loop' \in [Loops -> Started] /\ Beside(l)
        /\ loop'[l].pc = p /\ loop'[l].d = loop[l].d /\ loop'[l].key = loop[l].key
        /\ loop'[l].as = NoKey /\ loop'[l].up = NoKey
    BY <1>1, <2>1, <2>2, IdGoes
  <2>4. IdTask(l)'
    BY <1>0, <1>1, <1>2, <2>1, <2>3 DEF IdTask
  <2>5. IdFile' /\ IdDicts' /\ IdTasks'
    BY <1>0, <1>1, <1>4, <2>1, <2>3, <2>4, IdQuiet
  <2>6. IdContext'
    BY <1>0, <2>1, <2>3, IdOffline
  <2>7. QED
    BY <2>5, <2>6
<1>7. QED
  BY <1>5, <1>6 DEF Register, Lookup

\* A step of a task that knows its account, or sleeps, and says nothing.
LEMMA IdCommutes ==
    ASSUME Sound, IdInv, NEW l \in Loops, LogIn(l) \/ Lost(l) \/ WakeUp(l)
    PROVE  IdInv'
<1> USE DEF IdInv
<1>0. /\ UNCHANGED <<file, heap, cache, made, registered, ctx, slips, modes>>
      /\ UNCHANGED <<usage, serial, whole>>
  BY DEF LogIn, Lost, WakeUp, rest, modes
<1>1. loop[l] # Idle /\ loop \in [Loops -> Started]
  BY IdIdle DEF LogIn, Lost, WakeUp, IdTasks
<1>2. /\ IdTask(l) /\ loop[l].d \in Dicts /\ cache \in Dicts
      /\ IdDict(loop[l].d) /\ IdDict(cache)
  BY <1>1, IdOfTask
<1>3. ASSUME NEW p \in {"register", "login", "dial", "sleep"}, NEW key \in Names,
             Goes(l, p, loop[l].d, key),
             p # "sleep" => key = heap[loop[l].d].key,
             p = "register" => heap[loop[l].d].acc = NoKey
      PROVE  IdInv'
  <2>1. p \in Pcs
    BY DEF Pcs
  <2>2. /\ loop' \in [Loops -> Started] /\ Beside(l)
        /\ loop'[l].pc = p /\ loop'[l].d = loop[l].d /\ loop'[l].key = key
        /\ loop'[l].as = NoKey /\ loop'[l].up = NoKey
    BY <1>1, <1>2, <1>3, <2>1, IdGoes
  <2>3. p = "register" => heap[loop[l].d].key = file.key /\ heap[cache].key = file.key
    BY <1>1, <1>3, IdNoAccount
  <2>4. IdTask(l)'
    BY <1>0, <1>2, <1>3, <2>2, <2>3 DEF IdTask
  <2>5. IdFile' /\ IdDicts' /\ IdTasks'
    BY <1>0, <1>1, <2>2, <2>4, IdQuiet DEF IdFile
  <2>6. IdContext'
    BY <1>0, <2>2, IdOffline
  <2>7. QED
    BY <2>5, <2>6
<1>4. NoKey \in Names /\ heap[loop[l].d].key \in Names
  BY <1>2, IdKeys DEF Names, IdDict
<1>5. CASE Goes(l, "sleep", loop[l].d, NoKey)
  BY <1>3, <1>4, <1>5
<1>6. CASE loop[l].pc = "login" /\ Goes(l, "dial", loop[l].d, loop[l].key)
  <2>1. loop[l].key = heap[loop[l].d].key
    BY <1>2, <1>6 DEF IdTask
  <2>2. QED
    BY <1>3, <1>4, <1>6, <2>1
<1>7. CASE Iterate(l, loop[l].d, heap[loop[l].d])
  BY <1>3, <1>4, <1>7 DEF Iterate
<1>8. QED
  BY <1>5, <1>6, <1>7 DEF LogIn, Lost, WakeUp

LEMMA IdGreets ==
    ASSUME Sound, IdInv, NEW l \in Loops, Greet(l)
    PROVE  IdInv'
<1> USE DEF IdInv
<1>0. /\ UNCHANGED <<file, heap, cache, made, registered, slips, modes>>
      /\ UNCHANGED <<usage, serial, whole>>
  BY DEF Greet, modes
<1>1. loop[l].pc = "dial" /\ loop[l] # Idle /\ loop \in [Loops -> Started]
  BY IdIdle DEF Greet, IdTasks
<1>2. /\ IdTask(l) /\ loop[l].d \in Dicts /\ cache \in Dicts
      /\ IdDict(loop[l].d) /\ IdDict(cache)
  BY <1>1, IdOfTask
<1>3. CASE Goes(l, "sleep", loop[l].d, NoKey) /\ UNCHANGED ctx
  <2>1. "sleep" \in Pcs /\ NoKey \in Names
    BY DEF Pcs, Names
  <2>2. /\ loop' \in [Loops -> Started] /\ Beside(l)
        /\ loop'[l].pc = "sleep" /\ loop'[l].d = loop[l].d
        /\ loop'[l].as = NoKey /\ loop'[l].up = NoKey
    BY <1>1, <1>2, <1>3, <2>1, IdGoes
  <2>3. IdTask(l)'
    BY <1>0, <1>2, <2>2 DEF IdTask
  <2>4. IdFile' /\ IdDicts' /\ IdTasks'
    BY <1>0, <1>1, <2>2, <2>3, IdQuiet DEF IdFile
  <2>5. IdContext'
    BY <1>0, <1>3, <2>2, IdOffline
  <2>6. QED
    BY <2>4, <2>5
<1>4. CASE /\ loop' = [loop EXCEPT ![l].pc = "online", ![l].as = heap[loop[l].d].acc]
           /\ ctx' = [of |-> l, tok |-> loop[l].key]
  <2> DEFINE account == heap[loop[l].d].acc
  <2>1. loop[l].key = heap[loop[l].d].key /\ account \in {NoKey, loop[l].key}
    BY <1>1, <1>2 DEF IdTask, IdDict
  <2>2. account \in Names /\ "online" \in Pcs
    BY <1>2, <2>1, IdKeys DEF IdDict, Names, Pcs
  <2>3. /\ loop' \in [Loops -> Started] /\ Beside(l)
        /\ loop'[l].pc = "online" /\ loop'[l].as = account /\ loop'[l].d = loop[l].d
        /\ loop'[l].key = loop[l].key /\ loop'[l].up = loop[l].up
    <3> HIDE DEF account
    <3>1. loop' = [loop EXCEPT ![l].pc = "online", ![l].as = account]
      BY <1>4 DEF account
    <3>2. QED
      BY <1>1, <2>2, <3>1 DEF Started, Beside
  <2>4. loop[l].up = NoKey
    BY <1>1, <1>2 DEF IdTask
  <2>5. IdTask(l)'
    BY <1>0, <1>2, <2>1, <2>3 DEF IdTask
  <2>6. IdFile' /\ IdDicts' /\ IdTasks'
    BY <1>0, <1>1, <2>3, <2>5, IdQuiet DEF IdFile
  <2>7. ctx'.of = l /\ ctx'.tok = loop[l].key
    BY <1>4
  <2>8. serial => \A k \in Loops : loop'[k] # Idle => k = l
    BY <1>0, <1>1, <2>3, IdIdle, <2>6 DEF IdTasks
  <2>9. serial => \A k \in Loops : loop'[k].pc = "online" => k = l
    BY <2>8, IdIdle
  <2>10. usage = {"auto"} => loop[l].key = file.key
    BY <1>2, <2>1 DEF IdDict
  <2>0. loop[l].key \in Names
    BY <1>1 DEF Started
  <2>11. IdContext'
    BY <1>0, <2>0, <2>3, <2>4, <2>7, <2>9, <2>10 DEF IdContext, Beside
  <2>12. QED
    BY <2>6, <2>11
<1>5. QED
  BY <1>3, <1>4 DEF Greet

\* A task is gone; nobody else loses a dict.
LEMMA IdEnds ==
    ASSUME Sound, IdInv, NEW l \in Loops, Ends(l)
    PROVE  IdInv'
<1> USE DEF IdInv
<1>0. /\ UNCHANGED <<file, cache, made, registered, ctx, slips, modes>>
      /\ UNCHANGED <<usage, serial, whole>> /\ Holds(heap)
  BY DEF Ends, rest, modes
<1>1. /\ loop' \in [Loops -> Started] /\ Beside(l) /\ loop'[l] = Idle
      /\ heap \in [Dicts -> Contents]
  BY IdIdle DEF Ends, IdTasks, IdDicts, Beside
<1>2. \A x \in Used' \ {NoDict} : x \in Used
  BY <1>0, <1>1, IdIdle DEF Used, Beside
<1>3. /\ heap' \in [Dicts -> Contents]
      /\ \A x \in Dicts : x \in Used' => heap'[x] = heap[x]
  BY <1>0, <1>1, IdHolds
<1>4. \A x \in Used \ {NoDict} : x \in Dicts
  BY DEF Used, IdDicts, IdTasks, Started
<1>5. IdFile'
  BY <1>0 DEF IdFile
<1>6. IdDicts'
  BY <1>0, <1>2, <1>3, <1>4 DEF IdDicts, IdDict
<1>7. ASSUME NEW k \in Loops \ {l}, loop'[k] # Idle PROVE IdTask(k)'
  <2>1. loop'[k] = loop[k] /\ loop[k] # Idle
    BY <1>1, <1>7 DEF Beside
  <2>2. IdTask(k) /\ loop[k].d \in Dicts /\ cache \in Dicts
    BY <2>1, IdOfTask
  <2>3. loop[k].d \in Used' /\ cache \in Used'
    BY <1>0, <2>1 DEF Used
  <2>4. heap'[loop[k].d] = heap[loop[k].d] /\ heap'[cache] = heap[cache]
    BY <1>3, <2>2, <2>3
  <2>5. QED
    BY <1>0, <2>1, <2>2, <2>4 DEF IdTask
<1>8. \A k \in Loops : loop'[k] # Idle => loop[k] # Idle
  BY <1>1 DEF Beside
<1>9. IdTasks'
  BY <1>0, <1>1, <1>7, <1>8 DEF IdTasks
<1>10. loop'[l].pc # "online" /\ loop'[l].up = NoKey
  BY <1>1, IdIdle
<1>11. IdContext'
  BY <1>0, <1>1, <1>10, IdOffline
<1>12. QED
  BY <1>5, <1>6, <1>9, <1>11

-----------------------------------------------------------------------------
\* The message of a callback goes out under the name of the account whose socket it
\* takes; of one task, or one key, that is the callback's own.
LEMMA IdSays ==
    ASSUME Sound, IdInv, NEW l \in Loops, loop[l].pc = "online", Says(l)
    PROVE  "name" \notin slips' /\ (serial \/ usage = {"auto"} => slips' = {})
<1> DEFINE o == ctx.of
           account == loop[o].key
           name == heap[loop[o].d].acc
<1> USE DEF IdInv
<1>1. o \in Loops /\ loop[o].pc = "online"
  BY DEF Says, IdContext
<1>2. loop[o] # Idle /\ loop[l] # Idle
  BY <1>1, IdIdle
<1>3. IdTask(o) /\ IdDict(loop[o].d) /\ IdTask(l) /\ IdDict(loop[l].d)
  BY <1>1, <1>2, IdOfTask
<1>4. account = heap[loop[o].d].key /\ loop[l].key = heap[loop[l].d].key
  BY <1>1, <1>3 DEF IdTask
<1>5. name \in {NoKey, account}
  BY <1>3, <1>4 DEF IdDict
<1>6. serial \/ usage = {"auto"} =>
          account = loop[l].key /\ loop[l].up \in {NoKey, account}
  <2>1. CASE serial
    BY <2>1 DEF IdContext
  <2>2. CASE usage = {"auto"}
    BY <1>3, <1>4, <2>2 DEF IdContext, IdDict
  <2>3. QED
    BY <2>1, <2>2
<1>7. slips' = slips \union {s \in {"name", "task", "file"} :
           CASE s = "name" -> name \notin {NoKey, account}
             [] s = "task" -> account # loop[l].key
             [] s = "file" -> loop[l].up \notin {NoKey, account}}
  BY DEF Says
<1> HIDE DEF o, account, name
<1>8. /\ "name" \in slips' => "name" \in slips
      /\ serial \/ usage = {"auto"} => \A s \in slips' : s \in slips
  BY <1>5, <1>6, <1>7
<1>9. QED
  BY <1>8 DEF IdContext

LEMMA IdCallbacks ==
    ASSUME Sound, IdInv, NEW l \in Loops,
           SendMessage(l) \/ UploadFile(l) \/ SendFileMessage(l)
    PROVE  IdInv'
<1> USE DEF IdInv
<1>0. /\ loop[l].pc = "online" /\ loop[l] # Idle
      /\ UNCHANGED <<file, heap, cache, made, registered, ctx, modes>>
      /\ UNCHANGED <<usage, serial, whole>>
  BY IdIdle DEF SendMessage, UploadFile, SendFileMessage, InCallback, modes
<1>1. "name" \notin slips' /\ (serial \/ usage = {"auto"} => slips' = {})
  <2>1. slips' = slips \/ Says(l)
    BY DEF SendMessage, UploadFile, SendFileMessage
  <2>2. QED
    BY <1>0, <2>1, IdSays DEF IdContext
<1>2. IdTask(l) /\ loop \in [Loops -> Started]
  BY <1>0, IdOfTask DEF IdTasks
<1>3. PICK up \in {loop[l].up, NoKey, ctx.tok} : loop' = [loop EXCEPT ![l].up = up]
  <2>1. CASE SendMessage(l)
    <3>1. loop' = [loop EXCEPT ![l].up = loop[l].up]
      BY <1>2, <2>1 DEF SendMessage, Started
    <3>2. QED
      BY <3>1
  <2>2. QED
    BY <2>1 DEF UploadFile, SendFileMessage
<1>4. up \in Names
  BY <1>2, <1>3 DEF Started, Names, IdContext
<1>5. /\ loop' \in [Loops -> Started] /\ Beside(l)
      /\ loop'[l].pc = "online" /\ loop'[l].as = loop[l].as /\ loop'[l].d = loop[l].d
      /\ loop'[l].key = loop[l].key /\ loop'[l].up = up
  BY <1>0, <1>2, <1>3, <1>4 DEF Started, Beside
<1>6. IdTask(l)'
  BY <1>0, <1>2, <1>5 DEF IdTask
<1>7. IdFile' /\ IdDicts' /\ IdTasks'
  BY <1>0, <1>5, <1>6, IdQuiet DEF IdFile
<1>8. /\ serial => up \in {NoKey, loop[l].key}
      /\ usage = {"auto"} => up \in {NoKey, file.key}
  BY <1>0, <1>3 DEF IdContext
<1>9. IdContext'
  BY <1>0, <1>1, <1>5, <1>8 DEF IdContext, Beside
<1>10. QED
  BY <1>7, <1>9

\* A new process has the file, and nothing else.
LEMMA IdCrashes ==
    ASSUME Sound, IdInv, Crash \/ CrashInSave
    PROVE  IdInv'
<1> USE DEF IdInv
<1>0. /\ cache' = NoDict /\ ctx' = NoContext /\ loop' = [l \in Loops |-> Idle]
      /\ heap' = [d \in Dicts |-> Blank]
      /\ UNCHANGED <<made, slips, registered, usage, serial, whole>>
      /\ file' = file \/ (file' = Blank /\ ~whole)
  BY DEF Crash, CrashInSave, NewProcess, modes
<1>1. IdFile'
  BY <1>0 DEF IdFile, Contents
<1>2. \A d \in Used' : d = NoDict
  BY <1>0, IdIdle DEF Used
<1>3. IdDicts'
  BY <1>0, <1>2 DEF IdDicts, Contents
<1>4. IdTasks'
  BY <1>0, IdIdle DEF IdTasks
<1>5. ctx'.tok = NoKey
  BY <1>0 DEF NoContext
<1>6. IdContext'
  BY <1>0, <1>5, IdIdle DEF IdContext, Names
<1>7. QED
  BY <1>1, <1>3, <1>4, <1>6

LEMMA IdInit ==
    ASSUME IdentityInit
    PROVE  IdInv
<1>0. /\ file = Blank /\ heap = [d \in Dicts |-> Blank] /\ cache = NoDict
      /\ loop = [l \in Loops |-> Idle] /\ ctx = NoContext /\ slips = {}
      /\ registered = UserKeys /\ made = {}
  BY DEF IdentityInit
<1>1. IdFile
  BY <1>0 DEF IdFile, Contents
<1>2. \A d \in Used : d = NoDict
  BY <1>0, IdIdle DEF Used
<1>3. IdDicts
  BY <1>0, <1>2 DEF IdDicts, Contents
<1>4. IdTasks
  BY <1>0, IdIdle DEF IdTasks
<1>5. ctx.tok = NoKey
  BY <1>0 DEF NoContext
<1>6. IdContext
  BY <1>0, <1>5, IdIdle DEF IdContext, Names
<1>7. QED
  BY <1>1, <1>3, <1>4, <1>6 DEF IdInv

LEMMA IdSame ==
    ASSUME IdInv, UNCHANGED identityVars
    PROVE  IdInv'
<1>0. UNCHANGED <<file, heap, cache, loop, registered, made, ctx, slips, usage, serial, whole>>
  BY DEF identityVars, rest, modes
<1>1. Used' = Used
  BY <1>0 DEF Used
<1>2. \A d \in Used : IdDict(d)' <=> IdDict(d)
  BY <1>0 DEF IdDict
<1>3. \A l \in Loops : IdTask(l)' <=> IdTask(l)
  BY <1>0 DEF IdTask
<1>4. IdFile' /\ IdDicts' /\ IdTasks' /\ IdContext'
  BY <1>0, <1>1, <1>2, <1>3 DEF IdInv, IdFile, IdDicts, IdTasks, IdContext
<1>5. QED
  BY <1>4 DEF IdInv

\* In every reachable state, for every number of tasks and keys.
LEMMA IdAlways ==
    IdentitySpec => [](Sound => IdInv)
<1>1. IdentityInit => (Sound => IdInv)
  BY IdInit
<1>2. (Sound => IdInv) /\ [IdentityNext]_identityVars => (Sound => IdInv)'
  <2>1. [IdentityNext]_identityVars => (Sound' <=> Sound)
    <3>1. IdentityNext => UNCHANGED modes
      BY DEF IdentityNext, StartAuto, StartKey, StartFull, StartPartial, Register, Lookup,
             LogIn, Greet, Lost, WakeUp, Ends, SendMessage, UploadFile, SendFileMessage,
             InCallback, MySecret, Crash, CrashInSave, NewProcess, rest
    <3>2. QED
      BY <3>1 DEF identityVars, rest, modes, Sound
  <2>2. ASSUME Sound, IdInv, IdentityNext PROVE IdInv'
    <3>1. ASSUME NEW l \in Loops,
                 \/ StartAuto(l) \/ StartKey(l) \/ StartFull(l) \/ StartPartial(l)
                 \/ Register(l) \/ Lookup(l) \/ LogIn(l) \/ Greet(l)
                 \/ Lost(l) \/ WakeUp(l) \/ Ends(l)
                 \/ SendMessage(l) \/ UploadFile(l) \/ SendFileMessage(l)
          PROVE  IdInv'
      BY <2>2, <3>1, IdStarts, IdRequests, IdCommutes, IdGreets, IdEnds, IdCallbacks
    <3>2. QED
      BY <2>2, <3>1, IdMySecret, IdCrashes DEF IdentityNext
  <2>3. QED
    BY <2>1, <2>2, IdSame
<1>3. QED
  BY <1>1, <1>2, PTL DEF IdentitySpec

\* No key pair that was generated here and has an account is lost, if startLoop is called
\* in the ways it stands and no process ends within a save.
THEOREM IdentityKeysKept ==
    IdentitySpec => []KeysKept
<1>1. (Sound => IdInv) => KeysKept
  BY IdKeys DEF KeysKept, IdInv, IdFile
<1>2. QED
  BY <1>1, IdAlways, PTL

\* Called in those ways, no task goes online under the account of a key other than the
\* one it has logged in with, and no callback sends under the name of another account
\* than the one whose socket it sends over.
THEOREM TasksOnlineAsThemselves ==
    IdentitySpec => []OnlineAsItself
<1>1. (Sound => IdInv) => OnlineAsItself
  <2> SUFFICES ASSUME Sound, IdInv PROVE OnlineAsItself
    BY DEF OnlineAsItself
  <2>1. ASSUME NEW l \in Loops, loop[l].pc = "online" PROVE loop[l].as \in {NoKey, loop[l].key}
    BY <2>1, IdIdle DEF IdInv, IdTasks, IdTask
  <2>2. QED
    BY <2>1 DEF OnlineAsItself, IdInv, IdContext
<1>2. QED
  BY <1>1, IdAlways, PTL
=============================================================================
