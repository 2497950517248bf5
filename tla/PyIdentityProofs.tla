-------------------------- MODULE PyIdentityProofs --------------------------
(***************************************************************************)
(* For any number of keys, friends and concurrent calls: the table has at  *)
(* most one current row, no registered key loses its secret, and the agent *)
(* in memory is a row of the table.  The last two rest on one fact about   *)
(* the pending rows: they are written once and never replaced.  With calls *)
(* one at a time each returns what it made, and a careful user's table has *)
(* a current row: none of its rows is ever replaced.                       *)
(***************************************************************************)
EXTENDS PyIdentity, TLAPS

\* What a suspended call may rely on, by the place where it is suspended.
Own == {"register", "lookup", "login", "start"}
TaskKeys ==
    \A t \in Tasks : /\ task[t].pc \in Own => task[t].key \in OwnKeys
                     /\ task[t].pc = "friend" => task[t].key \in Keys

\* A key that is being registered, or has been, still has its pending row.
HasPending(table, k) == table[Pending(k)].kind = "my" /\ table[Pending(k)].key = k
PendingKept ==
    /\ \A k \in registered : HasPending(agents, k)
    /\ \A t \in Tasks : task[t].pc \in {"register", "lookup", "login"}
                           => HasPending(agents, task[t].key)
    /\ \A k \in OwnKeys : Present(Pending(k)) => HasPending(agents, k)

ActiveKept ==
    active # NoAgent => /\ Present(active.id)
                        /\ agents[active.id].kind = active.kind
                        /\ agents[active.id].key = active.key

IInv == TypeOK /\ TaskKeys /\ PendingKept /\ ActiveKept

-----------------------------------------------------------------------------
\* The ids of different kinds, and of different keys, differ.
LEMMA IdsDiffer ==
    /\ NoId \in Ids
    /\ \A k \in OwnKeys : Pending(k) \in Ids
    /\ \A k \in Keys : Account(k) \in Ids /\ Prefix(k) \in Ids
    /\ \A k, j : Pending(k) = Pending(j) => k = j
    /\ \A k, j : Pending(k) # Account(j) /\ Pending(k) # Prefix(j)
    /\ \A k : Pending(k) # NoId
<1>1. /\ NoId \in Ids
      /\ \A k \in OwnKeys : Pending(k) \in Ids
      /\ \A k \in Keys : Account(k) \in Ids /\ Prefix(k) \in Ids
  BY DEF Ids
<1>2. ASSUME NEW k, NEW j
      PROVE  /\ Pending(k) = Pending(j) => k = j
             /\ Pending(k) # Account(j) /\ Pending(k) # Prefix(j)
             /\ Pending(k) # NoId
  <2>1. Pending(k)[1] = "pending" /\ Pending(k)[2] = k /\ Pending(j)[2] = j
    BY DEF Pending
  <2>2. Account(j)[1] = "account" /\ Prefix(j)[1] = "prefix" /\ NoId[1] = "empty"
    BY DEF Account, Prefix, NoId
  <2>3. QED
    BY <2>1, <2>2
<1>3. QED
  BY <1>1, <1>2

\* save_agent writes one well-formed row and leaves the others.
LEMMA SaveEffect ==
    ASSUME TypeOK, NEW id \in Ids, NEW kind \in {"my", "friend"}, NEW k \in Keys,
           kind = "my" => k \in OwnKeys, Save(id, kind, k)
    PROVE  /\ agents' \in [Ids -> Rows]
           /\ agents'[id].kind = kind /\ agents'[id].key = k
           /\ \A i \in Ids \ {id} : agents'[i] = agents[i]
<1> DEFINE row == [kind |-> kind, key |-> k, cur |-> Empty]
<1>1. Empty \in BOOLEAN
  BY DEF Empty
<1>2. row \in Rows
  BY <1>1 DEF Rows
<1>3. agents' = [agents EXCEPT ![id] = row] /\ agents \in [Ids -> Rows]
  BY DEF Save, TypeOK
<1> HIDE DEF row
<1>4. agents' \in [Ids -> Rows] /\ agents'[id] = row
  BY <1>2, <1>3
<1>5. \A i \in Ids \ {id} : agents'[i] = agents[i]
  BY <1>3
<1>6. QED
  BY <1>4, <1>5 DEF row

\* A present row may be marked, and every row unmarked.
LEMMA MarkedRow ==
    ASSUME NEW r \in Rows, NEW b \in BOOLEAN, r.kind # "none" \/ ~b
    PROVE  LET m == [r EXCEPT !.cur = b]
           IN m \in Rows /\ m.kind = r.kind /\ m.key = r.key /\ m.cur = b
<1>1. CASE r = Absent
  <2>1. r \in [kind : {"none"}, key : {NoKey}, cur : {FALSE}] /\ b = FALSE
    BY <1>1 DEF Absent
  <2>2. [r EXCEPT !.cur = b] = r
    BY <2>1
  <2>3. QED
    BY <2>1, <2>2
<1>2. CASE r \in [kind : {"my"}, key : OwnKeys, cur : BOOLEAN]
  BY <1>2 DEF Rows
<1>3. CASE r \in [kind : {"friend"}, key : Keys, cur : BOOLEAN]
  BY <1>3 DEF Rows
<1>4. QED
  BY <1>1, <1>2, <1>3 DEF Rows

\* set_current moves the mark and nothing else.
LEMMA SetCurrentEffect ==
    ASSUME TypeOK, NEW id \in Ids, SetCurrent(id)
    PROVE  /\ agents' \in [Ids -> Rows]
           /\ \A i \in Ids : /\ agents'[i].kind = agents[i].kind
                             /\ agents'[i].key = agents[i].key
                             /\ agents'[i].cur => i = id
<1>1. agents' = [i \in Ids |-> [agents[i] EXCEPT !.cur = i = id]]
  BY DEF SetCurrent
<1>2. ASSUME NEW i \in Ids
      PROVE  /\ agents'[i] \in Rows
             /\ agents'[i].kind = agents[i].kind
             /\ agents'[i].key = agents[i].key
             /\ agents'[i].cur => i = id
  <2>1. agents[i] \in Rows /\ (i = id) \in BOOLEAN
    BY DEF TypeOK
  <2>2. agents[i].kind # "none" \/ ~(i = id)
    BY DEF SetCurrent, Present
  <2>3. agents'[i] = [agents[i] EXCEPT !.cur = i = id]
    BY <1>1
  <2>4. QED
    BY <2>1, <2>2, <2>3, MarkedRow
<1>3. QED
  BY <1>1, <1>2

-----------------------------------------------------------------------------
LEMMA InitInv == Init => IInv
<1> SUFFICES ASSUME Init PROVE IInv
  OBVIOUS
<1>1. TypeOK
  <2>1. agents \in [Ids -> Rows]
    BY DEF Init, Rows
  <2>2. active \in [id : Ids, kind : {"none", "my", "friend"}, key : Keys \union {NoKey}]
    BY IdsDiffer DEF Init, NoAgent
  <2>3. QED
    BY <2>1, <2>2, IdsDiffer, IdentityAssumption DEF Init, TypeOK, Idle
<1>2. TaskKeys /\ PendingKept /\ ActiveKept
  BY IdsDiffer DEF Init, TaskKeys, PendingKept, ActiveKept, Idle, Own, Present, Absent
<1>3. QED
  BY <1>1, <1>2 DEF IInv

\* CreateMine saves new keys under an id that no row has.
LEMMA CreateMineInv ==
    ASSUME IInv, NEW t \in Tasks, CreateMine(t)
    PROVE  IInv'
<1>1. PICK k \in OwnKeys : ~Present(Pending(k)) /\ Save(Pending(k), "my", k) /\ Goes(t, "register", k)
  BY DEF CreateMine
<1>2. /\ agents' \in [Ids -> Rows]
      /\ agents'[Pending(k)].kind = "my" /\ agents'[Pending(k)].key = k
      /\ \A i \in Ids \ {Pending(k)} : agents'[i] = agents[i]
  BY <1>1, IdsDiffer, SaveEffect DEF IInv, Keys
<1>3. /\ task' = [task EXCEPT ![t] = [pc |-> "register", key |-> k]]
      /\ UNCHANGED <<active, token, registered, modes, greeted>>
  BY <1>1 DEF CreateMine, Goes
<1>4. task'[t] = [pc |-> "register", key |-> k] /\ \A u \in Tasks \ {t} : task'[u] = task[u]
  BY <1>3 DEF IInv, TypeOK
<1>5. TypeOK'
  BY <1>2, <1>3 DEF IInv, TypeOK, Keys, modes
<1>6. TaskKeys'
  BY <1>4 DEF IInv, TaskKeys, Own
<1>7. PendingKept'
  <2>1. ASSUME NEW j \in OwnKeys, HasPending(agents, j) PROVE HasPending(agents', j)
    BY <1>2, <2>1, IdsDiffer DEF HasPending
  <2>2. HasPending(agents', k)
    BY <1>2 DEF HasPending
  <2>3. \A j \in registered' : HasPending(agents', j)
    BY <1>3, <2>1 DEF IInv, PendingKept, TypeOK
  <2>4. \A u \in Tasks : task'[u].pc \in {"register", "lookup", "login"}
                            => HasPending(agents', task'[u].key)
    <3>1. ASSUME NEW u \in Tasks \ {t}, task[u].pc \in {"register", "lookup", "login"}
          PROVE  HasPending(agents', task[u].key)
      BY <2>1, <3>1 DEF IInv, PendingKept, TaskKeys, Own
    <3>2. QED
      BY <1>4, <2>2, <3>1
  <2>5. \A j \in OwnKeys : Present(Pending(j))' => HasPending(agents', j)
    BY <1>2, <2>1, <2>2, IdsDiffer DEF IInv, PendingKept, Present
  <2>6. QED
    BY <2>3, <2>4, <2>5 DEF PendingKept
<1>8. ActiveKept'
  BY <1>1, <1>2, <1>3 DEF IInv, ActiveKept, Present, TypeOK
<1>9. QED
  BY <1>5, <1>6, <1>7, <1>8 DEF IInv

-----------------------------------------------------------------------------
\* What the other steps have in common: they leave kind and key of the pending
\* rows, and a call that goes on keeps its key.
Same(id) == agents'[id].kind = agents[id].kind /\ agents'[id].key = agents[id].key
PendingSame == \A k \in OwnKeys : Same(Pending(k))
Busy == {"register", "lookup", "login"}
GoesOn == \A u \in Tasks : task'[u].pc \in Busy => /\ task[u].pc \in Busy
                                                   /\ task'[u].key = task[u].key

LEMMA PendingStep ==
    ASSUME IInv, PendingSame, GoesOn,
           \A k \in registered' : \/ k \in registered
                                  \/ \E u \in Tasks : task[u].pc = "register" /\ task[u].key = k,
           registered' \subseteq OwnKeys
    PROVE  PendingKept'
<1>1. \A k \in OwnKeys : HasPending(agents, k) => HasPending(agents', k)
  BY DEF PendingSame, Same, HasPending
<1>2. \A k \in registered' : HasPending(agents', k)
  BY <1>1 DEF IInv, PendingKept
<1>3. ASSUME NEW u \in Tasks, task'[u].pc \in {"register", "lookup", "login"}
      PROVE  HasPending(agents', task'[u].key)
  BY <1>1, <1>3 DEF IInv, PendingKept, TaskKeys, GoesOn, Busy, Own
<1>4. \A k \in OwnKeys : Present(Pending(k))' => HasPending(agents', k)
  BY <1>1 DEF IInv, PendingKept, PendingSame, Same, Present
<1>5. QED
  BY <1>2, <1>3, <1>4 DEF PendingKept

\* A call that suspends again, with its key, or ends.
LEMMA TaskStep ==
    ASSUME IInv, NEW t \in Tasks,
           \/ /\ task[t].pc \in Busy
              /\ \E pc \in {"lookup", "login"} : Goes(t, pc, task[t].key)
           \/ Ends(t)
    PROVE  /\ task' \in [Tasks -> [pc : {"idle", "register", "lookup", "login", "friend", "start"},
                                   key : Keys \union {NoKey}]]
           /\ TaskKeys'
           /\ GoesOn
<1>1. CASE task[t].pc \in Busy /\ \E pc \in {"lookup", "login"} : Goes(t, pc, task[t].key)
  <2>1. PICK pc \in {"lookup", "login"} : task' = [task EXCEPT ![t] = [pc |-> pc, key |-> task[t].key]]
    BY <1>1 DEF Goes
  <2>2. task[t].key \in OwnKeys
    BY <1>1 DEF IInv, TaskKeys, Busy, Own
  <2>3. QED
    BY <1>1, <2>1, <2>2 DEF IInv, TypeOK, TaskKeys, GoesOn, Busy, Own, Keys
<1>2. CASE Ends(t)
  BY <1>2 DEF Ends, Idle, IInv, TypeOK, TaskKeys, GoesOn, Busy, Own
<1>3. QED
  BY <1>1, <1>2

\* A row is written and becomes the active agent: only its pending row would
\* matter, and no call writes one again.
LEMMA SaveStep ==
    ASSUME IInv, NEW id \in Ids, NEW kind \in {"my", "friend"}, NEW k \in Keys,
           kind = "my" => k \in OwnKeys, \A j : id # Pending(j),
           Save(id, kind, k), Activate(id, kind, k)
    PROVE  /\ agents' \in [Ids -> Rows]
           /\ active' \in [id : Ids, kind : {"none", "my", "friend"}, key : Keys \union {NoKey}]
           /\ PendingSame
           /\ ActiveKept'
<1>1. /\ agents' \in [Ids -> Rows]
      /\ agents'[id].kind = kind /\ agents'[id].key = k
      /\ \A i \in Ids \ {id} : agents'[i] = agents[i]
  BY SaveEffect DEF IInv
<1>2. active' = [id |-> id, kind |-> kind, key |-> k]
  BY DEF Activate
<1>3. PendingSame
  BY <1>1, IdsDiffer DEF PendingSame, Same
<1>4. ActiveKept'
  BY <1>1, <1>2 DEF ActiveKept, Present
<1>5. QED
  BY <1>1, <1>2, <1>3, <1>4

LEMMA StoreAccountStep ==
    ASSUME IInv, NEW t \in Tasks, task[t].pc \in {"register", "lookup"}, StoreAccount(t)
    PROVE  /\ agents' \in [Ids -> Rows]
           /\ active' \in [id : Ids, kind : {"none", "my", "friend"}, key : Keys \union {NoKey}]
           /\ PendingSame
           /\ ActiveKept'
<1>1. task[t].key \in OwnKeys /\ task[t].key \in Keys
  BY DEF IInv, TaskKeys, Own, Keys
<1>2. Account(task[t].key) \in Ids /\ \A j : Account(task[t].key) # Pending(j)
  BY <1>1, IdsDiffer
<1>3. QED
  BY <1>1, <1>2, SaveStep DEF StoreAccount

\* Nothing changes in the table but the marks, and the active agent stays.
LEMMA ActiveStays ==
    ASSUME IInv, UNCHANGED active, \A i \in Ids : Same(i)
    PROVE  ActiveKept'
BY DEF IInv, TypeOK, ActiveKept, Same, Present

LEMMA RegisterInv ==
    ASSUME IInv, NEW t \in Tasks, Register(t)
    PROVE  IInv'
<1>1. task[t].pc = "register" /\ task[t].key \in OwnKeys
  BY DEF Register, IInv, TaskKeys, Own
<1>2. /\ task' \in [Tasks -> [pc : {"idle", "register", "lookup", "login", "friend", "start"},
                               key : Keys \union {NoKey}]]
      /\ TaskKeys'
      /\ GoesOn
  BY <1>1, TaskStep DEF Register, StoreAccount, Busy
<1>3. /\ agents' \in [Ids -> Rows]
      /\ active' \in [id : Ids, kind : {"none", "my", "friend"}, key : Keys \union {NoKey}]
      /\ PendingSame
      /\ ActiveKept'
  <2>1. CASE StoreAccount(t)
    BY <1>1, <2>1, StoreAccountStep
  <2>2. CASE UNCHANGED <<agents, active>>
    BY <2>2, ActiveStays DEF IInv, TypeOK, PendingSame, Same
  <2>3. QED
    BY <2>1, <2>2 DEF Register
<1>4. registered' \subseteq OwnKeys /\ registered' \subseteq registered \union {task[t].key}
  BY <1>1 DEF Register, IInv, TypeOK
<1>5. PendingKept'
  BY <1>1, <1>2, <1>3, <1>4, PendingStep
<1>6. TypeOK'
  BY <1>2, <1>3, <1>4 DEF Register, IInv, TypeOK, modes
<1>7. QED
  BY <1>2, <1>3, <1>5, <1>6 DEF IInv

LEMMA LookupInv ==
    ASSUME IInv, NEW t \in Tasks, Lookup(t)
    PROVE  IInv'
<1>1. task[t].pc = "lookup" /\ task[t].key \in OwnKeys /\ registered' = registered
  BY DEF Lookup, IInv, TaskKeys, Own
<1>2. /\ task' \in [Tasks -> [pc : {"idle", "register", "lookup", "login", "friend", "start"},
                               key : Keys \union {NoKey}]]
      /\ TaskKeys'
      /\ GoesOn
  BY <1>1, TaskStep DEF Lookup, StoreAccount, Busy
<1>3. /\ agents' \in [Ids -> Rows]
      /\ active' \in [id : Ids, kind : {"none", "my", "friend"}, key : Keys \union {NoKey}]
      /\ PendingSame
      /\ ActiveKept'
  <2>1. CASE StoreAccount(t)
    BY <1>1, <2>1, StoreAccountStep
  <2>2. CASE Activate(Pending(task[t].key), "my", task[t].key) /\ UNCHANGED agents
    <3>1. HasPending(agents, task[t].key)
      BY <1>1 DEF IInv, PendingKept
    <3>2. active' = [id |-> Pending(task[t].key), kind |-> "my", key |-> task[t].key]
      BY <2>2 DEF Activate
    <3>3. QED
      BY <1>1, <2>2, <3>1, <3>2, IdsDiffer
      DEF HasPending, IInv, TypeOK, PendingSame, Same, ActiveKept, Present, Keys
  <2>3. CASE UNCHANGED <<agents, active>>
    BY <2>3, ActiveStays DEF IInv, TypeOK, PendingSame, Same
  <2>4. QED
    BY <2>1, <2>2, <2>3 DEF Lookup
<1>4. PendingKept'
  BY <1>1, <1>2, <1>3, PendingStep DEF IInv, TypeOK
<1>5. TypeOK'
  BY <1>2, <1>3 DEF Lookup, IInv, TypeOK, modes
<1>6. QED
  BY <1>2, <1>3, <1>4, <1>5 DEF IInv

LEMMA LoginInv ==
    ASSUME IInv, NEW t \in Tasks, Login(t)
    PROVE  IInv'
<1>1. task[t].key \in OwnKeys /\ UNCHANGED <<agents, active, registered>> /\ Ends(t)
  BY DEF Login, IInv, TaskKeys, Own
<1>2. /\ task' \in [Tasks -> [pc : {"idle", "register", "lookup", "login", "friend", "start"},
                               key : Keys \union {NoKey}]]
      /\ TaskKeys'
      /\ GoesOn
  BY <1>1, TaskStep
<1>3. PendingSame /\ ActiveKept'
  BY <1>1, ActiveStays DEF PendingSame, Same
<1>4. PendingKept'
  BY <1>1, <1>2, <1>3, PendingStep DEF IInv, TypeOK
<1>5. TypeOK'
  BY <1>1, <1>2 DEF Login, IInv, TypeOK, modes
<1>6. QED
  BY <1>2, <1>3, <1>4, <1>5 DEF IInv

LEMMA CreateFriendInv ==
    ASSUME IInv, NEW t \in Tasks, CreateFriend(t)
    PROVE  IInv'
<1>1. PICK k \in Keys : Goes(t, "friend", k)
  BY DEF CreateFriend
<1>2. /\ task' = [task EXCEPT ![t] = [pc |-> "friend", key |-> k]]
      /\ UNCHANGED <<agents, active, token, registered, modes, greeted>>
  BY <1>1 DEF CreateFriend, Goes
<1>3. TypeOK'
  BY <1>2 DEF IInv, TypeOK, modes
<1>4. TaskKeys' /\ GoesOn
  BY <1>2 DEF IInv, TypeOK, TaskKeys, GoesOn, Busy, Own
<1>5. PendingSame /\ ActiveKept'
  BY <1>2, ActiveStays DEF PendingSame, Same
<1>6. PendingKept'
  BY <1>2, <1>4, <1>5, PendingStep DEF IInv, TypeOK
<1>7. QED
  BY <1>3, <1>4, <1>5, <1>6 DEF IInv

LEMMA FriendFoundInv ==
    ASSUME IInv, NEW t \in Tasks, FriendFound(t)
    PROVE  IInv'
<1>1. task[t].key \in Keys /\ UNCHANGED <<token, registered, modes, greeted>> /\ Ends(t)
  BY DEF FriendFound, IInv, TaskKeys
<1>2. /\ task' \in [Tasks -> [pc : {"idle", "register", "lookup", "login", "friend", "start"},
                               key : Keys \union {NoKey}]]
      /\ TaskKeys'
      /\ GoesOn
  BY <1>1, TaskStep
<1>3. /\ agents' \in [Ids -> Rows]
      /\ active' \in [id : Ids, kind : {"none", "my", "friend"}, key : Keys \union {NoKey}]
      /\ PendingSame
      /\ ActiveKept'
  <2>1. ASSUME NEW id \in Ids, \A j : id # Pending(j), Befriend(t, id)
        PROVE  /\ agents' \in [Ids -> Rows]
               /\ active' \in [id : Ids, kind : {"none", "my", "friend"}, key : Keys \union {NoKey}]
               /\ PendingSame
               /\ ActiveKept'
    BY <1>1, <2>1, SaveStep DEF Befriend
  <2>2. CASE UNCHANGED <<agents, active>>
    BY <2>2, ActiveStays DEF IInv, TypeOK, PendingSame, Same
  <2>3. CASE Befriend(t, IF nested THEN NoId ELSE Account(task[t].key))
    BY <1>1, <2>1, <2>3, IdsDiffer
  <2>4. CASE Befriend(t, Prefix(task[t].key))
    BY <1>1, <2>1, <2>4, IdsDiffer
  <2>5. QED
    BY <2>2, <2>3, <2>4 DEF FriendFound
<1>4. PendingKept'
  BY <1>1, <1>2, <1>3, PendingStep DEF IInv, TypeOK
<1>5. TypeOK'
  BY <1>1, <1>2, <1>3 DEF IInv, TypeOK, modes
<1>6. QED
  BY <1>2, <1>3, <1>4, <1>5 DEF IInv

\* Both kinds of switch: the table keeps every row but its mark.
LEMMA SwitchInv ==
    ASSUME IInv, NEW id \in Ids, Switch(id) \/ CliSwitch(id)
    PROVE  IInv'
<1>1. /\ SetCurrent(id) /\ UNCHANGED <<token, registered, task, modes, greeted>>
      /\ Activate(id, agents[id].kind, agents[id].key) \/ UNCHANGED active
  BY DEF Switch, CliSwitch
<1>2. agents' \in [Ids -> Rows] /\ \A i \in Ids : Same(i)
  BY <1>1, SetCurrentEffect DEF IInv, Same
<1>3. /\ active' \in [id : Ids, kind : {"none", "my", "friend"}, key : Keys \union {NoKey}]
      /\ ActiveKept'
  <2>1. CASE Activate(id, agents[id].kind, agents[id].key)
    <3>1. agents[id] \in Rows /\ agents[id].kind # "none"
      BY <1>1 DEF SetCurrent, Present, IInv, TypeOK
    <3>2. agents[id].kind \in {"my", "friend"} /\ agents[id].key \in Keys
      BY <3>1 DEF Rows, Absent, Keys
    <3>3. active' = [id |-> id, kind |-> agents[id].kind, key |-> agents[id].key]
      BY <2>1 DEF Activate
    <3>4. QED
      BY <1>2, <3>2, <3>3 DEF ActiveKept, Same, Present
  <2>2. CASE UNCHANGED active
    BY <1>2, <2>2, ActiveStays DEF IInv, TypeOK
  <2>3. QED
    BY <1>1, <2>1, <2>2
<1>4. PendingSame /\ GoesOn
  BY <1>1, <1>2, IdsDiffer DEF PendingSame, GoesOn
<1>5. PendingKept' /\ TaskKeys'
  BY <1>1, <1>4, PendingStep DEF IInv, TypeOK, TaskKeys
<1>6. TypeOK'
  BY <1>1, <1>2, <1>3 DEF IInv, TypeOK, modes
<1>7. QED
  BY <1>3, <1>5, <1>6 DEF IInv

LEMMA CrashInv ==
    ASSUME IInv, Crash
    PROVE  IInv'
<1>1. UNCHANGED <<agents, registered, modes>> /\ active' = NoAgent /\ greeted' = NoId /\ token' = NoKey
  BY DEF Crash
<1>2. task' = [t \in Tasks |-> Idle]
  BY DEF Crash
<1>3. TypeOK'
  BY <1>1, <1>2, IdsDiffer DEF IInv, TypeOK, NoAgent, Idle, modes
<1>4. TaskKeys' /\ GoesOn
  BY <1>2 DEF TaskKeys, GoesOn, Idle, Own, Busy
<1>5. PendingSame /\ ActiveKept'
  BY <1>1 DEF PendingSame, Same, ActiveKept
<1>6. PendingKept'
  BY <1>1, <1>4, <1>5, PendingStep DEF IInv, TypeOK
<1>7. QED
  BY <1>3, <1>4, <1>5, <1>6 DEF IInv

LEMMA StartInv ==
    ASSUME IInv, NEW t \in Tasks, Start(t)
    PROVE  IInv'
<1>1. PICK id \in Ids : /\ agents[id].kind = "my"
                        /\ Activate(id, "my", agents[id].key)
                        /\ Goes(t, "start", agents[id].key)
  BY DEF Start
<1>2. agents[id].key \in OwnKeys
  BY <1>1 DEF IInv, TypeOK, Rows, Absent
<1>3. /\ active' = [id |-> id, kind |-> "my", key |-> agents[id].key]
      /\ task' = [task EXCEPT ![t] = [pc |-> "start", key |-> agents[id].key]]
      /\ UNCHANGED <<agents, token, registered, modes, greeted>>
  BY <1>1 DEF Start, Activate, Goes
<1>4. TypeOK'
  BY <1>2, <1>3 DEF IInv, TypeOK, modes, Keys
<1>5. TaskKeys' /\ GoesOn
  BY <1>2, <1>3 DEF IInv, TypeOK, TaskKeys, GoesOn, Own, Busy
<1>6. PendingSame /\ ActiveKept'
  BY <1>1, <1>3 DEF PendingSame, Same, ActiveKept, Present
<1>7. PendingKept'
  BY <1>3, <1>5, <1>6, PendingStep DEF IInv, TypeOK
<1>8. QED
  BY <1>4, <1>5, <1>6, <1>7 DEF IInv

LEMMA StartedInv ==
    ASSUME IInv, NEW t \in Tasks, Started(t)
    PROVE  IInv'
<1>1. /\ task[t].key \in OwnKeys /\ UNCHANGED <<agents, registered, modes>> /\ Ends(t)
      /\ UNCHANGED active \/ active' = NoAgent
  BY DEF Started, IInv, TaskKeys, Own
<1>2. /\ task' \in [Tasks -> [pc : {"idle", "register", "lookup", "login", "friend", "start"},
                               key : Keys \union {NoKey}]]
      /\ TaskKeys'
      /\ GoesOn
  BY <1>1, TaskStep
<1>3. token' \in OwnKeys \union {NoKey} /\ greeted' \in Ids
  BY <1>1 DEF Started, IInv, TypeOK
<1>4. active' \in [id : Ids, kind : {"none", "my", "friend"}, key : Keys \union {NoKey}]
  BY <1>1, IdsDiffer DEF IInv, TypeOK, NoAgent
<1>5. PendingSame /\ ActiveKept'
  BY <1>1, ActiveStays DEF PendingSame, Same, ActiveKept
<1>6. PendingKept'
  BY <1>1, <1>2, <1>5, PendingStep DEF IInv, TypeOK
<1>7. TypeOK'
  BY <1>1, <1>2, <1>3, <1>4 DEF IInv, TypeOK, modes
<1>8. QED
  BY <1>2, <1>5, <1>6, <1>7 DEF IInv

LEMMA StepInv == IInv /\ [Next]_vars => IInv'
<1> SUFFICES ASSUME IInv, [Next]_vars PROVE IInv'
  OBVIOUS
<1>1. CASE UNCHANGED vars
  BY <1>1 DEF IInv, TypeOK, TaskKeys, PendingKept, ActiveKept, HasPending, Present, vars, modes
<1>2. CASE Crash
  BY <1>2, CrashInv
<1>3. ASSUME NEW id \in Ids, Switch(id) \/ CliSwitch(id) PROVE IInv'
  BY <1>3, SwitchInv
<1>4. ASSUME NEW t \in Tasks,
             \/ CreateMine(t) \/ Register(t) \/ Lookup(t) \/ Login(t)
             \/ CreateFriend(t) \/ FriendFound(t) \/ Start(t) \/ Started(t)
      PROVE  IInv'
  BY <1>4, CreateMineInv, RegisterInv, LookupInv, LoginInv, CreateFriendInv,
     FriendFoundInv, StartInv, StartedInv
<1>5. QED
  BY <1>1, <1>2, <1>3, <1>4 DEF Next

\* Every behaviour satisfies the invariant that the three theorems rest on.
THEOREM IdentityInvariant == Spec => []IInv
<1>1. Init => IInv
  BY InitInv
<1>2. IInv /\ [Next]_vars => IInv'
  BY StepInv
<1>3. QED
  BY <1>1, <1>2, PTL DEF Spec

\* Every variable keeps its type, and the task records and rows their shape.
THEOREM Types == Spec => []TypeOK
BY IdentityInvariant, PTL DEF IInv

\* save_agent, create_my_agent: no registered key loses its secret, for any
\* number of concurrent calls, lost answers, crashes and friends.
THEOREM RegisteredKeysSurvive == Spec => []KeysSurvive
<1>1. IInv => KeysSurvive
  <2> SUFFICES ASSUME IInv, NEW k \in registered
               PROVE  \E id \in Ids : agents[id].kind = "my" /\ agents[id].key = k
    BY DEF KeysSurvive
  <2>1. HasPending(agents, k) /\ Pending(k) \in Ids
    BY IdsDiffer DEF IInv, PendingKept, TypeOK
  <2>2. QED
    BY <2>1 DEF HasPending
<1>2. QED
  BY <1>1, IdentityInvariant, PTL

\* self._agent is always a copy of a row of the table.
THEOREM ActiveAgentIsStored == Spec => []ActiveIsStored
<1>1. IInv => ActiveIsStored
  BY DEF IInv, ActiveKept, ActiveIsStored
<1>2. QED
  BY <1>1, IdentityInvariant, PTL

-----------------------------------------------------------------------------
\* save_agent marks a row only when there was none.
LEMMA SaveMarks ==
    ASSUME TypeOK, AtMostOneCurrent, NEW id \in Ids, NEW kind, NEW k, Save(id, kind, k)
    PROVE  AtMostOneCurrent'
<1>1. \A i \in Ids : agents'[i] = IF i = id THEN [kind |-> kind, key |-> k, cur |-> Empty]
                                  ELSE agents[i]
  BY DEF Save, TypeOK
<1>2. CASE Empty
  <2>1. \A i \in Ids : agents[i] = Absent
    BY <1>2 DEF Empty, Present, TypeOK, Rows
  <2>2. \A i \in Ids \ {id} : ~agents'[i].cur
    BY <1>1, <2>1 DEF Absent
  <2>3. QED
    BY <2>2 DEF AtMostOneCurrent
<1>3. CASE ~Empty
  <2>1. \A i \in Ids : agents'[i].cur => agents[i].cur
    BY <1>1, <1>3
  <2>2. QED
    BY <2>1 DEF AtMostOneCurrent
<1>4. QED
  BY <1>2, <1>3

\* Every step writes a row, moves the mark, or leaves the table.
LEMMA TableSteps ==
    ASSUME TaskKeys, [Next]_vars
    PROVE  \/ \E id \in Ids, kind \in {"my", "friend"}, k \in Keys : Save(id, kind, k)
           \/ \E id \in Ids : SetCurrent(id)
           \/ UNCHANGED agents
<1>1. ASSUME NEW t \in Tasks, task[t].pc \in {"register", "lookup"}, StoreAccount(t)
      PROVE  \E id \in Ids, kind \in {"my", "friend"}, k \in Keys : Save(id, kind, k)
  <2>1. Account(task[t].key) \in Ids /\ task[t].key \in Keys
    BY <1>1, IdsDiffer DEF TaskKeys, Own, Keys
  <2>2. QED
    BY <1>1, <2>1 DEF StoreAccount
<1>2. ASSUME NEW t \in Tasks, FriendFound(t)
      PROVE  \/ \E id \in Ids, kind \in {"my", "friend"}, k \in Keys : Save(id, kind, k)
             \/ UNCHANGED agents
  <2>1. /\ Prefix(task[t].key) \in Ids
        /\ (IF nested THEN NoId ELSE Account(task[t].key)) \in Ids
        /\ task[t].key \in Keys
    BY <1>2, IdsDiffer DEF FriendFound, TaskKeys
  <2>2. QED
    BY <1>2, <2>1 DEF FriendFound, Befriend
<1>3. ASSUME NEW t \in Tasks, CreateMine(t)
      PROVE  \E id \in Ids, kind \in {"my", "friend"}, k \in Keys : Save(id, kind, k)
  BY <1>3, IdsDiffer DEF CreateMine, Keys
<1>4. ASSUME NEW t \in Tasks, Register(t) \/ Lookup(t)
      PROVE  \/ task[t].pc \in {"register", "lookup"} /\ StoreAccount(t)
             \/ UNCHANGED agents
  BY <1>4 DEF Register, Lookup
<1>5. ASSUME NEW t \in Tasks, Login(t) \/ CreateFriend(t) \/ Start(t) \/ Started(t)
      PROVE  UNCHANGED agents
  BY <1>5 DEF Login, CreateFriend, Start, Started
<1>6. ASSUME NEW id \in Ids, Switch(id) \/ CliSwitch(id)
      PROVE  SetCurrent(id)
  BY <1>6 DEF Switch, CliSwitch
<1>7. Crash \/ UNCHANGED vars => UNCHANGED agents
  BY DEF Crash, vars
<1>8. QED
  BY <1>1, <1>2, <1>3, <1>4, <1>5, <1>6, <1>7 DEF Next

\* set_current, save_agent: the table never has two current rows.
THEOREM OneCurrentAgent == Spec => []AtMostOneCurrent
<1>1. Init => AtMostOneCurrent
  BY DEF Init, AtMostOneCurrent, Absent
<1>2. IInv /\ AtMostOneCurrent /\ [Next]_vars => AtMostOneCurrent'
  <2> SUFFICES ASSUME IInv, AtMostOneCurrent, [Next]_vars PROVE AtMostOneCurrent'
    OBVIOUS
  <2>1. ASSUME NEW id \in Ids, NEW kind \in {"my", "friend"}, NEW k, Save(id, kind, k)
        PROVE  AtMostOneCurrent'
    BY <2>1, SaveMarks DEF IInv
  <2>2. ASSUME NEW id \in Ids, SetCurrent(id) PROVE AtMostOneCurrent'
    BY <2>2, SetCurrentEffect DEF IInv, AtMostOneCurrent
  <2>3. UNCHANGED agents => AtMostOneCurrent'
    BY DEF AtMostOneCurrent
  <2>4. QED
    BY <2>1, <2>2, <2>3, TableSteps DEF IInv
<1>3. QED
  BY <1>1, <1>2, IdentityInvariant, PTL DEF Spec

-----------------------------------------------------------------------------
\* With one call at a time, the agent that a call made active stays so until its
\* login is over.
SerialInv ==
    serial => /\ \A t, u \in Tasks : task[t] # Idle /\ task[u] # Idle => t = u
              /\ ReturnsOwn

LEMMA SerialStep ==
    ASSUME IInv, SerialInv, [Next]_vars
    PROVE  SerialInv'
<1> USE DEF SerialInv, ReturnsOwn, IInv, TypeOK, modes, Goes, Ends, Idle
<1>1. ASSUME NEW t \in Tasks, CreateMine(t) \/ CreateFriend(t) PROVE SerialInv'
  <2>1. serial => \A u \in Tasks : task[u] = Idle
    BY <1>1 DEF CreateMine, CreateFriend, MayBegin, AllIdle
  <2>2. PICK pc \in {"register", "friend"}, k \in Keys : Goes(t, pc, k)
    BY <1>1 DEF CreateMine, CreateFriend, Keys
  <2>3. UNCHANGED <<serial, active>>
    BY <1>1 DEF CreateMine, CreateFriend
  <2>4. QED
    BY <2>1, <2>2, <2>3
<1>2. ASSUME NEW t \in Tasks, Register(t) PROVE SerialInv'
  BY <1>2 DEF Register, StoreAccount, Activate
<1>3. ASSUME NEW t \in Tasks, Lookup(t) PROVE SerialInv'
  BY <1>3 DEF Lookup, StoreAccount, Activate
<1>4. ASSUME NEW t \in Tasks, Login(t) PROVE SerialInv'
  BY <1>4 DEF Login
<1>5. ASSUME NEW t \in Tasks, FriendFound(t) PROVE SerialInv'
  BY <1>5 DEF FriendFound
<1>6. ASSUME NEW t \in Tasks, Start(t) PROVE SerialInv'
  BY <1>6 DEF Start, AllIdle
<1>7. ASSUME NEW t \in Tasks, Started(t) PROVE SerialInv'
  BY <1>7 DEF Started
<1>8. ASSUME NEW id \in Ids, Switch(id) PROVE SerialInv'
  BY <1>8 DEF Switch, AllIdle
<1>9. ASSUME NEW id \in Ids, CliSwitch(id) PROVE SerialInv'
  BY <1>9 DEF CliSwitch
<1>10. ASSUME Crash PROVE SerialInv'
  BY <1>10 DEF Crash
<1>11. ASSUME UNCHANGED vars PROVE SerialInv'
  BY <1>11 DEF vars
<1>12. QED
  BY <1>1, <1>2, <1>3, <1>4, <1>5, <1>6, <1>7, <1>8, <1>9, <1>10, <1>11 DEF Next

\* create_my_agent returns the agent that it made, if calls come one at a time.
THEOREM CreatedIsReturned == Spec => []ReturnsOwn
<1>1. Init => SerialInv
  BY DEF Init, SerialInv, ReturnsOwn, Idle
<1>2. SerialInv => ReturnsOwn
  BY DEF SerialInv, ReturnsOwn
<1>3. QED
  BY <1>1, <1>2, SerialStep, IdentityInvariant, PTL DEF Spec

-----------------------------------------------------------------------------
\* What a careful user's calls will write is not there yet, and no two of them will
\* write the same row: so that no row which is current is ever replaced.
Registers(t) == task[t].pc \in {"register", "lookup"}
Befriends(t) == task[t].pc = "friend"
AccountFree == \A t \in Tasks : Registers(t) => ~Present(Account(task[t].key))
KeysApart ==
    \A t, u \in Tasks :
        t # u /\ ((Registers(t) /\ Registers(u)) \/ (Befriends(t) /\ Befriends(u)))
            => task[t].key # task[u].key
FriendsNew ==
    \A t \in Tasks : Befriends(t) =>
        task[t].key \in FriendKeys /\ \A id \in Ids : agents[id].key # task[t].key
\* An account row is as old as its pending row, and rows hold the key of their id.
RowsNamed ==
    /\ \A k \in OwnKeys : Present(Account(k)) => Present(Pending(k))
    /\ \A k \in Keys : /\ Present(Account(k)) => agents[Account(k)].key = k
                       /\ Present(Prefix(k)) => agents[Prefix(k)].key = k
Marked == Empty \/ \E id \in Ids : agents[id].cur
Tidy == AccountFree /\ KeysApart /\ FriendsNew /\ RowsNamed /\ Marked
FreshInv == careful /\ ~nested => Tidy

\* A write to a row that was not there marks one, or keeps the mark.
LEMMA SaveKeepsMark ==
    ASSUME TypeOK, NEW id \in Ids, NEW kind \in {"my", "friend"}, NEW k, Save(id, kind, k),
           ~Present(id), Empty \/ \E i \in Ids : agents[i].cur
    PROVE  \E i \in Ids : agents'[i].cur
<1>1. \A i \in Ids : agents'[i] = IF i = id THEN [kind |-> kind, key |-> k, cur |-> Empty]
                                  ELSE agents[i]
  BY DEF Save, TypeOK
<1>2. CASE Empty
  BY <1>1, <1>2
<1>3. CASE \E i \in Ids : agents[i].cur
  <2>1. PICK i \in Ids : agents[i].cur
    BY <1>3
  <2>2. agents[i].kind # "none"
    BY <2>1 DEF TypeOK, Rows, Absent
  <2>3. QED
    BY <1>1, <2>1, <2>2 DEF Present
<1>4. QED
  BY <1>2, <1>3

LEMMA AccountsDiffer ==
    /\ \A k, j : Account(k) = Account(j) => k = j
    /\ \A k, j : Prefix(k) = Prefix(j) => k = j
    /\ \A k, j : Account(k) # Prefix(j)
<1>1. ASSUME NEW k, NEW j
      PROVE  /\ Account(k) = Account(j) => k = j
             /\ Prefix(k) = Prefix(j) => k = j
             /\ Account(k) # Prefix(j)
  <2>1. /\ Account(k)[1] = "account" /\ Account(k)[2] = k /\ Account(j)[2] = j
        /\ Prefix(k)[2] = k /\ Prefix(j)[2] = j /\ Prefix(j)[1] = "prefix"
    BY DEF Account, Prefix
  <2>2. QED
    BY <2>1
<1>2. QED
  BY <1>1

\* Calls that end or go on, and rows that keep what they hold, keep the rest.
Steady(u) == /\ Registers(u)' => Registers(u) /\ task'[u].key = task[u].key
             /\ Befriends(u)' => Befriends(u) /\ task'[u].key = task[u].key

LEMMA SteadyStep ==
    ASSUME IInv, Tidy, \A u \in Tasks : Steady(u), \A i \in Ids : Same(i), Marked'
    PROVE  Tidy'
<1>1. \A i \in Ids : (Present(i)' <=> Present(i)) /\ agents'[i].key = agents[i].key
  BY DEF Same, Present
<1>2. \A u \in Tasks : Registers(u) => task[u].key \in Keys
  BY DEF IInv, TaskKeys, Registers, Own, Keys
<1>3. AccountFree' /\ KeysApart'
  BY <1>1, <1>2, IdsDiffer DEF Tidy, AccountFree, KeysApart, Steady
<1>4. FriendsNew'
  BY <1>1 DEF Tidy, FriendsNew, Steady
<1>5. RowsNamed'
  BY <1>1, IdsDiffer DEF Tidy, RowsNamed, Keys
<1>6. QED
  BY <1>3, <1>4, <1>5 DEF Tidy

\* A write to a row of a careful user.
LEMMA CreateMineTidy ==
    ASSUME IInv, Tidy, NEW t \in Tasks, CreateMine(t)
    PROVE  Tidy'
<1>1. PICK k \in OwnKeys : /\ ~Present(Pending(k)) /\ Save(Pending(k), "my", k)
                           /\ Goes(t, "register", k)
  BY DEF CreateMine
<1>2. k \in Keys /\ Pending(k) \in Ids /\ k \notin FriendKeys
  BY IdsDiffer, IdentityAssumption DEF Keys
<1>3. /\ agents'[Pending(k)].kind = "my" /\ agents'[Pending(k)].key = k
      /\ \A i \in Ids \ {Pending(k)} : agents'[i] = agents[i]
  BY <1>1, <1>2, SaveEffect DEF IInv
<1>4. task' = [task EXCEPT ![t] = [pc |-> "register", key |-> k]]
  BY <1>1 DEF Goes
<1>5. \A u \in Tasks \ {t} : task'[u] = task[u]
  BY <1>4
<1>6. task'[t].pc = "register" /\ task'[t].key = k
  BY <1>4 DEF IInv, TypeOK
<1>7. \A u \in Tasks : Registers(u) => task[u].key \in Keys /\ task[u].key # k
  BY <1>1 DEF IInv, PendingKept, HasPending, Registers, TaskKeys, Own, Keys, Present
<1>8. \A j \in Keys : agents'[Account(j)] = agents[Account(j)] /\ agents'[Prefix(j)] = agents[Prefix(j)]
  BY <1>3, IdsDiffer
<1>9. AccountFree'
  <2>1. ~Present(Account(k))'
    BY <1>1, <1>2, <1>8 DEF Tidy, RowsNamed, Present
  <2>2. ASSUME NEW u \in Tasks \ {t}, Registers(u)' PROVE (~Present(Account(task[u].key)))'
    BY <1>5, <1>7, <1>8, <2>2 DEF Tidy, AccountFree, Registers, Present
  <2>3. QED
    BY <1>6, <2>1, <2>2 DEF AccountFree
<1>10. KeysApart'
  BY <1>5, <1>6, <1>7 DEF Tidy, KeysApart, Registers, Befriends
<1>11. FriendsNew'
  BY <1>2, <1>3, <1>5, <1>6 DEF Tidy, FriendsNew, Befriends
<1>12. RowsNamed'
  BY <1>3, <1>8, IdsDiffer DEF Tidy, RowsNamed, Present, Keys
<1>13. Marked'
  BY <1>1, <1>2, SaveKeepsMark DEF Tidy, Marked, IInv
<1>14. QED
  BY <1>9, <1>10, <1>11, <1>12, <1>13 DEF Tidy

LEMMA StoreAccountTidy ==
    ASSUME IInv, Tidy, NEW t \in Tasks, Registers(t), StoreAccount(t)
    PROVE  Tidy'
<1> DEFINE k == task[t].key
<1>1. k \in OwnKeys /\ k \in Keys /\ k \notin FriendKeys /\ HasPending(agents, k)
  BY IdentityAssumption DEF IInv, TaskKeys, PendingKept, Registers, Own, Keys
<1>2. Account(k) \in Ids /\ ~Present(Account(k)) /\ Save(Account(k), "my", k)
  BY <1>1, IdsDiffer DEF Tidy, AccountFree, StoreAccount
<1>3. /\ agents'[Account(k)].kind = "my" /\ agents'[Account(k)].key = k
      /\ \A i \in Ids \ {Account(k)} : agents'[i] = agents[i]
  BY <1>1, <1>2, SaveEffect DEF IInv
<1>4. task' = [task EXCEPT ![t] = [pc |-> "login", key |-> k]]
  BY DEF StoreAccount, Goes
<1>5. ~Registers(t)' /\ ~Befriends(t)' /\ \A u \in Tasks \ {t} : task'[u] = task[u]
  BY <1>4 DEF IInv, TypeOK, Registers, Befriends
<1> HIDE DEF k
<1>6. \A u \in Tasks : Registers(u) => task[u].key \in Keys /\ (u # t => task[u].key # k)
  BY <1>1 DEF Tidy, KeysApart, IInv, TaskKeys, Registers, Own, Keys, k
<1>7. /\ \A j \in Keys : /\ j # k => agents'[Account(j)] = agents[Account(j)]
                         /\ agents'[Prefix(j)] = agents[Prefix(j)]
      /\ \A j \in OwnKeys : agents'[Pending(j)] = agents[Pending(j)]
  BY <1>3, IdsDiffer, AccountsDiffer
<1>8. AccountFree'
  BY <1>5, <1>6, <1>7 DEF Tidy, AccountFree, Registers, Present
<1>9. KeysApart'
  BY <1>5 DEF Tidy, KeysApart, Registers, Befriends
<1>10. FriendsNew'
  BY <1>1, <1>3, <1>5 DEF Tidy, FriendsNew, Befriends
<1>11. RowsNamed'
  BY <1>1, <1>3, <1>7 DEF Tidy, RowsNamed, Present, HasPending, Keys
<1>12. Marked'
  BY <1>1, <1>2, SaveKeepsMark DEF Tidy, Marked, IInv
<1>13. QED
  BY <1>8, <1>9, <1>10, <1>11, <1>12 DEF Tidy

LEMMA BefriendTidy ==
    ASSUME IInv, Tidy, NEW t \in Tasks, Befriends(t), Ends(t),
           NEW id \in {Account(task[t].key), Prefix(task[t].key)}, Befriend(t, id)
    PROVE  Tidy'
<1> DEFINE k == task[t].key
<1>1. k \in FriendKeys /\ k \in Keys /\ k \notin OwnKeys
  BY IdentityAssumption DEF Tidy, FriendsNew, Keys
<1>2. id \in Ids /\ ~Present(id) /\ Save(id, "friend", k)
  BY <1>1, IdsDiffer DEF Tidy, FriendsNew, RowsNamed, Befriend
<1>3. /\ agents'[id].kind = "friend" /\ agents'[id].key = k
      /\ \A i \in Ids \ {id} : agents'[i] = agents[i]
  BY <1>1, <1>2, SaveEffect DEF IInv
<1>4. ~Registers(t)' /\ ~Befriends(t)' /\ \A u \in Tasks \ {t} : task'[u] = task[u]
  BY DEF Ends, Idle, IInv, TypeOK, Registers, Befriends
<1>5. \A u \in Tasks : /\ Registers(u) => task[u].key \in OwnKeys
                       /\ Befriends(u) /\ u # t => task[u].key # k
  BY DEF Tidy, KeysApart, IInv, TaskKeys, Registers, Own
<1> HIDE DEF k
<1>6. id \in {Account(k), Prefix(k)}
  BY DEF k
<1>7. /\ \A j \in Keys : j # k => /\ agents'[Account(j)] = agents[Account(j)]
                                  /\ agents'[Prefix(j)] = agents[Prefix(j)]
      /\ \A j \in OwnKeys : agents'[Pending(j)] = agents[Pending(j)]
  BY <1>3, <1>6, IdsDiffer, AccountsDiffer
<1>8. AccountFree'
  BY <1>1, <1>4, <1>5, <1>7 DEF Tidy, AccountFree, Registers, Present, Keys
<1>9. KeysApart'
  BY <1>4 DEF Tidy, KeysApart, Registers, Befriends
<1>10. FriendsNew'
  BY <1>3, <1>4, <1>5 DEF Tidy, FriendsNew, Befriends
<1>11. RowsNamed'
  <2>1. \A j \in Keys : /\ Present(Account(j))' => agents'[Account(j)].key = j
                        /\ Present(Prefix(j))' => agents'[Prefix(j)].key = j
    <3>1. ASSUME NEW i \in {Account(k), Prefix(k)}
          PROVE  Present(i)' => agents'[i].key = k
      <4>1. i \in Ids
        BY <1>1, IdsDiffer
      <4>2. Present(i) => agents[i].key = k
        BY <1>1 DEF Tidy, RowsNamed
      <4>3. QED
        BY <1>3, <4>1, <4>2 DEF Present
    <3>2. QED
      BY <1>7, <3>1 DEF Tidy, RowsNamed, Present
  <2>2. \A j \in OwnKeys : Present(Account(j))' => Present(Pending(j))'
    BY <1>1, <1>7 DEF Tidy, RowsNamed, Present, Keys
  <2>3. QED
    BY <2>1, <2>2 DEF RowsNamed
<1>12. Marked'
  BY <1>1, <1>2, SaveKeepsMark DEF Tidy, Marked, IInv
<1>13. QED
  BY <1>8, <1>9, <1>10, <1>11, <1>12 DEF Tidy

LEMMA CreateFriendTidy ==
    ASSUME IInv, Tidy, careful, NEW t \in Tasks, CreateFriend(t)
    PROVE  Tidy'
<1>1. PICK k \in FriendKeys : /\ \A i \in Ids : agents[i].key # k
                              /\ \A u \in Tasks : task[u].key # k
                              /\ Goes(t, "friend", k)
  BY DEF CreateFriend
<1>2. UNCHANGED agents
  BY DEF CreateFriend
<1>3. /\ task'[t].pc = "friend" /\ task'[t].key = k
      /\ \A u \in Tasks \ {t} : task'[u] = task[u]
  BY <1>1 DEF Goes, IInv, TypeOK
<1>4. AccountFree' /\ RowsNamed' /\ Marked'
  BY <1>2, <1>3 DEF Tidy, AccountFree, RowsNamed, Marked, Registers, Present, Empty
<1>5. KeysApart'
  BY <1>1, <1>3 DEF Tidy, KeysApart, Registers, Befriends
<1>6. FriendsNew'
  BY <1>1, <1>2, <1>3 DEF Tidy, FriendsNew, Befriends
<1>7. QED
  BY <1>4, <1>5, <1>6 DEF Tidy

LEMMA FreshStep ==
    ASSUME IInv, FreshInv, [Next]_vars
    PROVE  FreshInv'
<1>1. UNCHANGED <<careful, nested>>
  BY DEF Next, CreateMine, Register, Lookup, Login, CreateFriend, FriendFound, Start, Started,
         Switch, CliSwitch, Crash, vars, modes
<1> SUFFICES ASSUME careful, ~nested, Tidy PROVE Tidy'
  BY <1>1 DEF FreshInv
<1>2. UNCHANGED agents => (\A i \in Ids : Same(i)) /\ Marked'
  BY DEF Same, Tidy, Marked, Empty, Present
<1>3. ASSUME NEW t \in Tasks, NEW k, Goes(t, "lookup", k) \/ Goes(t, "login", k) \/ Goes(t, "start", k),
             k = task[t].key, task[t].pc = "register" \/ task'[t].pc # "lookup"
      PROVE  \A u \in Tasks : Steady(u)
  BY <1>3 DEF Goes, Steady, Registers, Befriends, IInv, TypeOK
<1>4. ASSUME NEW t \in Tasks, Ends(t) PROVE \A u \in Tasks : Steady(u)
  BY <1>4 DEF Ends, Idle, Steady, Registers, Befriends, IInv, TypeOK
<1>5. UNCHANGED task => \A u \in Tasks : Steady(u)
  BY DEF Steady, Registers, Befriends
<1>6. ASSUME NEW t \in Tasks, Register(t) \/ Lookup(t) PROVE Tidy'
  <2>1. CASE StoreAccount(t)
    BY <1>6, <2>1, StoreAccountTidy DEF Register, Lookup, Registers
  <2>2. CASE UNCHANGED agents /\ (Ends(t) \/ Goes(t, "login", task[t].key))
    <3>1. Goes(t, "login", task[t].key) => task'[t].pc = "login"
      BY DEF Goes, IInv, TypeOK
    <3>2. QED
      BY <1>2, <1>3, <1>4, <2>2, <3>1, SteadyStep
  <2>3. CASE UNCHANGED agents /\ task[t].pc = "register" /\ Goes(t, "lookup", task[t].key)
    BY <1>2, <1>3, <2>3, SteadyStep
  <2>4. QED
    BY <1>6, <2>1, <2>2, <2>3 DEF Register, Lookup
<1>7. ASSUME NEW t \in Tasks, FriendFound(t) PROVE Tidy'
  <2>1. Befriends(t) /\ Ends(t)
    BY <1>7 DEF FriendFound, Befriends
  <2>2. CASE UNCHANGED agents
    BY <1>2, <1>4, <2>1, <2>2, SteadyStep
  <2>3. CASE Befriend(t, Account(task[t].key)) \/ Befriend(t, Prefix(task[t].key))
    BY <2>1, <2>3, BefriendTidy
  <2>4. QED
    BY <1>7, <2>2, <2>3 DEF FriendFound
<1>8. ASSUME NEW t \in Tasks, Login(t) \/ Started(t) PROVE Tidy'
  BY <1>2, <1>4, <1>8, SteadyStep DEF Login, Started
<1>9. ASSUME NEW t \in Tasks, Start(t) PROVE Tidy'
  <2>1. UNCHANGED agents
    BY <1>9 DEF Start
  <2>2. \A u \in Tasks : Steady(u)
    BY <1>9 DEF Start, Goes, Steady, Registers, Befriends, IInv, TypeOK
  <2>3. QED
    BY <1>2, <2>1, <2>2, SteadyStep
<1>10. ASSUME NEW id \in Ids, Switch(id) \/ CliSwitch(id) PROVE Tidy'
  <2>1. SetCurrent(id) /\ UNCHANGED task
    BY <1>10 DEF Switch, CliSwitch
  <2>2. \A i \in Ids : Same(i)
    BY <2>1, SetCurrentEffect DEF IInv, Same
  <2>3. agents'[id].cur
    <3>1. agents[id] \in Rows /\ agents[id].kind # "none"
      BY <2>1 DEF SetCurrent, Present, IInv, TypeOK
    <3>2. agents'[id] = [agents[id] EXCEPT !.cur = TRUE]
      BY <2>1 DEF SetCurrent
    <3>3. QED
      BY <3>1, <3>2, MarkedRow
  <2>4. Marked'
    BY <2>3 DEF Marked
  <2>5. QED
    BY <1>5, <2>1, <2>2, <2>4, SteadyStep
<1>11. ASSUME Crash PROVE Tidy'
  <2>1. UNCHANGED agents /\ \A u \in Tasks : Steady(u)
    BY <1>11 DEF Crash, Idle, Steady, Registers, Befriends
  <2>2. QED
    BY <1>2, <2>1, SteadyStep
<1>12. ASSUME UNCHANGED vars PROVE Tidy'
  BY <1>2, <1>5, <1>12, SteadyStep DEF vars
<1>13. QED
  BY <1>6, <1>7, <1>8, <1>9, <1>10, <1>11, <1>12, CreateMineTidy, CreateFriendTidy DEF Next

\* A careful user's table has exactly one current row as soon as it has any.
THEOREM CurrentIsFound == Spec => []OneCurrent
<1>1. Init => FreshInv
  <2> SUFFICES ASSUME Init PROVE Tidy
    BY DEF FreshInv
  <2>1. \A t \in Tasks : ~Registers(t) /\ ~Befriends(t)
    BY DEF Init, Idle, Registers, Befriends
  <2>2. \A i \in Ids : ~Present(i)
    BY DEF Init, Present, Absent
  <2>3. QED
    BY <2>1, <2>2, IdsDiffer
       DEF Tidy, AccountFree, KeysApart, FriendsNew, RowsNamed, Marked, Empty, Keys
<1>2. AtMostOneCurrent /\ FreshInv => OneCurrent
  BY DEF FreshInv, Tidy, Marked, OneCurrent
<1>3. QED
  BY <1>1, <1>2, FreshStep, OneCurrentAgent, IdentityInvariant, PTL DEF Spec
=============================================================================
