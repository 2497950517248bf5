------------------------------ MODULE PyIdentity ------------------------------
(***************************************************************************)
(* The identities of the Python SDK: the agents table of aicq/db.py, the   *)
(* active agent that AICQCore keeps in memory, and the calls that create   *)
(* and change them.  A call suspends at each HTTP request, so an action is *)
(* what happens between two answers; two handlers of aicq/server.py may be *)
(* suspended at the same time.  The request that an action ends with may   *)
(* be answered, refused, or lost after it took effect.                     *)
(* One process has the database open; of the others only "aicq switch" is  *)
(* modelled.  An own row holds its secret key and a friend row none, so    *)
(* the kind of a row says it.  A 401 and its retry are left out.           *)
(***************************************************************************)
EXTENDS Naturals, FiniteSets

CONSTANTS OwnKeys, FriendKeys, NoKey,  \* key pairs generated here, keys of others
          Tasks,                       \* calls that may be in progress at once
          Serial, Careful, Nested      \* values of the modes to look at

ASSUME IdentityAssumption ==
    /\ OwnKeys \intersect FriendKeys = {}
    /\ NoKey \notin OwnKeys \union FriendKeys
    /\ {Serial, Careful, Nested} \subseteq SUBSET BOOLEAN

VARIABLES
    agents,      \* the table: agents[id], with is_current
    active,      \* self._agent, a copy of a row
    token,       \* whose access token self.access_token is
    registered,  \* the keys that have an account on the server
    task,        \* the calls in progress
    serial,      \* one call at a time: fixed
    careful,     \* a friend is added once, and never oneself: fixed
    nested,      \* the lookup answers {account: {id}} and not {account_id}: fixed
    greeted      \* the nodeId that this process went online with

modes == <<serial, careful, nested>>
vars == <<agents, active, token, registered, task, modes, greeted>>

Keys == OwnKeys \union FriendKeys
NoId == <<"empty", NoKey>>     \* ""
\* _pending_<uuid>, the server's account id, public_key[:16]
Pending(k) == <<"pending", k>>
Account(k) == <<"account", k>>
Prefix(k) == <<"prefix", k>>
Ids == {Pending(k) : k \in OwnKeys} \union {Account(k) : k \in Keys}
       \union {Prefix(k) : k \in Keys} \union {NoId}

Absent == [kind |-> "none", key |-> NoKey, cur |-> FALSE]
Rows == {Absent} \union [kind : {"my"}, key : OwnKeys, cur : BOOLEAN]
                 \union [kind : {"friend"}, key : Keys, cur : BOOLEAN]
Present(id) == agents[id].kind # "none"
Empty == \A id \in Ids : ~Present(id)
NoAgent == [id |-> NoId, kind |-> "none", key |-> NoKey]
Idle == [pc |-> "idle", key |-> NoKey]

Init ==
    /\ agents = [id \in Ids |-> Absent]
    /\ active = NoAgent
    /\ token = NoKey
    /\ registered = {}
    /\ task = [t \in Tasks |-> Idle]
    /\ serial \in Serial /\ careful \in Careful /\ nested \in Nested
    /\ greeted = NoId

-----------------------------------------------------------------------------
\* The table.

\* save_agent: INSERT OR REPLACE, current when the table was empty.
Save(id, kind, k) ==
    agents' = [agents EXCEPT ![id] = [kind |-> kind, key |-> k, cur |-> Empty]]

\* Mutation of SetCurrent: it does not look whether there is such a row.
SetCurrentUnchecked(id) ==
    agents' = [i \in Ids |-> [agents[i] EXCEPT !.cur = i = id /\ Present(i)]]

\* set_current.
SetCurrent(id) ==
    /\ Present(id)
    /\ agents' = [i \in Ids |-> [agents[i] EXCEPT !.cur = i = id]]

Activate(id, kind, k) == active' = [id |-> id, kind |-> kind, key |-> k]

-----------------------------------------------------------------------------
\* The calls.

AllIdle == \A t \in Tasks : task[t] = Idle
MayBegin(t) ==
    /\ task[t] = Idle
    /\ serial => AllIdle
    /\ \A u \in Tasks : task[u].pc # "start"

Goes(t, pc, k) == task' = [task EXCEPT ![t] = [pc |-> pc, key |-> k]]
Ends(t) == task' = [task EXCEPT ![t] = Idle]

\* Mutation of CreateMine: the keys are saved when the server has answered.
CreateMineUnsaved(t) ==
    /\ MayBegin(t)
    /\ \E k \in OwnKeys :
          /\ ~Present(Pending(k)) /\ k \notin registered
          /\ \A u \in Tasks : task[u].key # k
          /\ Goes(t, "register", k)
    /\ UNCHANGED <<agents, active, token, registered, modes, greeted>>

\* create_my_agent up to the registration request: the new keys are saved first.
CreateMine(t) ==
    /\ MayBegin(t)
    /\ \E k \in OwnKeys :
          /\ ~Present(Pending(k))
          /\ Save(Pending(k), "my", k)
          /\ Goes(t, "register", k)
    /\ UNCHANGED <<active, token, registered, modes, greeted>>

\* The account id is known: a second row, and the login.
StoreAccount(t) ==
    /\ Save(Account(task[t].key), "my", task[t].key)
    /\ Activate(Account(task[t].key), "my", task[t].key)
    /\ Goes(t, "login", task[t].key)

\* The answer to the registration.  An AICQError leads to a lookup; any other
\* exception ends the call.
Register(t) ==
    /\ task[t].pc = "register"
    /\ \/ registered' = registered \union {task[t].key} /\ StoreAccount(t)
       \/ /\ registered' \in {registered, registered \union {task[t].key}}
          /\ Goes(t, "lookup", task[t].key) \/ Ends(t)
          /\ UNCHANGED <<agents, active>>
    /\ UNCHANGED <<token, modes, greeted>>

\* Mutation of Lookup: without an account id the active agent stays.
LookupKeepsActive(t) ==
    /\ task[t].pc = "lookup"
    /\ \/ task[t].key \in registered /\ StoreAccount(t)
       \/ Goes(t, "login", task[t].key) /\ UNCHANGED <<agents, active>>
    /\ UNCHANGED <<token, registered, modes, greeted>>

\* The answer to the lookup, which also may fail: the pending row remains then.
Lookup(t) ==
    /\ task[t].pc = "lookup"
    /\ \/ task[t].key \in registered /\ StoreAccount(t)
       \/ /\ Activate(Pending(task[t].key), "my", task[t].key)
          /\ Goes(t, "login", task[t].key)
          /\ UNCHANGED agents
       \/ Ends(t) /\ UNCHANGED <<agents, active>>
    /\ UNCHANGED <<token, registered, modes, greeted>>

\* login at the end of create_my_agent, with the agent it took at its start.  A
\* refusal is only logged; the call returns whatever agent is active by now.
Login(t) ==
    /\ task[t].pc = "login"
    /\ \/ task[t].key \in registered /\ token' = task[t].key
       \/ UNCHANGED token
    /\ Ends(t)
    /\ UNCHANGED <<agents, active, registered, modes, greeted>>

\* create_friend_agent up to its lookup.
CreateFriend(t) ==
    /\ MayBegin(t)
    /\ \E k \in Keys :
          /\ careful => /\ k \in FriendKeys
                        /\ \A id \in Ids : agents[id].key # k
                        /\ \A u \in Tasks : task[u].key # k
          /\ Goes(t, "friend", k)
    /\ UNCHANGED <<agents, active, token, registered, modes, greeted>>

\* Mutation of Befriend: the active agent stays.
BefriendOnly(t, id) ==
    /\ Save(id, "friend", task[t].key)
    /\ UNCHANGED active

Befriend(t, id) ==
    /\ Save(id, "friend", task[t].key)
    /\ Activate(id, "friend", task[t].key)

\* ... and its answer: the account id, or nothing in the nested form, or the
\* first half of the public key when the lookup is refused.
FriendFound(t) ==
    /\ task[t].pc = "friend"
    /\ \/ /\ task[t].key \in FriendKeys \union registered
          /\ Befriend(t, IF nested THEN NoId ELSE Account(task[t].key))
       \/ Befriend(t, Prefix(task[t].key))
       \/ UNCHANGED <<agents, active>>
    /\ Ends(t)
    /\ UNCHANGED <<token, registered, modes, greeted>>

\* POST /api/agents/switch, without a login.
Switch(id) ==
    /\ serial => AllIdle
    /\ \A u \in Tasks : task[u].pc # "start"
    /\ SetCurrent(id)
    /\ Activate(id, agents[id].kind, agents[id].key)
    /\ UNCHANGED <<token, registered, task, modes, greeted>>

\* "aicq switch" in a process of its own.
CliSwitch(id) ==
    /\ SetCurrent(id)
    /\ UNCHANGED <<active, token, registered, task, modes, greeted>>

\* The process ends, at any point, and another one begins.
Crash ==
    /\ active' = NoAgent
    /\ token' = NoKey
    /\ task' = [t \in Tasks |-> Idle]
    /\ greeted' = NoId
    /\ UNCHANGED <<agents, registered, modes>>

\* "aicq start": the current row is loaded.
Start(t) ==
    /\ AllIdle /\ active = NoAgent
    /\ \E id \in Ids :
          /\ agents[id].cur /\ agents[id].kind = "my"
          /\ Activate(id, "my", agents[id].key)
          /\ Goes(t, "start", agents[id].key)
    /\ UNCHANGED <<agents, token, registered, modes, greeted>>

\* ... and logs in, then connects under the id of that row, or exits.
Started(t) ==
    /\ task[t].pc = "start"
    /\ \/ /\ task[t].key \in registered
          /\ token' = task[t].key
          /\ greeted' = active.id
          /\ UNCHANGED active
       \/ active' = NoAgent /\ UNCHANGED <<token, greeted>>
    /\ Ends(t)
    /\ UNCHANGED <<agents, registered, modes>>

-----------------------------------------------------------------------------
Next ==
    \/ \E t \in Tasks : \/ CreateMine(t) \/ Register(t) \/ Lookup(t) \/ Login(t)
                        \/ CreateFriend(t) \/ FriendFound(t) \/ Start(t) \/ Started(t)
    \/ \E id \in Ids : Switch(id) \/ CliSwitch(id)
    \/ Crash

Spec == Init /\ [][Next]_vars

-----------------------------------------------------------------------------
TypeOK ==
    /\ agents \in [Ids -> Rows]
    /\ active \in [id : Ids, kind : {"none", "my", "friend"}, key : Keys \union {NoKey}]
    /\ token \in OwnKeys \union {NoKey}
    /\ registered \subseteq OwnKeys
    /\ task \in [Tasks -> [pc : {"idle", "register", "lookup", "login", "friend", "start"},
                           key : Keys \union {NoKey}]]
    /\ {serial, careful, nested} \subseteq BOOLEAN
    /\ greeted \in Ids

\* The table has no two current rows.
AtMostOneCurrent == \A i, j \in Ids : agents[i].cur /\ agents[j].cur => i = j

\* get_agent() without an id never has a choice, and it finds an agent as soon as
\* there is one, so that "aicq start" can start it.  A careless user, or a server
\* that answers in the nested form, replaces the current row by one that is not.
OneCurrent ==
    /\ AtMostOneCurrent
    /\ careful /\ ~nested => Empty \/ \E id \in Ids : agents[id].cur

\* No identity is ever lost: a key that has an account on the server has a row
\* that holds its secret, whatever crashes, answers that are lost and friends
\* that are added over it.
KeysSurvive ==
    \A k \in registered : \E id \in Ids : agents[id].kind = "my" /\ agents[id].key = k

\* The agent in memory, whose secret the next login signs with, is the row of
\* its id, also when that row is replaced while a call is suspended.
ActiveIsStored ==
    active # NoAgent => /\ agents[active.id].kind = active.kind
                        /\ agents[active.id].key = active.key

\* create_my_agent returns self._agent when its login is over: the agent that it
\* made, as long as calls come one at a time.
ReturnsOwn ==
    serial => \A t \in Tasks : task[t].pc = "login" => active.key = task[t].key
=============================================================================
