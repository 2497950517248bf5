------------------------------ MODULE HttpClient ------------------------------
(***************************************************************************)
(* What the two clients of the Python SDK that live without a WebSocket    *)
(* have in common: AICQAgentClient (aicq/core.py), which takes part in     *)
(* ephemeral rooms, and AICQChatClient (aicq/quickchat.py), which talks to *)
(* the owner of the agent.  Both sign in with the agent of the local       *)
(* database, or make one, and then poll: each chat returns what was said   *)
(* since "latest_timestamp".                                               *)
(* A call suspends at each HTTP request; an action is what happens between *)
(* two answers, or the server's part of a request.                         *)
(***************************************************************************)
EXTENDS Naturals, FiniteSets

CONSTANTS Codes, Owners, None,   \* invite codes of rooms; accounts of humans
          Tasks,                 \* calls that may be in progress at once
          MaxTime                \* bound: messages said

ASSUME HttpAssumption ==
    /\ Codes \intersect Owners = {}
    /\ None \notin Codes \union Owners
    /\ MaxTime \in Nat

VARIABLES
    kind,     \* "room" client, "owner" client, or the quickchat commands ("cli"): fixed
    serial,   \* the blocking calls are used, so one at a time: fixed
    safe,     \* requests are answered and no process dies during a call: fixed
    now,      \* the server's clock, one tick for each message
    posts,    \* posts[c]: when the others said something in conversation c
    got,      \* got[c]: those that the user was given
    agent,    \* the agent in the database: "none", "key", or a key with an "account"
    core,     \* the client's login: "none", "anon" (failed), "token", "late" (after a retry)
    latest,   \* latest_timestamp
    task      \* the calls in progress

httpVars == <<kind, serial, safe, now, posts, got, agent, core, latest, task>>
clock == <<now, posts, got>>
fixed == <<kind, serial, safe>>

Convs == Codes \union Owners
NoKey == <<None, 0>>
Idle == [at |-> "idle", op |-> "none", to |-> None, key |-> NoKey,
         since |-> 0, upto |-> 0, live |-> TRUE]
Call(op, to) == [Idle EXCEPT !.op = op, !.to = to]
AllIdle == \A t \in Tasks : task[t] = Idle
MayBegin(t) == IF serial THEN AllIdle ELSE task[t] = Idle

Goes(t, r) == task' = [task EXCEPT ![t] = r]
Ends(t) == Goes(t, Idle)

HttpInit ==
    /\ now = 0
    /\ posts = [c \in Convs |-> {}]
    /\ got = [c \in Convs |-> {}]
    /\ agent \in {"none", "account"}
    /\ core = "none"
    /\ latest = 0
    /\ task = [t \in Tasks |-> Idle]

\* Another member, or the owner, says something.
Say(c) ==
    /\ now < MaxTime
    /\ now' = now + 1
    /\ posts' = [posts EXCEPT ![c] = @ \union {now + 1}]
    /\ UNCHANGED <<fixed, got, agent, core, latest, task>>

\* What a chat or join with "since" n that the server answered at m returns.
Between(c, n, m) == {x \in posts[c] : n < x /\ x <= m}
Newest(c) == {n \in posts[c] \union {0} : \A x \in posts[c] : x <= n}
Hands(c, n, m) == got' = [got EXCEPT ![c] = @ \union Between(c, n, m)]

-----------------------------------------------------------------------------
\* _ensure_token, _ensure_core: register an agent if there is none, log in.
\* The row is saved before the first request, so a second call finds it.

SignsIn(t, call) ==
    /\ Goes(t, [call EXCEPT !.at = IF agent = "none" THEN "register" ELSE "login"])
    /\ agent' = IF agent = "none" THEN "key" ELSE agent

\* The answer to the registration.  A refusal is swallowed, and the login tried.
Registered(t) ==
    /\ task[t].at = "register"
    /\ \/ agent' = "account" /\ Goes(t, [task[t] EXCEPT !.at = "login"])
       \/ ~safe /\ agent' = agent /\ Goes(t, [task[t] EXCEPT !.at = "login"])
       \/ ~safe /\ agent' \in {agent, "account"} /\ Ends(t)
    /\ UNCHANGED <<fixed, clock, core, latest>>

LoginRefused(t) == task[t].at = "login" /\ (agent = "key" \/ ~safe)
LoginLost(t) ==
    /\ task[t].at = "login" /\ ~safe
    /\ Ends(t)
    /\ UNCHANGED <<fixed, clock, agent, core, latest>>

=============================================================================
