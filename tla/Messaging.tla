------------------------------ MODULE Messaging ------------------------------
(***************************************************************************)
(* Messages of AICQCore (aicq/core.py): sends over the WebSocket with REST *)
(* as the fallback, files, the history of groups as request and answer on  *)
(* the socket, the lists of friends and groups, received messages, and     *)
(* what of it is written to the local database.  The HTTP handlers of      *)
(* aicq/server.py make these calls, several at a time, and also switch the *)
(* active agent; the tokens and the socket stay those of the previous one. *)
(* Of the making and re-making of the socket, which is PyCoreWS, and of    *)
(* the retry after a 401, which is Auth, there is here what they do to the *)
(* owner of tokens and socket.  How agents are created is PyIdentity.      *)
(* Sends of a room member are left out.                                    *)
(***************************************************************************)
EXTENDS Naturals, FiniteSets

CONSTANTS Agents, Groups, Frames, None,
          Tasks,                    \* calls that may be in progress at once
          MaxSends, MaxAsks,        \* bounds: messages sent, histories asked for
          Modes                     \* combinations <<spread, clean, careful>> to look at

ASSUME MessagingAssumption ==
    /\ None \notin Agents \union Groups \union Tasks
    /\ MaxSends \in Nat /\ MaxAsks \in Nat
    /\ Modes \subseteq BOOLEAN \X BOOLEAN \X BOOLEAN

VARIABLES
    active,   \* self._agent
    token,    \* whose access token self.access_token is
    renew,    \* whose refresh token self.refresh_token is
    link,     \* "up", "off", or where the reconnect task is: asleep ("lost"), in
              \* refresh_auth ("renewing") or about to dial ("redial")
    asked,    \* whose refresh token that task has sent
    socket,   \* whom the greeting named, whose token it had, and "rejected" as it was
    ready,    \* a careful user has logged in since the last switch
    rejected, \* a careful user's refresh token was rejected since the last login
    task,     \* the calls in progress
    made,     \* how many messages were sent
    sends,    \* sends[n]: what became of message n
    mixed,    \* a careful user's row of one agent is about the friends, groups or messages
              \* of another
    pending,  \* _pending_requests: the call that waits for an id
    asks,     \* the requests that the server has not answered
    lastId,   \* the id of the latest request, gm_<milliseconds>
    dest,     \* for whom each frame is: fixed
    seen,     \* _seen_msg_ids
    spread,   \* no two requests fall into one millisecond: fixed
    clean,    \* a send that fails had no effect, and all rows are written: fixed
    careful   \* a switch is made offline, between calls, and followed by a login: fixed

modes == <<dest, spread, clean, careful>>
identity == <<active, token, renew, ready, rejected>>
line == <<link, asked, socket>>
outbox == <<made, sends>>
history == <<pending, asks, lastId>>
vars == <<identity, line, task, outbox, mixed, history, seen, modes>>

Idle == [at |-> "idle", op |-> "none", who |-> None, of |-> None, num |-> 0, got |-> None]
AllIdle == \A t \in Tasks : task[t] = Idle
Unsent == [who |-> None, as |-> {}, arrived |-> 0, kept |-> FALSE, outcome |-> "open"]
NoSocket == [node |-> None, tok |-> None, rej |-> FALSE]
IdsUsed == 1..MaxAsks

Init ==
    /\ active \in Agents /\ token = None /\ renew = None
    /\ ready = FALSE /\ rejected = FALSE
    /\ link = "off" /\ asked = None /\ socket = NoSocket
    /\ task = [t \in Tasks |-> Idle]
    /\ made = 0 /\ sends = [n \in 1..MaxSends |-> Unsent]
    /\ mixed = FALSE
    /\ pending = [i \in IdsUsed |-> None] /\ asks = {} /\ lastId = 0
    /\ dest \in [Frames -> Agents]
    /\ seen = {}
    /\ \E m \in Modes : spread = m[1] /\ clean = m[2] /\ careful = m[3]

MayCall(t) == task[t] = Idle /\ (careful => ready)
Goes(t, r) == task' = [task EXCEPT ![t] = r]
Ends(t) == Goes(t, Idle)

-----------------------------------------------------------------------------
\* Who the client is.

\* Mutation of Login: nothing is done while there is a token.
LoginOnce(t) ==
    /\ task[t] = Idle /\ (careful => AllIdle)
    /\ IF token = None THEN Goes(t, [Idle EXCEPT !.at = "login", !.who = active]) /\ ready' = ready
                       ELSE task' = task /\ ready' = TRUE
    /\ UNCHANGED <<active, token, renew, rejected, line, outbox, mixed, history, seen, modes>>

Login(t) ==
    /\ task[t] = Idle /\ (careful => AllIdle)
    /\ Goes(t, [Idle EXCEPT !.at = "login", !.who = active])
    /\ UNCHANGED <<identity, line, outbox, mixed, history, seen, modes>>

LoggedIn(a) ==
    /\ token' = a /\ renew' = a
    /\ ready' = careful /\ rejected' = FALSE
    /\ active' = active

LoginAnswered(t) ==
    /\ task[t].at = "login"
    /\ LoggedIn(task[t].who) \/ UNCHANGED identity
    /\ Ends(t)
    /\ UNCHANGED <<line, outbox, mixed, history, seen, modes>>

\* A request has got a 401, the first time: _ensure_auth, which takes the token that
\* is there by now, or logs in as who is active.
EnsureAuth(t) ==
    /\ task[t].at \in {"rest", "list"} /\ task[t].who = None
    /\ Goes(t, [task[t] EXCEPT !.of = token,
                               !.who = IF token = None THEN active ELSE token])
    /\ UNCHANGED <<identity, line, outbox, mixed, history, seen, modes>>

\* That login succeeds, and the request is repeated.
Repeats(t) ==
    /\ task[t].at \in {"rest", "list"} /\ task[t].of = None /\ task[t].who # None
    /\ LoggedIn(task[t].who)
    /\ Goes(t, [task[t] EXCEPT !.of = task[t].who])
    /\ UNCHANGED <<line, outbox, mixed, history, seen, modes>>

\* _handle_switch_agent.
Switch(a) ==
    /\ a # active
    /\ careful => AllIdle /\ link = "off"
    /\ active' = a /\ ready' = FALSE
    /\ UNCHANGED <<token, renew, rejected, line, task, outbox, mixed, history, seen, modes>>

\* The greeting carries the token there is by now, and none if there is none.
Online ==
    /\ link' = "up" /\ asked' = None
    /\ socket' = [node |-> active, tok |-> token, rej |-> rejected]

\* The user does not connect while a reconnect is under way.
Connect(t) ==
    /\ MayCall(t) /\ token # None /\ link = "off"
    /\ \A u \in Tasks : task[u].at # "dial"
    /\ Goes(t, [Idle EXCEPT !.at = "dial"])
    /\ UNCHANGED <<identity, line, outbox, mixed, history, seen, modes>>

\* The greeting names the agent that is active by then.
Dialled(t) ==
    /\ task[t].at = "dial"
    /\ Online \/ UNCHANGED line
    /\ Ends(t)
    /\ UNCHANGED <<identity, outbox, mixed, history, seen, modes>>

Drop ==
    /\ link = "up"
    /\ link' = "lost" /\ socket' = NoSocket
    /\ asks' = {}
    /\ UNCHANGED <<identity, asked, task, outbox, mixed, pending, lastId, seen, modes>>

\* _reconnect_after, after its sleep.
Wakes ==
    /\ link = "lost"
    /\ asked' = renew
    /\ link' = IF renew = None THEN "redial" ELSE "renewing"
    /\ UNCHANGED <<identity, socket, task, outbox, mixed, history, seen, modes>>

\* Its refresh_auth: new tokens of who asked, or both cleared, whoever's they are by
\* now, or no answer.
RefreshAnswered ==
    /\ link = "renewing"
    /\ \/ token' = asked /\ renew' \in {renew, asked} /\ rejected' = FALSE
       \/ token' = None /\ renew' = None /\ rejected' = careful
       \/ UNCHANGED <<token, renew, rejected>>
    /\ link' = "redial" /\ asked' = None
    /\ UNCHANGED <<active, ready, socket, task, outbox, mixed, history, seen, modes>>

\* It connects, with whatever token, or fails, which is the end of it.
Redials ==
    /\ link = "redial"
    /\ Online \/ (link' = "off" /\ UNCHANGED <<asked, socket>>)
    /\ UNCHANGED <<identity, task, outbox, mixed, history, seen, modes>>

\* disconnect cancels the reconnect task and the futures that are registered.
Disconnect ==
    /\ link # "off"
    /\ link' = "off" /\ asked' = None /\ socket' = NoSocket
    /\ pending' = [i \in IdsUsed |-> None] /\ asks' = {}
    /\ task' = [t \in Tasks |-> IF task[t].at = "wait" /\ pending[task[t].num] = t
                                  THEN Idle ELSE task[t]]
    /\ UNCHANGED <<identity, outbox, mixed, lastId, seen, modes>>

-----------------------------------------------------------------------------
\* Sends.

Sends(t, op, at) ==
    /\ made < MaxSends
    /\ made' = made + 1
    /\ sends' = [sends EXCEPT ![made + 1].who = active]
    /\ Goes(t, [Idle EXCEPT !.at = at, !.op = op, !.num = made + 1, !.of = token])
    /\ UNCHANGED <<identity, line, mixed, history, seen, modes>>

SendMessage(t) == MayCall(t) /\ Sends(t, "message", IF link = "up" THEN "ws" ELSE "rest")
SendGroupMessage(t) == MayCall(t) /\ link = "up" /\ Sends(t, "group", "ws")

\* With a file that is small enough and p2p there is no upload.
SendFileMessage(t) == MayCall(t) /\ link = "up" /\ Sends(t, "file", "ws")
UploadFile(t) ==
    /\ MayCall(t)
    /\ Goes(t, [Idle EXCEPT !.at = "upload"])
    /\ UNCHANGED <<identity, line, outbox, mixed, history, seen, modes>>
SendFile(t) ==
    /\ task[t].at = "upload"
    /\ \/ link = "up" /\ Sends(t, "file", "ws")
       \/ Ends(t) /\ UNCHANGED <<identity, line, outbox, mixed, history, seen, modes>>

\* The message reaches the server as one of the owner of the token.
Arrives(s, a) == [s EXCEPT !.arrived = @ + 1, !.as = @ \union {a}]
\* A frame on the socket may be lost, and is without a token in the greeting.
Reaches(s) == {s} \union (IF socket.tok = None THEN {} ELSE {Arrives(s, socket.tok)})
Returns(s) == [s EXCEPT !.kept = TRUE, !.outcome = "sent"]
Raises(s) == [s EXCEPT !.outcome = "raised"]
\* The row cannot be written, which only send_group_message swallows.
Unrecorded(s, op) == [s EXCEPT !.outcome = IF op = "group" THEN "sent" ELSE "raised"]
Becomes(t, S) == \E s \in S : sends' = [sends EXCEPT ![task[t].num] = s]
Untouched == UNCHANGED <<identity, line, made, mixed, history, seen, modes>>

\* Mutation of WsSent: the return after the WebSocket send is missing.
WsSentGoesOn(t) ==
    LET s == sends[task[t].num] IN
    /\ task[t].at = "ws" /\ link = "up"
    /\ Becomes(t, Reaches(s))
    /\ IF task[t].op = "message" THEN Goes(t, [task[t] EXCEPT !.at = "rest"]) ELSE Ends(t)
    /\ Untouched

\* send_json returns: the frame is on its way, and may still be lost.
WsSent(t) ==
    LET s == sends[task[t].num] IN
    /\ task[t].at = "ws" /\ link = "up"
    /\ Becomes(t, {Returns(x) : x \in Reaches(s)}
                  \union (IF clean THEN {} ELSE {Unrecorded(x, task[t].op) : x \in Reaches(s)}))
    /\ Ends(t)
    /\ Untouched

\* send_json raises.  Only send_message has a fallback.
WsFailed(t) ==
    LET s == sends[task[t].num]
        after == IF ~clean /\ link = "up" THEN Reaches(s) ELSE {s}
    IN /\ task[t].at = "ws"
       /\ IF task[t].op = "message"
            THEN Becomes(t, after) /\ Goes(t, [task[t] EXCEPT !.at = "rest", !.of = token])
            ELSE Becomes(t, {Raises(x) : x \in after}) /\ Ends(t)
       /\ Untouched

RestAnswered(t) ==
    LET s == sends[task[t].num]
        a == task[t].of
    IN /\ task[t].at = "rest"
       /\ Becomes(t, {Raises(s)}
                     \union (IF a = None THEN {} ELSE {Returns(Arrives(s, a))})
                     \union (IF a = None \/ clean THEN {} ELSE {Raises(Arrives(s, a))}))
       /\ Ends(t)
       /\ Untouched

-----------------------------------------------------------------------------
\* Lists, histories and what is received.

\* list_friends and list_groups, which differ in the table only.
Lists(t) ==
    /\ MayCall(t)
    /\ Goes(t, [Idle EXCEPT !.at = "list", !.of = token])
    /\ UNCHANGED <<identity, line, outbox, mixed, history, seen, modes>>

\* Rows about b are stored for the agent that is active.
Stores(b) == mixed' = (mixed \/ (careful /\ active # b))

\* The list is stored for the agent that is active by now; when the server refuses,
\* what is stored for it is returned.
ListAnswered(t) ==
    /\ task[t].at = "list"
    /\ (task[t].of # None /\ Stores(task[t].of)) \/ mixed' = mixed
    /\ Ends(t)
    /\ UNCHANGED <<identity, line, outbox, history, seen, modes>>

GetGroupMessages(t, g) ==
    /\ MayCall(t) /\ link = "up"
    /\ \E id \in (IF spread THEN {} ELSE {lastId}) \union {lastId + 1} :
        /\ id \in IdsUsed
        /\ lastId' = id
        /\ pending' = [pending EXCEPT ![id] = t]
        /\ \/ /\ asks' = asks \union {[id |-> id, group |-> g]}
              /\ Goes(t, [Idle EXCEPT !.at = "wait", !.of = g, !.num = id])
           \/ UNCHANGED <<asks, task>>    \* send_json raises
    /\ UNCHANGED <<identity, line, outbox, mixed, seen, modes>>

Resolved(t, g) == Goes(t, [task[t] EXCEPT !.at = "resolved", !.got = g])

\* Mutation of GroupMessages: the answer goes to whoever waits.
GroupMessagesAnyone(x) ==
    /\ x \in asks /\ link = "up" /\ socket.tok # None
    /\ asks' = asks \ {x}
    /\ \E i \in IdsUsed :
        /\ pending[i] # None \/ (\A j \in IdsUsed : pending[j] = None)
        /\ pending' = [pending EXCEPT ![i] = None]
        /\ IF pending[i] # None /\ task[pending[i]].at = "wait"
             THEN Resolved(pending[i], x.group) ELSE task' = task
    /\ UNCHANGED <<identity, line, outbox, mixed, lastId, seen, modes>>

\* The frame "group_messages": the future with its id is popped and resolved.
GroupMessages(x) ==
    LET t == pending[x.id] IN
    /\ x \in asks /\ link = "up" /\ socket.tok # None
    /\ asks' = asks \ {x}
    /\ pending' = [pending EXCEPT ![x.id] = None]
    /\ IF t # None /\ task[t].at = "wait" /\ task[t].num = x.id
         THEN Resolved(t, x.group) ELSE task' = task
    /\ UNCHANGED <<identity, line, outbox, mixed, lastId, seen, modes>>

HistoryReturns(t) ==
    /\ task[t].at = "resolved"
    /\ Ends(t)
    /\ UNCHANGED <<identity, line, outbox, mixed, history, seen, modes>>

\* After 10 seconds the call returns no messages.
HistoryTimesOut(t) ==
    /\ task[t].at = "wait"
    /\ pending' = [pending EXCEPT ![task[t].num] = None]
    /\ Ends(t)
    /\ UNCHANGED <<identity, line, outbox, mixed, asks, lastId, seen, modes>>

\* A frame for the owner of the token; one that was seen is dropped.  The id is
\* noted before the row is written, which may raise.
HandleWsMessage(i) ==
    /\ link = "up" /\ dest[i] = socket.tok
    /\ i \notin seen
    /\ seen' = seen \union {i}
    /\ Stores(dest[i]) \/ (~clean /\ mixed' = mixed)
    /\ UNCHANGED <<identity, line, task, outbox, history, modes>>

Next ==
    \/ \E t \in Tasks :
        \/ Login(t) \/ LoginAnswered(t) \/ EnsureAuth(t) \/ Repeats(t)
        \/ Connect(t) \/ Dialled(t)
        \/ SendMessage(t) \/ SendGroupMessage(t) \/ SendFileMessage(t)
        \/ UploadFile(t) \/ SendFile(t)
        \/ WsSent(t) \/ WsFailed(t) \/ RestAnswered(t)
        \/ Lists(t) \/ ListAnswered(t)
        \/ \E g \in Groups : GetGroupMessages(t, g)
        \/ HistoryReturns(t) \/ HistoryTimesOut(t)
    \/ \E a \in Agents : Switch(a)
    \/ Drop \/ Wakes \/ RefreshAnswered \/ Redials \/ Disconnect
    \/ \E x \in asks : GroupMessages(x)
    \/ \E i \in Frames : HandleWsMessage(i)

Spec == Init /\ [][Next]_vars

-----------------------------------------------------------------------------
MaybeAgent == Agents \union {None}
MaybeGroup == Groups \union {None}
Calls == [at : {"idle", "login", "dial", "ws", "rest", "upload", "list", "wait", "resolved"},
          op : {"none", "message", "group", "file"},
          who : MaybeAgent, of : MaybeAgent \union Groups,
          num : Nat, got : MaybeGroup]
Messages == [who : MaybeAgent, as : SUBSET (MaybeAgent \union Groups), arrived : Nat,
             kept : BOOLEAN, outcome : {"open", "sent", "raised"}]

\* The values of every variable.
TypeOK ==
    /\ active \in Agents /\ {token, renew, asked} \subseteq MaybeAgent
    /\ {ready, rejected} \subseteq BOOLEAN
    /\ link \in {"up", "lost", "renewing", "redial", "off"}
    /\ socket \in [node : MaybeAgent, tok : MaybeAgent, rej : BOOLEAN]
    /\ task \in [Tasks -> Calls]
    /\ made \in 0..MaxSends /\ sends \in [1..MaxSends -> Messages]
    /\ mixed \in BOOLEAN
    /\ pending \in [IdsUsed -> Tasks \union {None}]
    /\ asks \subseteq [id : IdsUsed, group : Groups] /\ lastId \in 0..MaxAsks
    /\ dest \in [Frames -> Agents]
    /\ seen \subseteq Frames
    /\ {spread, clean, careful} \subseteq BOOLEAN

\* get_group_messages never returns the messages of a group that it was not asked
\* for, with any number of calls, timeouts, late answers and lost connections, as
\* long as no two requests fall into one millisecond.
AnsweredAsAsked ==
    spread => \A t \in Tasks : task[t].at = "resolved" => task[t].got = task[t].of

\* The caller is told the truth.  What is in the local record was sent; if failed
\* sends have no effect and all rows are written, a send that returned is in the
\* record, none arrives twice, and one that raised has not arrived.
HonestOutcome ==
    \A n \in 1..made : LET s == sends[n] IN
        /\ s.kept => s.outcome = "sent"
        /\ clean /\ s.outcome = "sent" => s.kept
        /\ clean => s.arrived <= 1
        /\ clean /\ s.outcome = "raised" => s.arrived = 0

\* If switches are made carefully, which the code leaves to the user, then the rows
\* of an agent are about that agent, its messages go out in its name, and the socket
\* is that of the active agent: with a token of it, and without one only when the
\* refresh token was rejected between the last login and the greeting.
StoredWithOwner ==
    careful =>
        /\ ~mixed
        /\ link = "up" => /\ socket.node = active
                          /\ socket.tok = IF socket.rej THEN None ELSE active
        /\ \A n \in 1..made : sends[n].as \subseteq {sends[n].who}

=============================================================================
