--------------------------- MODULE MessagingProofs ---------------------------
(***************************************************************************)
(* For any number of agents, groups, frames, concurrent calls, messages    *)
(* and requests: a history is the answer to its own request, a send tells  *)
(* the truth, and a careful user's rows and messages keep their owner.     *)
(* Each of the three has an invariant of its own about the calls that are  *)
(* under way, and all three rest on the types.                             *)
(***************************************************************************)
EXTENDS Messaging, TLAPS

\* The requests: ids are not reused, and the waiting call with the id of a
\* request asked for its group.
Waiting(t) == task[t].at = "wait"
HistoryInv ==
    spread =>
        /\ \A x \in asks : x.id <= lastId
        /\ \A t \in Tasks : Waiting(t) => task[t].num <= lastId
        /\ \A x \in asks, t \in Tasks :
              Waiting(t) /\ task[t].num = x.id => task[t].of = x.group
        /\ \A t \in Tasks : task[t].at = "resolved" => task[t].got = task[t].of

\* A message that is being sent is open, and has one sender.
Sending(t) == task[t].at \in {"ws", "rest"}
Fresh(n) == LET s == sends[n] IN
    s.outcome = "open" /\ ~s.kept /\ (clean => s.arrived = 0)
OutboxInv ==
    /\ \A n \in 1..MaxSends : n > made => sends[n] = Unsent
    /\ \A t \in Tasks : Sending(t) => task[t].num \in 1..made /\ Fresh(task[t].num)
    /\ \A t, u \in Tasks : Sending(t) /\ Sending(u) /\ t # u => task[t].num # task[u].num
    /\ HonestOutcome

\* The tokens are those of the active agent; a rejected refresh has cleared them.
TokensKept ==
    /\ token = IF rejected THEN None ELSE active
    /\ renew \in {None, active}
SocketKept ==
    /\ socket.node = active
    /\ socket.tok = IF socket.rej THEN None ELSE active

\* A careful user has logged in, or is offline with nothing but logins under way.
OwnerInv ==
    careful =>
        /\ ~mixed
        /\ ready => TokensKept
        /\ ready \/ (link = "off" /\ \A t \in Tasks : task[t].at \in {"idle", "login"})
        /\ link = "renewing" => asked = active
        /\ link = "up" => SocketKept
        /\ \A t \in Tasks :
            /\ task[t].at = "login" => task[t].who = active
            /\ task[t].at \in {"list", "rest"} => task[t].of \in {None, active}
            /\ task[t].at \in {"list", "ws", "rest"} => task[t].who \in {None, active}
            /\ Sending(t) => task[t].num \in 1..made /\ sends[task[t].num].who = active
        /\ \A n \in 1..MaxSends : n > made => sends[n] = Unsent
        /\ \A n \in 1..made : sends[n].as \subseteq {sends[n].who}

-----------------------------------------------------------------------------
LEMMA IdleIsCall == Idle \in Calls
BY DEF Idle, Calls, MaybeAgent, MaybeGroup

LEMMA TypeInit == Init => TypeOK
<1> SUFFICES ASSUME Init PROVE TypeOK
  OBVIOUS
<1>1. Unsent \in Messages
  BY DEF Unsent, Messages, MaybeAgent
<1>2. sends \in [1..MaxSends -> Messages] /\ task \in [Tasks -> Calls]
  BY <1>1, IdleIsCall DEF Init
<1>3. {spread, clean, careful} \subseteq BOOLEAN
  BY MessagingAssumption DEF Init
<1>4. /\ made \in 0..MaxSends /\ lastId \in 0..MaxAsks
      /\ pending \in [IdsUsed -> Tasks \union {None}]
      /\ asks \subseteq [id : IdsUsed, group : Groups]
  BY MessagingAssumption DEF Init
<1>5. /\ active \in Agents /\ {token, renew, asked} \subseteq MaybeAgent
      /\ {ready, rejected} \subseteq BOOLEAN
      /\ link \in {"up", "lost", "renewing", "redial", "off"}
      /\ socket \in [node : MaybeAgent, tok : MaybeAgent, rej : BOOLEAN]
      /\ mixed \in BOOLEAN /\ dest \in [Frames -> Agents] /\ seen \subseteq Frames
  BY DEF Init, MaybeAgent, NoSocket
<1>6. QED
  BY <1>2, <1>3, <1>4, <1>5 DEF TypeOK

\* What a step does to the calls keeps their types.
LEMMA GoesType ==
    ASSUME TypeOK, NEW t \in Tasks, NEW r \in Calls, Goes(t, r)
    PROVE  task' \in [Tasks -> Calls]
BY DEF TypeOK, Goes

LEMMA EndsType ==
    ASSUME TypeOK, NEW t \in Tasks, Ends(t)
    PROVE  task' \in [Tasks -> Calls]
BY GoesType, IdleIsCall DEF Ends

LEMMA BecomesType ==
    ASSUME TypeOK, NEW t \in Tasks, NEW S, Becomes(t, S),
           task[t].num \in 1..MaxSends => S \subseteq Messages
    PROVE  sends' \in [1..MaxSends -> Messages]
<1>1. PICK s \in S : sends' = [sends EXCEPT ![task[t].num] = s]
  BY DEF Becomes
<1>2. CASE task[t].num \in 1..MaxSends
  BY <1>1, <1>2 DEF TypeOK
<1>3. CASE task[t].num \notin 1..MaxSends
  BY <1>1, <1>3 DEF TypeOK
<1>4. QED
  BY <1>2, <1>3

\* What a step does to a message keeps its type.
LEMMA MessageSteps ==
    ASSUME NEW s \in Messages, NEW a \in MaybeAgent \union Groups
    PROVE  Arrives(s, a) \in Messages /\ Returns(s) \in Messages /\ Raises(s) \in Messages
<1>1. Raises(s) \in Messages
  BY DEF Messages, Raises
<1>2. Returns(s) \in Messages
  BY DEF Messages, Returns
<1>3. Arrives(s, a) \in Messages
  <2>1. s.arrived + 1 \in Nat /\ s.as \union {a} \in SUBSET (MaybeAgent \union Groups)
    BY DEF Messages
  <2>2. QED
    BY <2>1 DEF Messages, Arrives
<1>4. QED
  BY <1>1, <1>2, <1>3

LEMMA UnrecordedStep ==
    ASSUME NEW s \in Messages, NEW op
    PROVE  Unrecorded(s, op) \in Messages
BY DEF Messages, Unrecorded

\* Field by field.
LEMMA MessageFields ==
    ASSUME NEW s \in Messages, NEW a
    PROVE  /\ Arrives(s, a).arrived = s.arrived + 1 /\ Arrives(s, a).as = s.as \union {a}
           /\ Arrives(s, a).who = s.who /\ (Arrives(s, a).kept <=> s.kept)
           /\ Arrives(s, a).outcome = s.outcome
           /\ Returns(s).outcome = "sent" /\ Returns(s).kept
           /\ Returns(s).who = s.who /\ Returns(s).as = s.as /\ Returns(s).arrived = s.arrived
           /\ Raises(s).outcome = "raised" /\ (Raises(s).kept <=> s.kept)
           /\ Raises(s).who = s.who /\ Raises(s).as = s.as /\ Raises(s).arrived = s.arrived
BY DEF Messages, Arrives, Returns, Raises

LEMMA UnrecordedFields ==
    ASSUME NEW s \in Messages, NEW op
    PROVE  /\ Unrecorded(s, op).who = s.who /\ Unrecorded(s, op).as = s.as
           /\ Unrecorded(s, op).kept <=> s.kept
BY DEF Messages, Unrecorded

\* What may have reached the server when a frame was written to the socket.
LEMMA ReachesSteps ==
    ASSUME TypeOK, NEW s \in Messages, NEW x \in Reaches(s)
    PROVE  /\ x \in Messages /\ x.who = s.who /\ x.outcome = s.outcome
           /\ x.kept <=> s.kept
           /\ x.arrived \in {s.arrived, s.arrived + 1}
           /\ x.as \subseteq s.as \union ({socket.tok} \ {None})
<1>1. socket.tok \in MaybeAgent \union Groups
  BY DEF TypeOK
<1>2. CASE x = s
  BY <1>2
<1>3. CASE socket.tok # None /\ x = Arrives(s, socket.tok)
  BY <1>1, <1>3, MessageSteps, MessageFields
<1>4. QED
  BY <1>2, <1>3 DEF Reaches

\* The request whose token was missing or rejected goes on, in its place.
LEMMA AuthEffect ==
    ASSUME TypeOK, NEW t \in Tasks, EnsureAuth(t) \/ Repeats(t)
    PROVE  /\ task' \in [Tasks -> Calls]
           /\ task[t].at \in {"rest", "list"}
           /\ task'[t].at = task[t].at /\ task'[t].num = task[t].num
           /\ \A u \in Tasks : u # t => task'[u] = task[u]
           /\ EnsureAuth(t) => /\ task'[t].of = token
                               /\ task'[t].who = IF token = None THEN active ELSE token
           /\ Repeats(t) => task'[t].of = task[t].who /\ task'[t].who = task[t].who
<1>1. task[t] \in Calls /\ token \in MaybeAgent /\ active \in MaybeAgent
  BY DEF TypeOK, MaybeAgent
<1>2. CASE EnsureAuth(t)
  <2> DEFINE c == [task[t] EXCEPT !.of = token,
                                 !.who = IF token = None THEN active ELSE token]
  <2>1. c \in Calls
    BY <1>1 DEF Calls
  <2>2. Goes(t, c) /\ task[t].at \in {"rest", "list"} /\ task[t].who = None
    BY <1>2 DEF EnsureAuth
  <2>3. task'[t] = c /\ \A u \in Tasks : u # t => task'[u] = task[u]
    BY <2>2 DEF Goes, TypeOK
  <2>4. ~Repeats(t)
    BY <2>2 DEF Repeats
  <2>5. QED
    BY <1>1, <2>1, <2>2, <2>3, <2>4, GoesType DEF Calls
<1>3. CASE Repeats(t)
  <2> DEFINE c == [task[t] EXCEPT !.of = task[t].who]
  <2>1. c \in Calls
    BY <1>1 DEF Calls
  <2>2. Goes(t, c) /\ task[t].at \in {"rest", "list"} /\ task[t].who # None
    BY <1>3 DEF Repeats
  <2>3. task'[t] = c /\ \A u \in Tasks : u # t => task'[u] = task[u]
    BY <2>2 DEF Goes, TypeOK
  <2>4. ~EnsureAuth(t)
    BY <2>2 DEF EnsureAuth
  <2>5. QED
    BY <1>1, <2>1, <2>2, <2>3, <2>4, GoesType DEF Calls
<1>4. QED
  BY <1>2, <1>3

LEMMA SendsType ==
    ASSUME TypeOK, NEW t \in Tasks, NEW op \in {"message", "group", "file"},
           NEW at \in {"ws", "rest"}, Sends(t, op, at)
    PROVE  TypeOK'
<1> USE DEF vars, identity, line, outbox, history, modes
<1>1. [Idle EXCEPT !.at = at, !.op = op, !.num = made + 1, !.of = token] \in Calls
  <2>1. made + 1 \in Nat /\ token \in MaybeAgent
    BY MessagingAssumption DEF TypeOK
  <2>2. QED
    BY <2>1 DEF Calls, Idle, MaybeAgent, MaybeGroup
<1>2. task' \in [Tasks -> Calls]
  BY <1>1, GoesType DEF Sends
<1>3. made' \in 0..MaxSends
  BY MessagingAssumption DEF Sends, TypeOK
<1>4. sends' \in [1..MaxSends -> Messages]
  <2>1. made + 1 \in 1..MaxSends
    BY MessagingAssumption DEF Sends, TypeOK
  <2>2. sends[made + 1] \in Messages /\ active \in MaybeAgent
    BY <2>1 DEF TypeOK, MaybeAgent
  <2>3. [sends[made + 1] EXCEPT !.who = active] \in Messages
    BY <2>2 DEF Messages
  <2>4. sends' = [sends EXCEPT ![made + 1] = [sends[made + 1] EXCEPT !.who = active]]
    BY DEF Sends
  <2>5. QED
    BY <2>3, <2>4 DEF TypeOK
<1>5. QED
  BY <1>2, <1>3, <1>4 DEF Sends, TypeOK

LEMMA TypeStep == TypeOK /\ [Next]_vars => TypeOK'
<1> SUFFICES ASSUME TypeOK, [Next]_vars PROVE TypeOK'
  OBVIOUS
<1> USE DEF vars, identity, line, outbox, history, modes
<1>1. ASSUME NEW t \in Tasks, Login(t) PROVE TypeOK'
  BY <1>1, MessagingAssumption, IdleIsCall DEF Login, Goes, Ends, Idle, Calls, Messages, MaybeAgent, MaybeGroup, IdsUsed, TypeOK
<1>2. ASSUME NEW t \in Tasks, LoginAnswered(t) PROVE TypeOK'
  <2>1. task[t].who \in MaybeAgent
    BY DEF TypeOK, Calls
  <2>2. task' \in [Tasks -> Calls]
    BY <1>2, EndsType DEF LoginAnswered
  <2>3. QED
    BY <1>2, <2>1, <2>2 DEF LoginAnswered, LoggedIn, TypeOK
<1>3. ASSUME NEW t \in Tasks, EnsureAuth(t) PROVE TypeOK'
  BY <1>3, AuthEffect DEF EnsureAuth, TypeOK
<1>4. ASSUME NEW t \in Tasks, Repeats(t) PROVE TypeOK'
  <2>1. task[t].who \in MaybeAgent
    BY DEF TypeOK, Calls
  <2>2. QED
    BY <1>4, <2>1, AuthEffect DEF Repeats, LoggedIn, TypeOK
<1>5. ASSUME NEW t \in Tasks, Connect(t) PROVE TypeOK'
  BY <1>5, MessagingAssumption, IdleIsCall DEF Connect, Goes, Ends, Idle, Calls, Messages, MaybeAgent, MaybeGroup, IdsUsed, TypeOK
<1>6. ASSUME NEW t \in Tasks, Dialled(t) PROVE TypeOK'
  BY <1>6, MessagingAssumption, IdleIsCall DEF Dialled, Online, Goes, Ends, Idle, Calls, Messages, MaybeAgent, MaybeGroup, IdsUsed, TypeOK
<1>7. ASSUME NEW t \in Tasks, SendMessage(t) PROVE TypeOK'
  BY <1>7, SendsType DEF SendMessage
<1>8. ASSUME NEW t \in Tasks, SendGroupMessage(t) PROVE TypeOK'
  BY <1>8, SendsType DEF SendGroupMessage
<1>9. ASSUME NEW t \in Tasks, SendFileMessage(t) PROVE TypeOK'
  BY <1>9, SendsType DEF SendFileMessage
<1>10. ASSUME NEW t \in Tasks, UploadFile(t) PROVE TypeOK'
  BY <1>10, MessagingAssumption, IdleIsCall DEF UploadFile, Goes, Ends, Idle, Calls, Messages, MaybeAgent, MaybeGroup, IdsUsed, TypeOK
<1>11. ASSUME NEW t \in Tasks, SendFile(t) PROVE TypeOK'
  <2>1. CASE Sends(t, "file", "ws")
    BY <2>1, SendsType
  <2>2. CASE Ends(t) /\ UNCHANGED <<identity, line, outbox, mixed, history, seen, modes>>
    BY <2>2, EndsType DEF TypeOK
  <2>3. QED
    BY <1>11, <2>1, <2>2 DEF SendFile
<1>12. ASSUME NEW t \in Tasks, WsSent(t) PROVE TypeOK'
  <2>1. task[t].num \in 1..MaxSends => sends[task[t].num] \in Messages
    BY DEF TypeOK
  <2> DEFINE s == sends[task[t].num]
             op == task[t].op
             results == {Returns(x) : x \in Reaches(s)}
                        \union (IF clean THEN {} ELSE {Unrecorded(x, op) : x \in Reaches(s)})
  <2>5. task[t].num \in 1..MaxSends => results \subseteq Messages
    <3> SUFFICES ASSUME task[t].num \in 1..MaxSends PROVE results \subseteq Messages
      OBVIOUS
    <3>1. \A x \in Messages : Returns(x) \in Messages /\ Unrecorded(x, op) \in Messages
      BY MessageSteps, UnrecordedStep DEF MaybeAgent
    <3>2. Reaches(s) \subseteq Messages
      BY <2>1, ReachesSteps
    <3>3. QED
      BY <3>1, <3>2
  <2>6. Becomes(t, results)
    BY <1>12 DEF WsSent
  <2>3. sends' \in [1..MaxSends -> Messages]
    BY <2>5, <2>6, BecomesType
  <2>4. QED
    BY <1>12, <2>3, EndsType DEF WsSent, Untouched, TypeOK
<1>13. ASSUME NEW t \in Tasks, WsFailed(t) PROVE TypeOK'
  <2>1. task[t].num \in 1..MaxSends => sends[task[t].num] \in Messages
    BY DEF TypeOK
  <2> DEFINE s == sends[task[t].num]
             after == IF ~clean /\ link = "up" THEN Reaches(s) ELSE {s}
  <2>3. task[t].num \in 1..MaxSends => after \subseteq Messages
    BY <2>1, ReachesSteps
  <2>4. CASE task[t].op = "message"
    <3>1. Becomes(t, after) /\ Goes(t, [task[t] EXCEPT !.at = "rest", !.of = token])
      BY <1>13, <2>4 DEF WsFailed
    <3>2. sends' \in [1..MaxSends -> Messages]
      BY <2>3, <3>1, BecomesType
    <3>3. [task[t] EXCEPT !.at = "rest", !.of = token] \in Calls
      BY DEF TypeOK, Calls, MaybeAgent
    <3>4. task' \in [Tasks -> Calls]
      BY <3>1, <3>3, GoesType
    <3>5. QED
      BY <1>13, <3>2, <3>4 DEF WsFailed, Untouched, TypeOK
  <2>5. CASE task[t].op # "message"
    <3>1. Becomes(t, {Raises(x) : x \in after}) /\ Ends(t)
      BY <1>13, <2>5 DEF WsFailed
    <3>2. task[t].num \in 1..MaxSends => {Raises(x) : x \in after} \subseteq Messages
      BY <2>3, MessageSteps DEF MaybeAgent
    <3>3. sends' \in [1..MaxSends -> Messages]
      BY <3>1, <3>2, BecomesType
    <3>4. QED
      BY <1>13, <3>1, <3>3, EndsType DEF WsFailed, Untouched, TypeOK
  <2>6. QED
    BY <2>4, <2>5
<1>14. ASSUME NEW t \in Tasks, RestAnswered(t) PROVE TypeOK'
  <2>1. task[t].num \in 1..MaxSends => sends[task[t].num] \in Messages
    BY DEF TypeOK
  <2> DEFINE s == sends[task[t].num]
             a == task[t].of
             results == {Raises(s)}
                        \union (IF a = None THEN {} ELSE {Returns(Arrives(s, a))})
                        \union (IF a = None \/ clean THEN {} ELSE {Raises(Arrives(s, a))})
  <2>2. Becomes(t, results) /\ Ends(t) /\ task[t].of \in MaybeAgent \union Groups
    BY <1>14 DEF RestAnswered, TypeOK, Calls
  <2>3. task[t].num \in 1..MaxSends => results \subseteq Messages
    BY <2>1, <2>2, MessageSteps
  <2>4. sends' \in [1..MaxSends -> Messages]
    BY <2>2, <2>3, BecomesType
  <2>5. QED
    BY <1>14, <2>2, <2>4, EndsType DEF RestAnswered, Untouched, TypeOK
<1>15. ASSUME NEW t \in Tasks, Lists(t) PROVE TypeOK'
  BY <1>15, MessagingAssumption, IdleIsCall DEF Lists, Goes, Ends, Idle, Calls, Messages, MaybeAgent, MaybeGroup, IdsUsed, TypeOK
<1>16. ASSUME NEW t \in Tasks, ListAnswered(t) PROVE TypeOK'
  BY <1>16, MessagingAssumption, IdleIsCall DEF ListAnswered, Stores, Goes, Ends, Idle, Calls, Messages, MaybeAgent, MaybeGroup, IdsUsed, TypeOK
<1>17. ASSUME NEW t \in Tasks, NEW g \in Groups, GetGroupMessages(t, g) PROVE TypeOK'
  <2>1. PICK id \in IdsUsed :
           /\ lastId' = id /\ pending' = [pending EXCEPT ![id] = t]
           /\ \/ /\ asks' = asks \union {[id |-> id, group |-> g]}
                 /\ Goes(t, [Idle EXCEPT !.at = "wait", !.of = g, !.num = id])
              \/ UNCHANGED <<asks, task>>
    BY <1>17 DEF GetGroupMessages
  <2>2. lastId' \in 0..MaxAsks /\ pending' \in [IdsUsed -> Tasks \union {None}]
    BY <2>1, MessagingAssumption DEF TypeOK, IdsUsed
  <2>3. asks' \subseteq [id : IdsUsed, group : Groups]
    BY <2>1 DEF TypeOK
  <2>4. [Idle EXCEPT !.at = "wait", !.of = g, !.num = id] \in Calls
    <3>1. id \in Nat
      BY MessagingAssumption DEF IdsUsed
    <3>2. QED
      BY <3>1 DEF Calls, Idle, MaybeAgent, MaybeGroup
  <2>5. task' \in [Tasks -> Calls]
    BY <2>1, <2>4, GoesType DEF TypeOK
  <2>6. QED
    BY <1>17, <2>2, <2>3, <2>5 DEF GetGroupMessages, TypeOK
<1>18. ASSUME NEW t \in Tasks, HistoryReturns(t) PROVE TypeOK'
  BY <1>18, MessagingAssumption, IdleIsCall DEF HistoryReturns, Goes, Ends, Idle, Calls, Messages, MaybeAgent, MaybeGroup, IdsUsed, TypeOK
<1>19. ASSUME NEW t \in Tasks, HistoryTimesOut(t) PROVE TypeOK'
  BY <1>19, MessagingAssumption, IdleIsCall DEF HistoryTimesOut, Goes, Ends, Idle, Calls, Messages, MaybeAgent, MaybeGroup, IdsUsed, TypeOK
<1>20. ASSUME NEW a \in Agents, Switch(a) PROVE TypeOK'
  BY <1>20, MessagingAssumption, IdleIsCall DEF Switch, Goes, Ends, Idle, Calls, Messages, MaybeAgent, MaybeGroup, IdsUsed, TypeOK
<1>21. ASSUME Drop PROVE TypeOK'
  BY <1>21, MessagingAssumption, IdleIsCall DEF Drop, NoSocket, Goes, Ends, Idle, Calls, Messages, MaybeAgent, MaybeGroup, IdsUsed, TypeOK
<1>22. ASSUME Wakes PROVE TypeOK'
  BY <1>22 DEF Wakes, TypeOK
<1>23. ASSUME RefreshAnswered PROVE TypeOK'
  BY <1>23 DEF RefreshAnswered, MaybeAgent, TypeOK
<1>24. ASSUME Redials PROVE TypeOK'
  BY <1>24 DEF Redials, Online, MaybeAgent, TypeOK
<1>25. ASSUME Disconnect PROVE TypeOK'
  BY <1>25, MessagingAssumption, IdleIsCall DEF Disconnect, NoSocket, Goes, Ends, Idle, Calls, Messages, MaybeAgent, MaybeGroup, IdsUsed, TypeOK
<1>26. ASSUME NEW x \in asks, GroupMessages(x) PROVE TypeOK'
  <2>1. x.group \in MaybeGroup /\ pending[x.id] \in Tasks \union {None}
    BY DEF TypeOK, MaybeGroup
  <2>2. task' \in [Tasks -> Calls]
    <3>1. CASE task' = task
      BY <3>1 DEF TypeOK
    <3>2. CASE pending[x.id] \in Tasks /\ Resolved(pending[x.id], x.group)
      <4>1. [task[pending[x.id]] EXCEPT !.at = "resolved", !.got = x.group] \in Calls
        <5>1. task[pending[x.id]] \in Calls
          BY <3>2 DEF TypeOK
        <5>2. QED
          BY <2>1, <5>1 DEF Calls
      <4>2. QED
        BY <3>2, <4>1, GoesType DEF Resolved
    <3>3. QED
      BY <1>26, <2>1, <3>1, <3>2 DEF GroupMessages
  <2>3. pending' \in [IdsUsed -> Tasks \union {None}] /\ asks' \subseteq [id : IdsUsed, group : Groups]
    BY <1>26 DEF GroupMessages, TypeOK
  <2>4. QED
    BY <1>26, <2>2, <2>3 DEF GroupMessages, TypeOK
<1>27. ASSUME NEW i \in Frames, HandleWsMessage(i) PROVE TypeOK'
  BY <1>27, MessagingAssumption, IdleIsCall DEF HandleWsMessage, Stores, Goes, Ends, Idle, Calls, Messages, MaybeAgent, MaybeGroup, IdsUsed, TypeOK
<1>28. CASE UNCHANGED vars
  BY <1>28, MessagingAssumption, IdleIsCall DEF Goes, Ends, Idle, Calls, Messages, MaybeAgent, MaybeGroup, IdsUsed, TypeOK
<1>29. QED
  BY <1>1, <1>2, <1>3, <1>4, <1>5, <1>6, <1>7, <1>8, <1>9, <1>10, <1>11, <1>12, <1>13, <1>14, <1>15, <1>16, <1>17, <1>18, <1>19, <1>20, <1>21, <1>22, <1>23, <1>24, <1>25, <1>26, <1>27, <1>28 DEF Next

-----------------------------------------------------------------------------
\* What the steps with a structure of their own do to the calls and messages.
LEMMA GoesEffect ==
    ASSUME TypeOK, NEW t \in Tasks, NEW r, Goes(t, r)
    PROVE  task'[t] = r /\ \A u \in Tasks : u # t => task'[u] = task[u]
BY DEF Goes, TypeOK

LEMMA EndsEffect ==
    ASSUME TypeOK, NEW t \in Tasks, Ends(t)
    PROVE  task'[t].at = "idle" /\ \A u \in Tasks : u # t => task'[u] = task[u]
BY GoesEffect DEF Ends, Idle

LEMMA SendsEffect ==
    ASSUME TypeOK, NEW t \in Tasks, NEW op \in {"message", "group", "file"},
           NEW at \in {"ws", "rest"}, Sends(t, op, at)
    PROVE  /\ made + 1 \in 1..MaxSends /\ made' = made + 1
           /\ task'[t].at = at /\ task'[t].num = made + 1
           /\ task'[t].of = token /\ task'[t].who = None
           /\ \A u \in Tasks : u # t => task'[u] = task[u]
           /\ sends'[made + 1] = [sends[made + 1] EXCEPT !.who = active]
           /\ \A n \in 1..MaxSends : n # made + 1 => sends'[n] = sends[n]
<1>1. made + 1 \in 1..MaxSends /\ made' = made + 1
  BY MessagingAssumption DEF Sends, TypeOK
<1>2. /\ task'[t] = [Idle EXCEPT !.at = at, !.op = op, !.num = made + 1, !.of = token]
      /\ \A u \in Tasks : u # t => task'[u] = task[u]
  BY GoesEffect DEF Sends
<1>3. sends' = [sends EXCEPT ![made + 1] = [sends[made + 1] EXCEPT !.who = active]]
  BY DEF Sends
<1>4. QED
  BY <1>1, <1>2, <1>3 DEF TypeOK, Idle

LEMMA BecomesEffect ==
    ASSUME TypeOK, NEW t \in Tasks, task[t].num \in 1..MaxSends, NEW S, Becomes(t, S)
    PROVE  /\ sends'[task[t].num] \in S
           /\ \A n \in 1..MaxSends : n # task[t].num => sends'[n] = sends[n]
BY DEF Becomes, TypeOK

\* send_message falls back on REST, with the token of that moment.
LEMMA FallsBackEffect ==
    ASSUME TypeOK, NEW t \in Tasks, Goes(t, [task[t] EXCEPT !.at = "rest", !.of = token])
    PROVE  /\ task'[t].at = "rest" /\ task'[t].num = task[t].num
           /\ task'[t].of = token /\ task'[t].who = task[t].who
           /\ \A u \in Tasks : u # t => task'[u] = task[u]
<1>1. task[t] \in Calls
  BY DEF TypeOK
<1>2. /\ task'[t] = [task[t] EXCEPT !.at = "rest", !.of = token]
      /\ \A u \in Tasks : u # t => task'[u] = task[u]
  BY GoesEffect
<1>3. QED
  BY <1>1, <1>2 DEF Calls

\* A request for a history: its id is the latest, and new if time passes.
LEMMA AskEffect ==
    ASSUME TypeOK, NEW t \in Tasks, NEW g \in Groups, GetGroupMessages(t, g)
    PROVE  /\ lastId' \in IdsUsed /\ (spread => lastId' = lastId + 1)
           /\ \/ /\ asks' = asks \union {[id |-> lastId', group |-> g]}
                 /\ task'[t].at = "wait" /\ task'[t].num = lastId' /\ task'[t].of = g
              \/ asks' = asks /\ task'[t] = task[t]
           /\ \A u \in Tasks : u # t => task'[u] = task[u]
<1>1. PICK id \in IdsUsed :
         /\ id \in (IF spread THEN {} ELSE {lastId}) \union {lastId + 1}
         /\ lastId' = id
         /\ \/ /\ asks' = asks \union {[id |-> id, group |-> g]}
               /\ Goes(t, [Idle EXCEPT !.at = "wait", !.of = g, !.num = id])
            \/ UNCHANGED <<asks, task>>
  BY DEF GetGroupMessages
<1>2. CASE UNCHANGED <<asks, task>>
  BY <1>1, <1>2
<1>3. CASE Goes(t, [Idle EXCEPT !.at = "wait", !.of = g, !.num = id])
  <2>1. /\ task'[t] = [Idle EXCEPT !.at = "wait", !.of = g, !.num = id]
        /\ \A u \in Tasks : u # t => task'[u] = task[u]
    BY <1>3, GoesEffect
  <2>2. task'[t].at = "wait" /\ task'[t].num = id /\ task'[t].of = g
    BY <2>1 DEF Idle
  <2>3. lastId' = id /\ lastId' \in IdsUsed /\ (spread => lastId' = lastId + 1)
    BY <1>1
  <2>4. CASE asks' = asks \union {[id |-> id, group |-> g]}
    BY <2>1, <2>2, <2>3, <2>4
  <2>5. CASE UNCHANGED <<asks, task>>
    BY <1>2, <2>5
  <2>6. QED
    BY <1>1, <2>4, <2>5
<1>4. QED
  BY <1>1, <1>2, <1>3

\* An answer: the one call that may change waits for this id.
LEMMA AnswerEffect ==
    ASSUME TypeOK, NEW x \in asks, GroupMessages(x)
    PROVE  \A u \in Tasks :
              \/ task'[u] = task[u]
              \/ /\ Waiting(u) /\ task[u].num = x.id
                 /\ task'[u].at = "resolved" /\ task'[u].of = task[u].of
                 /\ task'[u].got = x.group
<1> DEFINE t == pending[x.id]
<1>1. t \in Tasks \union {None}
  BY DEF TypeOK
<1>2. CASE task' = task
  BY <1>2
<1>3. CASE t \in Tasks /\ Waiting(t) /\ task[t].num = x.id /\ Resolved(t, x.group)
  <2>1. /\ task'[t] = [task[t] EXCEPT !.at = "resolved", !.got = x.group]
        /\ \A u \in Tasks : u # t => task'[u] = task[u]
    BY <1>3, GoesEffect DEF Resolved
  <2>2. task[t] \in Calls
    BY <1>3 DEF TypeOK
  <2>3. QED
    BY <1>3, <2>1, <2>2 DEF Calls
<1>4. QED
  BY <1>1, <1>2, <1>3 DEF GroupMessages, Waiting

\* The steps that do nothing to requests, messages or owners.
LEMMA HistoryQuiet ==
    ASSUME HistoryInv, asks' = asks, UNCHANGED <<lastId, spread>>,
           \A u \in Tasks : task'[u] = task[u] \/ task'[u].at \notin {"wait", "resolved"}
    PROVE  HistoryInv'
BY DEF HistoryInv, Waiting

LEMMA OutboxQuiet ==
    ASSUME OutboxInv, UNCHANGED <<made, sends, clean>>,
           \A u \in Tasks : \/ task'[u].at \notin {"ws", "rest"}
                            \/ task'[u].at = task[u].at /\ task'[u].num = task[u].num
    PROVE  OutboxInv'
BY DEF OutboxInv, HonestOutcome, Sending, Fresh

LEMMA OwnerQuiet ==
    ASSUME OwnerInv, UNCHANGED <<mixed, identity, line, made, sends, careful>>,
           careful => ready,
           \A u \in Tasks : task'[u] = task[u]
                           \/ task'[u].at \notin {"login", "list", "ws", "rest"}
    PROVE  OwnerInv'
BY DEF OwnerInv, TokensKept, SocketKept, Sending, identity, line

LEMMA HistoryStep == TypeOK /\ HistoryInv /\ [Next]_vars => HistoryInv'
<1> SUFFICES ASSUME TypeOK, HistoryInv, [Next]_vars PROVE HistoryInv'
  OBVIOUS
<1> USE DEF vars, identity, line, outbox, history, modes
<1>1. ASSUME NEW t \in Tasks, Login(t) PROVE HistoryInv'
  BY <1>1, MessagingAssumption DEF Login, Goes, Ends, Idle, HistoryInv, Waiting, Calls, IdsUsed, TypeOK, MayCall
<1>2. ASSUME NEW t \in Tasks, LoginAnswered(t) PROVE HistoryInv'
  BY <1>2, MessagingAssumption DEF LoginAnswered, LoggedIn, Goes, Ends, Idle, HistoryInv, Waiting, Calls, IdsUsed, TypeOK, MayCall
<1>3. ASSUME NEW t \in Tasks, EnsureAuth(t) PROVE HistoryInv'
  BY <1>3, AuthEffect, HistoryQuiet DEF EnsureAuth
<1>4. ASSUME NEW t \in Tasks, Repeats(t) PROVE HistoryInv'
  BY <1>4, AuthEffect, HistoryQuiet DEF Repeats
<1>5. ASSUME NEW t \in Tasks, Connect(t) PROVE HistoryInv'
  BY <1>5, MessagingAssumption DEF Connect, Goes, Ends, Idle, HistoryInv, Waiting, Calls, IdsUsed, TypeOK, MayCall
<1>6. ASSUME NEW t \in Tasks, Dialled(t) PROVE HistoryInv'
  BY <1>6, MessagingAssumption DEF Dialled, Online, Goes, Ends, Idle, HistoryInv, Waiting, Calls, IdsUsed, TypeOK, MayCall
<1>7. ASSUME NEW t \in Tasks, SendMessage(t) PROVE HistoryInv'
  BY <1>7, MessagingAssumption DEF SendMessage, Sends, Goes, Ends, Idle, HistoryInv, Waiting, Calls, IdsUsed, TypeOK, MayCall
<1>8. ASSUME NEW t \in Tasks, SendGroupMessage(t) PROVE HistoryInv'
  BY <1>8, MessagingAssumption DEF SendGroupMessage, Sends, Goes, Ends, Idle, HistoryInv, Waiting, Calls, IdsUsed, TypeOK, MayCall
<1>9. ASSUME NEW t \in Tasks, SendFileMessage(t) PROVE HistoryInv'
  BY <1>9, MessagingAssumption DEF SendFileMessage, Sends, Goes, Ends, Idle, HistoryInv, Waiting, Calls, IdsUsed, TypeOK, MayCall
<1>10. ASSUME NEW t \in Tasks, UploadFile(t) PROVE HistoryInv'
  BY <1>10, MessagingAssumption DEF UploadFile, Goes, Ends, Idle, HistoryInv, Waiting, Calls, IdsUsed, TypeOK, MayCall
<1>11. ASSUME NEW t \in Tasks, SendFile(t) PROVE HistoryInv'
  <2>1. CASE Sends(t, "file", "ws")
    <3>1. \A u \in Tasks : task'[u] = task[u] \/ task'[u].at \notin {"wait", "resolved"}
      BY <2>1, SendsEffect
    <3>2. QED
      BY <2>1, <3>1, HistoryQuiet DEF Sends
  <2>2. CASE Ends(t) /\ UNCHANGED <<identity, line, outbox, mixed, history, seen, modes>>
    BY <2>2, EndsEffect, HistoryQuiet
  <2>3. QED
    BY <1>11, <2>1, <2>2 DEF SendFile
<1>12. ASSUME NEW t \in Tasks, WsSent(t) PROVE HistoryInv'
  BY <1>12, MessagingAssumption DEF WsSent, Becomes, Arrives, Returns, Raises, Untouched, Goes, Ends, Idle, HistoryInv, Waiting, Calls, IdsUsed, TypeOK, MayCall
<1>13. ASSUME NEW t \in Tasks, WsFailed(t) PROVE HistoryInv'
  <2>1. \A u \in Tasks : task'[u] = task[u] \/ task'[u].at \notin {"wait", "resolved"}
    <3>1. CASE Goes(t, [task[t] EXCEPT !.at = "rest", !.of = token])
      BY <3>1, FallsBackEffect
    <3>2. CASE Ends(t)
      BY <3>2, EndsEffect
    <3>3. QED
      BY <1>13, <3>1, <3>2 DEF WsFailed
  <2>2. QED
    BY <1>13, <2>1, HistoryQuiet DEF WsFailed, Untouched
<1>14. ASSUME NEW t \in Tasks, RestAnswered(t) PROVE HistoryInv'
  BY <1>14, MessagingAssumption DEF RestAnswered, Becomes, Arrives, Returns, Raises, Untouched, Goes, Ends, Idle, HistoryInv, Waiting, Calls, IdsUsed, TypeOK, MayCall
<1>15. ASSUME NEW t \in Tasks, Lists(t) PROVE HistoryInv'
  BY <1>15, MessagingAssumption DEF Lists, Goes, Ends, Idle, HistoryInv, Waiting, Calls, IdsUsed, TypeOK, MayCall
<1>16. ASSUME NEW t \in Tasks, ListAnswered(t) PROVE HistoryInv'
  BY <1>16, MessagingAssumption DEF ListAnswered, Stores, Goes, Ends, Idle, HistoryInv, Waiting, Calls, IdsUsed, TypeOK, MayCall
<1>17. ASSUME NEW t \in Tasks, NEW g \in Groups, GetGroupMessages(t, g) PROVE HistoryInv'
  <2> SUFFICES ASSUME spread PROVE HistoryInv'
    BY <1>17 DEF HistoryInv, GetGroupMessages
  <2>1. /\ lastId' = lastId + 1 /\ lastId \in Nat
        /\ \A y \in asks : y.id \in Nat
        /\ \A u \in Tasks : task[u].num \in Nat
    BY AskEffect, <1>17, MessagingAssumption DEF TypeOK, IdsUsed, Calls
  <2>2. /\ \A y \in asks : y.id < lastId'
        /\ \A u \in Tasks : Waiting(u) => task[u].num < lastId'
    BY <2>1 DEF HistoryInv
  <2>3. CASE asks' = asks /\ task'[t] = task[t]
    BY <1>17, <2>1, <2>3, AskEffect DEF HistoryInv, Waiting
  <2>4. CASE /\ asks' = asks \union {[id |-> lastId', group |-> g]}
             /\ task'[t].at = "wait" /\ task'[t].num = lastId' /\ task'[t].of = g
    BY <1>17, <2>1, <2>2, <2>4, AskEffect DEF HistoryInv, Waiting
  <2>5. QED
    BY <1>17, <2>3, <2>4, AskEffect
<1>18. ASSUME NEW t \in Tasks, HistoryReturns(t) PROVE HistoryInv'
  BY <1>18, MessagingAssumption DEF HistoryReturns, Goes, Ends, Idle, HistoryInv, Waiting, Calls, IdsUsed, TypeOK, MayCall
<1>19. ASSUME NEW t \in Tasks, HistoryTimesOut(t) PROVE HistoryInv'
  BY <1>19, MessagingAssumption DEF HistoryTimesOut, Goes, Ends, Idle, HistoryInv, Waiting, Calls, IdsUsed, TypeOK, MayCall
<1>20. ASSUME NEW a \in Agents, Switch(a) PROVE HistoryInv'
  BY <1>20, MessagingAssumption DEF Switch, Goes, Ends, Idle, HistoryInv, Waiting, Calls, IdsUsed, TypeOK, MayCall
<1>21. ASSUME Drop PROVE HistoryInv'
  BY <1>21, MessagingAssumption DEF Drop, NoSocket, Goes, Ends, Idle, HistoryInv, Waiting, Calls, IdsUsed, TypeOK, MayCall
<1>22. ASSUME Wakes PROVE HistoryInv'
  BY <1>22, HistoryQuiet DEF Wakes
<1>23. ASSUME RefreshAnswered PROVE HistoryInv'
  BY <1>23, HistoryQuiet DEF RefreshAnswered
<1>24. ASSUME Redials PROVE HistoryInv'
  BY <1>24, HistoryQuiet DEF Redials
<1>25. ASSUME Disconnect PROVE HistoryInv'
  BY <1>25, MessagingAssumption DEF Disconnect, NoSocket, Goes, Ends, Idle, HistoryInv, Waiting, Calls, IdsUsed, TypeOK, MayCall
<1>26. ASSUME NEW x \in asks, GroupMessages(x) PROVE HistoryInv'
  <2>1. asks' \subseteq asks /\ lastId' = lastId /\ spread' = spread
    BY <1>26 DEF GroupMessages
  <2>2. QED
    BY <1>26, <2>1, AnswerEffect DEF HistoryInv, Waiting
<1>27. ASSUME NEW i \in Frames, HandleWsMessage(i) PROVE HistoryInv'
  BY <1>27, MessagingAssumption DEF HandleWsMessage, Stores, Goes, Ends, Idle, HistoryInv, Waiting, Calls, IdsUsed, TypeOK, MayCall
<1>28. CASE UNCHANGED vars
  BY <1>28, MessagingAssumption DEF Goes, Ends, Idle, HistoryInv, Waiting, Calls, IdsUsed, TypeOK, MayCall
<1>29. QED
  BY <1>1, <1>2, <1>3, <1>4, <1>5, <1>6, <1>7, <1>8, <1>9, <1>10, <1>11, <1>12, <1>13, <1>14, <1>15, <1>16, <1>17, <1>18, <1>19, <1>20, <1>21, <1>22, <1>23, <1>24, <1>25, <1>26, <1>27, <1>28 DEF Next

\* A new message is open and has a sender of its own.
LEMMA SendsKeepOutbox ==
    ASSUME TypeOK, OutboxInv, NEW t \in Tasks, NEW op \in {"message", "group", "file"},
           NEW at \in {"ws", "rest"}, Sends(t, op, at)
    PROVE  OutboxInv'
<1>1. made \in Nat /\ MaxSends \in Nat /\ made' = made + 1 /\ clean' = clean
  BY MessagingAssumption, SendsEffect DEF TypeOK, Sends, modes
<1>2. sends[made + 1] = Unsent /\ made + 1 \in 1..MaxSends
  BY <1>1, SendsEffect DEF OutboxInv
<1>3. /\ sends'[made + 1].outcome = "open" /\ ~sends'[made + 1].kept
      /\ sends'[made + 1].arrived = 0
  BY <1>2, SendsEffect DEF Unsent
<1>4. \A n \in 1..MaxSends : n # made + 1 => sends'[n] = sends[n]
  BY SendsEffect
<1>5. \A n \in 1..MaxSends : n > made' => sends'[n] = Unsent
  BY <1>1, <1>4 DEF OutboxInv
<1>6. ASSUME NEW u \in Tasks, Sending(u)'
      PROVE  \/ u = t /\ task'[u].num = made + 1
             \/ /\ u # t /\ task'[u] = task[u] /\ Sending(u)
                /\ task[u].num \in 1..made /\ sends'[task[u].num] = sends[task[u].num]
  BY <1>1, <1>2, <1>4, <1>6, SendsEffect DEF OutboxInv, Sending
<1>7. \A u \in Tasks : Sending(u)' => /\ task'[u].num \in 1..made'
                                      /\ Fresh(task[u].num)'
  BY <1>1, <1>3, <1>6 DEF OutboxInv, Fresh
<1>8. \A u, v \in Tasks : Sending(u)' /\ Sending(v)' /\ u # v => task'[u].num # task'[v].num
  BY <1>1, <1>6 DEF OutboxInv
<1>9. HonestOutcome'
  <2> SUFFICES ASSUME NEW n \in 1..made'
               PROVE  /\ sends'[n].kept => sends'[n].outcome = "sent"
                      /\ clean' /\ sends'[n].outcome = "sent" => sends'[n].kept
                      /\ clean' => sends'[n].arrived <= 1
                      /\ clean' /\ sends'[n].outcome = "raised" => sends'[n].arrived = 0
    BY DEF HonestOutcome
  <2>1. CASE n = made + 1
    BY <1>3, <2>1
  <2>2. CASE n \in 1..made
    BY <1>1, <1>2, <1>4, <2>2 DEF OutboxInv, HonestOutcome
  <2>3. QED
    BY <1>1, <2>1, <2>2
<1>10. QED
  BY <1>5, <1>7, <1>8, <1>9 DEF OutboxInv

\* A message that is being sent ends truthfully, or is tried again while open.
LEMMA ResultKeepsOutbox ==
    ASSUME TypeOK, OutboxInv, NEW t \in Tasks, Sending(t), made' = made, clean' = clean,
           \A u \in Tasks : u # t => task'[u] = task[u],
           \/ task'[t].at \notin {"ws", "rest"}
           \/ task'[t].num = task[t].num /\ Fresh(task[t].num)',
           \A n \in 1..MaxSends : n # task[t].num => sends'[n] = sends[n],
           sends'[task[t].num].kept => sends'[task[t].num].outcome = "sent",
           clean /\ sends'[task[t].num].outcome = "sent" => sends'[task[t].num].kept,
           clean => sends'[task[t].num].arrived <= 1,
           clean /\ sends'[task[t].num].outcome = "raised" => sends'[task[t].num].arrived = 0
    PROVE  OutboxInv'
<1>1. made \in 0..MaxSends /\ MaxSends \in Nat /\ task[t].num \in 1..made
  BY MessagingAssumption DEF TypeOK, OutboxInv
<1>2. \A n \in 1..MaxSends : n > made' => sends'[n] = Unsent
  BY <1>1 DEF OutboxInv
<1>3. ASSUME NEW u \in Tasks, Sending(u)'
      PROVE  \/ u = t /\ task'[u].num = task[t].num /\ Fresh(task[t].num)'
             \/ /\ u # t /\ task'[u] = task[u] /\ Sending(u)
                /\ task[u].num \in 1..made /\ task[u].num # task[t].num
                /\ sends'[task[u].num] = sends[task[u].num]
  <2>1. CASE u = t
    BY <1>3, <2>1 DEF Sending
  <2>2. CASE u # t
    BY <1>1, <1>3, <2>2 DEF OutboxInv, Sending
  <2>3. QED
    BY <2>1, <2>2
<1>4. \A u \in Tasks : Sending(u)' => /\ task'[u].num \in 1..made'
                                      /\ Fresh(task[u].num)'
  BY <1>1, <1>3 DEF OutboxInv, Fresh
<1>5. \A u, v \in Tasks : Sending(u)' /\ Sending(v)' /\ u # v => task'[u].num # task'[v].num
  BY <1>3 DEF OutboxInv
<1>6. HonestOutcome'
  BY <1>1 DEF OutboxInv, HonestOutcome
<1>7. QED
  BY <1>2, <1>4, <1>5, <1>6 DEF OutboxInv

LEMMA OutboxStep == TypeOK /\ OutboxInv /\ [Next]_vars => OutboxInv'
<1> SUFFICES ASSUME TypeOK, OutboxInv, [Next]_vars PROVE OutboxInv'
  OBVIOUS
<1> USE DEF vars, identity, line, outbox, history, modes
<1>1. ASSUME NEW t \in Tasks, Login(t) PROVE OutboxInv'
  BY <1>1, MessagingAssumption DEF Login, Goes, Ends, Idle, OutboxInv, Sending, Fresh, HonestOutcome, Unsent, TypeOK, MayCall
<1>2. ASSUME NEW t \in Tasks, LoginAnswered(t) PROVE OutboxInv'
  BY <1>2, MessagingAssumption DEF LoginAnswered, LoggedIn, Goes, Ends, Idle, OutboxInv, Sending, Fresh, HonestOutcome, Unsent, TypeOK, MayCall
<1>3. ASSUME NEW t \in Tasks, EnsureAuth(t) PROVE OutboxInv'
  BY <1>3, AuthEffect, OutboxQuiet DEF EnsureAuth
<1>4. ASSUME NEW t \in Tasks, Repeats(t) PROVE OutboxInv'
  BY <1>4, AuthEffect, OutboxQuiet DEF Repeats
<1>5. ASSUME NEW t \in Tasks, Connect(t) PROVE OutboxInv'
  BY <1>5, MessagingAssumption DEF Connect, Goes, Ends, Idle, OutboxInv, Sending, Fresh, HonestOutcome, Unsent, TypeOK, MayCall
<1>6. ASSUME NEW t \in Tasks, Dialled(t) PROVE OutboxInv'
  BY <1>6, MessagingAssumption DEF Dialled, Online, Goes, Ends, Idle, OutboxInv, Sending, Fresh, HonestOutcome, Unsent, TypeOK, MayCall
<1>7. ASSUME NEW t \in Tasks, SendMessage(t) PROVE OutboxInv'
  <2>1. PICK op \in {"message", "group", "file"}, at \in {"ws", "rest"} : Sends(t, op, at)
    BY <1>7 DEF SendMessage
  <2>2. QED
    BY <2>1, SendsKeepOutbox
<1>8. ASSUME NEW t \in Tasks, SendGroupMessage(t) PROVE OutboxInv'
  <2>1. PICK op \in {"message", "group", "file"}, at \in {"ws", "rest"} : Sends(t, op, at)
    BY <1>8 DEF SendGroupMessage
  <2>2. QED
    BY <2>1, SendsKeepOutbox
<1>9. ASSUME NEW t \in Tasks, SendFileMessage(t) PROVE OutboxInv'
  <2>1. PICK op \in {"message", "group", "file"}, at \in {"ws", "rest"} : Sends(t, op, at)
    BY <1>9 DEF SendFileMessage
  <2>2. QED
    BY <2>1, SendsKeepOutbox
<1>10. ASSUME NEW t \in Tasks, UploadFile(t) PROVE OutboxInv'
  BY <1>10, MessagingAssumption DEF UploadFile, Goes, Ends, Idle, OutboxInv, Sending, Fresh, HonestOutcome, Unsent, TypeOK, MayCall
<1>11. ASSUME NEW t \in Tasks, SendFile(t) PROVE OutboxInv'
  <2>1. CASE Sends(t, "file", "ws")
    BY <2>1, SendsKeepOutbox
  <2>2. CASE Ends(t) /\ UNCHANGED <<identity, line, outbox, mixed, history, seen, modes>>
    BY <2>2, EndsEffect, OutboxQuiet
  <2>3. QED
    BY <1>11, <2>1, <2>2 DEF SendFile
<1>12. ASSUME NEW t \in Tasks, WsSent(t) PROVE OutboxInv'
  <2> DEFINE k == task[t].num
             s == sends[k]
  <2>1. Sending(t) /\ k \in 1..MaxSends /\ s \in Messages
    BY <1>12, MessagingAssumption DEF WsSent, Sending, OutboxInv, TypeOK
  <2>2. s.outcome = "open" /\ ~s.kept /\ (clean => s.arrived = 0)
    BY <2>1 DEF OutboxInv, Fresh
  <2> DEFINE op == task[t].op
             results == {Returns(x) : x \in Reaches(s)}
                        \union (IF clean THEN {} ELSE {Unrecorded(x, op) : x \in Reaches(s)})
  <2>3. /\ sends'[k] \in results
        /\ \A n \in 1..MaxSends : n # k => sends'[n] = sends[n]
    <3>1. Becomes(t, results)
      BY <1>12 DEF WsSent
    <3>2. QED
      BY <2>1, <3>1, BecomesEffect
  <2>4. /\ sends'[k].kept => sends'[k].outcome = "sent"
        /\ clean /\ sends'[k].outcome = "sent" => sends'[k].kept
        /\ clean => sends'[k].arrived <= 1
        /\ clean /\ sends'[k].outcome = "raised" => sends'[k].arrived = 0
    <3>1. \A x \in Reaches(s) : x \in Messages /\ ~x.kept /\ (clean => x.arrived <= 1)
      BY <2>1, <2>2, ReachesSteps
    <3>2. CASE \E x \in Reaches(s) : sends'[k] = Returns(x)
      BY <3>1, <3>2, MessageFields
    <3>3. CASE ~clean /\ \E x \in Reaches(s) : sends'[k] = Unrecorded(x, op)
      <4>1. ~sends'[k].kept
        BY <3>1, <3>3, UnrecordedFields
      <4>2. QED
        BY <3>3, <4>1
    <3>4. QED
      BY <2>3, <3>2, <3>3
  <2>5. QED
    BY <1>12, <2>1, <2>3, <2>4, EndsEffect, ResultKeepsOutbox DEF WsSent, Untouched
<1>13. ASSUME NEW t \in Tasks, WsFailed(t) PROVE OutboxInv'
  <2> DEFINE k == task[t].num
             s == sends[k]
  <2>1. Sending(t) /\ k \in 1..MaxSends /\ s \in Messages
    BY <1>13, MessagingAssumption DEF WsFailed, Sending, OutboxInv, TypeOK
  <2>2. s.outcome = "open" /\ ~s.kept /\ (clean => s.arrived = 0)
    BY <2>1 DEF OutboxInv, Fresh
  <2> DEFINE after == IF ~clean /\ link = "up" THEN Reaches(s) ELSE {s}
  <2>3. \A x \in after : x.outcome = "open" /\ ~x.kept /\ (clean => x.arrived = 0)
    BY <2>1, <2>2, ReachesSteps
  <2>4. CASE task[t].op = "message"
    <3>1. /\ sends'[k] \in after
          /\ \A n \in 1..MaxSends : n # k => sends'[n] = sends[n]
      BY <1>13, <2>1, <2>4, BecomesEffect DEF WsFailed
    <3>2. /\ task'[t].num = k
          /\ \A u \in Tasks : u # t => task'[u] = task[u]
      <4>1. Goes(t, [task[t] EXCEPT !.at = "rest", !.of = token])
        BY <1>13, <2>4 DEF WsFailed
      <4>2. QED
        BY <4>1, FallsBackEffect
    <3>3. made' = made /\ clean' = clean
      BY <1>13 DEF WsFailed, Untouched
    <3>4. Fresh(task[t].num)'
      BY <2>3, <3>1, <3>2, <3>3 DEF Fresh
    <3>5. QED
      BY <2>1, <2>3, <3>1, <3>2, <3>3, <3>4, ResultKeepsOutbox DEF Fresh
  <2>5. CASE task[t].op # "message"
    <3>1. /\ sends'[k] \in {Raises(x) : x \in after}
          /\ \A n \in 1..MaxSends : n # k => sends'[n] = sends[n]
      BY <1>13, <2>1, <2>5, BecomesEffect DEF WsFailed
    <3>2. after \subseteq Messages
      BY <2>1, ReachesSteps
    <3>3. sends'[k].outcome = "raised" /\ ~sends'[k].kept /\ (clean => sends'[k].arrived = 0)
      <4>1. PICK x \in after : sends'[k] = Raises(x)
        BY <3>1
      <4>2. QED
        BY <2>3, <3>2, <4>1, MessageFields
    <3>4. QED
      BY <1>13, <2>1, <2>5, <3>1, <3>3, EndsEffect, ResultKeepsOutbox DEF WsFailed, Untouched
  <2>6. QED
    BY <2>4, <2>5
<1>14. ASSUME NEW t \in Tasks, RestAnswered(t) PROVE OutboxInv'
  <2> DEFINE k == task[t].num
             s == sends[k]
  <2>1. Sending(t) /\ k \in 1..MaxSends /\ s \in Messages
    BY <1>14, MessagingAssumption DEF RestAnswered, Sending, OutboxInv, TypeOK
  <2>2. s.outcome = "open" /\ ~s.kept /\ (clean => s.arrived = 0)
    BY <2>1 DEF OutboxInv, Fresh
  <2> DEFINE a == task[t].of
             results == {Raises(s)}
                        \union (IF a = None THEN {} ELSE {Returns(Arrives(s, a))})
                        \union (IF a = None \/ clean THEN {} ELSE {Raises(Arrives(s, a))})
  <2>3. /\ sends'[k] \in results
        /\ \A n \in 1..MaxSends : n # k => sends'[n] = sends[n]
    <3>1. Becomes(t, results)
      BY <1>14 DEF RestAnswered
    <3>2. QED
      BY <2>1, <3>1, BecomesEffect
  <2>4. /\ sends'[k].kept => sends'[k].outcome = "sent"
        /\ clean /\ sends'[k].outcome = "sent" => sends'[k].kept
        /\ clean => sends'[k].arrived <= 1
        /\ clean /\ sends'[k].outcome = "raised" => sends'[k].arrived = 0
    <3>1. a \in MaybeAgent \union Groups
      BY DEF TypeOK, Calls
    <3>2. Arrives(s, a) \in Messages
      BY <2>1, <3>1, MessageSteps
    <3>3. /\ Arrives(s, a).outcome = "open" /\ ~Arrives(s, a).kept
          /\ clean => Arrives(s, a).arrived = 1
      BY <2>1, <2>2, MessageFields
    <3>4. CASE sends'[k] = Raises(s)
      BY <2>1, <2>2, <3>4, MessageFields
    <3>5. CASE sends'[k] = Returns(Arrives(s, a))
      BY <3>2, <3>3, <3>5, MessageFields
    <3>6. CASE ~clean /\ sends'[k] = Raises(Arrives(s, a))
      BY <3>2, <3>3, <3>6, MessageFields
    <3>7. QED
      BY <2>3, <3>4, <3>5, <3>6
  <2>5. QED
    BY <1>14, <2>1, <2>3, <2>4, EndsEffect, ResultKeepsOutbox DEF RestAnswered, Untouched
<1>15. ASSUME NEW t \in Tasks, Lists(t) PROVE OutboxInv'
  BY <1>15, MessagingAssumption DEF Lists, Goes, Ends, Idle, OutboxInv, Sending, Fresh, HonestOutcome, Unsent, TypeOK, MayCall
<1>16. ASSUME NEW t \in Tasks, ListAnswered(t) PROVE OutboxInv'
  BY <1>16, MessagingAssumption DEF ListAnswered, Stores, Goes, Ends, Idle, OutboxInv, Sending, Fresh, HonestOutcome, Unsent, TypeOK, MayCall
<1>17. ASSUME NEW t \in Tasks, NEW g \in Groups, GetGroupMessages(t, g) PROVE OutboxInv'
  <2>1. \A u \in Tasks : task'[u] = task[u] \/ task'[u].at \notin {"ws", "rest"}
    BY <1>17, AskEffect
  <2>2. QED
    BY <1>17, <2>1, OutboxQuiet DEF GetGroupMessages
<1>18. ASSUME NEW t \in Tasks, HistoryReturns(t) PROVE OutboxInv'
  BY <1>18, MessagingAssumption DEF HistoryReturns, Goes, Ends, Idle, OutboxInv, Sending, Fresh, HonestOutcome, Unsent, TypeOK, MayCall
<1>19. ASSUME NEW t \in Tasks, HistoryTimesOut(t) PROVE OutboxInv'
  BY <1>19, MessagingAssumption DEF HistoryTimesOut, Goes, Ends, Idle, OutboxInv, Sending, Fresh, HonestOutcome, Unsent, TypeOK, MayCall
<1>20. ASSUME NEW a \in Agents, Switch(a) PROVE OutboxInv'
  BY <1>20, MessagingAssumption DEF Switch, Goes, Ends, Idle, OutboxInv, Sending, Fresh, HonestOutcome, Unsent, TypeOK, MayCall
<1>21. ASSUME Drop PROVE OutboxInv'
  BY <1>21, MessagingAssumption DEF Drop, NoSocket, Goes, Ends, Idle, OutboxInv, Sending, Fresh, HonestOutcome, Unsent, TypeOK, MayCall
<1>22. ASSUME Wakes PROVE OutboxInv'
  BY <1>22, OutboxQuiet DEF Wakes
<1>23. ASSUME RefreshAnswered PROVE OutboxInv'
  BY <1>23, OutboxQuiet DEF RefreshAnswered
<1>24. ASSUME Redials PROVE OutboxInv'
  BY <1>24, OutboxQuiet DEF Redials
<1>25. ASSUME Disconnect PROVE OutboxInv'
  BY <1>25, MessagingAssumption DEF Disconnect, NoSocket, Goes, Ends, Idle, OutboxInv, Sending, Fresh, HonestOutcome, Unsent, TypeOK, MayCall
<1>26. ASSUME NEW x \in asks, GroupMessages(x) PROVE OutboxInv'
  <2>1. \A u \in Tasks : task'[u] = task[u] \/ task'[u].at \notin {"ws", "rest"}
    BY <1>26, AnswerEffect
  <2>2. QED
    BY <1>26, <2>1, OutboxQuiet DEF GroupMessages
<1>27. ASSUME NEW i \in Frames, HandleWsMessage(i) PROVE OutboxInv'
  BY <1>27, MessagingAssumption DEF HandleWsMessage, Stores, Goes, Ends, Idle, OutboxInv, Sending, Fresh, HonestOutcome, Unsent, TypeOK, MayCall
<1>28. CASE UNCHANGED vars
  BY <1>28, MessagingAssumption DEF Goes, Ends, Idle, OutboxInv, Sending, Fresh, HonestOutcome, Unsent, TypeOK, MayCall
<1>29. QED
  BY <1>1, <1>2, <1>3, <1>4, <1>5, <1>6, <1>7, <1>8, <1>9, <1>10, <1>11, <1>12, <1>13, <1>14, <1>15, <1>16, <1>17, <1>18, <1>19, <1>20, <1>21, <1>22, <1>23, <1>24, <1>25, <1>26, <1>27, <1>28 DEF Next

\* A new message is sent by the active agent, who is logged in.
LEMMA SendsKeepOwner ==
    ASSUME TypeOK, OwnerInv, NEW t \in Tasks, NEW op \in {"message", "group", "file"},
           NEW at \in {"ws", "rest"}, Sends(t, op, at), careful => ready
    PROVE  OwnerInv'
<1> SUFFICES ASSUME careful PROVE OwnerInv'
  BY DEF OwnerInv, Sends, modes
<1>1. made \in Nat /\ MaxSends \in Nat /\ made' = made + 1
  BY MessagingAssumption, SendsEffect DEF TypeOK
<1>2. sends[made + 1] = Unsent /\ made + 1 \in 1..MaxSends
  BY <1>1, SendsEffect DEF OwnerInv
<1>3. sends'[made + 1].who = active /\ sends'[made + 1].as = {}
  BY <1>2, SendsEffect DEF Unsent
<1>4. \A n \in 1..MaxSends : n # made + 1 => sends'[n] = sends[n]
  BY SendsEffect
<1>5. /\ UNCHANGED <<active, token, renew, ready, rejected, careful>>
      /\ UNCHANGED <<link, asked, socket, mixed>>
  BY DEF Sends, identity, line, modes
<1>6. \A n \in 1..MaxSends : n > made' => sends'[n] = Unsent
  BY <1>1, <1>4 DEF OwnerInv
<1>7. \A n \in 1..made' : sends'[n].as \subseteq {sends'[n].who}
  <2> TAKE n \in 1..made'
  <2>1. CASE n = made + 1
    BY <1>3, <2>1
  <2>2. CASE n \in 1..made
    BY <1>1, <1>2, <1>4, <2>2 DEF OwnerInv
  <2>3. QED
    BY <1>1, <2>1, <2>2
<1>8. ASSUME NEW u \in Tasks
      PROVE  /\ task'[u].at = "login" => task'[u].who = active
             /\ task'[u].at \in {"list", "rest"} => task'[u].of \in {None, active}
             /\ task'[u].at \in {"list", "ws", "rest"} => task'[u].who \in {None, active}
             /\ Sending(u)' => /\ task'[u].num \in 1..made'
                               /\ sends'[task'[u].num].who = active
  <2>1. CASE u = t
    BY <1>1, <1>3, <2>1, SendsEffect DEF OwnerInv, TokensKept
  <2>2. CASE u # t
    BY <1>1, <1>2, <1>4, <2>2, SendsEffect DEF OwnerInv, Sending
  <2>3. QED
    BY <2>1, <2>2
<1>9. QED
  BY <1>5, <1>6, <1>7, <1>8 DEF OwnerInv, TokensKept, SocketKept

\* What arrives of a message arrives in the name of its sender.
LEMMA ResultKeepsOwner ==
    ASSUME TypeOK, OwnerInv, NEW t \in Tasks, Sending(t),
           UNCHANGED <<identity, line, made, mixed, careful>>,
           \A u \in Tasks : u # t => task'[u] = task[u],
           \/ task'[t].at = "idle"
           \/ /\ task'[t].at = "rest" /\ task'[t].num = task[t].num
              /\ task'[t].of = token /\ task'[t].who = task[t].who,
           \A n \in 1..MaxSends : n # task[t].num => sends'[n] = sends[n],
           sends'[task[t].num].who = sends[task[t].num].who,
           careful => sends'[task[t].num].as \subseteq {active}
    PROVE  OwnerInv'
<1> SUFFICES ASSUME careful PROVE OwnerInv'
  BY DEF OwnerInv
<1>1. /\ made \in 0..MaxSends /\ MaxSends \in Nat /\ task[t].num \in 1..made
      /\ sends[task[t].num].who = active
  BY MessagingAssumption DEF TypeOK, OwnerInv
<1>2. /\ UNCHANGED <<active, token, renew, ready, rejected>>
      /\ UNCHANGED <<link, asked, socket>>
  BY DEF identity, line
<1>3. ready /\ token \in {None, active} /\ task[t].who \in {None, active}
  BY DEF OwnerInv, TokensKept, Sending
<1>4. \A n \in 1..MaxSends : n > made' => sends'[n] = Unsent
  BY <1>1 DEF OwnerInv
<1>5. \A n \in 1..made' : sends'[n].as \subseteq {sends'[n].who}
  BY <1>1 DEF OwnerInv
<1>6. ASSUME NEW u \in Tasks
      PROVE  /\ task'[u].at = "login" => task'[u].who = active
             /\ task'[u].at \in {"list", "rest"} => task'[u].of \in {None, active}
             /\ task'[u].at \in {"list", "ws", "rest"} => task'[u].who \in {None, active}
             /\ Sending(u)' => /\ task'[u].num \in 1..made'
                               /\ sends'[task'[u].num].who = active
  <2>1. CASE u = t
    BY <1>1, <1>3, <2>1 DEF Sending
  <2>2. CASE u # t
    BY <1>1, <2>2 DEF OwnerInv, Sending
  <2>3. QED
    BY <2>1, <2>2
<1>7. QED
  BY <1>2, <1>3, <1>4, <1>5, <1>6 DEF OwnerInv, TokensKept, SocketKept

LEMMA OwnerStep == TypeOK /\ OutboxInv /\ OwnerInv /\ [Next]_vars => OwnerInv'
<1> SUFFICES ASSUME TypeOK, OutboxInv, OwnerInv, [Next]_vars PROVE OwnerInv'
  OBVIOUS
<1> USE DEF vars, identity, line, outbox, history, modes
<1>1. ASSUME NEW t \in Tasks, Login(t) PROVE OwnerInv'
  BY <1>1, MessagingAssumption DEF Login, Goes, Ends, Idle, OwnerInv, TokensKept, SocketKept, Sending, Unsent, AllIdle, MayCall, TypeOK
<1>2. ASSUME NEW t \in Tasks, LoginAnswered(t) PROVE OwnerInv'
  <2>1. task'[t].at = "idle" /\ \A u \in Tasks : u # t => task'[u] = task[u]
    BY <1>2, EndsEffect DEF LoginAnswered
  <2>2. careful => task[t].who = active
    BY <1>2 DEF LoginAnswered, OwnerInv
  <2>3. UNCHANGED <<active, line, outbox, mixed, careful>>
    BY <1>2 DEF LoginAnswered, LoggedIn
  <2>4. CASE UNCHANGED identity
    BY <2>1, <2>3, <2>4 DEF OwnerInv, TokensKept, SocketKept, Sending
  <2>5. ASSUME LoggedIn(task[t].who), careful PROVE OwnerInv'
    <3>1. token' = active /\ renew' = active /\ ready' /\ ~rejected'
      BY <2>2, <2>5 DEF LoggedIn
    <3>2. QED
      BY <2>1, <2>3, <3>1 DEF OwnerInv, TokensKept, SocketKept, Sending
  <2>6. QED
    BY <1>2, <2>3, <2>4, <2>5 DEF LoginAnswered, OwnerInv
<1>3. ASSUME NEW t \in Tasks, EnsureAuth(t) PROVE OwnerInv'
  <2>1. ASSUME careful PROVE ready /\ token \in {None, active}
    BY <1>3, <2>1, AuthEffect DEF OwnerInv, TokensKept
  <2>2. QED
    <3> DEFINE who == IF token = None THEN active ELSE token
    <3>1. careful => task'[t].of \in {None, active} /\ task'[t].who = who /\ who \in {None, active}
      BY <1>3, <2>1, AuthEffect
    <3>2. /\ task'[t].at = task[t].at /\ task'[t].num = task[t].num
          /\ task[t].at \in {"rest", "list"}
          /\ \A u \in Tasks : u # t => task'[u] = task[u]
      BY <1>3, AuthEffect
    <3>3. QED
      BY <1>3, <2>1, <3>1, <3>2 DEF EnsureAuth, OwnerInv, TokensKept, SocketKept, Sending
<1>4. ASSUME NEW t \in Tasks, Repeats(t) PROVE OwnerInv'
  <2>1. ASSUME careful PROVE ready /\ task[t].who = active
    BY <1>4, <2>1, AuthEffect DEF Repeats, OwnerInv
  <2>2. /\ task'[t].at = task[t].at /\ task'[t].num = task[t].num
        /\ task[t].at \in {"rest", "list"}
        /\ task'[t].of = task[t].who /\ task'[t].who = task[t].who
        /\ \A u \in Tasks : u # t => task'[u] = task[u]
    BY <1>4, AuthEffect
  <2>3. /\ UNCHANGED <<active, line, outbox, mixed, careful>>
        /\ LoggedIn(task[t].who)
    BY <1>4 DEF Repeats, LoggedIn
  <2>4. careful => token' = active /\ renew' = active /\ ready' /\ ~rejected'
    BY <2>1, <2>3 DEF LoggedIn
  <2>5. QED
    BY <2>1, <2>2, <2>3, <2>4 DEF OwnerInv, TokensKept, SocketKept, Sending
<1>5. ASSUME NEW t \in Tasks, Connect(t) PROVE OwnerInv'
  BY <1>5, MessagingAssumption DEF Connect, Goes, Ends, Idle, OwnerInv, TokensKept, SocketKept, Sending, Unsent, AllIdle, MayCall, TypeOK
<1>6. ASSUME NEW t \in Tasks, Dialled(t) PROVE OwnerInv'
  BY <1>6, MessagingAssumption DEF Dialled, Online, Goes, Ends, Idle, OwnerInv, TokensKept, SocketKept, Sending, Unsent, AllIdle, MayCall, TypeOK
<1>7. ASSUME NEW t \in Tasks, SendMessage(t) PROVE OwnerInv'
  <2>1. PICK op \in {"message", "group", "file"}, at \in {"ws", "rest"} : Sends(t, op, at)
    BY <1>7 DEF SendMessage
  <2>2. careful => ready
    BY <1>7 DEF SendMessage, MayCall
  <2>3. QED
    BY <2>1, <2>2, SendsKeepOwner
<1>8. ASSUME NEW t \in Tasks, SendGroupMessage(t) PROVE OwnerInv'
  <2>1. PICK op \in {"message", "group", "file"}, at \in {"ws", "rest"} : Sends(t, op, at)
    BY <1>8 DEF SendGroupMessage
  <2>2. careful => ready
    BY <1>8 DEF SendGroupMessage, MayCall
  <2>3. QED
    BY <2>1, <2>2, SendsKeepOwner
<1>9. ASSUME NEW t \in Tasks, SendFileMessage(t) PROVE OwnerInv'
  <2>1. PICK op \in {"message", "group", "file"}, at \in {"ws", "rest"} : Sends(t, op, at)
    BY <1>9 DEF SendFileMessage
  <2>2. careful => ready
    BY <1>9 DEF SendFileMessage, MayCall
  <2>3. QED
    BY <2>1, <2>2, SendsKeepOwner
<1>10. ASSUME NEW t \in Tasks, UploadFile(t) PROVE OwnerInv'
  BY <1>10, MessagingAssumption DEF UploadFile, Goes, Ends, Idle, OwnerInv, TokensKept, SocketKept, Sending, Unsent, AllIdle, MayCall, TypeOK
<1>11. ASSUME NEW t \in Tasks, SendFile(t) PROVE OwnerInv'
  <2>1. careful => ready
    BY <1>11 DEF SendFile, OwnerInv
  <2>2. CASE Sends(t, "file", "ws")
    BY <2>1, <2>2, SendsKeepOwner
  <2>3. CASE Ends(t) /\ UNCHANGED <<identity, line, outbox, mixed, history, seen, modes>>
    BY <2>1, <2>3, EndsEffect, OwnerQuiet
  <2>4. QED
    BY <1>11, <2>2, <2>3 DEF SendFile
<1>12. ASSUME NEW t \in Tasks, WsSent(t) PROVE OwnerInv'
  <2> DEFINE k == task[t].num
             s == sends[k]
  <2>1. Sending(t) /\ link = "up"
    BY <1>12 DEF WsSent, Sending
  <2>2. k \in 1..MaxSends /\ s \in Messages
    BY <2>1, MessagingAssumption DEF OutboxInv, TypeOK
  <2>3. careful => s.as \subseteq {active} /\ socket.tok \in {None, active}
    BY <2>1 DEF OwnerInv, SocketKept
  <2> DEFINE op == task[t].op
             results == {Returns(x) : x \in Reaches(s)}
                        \union (IF clean THEN {} ELSE {Unrecorded(x, op) : x \in Reaches(s)})
  <2>4. /\ sends'[k] \in results
        /\ \A n \in 1..MaxSends : n # k => sends'[n] = sends[n]
    <3>1. Becomes(t, results)
      BY <1>12 DEF WsSent
    <3>2. QED
      BY <2>2, <3>1, BecomesEffect
  <2>5. /\ sends'[k].who = s.who
        /\ careful => sends'[k].as \subseteq {active}
    <3>1. \A x \in Reaches(s) : /\ x \in Messages /\ x.who = s.who
                                /\ careful => x.as \subseteq {active}
      BY <2>2, <2>3, ReachesSteps
    <3>2. CASE \E x \in Reaches(s) : sends'[k] = Returns(x)
      BY <3>1, <3>2, MessageFields
    <3>3. CASE \E x \in Reaches(s) : sends'[k] = Unrecorded(x, op)
      BY <3>1, <3>3, UnrecordedFields
    <3>4. QED
      BY <2>4, <3>2, <3>3
  <2>6. QED
    BY <1>12, <2>1, <2>4, <2>5, EndsEffect, ResultKeepsOwner DEF WsSent, Untouched
<1>13. ASSUME NEW t \in Tasks, WsFailed(t) PROVE OwnerInv'
  <2> DEFINE k == task[t].num
             s == sends[k]
             after == IF ~clean /\ link = "up" THEN Reaches(s) ELSE {s}
  <2>1. Sending(t)
    BY <1>13 DEF WsFailed, Sending
  <2>2. k \in 1..MaxSends /\ s \in Messages
    BY <2>1, MessagingAssumption DEF OutboxInv, TypeOK
  <2>3. careful => s.as \subseteq {active} /\ (link = "up" => socket.tok \in {None, active})
    BY <2>1 DEF OwnerInv, SocketKept
  <2>4. \A x \in after : /\ x \in Messages /\ x.who = s.who
                         /\ careful => x.as \subseteq {active}
    BY <2>2, <2>3, ReachesSteps
  <2>5. CASE task[t].op = "message"
    <3>1. /\ sends'[k] \in after
          /\ \A n \in 1..MaxSends : n # k => sends'[n] = sends[n]
      BY <1>13, <2>2, <2>5, BecomesEffect DEF WsFailed
    <3>2. /\ task'[t].at = "rest" /\ task'[t].num = k
          /\ task'[t].of = token /\ task'[t].who = task[t].who
          /\ \A u \in Tasks : u # t => task'[u] = task[u]
      <4>1. Goes(t, [task[t] EXCEPT !.at = "rest", !.of = token])
        BY <1>13, <2>5 DEF WsFailed
      <4>2. QED
        BY <4>1, FallsBackEffect
    <3>3. QED
      BY <1>13, <2>1, <2>4, <3>1, <3>2, ResultKeepsOwner DEF WsFailed, Untouched
  <2>6. CASE task[t].op # "message"
    <3>1. /\ sends'[k] \in {Raises(x) : x \in after}
          /\ \A n \in 1..MaxSends : n # k => sends'[n] = sends[n]
      BY <1>13, <2>2, <2>6, BecomesEffect DEF WsFailed
    <3>2. sends'[k].who = s.who /\ (careful => sends'[k].as \subseteq {active})
      <4>1. PICK x \in after : sends'[k] = Raises(x)
        BY <3>1
      <4>2. QED
        BY <2>4, <4>1, MessageFields
    <3>3. QED
      BY <1>13, <2>1, <2>6, <3>1, <3>2, EndsEffect, ResultKeepsOwner DEF WsFailed, Untouched
  <2>7. QED
    BY <2>5, <2>6
<1>14. ASSUME NEW t \in Tasks, RestAnswered(t) PROVE OwnerInv'
  <2> DEFINE k == task[t].num
             s == sends[k]
             a == task[t].of
             results == {Raises(s)}
                        \union (IF a = None THEN {} ELSE {Returns(Arrives(s, a))})
                        \union (IF a = None \/ clean THEN {} ELSE {Raises(Arrives(s, a))})
  <2>1. Sending(t)
    BY <1>14 DEF RestAnswered, Sending
  <2>2. k \in 1..MaxSends /\ s \in Messages
    BY <2>1, MessagingAssumption DEF OutboxInv, TypeOK
  <2>3. careful => s.as \subseteq {active} /\ a \in {None, active}
    BY <1>14, <2>1 DEF OwnerInv, RestAnswered
  <2>4. /\ sends'[k] \in results
        /\ \A n \in 1..MaxSends : n # k => sends'[n] = sends[n]
    <3>1. Becomes(t, results)
      BY <1>14 DEF RestAnswered
    <3>2. QED
      BY <2>2, <3>1, BecomesEffect
  <2>5. /\ sends'[k].who = s.who
        /\ careful => sends'[k].as \subseteq {active}
    <3>1. a \in MaybeAgent \union Groups
      BY DEF TypeOK, Calls
    <3>2. Arrives(s, a) \in Messages
      BY <2>2, <3>1, MessageSteps
    <3>3. CASE sends'[k] = Raises(s)
      BY <2>2, <2>3, <3>3, MessageFields
    <3>4. CASE a # None /\ sends'[k] = Returns(Arrives(s, a))
      BY <2>2, <2>3, <3>2, <3>4, MessageFields
    <3>5. CASE a # None /\ sends'[k] = Raises(Arrives(s, a))
      BY <2>2, <2>3, <3>2, <3>5, MessageFields
    <3>6. QED
      BY <2>4, <3>3, <3>4, <3>5
  <2>6. QED
    BY <1>14, <2>1, <2>4, <2>5, EndsEffect, ResultKeepsOwner DEF RestAnswered, Untouched
<1>15. ASSUME NEW t \in Tasks, Lists(t) PROVE OwnerInv'
  BY <1>15, MessagingAssumption DEF Lists, Goes, Ends, Idle, OwnerInv, TokensKept, SocketKept, Sending, Unsent, AllIdle, MayCall, TypeOK
<1>16. ASSUME NEW t \in Tasks, ListAnswered(t) PROVE OwnerInv'
  BY <1>16, MessagingAssumption DEF ListAnswered, Stores, Goes, Ends, Idle, OwnerInv, TokensKept, SocketKept, Sending, Unsent, AllIdle, MayCall, TypeOK
<1>17. ASSUME NEW t \in Tasks, NEW g \in Groups, GetGroupMessages(t, g) PROVE OwnerInv'
  <2>1. \A u \in Tasks : task'[u] = task[u] \/ task'[u].at = "wait"
    BY <1>17, AskEffect
  <2>2. QED
    BY <1>17, <2>1, OwnerQuiet DEF GetGroupMessages, MayCall
<1>18. ASSUME NEW t \in Tasks, HistoryReturns(t) PROVE OwnerInv'
  BY <1>18, MessagingAssumption DEF HistoryReturns, Goes, Ends, Idle, OwnerInv, TokensKept, SocketKept, Sending, Unsent, AllIdle, MayCall, TypeOK
<1>19. ASSUME NEW t \in Tasks, HistoryTimesOut(t) PROVE OwnerInv'
  BY <1>19, MessagingAssumption DEF HistoryTimesOut, Goes, Ends, Idle, OwnerInv, TokensKept, SocketKept, Sending, Unsent, AllIdle, MayCall, TypeOK
<1>20. ASSUME NEW a \in Agents, Switch(a) PROVE OwnerInv'
  BY <1>20, MessagingAssumption DEF Switch, Goes, Ends, Idle, OwnerInv, TokensKept, SocketKept, Sending, Unsent, AllIdle, MayCall, TypeOK
<1>21. ASSUME Drop PROVE OwnerInv'
  BY <1>21, MessagingAssumption DEF Drop, NoSocket, Goes, Ends, Idle, OwnerInv, TokensKept, SocketKept, Sending, Unsent, AllIdle, MayCall, TypeOK
<1>22. ASSUME Wakes PROVE OwnerInv'
  BY <1>22 DEF Wakes, OwnerInv, TokensKept, SocketKept, Sending
<1>23. ASSUME RefreshAnswered PROVE OwnerInv'
  <2> SUFFICES ASSUME careful PROVE OwnerInv'
    BY <1>23 DEF RefreshAnswered, OwnerInv
  <2>1. ready /\ asked = active /\ TokensKept
    BY <1>23 DEF RefreshAnswered, OwnerInv
  <2>2. link' = "redial" /\ UNCHANGED <<active, ready, mixed, task, outbox, careful>>
    BY <1>23 DEF RefreshAnswered
  <2>3. TokensKept'
    <3>1. CASE token' = asked /\ renew' \in {renew, asked} /\ rejected' = FALSE
      BY <2>1, <2>2, <3>1 DEF TokensKept
    <3>2. CASE token' = None /\ renew' = None /\ rejected' = careful
      BY <2>2, <3>2 DEF TokensKept
    <3>3. CASE UNCHANGED <<token, renew, rejected>>
      BY <2>1, <2>2, <3>3 DEF TokensKept
    <3>4. QED
      BY <1>23, <3>1, <3>2, <3>3 DEF RefreshAnswered
  <2>4. QED
    BY <2>1, <2>2, <2>3 DEF OwnerInv, Sending
<1>24. ASSUME Redials PROVE OwnerInv'
  BY <1>24 DEF Redials, Online, OwnerInv, TokensKept, SocketKept, Sending
<1>25. ASSUME Disconnect PROVE OwnerInv'
  BY <1>25, MessagingAssumption DEF Disconnect, NoSocket, Goes, Ends, Idle, OwnerInv, TokensKept, SocketKept, Sending, Unsent, AllIdle, MayCall, TypeOK
<1>26. ASSUME NEW x \in asks, GroupMessages(x) PROVE OwnerInv'
  <2>1. \A u \in Tasks : task'[u] = task[u] \/ task'[u].at = "resolved"
    BY <1>26, AnswerEffect
  <2>2. careful => ready
    BY <1>26 DEF GroupMessages, OwnerInv
  <2>3. QED
    BY <1>26, <2>1, <2>2, OwnerQuiet DEF GroupMessages
<1>27. ASSUME NEW i \in Frames, HandleWsMessage(i) PROVE OwnerInv'
  BY <1>27, MessagingAssumption DEF HandleWsMessage, Stores, Goes, Ends, Idle, OwnerInv, TokensKept, SocketKept, Sending, Unsent, AllIdle, MayCall, TypeOK
<1>28. CASE UNCHANGED vars
  BY <1>28, MessagingAssumption DEF Goes, Ends, Idle, OwnerInv, TokensKept, SocketKept, Sending, Unsent, AllIdle, MayCall, TypeOK
<1>29. QED
  BY <1>1, <1>2, <1>3, <1>4, <1>5, <1>6, <1>7, <1>8, <1>9, <1>10, <1>11, <1>12, <1>13, <1>14, <1>15, <1>16, <1>17, <1>18, <1>19, <1>20, <1>21, <1>22, <1>23, <1>24, <1>25, <1>26, <1>27, <1>28 DEF Next

-----------------------------------------------------------------------------
\* The types and the three invariants are together inductive.
IInv == TypeOK /\ HistoryInv /\ OutboxInv /\ OwnerInv

LEMMA InitInv == Init => IInv
<1> SUFFICES ASSUME Init PROVE IInv
  OBVIOUS
<1>1. \A t \in Tasks : task[t].at = "idle"
  BY DEF Init, Idle
<1>2. HistoryInv
  BY <1>1 DEF Init, HistoryInv, Waiting
<1>3. OutboxInv
  BY <1>1 DEF Init, OutboxInv, HonestOutcome, Sending
<1>4. OwnerInv
  BY <1>1 DEF Init, OwnerInv, Sending
<1>5. QED
  BY <1>2, <1>3, <1>4, TypeInit DEF IInv

\* Every behaviour satisfies the invariant that the theorems rest on.
THEOREM MessagingInvariant == Spec => []IInv
<1>1. IInv /\ [Next]_vars => IInv'
  BY TypeStep, HistoryStep, OutboxStep, OwnerStep DEF IInv
<1>2. QED
  BY <1>1, InitInv, PTL DEF Spec

\* Every variable keeps its type.
THEOREM Types == Spec => []TypeOK
BY MessagingInvariant, PTL DEF IInv

\* get_group_messages returns the messages of the group it was asked for, with any
\* number of calls, timeouts, late answers and lost connections, if no two requests
\* fall into one millisecond.
THEOREM HistoriesAreAnswers == Spec => []AnsweredAsAsked
<1>1. IInv => AnsweredAsAsked
  BY DEF IInv, HistoryInv, AnsweredAsAsked
<1>2. QED
  BY <1>1, MessagingInvariant, PTL

\* send_message, send_group_message, send_file_message: what the caller is told is
\* what happened and what was recorded, for any number of overlapping sends.
THEOREM SendsAreHonest == Spec => []HonestOutcome
<1>1. IInv => HonestOutcome
  BY DEF IInv, OutboxInv
<1>2. QED
  BY <1>1, MessagingInvariant, PTL

\* A careful user's records and messages stay with their owner, for any number of
\* agents and of switches between them.
THEOREM OwnersAreKept == Spec => []StoredWithOwner
<1>1. IInv => StoredWithOwner
  BY DEF IInv, OwnerInv, SocketKept, StoredWithOwner
<1>2. QED
  BY <1>1, MessagingInvariant, PTL

=============================================================================
