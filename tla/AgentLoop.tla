----------------------------- MODULE AgentLoop -----------------------------
(***************************************************************************)
(* aicq/loop.py startLoop: one task that logs in, connects, says "online"  *)
(* and handles one frame after the other, callbacks included, until the    *)
(* connection is gone; then it sleeps and starts again.  The dedup set and *)
(* the time of the last ping are local to a connection, and both are only  *)
(* looked at when a frame has arrived.                                     *)
(* Which identity it logs in with is left out here.                        *)
(***************************************************************************)
EXTENDS Naturals, Sequences

CONSTANTS Ids, NoId,           \* message ids; NoId: a message without one
          MaxSize,             \* _LRUSet.maxsize, 1000 in the code
          BaseDelay, MaxDelay, \* RECONNECT_BASE_DELAY, RECONNECT_MAX_DELAY
          MaxDeliveries        \* model bound on handled messages

ASSUME LoopAssumption ==
    /\ NoId \notin Ids
    /\ MaxSize \in Nat \ {0} /\ MaxDeliveries \in Nat
    /\ BaseDelay \in Nat \ {0} /\ MaxDelay \in Nat /\ BaseDelay <= MaxDelay

VARIABLES
    pc,         \* where the task is: "recv" is its async for, "callback" on_message
    sock,       \* ws: "none", "open", or "lost" and not noticed yet
    delay,      \* reconnect_delay
    seen,       \* message_ids_seen, oldest first
    age,        \* ping intervals since last_ping, at most 2
    auto,       \* auto_reconnect: fixed
    server,     \* is the server reachable
    cancelled,  \* history: the user cancelled the task
    n, at, last,\* history: as in DedupPromise, over all connections
    start       \* history: n when the present connection was made

history == <<n, at, last, start>>
vars == <<pc, sock, delay, seen, age, auto, server, cancelled, history>>

Listed(s) == {s[i] : i \in 1..Len(s)}

\* _LRUSet.add of an id that is not in the set.
Added(id) == IF Len(seen) = MaxSize THEN Append(Tail(seen), id) ELSE Append(seen, id)

Init ==
    /\ pc = "login" /\ sock = "none"
    /\ delay = BaseDelay
    /\ seen = <<>> /\ age = 0
    /\ auto \in BOOLEAN
    /\ server = "up" /\ cancelled = FALSE
    /\ n = 0 /\ at = [id \in Ids |-> 0]
    /\ last = [id |-> NoId, handled |-> FALSE] /\ start = 0

\* What follows the try statement: sleep before the next attempt, or return.
Retry == pc' = IF auto THEN "sleep" ELSE "ended"

-----------------------------------------------------------------------------
\* Mutation of Login: a failed login raises out of startLoop.
LoginRaises ==
    /\ pc = "login"
    /\ pc' = IF server = "up" THEN "dial" ELSE "ended"
    /\ UNCHANGED <<sock, delay, seen, age, auto, server, cancelled, history>>

\* _ensure_registered, which swallows its errors, and _login, which does not.
Login ==
    /\ pc = "login"
    /\ \/ server = "up" /\ pc' = "dial"
       \/ server = "down" /\ Retry
    /\ UNCHANGED <<sock, delay, seen, age, auto, server, cancelled, history>>

\* Mutation of Dial: the delay is not reset.
DialKeepsDelay ==
    /\ pc = "dial"
    /\ \/ /\ server = "up"
          /\ pc' = "recv" /\ sock' = "open"
          /\ seen' = <<>> /\ age' = 0
          /\ start' = n
       \/ server = "down" /\ Retry /\ UNCHANGED <<sock, seen, age, start>>
    /\ UNCHANGED <<delay, auto, server, cancelled, n, at, last>>

\* ws_connect and the "online" message; the state of a connection is new.
Dial ==
    /\ pc = "dial"
    /\ \/ /\ server = "up"
          /\ pc' = "recv" /\ sock' = "open"
          /\ delay' = BaseDelay
          /\ seen' = <<>> /\ age' = 0
          /\ start' = n
       \/ server = "down" /\ Retry /\ UNCHANGED <<sock, delay, seen, age, start>>
    /\ UNCHANGED <<auto, server, cancelled, n, at, last>>

\* The end of a round: the ping, when one is due.  A ping that fails leaves the
\* loop; one sent before the loss is noticed does not fail.
RoundEnds ==
    \/ age = 0 /\ pc' = "recv" /\ UNCHANGED <<sock, age>>
    \/ age > 0 /\ pc' = "recv" /\ age' = 0 /\ UNCHANGED sock
    \/ age > 0 /\ sock = "lost" /\ sock' = "none" /\ Retry /\ UNCHANGED age

\* Mutation of Message: an id is looked up and never added.
MessageUnlisted(id) ==
    /\ pc = "recv" /\ n < MaxDeliveries
    /\ IF id \in Listed(seen)
       THEN last' = [id |-> id, handled |-> FALSE] /\ UNCHANGED <<pc, seen, n, at>>
       ELSE /\ pc' = "callback"
            /\ n' = n + 1 /\ at' = [at EXCEPT ![id] = n + 1]
            /\ last' = [id |-> id, handled |-> TRUE]
            /\ UNCHANGED seen
    /\ UNCHANGED <<sock, delay, age, auto, server, cancelled, start>>

\* A private message with an id: a duplicate is skipped, and the ping with it.
\* One without content is listed and has no callback, which is a short one here.
Message(id) ==
    /\ pc = "recv"
    /\ IF id \in Listed(seen)
       THEN last' = [id |-> id, handled |-> FALSE] /\ UNCHANGED <<pc, seen, n, at>>
       ELSE /\ n < MaxDeliveries
            /\ seen' = Added(id)
            /\ pc' = "callback"
            /\ n' = n + 1 /\ at' = [at EXCEPT ![id] = n + 1]
            /\ last' = [id |-> id, handled |-> TRUE]
    /\ UNCHANGED <<sock, delay, age, auto, server, cancelled, start>>

\* A message without an id, a group message and a presence event go to their
\* callback unlisted.
Unlisted ==
    /\ pc = "recv"
    /\ pc' = "callback"
    /\ UNCHANGED <<sock, delay, seen, age, auto, server, cancelled, history>>

\* Acknowledgements and what else has no callback.  Of one's own group message, and of
\* what is not JSON, nothing is done, and no ping.
OtherFrame ==
    /\ pc = "recv" /\ RoundEnds
    /\ UNCHANGED <<delay, seen, auto, server, cancelled, history>>

\* The callback has returned, with or without an answer to send, or has raised.
CallbackDone ==
    /\ pc = "callback" /\ RoundEnds
    /\ UNCHANGED <<delay, seen, auto, server, cancelled, history>>

\* The async for ends.
ConnectionEnds ==
    /\ pc = "recv" /\ sock = "lost"
    /\ sock' = "none"
    /\ Retry
    /\ UNCHANGED <<delay, seen, age, auto, server, cancelled, history>>

Wake ==
    /\ pc = "sleep"
    /\ pc' = "login"
    /\ delay' = IF 2 * delay > MaxDelay THEN MaxDelay ELSE 2 * delay
    /\ UNCHANGED <<sock, seen, age, auto, server, cancelled, history>>

\* The user cancels the task: each await is under a handler that returns, and
\* leaving the session closes the socket.
Cancel ==
    /\ pc # "ended"
    /\ pc' = "ended" /\ sock' = "none"
    /\ cancelled' = TRUE
    /\ UNCHANGED <<delay, seen, age, auto, server, history>>

-----------------------------------------------------------------------------
\* Time, the network and the server.
PingInterval ==
    /\ pc \in {"recv", "callback"} /\ age < 2
    /\ age' = age + 1
    /\ UNCHANGED <<pc, sock, delay, seen, auto, server, cancelled, history>>

Drop ==
    /\ sock = "open"
    /\ sock' = "lost"
    /\ UNCHANGED <<pc, delay, seen, age, auto, server, cancelled, history>>

ServerDown ==
    /\ server = "up"
    /\ server' = "down"
    /\ sock' = IF sock = "open" THEN "lost" ELSE sock
    /\ UNCHANGED <<pc, delay, seen, age, auto, cancelled, history>>

ServerUp ==
    /\ server = "down"
    /\ server' = "up"
    /\ UNCHANGED <<pc, sock, delay, seen, age, auto, cancelled, history>>

Next ==
    \/ Login \/ Dial \/ Wake
    \/ (\E id \in Ids : Message(id)) \/ Unlisted \/ OtherFrame
    \/ CallbackDone \/ ConnectionEnds \/ Cancel
    \/ PingInterval \/ Drop \/ ServerDown \/ ServerUp

Spec == Init /\ [][Next]_vars

\* The event loop runs the task, callbacks return, and an outage ends.  That a
\* loss is noticed is owed to the operating system.
FairSpec ==
    /\ Spec
    /\ WF_vars(Login) /\ WF_vars(Dial) /\ WF_vars(Wake)
    /\ WF_vars(CallbackDone) /\ SF_vars(ConnectionEnds)
    /\ WF_vars(ServerUp)

-----------------------------------------------------------------------------
TypeOK ==
    /\ pc \in {"login", "dial", "recv", "callback", "sleep", "ended"}
    /\ sock \in {"none", "open", "lost"}
    /\ delay \in BaseDelay..MaxDelay
    /\ seen \in Seq(Ids) /\ Len(seen) <= MaxSize
    /\ age \in 0..2
    /\ {auto, cancelled} \subseteq BOOLEAN
    /\ server \in {"up", "down"}
    /\ n \in Nat /\ start \in 0..n
    /\ at \in [Ids -> 0..n]
    /\ last \in [id : Ids \union {NoId}, handled : BOOLEAN]

Online == sock = "open"

\* What SPEC.md promises of deduplication, of the present connection.
PerConnection == INSTANCE DedupPromise
    WITH Keep <- MaxSize, PruneAt <- MaxSize, n <- n - start,
         at <- [id \in Ids |-> IF at[id] > start THEN at[id] - start ELSE 0]

\* On one connection a message is not handled again while its id is among the
\* last MaxSize handled ones, and none is dropped but for that: message_ids_seen
\* implements the promise of SPEC.md, with one bound instead of two.
KeepsPromise == PerConnection!PromiseSpec

\* The agent comes back from every failure of login, handshake and connection,
\* however long the outage was, until the user cancels it.
Recovers ==
    auto /\ <>[](server = "up") => (~cancelled ~> Online \/ cancelled)

\* Waits never get shorter before there is a connection, and the first wait
\* after one is the shortest, however long it took to get it.
BacksOff ==
    [][/\ delay' < delay => sock' = "open"
       /\ sock # "none" /\ pc' = "sleep" => delay' = BaseDelay]_vars
=============================================================================
