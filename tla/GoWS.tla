-------------------------------- MODULE GoWS --------------------------------
(***************************************************************************)
(* go/ws.go WSManager: the goroutines that share it are the user's calls,  *)
(* one readLoop and two ping loops per successful Connect, and the         *)
(* ReconnectLoops.  Each Connect makes a new pair stopCh, doneCh; a pair   *)
(* carries the name of its connection, and the pair of newWSManager is     *)
(* named NoConn.  A goroutine that was just started, or that just came     *)
(* back to its select, holds the channel that was current then: the model  *)
(* lets it read the field in the step that brings it there.  Closing a     *)
(* closed channel panics and ends the process; the model goes on, so that  *)
(* NoPanic is what makes the other properties mean anything.               *)
(* connMu makes each access of conn and connected atomic, and that is how  *)
(* the actions are cut.                                                    *)
(***************************************************************************)
EXTENDS Naturals, FiniteSets

CONSTANTS Conns, NoConn,
          Callers,          \* user goroutines
          Loops,            \* goroutines that may run ReconnectLoop: a model bound
          Kinds,            \* subset of {"ws", "json"}: the ping loops that run
          InitialBackoff, MaxBackoff,  \* initialBackoff, maxBackoffSecs
          Discipline,       \* values of calm to look at
          ServerFails       \* the server may be unreachable

ASSUME GoAssumption ==
    /\ NoConn \notin Conns
    /\ Callers \intersect Loops = {}
    /\ Kinds \subseteq {"ws", "json"}
    /\ InitialBackoff \in Nat \ {0} /\ MaxBackoff \in Nat
    /\ InitialBackoff <= MaxBackoff
    /\ ServerFails \in BOOLEAN /\ Discipline \subseteq BOOLEAN

VARIABLES
    net,        \* net[c]: the connection as the client's socket sees it
    conn,       \* w.conn
    connected,  \* w.connected
    chan,       \* the current pair w.stopCh, w.doneCh
    stopped,    \* pairs whose stopCh is closed
    done,       \* pairs whose doneCh is closed
    backoff,    \* w.backoffSecs
    actor,      \* the user's calls and the ReconnectLoops
    reader,     \* reader[c]: the readLoop that the Connect of c started
    pings,      \* the live ping loops: kind, whose Connect started it, its stopCh
    panicked,   \* a closed channel was closed again
    calm,       \* the user connects when all is at rest, and disconnects a
                \* connection that is established: fixed
    server,     \* is the server reachable
    want        \* history: did the user last ask for a connection

Chans == Conns \union {NoConn}
Actors == Callers \union Loops
connVars == <<conn, connected, chan>>
chanVars == <<stopped, done, panicked>>
vars == <<net, conn, connected, chan, stopped, done, backoff, actor, reader,
          pings, panicked, calm, server, want>>

Idle == [pc |-> "idle", mode |-> "none", c |-> NoConn, ch |-> NoConn]
NoReader == [pc |-> "none", on |-> NoConn, ch |-> NoConn]

Init ==
    /\ net = [c \in Conns |-> "free"]
    /\ conn = NoConn /\ connected = FALSE /\ chan = NoConn
    /\ stopped = {} /\ done = {}
    /\ backoff = InitialBackoff
    /\ actor = [a \in Actors |-> Idle]
    /\ reader = [c \in Conns |-> NoReader]
    /\ pings = {}
    /\ panicked = FALSE
    /\ calm \in Discipline
    /\ server = "up"
    /\ want = FALSE

Live(c) == c # NoConn /\ net[c] \in {"open", "closing"}
IsConnected == connected /\ conn # NoConn
LoopAlive == \E l \in Loops : actor[l] # Idle
Quiet == \A u \in Callers : actor[u] = Idle
Reading(c) == reader[c].pc \in {"ready", "reading"}

\* No goroutine and no field refers to c or to its channels any more.
Unused(c) ==
    /\ ~Live(c)
    /\ c \notin {conn, chan}
    /\ ~Reading(c)
    /\ \A d \in Conns : Reading(d) => c \notin {reader[d].on, reader[d].ch}
    /\ \A a \in Actors : c \notin {actor[a].c, actor[a].ch}
    /\ \A p \in pings : c \notin {p.by, p.stop}

Capped(b) == IF b > MaxBackoff THEN MaxBackoff ELSE b

\* close(w.stopCh), close(w.doneCh)
CloseStop(ch) == stopped' = stopped \union {ch} /\ panicked' = (panicked \/ ch \in stopped)
CloseDone(ch) == done' = done \union {ch} /\ panicked' = (panicked \/ ch \in done)

-----------------------------------------------------------------------------
\* Connect, up to the dial, and the loops around it.

MayConnect ==
    calm => Quiet /\ ~LoopAlive /\ ~IsConnected /\ \A c \in Conns : ~Reading(c)
MayDisconnect ==
    calm => Quiet /\ ~LoopAlive /\ IsConnected /\ \A c \in Conns : reader[c].pc # "ready"

Call(u, mode) ==
    /\ actor[u] = Idle /\ MayConnect
    /\ actor' = [actor EXCEPT ![u] = [Idle EXCEPT !.pc = "dial", !.mode = mode]]
    /\ want' = TRUE
    /\ UNCHANGED <<net, connVars, chanVars, backoff, reader, pings, calm, server>>

Connect(u) == Call(u, "once")
\* ConnectWithRetry, which returns at once when connected.
ConnectWithRetry(u) == ~IsConnected /\ Call(u, "retry")

\* Mutation of Failed: the backoff is not capped.
FailedUncapped(a) ==
    IF actor[a].mode = "once"
    THEN actor' = [actor EXCEPT ![a] = Idle] /\ UNCHANGED backoff
    ELSE /\ backoff' = 2 * backoff
         /\ actor' = [actor EXCEPT ![a] = [@ EXCEPT !.pc = "wait", !.c = NoConn, !.ch = chan]]

\* Mutation of Failed: the loops return the error as Connect does.
FailedGivesUp(a) == actor' = [actor EXCEPT ![a] = Idle] /\ UNCHANGED backoff

\* A failed attempt: Connect returns the error, the loops raise the backoff
\* and go to their select.
Failed(a) ==
    IF actor[a].mode = "once"
    THEN actor' = [actor EXCEPT ![a] = Idle] /\ UNCHANGED backoff
    ELSE /\ backoff' = Capped(2 * backoff)
         /\ actor' = [actor EXCEPT ![a] = [@ EXCEPT !.pc = "wait", !.c = NoConn, !.ch = chan]]

\* Mutation of Dial: the channels of the previous connection are used again.
DialKeepsChannels(a) ==
    /\ actor[a].pc = "dial" /\ server = "up"
    /\ \E c \in Conns :
         /\ Unused(c)
         /\ net' = [net EXCEPT ![c] = "open"]
         /\ conn' = c /\ connected' = TRUE
         /\ actor' = [actor EXCEPT ![a].pc = "greet", ![a].c = c]
    /\ UNCHANGED <<chan, chanVars, backoff, reader, pings, calm, server, want>>

\* The dial, preceded in the loops by a token refresh whose failure is only
\* logged: it fails, or the connection and a new pair of channels are installed.
Dial(a) ==
    /\ actor[a].pc = "dial"
    /\ \/ /\ server = "up"
          /\ \E c \in Conns :
               /\ Unused(c)
               /\ net' = [net EXCEPT ![c] = "open"]
               /\ conn' = c /\ connected' = TRUE /\ chan' = c
               /\ stopped' = stopped \ {c} /\ done' = done \ {c}
               /\ actor' = [actor EXCEPT ![a].pc = "greet", ![a].c = c]
          /\ UNCHANGED backoff
       \/ /\ server = "down"
          /\ Failed(a)
          /\ UNCHANGED <<net, connVars, stopped, done>>
    /\ UNCHANGED <<reader, pings, panicked, calm, server, want>>

\* Mutation of Greet: the loop goes on after a success.
GreetLoopsOn(a) ==
    /\ actor[a].pc = "greet" /\ Live(conn)
    /\ backoff' = InitialBackoff
    /\ reader' = [reader EXCEPT ![actor[a].c] = [NoReader EXCEPT !.pc = "ready"]]
    /\ actor' = [actor EXCEPT ![a] =
                     IF actor[a].mode = "once" THEN Idle
                     ELSE [@ EXCEPT !.pc = "wait", !.c = NoConn, !.ch = chan]]
    /\ UNCHANGED <<net, connVars, stopped, done, pings, panicked, calm, server, want>>

\* sendOnline writes to whatever w.conn is now.  If that fails the attempt
\* fails and w.conn is cleared; else the backoff is reset and the loops start.
Greet(a) ==
    /\ actor[a].pc = "greet"
    /\ LET c == actor[a].c
       IN \/ /\ Live(conn)
             /\ backoff' = InitialBackoff
             /\ reader' = [reader EXCEPT ![c] = [NoReader EXCEPT !.pc = "ready"]]
             /\ pings' = pings \union {[kind |-> k, by |-> c, stop |-> chan] : k \in Kinds}
             /\ actor' = [actor EXCEPT ![a] = Idle]
             /\ UNCHANGED <<net, conn, connected>>
          \/ /\ ~Live(conn)
             /\ conn' = NoConn /\ connected' = FALSE
             /\ net' = [net EXCEPT ![c] = "closed"]
             /\ Failed(a)
             /\ UNCHANGED <<reader, pings>>
    /\ UNCHANGED <<chan, stopped, done, panicked, calm, server, want>>

\* The select of ConnectWithRetry and ReconnectLoop: the backoff passes, or
\* the stopCh read at its start is closed.
Wake(a) ==
    /\ actor[a].pc = "wait"
    /\ actor' = [actor EXCEPT ![a].pc = "dial", ![a].ch = NoConn]
    /\ UNCHANGED <<net, connVars, chanVars, backoff, reader, pings, calm, server, want>>

Cancelled(a) ==
    /\ actor[a].pc = "wait" /\ actor[a].ch \in stopped
    /\ actor' = [actor EXCEPT ![a] = Idle]
    /\ UNCHANGED <<net, connVars, chanVars, backoff, reader, pings, calm, server, want>>

-----------------------------------------------------------------------------
\* Disconnect.  Its first step, under connMu, takes the connection.
Disconnect(u) ==
    /\ actor[u] = Idle
    /\ MayDisconnect
    /\ connected' = FALSE
    /\ want' = FALSE
    /\ actor' = IF conn = NoConn THEN actor
                ELSE [actor EXCEPT ![u] = [Idle EXCEPT !.pc = "stop", !.c = conn]]
    /\ UNCHANGED <<net, conn, chan, chanVars, backoff, reader, pings, calm, server>>

\* The offline message, close(w.stopCh) and the close frame.
StopLoops(u) ==
    /\ actor[u].pc = "stop"
    /\ CloseStop(chan)
    /\ net' = [net EXCEPT ![actor[u].c] = IF @ = "open" THEN "closing" ELSE @]
    /\ actor' = [actor EXCEPT ![u].pc = "await", ![u].ch = chan]
    /\ UNCHANGED <<connVars, done, backoff, reader, pings, calm, server, want>>

\* The read loop is done, or 3 seconds have passed.
Closed(u) ==
    /\ actor[u].pc = "await"
    /\ conn' = NoConn
    /\ net' = [net EXCEPT ![actor[u].c] = "closed"]
    /\ actor' = [actor EXCEPT ![u] = Idle]
    /\ UNCHANGED <<connected, chan, chanVars, backoff, reader, pings, calm, server, want>>

-----------------------------------------------------------------------------
\* readLoop begins: the deferred close takes the doneCh of this moment, and
\* the first pass takes the connection of this moment.
ReadStart(c) ==
    /\ reader[c].pc = "ready"
    /\ IF conn = NoConn
       THEN /\ reader' = [reader EXCEPT ![c] = NoReader]
            /\ CloseDone(chan)
       ELSE /\ reader' = [reader EXCEPT ![c] = [pc |-> "reading", on |-> conn, ch |-> chan]]
            /\ UNCHANGED <<done, panicked>>
    /\ UNCHANGED <<net, connVars, stopped, backoff, actor, pings, calm, server, want>>

\* A message was dispatched: the next pass takes the connection anew.
ReadMessage(c) ==
    /\ reader[c].pc = "reading" /\ Live(reader[c].on)
    /\ reader[c].on # conn
    /\ IF conn = NoConn
       THEN /\ reader' = [reader EXCEPT ![c] = NoReader]
            /\ CloseDone(reader[c].ch)
       ELSE /\ reader' = [reader EXCEPT ![c].on = conn]
            /\ UNCHANGED <<done, panicked>>
    /\ UNCHANGED <<net, connVars, stopped, backoff, actor, pings, calm, server, want>>

\* Mutation of ReadError: every reader that ends reconnects.
ReadErrorAlways(c) ==
    /\ reader[c].pc = "reading" /\ ~Live(reader[c].on)
    /\ connected' = FALSE
    /\ \E l \in Loops :
          /\ actor[l] = Idle
          /\ actor' = [actor EXCEPT ![l] =
                          [pc |-> "wait", mode |-> "loop", c |-> NoConn, ch |-> chan]]
    /\ reader' = [reader EXCEPT ![c] = NoReader]
    /\ CloseDone(reader[c].ch)
    /\ UNCHANGED <<net, conn, chan, stopped, backoff, pings, calm, server, want>>

\* ReadMessage fails.  An unexpected loss starts a ReconnectLoop, which begins
\* with its select; then the deferred close.
ReadError(c) ==
    /\ reader[c].pc = "reading" /\ ~Live(reader[c].on)
    /\ connected' = FALSE
    /\ IF connected /\ chan \notin stopped
       THEN \E l \in Loops :
               /\ actor[l] = Idle
               /\ actor' = [actor EXCEPT ![l] =
                               [pc |-> "wait", mode |-> "loop", c |-> NoConn, ch |-> chan]]
       ELSE UNCHANGED actor
    /\ reader' = [reader EXCEPT ![c] = NoReader]
    /\ CloseDone(reader[c].ch)
    /\ UNCHANGED <<net, conn, chan, stopped, backoff, pings, calm, server, want>>

\* The exit tests of pingLoop and jsonPingLoop when their ticker fires.
TickEnds(p) == \/ conn = NoConn
               \/ p.kind = "json" /\ ~connected

\* Mutation of Ping: the loop watches only the stopCh it began with.
PingOnlyStop(p) ==
    /\ p.stop \in stopped
    /\ pings' = pings \ {p}
    /\ UNCHANGED <<net, connVars, chanVars, backoff, actor, reader, calm, server, want>>

\* A tick, or the stopCh read at the last one is closed.
Ping(p) ==
    /\ \/ /\ TickEnds(p) \/ p.stop \in stopped \/ ~Live(conn)
          /\ pings' = pings \ {p}
       \/ /\ ~TickEnds(p) /\ p.stop # chan
          /\ pings' = (pings \ {p}) \union {[p EXCEPT !.stop = chan]}
    /\ UNCHANGED <<net, connVars, chanVars, backoff, actor, reader, calm, server, want>>

-----------------------------------------------------------------------------
\* The network and the server, which answers a close frame by closing.
Drop(c) ==
    /\ net[c] = "open"
    /\ net' = [net EXCEPT ![c] = "lost"]
    /\ UNCHANGED <<connVars, chanVars, backoff, actor, reader, pings, calm, server, want>>

PeerCloses(c) ==
    /\ net[c] = "closing"
    /\ net' = [net EXCEPT ![c] = "lost"]
    /\ UNCHANGED <<connVars, chanVars, backoff, actor, reader, pings, calm, server, want>>

ServerDown ==
    /\ ServerFails /\ server = "up"
    /\ server' = "down"
    /\ net' = [c \in Conns |-> IF Live(c) THEN "lost" ELSE net[c]]
    /\ UNCHANGED <<connVars, chanVars, backoff, actor, reader, pings, calm, want>>

ServerUp ==
    /\ server = "down"
    /\ server' = "up"
    /\ UNCHANGED <<net, connVars, chanVars, backoff, actor, reader, pings, calm, want>>

User(u) == Connect(u) \/ ConnectWithRetry(u) \/ Disconnect(u)
ActorStep(a) == Dial(a) \/ Greet(a) \/ Wake(a) \/ Cancelled(a)
                \/ (a \in Callers /\ (StopLoops(a) \/ Closed(a)))
ReaderStep(c) == ReadStart(c) \/ ReadMessage(c) \/ ReadError(c)

Next ==
    \/ \E u \in Callers : User(u)
    \/ \E a \in Actors : ActorStep(a)
    \/ \E c \in Conns : ReaderStep(c) \/ Drop(c) \/ PeerCloses(c)
    \/ \E p \in pings : Ping(p)
    \/ ServerDown \/ ServerUp

Spec == Init /\ [][Next]_vars

\* Goroutines run, timers and tickers fire, the server answers a close frame,
\* and an outage ends.
FairSpec ==
    /\ Spec
    /\ \A a \in Actors : WF_vars(ActorStep(a))
    /\ \A c \in Conns : WF_vars((ReaderStep(c) \/ PeerCloses(c)))
    /\ WF_vars(\E p \in pings : Ping(p))
    /\ WF_vars(ServerUp)

-----------------------------------------------------------------------------
TypeOK ==
    /\ net \in [Conns -> {"free", "open", "closing", "lost", "closed"}]
    /\ {conn, chan} \subseteq Chans
    /\ {connected, panicked, calm, want} \subseteq BOOLEAN
    /\ stopped \subseteq Chans /\ done \subseteq Chans
    /\ backoff \in InitialBackoff..MaxBackoff
    /\ actor \in [Actors -> [pc : {"idle", "dial", "greet", "wait", "stop", "await"},
                             mode : {"none", "once", "retry", "loop"},
                             c : Chans, ch : Chans]]
    /\ reader \in [Conns -> [pc : {"none", "ready", "reading"}, on : Chans, ch : Chans]]
    /\ pings \subseteq [kind : Kinds, by : Conns, stop : Chans]
    /\ server \in {"up", "down"}

\* While the user is calm no channel is closed twice: neither by a second
\* Disconnect nor by two read loops that found the same doneCh.
NoPanic == calm => ~panicked

\* Once a calm user's Disconnect has returned no connection is live and no
\* goroutine is left that would make one.
DisconnectIsFinal ==
    calm /\ Quiet /\ ~want => ~LoopAlive /\ \A c \in Conns : ~Live(c)

\* It is read, and Listen will see its end: its doneCh is the current one and not
\* closed yet.
IsRead ==
    /\ chan = conn /\ chan \notin done
    /\ Reading(conn)
    /\ reader[conn].pc = "reading" => reader[conn].on = conn /\ reader[conn].ch = conn

\* It has a JSON ping loop that the next tick does not end: without one the
\* server drops the client after 90 seconds.
IsPinged == \E p \in pings : p.kind = "json" /\ p.stop \notin stopped

\* To a calm user the server never sees two live connections of one client, and
\* at most one read loop runs, which DedupTracker's two-step use relies on.
OneConn == /\ Cardinality({c \in Conns : Live(c)}) <= 1
           /\ Cardinality({c \in Conns : Reading(c)}) <= 1

\* There is one connection, and it is served: what IsConnected tells a calm user is
\* a connection that is read, and whatever the user does it is one that is pinged.
OneServedConn ==
    /\ calm => OneConn
    /\ IsConnected /\ Quiet /\ ~LoopAlive =>
        /\ Live(conn) => IsPinged
        /\ calm => IsRead

\* A loop that is still trying.  A ConnectWithRetry whose first attempt fails
\* while the channel of an earlier Disconnect is current is about to give up.
Retrying == \/ LoopAlive
            \/ (\E u \in Callers : actor[u].mode = "retry") /\ chan \notin stopped

\* Neither ReconnectLoop nor ConnectWithRetry stops before there is a connection,
\* once the server stays reachable.
Recovers ==
    calm /\ <>[](server = "up") => (Retrying /\ ~IsConnected) ~> (IsConnected \/ ~want)

\* Every ping loop ends after a Disconnect, also those that earlier connections
\* left behind.
PingsEnd == calm => (~want ~> (want \/ pings = {}))
=============================================================================
