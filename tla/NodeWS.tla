------------------------------- MODULE NodeWS -------------------------------
(***************************************************************************)
(* nodejs/src/websocket.ts WSManager.  JavaScript runs each handler to its *)
(* end, so an action is a whole handler: a call of the user, a socket      *)
(* event, a timer.  The one suspension is the await of the reconnect       *)
(* callback (AICQClient installs auth.ensureAuth there).  The handlers of  *)
(* a socket close over the manager and not over the socket, so an event of *)
(* an old socket acts on whatever socket is current.                       *)
(* A timer that no reference reaches any more cannot be cancelled: those   *)
(* are counted, and so are the timer bodies that wait for the callback.    *)
(***************************************************************************)
EXTENDS Naturals, FiniteSets

CONSTANTS Sockets, NoSocket,
          InitialBackoff, MaxBackoff,  \* INITIAL_BACKOFF_MS, MAX_BACKOFF_MS
          Callback,         \* values of hasCallback to look at
          Patience,         \* values of patient to look at
          ServerFails,      \* the server may be unreachable
          MaxTimers         \* model bound on unreferenced timers and waiting bodies

ASSUME NodeAssumption ==
    /\ NoSocket \notin Sockets
    /\ InitialBackoff \in Nat \ {0} /\ MaxBackoff \in Nat
    /\ InitialBackoff <= MaxBackoff
    /\ ServerFails \in BOOLEAN
    /\ Callback \subseteq BOOLEAN /\ Patience \subseteq BOOLEAN
    /\ MaxTimers \in Nat

VARIABLES
    sock,       \* the sockets: readyState, and what was announced on them
    ws,         \* this.ws
    connected,  \* this.connected
    closed,     \* this.intentionallyClosed
    backoff,    \* this.backoffMs
    timer,      \* this.reconnectTimer refers to a timer that has not fired
    loose,      \* armed timers that this.reconnectTimer no longer refers to
    waiting,    \* timer bodies awaiting onReconnectCallback
    hasCallback,  \* setOnReconnect was called, as AICQClient does: fixed
    patient,      \* the user connects only when all is at rest: fixed
    server,     \* is the server reachable
    want        \* history: did the user last ask for a connection

timerVars == <<timer, loose, backoff>>
mode == <<hasCallback, patient>>
nodeVars == <<sock, ws, connected, closed, backoff, timer, loose, waiting, mode, server, want>>

Free == [st |-> "free", online |-> FALSE]

NodeInit ==
    /\ sock = [s \in Sockets |-> Free]
    /\ ws = NoSocket
    /\ connected = FALSE /\ closed = FALSE
    /\ backoff = InitialBackoff
    /\ timer = FALSE /\ loose = 0 /\ waiting = 0
    /\ hasCallback \in Callback /\ patient \in Patience
    /\ server = "up"
    /\ want = FALSE

Is(s, st) == s # NoSocket /\ sock[s].st = st
Open(s) == Is(s, "open")
Usable(s) == Is(s, "connecting") \/ Open(s)
\* isConnected
IsConnected == connected /\ Open(ws)
AtRest == ~timer /\ loose = 0 /\ waiting = 0
          /\ \A s \in Sockets : sock[s].st \in {"free", "closed"}

Capped(b) == IF b > MaxBackoff THEN MaxBackoff ELSE b

\* Mutation of ScheduleReconnect: the backoff is not capped.
ScheduleUncapped ==
    IF closed
    THEN UNCHANGED timerVars
    ELSE /\ timer' = TRUE
         /\ loose' = loose + (IF timer THEN 1 ELSE 0)
         /\ backoff' = 2 * backoff

\* scheduleReconnect: a timer that was armed already is forgotten, not cleared.
ScheduleReconnect ==
    IF closed
    THEN UNCHANGED timerVars
    ELSE /\ timer' = TRUE
         /\ loose' = loose + (IF timer THEN 1 ELSE 0)
         /\ backoff' = Capped(2 * backoff)

\* connect.
Connect ==
    IF IsConnected
    THEN UNCHANGED <<sock, ws, closed>>
    ELSE \E s \in Sockets \ {ws} :
            /\ sock[s].st \in {"free", "closed"}
            /\ sock' = [sock EXCEPT ![s] = [Free EXCEPT !.st = "connecting"]]
            /\ ws' = s
            /\ closed' = FALSE

-----------------------------------------------------------------------------
UserConnect ==
    /\ patient => AtRest /\ ~want
    /\ Connect
    /\ want' = TRUE
    /\ UNCHANGED <<connected, timerVars, waiting, mode, server>>

\* Mutation of Disconnect: the reconnect timer stays armed.
DisconnectKeepsTimer ==
    /\ closed' = TRUE
    /\ sock' = [s \in Sockets |->
                  IF s = ws /\ Usable(s) THEN [sock[s] EXCEPT !.st = "closing"] ELSE sock[s]]
    /\ ws' = NoSocket
    /\ connected' = FALSE
    /\ want' = FALSE
    /\ UNCHANGED <<timerVars, waiting, mode, server>>

\* disconnect; the "offline" message goes before the close frame.
Disconnect ==
    /\ closed' = TRUE
    /\ timer' = FALSE
    /\ sock' = [s \in Sockets |->
                  IF s = ws /\ Usable(s) THEN [sock[s] EXCEPT !.st = "closing"] ELSE sock[s]]
    /\ ws' = NoSocket
    /\ connected' = FALSE
    /\ want' = FALSE
    /\ UNCHANGED <<loose, backoff, waiting, mode, server>>

-----------------------------------------------------------------------------
\* Mutation of OpenEvent: the greeting is left to the first connection.
OpenEventGreetsOnce(s) ==
    /\ Is(s, "connecting") /\ server = "up"
    /\ sock' = [sock EXCEPT ![s].st = "open", ![s].online = backoff = InitialBackoff]
    /\ connected' = TRUE
    /\ backoff' = InitialBackoff
    /\ UNCHANGED <<ws, closed, timer, loose, waiting, mode, server, want>>

\* The "open" handler: the greeting goes to the current socket, if it is open.
OpenEvent(s) ==
    /\ Is(s, "connecting") /\ server = "up"
    /\ LET opened == [sock EXCEPT ![s].st = "open"]
       IN sock' = IF ws # NoSocket /\ opened[ws].st = "open"
                  THEN [opened EXCEPT ![ws].online = TRUE]
                  ELSE opened
    /\ connected' = TRUE
    /\ backoff' = InitialBackoff
    /\ UNCHANGED <<ws, closed, timer, loose, waiting, mode, server, want>>

\* The "close" handler, which follows every loss, failure and close().
CloseEvent(s) ==
    /\ Is(s, "closing")
    /\ sock' = [sock EXCEPT ![s].st = "closed"]
    /\ connected' = FALSE
    /\ loose < MaxTimers
    /\ ScheduleReconnect
    /\ UNCHANGED <<ws, closed, waiting, mode, server, want>>

\* A reconnect timer fires; this.reconnectTimer keeps the spent timer.
Fires ==
    \/ timer /\ timer' = FALSE /\ UNCHANGED loose
    \/ loose > 0 /\ loose' = loose - 1 /\ UNCHANGED timer

TimerFires ==
    /\ Fires
    /\ IF hasCallback
       THEN waiting < MaxTimers /\ waiting' = waiting + 1 /\ UNCHANGED <<sock, ws, closed>>
       ELSE Connect /\ UNCHANGED waiting
    /\ UNCHANGED <<connected, backoff, mode, server, want>>

\* Mutation of CallbackDone: a failed callback ends the attempts.
CallbackFailureEnds ==
    /\ waiting > 0
    /\ waiting' = waiting - 1
    /\ IF server = "up" THEN Connect ELSE UNCHANGED <<sock, ws, closed>>
    /\ UNCHANGED <<connected, timerVars, mode, server, want>>

\* The callback settles: the timer body goes on to connect, or schedules again.
CallbackDone ==
    /\ waiting > 0
    /\ waiting' = waiting - 1
    /\ \/ server = "up" /\ Connect /\ UNCHANGED timerVars
       \/ /\ server = "down" /\ loose < MaxTimers
          /\ ScheduleReconnect
          /\ UNCHANGED <<sock, ws, closed>>
    /\ UNCHANGED <<connected, mode, server, want>>

-----------------------------------------------------------------------------
\* The network and the server: readyState leaves OPEN or CONNECTING at once,
\* the close event follows.
Drop(s) ==
    /\ Open(s) \/ (Is(s, "connecting") /\ server = "down")
    /\ sock' = [sock EXCEPT ![s].st = "closing"]
    /\ UNCHANGED <<ws, connected, closed, timerVars, waiting, mode, server, want>>

ServerDown ==
    /\ ServerFails /\ server = "up"
    /\ server' = "down"
    /\ sock' = [s \in Sockets |-> IF Open(s) THEN [sock[s] EXCEPT !.st = "closing"] ELSE sock[s]]
    /\ UNCHANGED <<ws, connected, closed, timerVars, waiting, mode, want>>

ServerUp ==
    /\ server = "down"
    /\ server' = "up"
    /\ UNCHANGED <<sock, ws, connected, closed, timerVars, waiting, mode, want>>

SocketEvent(s) == OpenEvent(s) \/ CloseEvent(s)

NodeNext ==
    \/ UserConnect \/ Disconnect
    \/ \E s \in Sockets : SocketEvent(s) \/ Drop(s)
    \/ TimerFires \/ CallbackDone
    \/ ServerDown \/ ServerUp

NodeSpec == NodeInit /\ [][NodeNext]_nodeVars

\* The event loop delivers every event, fires every timer and settles every
\* awaited callback; a handshake against a dead server fails; outages end.
FairNodeSpec ==
    /\ NodeSpec
    /\ \A s \in Sockets : WF_nodeVars(SocketEvent(s))
    /\ WF_nodeVars(TimerFires) /\ WF_nodeVars(CallbackDone)
    /\ WF_nodeVars(ServerUp)

-----------------------------------------------------------------------------
NodeTypeOK ==
    /\ sock \in [Sockets -> [st : {"free", "connecting", "open", "closing", "closed"},
                             online : BOOLEAN]]
    /\ ws \in Sockets \union {NoSocket}
    /\ {connected, closed, timer, want} \subseteq BOOLEAN
    /\ backoff \in InitialBackoff..MaxBackoff
    /\ loose \in 0..MaxTimers /\ waiting \in 0..MaxTimers
    /\ server \in {"up", "down"}

\* With a patient user the server never sees two live sockets of one client: no
\* close event, timer or awaited callback of an old socket opens a second one.
OneLiveSocket == Cardinality({s \in Sockets : Usable(s)}) <= 1

\* And isConnected tells the truth about it: an open current socket counts as
\* connected, and every open socket was greeted with "online", also after a
\* reconnect, or the server would not know whose it is.
OneGreetedSocket ==
    patient => /\ OneLiveSocket
               /\ Open(ws) => connected
               /\ \A s \in Sockets : Open(s) => sock[s].online

\* What disconnect leaves behind has no live socket and will not open one.
NothingLeft == ~timer /\ loose = 0 /\ \A s \in Sockets : ~Usable(s)

\* Without a reconnect callback a patient user's disconnect is final: no timer
\* survives it, and a late close event arms none.  With a callback, which
\* AICQClient always installs, it is not: a disconnect while a timer body awaits
\* the callback is undone by the connect that follows.
DisconnectIsFinal == patient /\ ~hasCallback /\ ~want => NothingLeft

\* A connection a patient user wants, once the server stays reachable, is
\* re-made.
Recovers ==
    patient /\ <>[](server = "up") => (want /\ ~IsConnected) ~> (IsConnected \/ ~want)
=============================================================================
