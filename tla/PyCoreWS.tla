------------------------------ MODULE PyCoreWS ------------------------------
(***************************************************************************)
(* The WebSocket life cycle of aicq/core.py AICQCore.  Everything runs on  *)
(* one asyncio loop, so an action is what a coroutine does between two     *)
(* suspension points.  Three kinds of coroutine share self: the user's     *)
(* calls of connect, connect_ephemeral and disconnect, the receive loops   *)
(* (_ws_loop) and the reconnect task (_reconnect_after).  The first frame  *)
(* on a fresh socket never fills aiohttp's write buffer, so sending the    *)
(* greeting does not suspend.  A reconnect task that is done and none at   *)
(* all are the same to every check the code makes.                         *)
(***************************************************************************)
EXTENDS Naturals, FiniteSets

CONSTANTS Sockets, NoSocket,
          Callers,          \* user coroutines that may call the API
          Identities,       \* subset of {"agent", "room"} the user connects as
          InitialBackoff, MaxBackoff,  \* _INITIAL_BACKOFF_MS, _MAX_BACKOFF_MS
          Polite,           \* one connect at a time: the user never connects before
                            \* a disconnect, nor disconnects while connecting
          ServerFails,      \* the server may be unreachable
          RefreshRejected   \* the server may reject the refresh token

ASSUME PyAssumption ==
    /\ NoSocket \notin Sockets
    /\ Identities \subseteq {"agent", "room"}
    /\ InitialBackoff \in Nat \ {0} /\ MaxBackoff \in Nat
    /\ InitialBackoff <= MaxBackoff
    /\ {Polite, ServerFails, RefreshRejected} \subseteq BOOLEAN

VARIABLES
    sock,      \* the sockets: state, who greeted on it, and was there a token in it
    loop,      \* loop[s]: the _ws_loop task that the connect of s created
    reads,     \* reads[s]: the socket that task iterates over
    ws,        \* self.ws
    wsTask,    \* self._ws_task, named by its socket
    running,   \* self._running
    manual,    \* self._manual_disconnect
    backoff,   \* self._reconnect_backoff_ms
    eph,       \* self._ephemeral is not None
    token,     \* self.access_token is set
    refresh,   \* self.refresh_token is set
    re,        \* self._reconnect_task: where it is, and its is_ephemeral
    call,      \* the user's calls in progress
    server,    \* is the server reachable
    want       \* history: what the user last asked for, as far as it succeeded

sockVars == <<sock, loop, reads>>
connVars == <<ws, wsTask, running, backoff>>
authVars == <<token, refresh>>
vars == <<sock, loop, reads, ws, wsTask, running, manual, backoff, eph,
          token, refresh, re, call, server, want>>

Free == [st |-> "free", as |-> "nobody", tok |-> FALSE]
Idle == [pc |-> "idle", as |-> "nobody"]

Init ==
    /\ sock = [s \in Sockets |-> Free]
    /\ loop = [s \in Sockets |-> "none"]
    /\ reads = [s \in Sockets |-> NoSocket]
    /\ ws = NoSocket /\ wsTask = NoSocket
    /\ running = FALSE /\ manual = FALSE /\ eph = FALSE
    /\ backoff = InitialBackoff
    /\ token = TRUE /\ refresh = TRUE          \* after login()
    /\ re = [pc |-> "none", eph |-> FALSE]
    /\ call = [c \in Callers |-> Idle]
    /\ server = "up"
    /\ want = "off"

LoopAlive(s) == loop[s] \in {"ready", "reading", "cancelled"}
ReAlive == re.pc \in {"sleep", "refresh", "dial"}
Open(s) == s # NoSocket /\ sock[s].st = "open"
\* The property is_connected, with the receive loop in place.
Connected == running /\ Open(ws)

Unused(s) ==
    /\ s \notin {ws, wsTask} /\ ~LoopAlive(s) /\ ~Open(s)
    /\ \A l \in Sockets : LoopAlive(l) => reads[l] # s

\* Mutation of Schedule: the backoff is not capped.
ScheduleUncapped(live, is_eph) ==
    IF live
    THEN UNCHANGED <<re, backoff>>
    ELSE /\ re' = [pc |-> "sleep", eph |-> is_eph]
         /\ backoff' = 2 * backoff

\* _schedule_reconnect: a pending task, even the one that is calling, wins.
Schedule(live, is_eph) ==
    IF live
    THEN UNCHANGED <<re, backoff>>
    ELSE /\ re' = [pc |-> "sleep", eph |-> is_eph]
         /\ backoff' = IF 2 * backoff > MaxBackoff THEN MaxBackoff ELSE 2 * backoff

-----------------------------------------------------------------------------
\* The greeting of an agent carries self.access_token, whatever it is by now; that
\* of a room member the token that came with the room.
Greeted(as) == [st |-> "open", as |-> as, tok |-> as = "room" \/ token]

\* Mutation of Established: the receive loop is not started.
EstablishedUnread(s, as) ==
    /\ server = "up" /\ Unused(s)
    /\ sock' = [sock EXCEPT ![s] = Greeted(as)]
    /\ ws' = s /\ wsTask' = s
    /\ running' = TRUE
    /\ backoff' = InitialBackoff
    /\ UNCHANGED <<loop, reads>>

\* _do_ws_connect after the handshake: self.ws, the greeting, the loop task.
Established(s, as) ==
    /\ server = "up" /\ Unused(s)
    /\ sock' = [sock EXCEPT ![s] = Greeted(as)]
    /\ loop' = [loop EXCEPT ![s] = "ready"]
    /\ reads' = [reads EXCEPT ![s] = NoSocket]
    /\ ws' = s /\ wsTask' = s
    /\ running' = TRUE
    /\ backoff' = InitialBackoff

\* The handshake succeeded and the greeting failed: self.ws stays assigned.
GreetingLost(s) ==
    /\ server = "down" /\ Unused(s)
    /\ sock' = [sock EXCEPT ![s] = [Free EXCEPT !.st = "lost"]]
    /\ ws' = s
    /\ UNCHANGED <<loop, reads, wsTask, running>>

MayConnect == Polite => want = "off" /\ \A c \in Callers : call[c] = Idle

MayDisconnect == Polite => \A c \in Callers : call[c].pc # "dial"

\* connect, up to the handshake.
Connect(c) ==
    /\ call[c] = Idle /\ MayConnect
    /\ "agent" \in Identities /\ token
    /\ manual' = FALSE
    /\ backoff' = InitialBackoff
    /\ call' = [call EXCEPT ![c] = [pc |-> "dial", as |-> "agent"]]
    /\ UNCHANGED <<sockVars, ws, wsTask, running, eph, authVars, re, server, want>>

\* join_ephemeral_room after the join request was answered: it remembers the
\* room and goes through connect_ephemeral to the handshake.
JoinRoom(c) ==
    /\ call[c] = Idle /\ MayConnect
    /\ "room" \in Identities
    /\ eph' = TRUE
    /\ manual' = FALSE
    /\ backoff' = InitialBackoff
    /\ call' = [call EXCEPT ![c] = [pc |-> "dial", as |-> "room"]]
    /\ UNCHANGED <<sockVars, ws, wsTask, running, authVars, re, server, want>>

Dialled(c) ==
    /\ call[c].pc = "dial"
    /\ \/ /\ \E s \in Sockets : Established(s, call[c].as)
          /\ want' = call[c].as
       \/ /\ \E s \in Sockets : GreetingLost(s)
          /\ UNCHANGED <<backoff, want>>
       \/ /\ server = "down"
          /\ UNCHANGED <<sockVars, connVars, want>>
    /\ call' = [call EXCEPT ![c] = Idle]
    /\ UNCHANGED <<manual, eph, authVars, re, server>>

\* login, when the tokens are gone.
Login(c) ==
    /\ call[c] = Idle /\ ~token
    /\ token' = TRUE /\ refresh' = TRUE
    /\ UNCHANGED <<sockVars, connVars, manual, eph, re, call, server, want>>

-----------------------------------------------------------------------------
\* disconnect, first part: no more reconnects, and a pending one is cancelled
\* (CancelledError reaches it at its next step, so it does nothing more).
Disconnect(c) ==
    /\ call[c] = Idle /\ MayDisconnect
    /\ manual' = TRUE
    /\ want' = "off"
    /\ re' = IF ReAlive THEN [re EXCEPT !.pc = "done"] ELSE re
    /\ call' = [call EXCEPT ![c] = [pc |-> "stop", as |-> "nobody"]]
    /\ UNCHANGED <<sockVars, connVars, eph, authVars, server>>

\* disconnect after the reconnect task ended: the offline message, then the
\* receive loop is cancelled.  One that has not run yet never runs.
StopLoop(c) ==
    /\ call[c].pc = "stop"
    /\ running' = FALSE
    /\ IF wsTask # NoSocket /\ LoopAlive(wsTask)
       THEN loop' = [loop EXCEPT ![wsTask] =
                         IF @ = "ready" THEN "done" ELSE "cancelled"]
       ELSE UNCHANGED loop
    /\ call' = [call EXCEPT ![c].pc = "await"]
    /\ UNCHANGED <<sock, reads, ws, wsTask, backoff, manual, eph, authVars, re, server, want>>

\* ... and when it has ended, self.ws is closed.
CloseSocket(c) ==
    /\ call[c].pc = "await"
    /\ wsTask # NoSocket => loop[wsTask] # "cancelled"
    /\ IF ws # NoSocket /\ sock[ws].st \in {"open", "lost"}
       THEN /\ sock' = [sock EXCEPT ![ws].st = "closed"]
            /\ call' = [call EXCEPT ![c].pc = "closed"]
       ELSE /\ call' = [call EXCEPT ![c] = Idle]
            /\ UNCHANGED sock
    /\ UNCHANGED <<loop, reads, connVars, manual, eph, authVars, re, server, want>>

\* After the close handshake self.ws is cleared, whatever it is by now.
Disconnected(c) ==
    /\ call[c].pc = "closed"
    /\ ws' = NoSocket
    /\ call' = [call EXCEPT ![c] = Idle]
    /\ UNCHANGED <<sockVars, wsTask, running, backoff, manual, eph, authVars, re, server, want>>

-----------------------------------------------------------------------------
\* _ws_loop, its first step.  It reads self.ws now, not when it was created;
\* without one it returns before the try block.
LoopStart(s) ==
    /\ loop[s] = "ready"
    /\ loop' = [loop EXCEPT ![s] = IF ws = NoSocket THEN "done" ELSE "reading"]
    /\ reads' = [reads EXCEPT ![s] = ws]
    /\ UNCHANGED <<sock, connVars, manual, eph, authVars, re, call, server, want>>

\* Mutation of LoopEnd: reconnects after a disconnect as well.
LoopEndReconnects(s) ==
    /\ \/ loop[s] = "cancelled"
       \/ /\ loop[s] = "reading"
          /\ sock[reads[s]].st \in {"lost", "closed"}
    /\ loop' = [loop EXCEPT ![s] = "done"]
    /\ sock' = IF sock[reads[s]].st = "lost"
               THEN [sock EXCEPT ![reads[s]].st = "closed"] ELSE sock
    /\ running' = FALSE
    /\ Schedule(ReAlive, eph)
    /\ UNCHANGED <<reads, ws, wsTask, manual, eph, authVars, call, server, want>>

\* _ws_loop ends (its socket is gone, it was cancelled, or another loop reads
\* the same socket): the finally block.
LoopEnd(s) ==
    /\ \/ loop[s] = "cancelled"
       \/ /\ loop[s] = "reading"
          /\ \/ sock[reads[s]].st \in {"lost", "closed"}
             \/ \E t \in Sockets \ {s} : loop[t] = "reading" /\ reads[t] = reads[s]
    /\ loop' = [loop EXCEPT ![s] = "done"]
    /\ sock' = IF sock[reads[s]].st = "lost"
               THEN [sock EXCEPT ![reads[s]].st = "closed"] ELSE sock
    /\ running' = FALSE
    /\ IF manual THEN UNCHANGED <<re, backoff>> ELSE Schedule(ReAlive, eph)
    /\ UNCHANGED <<reads, ws, wsTask, manual, eph, authVars, call, server, want>>

-----------------------------------------------------------------------------
\* Mutation of Wake: gives up when there is no refresh token.
WakeNeedsRefresh ==
    /\ re.pc = "sleep"
    /\ re' = [re EXCEPT !.pc = IF manual \/ ~refresh THEN "done" ELSE "refresh"]
    /\ UNCHANGED <<sockVars, connVars, manual, eph, authVars, call, server, want>>

\* _reconnect_after wakes from its sleep.
Wake ==
    /\ re.pc = "sleep"
    /\ re' = [re EXCEPT !.pc = IF manual THEN "done"
                               ELSE IF ~re.eph /\ refresh THEN "refresh" ELSE "dial"]
    /\ UNCHANGED <<sockVars, connVars, manual, eph, authVars, call, server, want>>

\* refresh_auth inside _reconnect_after.  A rejected refresh token clears both
\* tokens, an unreachable server clears none; the task goes on either way.
RefreshStep ==
    /\ re.pc = "refresh"
    /\ \/ server = "up" /\ token' = TRUE /\ UNCHANGED refresh
       \/ RefreshRejected /\ server = "up" /\ token' = FALSE /\ refresh' = FALSE
       \/ server = "down" /\ UNCHANGED authVars
    /\ re' = [re EXCEPT !.pc = "dial"]
    /\ UNCHANGED <<sockVars, connVars, manual, eph, call, server, want>>

\* The except branch calls _schedule_reconnect from within the task, which finds
\* the task itself not done and returns; then the task ends.
RedialFailed == re' = [re EXCEPT !.pc = "done"] /\ UNCHANGED backoff

Redial ==
    /\ re.pc = "dial"
    /\ LET as == IF re.eph /\ eph THEN "room" ELSE "agent"
       IN \/ /\ \E s \in Sockets : Established(s, as)
             /\ re' = [re EXCEPT !.pc = "done"]
          \/ /\ server = "down"
             /\ \/ UNCHANGED <<sockVars, ws, wsTask, running>>
                \/ \E s \in Sockets : GreetingLost(s)
             /\ RedialFailed
    /\ UNCHANGED <<manual, eph, authVars, call, server, want>>

-----------------------------------------------------------------------------
\* The network and the server.
Drop(s) ==
    /\ sock[s].st = "open"
    /\ sock' = [sock EXCEPT ![s].st = "lost"]
    /\ UNCHANGED <<loop, reads, connVars, manual, eph, authVars, re, call, server, want>>

ServerDown ==
    /\ ServerFails /\ server = "up"
    /\ server' = "down"
    /\ sock' = [s \in Sockets |-> IF Open(s) THEN [sock[s] EXCEPT !.st = "lost"] ELSE sock[s]]
    /\ UNCHANGED <<loop, reads, connVars, manual, eph, authVars, re, call, want>>

ServerUp ==
    /\ server = "down"
    /\ server' = "up"
    /\ UNCHANGED <<sockVars, connVars, manual, eph, authVars, re, call, want>>

-----------------------------------------------------------------------------
Progress(c) == Dialled(c) \/ StopLoop(c) \/ CloseSocket(c) \/ Disconnected(c)
LoopStep(s) == LoopStart(s) \/ LoopEnd(s)
ReStep == Wake \/ RefreshStep \/ Redial
User(c) == Connect(c) \/ JoinRoom(c) \/ Login(c) \/ Disconnect(c)

Next ==
    \/ \E c \in Callers : User(c) \/ Progress(c)
    \/ \E s \in Sockets : LoopStep(s) \/ Drop(s)
    \/ ReStep \/ ServerDown \/ ServerUp

Spec == Init /\ [][Next]_vars

\* The event loop runs every ready coroutine, and an outage ends.  Nothing is
\* assumed of the user, of connection losses or of new outages.
FairSpec ==
    /\ Spec
    /\ \A c \in Callers : WF_vars(Progress(c))
    /\ \A s \in Sockets : WF_vars(LoopStep(s))
    /\ WF_vars(ReStep)
    /\ WF_vars(ServerUp)

-----------------------------------------------------------------------------
TypeOK ==
    /\ sock \in [Sockets -> [st : {"free", "open", "lost", "closed"},
                             as : {"nobody", "agent", "room"}, tok : BOOLEAN]]
    /\ loop \in [Sockets -> {"none", "ready", "reading", "cancelled", "done"}]
    /\ reads \in [Sockets -> Sockets \union {NoSocket}]
    /\ {ws, wsTask} \subseteq Sockets \union {NoSocket}
    /\ {running, manual, eph, token, refresh} \subseteq BOOLEAN
    /\ backoff \in InitialBackoff..MaxBackoff
    /\ re \in [pc : {"none", "sleep", "refresh", "dial", "done"}, eph : BOOLEAN]
    /\ call \in [Callers -> [pc : {"idle", "dial", "stop", "await", "closed"},
                             as : {"nobody", "agent", "room"}]]
    /\ server \in {"up", "down"}
    /\ want \in {"off", "agent", "room"}

Quiet == \A c \in Callers : call[c] = Idle

\* To a polite user the server never sees two live sockets of one client, so no
\* message is received twice and presence follows the one connection (connect
\* and _reconnect_after both overwrite self.ws without looking).
OneLiveSocket == Cardinality({s \in Sockets : Open(s)}) <= 1

\* And the one that the client uses always has a receive loop.
OneReadSocket ==
    /\ OneLiveSocket
    /\ Open(ws) => \/ \E l \in Sockets : LoopAlive(l) /\ (loop[l] = "ready" \/ reads[l] = ws)
                   \/ ~Quiet

\* Once disconnect() has returned there is no open socket, no receive loop and
\* no reconnect task left, until the user connects again.
DisconnectIsFinal ==
    Quiet /\ manual => /\ ~ReAlive
                       /\ \A s \in Sockets : ~Open(s) /\ ~LoopAlive(s)

\* The server knows the client: the greeting on the current socket had a token.
Online == Connected /\ sock[ws].tok

\* Connected without a token, because the server rejected the refresh token, which
\* clears both tokens before the reconnect greets (GreetsWithToken is violated by it).
OnlineUnnamed == Connected /\ ~sock[ws].tok /\ ~refresh

\* A connection the user wants and that is lost is re-made, with a token in the
\* greeting, or given up by the user, as long as the server is reachable throughout.
\* The one exception: when the refresh token is rejected there is a connection again,
\* but the greeting on it has no token until the user acts.
RecoversFromLoss ==
    [](server = "up") =>
        (want # "off" /\ ~Connected) ~> (Online \/ OnlineUnnamed \/ want = "off")

\* The same after outages: once the server stays reachable.
Recovers ==
    <>[](server = "up") => (want # "off" /\ ~Connected) ~> (Online \/ want = "off")

\* Whoever is online as an agent gave a token: SPEC.md has the client send the
\* greeting with the fresh token after a reconnect.
GreetsWithToken ==
    \A s \in Sockets : Open(s) /\ sock[s].as = "agent" => sock[s].tok
=============================================================================
