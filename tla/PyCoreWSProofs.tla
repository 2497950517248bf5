--------------------------- MODULE PyCoreWSProofs ---------------------------
(***************************************************************************)
(* For any number of sockets and of coroutines that call the API: a client *)
(* whose user is polite has at most one live socket, which its receive     *)
(* loop reads, and nothing of it is left after disconnect.                 *)
(* Neither is inductive: what makes them so is that whoever is about to    *)
(* dial, the user's call or the reconnect task, finds no open socket and   *)
(* no receive loop, and that there is never one of each.                   *)
(***************************************************************************)
EXTENDS PyCoreWS, FiniteSetTheorems, TLAPS

\* A call that dials knows as whom it will greet.
DialsAs == \A c \in Callers : call[c].pc = "dial" => call[c].as \in {"agent", "room"}

TypeInv == TypeOK /\ DialsAs

\* No open socket and no receive loop.
Clean == \A s \in Sockets : ~Open(s) /\ ~LoopAlive(s)

Stopping(c) == call[c].pc \in {"stop", "await"}

\* There is one receive loop, that of the current socket, and it reads this socket;
\* without a disconnect under way an open socket has its loop.
LoopInv ==
    /\ \A s \in Sockets : LoopAlive(s) => s = ws /\ s = wsTask
    /\ \A s \in Sockets : loop[s] \in {"reading", "cancelled"} => reads[s] = s
    /\ \A s \in Sockets : loop[s] = "cancelled" => manual
    /\ \A s \in Sockets : Open(s) =>
          s = ws /\ server = "up" /\ (LoopAlive(s) \/ \E c \in Callers : Stopping(c))

\* What a disconnect that is under way has done so far.
StopInv ==
    /\ manual => want = "off"
    /\ \A c \in Callers : call[c].pc \in {"stop", "await", "closed"} => manual
    /\ \A c \in Callers : call[c].pc = "await" /\ wsTask # NoSocket =>
          loop[wsTask] \notin {"ready", "reading"}
    /\ \A c \in Callers : call[c].pc = "closed" => Clean

\* Who dials has nothing behind it and nobody beside it.
DialInv ==
    /\ ReAlive => want # "off" /\ Clean
    /\ want = "off" => Clean \/ \E c \in Callers : Stopping(c)
    /\ \A c \in Callers : call[c].pc = "dial" =>
          want = "off" /\ ~manual /\ \A d \in Callers \ {c} : call[d] = Idle

ConnInv == TypeInv /\ (Polite => LoopInv /\ StopInv /\ DialInv)

-----------------------------------------------------------------------------
\* The types of what a handshake may change.
SocketType == /\ sock \in [Sockets -> [st : {"free", "open", "lost", "closed"},
                                       as : {"nobody", "agent", "room"}, tok : BOOLEAN]]
              /\ loop \in [Sockets -> {"none", "ready", "reading", "cancelled", "done"}]
              /\ reads \in [Sockets -> Sockets \union {NoSocket}]
              /\ ws \in Sockets \union {NoSocket} /\ wsTask \in Sockets \union {NoSocket}
              /\ running \in BOOLEAN
BackoffType == backoff \in InitialBackoff..MaxBackoff

LEMMA BackoffRange == InitialBackoff \in InitialBackoff..MaxBackoff
BY PyAssumption

LEMMA EstablishedType ==
    ASSUME TypeOK, NEW s \in Sockets, NEW as \in {"agent", "room"}, Established(s, as)
    PROVE  SocketType' /\ BackoffType'
<1>1. SocketType'
  BY DEF TypeOK, SocketType, Established, Greeted
<1>2. BackoffType'
  BY BackoffRange DEF BackoffType, Established
<1>3. QED
  BY <1>1, <1>2

LEMMA GreetingLostType ==
    ASSUME TypeOK, NEW s \in Sockets, GreetingLost(s)
    PROVE  SocketType'
BY DEF TypeOK, SocketType, GreetingLost, Free

LEMMA ClosedType ==
    ASSUME TypeOK, NEW t
    PROVE  [sock EXCEPT ![t].st = "closed"] \in
             [Sockets -> [st : {"free", "open", "lost", "closed"},
                          as : {"nobody", "agent", "room"}, tok : BOOLEAN]]
<1> DEFINE SocketRec == [st : {"free", "open", "lost", "closed"},
                         as : {"nobody", "agent", "room"}, tok : BOOLEAN]
<1>1. sock \in [Sockets -> SocketRec]
  BY DEF TypeOK
<1>2. \A s \in Sockets : [sock[s] EXCEPT !.st = "closed"] \in SocketRec
  BY <1>1
<1> HIDE DEF SocketRec
<1>3. [sock EXCEPT ![t].st = "closed"] \in [Sockets -> SocketRec]
  BY <1>1, <1>2
<1>4. QED
  BY <1>3 DEF SocketRec

LEMMA TypeKept ==
    ASSUME TypeInv, Next
    PROVE  TypeInv'
<1> USE PyAssumption DEF TypeInv, TypeOK, DialsAs, Free, Idle, sockVars, connVars, authVars
<1>1. ASSUME NEW c \in Callers, Connect(c) PROVE TypeInv'
  <2>1. TypeOK'
    <3>1. call' \in [Callers -> [pc : {"idle", "dial", "stop", "await", "closed"},
                                as : {"nobody", "agent", "room"}]]
      BY <1>1 DEF Connect
    <3>2. backoff' \in InitialBackoff..MaxBackoff
      BY <1>1, BackoffRange DEF Connect
    <3>3. QED
      BY <1>1, <3>1, <3>2 DEF Connect
  <2>2. DialsAs'
    BY <1>1 DEF Connect
  <2>3. QED
    BY <2>1, <2>2
<1>2. ASSUME NEW c \in Callers, JoinRoom(c) PROVE TypeInv'
  <2>1. TypeOK'
    <3>1. call' \in [Callers -> [pc : {"idle", "dial", "stop", "await", "closed"},
                                as : {"nobody", "agent", "room"}]]
      BY <1>2 DEF JoinRoom
    <3>2. backoff' \in InitialBackoff..MaxBackoff
      BY <1>2, BackoffRange DEF JoinRoom
    <3>3. QED
      BY <1>2, <3>1, <3>2 DEF JoinRoom
  <2>2. DialsAs'
    BY <1>2 DEF JoinRoom
  <2>3. QED
    BY <2>1, <2>2
<1>3. ASSUME NEW c \in Callers, Dialled(c) PROVE TypeInv'
  <2>1. /\ call[c].as \in {"agent", "room"}
        /\ call' = [call EXCEPT ![c] = Idle]
        /\ UNCHANGED <<manual, eph, authVars, re, server>>
    BY <1>3 DEF Dialled
  <2>2. DialsAs' /\ call' \in [Callers -> [pc : {"idle", "dial", "stop", "await", "closed"},
                                            as : {"nobody", "agent", "room"}]]
    BY <2>1
  <2>3. SocketType' /\ BackoffType' /\ want' \in {"off", "agent", "room"}
    <3>1. CASE \E s \in Sockets : Established(s, call[c].as) /\ want' = call[c].as
      BY <2>1, <3>1, EstablishedType
    <3>2. CASE \E s \in Sockets : GreetingLost(s) /\ UNCHANGED <<backoff, want>>
      BY <3>2, GreetingLostType DEF BackoffType
    <3>3. CASE UNCHANGED <<sockVars, connVars, want>>
      BY <3>3 DEF SocketType, BackoffType
    <3>4. QED
      BY <1>3, <3>1, <3>2, <3>3 DEF Dialled
  <2>4. QED
    BY <2>1, <2>2, <2>3 DEF SocketType, BackoffType
<1>4. ASSUME NEW c \in Callers, Login(c) PROVE TypeInv'
  BY <1>4 DEF Login
<1>5. ASSUME NEW c \in Callers, Disconnect(c) PROVE TypeInv'
  BY <1>5 DEF Disconnect
<1>6. ASSUME NEW c \in Callers, StopLoop(c) PROVE TypeInv'
  BY <1>6 DEF StopLoop
<1>7. ASSUME NEW c \in Callers, CloseSocket(c) PROVE TypeInv'
  <2>1. sock' \in [Sockets -> [st : {"free", "open", "lost", "closed"},
                               as : {"nobody", "agent", "room"}, tok : BOOLEAN]]
    <3>1. sock' = sock \/ sock' = [sock EXCEPT ![ws].st = "closed"]
      BY <1>7 DEF CloseSocket
    <3>2. QED
      BY <3>1, ClosedType
  <2>2. DialsAs' /\ call' \in [Callers -> [pc : {"idle", "dial", "stop", "await", "closed"},
                                            as : {"nobody", "agent", "room"}]]
    <3>1. call' = [call EXCEPT ![c].pc = "closed"] \/ call' = [call EXCEPT ![c] = Idle]
      BY <1>7 DEF CloseSocket
    <3>2. QED
      BY <3>1
  <2>3. UNCHANGED <<loop, reads, connVars, manual, eph, authVars, re, server, want>>
    BY <1>7 DEF CloseSocket
  <2>4. QED
    BY <2>1, <2>2, <2>3
<1>8. ASSUME NEW c \in Callers, Disconnected(c) PROVE TypeInv'
  BY <1>8 DEF Disconnected
<1>9. ASSUME NEW s \in Sockets, LoopStart(s) PROVE TypeInv'
  BY <1>9 DEF LoopStart
<1>10. ASSUME NEW s \in Sockets, LoopEnd(s) PROVE TypeInv'
  <2>1. /\ loop' \in [Sockets -> {"none", "ready", "reading", "cancelled", "done"}]
        /\ sock' \in [Sockets -> [st : {"free", "open", "lost", "closed"},
                                  as : {"nobody", "agent", "room"}, tok : BOOLEAN]]
    <3>1. /\ loop' = [loop EXCEPT ![s] = "done"]
          /\ sock' = IF sock[reads[s]].st = "lost"
                     THEN [sock EXCEPT ![reads[s]].st = "closed"] ELSE sock
      BY <1>10 DEF LoopEnd
    <3>2. loop' \in [Sockets -> {"none", "ready", "reading", "cancelled", "done"}]
      BY <3>1
    <3>3. [sock EXCEPT ![reads[s]].st = "closed"] \in
            [Sockets -> [st : {"free", "open", "lost", "closed"},
                         as : {"nobody", "agent", "room"}, tok : BOOLEAN]]
      <4> DEFINE t == reads[s]
      <4> HIDE DEF t
      <4>1. [sock EXCEPT ![t].st = "closed"] \in
              [Sockets -> [st : {"free", "open", "lost", "closed"},
                           as : {"nobody", "agent", "room"}, tok : BOOLEAN]]
        BY ClosedType
      <4>2. QED
        BY <4>1 DEF t
    <3>4. QED
      BY <3>1, <3>2, <3>3
  <2>2. /\ re' \in [pc : {"none", "sleep", "refresh", "dial", "done"}, eph : BOOLEAN]
        /\ backoff' \in InitialBackoff..MaxBackoff
    <3>1. \/ UNCHANGED <<re, backoff>>
          \/ /\ re' = [pc |-> "sleep", eph |-> eph]
             /\ backoff' = IF 2 * backoff > MaxBackoff THEN MaxBackoff ELSE 2 * backoff
      BY <1>10 DEF LoopEnd, Schedule
    <3>2. (IF 2 * backoff > MaxBackoff THEN MaxBackoff ELSE 2 * backoff)
              \in InitialBackoff..MaxBackoff
      OBVIOUS
    <3>3. QED
      BY <3>1, <3>2
  <2>3. running' = FALSE /\ UNCHANGED <<reads, ws, wsTask, manual, eph, authVars, call, server, want>>
    BY <1>10 DEF LoopEnd
  <2>4. QED
    BY <2>1, <2>2, <2>3
<1>11. ASSUME Wake PROVE TypeInv'
  BY <1>11 DEF Wake
<1>12. ASSUME RefreshStep PROVE TypeInv'
  BY <1>12 DEF RefreshStep
<1>13. ASSUME Redial PROVE TypeInv'
  <2>1. /\ re' = [re EXCEPT !.pc = "done"]
        /\ UNCHANGED <<manual, eph, authVars, call, server, want>>
    BY <1>13 DEF Redial, RedialFailed
  <2>2. SocketType' /\ BackoffType'
    <3>1. CASE \E s \in Sockets, as \in {"agent", "room"} : Established(s, as)
      BY <3>1, EstablishedType
    <3>2. CASE UNCHANGED <<sockVars, ws, wsTask, running, backoff>>
      BY <3>2 DEF SocketType, BackoffType
    <3>3. CASE \E s \in Sockets : GreetingLost(s) /\ UNCHANGED backoff
      BY <3>3, GreetingLostType DEF BackoffType
    <3>4. QED
      BY <1>13, <3>1, <3>2, <3>3 DEF Redial, RedialFailed
  <2>3. QED
    BY <2>1, <2>2 DEF SocketType, BackoffType
<1>14. ASSUME NEW s \in Sockets, Drop(s) PROVE TypeInv'
  BY <1>14 DEF Drop
<1>15. ASSUME ServerDown PROVE TypeInv'
  BY <1>15 DEF ServerDown
<1>16. ASSUME ServerUp PROVE TypeInv'
  BY <1>16 DEF ServerUp
<1>17. QED
  BY <1>1, <1>2, <1>3, <1>4, <1>5, <1>6, <1>7, <1>8,
     <1>9, <1>10, <1>11, <1>12, <1>13, <1>14, <1>15, <1>16
     DEF Next, User, Progress, LoopStep, ReStep

LEMMA LoopKept ==
    ASSUME TypeInv, Polite, LoopInv, StopInv, DialInv, Next
    PROVE  LoopInv'
<1> USE PyAssumption DEF TypeInv, TypeOK, DialsAs, Free, Idle, sockVars, connVars, authVars, LoopInv, StopInv, DialInv, Stopping, Clean, Open, LoopAlive, ReAlive, MayConnect, MayDisconnect
<1>1. ASSUME NEW c \in Callers, Connect(c) PROVE LoopInv'
  BY <1>1 DEF Connect
<1>2. ASSUME NEW c \in Callers, JoinRoom(c) PROVE LoopInv'
  BY <1>2 DEF JoinRoom
<1>3. ASSUME NEW c \in Callers, Dialled(c) PROVE LoopInv'
  BY <1>3 DEF Dialled, Established, Greeted, GreetingLost, Unused
<1>4. ASSUME NEW c \in Callers, Login(c) PROVE LoopInv'
  BY <1>4 DEF Login
<1>5. ASSUME NEW c \in Callers, Disconnect(c) PROVE LoopInv'
  BY <1>5 DEF Disconnect
<1>6. ASSUME NEW c \in Callers, StopLoop(c) PROVE LoopInv'
  BY <1>6 DEF StopLoop
<1>7. ASSUME NEW c \in Callers, CloseSocket(c) PROVE LoopInv'
  BY <1>7 DEF CloseSocket
<1>8. ASSUME NEW c \in Callers, Disconnected(c) PROVE LoopInv'
  BY <1>8 DEF Disconnected
<1>9. ASSUME NEW s \in Sockets, LoopStart(s) PROVE LoopInv'
  BY <1>9 DEF LoopStart
<1>10. ASSUME NEW s \in Sockets, LoopEnd(s) PROVE LoopInv'
  BY <1>10 DEF LoopEnd, Schedule
<1>11. ASSUME Wake PROVE LoopInv'
  BY <1>11 DEF Wake
<1>12. ASSUME RefreshStep PROVE LoopInv'
  BY <1>12 DEF RefreshStep
<1>13. ASSUME Redial PROVE LoopInv'
  BY <1>13 DEF Redial, RedialFailed, Established, Greeted, GreetingLost, Unused
<1>14. ASSUME NEW s \in Sockets, Drop(s) PROVE LoopInv'
  BY <1>14 DEF Drop
<1>15. ASSUME ServerDown PROVE LoopInv'
  BY <1>15 DEF ServerDown
<1>16. ASSUME ServerUp PROVE LoopInv'
  BY <1>16 DEF ServerUp
<1>17. QED
  BY <1>1, <1>2, <1>3, <1>4, <1>5, <1>6, <1>7, <1>8,
     <1>9, <1>10, <1>11, <1>12, <1>13, <1>14, <1>15, <1>16
     DEF Next, User, Progress, LoopStep, ReStep

LEMMA StopKept ==
    ASSUME TypeInv, Polite, LoopInv, StopInv, DialInv, Next
    PROVE  StopInv'
<1> USE PyAssumption DEF TypeInv, TypeOK, DialsAs, Free, Idle, sockVars, connVars, authVars, LoopInv, StopInv, DialInv, Stopping, Clean, Open, LoopAlive, ReAlive, MayConnect, MayDisconnect
<1>1. ASSUME NEW c \in Callers, Connect(c) PROVE StopInv'
  BY <1>1 DEF Connect
<1>2. ASSUME NEW c \in Callers, JoinRoom(c) PROVE StopInv'
  BY <1>2 DEF JoinRoom
<1>3. ASSUME NEW c \in Callers, Dialled(c) PROVE StopInv'
  BY <1>3 DEF Dialled, Established, Greeted, GreetingLost, Unused
<1>4. ASSUME NEW c \in Callers, Login(c) PROVE StopInv'
  BY <1>4 DEF Login
<1>5. ASSUME NEW c \in Callers, Disconnect(c) PROVE StopInv'
  BY <1>5 DEF Disconnect
<1>6. ASSUME NEW c \in Callers, StopLoop(c) PROVE StopInv'
  BY <1>6 DEF StopLoop
<1>7. ASSUME NEW c \in Callers, CloseSocket(c) PROVE StopInv'
  BY <1>7 DEF CloseSocket
<1>8. ASSUME NEW c \in Callers, Disconnected(c) PROVE StopInv'
  BY <1>8 DEF Disconnected
<1>9. ASSUME NEW s \in Sockets, LoopStart(s) PROVE StopInv'
  BY <1>9 DEF LoopStart
<1>10. ASSUME NEW s \in Sockets, LoopEnd(s) PROVE StopInv'
  BY <1>10 DEF LoopEnd, Schedule
<1>11. ASSUME Wake PROVE StopInv'
  BY <1>11 DEF Wake
<1>12. ASSUME RefreshStep PROVE StopInv'
  BY <1>12 DEF RefreshStep
<1>13. ASSUME Redial PROVE StopInv'
  BY <1>13 DEF Redial, RedialFailed, Established, Greeted, GreetingLost, Unused
<1>14. ASSUME NEW s \in Sockets, Drop(s) PROVE StopInv'
  BY <1>14 DEF Drop
<1>15. ASSUME ServerDown PROVE StopInv'
  BY <1>15 DEF ServerDown
<1>16. ASSUME ServerUp PROVE StopInv'
  BY <1>16 DEF ServerUp
<1>17. QED
  BY <1>1, <1>2, <1>3, <1>4, <1>5, <1>6, <1>7, <1>8,
     <1>9, <1>10, <1>11, <1>12, <1>13, <1>14, <1>15, <1>16
     DEF Next, User, Progress, LoopStep, ReStep

LEMMA DialKept ==
    ASSUME TypeInv, Polite, LoopInv, StopInv, DialInv, Next
    PROVE  DialInv'
<1> USE PyAssumption DEF TypeInv, TypeOK, DialsAs, Free, Idle, sockVars, connVars, authVars, LoopInv, StopInv, DialInv, Stopping, Clean, Open, LoopAlive, ReAlive, MayConnect, MayDisconnect
<1>1. ASSUME NEW c \in Callers, Connect(c) PROVE DialInv'
  BY <1>1 DEF Connect
<1>2. ASSUME NEW c \in Callers, JoinRoom(c) PROVE DialInv'
  BY <1>2 DEF JoinRoom
<1>3. ASSUME NEW c \in Callers, Dialled(c) PROVE DialInv'
  <2>1. /\ call' = [call EXCEPT ![c] = Idle] /\ UNCHANGED <<manual, re>>
        /\ \A d \in Callers \ {c} : call[d] = Idle
        /\ want = "off" /\ ~ReAlive /\ call[c].as # "off"
    BY <1>3 DEF Dialled
  <2>2. \A d \in Callers : call'[d].pc = "idle"
    BY <2>1
  <2>3. Clean
    BY <1>3, <2>1 DEF Dialled
  <2>4. want' = "off" => Clean'
    BY <1>3, <2>1, <2>3 DEF Dialled, GreetingLost
  <2>5. QED
    BY <2>1, <2>2, <2>4
<1>4. ASSUME NEW c \in Callers, Login(c) PROVE DialInv'
  BY <1>4 DEF Login
<1>5. ASSUME NEW c \in Callers, Disconnect(c) PROVE DialInv'
  BY <1>5 DEF Disconnect
<1>6. ASSUME NEW c \in Callers, StopLoop(c) PROVE DialInv'
  BY <1>6 DEF StopLoop
<1>7. ASSUME NEW c \in Callers, CloseSocket(c) PROVE DialInv'
  BY <1>7 DEF CloseSocket
<1>8. ASSUME NEW c \in Callers, Disconnected(c) PROVE DialInv'
  BY <1>8 DEF Disconnected
<1>9. ASSUME NEW s \in Sockets, LoopStart(s) PROVE DialInv'
  BY <1>9 DEF LoopStart
<1>10. ASSUME NEW s \in Sockets, LoopEnd(s) PROVE DialInv'
  BY <1>10 DEF LoopEnd, Schedule
<1>11. ASSUME Wake PROVE DialInv'
  BY <1>11 DEF Wake
<1>12. ASSUME RefreshStep PROVE DialInv'
  BY <1>12 DEF RefreshStep
<1>13. ASSUME Redial PROVE DialInv'
  BY <1>13 DEF Redial, RedialFailed, Established, Greeted, GreetingLost, Unused
<1>14. ASSUME NEW s \in Sockets, Drop(s) PROVE DialInv'
  BY <1>14 DEF Drop
<1>15. ASSUME ServerDown PROVE DialInv'
  BY <1>15 DEF ServerDown
<1>16. ASSUME ServerUp PROVE DialInv'
  BY <1>16 DEF ServerUp
<1>17. QED
  BY <1>1, <1>2, <1>3, <1>4, <1>5, <1>6, <1>7, <1>8,
     <1>9, <1>10, <1>11, <1>12, <1>13, <1>14, <1>15, <1>16
     DEF Next, User, Progress, LoopStep, ReStep

-----------------------------------------------------------------------------
LEMMA InitHolds == Init => ConnInv
<1> SUFFICES ASSUME Init PROVE ConnInv
  OBVIOUS
<1>1. TypeInv
  <2>1. backoff \in InitialBackoff..MaxBackoff
    BY BackoffRange DEF Init
  <2>2. QED
    BY <2>1 DEF Init, TypeInv, TypeOK, DialsAs, Free, Idle
<1>2. LoopInv /\ StopInv /\ DialInv
  BY PyAssumption DEF Init, LoopInv, StopInv, DialInv, Clean, Open, LoopAlive, ReAlive, Free, Idle
<1>3. QED
  BY <1>1, <1>2 DEF ConnInv

LEMMA Stutters == ConnInv /\ UNCHANGED vars => ConnInv'
<1> SUFFICES ASSUME ConnInv, UNCHANGED vars PROVE ConnInv'
  OBVIOUS
<1> USE DEF ConnInv, vars
<1>1. TypeInv'
  BY DEF TypeInv, TypeOK, DialsAs
<1>2. Polite => LoopInv' /\ StopInv' /\ DialInv'
  BY DEF LoopInv, StopInv, DialInv, Stopping, Clean, Open, LoopAlive, ReAlive
<1>3. QED
  BY <1>1, <1>2

LEMMA InvKept == ConnInv /\ [Next]_vars => ConnInv'
<1>1. ASSUME ConnInv, Next PROVE ConnInv'
  <2>1. TypeInv'
    BY <1>1, TypeKept DEF ConnInv
  <2>2. ASSUME Polite PROVE LoopInv' /\ StopInv' /\ DialInv'
    BY <1>1, <2>2, LoopKept, StopKept, DialKept DEF ConnInv
  <2>3. QED
    BY <2>1, <2>2 DEF ConnInv
<1>2. QED
  BY <1>1, Stutters

\* The inductive invariant of the connection.
THEOREM ConnInvariant == Spec => []ConnInv
<1>1. QED
  BY InitHolds, InvKept, PTL DEF Spec

\* However connects, disconnects, losses and reconnects overlap, for a polite user or
\* not, all states are of their types, the backoff within its limits.
THEOREM Types == Spec => []TypeOK
<1>1. ConnInv => TypeOK
  BY DEF ConnInv, TypeInv
<1>2. QED
  BY <1>1, ConnInvariant, PTL

\* To a polite user, whatever the number of coroutines that disconnect at once, the
\* server sees at most one live socket, and the one in use is read.
THEOREM OneSocket == Spec => [](Polite => OneReadSocket)
<1>1. ConnInv /\ Polite => OneReadSocket
  <2> SUFFICES ASSUME ConnInv, Polite PROVE OneReadSocket
    OBVIOUS
  <2>1. OneLiveSocket
    <3> DEFINE live == {s \in Sockets : Open(s)}
    <3>1. live \subseteq {ws}
      BY DEF ConnInv, LoopInv
    <3>2. live = {} \/ live = {ws}
      BY <3>1
    <3>3. Cardinality(live) <= 1
      <4>1. Cardinality({}) = 0 /\ Cardinality({ws}) = 1
        BY FS_EmptySet, FS_Singleton
      <4>2. Cardinality(live) \in {0, 1}
        <5> HIDE DEF live
        <5>1. QED
          BY <3>2, <4>1
      <4>3. QED
        BY <4>2
    <3>4. QED
      BY <3>3 DEF OneLiveSocket
  <2>2. ASSUME Open(ws), Quiet
        PROVE  \E l \in Sockets : LoopAlive(l) /\ (loop[l] = "ready" \/ reads[l] = ws)
    <3>1. ws \in Sockets
      BY <2>2 DEF ConnInv, TypeInv, TypeOK, Open
    <3>2. LoopAlive(ws)
      BY <2>2, <3>1 DEF ConnInv, LoopInv, Quiet, Stopping, Idle
    <3>3. loop[ws] = "ready" \/ reads[ws] = ws
      BY <3>1, <3>2 DEF ConnInv, LoopInv, LoopAlive
    <3>4. QED
      BY <3>1, <3>2, <3>3
  <2>3. QED
    BY <2>1, <2>2 DEF OneReadSocket
<1>2. QED
  BY <1>1, ConnInvariant, PTL

\* And once the last of its disconnects has returned, nothing is left that would open
\* a socket again.
THEOREM DisconnectEnds == Spec => [](Polite => DisconnectIsFinal)
<1>1. ConnInv /\ Polite => DisconnectIsFinal
  <2> SUFFICES ASSUME ConnInv, Polite, Quiet, manual
               PROVE  ~ReAlive /\ \A s \in Sockets : ~Open(s) /\ ~LoopAlive(s)
    BY DEF DisconnectIsFinal
  <2>1. want = "off"
    BY DEF ConnInv, StopInv
  <2>2. \A c \in Callers : ~Stopping(c)
    BY DEF Quiet, Stopping, Idle
  <2>3. QED
    BY <2>1, <2>2 DEF ConnInv, DialInv, Clean
<1>2. QED
  BY <1>1, ConnInvariant, PTL

-----------------------------------------------------------------------------
\* The tokens are there, and were in every greeting.
TokenInv == token /\ refresh /\ \A s \in Sockets : Open(s) => sock[s].tok

\* What closes, loses and reads sockets opens none and leaves the tokens.
LEMMA TokenStays ==
    ASSUME TypeInv, TokenInv, UNCHANGED authVars,
           \/ UNCHANGED sock
           \/ \E s \in Sockets \union {NoSocket}, st \in {"lost", "closed"} :
                sock' = [sock EXCEPT ![s].st = st]
           \/ sock' = [s \in Sockets |-> IF Open(s) THEN [sock[s] EXCEPT !.st = "lost"] ELSE sock[s]]
    PROVE  TokenInv'
<1> USE DEF TypeInv, TypeOK, TokenInv, Open, authVars
<1>1. CASE UNCHANGED sock
  BY <1>1
<1>2. ASSUME NEW s \in Sockets \union {NoSocket}, NEW st \in {"lost", "closed"},
             sock' = [sock EXCEPT ![s].st = st]
      PROVE  TokenInv'
  <2>1. \A x \in Sockets : Open(x)' => sock'[x] = sock[x]
    BY <1>2
  <2>2. QED
    BY <2>1
<1>3. CASE sock' = [s \in Sockets |-> IF Open(s) THEN [sock[s] EXCEPT !.st = "lost"] ELSE sock[s]]
  BY <1>3
<1>4. QED
  BY <1>1, <1>2, <1>3

LEMMA TokenKept ==
    ASSUME TypeInv, ~RefreshRejected, TokenInv, Next
    PROVE  TokenInv'
<1> USE PyAssumption DEF TypeInv, TypeOK, TokenInv, Open, sockVars, authVars
<1>1. ASSUME NEW c \in Callers, User(c) PROVE TokenInv'
  BY <1>1 DEF User, Connect, JoinRoom, Login, Disconnect
<1>2. ASSUME NEW s \in Sockets, NEW as \in {"nobody", "agent", "room"},
             Established(s, as), UNCHANGED authVars
      PROVE  TokenInv'
  BY <1>2 DEF Established, Greeted
<1>3. ASSUME NEW s \in Sockets, GreetingLost(s), UNCHANGED authVars PROVE TokenInv'
  BY <1>3 DEF GreetingLost, Free
<1>4. ASSUME NEW c \in Callers, Progress(c) PROVE TokenInv'
  <2>1. CASE Dialled(c)
    BY <1>2, <1>3, <2>1 DEF Dialled
  <2>2. CASE StopLoop(c) \/ CloseSocket(c) \/ Disconnected(c)
    BY <2>2, TokenStays DEF StopLoop, CloseSocket, Disconnected, TypeInv, TypeOK
  <2>3. QED
    BY <1>4, <2>1, <2>2 DEF Progress
<1>5. ASSUME NEW s \in Sockets, LoopStep(s) \/ Drop(s) PROVE TokenInv'
  <2>1. UNCHANGED authVars
    BY <1>5 DEF LoopStep, LoopStart, LoopEnd, Drop
  <2>2. \/ UNCHANGED sock
        \/ \E x \in Sockets \union {NoSocket} : \/ sock' = [sock EXCEPT ![x].st = "lost"]
                                               \/ sock' = [sock EXCEPT ![x].st = "closed"]
    BY <1>5 DEF LoopStep, LoopStart, LoopEnd, Drop
  <2>3. QED
    BY <2>1, <2>2, TokenStays
<1>6. ASSUME Wake \/ RefreshStep PROVE TokenInv'
  BY <1>6 DEF Wake, RefreshStep
<1>7. ASSUME Redial PROVE TokenInv'
  BY <1>2, <1>3, <1>7 DEF Redial
<1>8. ASSUME ServerDown \/ ServerUp PROVE TokenInv'
  BY <1>8, TokenStays DEF ServerDown, ServerUp
<1>9. QED
  BY <1>1, <1>4, <1>5, <1>6, <1>7, <1>8 DEF Next, ReStep

\* Only a server that rejects the refresh token has a client greet without a token:
\* otherwise each agent that is online gave one, also after lost connections, refreshes
\* that an outage cut short, and overlapping calls of a user who is not polite.
THEOREM TokensInGreetings == Spec => [](~RefreshRejected => GreetsWithToken)
<1> DEFINE I == ConnInv /\ (~RefreshRejected => TokenInv)
<1>1. Init => I
  BY InitHolds DEF Init, TokenInv, Open, Free
<1>2. I /\ [Next]_vars => I'
  <2>1. ASSUME ConnInv, ~RefreshRejected, TokenInv, Next PROVE TokenInv'
    BY <2>1, TokenKept DEF ConnInv
  <2>2. ASSUME TokenInv, UNCHANGED vars PROVE TokenInv'
    BY <2>2 DEF TokenInv, Open, vars
  <2>3. QED
    BY <2>1, <2>2, InvKept
<1>3. I => (~RefreshRejected => GreetsWithToken)
  BY DEF TokenInv, GreetsWithToken
<1>4. QED
  BY <1>1, <1>2, <1>3, PTL DEF Spec
=============================================================================
