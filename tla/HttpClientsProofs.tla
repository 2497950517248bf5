-------------------------- MODULE HttpClientsProofs --------------------------
(***************************************************************************)
(* For any number of rooms, owners and overlapping calls every variable    *)
(* keeps its type; and a room client that makes one call at a time, loses  *)
(* no answer, and joins rooms whose codes differ in more than their case,  *)
(* is one member of each room, for any number of rooms and restarts.  An   *)
(* owner's client whose calls neither overlap nor get lost speaks to       *)
(* nobody who has not accepted it, for any number of owners and binds; and *)
(* a client that polls from the last time it was told has been given all   *)
(* that was said before it, for any rooms, owners, messages and calls.     *)
(***************************************************************************)
EXTENDS HttpClients, TLAPS

\* Who binds names an owner, who joins names a room.
Well == {r \in CallRecords : /\ r.op = "bind" => r.to \in Owners
                             /\ r.at \in {"setup", "ask"} => r.op = "bind"
                             /\ r.at \in {"friends", "sent"} => r.op # "bind"}
RoomWell == {r \in Well : /\ r.op \in {"none", "join", "chat"}
                          /\ r.op = "join" => r.to \in Codes}

\* The types, part by part.
HttpTypes ==
    /\ kind \in {"room", "owner", "cli"} /\ serial \in BOOLEAN /\ safe \in BOOLEAN
    /\ now \in Times
    /\ posts \in [Convs -> SUBSET (1..MaxTime)] /\ got \in [Convs -> SUBSET (1..MaxTime)]
    /\ agent \in {"none", "key", "account"}
    /\ core \in {"none", "anon", "token", "late"}
    /\ latest \in Times
RoomTypes ==
    /\ share \in BOOLEAN
    /\ issued \in [Codes -> 0..2]
    /\ keyfile \in [Codes -> Keys \union {NoKey}]
    /\ mem \in [code : Codes \union {None}, key : Keys \union {NoKey}]
ChatTypes ==
    /\ waits \in BOOLEAN /\ shell \in BOOLEAN
    /\ bound \in Owners \union {None}
    /\ friend \subseteq asked /\ asked \subseteq Owners
    /\ rows \subseteq friend /\ spoke \subseteq Owners
    /\ file \in Bindings /\ binding \in Bindings
Types == /\ HttpTypes /\ RoomTypes /\ ChatTypes
         /\ task \in [Tasks -> Well]
         /\ kind = "room" => task \in [Tasks -> RoomWell]

-----------------------------------------------------------------------------
LEMMA IdleWell == Idle \in RoomWell /\ Idle \in Well /\ RoomWell \subseteq Well
BY HttpAssumption DEF Idle, RoomWell, Well, CallRecords, Times

LEMMA WellFacts ==
    ASSUME NEW r \in Well
    PROVE  /\ r.at \in {"setup", "ask"} => r.op = "bind"
           /\ r.at \in {"friends", "sent"} => r.op # "bind"
           /\ r.op = "bind" => r.to \in Owners
           /\ r.key \in Keys \union {NoKey} /\ r.upto \in Times /\ r.since \in Times
           /\ r \in RoomWell /\ r.op = "join" => r.to \in Codes
<1>1. r \in CallRecords
  BY DEF Well
<1>2. r.key \in Keys \union {NoKey} /\ r.upto \in Times /\ r.since \in Times
  BY <1>1 DEF CallRecords
<1>3. /\ r.at \in {"setup", "ask"} => r.op = "bind"
      /\ r.at \in {"friends", "sent"} => r.op # "bind"
      /\ r.op = "bind" => r.to \in Owners
  BY DEF Well
<1>4. r \in RoomWell /\ r.op = "join" => r.to \in Codes
  BY DEF RoomWell
<1>5. QED
  BY <1>2, <1>3, <1>4

LEMMA GoesWell ==
    ASSUME NEW W \in {Well, RoomWell}, task \in [Tasks -> W],
           NEW t \in Tasks, NEW r \in W, Goes(t, r)
    PROVE  task' \in [Tasks -> W]
BY DEF Goes

LEMMA EndsWell ==
    ASSUME NEW W \in {Well, RoomWell}, task \in [Tasks -> W], NEW t \in Tasks, Ends(t)
    PROVE  task' \in [Tasks -> W]
BY GoesWell, IdleWell DEF Ends

LEMMA CallWell ==
    /\ \A c \in Calls : Call(c.op, c.to) \in Well
    /\ \A c \in Codes : Call("join", c) \in RoomWell
    /\ Call("chat", None) \in RoomWell
<1>1. Idle \in CallRecords /\ Idle.at = "idle"
  BY IdleWell DEF Well, Idle
<1>2. ASSUME NEW c \in Calls PROVE Call(c.op, c.to) \in Well
  <2>1. /\ c.op \in {"init", "status", "bind", "unbind", "speak", "listen", "file"}
        /\ c.to \in Convs \union {None}
        /\ c.op = "bind" => c.to \in Owners
    BY DEF Calls, Convs
  <2>2. QED
    BY <1>1, <2>1 DEF Call, CallRecords, Well
<1>3. ASSUME NEW c \in Codes PROVE Call("join", c) \in RoomWell
  BY <1>1 DEF Call, CallRecords, Well, RoomWell, Convs
<1>4. Call("chat", None) \in RoomWell
  BY <1>1 DEF Call, CallRecords, Well, RoomWell
<1>5. QED
  BY <1>2, <1>3, <1>4

\* A call that moves on, and one that a new chat client leaves behind.
LEMMA MovedWell ==
    ASSUME NEW W \in {Well, RoomWell}, NEW r \in W,
           NEW p \in {"register", "login", "unbind", "upload"}
    PROVE  [r EXCEPT !.at = p] \in W
<1>1. r \in Well
  BY IdleWell
<1>2. /\ [r EXCEPT !.at = p] \in Well
      /\ [r EXCEPT !.at = p].op = r.op /\ [r EXCEPT !.at = p].to = r.to
  BY <1>1 DEF Well, CallRecords
<1>3. CASE W = Well
  BY <1>2, <1>3
<1>4. CASE W = RoomWell
  BY <1>2, <1>4 DEF RoomWell
<1>5. QED
  BY <1>3, <1>4

LEMMA DroppedWell == ASSUME Types PROVE Dropped \in [Tasks -> Well]
<1> SUFFICES ASSUME NEW t \in Tasks
             PROVE  (IF task[t].at \in {"friends", "sent", "served"}
                       THEN [task[t] EXCEPT !.live = FALSE,
                               !.since = IF task[t].at = "friends" THEN latest ELSE @]
                       ELSE task[t]) \in Well
  BY DEF Dropped
<1> DEFINE r == task[t]
           s == [r EXCEPT !.live = FALSE, !.since = IF r.at = "friends" THEN latest ELSE @]
<1>1. r \in Well /\ r \in CallRecords /\ latest \in Times
  BY DEF Types, HttpTypes, Well
<1>2. s \in CallRecords /\ s.at = r.at /\ s.op = r.op /\ s.to = r.to
  BY <1>1 DEF CallRecords
<1>3. s \in Well
  BY <1>1, <1>2, WellFacts DEF Well
<1>4. QED
  BY <1>1, <1>3

LEMMA SignsInWell ==
    ASSUME Types, NEW W \in {Well, RoomWell}, task \in [Tasks -> W],
           NEW t \in Tasks, NEW r \in W, SignsIn(t, r)
    PROVE  task' \in [Tasks -> W] /\ agent' \in {"none", "key", "account"}
<1>1. agent' \in {"none", "key", "account"}
  BY DEF SignsIn, Types, HttpTypes
<1>2. PICK p \in {"register", "login"} : Goes(t, [r EXCEPT !.at = p])
  BY DEF SignsIn
<1>3. [r EXCEPT !.at = p] \in W
  BY MovedWell
<1>4. QED
  BY <1>1, <1>2, <1>3, GoesWell

LEMMA RequestWell ==
    ASSUME Types, NEW r \in RoomWell
    PROVE  Request(r) \in RoomWell
<1>1. CASE r.op = "join"
  <2>1. r.to \in Codes
    BY <1>1, IdleWell, WellFacts
  <2>2. mem.key \in Keys \union {NoKey} /\ keyfile[r.to] \in Keys \union {NoKey}
    BY <2>1 DEF Types, RoomTypes
  <2>3. Resolved(r.to) \in Keys \union {NoKey}
    BY <2>2 DEF Resolved
  <2>4. [r EXCEPT !.at = "sent", !.key = Resolved(r.to)] \in RoomWell
    BY <1>1, <2>3 DEF RoomWell, Well, CallRecords
  <2>5. QED
    BY <1>1, <2>4 DEF Request
<1>2. CASE r.op # "join"
  <2>1. mem.code \in Convs \union {None} /\ mem.key \in Keys \union {NoKey} /\ latest \in Times
    BY DEF Types, HttpTypes, RoomTypes, Convs
  <2>2. [r EXCEPT !.at = "sent", !.to = mem.code, !.key = mem.key, !.since = latest] \in RoomWell
    BY <1>2, <2>1 DEF RoomWell, Well, CallRecords
  <2>3. QED
    BY <1>2, <2>2 DEF Request
<1>3. QED
  BY <1>1, <1>2

LEMMA SentWell ==
    ASSUME Types, NEW r \in Well, r.op # "bind", NEW n \in Times
    PROVE  Sent(r, n) \in Well
<1>1. binding.ts \in Times
  BY DEF Types, HttpTypes, RoomTypes, ChatTypes, Bindings
<1>2. r \in CallRecords
  BY DEF Well
<1>3. /\ Sent(r, n) \in CallRecords /\ Sent(r, n).op = r.op /\ Sent(r, n).at = "sent"
      /\ Sent(r, n).to = r.to
  BY <1>1, <1>2 DEF Sent, CallRecords
<1>4. QED
  BY <1>3, WellFacts DEF Well

LEMMA StationWell ==
    ASSUME Types, NEW r \in Well, NEW c, NEW n \in Times
    PROVE  Station(r, c, n) \in Well
<1>1. ASSUME r.op # "bind" PROVE Asks(r, n) \in Well
  <2>1. CASE r.op = "speak" /\ binding.owner # None
    <3>1. binding.owner \in Convs
      BY <2>1 DEF Types, HttpTypes, RoomTypes, ChatTypes, Bindings, Convs
    <3>2. [r EXCEPT !.at = "friends", !.to = binding.owner, !.since = n] \in Well
      BY <2>1, <3>1 DEF Well, CallRecords
    <3>3. QED
      BY <2>1, <3>2 DEF Asks
  <2>2. CASE ~(r.op = "speak" /\ binding.owner # None)
    BY <1>1, <2>2, SentWell DEF Asks
  <2>3. QED
    BY <2>1, <2>2
<1>2. r.op = "bind" => [r EXCEPT !.at = "setup"] \in Well
  BY DEF Well, CallRecords
<1>3. QED
  BY <1>1, <1>2, IdleWell, MovedWell DEF Station

LEMMA ProceedsWell ==
    ASSUME Types, NEW t \in Tasks, NEW r \in Well, NEW c \in {"none", "anon", "token", "late"},
           NEW fresh \in BOOLEAN, Proceeds(t, r, c, fresh)
    PROVE  /\ task' \in [Tasks -> Well] /\ core' \in {"none", "anon", "token", "late"}
           /\ latest' \in Times /\ agent' = agent
<1>1. latest \in Times /\ 0 \in Times
  BY HttpAssumption DEF Types, HttpTypes, RoomTypes, ChatTypes, Times
<1>2. latest' \in Times /\ core' = c /\ agent' = agent
  BY <1>1 DEF Proceeds
<1>3. (IF fresh THEN Dropped ELSE task) \in [Tasks -> Well]
  BY DroppedWell DEF Types
<1>4. Station(r, c, IF fresh THEN 0 ELSE latest) \in Well
  BY <1>1, StationWell
<1>5. QED
  BY <1>2, <1>3, <1>4 DEF Proceeds

LEMMA StartsWell ==
    ASSUME Types, NEW t \in Tasks, NEW r \in Well, Starts(t, r)
    PROVE  /\ task' \in [Tasks -> Well] /\ core' \in {"none", "anon", "token", "late"}
           /\ latest' \in Times /\ agent' \in {"none", "key", "account"}
<1>1. CASE core = "none" \/ r.op = "init"
  BY <1>1, SignsInWell DEF Starts, Types, HttpTypes
<1>2. CASE ~(core = "none" \/ r.op = "init")
  <2> DEFINE chats == r.op \in {"speak", "listen"}
             c == IF chats /\ core = "late" THEN "token" ELSE core
  <2>1. c \in {"none", "anon", "token", "late"}
    BY DEF Types, HttpTypes, RoomTypes, ChatTypes
  <2>2. Proceeds(t, r, c, chats /\ core # "token")
    BY <1>2 DEF Starts
  <2>3. (chats /\ core # "token") \in BOOLEAN /\ agent \in {"none", "key", "account"}
    BY DEF Types, HttpTypes
  <2> HIDE DEF c
  <2>4. QED
    BY <2>1, <2>2, <2>3, ProceedsWell
<1>3. QED
  BY <1>1, <1>2

-----------------------------------------------------------------------------
LEMMA TypesSuffice == Types => TypeOK
<1>1. Well \subseteq CallRecords
  BY DEF Well
<1>2. QED
  BY <1>1 DEF TypeOK, Types, HttpTypes, RoomTypes, ChatTypes

LEMMA BindingTypes ==
    /\ Unbound \in Bindings
    /\ \A o \in Owners : Bound(o) \in Bindings /\ [Bound(o) EXCEPT !.key = TRUE] \in Bindings
<1>1. 0 \in Times
  BY HttpAssumption DEF Times
<1>2. Unbound \in Bindings
  BY <1>1 DEF Unbound, Bindings
<1>3. ASSUME NEW o \in Owners PROVE Bound(o) \in Bindings
  BY <1>2 DEF Bound, Bindings
<1>4. ASSUME NEW o \in Owners PROVE [Bound(o) EXCEPT !.key = TRUE] \in Bindings
  BY <1>3 DEF Bindings
<1>5. QED
  BY <1>2, <1>3, <1>4

LEMMA TypesInit == Init => Types
<1> SUFFICES ASSUME Init PROVE Types
  OBVIOUS
<1>1. /\ Unbound \in Bindings
      /\ \A o \in Owners : Bound(o) \in Bindings /\ [Bound(o) EXCEPT !.key = TRUE] \in Bindings
  BY BindingTypes
<1>2. HttpTypes
  BY HttpAssumption, ModesAssumption DEF Init, HttpInit, HttpTypes, Times
<1>3. RoomTypes
  BY DEF Init, RoomInit, RoomTypes, Outside
<1>4. ChatTypes
  BY <1>1 DEF Init, ChatInit, ChatTypes
<1>5. task \in [Tasks -> Well] /\ task \in [Tasks -> RoomWell]
  BY IdleWell DEF Init, HttpInit
<1>6. QED
  BY <1>2, <1>3, <1>4, <1>5 DEF Types

\* Times only grow to their bound, and what is handed out was said.
LEMMA HandsTypes ==
    ASSUME Types, NEW c, NEW n, NEW m, Hands(c, n, m)
    PROVE  got' \in [Convs -> SUBSET (1..MaxTime)]
<1>1. CASE c \in Convs
  <2>1. Between(c, n, m) \subseteq 1..MaxTime /\ got[c] \subseteq 1..MaxTime
    BY <1>1 DEF Between, Types, HttpTypes
  <2>2. QED
    BY <2>1 DEF Hands, Types, HttpTypes
<1>2. CASE c \notin Convs
  BY <1>2 DEF Hands, Types, HttpTypes
<1>3. QED
  BY <1>1, <1>2

LEMMA NewestTypes ==
    ASSUME Types, NEW c \in Convs, NEW n \in Newest(c)
    PROVE  n \in Times
BY HttpAssumption DEF Types, HttpTypes, Newest, Times

LEMMA SayTypes ==
    ASSUME Types, NEW c \in Convs, Say(c)
    PROVE  HttpTypes' /\ task' = task
<1>1. now + 1 \in 1..MaxTime
  BY HttpAssumption DEF Say, Types, HttpTypes, Times
<1>2. QED
  BY <1>1 DEF Say, Types, HttpTypes, Times, fixed

\* A step of the room client.
LEMMA ServedWell ==
    ASSUME NEW r \in RoomWell, NEW n \in Times
    PROVE  [r EXCEPT !.at = "served", !.upto = n] \in RoomWell
BY DEF RoomWell, Well, CallRecords

LEMMA BeginsTypes ==
    ASSUME Types, NEW t \in Tasks, NEW r \in RoomWell, Begins(t, r), UNCHANGED chatVars
    PROVE  Types'
<1>1. task \in [Tasks -> RoomWell]
  BY DEF Begins, Types
<1>2. task' \in [Tasks -> RoomWell] /\ agent' \in {"none", "key", "account"}
  <2>1. CASE core = "token"
    BY <1>1, <2>1, RequestWell, GoesWell DEF Begins, Types, HttpTypes
  <2>2. CASE core # "token"
    BY <1>1, <2>2, SignsInWell DEF Begins
  <2>3. QED
    BY <2>1, <2>2
<1>3. task' \in [Tasks -> Well]
  BY <1>2, IdleWell
<1>4. QED
  BY <1>2, <1>3 DEF Begins, Types, HttpTypes, RoomTypes, ChatTypes, fixed, clock, roomVars, chatVars

LEMMA RoomStepTypes ==
    ASSUME Types, RoomNext, UNCHANGED chatVars
    PROVE  Types'
<1> USE DEF fixed, clock, roomVars, chatVars
<1>1. ASSUME NEW t \in Tasks, NEW c \in Codes, Join(t, c) \/ JoinSync(t, c) PROVE Types'
  BY <1>1, CallWell, BeginsTypes DEF Join, JoinSync
<1>2. ASSUME NEW t \in Tasks, Chat(t) \/ ChatSync(t) PROVE Types'
  BY <1>2, CallWell, BeginsTypes DEF Chat, ChatSync
<1>3. ASSUME NEW t \in Tasks, TokenReady(t) PROVE Types'
  <2>1. task \in [Tasks -> RoomWell] /\ kind' = "room"
    BY <1>3 DEF TokenReady, Types
  <2>2. task' \in [Tasks -> RoomWell]
    BY <1>3, <2>1, RequestWell, GoesWell DEF TokenReady
  <2>3. QED
    BY <1>3, <2>1, <2>2, IdleWell DEF TokenReady, Types, HttpTypes, RoomTypes, ChatTypes
<1>4. ASSUME NEW t \in Tasks, Refused(t) PROVE Types'
  <2>1. task' \in [Tasks -> Well] /\ task' \in [Tasks -> RoomWell]
    BY <1>4, EndsWell DEF Refused, Types
  <2>2. QED
    BY <1>4, <2>1 DEF Refused, Types, HttpTypes, RoomTypes, ChatTypes
<1>5. ASSUME NEW t \in Tasks, JoinServed(t) PROVE Types'
  <2> DEFINE c == task[t].to
             k == IF task[t].key[1] = c THEN task[t].key ELSE <<c, issued[c] + 1>>
  <2>1. task[t] \in RoomWell /\ c \in Codes /\ now \in Times
    BY <1>5, IdleWell, WellFacts DEF JoinServed, Types, HttpTypes
  <2>2. issued' \in [Codes -> 0..2] /\ k \in Keys \union {NoKey}
    <3>1. CASE task[t].key[1] = c
      BY <1>5, <2>1, <3>1 DEF JoinServed, Types, RoomTypes, RoomWell, Well, CallRecords
    <3>2. CASE task[t].key[1] # c
      <4>1. issued[c] \in 0..1 /\ issued' = [issued EXCEPT ![c] = issued[c] + 1]
        BY <1>5, <2>1, <3>2 DEF JoinServed, Types, RoomTypes
      <4>2. QED
        BY <2>1, <3>2, <4>1 DEF Types, RoomTypes, Keys
    <3>3. QED
      BY <3>1, <3>2
  <2>3. [task[t] EXCEPT !.at = "served", !.upto = now, !.key = k] \in RoomWell
    <3> DEFINE s == [task[t] EXCEPT !.at = "served", !.upto = now, !.key = k]
    <3>1. task[t] \in CallRecords
      BY <2>1 DEF RoomWell, Well
    <3>2. s \in CallRecords /\ s.at = "served" /\ s.op = task[t].op /\ s.to = task[t].to
      BY <2>1, <2>2, <3>1 DEF CallRecords
    <3>3. s \in Well
      BY <2>1, <3>2, IdleWell, WellFacts DEF Well
    <3>4. QED
      BY <2>1, <3>2, <3>3 DEF RoomWell
  <2>4. task' \in [Tasks -> Well] /\ task' \in [Tasks -> RoomWell]
    BY <1>5, <2>3, GoesWell, IdleWell DEF JoinServed, Types
  <2>5. QED
    BY <1>5, <2>2, <2>4 DEF JoinServed, Types, HttpTypes, RoomTypes, ChatTypes
<1>6. ASSUME NEW t \in Tasks, JoinReceived(t) PROVE Types'
  <2> DEFINE r == task[t]
  <2>1. r \in RoomWell /\ r.to \in Codes /\ r.key \in Keys \union {NoKey}
    BY <1>6, IdleWell, WellFacts DEF JoinReceived, Types
  <2>2. got' \in [Convs -> SUBSET (1..MaxTime)]
    BY <1>6, HandsTypes DEF JoinReceived
  <2>3. latest' \in Times
    <3>1. r.to \in Convs
      BY <2>1 DEF Convs
    <3>2. Between(r.to, 0, r.upto) \subseteq Times /\ latest \in Times
      BY <3>1, HttpAssumption DEF Between, Types, HttpTypes, Times
    <3>3. QED
      BY <1>6, <3>2 DEF JoinReceived
  <2>4. keyfile' \in [Codes -> Keys \union {NoKey}]
    BY <1>6, <2>1 DEF JoinReceived, SaveKey, Types, RoomTypes
  <2>5. mem' \in [code : Codes \union {None}, key : Keys \union {NoKey}]
    BY <1>6, <2>1 DEF JoinReceived
  <2>6. task' \in [Tasks -> Well] /\ task' \in [Tasks -> RoomWell]
    BY <1>6, EndsWell DEF JoinReceived, Types
  <2>7. QED
    BY <1>6, <2>2, <2>3, <2>4, <2>5, <2>6 DEF JoinReceived, Types, HttpTypes, RoomTypes, ChatTypes
<1>7. ASSUME NEW t \in Tasks, ChatServed(t) PROVE Types'
  <2>1. now' \in Times
    <3>1. now' = now \/ (now < MaxTime /\ now' = now + 1)
      BY <1>7 DEF ChatServed
    <3>2. QED
      BY <3>1, HttpAssumption DEF Types, HttpTypes, Times
  <2>2. PICK n \in Times : Goes(t, [task[t] EXCEPT !.at = "served", !.upto = n])
    <3>1. CASE \E n \in Newest(task[t].to) :
                  Goes(t, [task[t] EXCEPT !.at = "served", !.upto = n])
      BY <1>7, <3>1, NewestTypes DEF ChatServed, Convs
    <3>2. CASE now' = now + 1 /\ Goes(t, [task[t] EXCEPT !.at = "served", !.upto = now + 1])
      BY <2>1, <3>2
    <3>3. QED
      BY <1>7, <3>1, <3>2 DEF ChatServed
  <2>3. task' \in [Tasks -> Well] /\ task' \in [Tasks -> RoomWell]
    BY <1>7, <2>2, ServedWell, GoesWell, IdleWell DEF ChatServed, Types
  <2>4. QED
    BY <1>7, <2>1, <2>3 DEF ChatServed, Types, HttpTypes, RoomTypes, ChatTypes
<1>8. ASSUME NEW t \in Tasks, ChatReceived(t) PROVE Types'
  <2>1. task[t].upto \in Times
    BY DEF Types, Well, CallRecords
  <2>2. got' \in [Convs -> SUBSET (1..MaxTime)]
    BY <1>8, HandsTypes DEF ChatReceived
  <2>3. task' \in [Tasks -> Well] /\ task' \in [Tasks -> RoomWell]
    BY <1>8, EndsWell DEF ChatReceived, Types
  <2>4. QED
    BY <1>8, <2>1, <2>2, <2>3 DEF ChatReceived, Types, HttpTypes, RoomTypes, ChatTypes
<1>9. ASSUME NEW t \in Tasks, AnswerLost(t) PROVE Types'
  <2>1. task' \in [Tasks -> Well] /\ task' \in [Tasks -> RoomWell]
    BY <1>9, EndsWell DEF AnswerLost, Types
  <2>2. QED
    BY <1>9, <2>1 DEF AnswerLost, Types, HttpTypes, RoomTypes, ChatTypes
<1>10. CASE Restart
  <2>1. keyfile' \in [Codes -> Keys \union {NoKey}]
    BY <1>10 DEF Restart, SaveKey, Types, RoomTypes
  <2>2. 0 \in Times
    BY HttpAssumption DEF Times
  <2>3. task' \in [Tasks -> Well] /\ task' \in [Tasks -> RoomWell]
    BY <1>10, IdleWell DEF Restart
  <2>4. QED
    BY <1>10, <2>1, <2>2, <2>3 DEF Restart, Outside, Types, HttpTypes, RoomTypes, ChatTypes
<1>11. QED
  BY <1>1, <1>2, <1>3, <1>4, <1>5, <1>6, <1>7, <1>8, <1>9, <1>10 DEF RoomNext

\* A step of the owner's client or a command.
LEMMA LoosensRoom ==
    ASSUME kind # "room", UNCHANGED fixed, task' \in [Tasks -> Well]
    PROVE  /\ kind' = kind /\ serial' = serial /\ safe' = safe
           /\ kind' = "room" => task' \in [Tasks -> RoomWell]
BY DEF fixed

LEMMA ChatStepTypes ==
    ASSUME Types, ChatNext, UNCHANGED roomVars, shell => kind = "cli"
    PROVE  Types' /\ (shell' => kind' = "cli")
<1> USE DEF fixed, clock, roomVars, chatVars, server, record, httpVars
<1>0. 0 \in Times /\ Unbound \in Bindings
  BY HttpAssumption, BindingTypes DEF Times
<1>1. ASSUME NEW t \in Tasks, NEW c \in Calls, Begin(t, c) PROVE Types' /\ (shell' => kind' = "cli")
  <2>1. Call(c.op, c.to) \in Well
    BY CallWell
  <2>2. /\ task' \in [Tasks -> Well] /\ core' \in {"none", "anon", "token", "late"}
        /\ latest' \in Times /\ agent' \in {"none", "key", "account"}
    BY <1>1, <2>1, StartsWell DEF Begin
  <2>3. kind # "room"
    BY <1>1 DEF Begin
  <2>4. QED
    BY <1>1, <2>2, <2>3, LoosensRoom DEF Begin, Types, HttpTypes, RoomTypes, ChatTypes
<1>2. ASSUME NEW t \in Tasks, NEW c \in Calls, Command(t, c) PROVE Types' /\ (shell' => kind' = "cli")
  <2>1. Call(c.op, c.to) \in Well
    BY CallWell
  <2>2. task' \in [Tasks -> Well] /\ agent' \in {"none", "key", "account"}
    BY <1>2, <2>1, SignsInWell DEF Command, Types
  <2>3. QED
    BY <1>2, <1>0, <2>2, LoosensRoom DEF Command, Types, HttpTypes, RoomTypes, ChatTypes
<1>3. ASSUME NEW t \in Tasks, SignedIn(t) PROVE Types' /\ (shell' => kind' = "cli")
  <2>1. PICK c \in {"token", "anon"} :
           Proceeds(t, task[t], c, task[t].op \in {"init", "speak", "listen"})
    BY <1>3 DEF SignedIn
  <2>2. /\ task' \in [Tasks -> Well] /\ core' \in {"none", "anon", "token", "late"}
        /\ latest' \in Times /\ agent' = agent
    <3>1. task[t] \in Well /\ (task[t].op \in {"init", "speak", "listen"}) \in BOOLEAN
      BY DEF Types
    <3>2. QED
      BY <2>1, <3>1, ProceedsWell
  <2>3. QED
    BY <1>3, <2>2, LoosensRoom DEF SignedIn, Types, HttpTypes, RoomTypes, ChatTypes
<1>4. ASSUME NEW t \in Tasks, Rejected(t) PROVE Types' /\ (shell' => kind' = "cli")
  <2>1. task' \in [Tasks -> Well]
    BY <1>4, EndsWell DEF Rejected, Types
  <2>2. QED
    BY <1>4, <2>1, LoosensRoom DEF Rejected, Types, HttpTypes, RoomTypes, ChatTypes
<1>5. ASSUME NEW t \in Tasks, SetupServed(t) PROVE Types' /\ (shell' => kind' = "cli")
  <2>1. task[t] \in Well /\ task[t].to \in Owners
    BY <1>5, WellFacts DEF SetupServed, Types
  <2>2. [task[t] EXCEPT !.at = "ask"] \in Well
    BY <1>5, <2>1, WellFacts DEF SetupServed, Well, CallRecords
  <2>3. task' \in [Tasks -> Well]
    BY <1>5, <2>2, GoesWell, EndsWell DEF SetupServed, Types
  <2>4. QED
    BY <1>5, <2>1, <2>3, LoosensRoom DEF SetupServed, Types, HttpTypes, RoomTypes, ChatTypes
<1>6. ASSUME NEW t \in Tasks, FriendAsked(t) PROVE Types' /\ (shell' => kind' = "cli")
  <2>1. task[t].to \in Owners /\ Bound(task[t].to) \in Bindings
    BY <1>6, WellFacts, BindingTypes DEF FriendAsked, Types
  <2>2. /\ task' \in [Tasks -> Well]
        /\ file' \in Bindings /\ binding' \in Bindings /\ latest' \in Times
    <3>1. CASE Saved(t)
      BY <1>0, <2>1, <3>1, DroppedWell, IdleWell DEF Saved
    <3>2. CASE Ends(t) /\ UNCHANGED <<file, binding, latest>>
      BY <3>2, EndsWell DEF Types, HttpTypes, ChatTypes
    <3>3. QED
      BY <1>6, <3>1, <3>2 DEF FriendAsked
  <2>3. asked \subseteq asked' /\ asked' \subseteq Owners
    BY <1>6, <2>1 DEF FriendAsked, Types, ChatTypes
  <2>4. QED
    BY <1>6, <2>2, <2>3, LoosensRoom DEF FriendAsked, Types, HttpTypes, RoomTypes, ChatTypes
<1>7. ASSUME NEW t \in Tasks, UnbindServed(t) PROVE Types' /\ (shell' => kind' = "cli")
  <2>1. /\ task' \in [Tasks -> Well]
        /\ file' \in Bindings /\ binding' \in Bindings /\ latest' \in Times
    <3>1. CASE /\ file' = Unbound \/ file' = file
               /\ binding' = Unbound /\ latest' = 0
               /\ task' = [Dropped EXCEPT ![t] = Idle]
      BY <1>0, <3>1, DroppedWell, IdleWell DEF Types, ChatTypes
    <3>2. CASE Ends(t) /\ UNCHANGED <<file, binding, latest>>
      BY <3>2, EndsWell DEF Types, HttpTypes, ChatTypes
    <3>3. QED
      BY <1>7, <3>1, <3>2 DEF UnbindServed
  <2>2. QED
    BY <1>7, <2>1, LoosensRoom DEF UnbindServed, Types, HttpTypes, RoomTypes, ChatTypes
<1>8. ASSUME NEW t \in Tasks, Uploaded(t) PROVE Types' /\ (shell' => kind' = "cli")
  <2>1. PICK op \in {"file", "speak"} : Starts(t, [task[t] EXCEPT !.op = op])
    BY <1>8 DEF Uploaded
  <2>2. task[t] \in Well /\ task[t].at = "upload"
    BY <1>8 DEF Uploaded, Types
  <2>3. [task[t] EXCEPT !.op = op] \in Well
    BY <2>2 DEF Well, CallRecords
  <2>4. /\ task' \in [Tasks -> Well] /\ core' \in {"none", "anon", "token", "late"}
        /\ latest' \in Times /\ agent' \in {"none", "key", "account"}
    BY <2>1, <2>3, StartsWell
  <2>5. QED
    BY <1>8, <2>4, LoosensRoom DEF Uploaded, Types, HttpTypes, RoomTypes, ChatTypes
<1>9. ASSUME NEW t \in Tasks, FriendsAnswered(t) PROVE Types' /\ (shell' => kind' = "cli")
  <2> DEFINE call == task[t]
             goes(list) == Goes(t, IF call.to \in list THEN Sent(call, latest) ELSE Idle)
  <2>1. call \in Well /\ latest \in Times /\ call.op # "bind"
    BY <1>9, WellFacts DEF FriendsAnswered, Types, HttpTypes
  <2>2. Sent(call, latest) \in Well
    BY <2>1, SentWell
  <2>3. ASSUME NEW list, goes(list) PROVE task' \in [Tasks -> Well]
    <3>1. (IF call.to \in list THEN Sent(call, latest) ELSE Idle) \in Well
      BY <2>2, IdleWell
    <3>2. QED
      BY <2>3, <3>1, GoesWell DEF Types
  <2>4. task' \in [Tasks -> Well]
    <3>1. goes(friend) \/ goes(rows) \/ goes({call.to})
      BY <1>9 DEF FriendsAnswered
    <3>2. QED
      BY <2>3, <3>1
  <2>5. core' \in {"none", "anon", "token", "late"} /\ rows' \subseteq friend
    BY <1>9 DEF FriendsAnswered, Types, HttpTypes, ChatTypes
  <2>6. QED
    BY <1>9, <2>4, <2>5, LoosensRoom DEF FriendsAnswered, Types, HttpTypes, RoomTypes, ChatTypes
<1>10. ASSUME NEW t \in Tasks, Answered(t) PROVE Types' /\ (shell' => kind' = "cli")
  <2>1. now' \in Times /\ spoke' \subseteq Owners /\ bound \in Owners
    <3>1. bound \in Owners /\ now \in Times /\ spoke \subseteq Owners
      BY <1>10 DEF Answered, Types, HttpTypes, ChatTypes
    <3>2. CASE task[t].op = "speak"
      BY <1>10, <3>1, <3>2, HttpAssumption DEF Answered, Times
    <3>3. CASE task[t].op # "speak"
      BY <1>10, <3>1, <3>3 DEF Answered
    <3>4. QED
      BY <3>1, <3>2, <3>3
  <2>2. PICK n \in Times : Goes(t, [task[t] EXCEPT !.at = "served", !.to = bound, !.upto = n])
    <3>1. bound \in Convs
      BY <2>1 DEF Convs
    <3>2. Newest(bound) \subseteq Times
      BY <3>1, NewestTypes
    <3>3. QED
      BY <1>10, <2>1, <3>2 DEF Answered
  <2>3. [task[t] EXCEPT !.at = "served", !.to = bound, !.upto = n] \in Well
    <3>1. task[t] \in Well /\ task[t].op # "bind"
      BY <1>10, WellFacts DEF Answered, Types
    <3>2. QED
      BY <2>1, <3>1 DEF Well, CallRecords, Convs
  <2>4. task' \in [Tasks -> Well]
    BY <2>2, <2>3, GoesWell DEF Types
  <2>5. QED
    BY <1>10, <2>1, <2>4, LoosensRoom DEF Answered, Types, HttpTypes, RoomTypes, ChatTypes
<1>11. ASSUME NEW t \in Tasks, Received(t) PROVE Types' /\ (shell' => kind' = "cli")
  <2>1. task[t].upto \in Times /\ task' \in [Tasks -> Well]
    BY <1>11, WellFacts, EndsWell DEF Received, Types
  <2>2. got' \in [Convs -> SUBSET (1..MaxTime)]
    BY <1>11, HandsTypes DEF Received, Types, HttpTypes
  <2>3. binding' \in Bindings
    BY <1>11, <2>1 DEF Received, Types, ChatTypes, Bindings
  <2>4. file' \in Bindings
    BY <1>11, <2>3 DEF Received, Types, ChatTypes
  <2>5. QED
    BY <1>11, <2>1, <2>2, <2>3, <2>4, LoosensRoom DEF Received, Types, HttpTypes, RoomTypes, ChatTypes
<1>12. ASSUME NEW t \in Tasks, Lost(t) PROVE Types' /\ (shell' => kind' = "cli")
  <2>1. task' \in [Tasks -> Well]
    BY <1>12, EndsWell DEF Lost, Types
  <2>2. QED
    BY <1>12, <2>1, LoosensRoom DEF Lost, Types, HttpTypes, RoomTypes, ChatTypes
<1>13. ASSUME OpenShell PROVE Types' /\ (shell' => kind' = "cli")
  BY <1>0, <1>13 DEF OpenShell, Types, HttpTypes, RoomTypes, ChatTypes
<1>14. ASSUME CloseShell PROVE Types' /\ (shell' => kind' = "cli")
  BY <1>14 DEF CloseShell, Types, HttpTypes, RoomTypes, ChatTypes
<1>15. ASSUME Close PROVE Types' /\ (shell' => kind' = "cli")
  <2>1. task' \in [Tasks -> Well]
    BY <1>15, DroppedWell DEF Close
  <2>2. QED
    BY <1>15, <1>0, <2>1, LoosensRoom DEF Close, Types, HttpTypes, RoomTypes, ChatTypes
<1>16. ASSUME Relaunch PROVE Types' /\ (shell' => kind' = "cli")
  <2>1. task' \in [Tasks -> Well]
    BY <1>16, IdleWell DEF Relaunch
  <2>2. QED
    BY <1>16, <1>0, <2>1, LoosensRoom DEF Relaunch, Types, HttpTypes, RoomTypes, ChatTypes
<1>17. ASSUME NEW o \in Owners, OwnerAccepts(o) PROVE Types' /\ (shell' => kind' = "cli")
  BY <1>17 DEF OwnerAccepts, Types, HttpTypes, RoomTypes, ChatTypes
<1>18. ASSUME NEW o \in Owners, OwnerSays(o) PROVE Types' /\ (shell' => kind' = "cli")
  <2>1. HttpTypes' /\ task' = task /\ kind' = kind
    BY <1>18, SayTypes DEF OwnerSays, Convs, Say
  <2>2. QED
    BY <1>18, <2>1 DEF OwnerSays, Types, HttpTypes, RoomTypes, ChatTypes
<1>19. QED
  BY <1>1, <1>2, <1>3, <1>4, <1>5, <1>6, <1>7, <1>8, <1>9, <1>10, <1>11, <1>12, <1>13, <1>14, <1>15, <1>16, <1>17, <1>18 DEF ChatNext

\* Registering and logging in, whoever does it.
LEMMA CommonTypes ==
    ASSUME Types, NEW t \in Tasks, Common(t)
    PROVE  Types' /\ kind' = kind /\ shell' = shell
<1> USE DEF fixed, clock, roomVars, chatVars
<1>1. ASSUME NEW W \in {Well, RoomWell}, task \in [Tasks -> W]
      PROVE  task' \in [Tasks -> W] /\ agent' \in {"none", "key", "account"}
  <2>1. agent' \in {"none", "key", "account"}
    BY DEF Common, Registered, LoginLost, Types, HttpTypes
  <2>2. CASE Goes(t, [task[t] EXCEPT !.at = "login"])
    BY <1>1, <2>1, <2>2, MovedWell, GoesWell
  <2>3. CASE Ends(t)
    BY <1>1, <2>1, <2>3, EndsWell
  <2>4. QED
    BY <2>2, <2>3 DEF Common, Registered, LoginLost
<1>2. task' \in [Tasks -> Well] /\ agent' \in {"none", "key", "account"}
  BY <1>1 DEF Types
<1>3. kind = "room" => task' \in [Tasks -> RoomWell]
  BY <1>1 DEF Types
<1>4. QED
  BY <1>2, <1>3 DEF Common, Registered, LoginLost, Types, HttpTypes, RoomTypes, ChatTypes

\* Only the commands open the interactive chat.
TInv == Types /\ (shell => kind = "cli")

LEMMA TypeStep == TInv /\ [Next]_vars => TInv'
<1> SUFFICES ASSUME TInv, [Next]_vars PROVE TInv'
  OBVIOUS
<1> USE DEF TInv
<1>1. ASSUME NEW t \in Tasks, Common(t) PROVE TInv'
  BY <1>1, CommonTypes
<1>2. ASSUME NEW c \in Codes, RoomSays(c) PROVE TInv'
  <2>1. HttpTypes' /\ task' = task /\ kind' = kind
    BY <1>2, SayTypes DEF RoomSays, Convs, Say, fixed
  <2>2. QED
    BY <1>2, <2>1 DEF RoomSays, Types, RoomTypes, ChatTypes, roomVars, chatVars
<1>3. CASE RoomNext /\ UNCHANGED chatVars
  <2>1. kind' = kind
    BY <1>3 DEF RoomNext, Join, JoinSync, Chat, ChatSync, Begins, TokenReady, Refused, JoinServed,
                JoinReceived, ChatServed, ChatReceived, AnswerLost, Restart, fixed
  <2>2. QED
    BY <1>3, <2>1, RoomStepTypes DEF chatVars
<1>4. CASE ChatNext /\ UNCHANGED roomVars
  BY <1>4, ChatStepTypes
<1>5. CASE UNCHANGED vars
  BY <1>5 DEF vars, httpVars, roomVars, chatVars, Types, HttpTypes, RoomTypes, ChatTypes
<1>6. QED
  BY <1>1, <1>2, <1>3, <1>4, <1>5 DEF Next

LEMMA TypeInit == Init => TInv
BY TypesInit DEF TInv, Init, ChatInit

\* Every variable keeps its type, for any number of rooms, owners and calls.
THEOREM TypesHold == Spec => []TypeOK
<1>1. TInv => TypeOK
  BY TypesSuffice DEF TInv
<1>2. QED
  BY <1>1, TypeInit, TypeStep, PTL DEF Spec

-----------------------------------------------------------------------------
\* One member of each room.  At most one call is under way; the key of a member
\* is in the file of the room or in the answer that is about to be received, and
\* a join is sent with the key of the file.
Careful == kind = "room" /\ serial /\ safe /\ ~share
Joining(r, p) == r.op = "join" /\ r.at = p
First(c) == <<c, 1>>
Coming(c) == \E t \in Tasks : Joining(task[t], "served") /\ task[t].to = c

IdInv ==
    Careful =>
        /\ \A t, u \in Tasks : t = u \/ task[t] = Idle \/ task[u] = Idle
        /\ \A c \in Codes :
            /\ issued[c] \in {0, 1}
            /\ issued[c] = 0 => keyfile[c] = NoKey
            /\ issued[c] = 1 => keyfile[c] = First(c) \/ Coming(c)
            /\ mem.code = c => mem.key = First(c) /\ keyfile[c] = First(c)
        /\ \A t \in Tasks :
            /\ Joining(task[t], "sent") => task[t].key = keyfile[task[t].to]
            /\ Joining(task[t], "served") => task[t].key = First(task[t].to)
            /\ Joining(task[t], "served") => issued[task[t].to] = 1

\* The steps of the one call other than the answer to a join.
LEMMA OtherStep ==
    ASSUME Types, IdInv, Careful, UNCHANGED <<fixed, roomVars>>,
           NEW t \in Tasks, NEW r, Goes(t, r),
           AllIdle \/ task[t] # Idle, ~Joining(task[t], "served"), ~Joining(r, "served"),
           Joining(r, "sent") => r.key = keyfile[r.to]
    PROVE  IdInv'
<1>1. /\ task'[t] = r
      /\ \A u \in Tasks : u # t => task'[u] = task[u]
  BY DEF Goes, Types
<1>2. Idle.op = "none"
  BY DEF Idle
<1>3. \A u \in Tasks : u # t => task[u] = Idle
  BY DEF IdInv, AllIdle
<1>4. \A u, v \in Tasks : u = v \/ task'[u] = Idle \/ task'[v] = Idle
  BY <1>1, <1>3
<1>5. ASSUME NEW u \in Tasks, Joining(task'[u], "sent") \/ Joining(task'[u], "served")
      PROVE  u = t
  BY <1>1, <1>2, <1>3, <1>5 DEF Joining
<1>6. \A c \in Codes : issued[c] = 1 => keyfile[c] = First(c)
  BY <1>2, <1>3 DEF IdInv, Coming, Joining
<1>7. issued' = issued /\ keyfile' = keyfile /\ mem' = mem
  BY DEF roomVars
<1>8. \A c \in Codes :
          /\ issued[c] \in {0, 1} /\ (issued[c] = 0 => keyfile[c] = NoKey)
          /\ mem.code = c => mem.key = First(c) /\ keyfile[c] = First(c)
  BY DEF IdInv
<1>9. QED
  BY <1>1, <1>4, <1>5, <1>6, <1>7, <1>8 DEF IdInv, First, Joining

\* A join is sent with the key of the file, wherever it was found.
LEMMA RequestKey ==
    ASSUME Types, IdInv, Careful, NEW r \in RoomWell
    PROVE  /\ ~Joining(Request(r), "served")
           /\ Joining(Request(r), "sent") => Request(r).key = keyfile[Request(r).to]
<1>1. r \in CallRecords
  BY DEF RoomWell, Well
<1>2. CASE r.op = "join"
  <2>1. r.to \in Codes
    BY <1>2, IdleWell, WellFacts
  <2>2. Resolved(r.to) = keyfile[r.to]
    BY <2>1 DEF Resolved, IdInv
  <2>3. Request(r) = [r EXCEPT !.at = "sent", !.key = Resolved(r.to)]
    BY <1>2 DEF Request
  <2>4. Request(r).at = "sent" /\ Request(r).key = Resolved(r.to) /\ Request(r).to = r.to
    BY <1>1, <2>3 DEF CallRecords
  <2>5. QED
    BY <2>2, <2>4 DEF Joining
<1>3. CASE r.op # "join"
  <2>1. Request(r) = [r EXCEPT !.at = "sent", !.to = mem.code, !.key = mem.key, !.since = latest]
    BY <1>3 DEF Request
  <2>2. Request(r).op = r.op
    BY <1>1, <2>1 DEF CallRecords
  <2>3. QED
    BY <1>3, <2>2 DEF Joining
<1>4. QED
  BY <1>2, <1>3

LEMMA BeginsOne ==
    ASSUME Types, IdInv, Careful, NEW t \in Tasks, NEW r \in RoomWell, Begins(t, r)
    PROVE  IdInv'
<1>1. AllIdle /\ UNCHANGED <<fixed, roomVars>>
  BY DEF Begins, MayBegin, Careful
<1>2. ~Joining(task[t], "served")
  BY <1>1 DEF AllIdle, Idle, Joining
<1>3. CASE core = "token"
  BY <1>1, <1>2, <1>3, RequestKey, OtherStep DEF Begins
<1>4. CASE core # "token"
  <2>1. PICK p \in {"register", "login"} : Goes(t, [r EXCEPT !.at = p])
    BY <1>4 DEF Begins, SignsIn
  <2>2. [r EXCEPT !.at = p].at = p
    BY DEF RoomWell, Well, CallRecords
  <2>3. ~Joining([r EXCEPT !.at = p], "served") /\ ~Joining([r EXCEPT !.at = p], "sent")
    BY <2>2 DEF Joining
  <2>4. QED
    BY <1>1, <1>2, <2>1, <2>3, OtherStep
<1>5. QED
  BY <1>3, <1>4

\* The call that takes a step is the only one.
LEMMA Alone ==
    ASSUME IdInv, Careful, NEW t \in Tasks, task[t].at # "idle"
    PROVE  task[t] # Idle /\ \A u \in Tasks : u # t => task[u] = Idle
<1>1. task[t] # Idle
  BY DEF Idle
<1>2. QED
  BY <1>1 DEF IdInv

LEMMA IdleJoinsNothing == \A p \in {"sent", "served"} : ~Joining(Idle, p)
BY DEF Joining, Idle

LEMMA JoinServedOne ==
    ASSUME Types, IdInv, Careful, NEW t \in Tasks, JoinServed(t)
    PROVE  IdInv'
<1> DEFINE c == task[t].to
           k == task[t].key
<1>1. /\ Joining(task[t], "sent") /\ c \in Codes /\ k = keyfile[c]
      /\ task[t] # Idle /\ \A u \in Tasks : u # t => task[u] = Idle
  <2>1. Joining(task[t], "sent") /\ kind = "room"
    BY DEF JoinServed, Joining
  <2>2. task[t] \in RoomWell
    BY <2>1 DEF Types
  <2>3. c \in Codes /\ k = keyfile[c]
    BY <2>1, <2>2, IdleWell, WellFacts DEF IdInv, Joining
  <2>4. QED
    BY <2>1, <2>3, Alone DEF Joining
<1>2. \A d \in Codes : issued[d] = 1 => keyfile[d] = First(d)
  BY <1>1, IdleJoinsNothing DEF IdInv, Coming, Joining
<1>3. \A d \in Codes : /\ issued[d] \in {0, 1} /\ (issued[d] = 0 => keyfile[d] = NoKey)
                       /\ mem.code = d => mem.key = First(d) /\ keyfile[d] = First(d)
  BY DEF IdInv
<1>4. k[1] = c <=> issued[c] = 1
  <2>1. First(c)[1] = c /\ NoKey[1] = None /\ None # c
    BY <1>1, HttpAssumption DEF First, NoKey
  <2>2. QED
    BY <1>1, <1>2, <1>3, <2>1
<1> DEFINE r == [task[t] EXCEPT !.at = "served", !.upto = now,
                                !.key = IF k[1] = c THEN k ELSE <<c, issued[c] + 1>>]
<1>5. /\ task'[t] = r
      /\ \A u \in Tasks : u # t => task'[u] = Idle
      /\ issued' = IF k[1] = c THEN issued ELSE [issued EXCEPT ![c] = issued[c] + 1]
      /\ keyfile' = keyfile /\ mem' = mem
  <2>1. Goes(t, r)
    BY DEF JoinServed
  <2>2. QED
    BY <1>1, <2>1 DEF JoinServed, Goes, Types
<1>6. /\ r.at = "served" /\ r.op = "join" /\ r.to = c
      /\ r.key = First(c)
  <2>1. task[t] \in CallRecords
    BY DEF Types, Well
  <2>2. /\ r.at = "served" /\ r.op = task[t].op /\ r.to = c
        /\ r.key = IF k[1] = c THEN k ELSE <<c, issued[c] + 1>>
    BY <2>1 DEF CallRecords
  <2>3. CASE k[1] = c
    BY <1>1, <1>2, <1>4, <2>2, <2>3 DEF Joining
  <2>4. CASE k[1] # c
    <3>1. issued[c] = 0
      BY <1>1, <1>3, <1>4, <2>4
    <3>2. QED
      BY <1>1, <2>2, <2>4, <3>1 DEF Joining, First
  <2>5. QED
    BY <2>3, <2>4
<1>7. issued'[c] = 1 /\ \A d \in Codes : d # c => issued'[d] = issued[d]
  BY <1>1, <1>3, <1>4, <1>5 DEF Types, RoomTypes
<1>8. \A u, v \in Tasks : u = v \/ task'[u] = Idle \/ task'[v] = Idle
  BY <1>5
<1>9. \A d \in Codes :
          /\ issued'[d] \in {0, 1}
          /\ issued'[d] = 0 => keyfile'[d] = NoKey
          /\ issued'[d] = 1 => keyfile'[d] = First(d) \/ Coming(d)'
          /\ mem'.code = d => mem'.key = First(d) /\ keyfile'[d] = First(d)
  <2>1. ASSUME NEW d \in Codes, d # c
        PROVE  /\ issued'[d] \in {0, 1}
               /\ issued'[d] = 0 => keyfile'[d] = NoKey
               /\ issued'[d] = 1 => keyfile'[d] = First(d)
    BY <1>2, <1>3, <1>5, <1>7, <2>1
  <2>2. \A d \in Codes : mem'.code = d => mem'.key = First(d) /\ keyfile'[d] = First(d)
    BY <1>3, <1>5
  <2> TAKE d \in Codes
  <2>3. CASE d = c
    <3>1. Coming(d)'
      BY <1>5, <1>6, <2>3 DEF Coming, Joining
    <3>2. issued'[d] = 1
      BY <1>7, <2>3
    <3>3. QED
      BY <2>2, <3>1, <3>2
  <2>4. CASE d # c
    BY <2>1, <2>2, <2>4
  <2>5. QED
    BY <2>3, <2>4
<1>10. \A u \in Tasks :
          /\ Joining(task'[u], "sent") => task'[u].key = keyfile'[task'[u].to]
          /\ Joining(task'[u], "served") => task'[u].key = First(task'[u].to)
          /\ Joining(task'[u], "served") => issued'[task'[u].to] = 1
  <2> TAKE u \in Tasks
  <2>1. CASE u = t
    BY <1>5, <1>6, <1>7, <2>1 DEF Joining
  <2>2. CASE u # t
    <3>1. ~Joining(task'[u], "sent") /\ ~Joining(task'[u], "served")
      BY <1>5, <2>2, IdleJoinsNothing
    <3>2. QED
      BY <3>1
  <2>3. QED
    BY <2>1, <2>2
<1>11. QED
  BY <1>8, <1>9, <1>10 DEF IdInv, Joining, First

LEMMA JoinReceivedOne ==
    ASSUME Types, IdInv, Careful, NEW t \in Tasks, JoinReceived(t)
    PROVE  IdInv'
<1> DEFINE c == task[t].to
<1>1. /\ Joining(task[t], "served") /\ c \in Codes
      /\ task[t].key = First(c) /\ issued[c] = 1
      /\ \A u \in Tasks : u # t => task[u] = Idle
  <2>1. Joining(task[t], "served") /\ kind = "room"
    BY DEF JoinReceived, Joining
  <2>2. task[t] \in RoomWell
    BY <2>1 DEF Types
  <2>3. c \in Codes /\ task[t].key = First(c) /\ issued[c] = 1
    BY <2>1, <2>2, IdleWell, WellFacts DEF IdInv, Joining
  <2>4. QED
    BY <2>1, <2>3, Alone DEF Joining
<1>2. \A u \in Tasks : task'[u] = Idle
  <2>1. Goes(t, Idle)
    BY DEF JoinReceived, Ends
  <2>2. QED
    BY <1>1, <2>1 DEF Goes, Types
<1>3. issued' = issued /\ mem' = [code |-> c, key |-> First(c)]
  BY <1>1 DEF JoinReceived
<1>4. keyfile'[c] = First(c) /\ \A d \in Codes : d # c => keyfile'[d] = keyfile[d]
  BY <1>1 DEF JoinReceived, SaveKey, SameFile, Careful
<1>5. \A d \in Codes : d # c /\ issued[d] = 1 => keyfile[d] = First(d)
  BY <1>1, IdleJoinsNothing DEF IdInv, Coming, Joining
<1>6. \A d \in Codes :
          /\ issued'[d] \in {0, 1}
          /\ issued'[d] = 0 => keyfile'[d] = NoKey
          /\ issued'[d] = 1 => keyfile'[d] = First(d)
          /\ mem'.code = d => mem'.key = First(d) /\ keyfile'[d] = First(d)
  BY <1>1, <1>3, <1>4, <1>5 DEF IdInv
<1>7. QED
  BY <1>2, <1>6, IdleJoinsNothing DEF IdInv, Joining, First

LEMMA RestartOne ==
    ASSUME Types, IdInv, Careful, Restart
    PROVE  IdInv'
<1>1. AllIdle /\ mem' = Outside /\ issued' = issued /\ \A t \in Tasks : task'[t] = Idle
  BY DEF Restart, Careful
<1>2. keyfile' = keyfile
  BY <1>1 DEF Restart, AllIdle, Idle
<1>3. \A c \in Codes : mem'.code # c
  BY <1>1, HttpAssumption DEF Outside
<1>4. \A c \in Codes :
          /\ issued[c] \in {0, 1} /\ (issued[c] = 0 => keyfile[c] = NoKey)
          /\ issued[c] = 1 => keyfile[c] = First(c)
  BY <1>1, IdleJoinsNothing DEF IdInv, Coming, AllIdle
<1>5. QED
  BY <1>1, <1>2, <1>3, <1>4, IdleJoinsNothing DEF IdInv, First, Joining

LEMMA RoomStepOne ==
    ASSUME Types, IdInv, Careful, RoomNext
    PROVE  IdInv'
<1>1. ASSUME NEW t \in Tasks, NEW c \in Codes, Join(t, c) \/ JoinSync(t, c) PROVE IdInv'
  BY <1>1, CallWell, BeginsOne DEF Join, JoinSync
<1>2. ASSUME NEW t \in Tasks, Chat(t) \/ ChatSync(t) PROVE IdInv'
  BY <1>2, CallWell, BeginsOne DEF Chat, ChatSync
<1>3. ASSUME NEW t \in Tasks, TokenReady(t) PROVE IdInv'
  <2>1. task[t] \in RoomWell /\ task[t].at = "login" /\ Goes(t, Request(task[t]))
    BY <1>3 DEF TokenReady, Types
  <2>2. task[t] # Idle /\ ~Joining(task[t], "served")
    BY <2>1 DEF Idle, Joining
  <2>3. QED
    BY <1>3, <2>1, <2>2, RequestKey, OtherStep DEF TokenReady
<1>4. ASSUME NEW t \in Tasks, Refused(t) PROVE IdInv'
  <2>1. task[t].at \in {"login", "sent"} /\ Goes(t, Idle)
    BY <1>4 DEF Refused, LoginRefused, Ends
  <2>2. task[t] # Idle /\ ~Joining(task[t], "served")
    BY <2>1 DEF Idle, Joining
  <2>3. QED
    BY <1>4, <2>1, <2>2, IdleJoinsNothing, OtherStep DEF Refused
<1>5. ASSUME NEW t \in Tasks, JoinServed(t) PROVE IdInv'
  BY <1>5, JoinServedOne
<1>6. ASSUME NEW t \in Tasks, JoinReceived(t) PROVE IdInv'
  BY <1>6, JoinReceivedOne
<1>7. ASSUME NEW t \in Tasks, ChatServed(t) PROVE IdInv'
  <2>1. PICK n : Goes(t, [task[t] EXCEPT !.at = "served", !.upto = n])
    BY <1>7 DEF ChatServed
  <2>2. task[t].op = "chat" /\ task[t].at = "sent" /\ task[t] \in CallRecords
    BY <1>7 DEF ChatServed, Types, Well
  <2>3. [task[t] EXCEPT !.at = "served", !.upto = n].op = "chat"
    BY <2>2 DEF CallRecords
  <2>4. task[t] # Idle
    BY <2>2 DEF Idle
  <2>5. QED
    BY <1>7, <2>1, <2>2, <2>3, <2>4, OtherStep DEF ChatServed, Joining
<1>8. ASSUME NEW t \in Tasks, ChatReceived(t) PROVE IdInv'
  <2>1. task[t].op = "chat" /\ task[t].at = "served" /\ Goes(t, Idle)
    BY <1>8 DEF ChatReceived, Ends
  <2>2. task[t] # Idle /\ ~Joining(task[t], "served")
    BY <2>1 DEF Idle, Joining
  <2>3. QED
    BY <1>8, <2>1, <2>2, IdleJoinsNothing, OtherStep DEF ChatReceived
<1>9. ASSUME NEW t \in Tasks, AnswerLost(t) PROVE IdInv'
  BY <1>9 DEF AnswerLost, Careful
<1>10. CASE Restart
  BY <1>10, RestartOne
<1>11. QED
  BY <1>1, <1>2, <1>3, <1>4, <1>5, <1>6, <1>7, <1>8, <1>9, <1>10 DEF RoomNext

LEMMA CommonOne ==
    ASSUME Types, IdInv, Careful, NEW t \in Tasks, Common(t)
    PROVE  IdInv'
<1>1. /\ task[t].at = "register" /\ Goes(t, [task[t] EXCEPT !.at = "login"])
      /\ UNCHANGED <<fixed, roomVars>>
  BY DEF Common, Registered, LoginLost, Careful
<1>2. [task[t] EXCEPT !.at = "login"].at = "login"
  BY DEF Types, Well, CallRecords
<1>3. task[t] # Idle
  BY <1>1 DEF Idle
<1>4. QED
  BY <1>1, <1>2, <1>3, OtherStep DEF Joining

LEMMA StepOne == TInv /\ IdInv /\ [Next]_vars => IdInv'
<1> SUFFICES ASSUME TInv, IdInv, [Next]_vars PROVE IdInv'
  OBVIOUS
<1> USE DEF TInv
<1>1. UNCHANGED <<kind, serial, safe, share>>
  <2> USE DEF fixed, roomVars
  <2>1. ASSUME NEW t \in Tasks, Common(t) PROVE UNCHANGED <<kind, serial, safe, share>>
    BY <2>1 DEF Common, Registered, LoginLost
  <2>2. ASSUME NEW c \in Codes, RoomSays(c) PROVE UNCHANGED <<kind, serial, safe, share>>
    BY <2>2 DEF RoomSays, Say
  <2>3. CASE RoomNext
    BY <2>3 DEF RoomNext, Join, JoinSync, Chat, ChatSync, Begins, TokenReady, Refused, JoinServed,
                JoinReceived, ChatServed, ChatReceived, AnswerLost, Restart
  <2>4. CASE ChatNext /\ UNCHANGED roomVars
    BY <2>4 DEF ChatNext, Begin, Command, SignedIn, Rejected, SetupServed, FriendAsked,
                UnbindServed, Uploaded, FriendsAnswered, Answered, Received, Lost, OpenShell,
                CloseShell, Close, Relaunch, OwnerAccepts, OwnerSays, Say, httpVars
  <2>5. QED
    BY <2>1, <2>2, <2>3, <2>4 DEF Next, vars, httpVars
<1> SUFFICES ASSUME Careful PROVE IdInv'
  BY <1>1 DEF IdInv, Careful
<1>2. ASSUME NEW t \in Tasks, Common(t) PROVE IdInv'
  BY <1>2, CommonOne
<1>3. CASE RoomNext
  BY <1>3, RoomStepOne
<1>4. ASSUME UNCHANGED <<task, roomVars>> PROVE IdInv'
  BY <1>4 DEF IdInv, roomVars, Coming, Joining, Careful
<1>5. ASSUME NEW c \in Codes, RoomSays(c) PROVE IdInv'
  BY <1>4, <1>5 DEF RoomSays, Say
<1>6. CASE ChatNext /\ UNCHANGED roomVars
  <2>1. kind = "room" /\ ~shell
    BY DEF Careful
  <2>2. UNCHANGED task
    BY <1>6, <2>1 DEF ChatNext, Begin, Command, SignedIn, Rejected, SetupServed, FriendAsked,
         UnbindServed, Uploaded, FriendsAnswered, Answered, Received, Lost, OpenShell, CloseShell,
         Close, Relaunch, OwnerAccepts, OwnerSays, httpVars
  <2>3. QED
    BY <1>4, <1>6, <2>2
<1>7. CASE UNCHANGED vars
  BY <1>4, <1>7 DEF vars, httpVars
<1>8. QED
  BY <1>2, <1>3, <1>5, <1>6, <1>7 DEF Next

LEMMA InitOne == Init => IdInv
<1> SUFFICES ASSUME Init PROVE IdInv
  OBVIOUS
<1>1. \A t \in Tasks : task[t] = Idle
  BY DEF Init, HttpInit
<1>2. \A c \in Codes : issued[c] = 0 /\ keyfile[c] = NoKey /\ mem.code # c
  BY HttpAssumption DEF Init, RoomInit, Outside
<1>3. QED
  BY <1>1, <1>2, IdleJoinsNothing DEF IdInv

\* The promise of the key files: a client that makes one call at a time and loses
\* no answer stays the one member of each room that it became first, for any number
\* of rooms, joins and restarts, if no two codes differ in case only.
THEOREM OneMemberPerRoom == Spec => []OneIdentity
<1>1. TInv /\ IdInv => OneIdentity
  BY DEF IdInv, OneIdentity, Careful
<1>2. Init => TInv /\ IdInv
  BY TypeInit, InitOne
<1>3. TInv /\ IdInv /\ [Next]_vars => TInv' /\ IdInv'
  BY TypeStep, StepOne
<1>4. QED
  BY <1>1, <1>2, <1>3, PTL DEF Spec

-----------------------------------------------------------------------------
\* Who is spoken to, when calls neither overlap nor get lost. The client and the file
\* name the owner that the server has bound, but for the moment between the two
\* requests of a bind; and who is asked for his friendship is that owner.
Answers == kind # "room" /\ serial /\ safe

AskInv ==
    /\ kind = "room" => spoke = {}
    /\ serial /\ safe => spoke \subseteq friend
    /\ Answers =>
        /\ \A t, u \in Tasks : t = u \/ task[t] = Idle \/ task[u] = Idle
        /\ file.owner = binding.owner
        /\ (\A t \in Tasks : task[t].at # "ask") => bound = binding.owner
        /\ \A t \in Tasks :
            /\ task[t].at = "ask" => bound = task[t].to
            /\ task[t].at = "friends" => task[t].to = binding.owner
            /\ task[t].at = "sent" /\ task[t].op = "speak" => bound \in friend \union {None}

\* Call t is at r now, and no other call is under way.
Turns(t, r) == task'[t] = r /\ \A u \in Tasks \ {t} : task'[u] = Idle

\* A call may get to r while nothing but calls moves.
Fair(r) ==
    /\ r.at # "ask"
    /\ r.at = "friends" => r.to = binding.owner
    /\ r.at = "sent" /\ r.op = "speak" => bound \in friend \union {None}

LEMMA IdleAt ==
    Idle.at = "idle" /\ Idle.op = "none" /\ Fair(Idle)
BY DEF Idle, Fair

\* The owner that is bound is the one the client knows, unless a bind waits.
LEMMA OwnerKnown ==
    ASSUME AskInv, Answers, NEW t \in Tasks, task[t].at # "ask",
           \A u \in Tasks \ {t} : task[u] = Idle
    PROVE  bound = binding.owner
BY IdleAt DEF AskInv

LEMMA TurnAsks ==
    ASSUME AskInv, Answers, NEW t \in Tasks, NEW r, Turns(t, r), Fair(r),
           \A u \in Tasks \ {t} : task[u] = Idle, task[t].at # "ask",
           UNCHANGED <<fixed, spoke, friend, bound, binding, file>>
    PROVE  AskInv'
<1>1. bound = binding.owner
  BY OwnerKnown
<1>2. UNCHANGED <<kind, serial, safe>>
  BY DEF fixed
<1>3. \A u \in Tasks : u = t \/ task'[u] = Idle
  BY DEF Turns
<1>4. \A u \in Tasks : Fair(task'[u])
  BY <1>3, IdleAt DEF Turns
<1>5. QED
  BY <1>1, <1>2, <1>3, <1>4 DEF AskInv, Answers, Fair

-----------------------------------------------------------------------------
\* Where a call gets to that goes on with a core.
LEMMA StationFair ==
    ASSUME Types, NEW r \in Well, NEW c, NEW n \in Times,
           r.at # "ask", binding.owner = bound
    PROVE  Fair(Station(r, c, n))
<1>0. r \in CallRecords
  BY DEF Well
<1>1. ASSUME r.op \notin {"bind"} PROVE Fair(Asks(r, n))
  <2>1. CASE r.op = "speak" /\ binding.owner # None
    <3>1. /\ Asks(r, n).at = "friends" /\ Asks(r, n).to = binding.owner
      BY <1>0, <2>1 DEF Asks, CallRecords
    <3>2. QED
      BY <3>1 DEF Fair
  <2>2. CASE ~(r.op = "speak" /\ binding.owner # None)
    <3>1. Asks(r, n).at = "sent" /\ Asks(r, n).op = r.op
      BY <1>0, <2>2 DEF Asks, Sent, CallRecords
    <3>2. r.op = "speak" => bound = None
      BY <2>2
    <3>3. QED
      BY <3>1, <3>2 DEF Fair
  <2>3. QED
    BY <2>1, <2>2
<1>2. ASSUME NEW p \in {"setup", "upload", "unbind"} PROVE Fair([r EXCEPT !.at = p])
  <2>1. [r EXCEPT !.at = p].at = p
    BY <1>0 DEF CallRecords
  <2>2. QED
    BY <2>1 DEF Fair
<1>3. QED
  BY <1>1, <1>2, IdleAt DEF Station

LEMMA DroppedIdle ==
    ASSUME Types, NEW u \in Tasks, task[u] = Idle
    PROVE  Dropped[u] = Idle
BY IdleAt DEF Dropped

LEMMA ProceedsAsks ==
    ASSUME Types, AskInv, Answers, NEW t \in Tasks, NEW r \in Well, NEW c,
           NEW fresh \in BOOLEAN, Proceeds(t, r, c, fresh), r.at # "ask",
           \A u \in Tasks \ {t} : task[u] = Idle, task[t].at # "ask",
           UNCHANGED <<fixed, spoke, friend, bound, binding, file>>
    PROVE  AskInv'
<1> DEFINE n == IF fresh THEN 0 ELSE latest
           s == Station(r, c, n)
<1>1. n \in Times
  BY HttpAssumption DEF Types, HttpTypes, Times
<1>2. Fair(s)
  BY <1>1, OwnerKnown, StationFair
<1>3. task' = [(IF fresh THEN Dropped ELSE task) EXCEPT ![t] = s]
  BY DEF Proceeds
<1> HIDE DEF s
<1>4. Dropped \in [Tasks -> Well] /\ task \in [Tasks -> Well]
  BY DroppedWell DEF Types
<1>5. Turns(t, s)
  <2>1. CASE fresh
    BY <1>3, <1>4, <2>1, DroppedIdle DEF Turns
  <2>2. CASE ~fresh
    BY <1>3, <1>4, <2>2 DEF Turns
  <2>3. QED
    BY <2>1, <2>2
<1>6. QED
  BY <1>2, <1>5, TurnAsks

LEMMA GoesAsks ==
    ASSUME Types, AskInv, Answers, NEW t \in Tasks, NEW r, Goes(t, r), Fair(r),
           \A u \in Tasks \ {t} : task[u] = Idle, task[t].at # "ask",
           UNCHANGED <<fixed, spoke, friend, bound, binding, file>>
    PROVE  AskInv'
<1>1. Turns(t, r)
  BY DEF Turns, Goes, Types
<1>2. QED
  BY <1>1, TurnAsks

LEMMA SignsInAsks ==
    ASSUME Types, AskInv, Answers, NEW t \in Tasks, NEW r \in Well, SignsIn(t, r),
           \A u \in Tasks \ {t} : task[u] = Idle, task[t].at # "ask",
           UNCHANGED <<fixed, spoke, friend, bound, binding, file>>
    PROVE  AskInv'
<1>1. PICK p \in {"register", "login"} : Goes(t, [r EXCEPT !.at = p])
  BY DEF SignsIn
<1>2. [r EXCEPT !.at = p].at = p
  BY DEF Well, CallRecords
<1>3. Fair([r EXCEPT !.at = p])
  BY <1>2 DEF Fair
<1>4. QED
  BY <1>1, <1>3, GoesAsks

LEMMA StartsAsks ==
    ASSUME Types, AskInv, Answers, NEW t \in Tasks, NEW r \in Well, Starts(t, r), r.at # "ask",
           \A u \in Tasks \ {t} : task[u] = Idle, task[t].at # "ask",
           UNCHANGED <<fixed, spoke, friend, bound, binding, file>>
    PROVE  AskInv'
<1>1. CASE core = "none" \/ r.op = "init"
  BY <1>1, SignsInAsks DEF Starts
<1>2. CASE ~(core = "none" \/ r.op = "init")
  <2> DEFINE chats == r.op \in {"speak", "listen"}
             c == IF chats /\ core = "late" THEN "token" ELSE core
  <2>1. Proceeds(t, r, c, chats /\ core # "token")
    BY <1>2 DEF Starts
  <2>2. (chats /\ core # "token") \in BOOLEAN
    OBVIOUS
  <2> HIDE DEF c
  <2>3. QED
    BY <2>1, <2>2, ProceedsAsks
<1>3. QED
  BY <1>1, <1>2

\* Who steps is alone.
LEMMA AskAlone ==
    ASSUME AskInv, Answers, NEW t \in Tasks, AllIdle \/ task[t].at # "idle"
    PROVE  \A u \in Tasks \ {t} : task[u] = Idle
BY IdleAt DEF AskInv, AllIdle

LEMMA CallAsks ==
    ASSUME NEW c \in Calls
    PROVE  Call(c.op, c.to) \in Well /\ Call(c.op, c.to).at = "idle"
<1>1. Call(c.op, c.to).at = "idle"
  BY DEF Call, Idle
<1>2. QED
  BY <1>1, CallWell

\* A call begins, by a method or a command.
LEMMA BeginAsks ==
    ASSUME Types, AskInv, Answers, NEW t \in Tasks, NEW c \in Calls,
           Begin(t, c) \/ Command(t, c)
    PROVE  AskInv'
<1>1. Call(c.op, c.to) \in Well /\ Call(c.op, c.to).at = "idle"
  BY CallAsks
<1>2. AllIdle
  BY DEF Begin, Command, MayBegin, Answers
<1>3. (\A u \in Tasks \ {t} : task[u] = Idle) /\ task[t].at # "ask"
  BY <1>2, IdleAt DEF AllIdle
<1>4. CASE Begin(t, c)
  BY <1>1, <1>3, <1>4, StartsAsks DEF Begin, chatVars
<1>5. CASE Command(t, c)
  <2>1. binding' = file /\ file.owner = binding.owner /\ bound = binding.owner
    BY <1>3, <1>5, OwnerKnown DEF Command, AskInv
  <2>2. /\ UNCHANGED <<kind, serial, safe, spoke, friend, bound, file>>
        /\ SignsIn(t, Call(c.op, c.to))
    BY <1>5 DEF Command, fixed, server
  <2>3. PICK p \in {"register", "login"} : Goes(t, [Call(c.op, c.to) EXCEPT !.at = p])
    BY <2>2 DEF SignsIn
  <2>4. [Call(c.op, c.to) EXCEPT !.at = p].at = p
    BY <1>1 DEF Well, CallRecords
  <2>5. /\ task'[t].at = p
        /\ \A u \in Tasks \ {t} : task'[u] = Idle
    BY <1>3, <2>3, <2>4 DEF Goes, Types
  <2>6. QED
    BY <2>1, <2>2, <2>5, IdleAt DEF AskInv, Answers
<1>6. QED
  BY <1>4, <1>5

\* The steps of a call in which nothing is said and nobody is bound.
LEMMA QuietAsks ==
    ASSUME Types, AskInv, Answers, NEW t \in Tasks,
           \/ SignedIn(t) \/ Rejected(t) \/ Uploaded(t) \/ FriendsAnswered(t)
           \/ Registered(t) /\ UNCHANGED chatVars
    PROVE  AskInv'
<1>1. task[t].at \in {"register", "login", "setup", "upload", "sent", "unbind", "friends"}
  BY DEF SignedIn, Rejected, Uploaded, FriendsAnswered, Registered
<1>2. (\A u \in Tasks \ {t} : task[u] = Idle) /\ task[t].at # "ask" /\ task[t] \in Well
  BY <1>1, AskAlone DEF Types
<1>3. UNCHANGED <<fixed, spoke, friend, bound, binding, file>>
  BY DEF SignedIn, Rejected, Uploaded, FriendsAnswered, Registered, chatVars, server, record
<1>4. CASE SignedIn(t)
  <2>1. PICK c \in {"token", "anon"} :
            Proceeds(t, task[t], c, task[t].op \in {"init", "speak", "listen"})
    BY <1>4 DEF SignedIn
  <2>2. (task[t].op \in {"init", "speak", "listen"}) \in BOOLEAN
    OBVIOUS
  <2>3. QED
    BY <1>2, <1>3, <2>1, <2>2, ProceedsAsks
<1>5. CASE Rejected(t)
  BY <1>2, <1>3, <1>5, IdleAt, GoesAsks DEF Rejected, Ends
<1>6. CASE Uploaded(t)
  <2>1. PICK op \in {"file", "speak"} : Starts(t, [task[t] EXCEPT !.op = op])
    BY <1>6 DEF Uploaded
  <2>2. task[t].at = "upload" /\ task[t] \in CallRecords
    BY <1>2, <1>6 DEF Uploaded, Well
  <2>3. [task[t] EXCEPT !.op = op] \in Well /\ [task[t] EXCEPT !.op = op].at = "upload"
    BY <2>2 DEF Well, CallRecords
  <2>4. QED
    BY <1>2, <1>3, <2>1, <2>3, StartsAsks
<1>7. CASE FriendsAnswered(t)
  <2>1. task[t].to = binding.owner /\ bound = binding.owner
    BY <1>2, <1>7, OwnerKnown DEF FriendsAnswered, AskInv
  <2>2. PICK list \in {friend, rows} :
            Goes(t, IF task[t].to \in list THEN Sent(task[t], latest) ELSE Idle)
    BY <1>7 DEF FriendsAnswered, Answers
  <2>3. list \subseteq friend
    BY <2>2 DEF Types, ChatTypes
  <2>4. Sent(task[t], latest).at = "sent"
    BY <1>2 DEF Sent, Well, CallRecords
  <2>5. CASE task[t].to \in list
    <3>1. Fair(Sent(task[t], latest))
      BY <2>1, <2>3, <2>4, <2>5 DEF Fair
    <3>2. Goes(t, Sent(task[t], latest))
      BY <2>2, <2>5
    <3>3. QED
      BY <1>2, <1>3, <3>1, <3>2, GoesAsks
  <2>6. CASE task[t].to \notin list
    BY <1>2, <1>3, <2>2, <2>6, IdleAt, GoesAsks
  <2>7. QED
    BY <2>5, <2>6
<1>8. CASE Registered(t)
  <2>1. Goes(t, [task[t] EXCEPT !.at = "login"])
    BY <1>8 DEF Registered, Answers
  <2>2. [task[t] EXCEPT !.at = "login"].at = "login"
    BY <1>2 DEF Well, CallRecords
  <2>3. Fair([task[t] EXCEPT !.at = "login"])
    BY <2>2 DEF Fair
  <2>4. QED
    BY <1>2, <1>3, <2>1, <2>3, GoesAsks
<1>9. QED
  BY <1>4, <1>5, <1>6, <1>7, <1>8

\* bind and unbind, which move the owner and then the client and the file.
LEMMA BindAsks ==
    ASSUME Types, AskInv, Answers, NEW t \in Tasks,
           SetupServed(t) \/ FriendAsked(t) \/ UnbindServed(t)
    PROVE  AskInv'
<1>1. task[t].at \in {"setup", "ask", "unbind"}
  BY DEF SetupServed, FriendAsked, UnbindServed
<1>2. (\A u \in Tasks \ {t} : task[u] = Idle) /\ task[t] \in Well
  BY <1>1, AskAlone DEF Types
<1>3. UNCHANGED <<kind, serial, safe, spoke, friend>>
  BY DEF SetupServed, FriendAsked, UnbindServed, fixed
<1>4. Dropped \in [Tasks -> Well] /\ task \in [Tasks -> Well]
  BY DroppedWell DEF Types
<1>5. CASE SetupServed(t)
  <2>1. /\ bound' = task[t].to /\ UNCHANGED <<file, binding>>
        /\ task' = [task EXCEPT ![t] = [task[t] EXCEPT !.at = "ask"]]
    BY <1>5 DEF SetupServed, record, Goes, Answers
  <2>2. /\ [task[t] EXCEPT !.at = "ask"].at = "ask"
        /\ [task[t] EXCEPT !.at = "ask"].to = task[t].to
    BY <1>2 DEF Well, CallRecords
  <2>3. /\ task'[t].at = "ask" /\ task'[t].to = task[t].to
        /\ \A u \in Tasks \ {t} : task'[u] = Idle
    BY <1>2, <1>4, <2>1, <2>2
  <2>4. QED
    BY <1>3, <2>1, <2>3, IdleAt DEF AskInv, Answers
<1>6. ASSUME NEW o, bound' = o, file'.owner = o, binding'.owner = o,
             task' = [Dropped EXCEPT ![t] = Idle]
      PROVE  AskInv'
  <2>1. \A u \in Tasks : task'[u] = Idle
    BY <1>2, <1>4, <1>6, DroppedIdle
  <2>2. QED
    BY <1>3, <1>6, <2>1, IdleAt DEF AskInv, Answers
<1>7. CASE FriendAsked(t)
  <2>1. bound' = task[t].to /\ Saved(t)
    BY <1>7 DEF FriendAsked, AskInv, Answers
  <2>2. Bound(task[t].to).owner = task[t].to
    BY DEF Bound, Unbound
  <2>3. QED
    BY <1>6, <2>1, <2>2 DEF Saved
<1>8. CASE UnbindServed(t)
  <2>1. /\ bound' = None /\ file' = Unbound /\ binding' = Unbound
        /\ task' = [Dropped EXCEPT ![t] = Idle]
    BY <1>8 DEF UnbindServed, Answers
  <2>2. QED
    BY <1>6, <2>1 DEF Unbound
<1>9. QED
  BY <1>5, <1>7, <1>8

\* The server says what was sent to the owner it has bound; the client takes note.
LEMMA ChatAsks ==
    ASSUME Types, AskInv, Answers, NEW t \in Tasks, Answered(t) \/ Received(t)
    PROVE  AskInv'
<1>1. task[t].at \in {"sent", "served"}
  BY DEF Answered, Received
<1>2. /\ (\A u \in Tasks \ {t} : task[u] = Idle) /\ task[t].at # "ask"
      /\ task[t] \in Well /\ task \in [Tasks -> Well]
  BY <1>1, AskAlone DEF Types
<1>3. UNCHANGED <<kind, serial, safe, friend, bound>>
  BY DEF Answered, Received, fixed, server
<1>4. bound = binding.owner
  BY <1>2, OwnerKnown
<1>5. CASE Answered(t)
  <2>1. /\ task[t].at = "sent" /\ bound # None /\ UNCHANGED <<file, binding>>
        /\ spoke' = IF task[t].op = "speak" THEN spoke \union {bound} ELSE spoke
    BY <1>5 DEF Answered, record
  <2>2. spoke' \subseteq friend
    BY <2>1 DEF AskInv, Answers
  <2>3. PICK m : task' = [task EXCEPT ![t] =
                             [task[t] EXCEPT !.at = "served", !.to = bound, !.upto = m]]
    BY <1>5 DEF Answered, Goes
  <2>4. [task[t] EXCEPT !.at = "served", !.to = bound, !.upto = m].at = "served"
    BY <1>2 DEF Well, CallRecords
  <2>5. task'[t].at = "served" /\ \A u \in Tasks \ {t} : task'[u] = Idle
    BY <1>2, <2>3, <2>4
  <2>6. QED
    BY <1>3, <1>4, <2>1, <2>2, <2>5, IdleAt DEF AskInv, Answers
<1>6. CASE Received(t)
  <2>1. /\ UNCHANGED spoke /\ task' = [task EXCEPT ![t] = Idle]
        /\ \/ binding' = binding /\ file' = file
           \/ /\ binding' = [binding EXCEPT !.ts = task[t].upto]
              /\ file' = binding'
    BY <1>6 DEF Received, Ends, Goes, server
  <2>2. binding \in Bindings
    BY DEF Types, ChatTypes
  <2>3. [binding EXCEPT !.ts = task[t].upto].owner = binding.owner
    BY <2>2 DEF Bindings
  <2>4. binding'.owner = binding.owner /\ file'.owner = file.owner
    BY <2>1, <2>3 DEF AskInv
  <2>5. \A u \in Tasks : task'[u] = Idle
    BY <1>2, <2>1
  <2>6. QED
    BY <1>3, <1>4, <2>1, <2>4, <2>5, IdleAt DEF AskInv, Answers
<1>7. QED
  BY <1>5, <1>6

\* The shell, close, a new process, and what the owners do.
LEMMA RestAsks ==
    ASSUME Types, AskInv, Answers,
           \/ OpenShell \/ CloseShell \/ Close \/ Relaunch
           \/ \E o \in Owners : OwnerAccepts(o) \/ OwnerSays(o)
    PROVE  AskInv'
<1>1. ASSUME UNCHANGED <<fixed, spoke, bound, file>>, friend \subseteq friend',
             binding'.owner = file.owner,
             \A t \in Tasks : /\ task[t] = Idle => task'[t] = Idle
                             /\ task'[t].at = task[t].at /\ task'[t].op = task[t].op
                             /\ task'[t].to = task[t].to
      PROVE  AskInv'
  BY <1>1 DEF AskInv, Answers, fixed
<1>2. CASE OpenShell
  BY <1>1, <1>2 DEF OpenShell, server
<1>3. CASE CloseShell
  BY <1>1, <1>3 DEF CloseShell, httpVars, server, fixed, AskInv
<1>4. CASE Close
  <2>1. task' = Dropped /\ task \in [Tasks -> Well]
    BY <1>4 DEF Close, Types
  <2>2. ASSUME NEW t \in Tasks
        PROVE  /\ Dropped[t].at = task[t].at /\ Dropped[t].op = task[t].op
               /\ Dropped[t].to = task[t].to
    <3>1. task[t] \in CallRecords
      BY <2>1 DEF Well
    <3>2. QED
      BY <3>1 DEF Dropped, CallRecords
  <2>3. UNCHANGED <<fixed, spoke, bound, file, friend, binding>>
    BY <1>4 DEF Close, chatVars
  <2>4. QED
    BY <1>1, <2>1, <2>2, <2>3, DroppedIdle DEF AskInv
<1>5. CASE Relaunch
  <2>1. AllIdle /\ UNCHANGED <<kind, serial, safe, spoke, bound, friend>>
    BY <1>5 DEF Relaunch, Answers, fixed, server
  <2>2. \A t \in Tasks : task[t] = Idle /\ task'[t] = Idle
    BY <1>5, <2>1 DEF Relaunch, AllIdle
  <2>3. file' = file /\ binding' = file
    BY <1>5, <2>2, IdleAt DEF Relaunch
  <2>4. QED
    BY <2>1, <2>2, <2>3, IdleAt DEF AskInv, Answers
<1>6. ASSUME NEW o \in Owners, OwnerAccepts(o) PROVE AskInv'
  BY <1>1, <1>6 DEF OwnerAccepts, httpVars, record, fixed, AskInv
<1>7. ASSUME NEW o \in Owners, OwnerSays(o) PROVE AskInv'
  BY <1>1, <1>7 DEF OwnerSays, Say, chatVars, AskInv
<1>8. QED
  BY <1>2, <1>3, <1>4, <1>5, <1>6, <1>7

\* Only the server's part of a chat makes somebody be spoken to.
LEMMA SpokenTo ==
    ASSUME [Next]_vars
    PROVE  /\ UNCHANGED <<kind, serial, safe>>
           /\ \/ spoke' = spoke /\ friend \subseteq friend'
              \/ \E t \in Tasks : Answered(t)
<1>1. CASE UNCHANGED vars
  BY <1>1 DEF vars, httpVars, chatVars
<1>2. ASSUME NEW t \in Tasks, Common(t)
      PROVE  UNCHANGED <<kind, serial, safe, spoke, friend>>
  BY <1>2 DEF Common, Registered, LoginLost, chatVars, fixed
<1>3. ASSUME NEW c \in Codes, RoomSays(c)
      PROVE  UNCHANGED <<kind, serial, safe, spoke, friend>>
  BY <1>3 DEF RoomSays, Say, chatVars, fixed
<1>4. CASE RoomNext /\ UNCHANGED chatVars
  BY <1>4 DEF RoomNext, Join, JoinSync, Chat, ChatSync, Begins, TokenReady, Refused, JoinServed,
              JoinReceived, ChatServed, ChatReceived, AnswerLost, Restart, fixed, chatVars
<1>5. CASE ChatNext
  BY <1>5 DEF ChatNext, Begin, Command, SignedIn, Rejected, SetupServed, FriendAsked,
              UnbindServed, Uploaded, FriendsAnswered, Answered, Received, Lost, OpenShell,
              CloseShell, Close, Relaunch, OwnerAccepts, OwnerSays, Say, httpVars, fixed,
              chatVars, server, record
<1>6. QED
  BY <1>1, <1>2, <1>3, <1>4, <1>5 DEF Next

LEMMA StepAsks ==
    TInv /\ AskInv /\ [Next]_vars => AskInv'
<1> SUFFICES ASSUME TInv, AskInv, [Next]_vars PROVE AskInv'
  OBVIOUS
<1>0. UNCHANGED <<kind, serial, safe>> /\ Types
  BY SpokenTo DEF TInv
<1>1. CASE ~Answers
  <2>1. kind = "room" => \A t \in Tasks : ~Answered(t)
    BY DEF Answered
  <2>2. QED
    BY <1>0, <1>1, <2>1, SpokenTo DEF AskInv, Answers
<1>2. CASE Answers /\ UNCHANGED vars
  BY <1>2 DEF vars, httpVars, chatVars, fixed, AskInv, Answers
<1>3. CASE Answers /\ Next
  <2>1. ASSUME NEW t \in Tasks, Common(t) PROVE AskInv'
    BY <1>0, <1>3, <2>1, QuietAsks DEF Common, LoginLost, Answers
  <2>2. ~RoomNext /\ \A c \in Codes : ~RoomSays(c)
    BY <1>3 DEF Answers, RoomSays, RoomNext, Join, JoinSync, Chat, ChatSync, Begins, TokenReady,
              Refused, JoinServed, JoinReceived, ChatServed, ChatReceived, AnswerLost, Restart
  <2>3. CASE ChatNext
    <3>1. ASSUME NEW t \in Tasks, NEW c \in Calls, Begin(t, c) \/ Command(t, c) PROVE AskInv'
      BY <1>0, <1>3, <3>1, BeginAsks
    <3>2. ASSUME NEW t \in Tasks,
                 SignedIn(t) \/ Rejected(t) \/ Uploaded(t) \/ FriendsAnswered(t)
          PROVE  AskInv'
      BY <1>0, <1>3, <3>2, QuietAsks
    <3>3. ASSUME NEW t \in Tasks, SetupServed(t) \/ FriendAsked(t) \/ UnbindServed(t)
          PROVE  AskInv'
      BY <1>0, <1>3, <3>3, BindAsks
    <3>4. ASSUME NEW t \in Tasks, Answered(t) \/ Received(t) PROVE AskInv'
      BY <1>0, <1>3, <3>4, ChatAsks
    <3>5. ASSUME NEW t \in Tasks PROVE ~Lost(t)
      BY <1>3 DEF Lost, Answers
    <3>6. CASE \/ OpenShell \/ CloseShell \/ Close \/ Relaunch
               \/ \E o \in Owners : OwnerAccepts(o) \/ OwnerSays(o)
      BY <1>0, <1>3, <3>6, RestAsks
    <3>7. QED
      BY <2>3, <3>1, <3>2, <3>3, <3>4, <3>5, <3>6 DEF ChatNext
  <2>4. QED
    BY <1>3, <2>1, <2>2, <2>3 DEF Next
<1>4. QED
  BY <1>1, <1>2, <1>3

LEMMA InitAsks ==
    Init => AskInv
<1> SUFFICES ASSUME Init PROVE AskInv
  OBVIOUS
<1>1. \A t \in Tasks : task[t] = Idle
  BY DEF Init, HttpInit
<1>2. spoke = {} /\ file = binding
  BY DEF Init, ChatInit
<1>3. file.owner = bound
  <2>1. CASE file = Unbound /\ bound = None
    BY <2>1 DEF Unbound
  <2>2. CASE \E o \in Owners : bound = o /\ file = [Bound(o) EXCEPT !.key = TRUE]
    BY <2>2 DEF Bound
  <2>3. QED
    BY <2>1, <2>2 DEF Init, ChatInit
<1>4. QED
  BY <1>1, <1>2, <1>3, IdleAt DEF AskInv

\* When calls neither overlap nor get lost, nothing is said to an owner who has not
\* accepted the friendship, for any number of owners, binds and processes.
THEOREM FriendsAreAsked ==
    Spec => []SpeaksToFriends
<1>1. AskInv => SpeaksToFriends
  BY DEF AskInv, SpeaksToFriends
<1>2. TInv /\ AskInv /\ [Next]_vars => (TInv /\ AskInv)'
  BY TypeStep, StepAsks
<1>3. Init => TInv /\ AskInv
  BY TypeInit, InitAsks
<1>4. QED
  BY <1>1, <1>2, <1>3, PTL DEF Spec

-----------------------------------------------------------------------------
\* What the user was given. G is given up to n of what was said, P.
Told(P, G, n) == \A x \in P : x <= n => x \in G

\* The times that a call may be made with, and those that an answer may bring.
Stock == {0, latest, file.ts, binding.ts} \union {task[t].since : t \in Tasks}

\* No time lies ahead of the server's clock.
TimesInv ==
    /\ \A c \in Convs : \A x \in posts[c] : x <= now
    /\ \A n \in Stock : n <= now
    /\ \A t \in Tasks : task[t].at = "served" => task[t].upto <= now

\* When no more than one owner ever spoke or was spoken to, every time in use is
\* told, whoever it is from.
Trusted == kind = "owner" \/ (kind = "cli" /\ waits)
Heard(o) == posts[o] # {} \/ o \in spoke
Sole == \A o, p \in Owners : Heard(o) /\ Heard(p) => o = p
SoleInv ==
    kind # "room" =>
        /\ \A t \in Tasks : task[t].at = "served" =>
               /\ task[t].to \in Owners
               /\ task[t].upto \in posts[task[t].to] \union {0} \/ task[t].to \in spoke
        /\ Trusted /\ Sole => \A o \in Owners, n \in Stock : Told(posts[o], got[o], n)

\* The times by which a client without failures polls the owner that is bound: of the
\* client, or of the file; and those of the calls that will be answered into them.
Stamps == IF kind = "owner" THEN {latest} ELSE {file.ts, binding.ts}
Counted(r) == r.at \in {"sent", "served"} /\ (kind = "owner" => r.live)
Waiting == \E t \in Tasks : task[t].at = "ask"
CalmInv ==
    Trusted /\ safe /\ bound # None /\ ~Waiting =>
        /\ \A n \in Stamps : Told(posts[bound], got[bound], n)
        /\ \A t \in Tasks : Counted(task[t]) =>
               /\ Told(posts[bound], got[bound], task[t].since)
               /\ task[t].at = "served" => task[t].to = bound

\* A command is alone; in the interactive chat messages are spoken and nothing else.
ShellInv ==
    kind = "cli" =>
        /\ shell => \A t \in Tasks : task[t].op \in {"none", "speak"}
        /\ ~shell => \A t, u \in Tasks : t = u \/ task[t] = Idle \/ task[u] = Idle
        /\ \A t \in Tasks : task[t].at = "upload" => task[t].op = "file"

-----------------------------------------------------------------------------
\* A call may go from r to s while nothing is said or given.
Follows(r, s) ==
    /\ s.since \in Stock
    /\ s.at = "served" => r.at = "served" /\ s.to = r.to /\ s.upto = r.upto
    /\ Counted(s) => \/ Counted(r) /\ s.since = r.since
                     \/ s.at = "sent" /\ s.since \in Stamps \union {0}

QuietStep ==
    /\ UNCHANGED <<kind, serial, safe, waits, now, posts, got, spoke>>
    /\ latest' \in {latest, 0}
    /\ file'.ts \in {file.ts, binding.ts, 0} /\ binding'.ts \in {file.ts, binding.ts, 0}
    /\ \A t \in Tasks : Follows(task[t], task'[t])

LEMMA IdleFollows ==
    /\ Idle.since = 0 /\ Idle.at = "idle" /\ Idle.op = "none"
    /\ \A r : Follows(r, Idle)
BY DEF Idle, Follows, Stock, Counted

LEMMA SelfFollows ==
    ASSUME NEW t \in Tasks
    PROVE  Follows(task[t], task[t])
BY DEF Follows, Stock

LEMMA MovedFollows ==
    ASSUME NEW q, NEW r \in Well, r.since \in Stock,
           NEW p \in {"register", "login", "setup", "ask", "unbind", "upload"}
    PROVE  Follows(q, [r EXCEPT !.at = p]) /\ [r EXCEPT !.at = p].op = r.op
                                           /\ [r EXCEPT !.at = p].at = p
<1>1. /\ [r EXCEPT !.at = p].since = r.since /\ [r EXCEPT !.at = p].at = p
      /\ [r EXCEPT !.at = p].op = r.op
  BY DEF Well, CallRecords
<1>2. QED
  BY <1>1 DEF Follows, Counted

LEMMA DroppedFollows ==
    ASSUME Types, NEW t \in Tasks
    PROVE  /\ Follows(task[t], Dropped[t]) /\ Dropped[t].op = task[t].op
           /\ Dropped[t].at = task[t].at
           /\ Dropped[t].at \in {"sent", "served"} => ~Dropped[t].live
           /\ task[t] = Idle => Dropped[t] = Idle
<1>1. task[t] \in CallRecords
  BY DEF Types, Well
<1>2. CASE task[t].at \in {"friends", "sent", "served"}
  <2> DEFINE n == IF task[t].at = "friends" THEN latest ELSE task[t].since
             s == [task[t] EXCEPT !.live = FALSE, !.since = n]
  <2>1. Dropped[t] = s
    BY <1>2 DEF Dropped
  <2>2. /\ s.at = task[t].at /\ s.op = task[t].op /\ s.to = task[t].to
        /\ s.upto = task[t].upto /\ s.live = FALSE /\ s.since = n
    BY <1>1 DEF CallRecords
  <2>3. n \in Stock
    BY DEF Stock
  <2> HIDE DEF s
  <2>4. Counted(s) => Counted(task[t]) /\ s.since = task[t].since
    BY <2>2 DEF Counted
  <2>5. QED
    BY <1>2, <2>1, <2>2, <2>3, <2>4, IdleFollows DEF Follows
<1>3. CASE task[t].at \notin {"friends", "sent", "served"}
  BY <1>3, SelfFollows DEF Dropped
<1>4. QED
  BY <1>2, <1>3

LEMMA SentFollows ==
    ASSUME Types, kind # "room", NEW q, NEW r \in Well, r.since \in Stock, NEW n \in {latest, 0}
    PROVE  Follows(q, Sent(r, n)) /\ Sent(r, n).at = "sent" /\ Sent(r, n).op = r.op
<1> DEFINE m == IF kind = "cli" THEN binding.ts ELSE IF r.live THEN n ELSE r.since
<1>1. /\ Sent(r, n).at = "sent" /\ Sent(r, n).since = m
      /\ Sent(r, n).live = r.live /\ Sent(r, n).op = r.op
  BY DEF Sent, Well, CallRecords
<1>2. kind \in {"owner", "cli"}
  BY DEF Types, HttpTypes
<1>3. m \in Stock
  BY DEF Stock
<1>4. Counted(Sent(r, n)) => m \in Stamps \union {0}
  BY <1>1, <1>2 DEF Counted, Stamps
<1>5. QED
  BY <1>1, <1>3, <1>4 DEF Follows

LEMMA StationFollows ==
    ASSUME Types, kind # "room", NEW q, NEW r \in Well, r.since \in Stock,
           NEW c, NEW n \in {latest, 0}
    PROVE  /\ Follows(q, Station(r, c, n))
           /\ Station(r, c, n).op \in {r.op, "none"}
           /\ Station(r, c, n).at = "upload" => Station(r, c, n).op = "file"
<1> DEFINE Right(s) == /\ Follows(q, s) /\ s.op \in {r.op, "none"}
                       /\ s.at = "upload" => s.op = "file"
<1>1. Right(Asks(r, n))
  <2>1. CASE r.op = "speak" /\ binding.owner # None
    <3> DEFINE s == [r EXCEPT !.at = "friends", !.to = binding.owner, !.since = n]
    <3>1. s.at = "friends" /\ s.since = n /\ s.op = r.op
      BY DEF Well, CallRecords
    <3>2. Asks(r, n) = s
      BY <2>1 DEF Asks
    <3> HIDE DEF s
    <3>3. Follows(q, s)
      BY <3>1 DEF Follows, Counted, Stock
    <3>4. QED
      BY <3>1, <3>2, <3>3
  <2>2. CASE ~(r.op = "speak" /\ binding.owner # None)
    BY <2>2, SentFollows DEF Asks
  <2>3. QED
    BY <2>1, <2>2
<1>2. Right(Idle)
  BY IdleFollows
<1>3. \A p \in {"setup", "unbind"} : Right([r EXCEPT !.at = p])
  <2> SUFFICES ASSUME NEW p \in {"register", "login", "setup", "ask", "unbind", "upload"},
                      p # "upload"
               PROVE  Right([r EXCEPT !.at = p])
    BY Zenon
  <2>1. Follows(q, [r EXCEPT !.at = p]) /\ [r EXCEPT !.at = p].op = r.op
        /\ [r EXCEPT !.at = p].at = p
    BY MovedFollows, Zenon
  <2>2. QED
    BY <2>1, Zenon
<1>4. r.op = "file" => Right([r EXCEPT !.at = "upload"])
  BY MovedFollows
<1> HIDE DEF Right
<1>5. Right(Station(r, c, n))
  BY <1>1, <1>2, <1>3, <1>4 DEF Station
<1>6. QED
  BY <1>5 DEF Right

\* Call u remains at its request.
Stays(u) ==
    /\ task'[u].at = task[u].at /\ task'[u].op = task[u].op
    /\ task[u] = Idle => task'[u] = Idle

\* Call t is replaced by one with the operation of r; the others go on, perhaps without
\* their chat client.
Moves(t, r) ==
    /\ latest' \in {latest, 0}
    /\ \A u \in Tasks : Follows(task[u], task'[u])
    /\ task'[t].op \in {r.op, "none"} /\ (task'[t].at = "upload" => task'[t].op = "file")
    /\ \A u \in Tasks \ {t} : Stays(u)

LEMMA GoesMoves ==
    ASSUME Types, NEW t \in Tasks, NEW r, NEW s, Goes(t, s), latest' = latest,
           Follows(task[t], s), s.op \in {r.op, "none"}, s.at = "upload" => s.op = "file"
    PROVE  Moves(t, r)
<1>1. task'[t] = s /\ \A u \in Tasks \ {t} : task'[u] = task[u]
  BY DEF Goes, Types
<1>2. QED
  BY <1>1, SelfFollows DEF Moves, Stays

LEMMA EndsMoves ==
    ASSUME Types, NEW t \in Tasks, NEW r, Ends(t), latest' = latest
    PROVE  Moves(t, r)
BY GoesMoves, IdleFollows DEF Ends

\* All the others lose their client; t is at s.
LEMMA DroppedMoves ==
    ASSUME Types, NEW t \in Tasks, NEW r, NEW s, task' = [Dropped EXCEPT ![t] = s], latest' = 0,
           Follows(task[t], s), s.op \in {r.op, "none"}, s.at = "upload" => s.op = "file"
    PROVE  Moves(t, r)
<1>1. Dropped \in [Tasks -> Well]
  BY DroppedWell
<1>2. task'[t] = s /\ \A u \in Tasks \ {t} : task'[u] = Dropped[u]
  BY <1>1
<1>3. QED
  BY <1>2, DroppedFollows DEF Moves, Stays

LEMMA SignsInMoves ==
    ASSUME Types, NEW t \in Tasks, NEW r \in Well, r.since \in Stock, SignsIn(t, r),
           latest' = latest
    PROVE  Moves(t, r)
<1>1. PICK p \in {"register", "login"} : Goes(t, [r EXCEPT !.at = p])
  BY DEF SignsIn
<1>2. QED
  BY <1>1, MovedFollows, GoesMoves

LEMMA ProceedsMoves ==
    ASSUME Types, kind # "room", NEW t \in Tasks, NEW r \in Well, r.since \in Stock,
           NEW c, NEW fresh \in BOOLEAN, Proceeds(t, r, c, fresh)
    PROVE  Moves(t, r)
<1> DEFINE n == IF fresh THEN 0 ELSE latest
           s == Station(r, c, n)
<1>1. /\ Follows(task[t], s) /\ s.op \in {r.op, "none"}
      /\ s.at = "upload" => s.op = "file"
  BY StationFollows
<1>2. /\ task' = [(IF fresh THEN Dropped ELSE task) EXCEPT ![t] = s]
      /\ latest' = n
  BY DEF Proceeds
<1> HIDE DEF s
<1>3. CASE fresh
  BY <1>1, <1>2, <1>3, DroppedMoves
<1>4. CASE ~fresh
  BY <1>1, <1>2, <1>4, GoesMoves DEF Goes
<1>5. QED
  BY <1>3, <1>4

LEMMA StartsMoves ==
    ASSUME Types, kind # "room", NEW t \in Tasks, NEW r \in Well, r.since \in Stock, Starts(t, r)
    PROVE  Moves(t, r)
<1>1. CASE core = "none" \/ r.op = "init"
  BY <1>1, SignsInMoves DEF Starts
<1>2. CASE ~(core = "none" \/ r.op = "init")
  <2> DEFINE chats == r.op \in {"speak", "listen"}
             c == IF chats /\ core = "late" THEN "token" ELSE core
  <2>1. Proceeds(t, r, c, chats /\ core # "token")
    BY <1>2 DEF Starts
  <2>2. (chats /\ core # "token") \in BOOLEAN
    OBVIOUS
  <2> HIDE DEF c
  <2>3. QED
    BY <2>1, <2>2, ProceedsMoves
<1>3. QED
  BY <1>1, <1>2

\* What each step of a call t does, in which nothing is said or given. Its operation may
\* become that of r.
Binds(t) == SetupServed(t) \/ FriendAsked(t) \/ UnbindServed(t)
QuietCall(t, r) ==
    /\ QuietStep /\ UNCHANGED shell
    /\ (UNCHANGED bound /\ task[t].at # "ask") \/ Binds(t)
    /\ Moves(t, r)

LEMMA TaskInStock ==
    ASSUME Types, NEW t \in Tasks
    PROVE  task[t] \in Well /\ task[t].since \in Stock
BY DEF Types, Stock

LEMMA CallStock ==
    ASSUME NEW c \in Calls
    PROVE  LET r == Call(c.op, c.to)
           IN r \in Well /\ r.since \in Stock /\ r.op = c.op /\ r.at = "idle"
<1>1. Call(c.op, c.to).since = 0 /\ Call(c.op, c.to).op = c.op /\ Call(c.op, c.to).at = "idle"
  BY DEF Call, Idle
<1>2. QED
  BY <1>1, CallWell DEF Stock

LEMMA BeginQuiet ==
    ASSUME Types, NEW t \in Tasks, NEW c \in Calls, Begin(t, c), kind # "room"
    PROVE  QuietCall(t, Call(c.op, c.to))
<1>1. task[t] = Idle
  BY DEF Begin, MayBegin, AllIdle
<1>2. Moves(t, Call(c.op, c.to))
  BY StartsMoves, CallStock DEF Begin
<1>3. QED
  BY <1>1, <1>2, IdleFollows DEF Begin, QuietCall, QuietStep, Moves, Stays, fixed, clock, chatVars

LEMMA CommandQuiet ==
    ASSUME Types, NEW t \in Tasks, NEW c \in Calls, Command(t, c)
    PROVE  QuietCall(t, Call(c.op, c.to))
<1>1. task[t] = Idle
  BY DEF Command, AllIdle
<1> DEFINE r == Call(c.op, c.to)
<1>2. PICK p \in {"register", "login"} : Goes(t, [r EXCEPT !.at = p])
  BY DEF Command, SignsIn
<1>3. /\ task'[t] = [r EXCEPT !.at = p]
      /\ \A u \in Tasks \ {t} : task'[u] = task[u]
  BY <1>2 DEF Goes, Types
<1>4. r \in Well /\ r.since \in Stock
  BY CallStock
<1> HIDE DEF r
<1>5. Moves(t, r)
  <2>1. Follows(task[t], task'[t]) /\ task'[t].op = r.op /\ task'[t].at # "upload"
    <3> DEFINE s == [r EXCEPT !.at = p]
    <3>1. p \in {"register", "login", "setup", "ask", "unbind", "upload"}
      OBVIOUS
    <3>2. Follows(task[t], s) /\ s.op = r.op /\ s.at = p
      BY <1>4, <3>1, MovedFollows, Zenon
    <3> HIDE DEF s
    <3>3. QED
      BY <1>3, <3>2 DEF s
  <2>2. latest' \in {latest, 0}
    BY DEF Command
  <2>3. QED
    BY <1>3, <2>1, <2>2, SelfFollows DEF Moves, Stays
<1>6. QED
  BY <1>1, <1>5, IdleFollows DEF Command, QuietCall, QuietStep, Moves, Stays, fixed, clock, server, r

LEMMA CallQuiet ==
    ASSUME Types, kind # "room", NEW t \in Tasks,
           \/ SignedIn(t) \/ Rejected(t) \/ FriendsAnswered(t) \/ Lost(t) \/ Common(t)
    PROVE  QuietCall(t, task[t])
<1>1. task[t].at \in {"login", "setup", "upload", "sent", "unbind", "friends", "served", "register"}
  BY DEF SignedIn, Rejected, FriendsAnswered, Lost, Common, Registered, LoginLost
<1>2. UNCHANGED <<kind, serial, safe, waits, now, posts, got, spoke, shell, file, binding, bound>>
  BY DEF SignedIn, Rejected, FriendsAnswered, Lost, Common, Registered, LoginLost, fixed, clock,
         chatVars, server, record
<1>3. ASSUME Moves(t, task[t]) PROVE QuietCall(t, task[t])
  BY <1>1, <1>2, <1>3 DEF QuietCall, QuietStep, Moves, Stays
<1>4. CASE SignedIn(t)
  <2>1. PICK c \in {"token", "anon"} :
            Proceeds(t, task[t], c, task[t].op \in {"init", "speak", "listen"})
    BY <1>4 DEF SignedIn
  <2>2. (task[t].op \in {"init", "speak", "listen"}) \in BOOLEAN
    OBVIOUS
  <2>3. Moves(t, task[t])
    BY <2>1, <2>2, TaskInStock, ProceedsMoves
  <2>4. QED
    BY <1>3, <2>3
<1>5. CASE Rejected(t)
  BY <1>3, <1>5, EndsMoves DEF Rejected
<1>6. CASE Lost(t)
  BY <1>3, <1>6, EndsMoves DEF Lost
<1>7. CASE FriendsAnswered(t)
  <2>1. PICK list : Goes(t, IF task[t].to \in list THEN Sent(task[t], latest) ELSE Idle)
    BY <1>7 DEF FriendsAnswered
  <2>2. latest' = latest
    BY <1>7 DEF FriendsAnswered
  <2> DEFINE s == Sent(task[t], latest)
  <2>3. Follows(task[t], s) /\ s.at = "sent" /\ s.op = task[t].op
    BY TaskInStock, SentFollows
  <2> HIDE DEF s
  <2>4. CASE task[t].to \in list
    <3>1. Goes(t, s)
      BY <2>1, <2>4 DEF s
    <3>2. QED
      BY <1>3, <2>2, <2>3, <3>1, GoesMoves
  <2>5. CASE task[t].to \notin list
    BY <1>3, <2>1, <2>2, <2>5, EndsMoves DEF Ends
  <2>6. QED
    BY <2>4, <2>5
<1>8. CASE Common(t)
  <2>1. latest' = latest
    BY <1>8 DEF Common, Registered, LoginLost
  <2> DEFINE s == [task[t] EXCEPT !.at = "login"]
  <2>2. Follows(task[t], s) /\ s.at = "login" /\ s.op = task[t].op
    BY TaskInStock, MovedFollows
  <2>3. Goes(t, s) \/ Ends(t)
    BY <1>8 DEF Common, Registered, LoginLost
  <2> HIDE DEF s
  <2>4. QED
    BY <1>3, <2>1, <2>2, <2>3, GoesMoves, EndsMoves
<1>9. QED
  BY <1>4, <1>5, <1>6, <1>7, <1>8

LEMMA UploadedQuiet ==
    ASSUME Types, NEW t \in Tasks, Uploaded(t)
    PROVE  \E op \in {"file", "speak"} : /\ QuietCall(t, [task[t] EXCEPT !.op = op])
                                         /\ [task[t] EXCEPT !.op = op].op = op
<1>1. PICK op \in {"file", "speak"} : Starts(t, [task[t] EXCEPT !.op = op])
  BY DEF Uploaded
<1> DEFINE r == [task[t] EXCEPT !.op = op]
<1>2. task[t] \in CallRecords /\ task[t].at = "upload" /\ task[t].since \in Stock
  BY TaskInStock DEF Uploaded, Well
<1>3. r \in CallRecords /\ r.at = "upload" /\ r.op = op /\ r.since = task[t].since
  BY <1>2 DEF CallRecords
<1>4. r \in Well
  BY <1>3 DEF Well
<1>5. Starts(t, r) /\ kind # "room"
  BY <1>1 DEF Uploaded
<1> HIDE DEF r
<1>6. Moves(t, r)
  BY <1>2, <1>3, <1>4, <1>5, StartsMoves
<1>7. QuietCall(t, r)
  BY <1>2, <1>6 DEF Uploaded, QuietCall, QuietStep, Moves, Stays, fixed, clock, chatVars
<1>8. QED
  BY <1>3, <1>7 DEF r

LEMMA BindsQuiet ==
    ASSUME Types, NEW t \in Tasks, Binds(t)
    PROVE  QuietCall(t, task[t])
<1>1. UNCHANGED <<kind, serial, safe, waits, now, posts, got, spoke, shell>>
  BY DEF Binds, SetupServed, FriendAsked, UnbindServed, fixed, clock, record
<1>2. Unbound.ts = 0 /\ \A o : Bound(o).ts = 0
  BY DEF Unbound, Bound
<1>3. file'.ts \in {file.ts, 0} /\ binding'.ts \in {binding.ts, 0}
  BY <1>2 DEF Binds, SetupServed, FriendAsked, UnbindServed, Saved, record
<1>4. Moves(t, task[t])
  <2>1. CASE Ends(t) /\ latest' = latest
    BY <2>1, EndsMoves
  <2>2. CASE task' = [Dropped EXCEPT ![t] = Idle] /\ latest' = 0
    BY <2>2, IdleFollows, DroppedMoves
  <2>3. CASE Goes(t, [task[t] EXCEPT !.at = "ask"]) /\ latest' = latest
    BY <2>3, TaskInStock, MovedFollows, GoesMoves
  <2>4. QED
    BY <2>1, <2>2, <2>3 DEF Binds, SetupServed, FriendAsked, UnbindServed, Saved
<1>5. QED
  BY <1>1, <1>3, <1>4 DEF QuietCall, QuietStep, Moves, Stays

\* The shell, close, a new process, and an owner who accepts.
Rest == OpenShell \/ CloseShell \/ Close \/ Relaunch \/ \E o \in Owners : OwnerAccepts(o)

Leaves == \/ \A u \in Tasks : Stays(u)
          \/ ~safe /\ \A u \in Tasks : task'[u] = Idle

LEMMA RestQuiet ==
    ASSUME Types, Rest
    PROVE  /\ QuietStep /\ bound' = bound /\ Leaves
           /\ shell' = shell \/ \A u \in Tasks : task'[u] = Idle
<1>1. UNCHANGED <<kind, serial, safe, waits, now, posts, got, spoke, bound>>
  BY DEF Rest, OpenShell, CloseShell, Close, Relaunch, OwnerAccepts, httpVars, fixed, clock,
         chatVars, server, record
<1>2. /\ file'.ts \in {file.ts, 0} /\ binding'.ts \in {file.ts, binding.ts, 0}
      /\ latest' \in {latest, 0}
  BY DEF Rest, OpenShell, CloseShell, Close, Relaunch, OwnerAccepts, Unbound, httpVars, chatVars,
         record
<1>3. /\ \A u \in Tasks : Follows(task[u], task'[u])
      /\ Leaves /\ (shell' = shell \/ \A u \in Tasks : task'[u] = Idle)
  <2>1. CASE UNCHANGED task /\ (shell' = shell \/ AllIdle)
    BY <2>1, SelfFollows DEF Leaves, Stays, AllIdle
  <2>2. CASE Close
    BY <2>2, DroppedFollows DEF Close, Leaves, Stays, chatVars
  <2>3. CASE Relaunch
    BY <2>3, IdleFollows DEF Relaunch, Leaves, Stays, AllIdle
  <2>4. QED
    BY <2>1, <2>2, <2>3 DEF Rest, OpenShell, CloseShell, OwnerAccepts, httpVars, record
<1>4. QED
  BY <1>1, <1>2, <1>3 DEF QuietStep

-----------------------------------------------------------------------------
\* What a quiet step leaves as it was.
LEMMA QuietStock ==
    ASSUME Types, QuietStep
    PROVE  Stock' \subseteq Stock
<1>1. latest' \in Stock /\ file'.ts \in Stock /\ binding'.ts \in Stock
  BY DEF QuietStep, Stock
<1>2. \A u \in Tasks : task'[u].since \in Stock
  BY DEF QuietStep, Follows
<1>3. Stock' = {0, latest', file'.ts, binding'.ts} \union {task'[u].since : u \in Tasks}
  BY DEF Stock
<1>4. 0 \in Stock
  BY DEF Stock
<1>5. QED
  BY <1>1, <1>2, <1>3, <1>4

LEMMA QuietTimes ==
    ASSUME Types, TimesInv, QuietStep
    PROVE  TimesInv'
<1>1. Stock' \subseteq Stock
  BY QuietStock
<1>2. \A u \in Tasks : task'[u].at = "served" => task'[u].upto <= now
  BY DEF QuietStep, Follows, TimesInv
<1>3. QED
  BY <1>1, <1>2 DEF QuietStep, TimesInv

LEMMA QuietSole ==
    ASSUME Types, SoleInv, QuietStep
    PROVE  SoleInv'
<1>1. Stock' \subseteq Stock
  BY QuietStock
<1>2. UNCHANGED <<kind, waits, posts, got, spoke>>
  BY DEF QuietStep
<1>3. Trusted' = Trusted /\ Sole' = Sole
  BY <1>2 DEF Trusted, Sole, Heard
<1>4. ASSUME kind # "room", NEW u \in Tasks, task'[u].at = "served"
      PROVE  /\ task'[u].to \in Owners
             /\ task'[u].upto \in posts[task'[u].to] \union {0} \/ task'[u].to \in spoke
  BY <1>4 DEF QuietStep, Follows, SoleInv
<1>5. QED
  BY <1>1, <1>2, <1>3, <1>4 DEF SoleInv, Told

LEMMA ToldZero ==
    ASSUME Types, NEW c \in Convs
    PROVE  Told(posts[c], got[c], 0)
<1>1. \A x \in posts[c] : x \in 1..MaxTime
  BY DEF Types, HttpTypes
<1>2. \A x \in 1..MaxTime : ~(x <= 0)
  OBVIOUS
<1>3. QED
  BY <1>1, <1>2 DEF Told

LEMMA QuietCalm ==
    ASSUME Types, CalmInv, QuietStep, bound' = bound, Waiting => Waiting' \/ ~safe
    PROVE  CalmInv'
<1>1. UNCHANGED <<kind, safe, waits, posts, got>>
  BY DEF QuietStep
<1> SUFFICES ASSUME (Trusted /\ safe /\ bound # None /\ ~Waiting)'
             PROVE  /\ \A n \in Stamps' : Told(posts'[bound'], got'[bound'], n)
                    /\ \A t \in Tasks : Counted(task[t])' =>
                          /\ Told(posts'[bound'], got'[bound'], task'[t].since)
                          /\ task'[t].at = "served" => task'[t].to = bound'
  BY DEF CalmInv, Stamps, Counted
<1>2. Trusted /\ safe /\ bound # None /\ ~Waiting
  BY <1>1 DEF Trusted
<1>3. bound \in Convs
  BY <1>2 DEF Types, ChatTypes, Convs
<1>4. \A n \in Stamps \union {0} : Told(posts[bound], got[bound], n)
  BY <1>2, <1>3, ToldZero DEF CalmInv
<1>5. Stamps' \subseteq Stamps \union {0}
  BY <1>1 DEF QuietStep, Stamps
<1>6. ASSUME NEW t \in Tasks, Counted(task[t])'
      PROVE  /\ Told(posts[bound], got[bound], task'[t].since)
             /\ task'[t].at = "served" => task'[t].to = bound
  <2>1. Follows(task[t], task'[t]) /\ Counted(task'[t])
    BY <1>1, <1>6 DEF QuietStep, Counted
  <2>2. Told(posts[bound], got[bound], task'[t].since)
    BY <1>2, <1>4, <2>1 DEF Follows, CalmInv
  <2>3. task'[t].at = "served" => task'[t].to = bound
    BY <1>2, <2>1 DEF Follows, CalmInv, Counted
  <2>4. QED
    BY <2>2, <2>3
<1>7. QED
  BY <1>1, <1>4, <1>5, <1>6

\* After a bind that is answered all starts from 0: the old calls end without a client,
\* and in a command there are none.
LEMMA BindsCalm ==
    ASSUME Types, ShellInv, NEW t \in Tasks, Binds(t)
    PROVE  CalmInv'
<1> SUFFICES ASSUME (Trusted /\ safe /\ bound # None /\ ~Waiting)'
             PROVE  /\ \A n \in Stamps' : Told(posts'[bound'], got'[bound'], n)
                    /\ \A u \in Tasks : ~Counted(task[u])'
  BY DEF CalmInv, Stamps
<1>1. safe /\ UNCHANGED <<kind, posts, got>>
  BY DEF Binds, SetupServed, FriendAsked, UnbindServed, fixed, clock
<1>2. task[t] \in Well /\ task \in [Tasks -> Well]
  BY DEF Types
<1>3. ASSUME SetupServed(t) PROVE FALSE
  <2>1. task' = [task EXCEPT ![t] = [task[t] EXCEPT !.at = "ask"]]
    BY <1>1, <1>3 DEF SetupServed, Goes
  <2>2. task'[t].at = "ask"
    BY <1>2, <2>1 DEF Well, CallRecords
  <2>3. QED
    BY <2>2 DEF Waiting
<1>4. FriendAsked(t) /\ Saved(t)
  BY <1>1, <1>3 DEF Binds, UnbindServed, FriendAsked
<1>5. bound' = bound /\ bound \in Convs
  BY <1>4 DEF FriendAsked, Types, ChatTypes, Convs
<1>6. Stamps' = {0}
  BY <1>4 DEF Saved, Stamps, Bound, Unbound
<1>7. ASSUME NEW u \in Tasks PROVE ~Counted(task[u])'
  <2>1. Dropped \in [Tasks -> Well]
    BY DroppedWell
  <2>2. task'[u] = IF u = t THEN Idle ELSE Dropped[u]
    BY <1>4, <2>1 DEF Saved
  <2>3. CASE kind = "cli"
    <3>1. task[t].op = "bind" /\ task[t].at = "ask"
      BY <1>2, <1>4, WellFacts DEF FriendAsked
    <3>2. task[t] # Idle /\ ~shell
      BY <2>3, <3>1, IdleFollows DEF ShellInv
    <3>3. task'[u] = Idle
      BY <2>2, <2>3, <3>2, DroppedFollows DEF ShellInv
    <3>4. QED
      BY <3>3, IdleFollows DEF Counted
  <2>4. CASE kind # "cli"
    <3>1. kind = "owner"
      BY <1>4, <2>4 DEF FriendAsked, Types, HttpTypes
    <3>2. task'[u].at \in {"sent", "served"} => ~task'[u].live
      BY <2>2, DroppedFollows, IdleFollows
    <3>3. QED
      BY <1>1, <3>1, <3>2 DEF Counted
  <2>5. QED
    BY <2>3, <2>4
<1>8. QED
  BY <1>1, <1>5, <1>6, <1>7, ToldZero

LEMMA MovesShell ==
    ASSUME Types, ShellInv, NEW t \in Tasks, NEW r, Moves(t, r), UNCHANGED <<kind, shell>>,
           kind = "cli" =>
               /\ shell => r.op \in {"none", "speak"}
               /\ ~shell => \A u \in Tasks \ {t} : task[u] = Idle
    PROVE  ShellInv'
<1> SUFFICES ASSUME kind = "cli" PROVE ShellInv'
  BY DEF ShellInv
<1>1. \A u \in Tasks : task'[u].at = "upload" => task'[u].op = "file"
  BY DEF Moves, Stays, ShellInv
<1>2. shell => \A u \in Tasks : task'[u].op \in {"none", "speak"}
  BY DEF Moves, Stays, ShellInv
<1>3. ~shell => \A u \in Tasks \ {t} : task'[u] = Idle
  BY DEF Moves, Stays
<1>4. QED
  BY <1>1, <1>2, <1>3 DEF ShellInv

\* A call that steps is alone, unless the interactive chat runs.
LEMMA ShellAlone ==
    ASSUME ShellInv, NEW t \in Tasks, task[t].at # "idle", kind = "cli", ~shell
    PROVE  \A u \in Tasks \ {t} : task[u] = Idle
<1>1. task[t] # Idle
  BY IdleFollows
<1>2. QED
  BY <1>1 DEF ShellInv

-----------------------------------------------------------------------------
\* The steps in which something is said or given.
ClientInv == TimesInv /\ SoleInv /\ CalmInv /\ ShellInv

\* Nothing that is told becomes untold.
LEMMA StaysTold ==
    ASSUME NEW P, NEW G, NEW H, NEW n, Told(P, G, n), G \subseteq H
    PROVE  Told(P, H, n)
BY DEF Told

LEMMA StockTypes ==
    ASSUME Types
    PROVE  /\ Stock \subseteq Times /\ \A n \in Times : n \in Nat
           /\ now \in Nat /\ \A c \in Convs : posts[c] \subseteq Nat
<1>1. Times \subseteq Nat /\ 1..MaxTime \subseteq Nat /\ 0 \in Times
  BY HttpAssumption DEF Times
<1>2. latest \in Times /\ file.ts \in Times /\ binding.ts \in Times /\ now \in Times
  BY DEF Types, HttpTypes, ChatTypes, Bindings
<1>3. \A t \in Tasks : task[t].since \in Times
  BY DEF Types, Well, CallRecords
<1>4. \A c \in Convs : posts[c] \subseteq 1..MaxTime
  BY DEF Types, HttpTypes
<1>5. QED
  BY <1>1, <1>2, <1>3, <1>4 DEF Stock

LEMMA AnsweredTold ==
    ASSUME Types, ClientInv, kind # "room", NEW t \in Tasks, Answered(t)
    PROVE  ClientInv'
<1> USE DEF ClientInv
<1>1. UNCHANGED <<kind, serial, safe, waits, posts, got, latest, bound, file, binding, shell>>
  BY DEF Answered, fixed, record
<1>2. bound \in Owners /\ bound \in Convs /\ spoke \subseteq spoke' /\ now <= now'
  BY StockTypes DEF Answered, Types, ChatTypes, Convs
<1>3. PICK n : /\ Goes(t, [task[t] EXCEPT !.at = "served", !.to = bound, !.upto = n])
               /\ n \in (IF task[t].op = "speak" THEN {now'} ELSE Newest(bound))
  BY DEF Answered
<1>4. n <= now' /\ (n \in posts[bound] \union {0} \/ bound \in spoke')
  <2>1. CASE task[t].op = "speak"
    BY <1>3, <2>1, StockTypes DEF Answered
  <2>2. CASE task[t].op # "speak"
    <3>1. n \in posts[bound] \union {0} /\ now' = now
      BY <1>3, <2>2 DEF Newest, Answered
    <3>2. n <= now
      BY <1>2, <3>1, StockTypes DEF TimesInv
    <3>3. QED
      BY <3>1, <3>2
  <2>3. QED
    BY <2>1, <2>2
<1> DEFINE s == [task[t] EXCEPT !.at = "served", !.to = bound, !.upto = n]
<1>5. /\ s.at = "served" /\ s.to = bound /\ s.upto = n
      /\ s.since = task[t].since /\ s.live = task[t].live /\ s.op = task[t].op
  BY DEF Types, Well, CallRecords
<1>6. task'[t] = s /\ \A u \in Tasks \ {t} : task'[u] = task[u]
  BY <1>3 DEF Goes, Types
<1> HIDE DEF s
<1>7. Stock' = Stock
  BY <1>1, <1>5, <1>6 DEF Stock
<1>8. TimesInv'
  <2>1. \A c \in Convs : \A x \in posts[c] : x <= now'
    BY <1>2, StockTypes DEF TimesInv, Answered
  <2>2. \A m \in Stock : m <= now'
    BY <1>2, StockTypes DEF TimesInv, Answered
  <2>3. \A u \in Tasks : task'[u].at = "served" => task'[u].upto <= now'
    <3> SUFFICES ASSUME NEW u \in Tasks, task'[u].at = "served" PROVE task'[u].upto <= now'
      OBVIOUS
    <3>1. CASE u = t
      BY <1>4, <1>5, <1>6, <3>1
    <3>2. CASE u # t
      <4>1. task[u].upto <= now /\ task[u].upto \in Times
        BY <1>6, <3>2 DEF TimesInv, Types, Well, CallRecords
      <4>2. QED
        BY <1>2, <1>6, <3>2, <4>1, StockTypes DEF Answered
    <3>3. QED
      BY <3>1, <3>2
  <2>4. QED
    BY <1>1, <1>7, <2>1, <2>2, <2>3 DEF TimesInv
<1>9. SoleInv'
  <2>1. (Trusted /\ Sole)' => Trusted /\ Sole
    BY <1>1, <1>2 DEF Trusted, Sole, Heard
  <2>2. ASSUME NEW u \in Tasks, task'[u].at = "served"
        PROVE  /\ task'[u].to \in Owners
               /\ task'[u].upto \in posts[task'[u].to] \union {0} \/ task'[u].to \in spoke'
    <3>1. CASE u = t
      BY <1>2, <1>4, <1>5, <1>6, <3>1
    <3>2. CASE u # t
      BY <1>2, <1>6, <2>2, <3>2 DEF SoleInv
    <3>3. QED
      BY <3>1, <3>2
  <2>3. QED
    BY <1>1, <1>7, <2>1, <2>2 DEF SoleInv
<1>10. CalmInv'
  <2>1. task[t].at = "sent"
    BY DEF Answered
  <2>2. Waiting => Waiting'
    BY <1>6, <2>1 DEF Waiting
  <2>3. ASSUME NEW u \in Tasks, Counted(task[u])'
        PROVE  /\ Counted(task[u]) /\ task'[u].since = task[u].since
               /\ task'[u].at = "served" => task'[u].to = bound \/ task'[u] = task[u]
    BY <1>1, <1>5, <1>6, <2>1, <2>3 DEF Counted
  <2>4. Stamps' = Stamps /\ Trusted' = Trusted
    BY <1>1 DEF Stamps, Trusted
  <2>5. QED
    BY <1>1, <2>2, <2>3, <2>4 DEF CalmInv
<1>11. ShellInv'
  <2>1. task[t] # Idle
    BY IdleFollows DEF Answered
  <2>2. QED
    BY <1>1, <1>5, <1>6, <2>1 DEF ShellInv
<1>12. QED
  BY <1>8, <1>9, <1>10, <1>11

\* What an answer gives, to who asked from n and was told up to there.
LEMMA HandedTold ==
    ASSUME Types, NEW c \in Convs, NEW n, NEW m, n \in Nat,
           Hands(c, n, m), posts' = posts, Told(posts[c], got[c], n)
    PROVE  Told(posts'[c], got'[c], m)
<1>1. got'[c] = got[c] \union Between(c, n, m)
  BY DEF Hands, Types, HttpTypes
<1>2. \A x \in posts[c] : x \in Nat
  BY StockTypes
<1>3. QED
  BY <1>1, <1>2 DEF Told, Between

LEMMA ReceivedTold ==
    ASSUME Types, ClientInv, kind # "room", NEW t \in Tasks, Received(t)
    PROVE  ClientInv'
<1> USE DEF ClientInv
<1> DEFINE r == task[t]
           newer == r.upto > r.since
<1>1. UNCHANGED <<kind, serial, safe, waits, now, posts, bound, spoke, shell>>
  BY DEF Received, fixed, server
<1>2. r.at = "served" /\ r.to \in Owners /\ r.to \in Convs /\ r \in Well /\ r \in CallRecords
  BY DEF Received, SoleInv, Types, Convs, Well
<1>3. r.upto \in Nat /\ r.since \in Nat /\ r.upto \in Times /\ r.since \in Stock
  BY <1>2, StockTypes, WellFacts DEF Stock
<1>4. \A u \in Tasks : task'[u] = IF u = t THEN Idle ELSE task[u]
  BY DEF Received, Ends, Goes, Types
<1>5. /\ latest' \in {latest, IF newer THEN r.upto ELSE 0}
      /\ latest' # latest => newer /\ r.live
      /\ newer \/ (UNCHANGED <<file, binding>>)
      /\ kind # "cli" => UNCHANGED <<file, binding>>
      /\ UNCHANGED <<file, binding>> \/ (file'.ts = r.upto /\ binding'.ts = r.upto)
  <2>1. [binding EXCEPT !.ts = r.upto].ts = r.upto
    BY DEF Types, ChatTypes, Bindings
  <2>2. QED
    BY <2>1 DEF Received
<1>6. Trusted => Hands(r.to, r.since, r.upto)
  BY DEF Received, Trusted
<1>7. \A c \in Convs : got[c] \subseteq got'[c]
  BY DEF Received, Hands, Types, HttpTypes
<1>8. \A m \in Stock' : m \in Stock \/ (newer /\ m = r.upto)
  <2>1. latest' \in Stock \/ (newer /\ latest' = r.upto)
    BY <1>5 DEF Stock
  <2>2. file'.ts \in Stock \/ (newer /\ file'.ts = r.upto)
    BY <1>5 DEF Stock
  <2>3. binding'.ts \in Stock \/ (newer /\ binding'.ts = r.upto)
    BY <1>5 DEF Stock
  <2>4. \A u \in Tasks : task'[u].since \in Stock
    BY <1>4, IdleFollows DEF Stock
  <2>5. 0 \in Stock
    BY DEF Stock
  <2>6. Stock' = {0, latest', file'.ts, binding'.ts} \union {task'[u].since : u \in Tasks}
    BY DEF Stock
  <2>7. QED
    BY <2>1, <2>2, <2>3, <2>4, <2>5, <2>6
<1>9. TimesInv'
  <2>1. r.upto <= now
    BY <1>2 DEF TimesInv
  <2>2. \A u \in Tasks : task'[u].at = "served" => task'[u].upto <= now
    BY <1>4, IdleFollows DEF TimesInv
  <2>3. QED
    BY <1>1, <1>8, <2>1, <2>2 DEF TimesInv
<1>10. SoleInv'
  <2>1. Trusted' = Trusted /\ Sole' = Sole
    BY <1>1 DEF Trusted, Sole, Heard
  <2>2. \A u \in Tasks : task'[u].at = "served" =>
               /\ task'[u].to \in Owners
               /\ task'[u].upto \in posts'[task'[u].to] \union {0} \/ task'[u].to \in spoke'
    BY <1>1, <1>4, IdleFollows DEF SoleInv
  <2>3. ASSUME Trusted, Sole, NEW o \in Owners, NEW m \in Stock'
        PROVE  Told(posts'[o], got'[o], m)
    <3>1. o \in Convs
      BY DEF Convs
    <3>2. CASE m \in Stock
      BY <1>1, <1>7, <2>3, <3>1, <3>2, StaysTold DEF SoleInv
    <3>3. CASE newer /\ m = r.upto /\ o = r.to
      BY <1>1, <1>3, <1>6, <2>3, <3>1, <3>3, HandedTold DEF SoleInv
    <3>4. CASE newer /\ o # r.to
      <4>1. r.upto # 0
        BY <1>3, <3>4
      <4>2. Heard(r.to)
        BY <1>2, <4>1 DEF SoleInv, Heard
      <4>3. posts[o] = {}
        BY <1>2, <2>3, <3>4, <4>2 DEF Sole, Heard
      <4>4. QED
        BY <1>1, <4>3 DEF Told
    <3>5. QED
      BY <1>8, <3>2, <3>3, <3>4
  <2>4. QED
    BY <1>1, <2>1, <2>2, <2>3 DEF SoleInv
<1>11. CalmInv'
  <2>1. Waiting => Waiting'
    BY <1>2, <1>4 DEF Waiting
  <2> SUFFICES ASSUME Trusted, safe, bound # None, ~Waiting, bound \in Convs
               PROVE  /\ \A n \in Stamps' : Told(posts'[bound], got'[bound], n)
                      /\ \A u \in Tasks : Counted(task[u])' =>
                            /\ Told(posts'[bound], got'[bound], task'[u].since)
                            /\ task'[u].at = "served" => task'[u].to = bound
    BY <1>1, <2>1 DEF CalmInv, Trusted, Types, ChatTypes, Convs
  <2>2. \A n : Told(posts[bound], got[bound], n) => Told(posts'[bound], got'[bound], n)
    BY <1>1, <1>7, StaysTold
  <2>3. ASSUME Counted(r) PROVE Told(posts'[bound], got'[bound], r.upto)
    <3>1. r.to = bound /\ Told(posts[bound], got[bound], r.since)
      BY <1>2, <2>3 DEF CalmInv
    <3>2. QED
      BY <1>1, <1>3, <1>6, <3>1, HandedTold
  <2>4. ASSUME NEW n \in Stamps' PROVE Told(posts'[bound], got'[bound], n)
    <3>1. CASE n \in Stamps
      BY <2>2, <3>1 DEF CalmInv
    <3>2. CASE n \notin Stamps
      <4>1. n = r.upto /\ Counted(r)
        <5>1. CASE kind = "owner"
          <6>1. n = latest' /\ latest' # latest
            BY <1>1, <3>2, <5>1 DEF Stamps
          <6>2. QED
            BY <1>2, <1>5, <5>1, <6>1 DEF Counted
        <5>2. CASE kind # "owner"
          <6>1. n \in {file'.ts, binding'.ts} /\ n \notin {file.ts, binding.ts}
            BY <1>1, <3>2, <5>2 DEF Stamps
          <6>2. QED
            BY <1>2, <1>5, <5>2, <6>1 DEF Counted
        <5>3. QED
          BY <5>1, <5>2
      <4>2. QED
        BY <2>3, <4>1
    <3>3. QED
      BY <3>1, <3>2
  <2>5. ASSUME NEW u \in Tasks, Counted(task[u])'
        PROVE  Counted(task[u]) /\ task'[u] = task[u]
    BY <1>1, <1>4, <2>5, IdleFollows DEF Counted
  <2>6. QED
    BY <2>2, <2>4, <2>5 DEF CalmInv
<1>12. ShellInv'
  BY <1>1, <1>4, IdleFollows DEF ShellInv
<1>13. QED
  BY <1>9, <1>10, <1>11, <1>12

LEMMA SaidTold ==
    ASSUME Types, ClientInv, NEW c \in Convs, Say(c), UNCHANGED chatVars
    PROVE  ClientInv'
<1> USE DEF ClientInv
<1>1. /\ UNCHANGED <<kind, serial, safe, waits, got, latest, task, bound, spoke, file, binding, shell>>
      /\ now' = now + 1
      /\ posts'[c] = posts[c] \union {now'}
      /\ \A d \in Convs \ {c} : posts'[d] = posts[d]
  BY DEF Say, chatVars, fixed, Types, HttpTypes
<1>2. Stock' = Stock
  BY <1>1 DEF Stock
<1>3. ASSUME NEW d \in Convs, NEW G, NEW n \in Stock, Told(posts[d], G, n)
      PROVE  Told(posts'[d], G, n)
  <2>1. n <= now /\ n \in Nat /\ now \in Nat
    BY StockTypes DEF TimesInv
  <2>2. ~(now' <= n)
    BY <1>1, <2>1
  <2>3. QED
    BY <1>1, <1>3, <2>2 DEF Told
<1>4. TimesInv'
  <2>1. \A d \in Convs : \A x \in posts'[d] : x <= now'
    BY <1>1, StockTypes DEF TimesInv
  <2>2. \A n \in Stock : n <= now'
    BY <1>1, StockTypes DEF TimesInv
  <2>3. \A u \in Tasks : task[u].at = "served" => task[u].upto <= now'
    <3>1. \A u \in Tasks : task[u].upto \in Times
      BY DEF Types, Well, CallRecords
    <3>2. QED
      BY <1>1, <3>1, StockTypes DEF TimesInv
  <2>4. QED
    BY <1>1, <1>2, <2>1, <2>2, <2>3 DEF TimesInv
<1>5. SoleInv'
  <2>1. \A d \in Convs : posts[d] \subseteq posts'[d]
    BY <1>1
  <2>2. Trusted' = Trusted /\ (Sole' => Sole)
    BY <1>1, <2>1 DEF Trusted, Sole, Heard, Convs
  <2>3. QED
    BY <1>1, <1>2, <1>3, <2>1, <2>2 DEF SoleInv, Convs
<1>6. CalmInv'
  <2>1. Stamps' = Stamps /\ Stamps \subseteq Stock /\ \A u \in Tasks : task[u].since \in Stock
    BY <1>1 DEF Stamps, Stock
  <2>2. bound # None => bound \in Convs
    BY DEF Types, ChatTypes, Convs
  <2>3. QED
    BY <1>1, <1>3, <2>1, <2>2 DEF CalmInv, Trusted, Waiting, Counted
<1>7. ShellInv'
  BY <1>1 DEF ShellInv
<1>8. QED
  BY <1>4, <1>5, <1>6, <1>7

\* A step of the owner's client or of the commands.
LEMMA QuietCallTold ==
    ASSUME Types, ClientInv, kind # "room", NEW t \in Tasks, NEW r, QuietCall(t, r),
           kind = "cli" => /\ shell => r.op \in {"none", "speak"}
                           /\ ~shell => \A u \in Tasks \ {t} : task[u] = Idle
    PROVE  ClientInv'
<1>1. QuietStep /\ Moves(t, r) /\ UNCHANGED <<kind, shell>>
  BY DEF QuietCall, QuietStep
<1>2. TimesInv' /\ SoleInv' /\ ShellInv'
  BY <1>1, QuietTimes, QuietSole, MovesShell DEF ClientInv
<1>3. CASE Binds(t)
  BY <1>2, <1>3, BindsCalm DEF ClientInv
<1>4. CASE ~Binds(t)
  <2>1. UNCHANGED bound /\ task[t].at # "ask"
    BY <1>4 DEF QuietCall
  <2>2. Waiting => Waiting'
    BY <1>1, <2>1 DEF Waiting, Moves, Stays
  <2>3. QED
    BY <1>1, <1>2, <2>1, <2>2, QuietCalm DEF ClientInv
<1>5. QED
  BY <1>3, <1>4

LEMMA RestTold ==
    ASSUME Types, ClientInv, Rest
    PROVE  ClientInv'
<1>1. /\ QuietStep /\ bound' = bound /\ Leaves
      /\ shell' = shell \/ \A u \in Tasks : task'[u] = Idle
  BY RestQuiet
<1>2. Waiting => Waiting' \/ ~safe
  BY <1>1 DEF Waiting, Leaves, Stays
<1>3. TimesInv' /\ SoleInv' /\ CalmInv'
  BY <1>1, <1>2, QuietTimes, QuietSole, QuietCalm DEF ClientInv
<1>4. ShellInv'
  <2>1. kind' = kind
    BY <1>1 DEF QuietStep
  <2>2. CASE \A u \in Tasks : task'[u] = Idle
    BY <2>2, IdleFollows DEF ShellInv
  <2>3. CASE shell' = shell /\ \A u \in Tasks : Stays(u)
    BY <2>1, <2>3 DEF ShellInv, ClientInv, Stays
  <2>4. QED
    BY <1>1, <2>2, <2>3 DEF Leaves
<1>5. QED
  BY <1>3, <1>4 DEF ClientInv

LEMMA ChatTold ==
    ASSUME TInv, ClientInv, \/ ChatNext
                            \/ kind # "room" /\ \E t \in Tasks : Common(t)
    PROVE  ClientInv'
<1> USE DEF TInv
<1>1. ASSUME NEW t \in Tasks, NEW c \in Calls, Begin(t, c) PROVE ClientInv'
  <2>1. kind # "room" /\ (kind = "cli" => shell /\ c.op = "speak")
    BY <1>1 DEF Begin
  <2>2. QuietCall(t, Call(c.op, c.to)) /\ Call(c.op, c.to).op = c.op
    BY <1>1, <2>1, BeginQuiet, CallStock
  <2>3. QED
    BY <2>1, <2>2, QuietCallTold
<1>2. ASSUME NEW t \in Tasks, NEW c \in Calls, Command(t, c) PROVE ClientInv'
  <2>1. kind = "cli" /\ ~shell /\ \A u \in Tasks : task[u] = Idle
    BY <1>2 DEF Command, AllIdle
  <2>2. QuietCall(t, Call(c.op, c.to))
    BY <1>2, CommandQuiet
  <2>3. QED
    BY <2>1, <2>2, QuietCallTold
<1>3. ASSUME NEW t \in Tasks, task[t].at # "idle", kind # "room", QuietCall(t, task[t])
      PROVE  ClientInv'
  <2>1. kind = "cli" => /\ shell => task[t].op \in {"none", "speak"}
                        /\ ~shell => \A u \in Tasks \ {t} : task[u] = Idle
    BY <1>3, ShellAlone DEF ClientInv, ShellInv
  <2>2. QED
    BY <1>3, <2>1, QuietCallTold
<1>4. ASSUME NEW t \in Tasks, kind # "room",
             \/ SignedIn(t) \/ Rejected(t) \/ FriendsAnswered(t) \/ Lost(t) \/ Common(t)
      PROVE  ClientInv'
  <2>1. task[t].at # "idle"
    BY <1>4 DEF SignedIn, Rejected, FriendsAnswered, Lost, Common, Registered, LoginLost
  <2>2. QED
    BY <1>3, <1>4, <2>1, CallQuiet
<1>5. ASSUME NEW t \in Tasks, Binds(t) PROVE ClientInv'
  <2>1. task[t].at # "idle" /\ kind # "room"
    BY <1>5 DEF Binds, SetupServed, FriendAsked, UnbindServed
  <2>2. QED
    BY <1>3, <1>5, <2>1, BindsQuiet
<1>6. ASSUME NEW t \in Tasks, Uploaded(t) PROVE ClientInv'
  <2>1. kind # "room" /\ task[t].at = "upload"
    BY <1>6 DEF Uploaded
  <2>2. PICK op \in {"file", "speak"} : /\ QuietCall(t, [task[t] EXCEPT !.op = op])
                                        /\ [task[t] EXCEPT !.op = op].op = op
    BY <1>6, UploadedQuiet
  <2>3. kind = "cli" => ~shell /\ \A u \in Tasks \ {t} : task[u] = Idle
    BY <2>1, ShellAlone DEF ClientInv, ShellInv
  <2>4. QED
    BY <2>1, <2>2, <2>3, QuietCallTold
<1>7. ASSUME NEW t \in Tasks, Answered(t) \/ Received(t) PROVE ClientInv'
  BY <1>7, AnsweredTold, ReceivedTold DEF Answered, Received
<1>8. ASSUME NEW o \in Owners, OwnerSays(o) PROVE ClientInv'
  BY <1>8, SaidTold DEF OwnerSays, Convs
<1>9. CASE Rest
  BY <1>9, RestTold
<1>10. CASE ChatNext
  <2>1. ASSUME NEW t \in Tasks,
               \/ SignedIn(t) \/ Rejected(t) \/ FriendsAnswered(t) \/ Lost(t)
        PROVE  ClientInv'
    BY <1>4, <2>1 DEF SignedIn, Rejected, FriendsAnswered, Lost
  <2>2. QED
    BY <1>1, <1>2, <1>5, <1>6, <1>7, <1>8, <1>9, <1>10, <2>1 DEF ChatNext, Rest, Binds
<1>11. QED
  BY <1>4, <1>10

-----------------------------------------------------------------------------
\* The room client. Keys that it holds and rooms that it knows were made by the server.
Made(k) == \A c \in Codes : k[1] = c => issued[c] # 0
Chatting(r) == r.op = "chat" /\ r.at \in {"sent", "served"}
Proper(r) ==
    /\ Made(r.key)
    /\ Joining(r, "served") => issued[r.to] # 0
    /\ Chatting(r) => r.to \in Codes /\ issued[r.to] # 0

MadeInv ==
    kind = "room" =>
        /\ \A c \in Codes : Made(keyfile[c])
        /\ Made(mem.key)
        /\ mem.code # None => issued[mem.code] # 0
        /\ mem.code = None => mem = Outside /\ latest = 0
        /\ \A t \in Tasks : Proper(task[t]) /\ (task[t].op = "chat" => mem.code # None)

\* When no two calls overlap, or there is but one room, what the client polls by is told.
Clear == serial \/ OneRoom
PollInv ==
    kind = "room" =>
        /\ serial => /\ \A t, u \in Tasks : t = u \/ task[t] = Idle \/ task[u] = Idle
                     /\ \A t \in Tasks : Joining(task[t], "served") => latest <= task[t].upto
        /\ Clear /\ mem.code # None =>
            /\ Told(posts[mem.code], got[mem.code], latest)
            /\ \A t \in Tasks : Chatting(task[t]) =>
                   /\ task[t].to = mem.code
                   /\ Told(posts[mem.code], got[mem.code], task[t].since)

MemberInv == TimesInv /\ MadeInv /\ PollInv

\* A call may go to s while the room and the history are as they are.
Polls(s) ==
    /\ s.at # "served" /\ s.since \in Stock
    /\ Proper(s) /\ (s.op = "chat" => mem.code # None)
    /\ Chatting(s) => s.to = mem.code /\ s.since = latest

LEMMA IdlePolls ==
    ASSUME Types
    PROVE  Polls(Idle) /\ Proper(Idle) /\ ~Chatting(Idle) /\ ~Joining(Idle, "served") /\ Made(NoKey)
<1>1. Made(NoKey)
  BY HttpAssumption DEF Made, NoKey
<1>2. Idle.at = "idle" /\ Idle.op = "none" /\ Idle.key = NoKey /\ Idle.since = 0
  BY DEF Idle
<1>3. QED
  BY <1>1, <1>2 DEF Polls, Proper, Chatting, Joining, Stock

LEMMA PollsMember ==
    ASSUME Types, MemberInv, kind = "room", NEW t \in Tasks, NEW s, Goes(t, s), Polls(s),
           serial => \A u \in Tasks \ {t} : task[u] = Idle,
           UNCHANGED <<kind, serial, clock, latest, roomVars, chatVars>>
    PROVE  MemberInv'
<1> USE DEF clock, roomVars, chatVars
<1>1. task'[t] = s /\ \A u \in Tasks \ {t} : task'[u] = task[u]
  BY DEF Goes, Types
<1>2. TimesInv'
  <2>1. \A u \in Tasks : task'[u].since \in Stock
    BY <1>1 DEF Polls, Stock
  <2>2. Stock' \subseteq Stock
    BY <2>1 DEF Stock
  <2>3. \A u \in Tasks : task'[u].at = "served" => task'[u].upto <= now
    BY <1>1 DEF Polls, MemberInv, TimesInv
  <2>4. QED
    BY <2>2, <2>3 DEF MemberInv, TimesInv
<1>3. MadeInv'
  <2>1. \A r : Proper(r)' <=> Proper(r)
    BY DEF Proper, Made, Chatting, Joining
  <2>2. \A u \in Tasks : Proper(task'[u]) /\ (task'[u].op = "chat" => mem.code # None)
    BY <1>1 DEF Polls, MemberInv, MadeInv
  <2>3. QED
    BY <2>2 DEF MemberInv, MadeInv, Proper, Made, Chatting, Joining
<1>4. PollInv'
  <2>1. Clear' = Clear
    BY DEF Clear, OneRoom
  <2>2. serial => /\ \A u, v \in Tasks : u = v \/ task'[u] = Idle \/ task'[v] = Idle
                  /\ \A u \in Tasks : Joining(task'[u], "served") => latest <= task'[u].upto
    BY <1>1 DEF Polls, MemberInv, PollInv, Joining
  <2>3. Clear /\ mem.code # None =>
            \A u \in Tasks : Chatting(task'[u]) =>
                /\ task'[u].to = mem.code
                /\ Told(posts[mem.code], got[mem.code], task'[u].since)
    BY <1>1 DEF Polls, MemberInv, PollInv
  <2>4. QED
    BY <2>1, <2>2, <2>3 DEF MemberInv, PollInv, Chatting, Joining
<1>5. QED
  BY <1>2, <1>3, <1>4 DEF MemberInv

\* The request that a call makes.
LEMMA RequestPolls ==
    ASSUME Types, MadeInv, kind = "room", NEW r \in RoomWell, r.since \in Stock,
           r.op = "chat" => mem.code # None
    PROVE  Polls(Request(r))
<1>1. r \in CallRecords
  BY DEF RoomWell, Well
<1>2. CASE r.op = "join"
  <2>1. r.to \in Codes
    BY <1>2, IdleWell, WellFacts
  <2>2. Made(Resolved(r.to))
    BY <2>1 DEF Resolved, MadeInv
  <2> DEFINE s == [r EXCEPT !.at = "sent", !.key = Resolved(r.to)]
  <2>3. s.at = "sent" /\ s.op = "join" /\ s.key = Resolved(r.to) /\ s.since = r.since
    BY <1>1, <1>2 DEF CallRecords
  <2>4. Request(r) = s
    BY <1>2 DEF Request
  <2> HIDE DEF s
  <2>5. QED
    BY <2>2, <2>3, <2>4 DEF Polls, Proper, Chatting, Joining
<1>3. CASE r.op # "join"
  <2> DEFINE s == [r EXCEPT !.at = "sent", !.to = mem.code, !.key = mem.key, !.since = latest]
  <2>1. /\ s.at = "sent" /\ s.op = r.op /\ s.key = mem.key
        /\ s.to = mem.code /\ s.since = latest
    BY <1>1 DEF CallRecords
  <2>2. Request(r) = s
    BY <1>3 DEF Request
  <2> HIDE DEF s
  <2>3. mem.code # None => mem.code \in Codes /\ issued[mem.code] # 0
    BY DEF Types, RoomTypes, MadeInv
  <2>4. latest \in Stock /\ Made(mem.key)
    BY DEF Stock, MadeInv
  <2>5. QED
    BY <1>3, <2>1, <2>2, <2>3, <2>4 DEF Polls, Proper, Chatting, Joining
<1>4. QED
  BY <1>2, <1>3

LEMMA LoginPolls ==
    ASSUME Types, NEW r \in RoomWell, r.since \in Stock, Made(r.key),
           r.op = "chat" => mem.code # None, NEW p \in {"register", "login"}
    PROVE  Polls([r EXCEPT !.at = p])
<1> DEFINE s == [r EXCEPT !.at = p]
<1>1. s.at = p /\ s.op = r.op /\ s.key = r.key /\ s.since = r.since
  BY DEF RoomWell, Well, CallRecords
<1> HIDE DEF s
<1>2. Polls(s)
  BY <1>1 DEF Polls, Proper, Chatting, Joining
<1>3. QED
  BY <1>2 DEF s

\* The calls begin, log in, are refused or lost.
LEMMA BeginsMember ==
    ASSUME Types, MemberInv, NEW t \in Tasks, NEW r \in RoomWell, Begins(t, r),
           r.since = 0, r.key = NoKey, r.op = "chat" => mem.code # None, UNCHANGED chatVars
    PROVE  MemberInv'
<1>1. kind = "room" /\ (serial => \A u \in Tasks : task[u] = Idle)
  BY DEF Begins, MayBegin, AllIdle
<1>2. UNCHANGED <<kind, serial, clock, latest, roomVars, chatVars>>
  BY DEF Begins, fixed
<1>3. r.since \in Stock /\ Made(r.key)
  BY IdlePolls DEF Stock
<1>4. CASE core = "token"
  BY <1>1, <1>2, <1>3, <1>4, RequestPolls, PollsMember DEF Begins, MemberInv
<1>5. CASE core # "token"
  <2>1. PICK p \in {"register", "login"} : Goes(t, [r EXCEPT !.at = p])
    BY <1>5 DEF Begins, SignsIn
  <2>2. QED
    BY <1>1, <1>2, <1>3, <2>1, LoginPolls, PollsMember
<1>6. QED
  BY <1>4, <1>5

LEMMA QuietMember ==
    ASSUME Types, MemberInv, kind = "room", NEW t \in Tasks, UNCHANGED chatVars,
           TokenReady(t) \/ Refused(t) \/ AnswerLost(t) \/ Common(t)
    PROVE  MemberInv'
<1>1. /\ task[t] \in RoomWell /\ task[t].since \in Stock /\ Proper(task[t])
      /\ task[t].op = "chat" => mem.code # None
  BY DEF Types, Stock, MemberInv, MadeInv
<1>2. task[t].at # "idle"
  BY DEF TokenReady, Refused, AnswerLost, Common, LoginRefused, Registered, LoginLost
<1>3. serial => \A u \in Tasks \ {t} : task[u] = Idle
  BY <1>2, IdleFollows DEF MemberInv, PollInv
<1>4. UNCHANGED <<kind, serial, clock, latest, roomVars, chatVars>>
  BY DEF TokenReady, Refused, AnswerLost, Common, Registered, LoginLost, fixed
<1>5. PICK s \in {Idle, Request(task[t]), [task[t] EXCEPT !.at = "login"]} : Goes(t, s)
  BY DEF TokenReady, Refused, AnswerLost, Common, Registered, LoginLost, Ends
<1>6. Polls(Request(task[t])) /\ Polls([task[t] EXCEPT !.at = "login"])
  BY <1>1, RequestPolls, LoginPolls DEF MemberInv, Proper
<1>7. Polls(s)
  BY <1>6, IdlePolls
<1>8. QED
  BY <1>3, <1>4, <1>5, <1>7, PollsMember

\* The server's part.
LEMMA JoinServedMember ==
    ASSUME Types, MemberInv, NEW t \in Tasks, JoinServed(t), UNCHANGED chatVars
    PROVE  MemberInv'
<1> USE DEF MemberInv
<1> DEFINE c == task[t].to
           old == task[t].key[1] = c
           k == IF old THEN task[t].key ELSE <<c, issued[c] + 1>>
           s == [task[t] EXCEPT !.at = "served", !.upto = now, !.key = k]
<1>1. /\ UNCHANGED <<kind, serial, now, posts, got, latest, keyfile, mem, file, binding>>
      /\ kind = "room" /\ task[t].at = "sent" /\ task[t].op = "join"
  BY DEF JoinServed, fixed, clock, chatVars
<1>2. c \in Codes /\ task[t] \in CallRecords
  BY <1>1, IdleWell, WellFacts DEF Types, Well
<1>3. /\ s.at = "served" /\ s.op = "join" /\ s.to = c /\ s.key = k
      /\ s.upto = now /\ s.since = task[t].since
  BY <1>1, <1>2 DEF CallRecords
<1>4. task'[t] = s /\ \A u \in Tasks \ {t} : task'[u] = task[u]
  BY DEF JoinServed, Goes, Types
<1>5. /\ issued'[c] # 0
      /\ \A d \in Codes : issued'[d] = 0 => issued[d] = 0
  <2>1. \A d \in Codes : issued[d] \in Nat
    BY DEF Types, RoomTypes
  <2>2. issued' = IF old THEN issued ELSE [issued EXCEPT ![c] = issued[c] + 1]
    BY DEF JoinServed
  <2>3. old => issued[c] # 0
    BY <1>2, <1>1 DEF MadeInv, Proper, Made
  <2>4. QED
    BY <1>2, <2>1, <2>2, <2>3 DEF Types, RoomTypes
<1>6. \A r : Made(r) => Made(r)'
  BY <1>5 DEF Made
<1>7. \A d \in Codes : k[1] = d => issued'[d] # 0
  <2>1. CASE old
    BY <1>1, <1>6, <2>1 DEF MadeInv, Proper, Made
  <2>2. CASE ~old
    BY <1>5, <2>2
  <2>3. QED
    BY <2>1, <2>2
<1> HIDE DEF s
<1>8. TimesInv'
  <2>1. Stock' = Stock
    BY <1>1, <1>3, <1>4 DEF Stock
  <2>2. \A u \in Tasks : task'[u].at = "served" => task'[u].upto <= now
    BY <1>3, <1>4, StockTypes DEF TimesInv
  <2>3. QED
    BY <1>1, <2>1, <2>2 DEF TimesInv
<1>9. MadeInv'
  <2>1. ASSUME NEW u \in Tasks, u # t PROVE Proper(task[u])'
    <3>1. task[u] \in RoomWell /\ Proper(task[u]) /\ task'[u] = task[u]
      BY <1>1, <1>4, <2>1 DEF Types, MadeInv
    <3>2. Joining(task[u], "served") => task[u].to \in Codes
      BY <3>1, IdleWell, WellFacts DEF Joining
    <3>3. Made(task[u].key)'
      BY <1>6, <3>1 DEF Proper
    <3>4. QED
      BY <1>5, <3>1, <3>2, <3>3 DEF Proper, Joining, Chatting
  <2>2. Proper(task[t])'
    BY <1>3, <1>4, <1>5, <1>7 DEF Proper, Made, Joining, Chatting
  <2>3. mem.code # None => mem.code \in Codes
    BY DEF Types, RoomTypes
  <2>4. \A u \in Tasks : task'[u].op = "chat" => mem.code # None
    BY <1>1, <1>3, <1>4 DEF MadeInv
  <2>5. \A d \in Codes : Made(keyfile[d])'
    BY <1>1, <1>6 DEF MadeInv
  <2>6. Made(mem.key)'
    BY <1>1, <1>6 DEF MadeInv
  <2>7. QED
    BY <1>1, <1>5, <2>1, <2>2, <2>3, <2>4, <2>5, <2>6 DEF MadeInv
<1>10. PollInv'
  <2>1. Clear' => Clear
    BY <1>1, <1>5 DEF Clear, OneRoom
  <2>2. task[t] # Idle
    BY <1>1, IdleFollows
  <2>3. serial => /\ \A u, v \in Tasks : u = v \/ task'[u] = Idle \/ task'[v] = Idle
                  /\ \A u \in Tasks : Joining(task'[u], "served") => latest <= task'[u].upto
    <3>1. latest <= now
      BY DEF TimesInv, Stock
    <3>2. QED
      BY <1>1, <1>3, <1>4, <2>2, <3>1 DEF PollInv
  <2>4. \A u \in Tasks : Chatting(task'[u]) => Chatting(task[u]) /\ task'[u] = task[u]
    BY <1>3, <1>4 DEF Chatting
  <2>5. QED
    BY <1>1, <2>1, <2>3, <2>4 DEF PollInv
<1>11. QED
  BY <1>8, <1>9, <1>10

LEMMA ChatServedMember ==
    ASSUME Types, MemberInv, NEW t \in Tasks, ChatServed(t), UNCHANGED chatVars
    PROVE  MemberInv'
<1> USE DEF MemberInv
<1> DEFINE c == task[t].to
<1>1. /\ UNCHANGED <<kind, serial, posts, got, latest, roomVars, file, binding>>
      /\ kind = "room" /\ task[t].at = "sent" /\ task[t].op = "chat" /\ c \in Codes
  BY DEF ChatServed, fixed, chatVars
<1>0. now \in Nat /\ now' \in Nat /\ now <= now'
  <2>1. now' = now \/ now' = now + 1
    BY DEF ChatServed
  <2>2. QED
    BY <2>1, StockTypes
<1>2. PICK n : /\ Goes(t, [task[t] EXCEPT !.at = "served", !.upto = n])
               /\ n <= now'
  <2>1. \A m \in Newest(c) : m <= now
    BY <1>1, StockTypes DEF Newest, TimesInv, Convs
  <2>2. CASE \E m \in Newest(c) : now' = now /\ Goes(t, [task[t] EXCEPT !.at = "served", !.upto = m])
    BY <2>1, <2>2
  <2>3. CASE now' = now + 1 /\ Goes(t, [task[t] EXCEPT !.at = "served", !.upto = now + 1])
    <3> DEFINE m == now + 1
    <3>1. Goes(t, [task[t] EXCEPT !.at = "served", !.upto = m]) /\ m <= now'
      BY <1>0, <2>3
    <3> HIDE DEF m
    <3>2. QED
      BY <3>1
  <2>4. QED
    BY <2>2, <2>3 DEF ChatServed
<1> DEFINE s == [task[t] EXCEPT !.at = "served", !.upto = n]
<1>3. /\ s.at = "served" /\ s.op = "chat" /\ s.to = c /\ s.key = task[t].key
      /\ s.upto = n /\ s.since = task[t].since
  BY <1>1 DEF Types, Well, CallRecords
<1>4. task'[t] = s /\ \A u \in Tasks \ {t} : task'[u] = task[u]
  BY <1>2 DEF Goes, Types
<1> HIDE DEF s
<1>5. TimesInv'
  <2>1. Stock' = Stock
    BY <1>1, <1>3, <1>4 DEF Stock
  <2>2. \A x \in Nat : x <= now => x <= now'
    BY <1>0
  <2>3. \A d \in Convs : \A x \in posts[d] : x <= now'
    BY <2>2, StockTypes DEF TimesInv
  <2>4. \A x \in Stock : x <= now'
    BY <2>2, StockTypes DEF TimesInv
  <2>5. \A u \in Tasks : task'[u].at = "served" => task'[u].upto <= now'
    <3>1. \A u \in Tasks : task[u].upto \in Times
      BY DEF Types, Well, CallRecords
    <3>2. QED
      BY <1>2, <1>3, <1>4, <2>2, <3>1, StockTypes DEF TimesInv
  <2>6. QED
    BY <1>1, <2>1, <2>3, <2>4, <2>5 DEF TimesInv
<1>6. MadeInv'
  <2>1. Proper(s)
    BY <1>1, <1>3 DEF MadeInv, Proper, Chatting, Joining
  <2>2. \A u \in Tasks : Proper(task'[u]) /\ (task'[u].op = "chat" => mem.code # None)
    BY <1>1, <1>3, <1>4, <2>1 DEF MadeInv
  <2>3. QED
    BY <1>1, <2>2 DEF MadeInv, roomVars, Proper, Made, Chatting, Joining
<1>7. PollInv'
  <2>1. Clear' = Clear
    BY <1>1 DEF Clear, OneRoom, roomVars
  <2>2. task[t] # Idle
    BY <1>1, IdleFollows
  <2>3. ~Joining(s, "served")
    BY <1>3 DEF Joining
  <2>4. \A u \in Tasks : Chatting(task'[u]) =>
            Chatting(task[u]) /\ task'[u].to = task[u].to /\ task'[u].since = task[u].since
    BY <1>1, <1>3, <1>4 DEF Chatting
  <2>5. QED
    BY <1>1, <1>4, <2>1, <2>2, <2>3, <2>4 DEF PollInv, roomVars
<1>8. QED
  BY <1>5, <1>6, <1>7

LEMMA ToldBefore ==
    ASSUME NEW P, NEW G, NEW m \in Nat, NEW n \in Nat, Told(P, G, m), n <= m, P \subseteq Nat
    PROVE  Told(P, G, n)
BY DEF Told

\* The answer to a join: with the history or, if there is none, with the time of the
\* room before, it is the time of this room.
LEMMA JoinReceivedMember ==
    ASSUME Types, MemberInv, NEW t \in Tasks, JoinReceived(t), UNCHANGED chatVars
    PROVE  MemberInv'
<1> USE DEF MemberInv
<1> DEFINE r == task[t]
           c == r.to
           history == Between(c, 0, r.upto)
<1>1. /\ UNCHANGED <<kind, serial, now, posts, issued, file, binding>>
      /\ kind = "room" /\ Joining(r, "served") /\ mem' = [code |-> c, key |-> r.key]
      /\ Hands(c, 0, r.upto)
  BY DEF JoinReceived, fixed, chatVars, Joining
<1>2. /\ c \in Codes /\ c \in Convs /\ c # None /\ issued[c] # 0 /\ Made(r.key) /\ r \in Well
      /\ r.upto \in Nat /\ r.upto \in Times /\ r.upto <= now
  BY <1>1, IdleWell, WellFacts, StockTypes, HttpAssumption
  DEF Types, Convs, MadeInv, Proper, Joining, TimesInv
<1>3. \A u \in Tasks : task'[u] = IF u = t THEN Idle ELSE task[u]
  BY DEF JoinReceived, Ends, Goes, Types
<1>4. IF history = {} THEN latest' = latest ELSE latest' \in history
  BY DEF JoinReceived
<1>5. TimesInv'
  <2>1. \A u \in Tasks : task'[u].since \in Stock
    BY <1>3, IdleFollows DEF Stock
  <2>2. latest' <= now
    BY <1>2, <1>4 DEF TimesInv, Stock, Between
  <2>3. Stock' = {0, latest', file.ts, binding.ts} \union {task'[u].since : u \in Tasks}
    BY <1>1 DEF Stock
  <2>4. \A n \in Stock' : n \in Stock \/ n = latest'
    BY <2>1, <2>3 DEF Stock
  <2>5. \A u \in Tasks : task'[u].at = "served" => task'[u].upto <= now
    BY <1>3, IdleFollows DEF TimesInv
  <2>6. QED
    BY <1>1, <2>2, <2>4, <2>5 DEF TimesInv
<1>6. MadeInv'
  <2>1. \A k : Made(k) => Made(k)'
    BY <1>1 DEF Made
  <2>2. \A d \in Codes : Made(keyfile'[d])
    BY <1>2, <1>1 DEF JoinReceived, SaveKey, MadeInv, Types, RoomTypes
  <2>3. \A u \in Tasks : Proper(task'[u])
    BY <1>1, <1>3, IdlePolls DEF MadeInv
  <2>4. mem'.code = c /\ mem'.key = r.key
    BY <1>1
  <2>5. QED
    BY <1>1, <1>2, <2>2, <2>3, <2>4 DEF MadeInv, Proper, Made, Chatting, Joining
<1>7. PollInv'
  <2> DEFINE P == posts[c]
             G == got'[c]
  <2>1. serial => \A u \in Tasks : task'[u] = Idle
    <3>1. r # Idle
      BY <1>1, IdleFollows DEF Joining
    <3>2. QED
      BY <1>1, <1>3, <3>1 DEF PollInv
  <2>2. got[c] \subseteq G
    BY <1>1, <1>2 DEF Hands, Types, HttpTypes
  <2>3. P \subseteq Nat /\ latest \in Nat
    BY <1>2, StockTypes DEF Stock
  <2>4. Told(P, G, r.upto)
    BY <1>1, <1>2, ToldZero, HandedTold
  <2>5. ASSUME Clear', mem.code # None PROVE (mem.code = c /\ Clear) \/ serial
    <3>1. mem.code \in Codes /\ issued[mem.code] # 0
      BY <1>1, <2>5 DEF MadeInv, Types, RoomTypes
    <3>2. CASE OneRoom'
      BY <1>1, <1>2, <3>1, <3>2 DEF OneRoom, Clear
    <3>3. QED
      BY <1>1, <2>5, <3>2 DEF Clear
  <2>6. ASSUME Clear' PROVE Told(P, G, latest')
    <3>1. CASE history # {}
      <4>1. latest' \in Nat /\ latest' <= r.upto
        BY <1>2, <1>4, <2>3, <3>1 DEF Between
      <4>2. QED
        BY <1>2, <2>3, <2>4, <4>1, ToldBefore
    <3>2. CASE history = {}
      <4>1. latest' = latest
        BY <1>4, <3>2
      <4>2. CASE mem.code = None
        <5>1. latest = 0
          BY <1>1, <4>2 DEF MadeInv
        <5>2. QED
          BY <1>2, <2>2, <4>1, <5>1, ToldZero, StaysTold
      <4>3. CASE serial
        <5>1. latest <= r.upto
          BY <1>1, <4>3 DEF PollInv
        <5>2. QED
          BY <1>2, <2>3, <2>4, <4>1, <5>1, ToldBefore
      <4>4. CASE mem.code = c /\ Clear
        <5>1. Told(P, got[c], latest)
          BY <1>1, <1>2, <4>4 DEF PollInv
        <5>2. QED
          BY <2>2, <4>1, <5>1, StaysTold
      <4>5. QED
        BY <2>5, <2>6, <4>2, <4>3, <4>4
    <3>3. QED
      BY <3>1, <3>2
  <2>7. ASSUME Clear', NEW u \in Tasks, Chatting(task'[u])
        PROVE  task'[u].to = c /\ Told(P, G, task'[u].since)
    <3>1. task'[u] # Idle
      BY <2>7, IdlePolls
    <3>2. ~serial /\ task'[u] = task[u] /\ u # t
      BY <1>3, <2>1, <3>1
    <3>3. mem.code # None
      BY <1>1, <2>7, <3>2 DEF MadeInv, Chatting
    <3>4. mem.code = c /\ Clear
      BY <2>5, <2>7, <3>2, <3>3
    <3>5. task[u].to = c /\ Told(P, got[c], task[u].since)
      BY <1>1, <1>2, <2>7, <3>2, <3>4 DEF PollInv
    <3>6. QED
      BY <2>2, <3>2, <3>5, StaysTold
  <2>8. mem'.code = c
    BY <1>1
  <2>9. serial => \A u \in Tasks : ~Joining(task'[u], "served")
    BY <2>1, IdlePolls
  <2> HIDE DEF P, G
  <2>10. P = posts'[mem'.code] /\ G = got'[mem'.code]
    BY <1>1, <2>8 DEF P, G
  <2>11. QED
    BY <1>1, <2>1, <2>6, <2>7, <2>8, <2>9, <2>10 DEF PollInv
<1>8. QED
  BY <1>5, <1>6, <1>7

LEMMA ChatReceivedMember ==
    ASSUME Types, MemberInv, NEW t \in Tasks, ChatReceived(t), UNCHANGED chatVars
    PROVE  MemberInv'
<1> USE DEF MemberInv
<1> DEFINE r == task[t]
<1>1. /\ UNCHANGED <<kind, serial, now, posts, roomVars, file, binding>>
      /\ kind = "room" /\ Chatting(r) /\ r.at = "served"
      /\ Hands(r.to, r.since, r.upto)
      /\ latest' \in {latest, r.upto}
  BY DEF ChatReceived, fixed, chatVars, Chatting
<1>2. /\ r.to \in Codes /\ r.to \in Convs /\ r \in Well /\ mem.code # None
      /\ r.upto \in Nat /\ r.since \in Nat /\ r.upto <= now
  BY <1>1, WellFacts, StockTypes DEF Types, Convs, MadeInv, Proper, TimesInv, Chatting
<1>3. \A u \in Tasks : task'[u] = IF u = t THEN Idle ELSE task[u]
  BY DEF ChatReceived, Ends, Goes, Types
<1>4. TimesInv'
  <2>1. \A u \in Tasks : task'[u].since \in Stock
    BY <1>3, IdleFollows DEF Stock
  <2>2. latest' <= now
    BY <1>1, <1>2 DEF TimesInv, Stock
  <2>3. Stock' = {0, latest', file.ts, binding.ts} \union {task'[u].since : u \in Tasks}
    BY <1>1 DEF Stock
  <2>4. \A n \in Stock' : n \in Stock \/ n = latest'
    BY <2>1, <2>3 DEF Stock
  <2>5. \A u \in Tasks : task'[u].at = "served" => task'[u].upto <= now
    BY <1>3, IdleFollows DEF TimesInv
  <2>6. QED
    BY <1>1, <2>2, <2>4, <2>5 DEF TimesInv
<1>5. MadeInv'
  <2>1. \A u \in Tasks : Proper(task'[u])
    BY <1>1, <1>3, IdlePolls DEF MadeInv
  <2>2. QED
    BY <1>1, <1>2, <2>1 DEF MadeInv, roomVars, Proper, Made, Chatting, Joining
<1>6. PollInv'
  <2>1. serial => \A u \in Tasks : task'[u] = Idle
    <3>1. r # Idle
      BY <1>1, IdlePolls
    <3>2. QED
      BY <1>1, <1>3, <3>1 DEF PollInv
  <2>2. serial => \A u \in Tasks : ~Joining(task'[u], "served")
    BY <2>1, IdlePolls
  <2>3. Clear' = Clear /\ mem' = mem
    BY <1>1 DEF Clear, OneRoom, roomVars
  <2>4. ASSUME Clear
        PROVE  /\ Told(posts'[mem.code], got'[mem.code], latest')
               /\ \A u \in Tasks : Chatting(task'[u]) =>
                    /\ task'[u].to = mem.code
                    /\ Told(posts'[mem.code], got'[mem.code], task'[u].since)
    <3>1. r.to = mem.code /\ Told(posts[mem.code], got[mem.code], r.since)
      BY <1>1, <1>2, <2>4 DEF PollInv
    <3>2. Told(posts'[mem.code], got'[mem.code], r.upto)
      BY <1>1, <1>2, <3>1, HandedTold
    <3>3. got[mem.code] \subseteq got'[mem.code]
      BY <1>1, <1>2, <3>1 DEF Hands, Types, HttpTypes
    <3>4. \A n : Told(posts[mem.code], got[mem.code], n) => Told(posts'[mem.code], got'[mem.code], n)
      BY <1>1, <3>3, StaysTold
    <3>5. Told(posts'[mem.code], got'[mem.code], latest')
      BY <1>1, <1>2, <2>4, <3>2, <3>4 DEF PollInv
    <3>6. \A u \in Tasks : Chatting(task'[u]) => Chatting(task[u]) /\ task'[u] = task[u]
      BY <1>3, IdlePolls
    <3>7. QED
      BY <1>1, <1>2, <2>4, <3>4, <3>5, <3>6 DEF PollInv
  <2>5. QED
    BY <1>1, <2>1, <2>2, <2>3, <2>4 DEF PollInv
<1>7. QED
  BY <1>4, <1>5, <1>6

LEMMA RestartMember ==
    ASSUME Types, MemberInv, Restart, UNCHANGED chatVars
    PROVE  MemberInv'
<1> USE DEF MemberInv
<1>1. /\ UNCHANGED <<kind, serial, now, posts, got, issued, file, binding>>
      /\ kind = "room" /\ mem' = Outside /\ latest' = 0 /\ \A t \in Tasks : task'[t] = Idle
  BY DEF Restart, fixed, clock, chatVars
<1>2. TimesInv'
  <2>1. Stock' = {0, latest', file.ts, binding.ts} \union {task'[u].since : u \in Tasks}
    BY <1>1 DEF Stock
  <2>2. \A n \in Stock' : n \in Stock
    BY <1>1, <2>1, IdleFollows DEF Stock
  <2>3. QED
    BY <1>1, <2>2, IdleFollows DEF TimesInv
<1>3. Outside.code = None /\ Outside.key = NoKey
  BY DEF Outside
<1>4. \A d \in Codes : Made(keyfile'[d])
  BY <1>1, IdlePolls DEF Restart, SaveKey, MadeInv
<1>5. MadeInv'
  BY <1>1, <1>3, <1>4, IdlePolls, IdleFollows DEF MadeInv, Proper, Made, Chatting, Joining
<1>6. PollInv'
  BY <1>1, <1>3, IdlePolls DEF PollInv
<1>7. QED
  BY <1>2, <1>5, <1>6

\* A step of the room client, and what the others in the room say.
LEMMA RoomMember ==
    ASSUME Types, MemberInv, kind = "room", UNCHANGED chatVars,
           RoomNext \/ \E t \in Tasks : Common(t)
    PROVE  MemberInv'
<1>1. ASSUME NEW t \in Tasks, NEW c \in Codes, Join(t, c) \/ JoinSync(t, c) PROVE MemberInv'
  <2> DEFINE r == Call("join", c)
  <2>1. r.since = 0 /\ r.key = NoKey /\ r.op = "join"
    BY DEF Call, Idle
  <2>2. r \in RoomWell /\ Begins(t, r)
    BY <1>1, CallWell DEF Join, JoinSync
  <2> HIDE DEF r
  <2>3. QED
    BY <2>1, <2>2, BeginsMember
<1>2. ASSUME NEW t \in Tasks, Chat(t) \/ ChatSync(t) PROVE MemberInv'
  <2> DEFINE r == Call("chat", None)
  <2>1. r.since = 0 /\ r.key = NoKey /\ r.op = "chat"
    BY DEF Call, Idle
  <2>2. r \in RoomWell /\ Begins(t, r) /\ mem # Outside
    BY <1>2, CallWell DEF Chat, ChatSync
  <2>3. mem.code # None
    BY <2>2 DEF MemberInv, MadeInv
  <2> HIDE DEF r
  <2>4. QED
    BY <2>1, <2>2, <2>3, BeginsMember
<1>3. ASSUME NEW t \in Tasks,
             \/ TokenReady(t) \/ Refused(t) \/ AnswerLost(t) \/ Common(t)
             \/ JoinServed(t) \/ JoinReceived(t) \/ ChatServed(t) \/ ChatReceived(t)
      PROVE  MemberInv'
  BY <1>3, QuietMember, JoinServedMember, JoinReceivedMember, ChatServedMember, ChatReceivedMember
<1>4. CASE Restart
  BY <1>4, RestartMember
<1>5. QED
  BY <1>1, <1>2, <1>3, <1>4 DEF RoomNext

LEMMA SaidMember ==
    ASSUME Types, MemberInv, TimesInv', NEW c \in Convs, Say(c), UNCHANGED roomVars, kind = "room"
    PROVE  MemberInv'
<1> USE DEF MemberInv
<1>1. /\ UNCHANGED <<kind, serial, got, latest, task, issued, keyfile, mem>>
      /\ now' = now + 1
      /\ posts'[c] = posts[c] \union {now'}
      /\ \A d \in Convs \ {c} : posts'[d] = posts[d]
  BY DEF Say, roomVars, fixed, Types, HttpTypes
<1>2. ASSUME NEW d \in Convs, NEW G, NEW n \in Stock, Told(posts[d], G, n)
      PROVE  Told(posts'[d], G, n)
  <2>1. n <= now /\ n \in Nat /\ now \in Nat
    BY StockTypes DEF TimesInv
  <2>2. ~(now' <= n)
    BY <1>1, <2>1
  <2>3. QED
    BY <1>1, <1>2, <2>2 DEF Told
<1>3. MadeInv'
  BY <1>1 DEF MadeInv, Proper, Made, Chatting, Joining
<1>4. PollInv'
  <2>1. latest \in Stock /\ \A u \in Tasks : task[u].since \in Stock
    BY DEF Stock
  <2>2. mem.code # None => mem.code \in Convs
    BY DEF Types, RoomTypes, Convs
  <2>3. Clear' = Clear
    BY <1>1 DEF Clear, OneRoom
  <2>4. QED
    BY <1>1, <1>2, <2>1, <2>2, <2>3 DEF PollInv, Chatting, Joining
<1>5. QED
  BY <1>3, <1>4

-----------------------------------------------------------------------------
\* Both clients together.
HistoryInv == TInv /\ ClientInv /\ MemberInv

\* Which invariants ask nothing of which client.
LEMMA Foreign ==
    /\ kind = "room" => SoleInv /\ CalmInv /\ ShellInv
    /\ kind # "room" => MadeInv /\ PollInv
BY DEF SoleInv, CalmInv, ShellInv, Trusted, MadeInv, PollInv

LEMMA ForeignNext ==
    /\ kind' = "room" => SoleInv' /\ CalmInv' /\ ShellInv'
    /\ kind' # "room" => MadeInv' /\ PollInv'
BY DEF SoleInv, CalmInv, ShellInv, Trusted, MadeInv, PollInv

LEMMA HistoryStep ==
    HistoryInv /\ [Next]_vars => HistoryInv'
<1> SUFFICES ASSUME HistoryInv, [Next]_vars PROVE HistoryInv'
  OBVIOUS
<1>0. TInv /\ TInv' /\ Types /\ ClientInv /\ MemberInv /\ kind' = kind
  BY TypeStep, SpokenTo DEF HistoryInv, TInv
<1>1. CASE kind # "room"
  <2>1. ASSUME ClientInv' PROVE HistoryInv'
    BY <1>0, <1>1, <2>1, ForeignNext DEF HistoryInv, MemberInv, ClientInv
  <2>2. CASE ChatNext \/ \E t \in Tasks : Common(t)
    BY <1>0, <1>1, <2>1, <2>2, ChatTold
  <2>3. CASE UNCHANGED vars
    <3>1. /\ UNCHANGED <<kind, serial, safe, waits, now, posts, got, spoke, task, latest>>
          /\ UNCHANGED <<file, binding, bound, shell>>
      BY <2>3 DEF vars, httpVars, chatVars
    <3>2. TimesInv'
      BY <1>0, <3>1 DEF ClientInv, TimesInv, Stock
    <3>3. SoleInv'
      BY <1>0, <3>1 DEF ClientInv, SoleInv, Stock, Trusted, Sole, Heard
    <3>4. CalmInv'
      BY <1>0, <3>1 DEF ClientInv, CalmInv, Stamps, Trusted, Counted, Waiting
    <3>5. ShellInv'
      BY <1>0, <3>1 DEF ClientInv, ShellInv
    <3>6. QED
      BY <2>1, <3>2, <3>3, <3>4, <3>5 DEF ClientInv
  <2>4. ~RoomNext /\ \A c \in Codes : ~RoomSays(c)
    BY <1>1 DEF RoomNext, RoomSays, Join, JoinSync, Chat, ChatSync, Begins, TokenReady, Refused,
                JoinServed, JoinReceived, ChatServed, ChatReceived, AnswerLost, Restart
  <2>5. QED
    BY <2>2, <2>3, <2>4 DEF Next
<1>2. CASE kind = "room"
  <2>1. ASSUME MemberInv' PROVE HistoryInv'
    BY <1>0, <1>2, <2>1, ForeignNext DEF HistoryInv, MemberInv, ClientInv
  <2>2. CASE UNCHANGED chatVars /\ (RoomNext \/ \E t \in Tasks : Common(t))
    BY <1>0, <1>2, <2>1, <2>2, RoomMember
  <2>3. ASSUME UNCHANGED <<httpVars, roomVars, file, binding>> PROVE MemberInv'
    BY <1>0, <2>3
    DEF httpVars, roomVars, MemberInv, TimesInv, MadeInv, PollInv, Stock, Made, Proper, Chatting,
        Joining, Clear, OneRoom, Idle, Outside
  <2>4. CASE UNCHANGED vars
    BY <2>1, <2>3, <2>4 DEF vars, chatVars
  <2>5. ASSUME NEW c \in Codes, RoomSays(c) PROVE HistoryInv'
    <3>1. Say(c) /\ UNCHANGED <<roomVars, chatVars>> /\ c \in Convs
      BY <2>5 DEF RoomSays, Convs
    <3>2. TimesInv'
      BY <1>0, <3>1, SaidTold DEF ClientInv
    <3>3. QED
      BY <1>0, <1>2, <2>1, <3>1, <3>2, SaidMember
  <2>6. CASE ChatNext /\ UNCHANGED roomVars
    <3>1. ~shell
      BY <1>0, <1>2 DEF TInv
    <3>2. PICK o \in Owners : OwnerAccepts(o)
      BY <1>2, <2>6, <3>1
      DEF ChatNext, Begin, Command, SignedIn, Rejected, SetupServed, FriendAsked, UnbindServed,
          Uploaded, FriendsAnswered, Answered, Received, Lost, OpenShell, CloseShell, Close,
          Relaunch, OwnerSays
    <3>3. UNCHANGED <<httpVars, roomVars, file, binding>>
      BY <2>6, <3>2 DEF OwnerAccepts, record
    <3>4. QED
      BY <2>1, <2>3, <3>3
  <2>7. QED
    BY <2>2, <2>4, <2>5, <2>6 DEF Next, Common
<1>3. QED
  BY <1>1, <1>2

LEMMA HistoryInit == Init => HistoryInv
<1> SUFFICES ASSUME Init PROVE HistoryInv
  OBVIOUS
<1>1. TInv
  BY TypeInit
<1>2. /\ now = 0 /\ latest = 0 /\ binding = file
      /\ \A t \in Tasks : task[t] = Idle
      /\ \A c \in Convs : posts[c] = {}
  BY DEF Init, HttpInit, ChatInit
<1>3. file.ts = 0
  <2>1. CASE file = Unbound
    BY <2>1 DEF Unbound
  <2>2. CASE \E o \in Owners : file = [Bound(o) EXCEPT !.key = TRUE]
    BY <2>2 DEF Bound, Unbound
  <2>3. QED
    BY <2>1, <2>2 DEF Init, ChatInit
<1>4. Stock = {0}
  BY <1>2, <1>3, IdleFollows DEF Stock
<1>5. TimesInv
  BY <1>2, <1>4, IdleFollows DEF TimesInv
<1>6. SoleInv
  BY <1>2, IdleFollows DEF SoleInv, Told, Convs
<1>7. CalmInv
  <2>1. bound # None => bound \in Convs
    BY <1>1 DEF TInv, Types, ChatTypes, Convs
  <2>2. \A t \in Tasks : ~Counted(task[t])
    BY <1>2, IdleFollows DEF Counted
  <2>3. QED
    BY <1>2, <2>1, <2>2 DEF CalmInv, Told
<1>8. ShellInv
  BY <1>2, IdleFollows DEF ShellInv
<1>9. MadeInv /\ PollInv
  <2>1. mem = Outside /\ mem.code = None /\ mem.key = NoKey /\ \A c \in Codes : keyfile[c] = NoKey
    BY DEF Init, RoomInit, Outside
  <2>2. QED
    BY <1>1, <1>2, <2>1, IdlePolls, IdleFollows DEF MadeInv, PollInv, TInv
<1>10. QED
  BY <1>1, <1>5, <1>6, <1>7, <1>8, <1>9 DEF HistoryInv, ClientInv, MemberInv

\* Whoever polls from latest_timestamp has been given everything that was said before,
\* for any number of rooms, owners, messages and overlapping calls, under the conditions
\* that NothingSkipped names for each client.
THEOREM NothingIsSkipped ==
    Spec => []NothingSkipped
<1>1. HistoryInv => NothingSkipped
  <2> SUFFICES ASSUME HistoryInv PROVE NothingSkipped
    OBVIOUS
  <2>1. Types /\ SoleInv /\ CalmInv /\ MadeInv /\ PollInv
    BY DEF HistoryInv, ClientInv, MemberInv, TInv
  <2>2. \A c, n : Told(posts[c], got[c], n) <=> Seen(c, n)
    BY DEF Told, Seen
  <2>3. kind = "room" /\ mem # Outside /\ (serial \/ OneRoom) => Seen(mem.code, latest)
    BY <2>1, <2>2 DEF MadeInv, PollInv, Clear
  <2>4. ASSUME bound # None, OneOwner PROVE Sole /\ bound \in Owners
    BY <2>1, <2>4 DEF OneOwner, Sole, Heard, Types, ChatTypes
  <2>5. latest \in Stock /\ file.ts \in Stock
    BY DEF Stock
  <2>6. ASSUME \A t \in Tasks : task[t].op # "bind" PROVE ~Waiting
    BY <2>1, <2>6, WellFacts DEF Types, Waiting
  <2>7. AllIdle => ~Waiting
    BY IdleFollows DEF AllIdle, Waiting
  <2>8. kind = "owner" /\ bound # None
        /\ (OneOwner \/ (safe /\ \A t \in Tasks : task[t].op # "bind")) => Seen(bound, latest)
    BY <2>1, <2>2, <2>4, <2>5, <2>6 DEF SoleInv, CalmInv, Trusted, Stamps
  <2>9. kind = "cli" /\ bound # None /\ waits /\ (OneOwner \/ (safe /\ AllIdle))
        => Seen(bound, file.ts)
    BY <2>1, <2>2, <2>4, <2>5, <2>7 DEF SoleInv, CalmInv, Trusted, Stamps
  <2>10. QED
    BY <2>3, <2>8, <2>9 DEF NothingSkipped
<1>2. QED
  BY <1>1, HistoryInit, HistoryStep, PTL DEF Spec
=============================================================================
