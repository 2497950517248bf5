------------------------------ MODULE RoomClient ------------------------------
(***************************************************************************)
(* AICQAgentClient and the key files of ephemeral rooms (aicq/core.py).    *)
(* The server gives each new member of a room a private key; whoever joins *)
(* with that key is the same member again.  The client looks for a key in  *)
(* its memory, then in the file of the invite code.                        *)
(* An explicit private_key, which takes precedence, is left out.           *)
(***************************************************************************)
EXTENDS HttpClient

VARIABLES
    share,    \* the codes differ in case only, and so have one file: fixed
    issued,   \* issued[c]: how many members of room c the server made for us
    keyfile,  \* keyfile[c]: the key in the file of code c
    mem       \* invite_code and private_key of the client

roomVars == <<share, issued, keyfile, mem>>

Keys == {<<c, n>> : c \in Codes, n \in 1..2}
Outside == [code |-> None, key |-> NoKey]

RoomInit ==
    /\ share \in BOOLEAN
    /\ issued = [c \in Codes |-> 0]
    /\ keyfile = [c \in Codes |-> NoKey]
    /\ mem = Outside

\* _ephemeral_key_path makes the code lower case.
SameFile(c, d) == c = d \/ share

\* Mutation of Resolved: the memory is used for every code.
ResolvedFirst(c) == IF mem.key # NoKey THEN mem.key ELSE keyfile[c]

Resolved(c) == IF mem.code = c THEN mem.key ELSE keyfile[c]

\* _save_ephemeral_key; k is NoKey when the process dies in the middle of it.
SaveKey(c, k) == keyfile' = [d \in Codes |-> IF SameFile(c, d) THEN k ELSE keyfile[d]]

\* The request that a call makes once it has a token.
Request(call) ==
    IF call.op = "join"
      THEN [call EXCEPT !.at = "sent", !.key = Resolved(call.to)]
      ELSE [call EXCEPT !.at = "sent", !.to = mem.code, !.key = mem.key, !.since = latest]

Begins(t, call) ==
    /\ kind = "room" /\ MayBegin(t)
    /\ IF core = "token" THEN Goes(t, Request(call)) /\ agent' = agent ELSE SignsIn(t, call)
    /\ UNCHANGED <<fixed, clock, core, latest, roomVars>>

Join(t, c) == ~serial /\ Begins(t, Call("join", c))
JoinSync(t, c) == serial /\ Begins(t, Call("join", c))
Chat(t) == ~serial /\ mem # Outside /\ Begins(t, Call("chat", None))
ChatSync(t) == serial /\ mem # Outside /\ Begins(t, Call("chat", None))

TokenReady(t) ==
    /\ kind = "room" /\ task[t].at = "login" /\ agent = "account"
    /\ core' = "token"
    /\ Goes(t, Request(task[t]))
    /\ UNCHANGED <<fixed, clock, agent, latest, roomVars>>

\* A failed login raises, as does a request that the server refuses.
Refused(t) ==
    /\ kind = "room"
    /\ LoginRefused(t) \/ task[t].at = "sent"
    /\ Ends(t)
    /\ UNCHANGED <<fixed, clock, agent, core, latest, roomVars>>

\* The server: a key of this room brings back its member, and no key makes a
\* new one.  What a foreign key does is not known: refused, or a new member.
JoinServed(t) ==
    LET c == task[t].to
        k == task[t].key
        old == k[1] = c
    IN /\ kind = "room" /\ task[t].at = "sent" /\ task[t].op = "join"
       /\ old \/ issued[c] < 2
       /\ issued' = IF old THEN issued ELSE [issued EXCEPT ![c] = @ + 1]
       /\ Goes(t, [task[t] EXCEPT !.at = "served", !.upto = now,
                                  !.key = IF old THEN k ELSE <<c, issued[c] + 1>>])
       /\ UNCHANGED <<fixed, clock, agent, core, latest, share, keyfile, mem>>

\* Mutation of JoinReceived: the client takes the time from its own clock.
JoinReceivedNow(t) ==
    LET r == task[t] IN
    /\ kind = "room" /\ r.at = "served" /\ r.op = "join"
    /\ mem' = [code |-> r.to, key |-> r.key]
    /\ Hands(r.to, 0, r.upto)
    /\ latest' = now
    /\ SaveKey(r.to, r.key)
    /\ Ends(t)
    /\ UNCHANGED <<fixed, now, posts, agent, core, share, issued>>

\* The answer: the state of the client, the history, the file.  An error in
\* writing the file is swallowed.
JoinReceived(t) ==
    LET r == task[t]
        history == Between(r.to, 0, r.upto)
    IN /\ kind = "room" /\ r.at = "served" /\ r.op = "join"
       /\ mem' = [code |-> r.to, key |-> r.key]
       /\ Hands(r.to, 0, r.upto)
       /\ latest' \in IF history = {} THEN {latest}
                     ELSE {x \in history : \A y \in history : y <= x}
       /\ SaveKey(r.to, r.key) \/ (~safe /\ UNCHANGED keyfile)
       /\ Ends(t)
       /\ UNCHANGED <<fixed, now, posts, agent, core, share, issued>>

\* The server answers a chat, with or without a message of ours.
ChatServed(t) ==
    LET c == task[t].to IN
    /\ kind = "room" /\ task[t].at = "sent" /\ task[t].op = "chat" /\ c \in Codes
    /\ \/ now' = now /\ \E n \in Newest(c) : Goes(t, [task[t] EXCEPT !.at = "served", !.upto = n])
       \/ /\ now < MaxTime /\ now' = now + 1
          /\ Goes(t, [task[t] EXCEPT !.at = "served", !.upto = now + 1])
    /\ UNCHANGED <<fixed, posts, got, agent, core, latest, roomVars>>

ChatReceived(t) ==
    LET r == task[t] IN
    /\ kind = "room" /\ r.at = "served" /\ r.op = "chat"
    /\ Hands(r.to, r.since, r.upto)
    /\ latest' = IF r.upto > r.since THEN r.upto ELSE latest
    /\ Ends(t)
    /\ UNCHANGED <<fixed, now, posts, agent, core, roomVars>>

\* A timeout: the server may have acted.
AnswerLost(t) ==
    /\ kind = "room" /\ ~safe /\ task[t].at = "served"
    /\ Ends(t)
    /\ UNCHANGED <<fixed, clock, agent, core, latest, roomVars>>

\* The process ends, perhaps while it writes a key file, and another starts.
Restart ==
    /\ kind = "room" /\ (safe => AllIdle)
    /\ core' = "none" /\ latest' = 0 /\ mem' = Outside
    /\ task' = [t \in Tasks |-> Idle]
    /\ \/ UNCHANGED keyfile
       \/ \E t \in Tasks : /\ task[t].at = "served" /\ task[t].op = "join"
                           /\ SaveKey(task[t].to, NoKey)
    /\ UNCHANGED <<fixed, clock, agent, share, issued>>

RoomNext ==
    \/ \E t \in Tasks :
        \/ \E c \in Codes : Join(t, c) \/ JoinSync(t, c)
        \/ Chat(t) \/ ChatSync(t)
        \/ TokenReady(t) \/ Refused(t)
        \/ JoinServed(t) \/ JoinReceived(t)
        \/ ChatServed(t) \/ ChatReceived(t) \/ AnswerLost(t)
    \/ Restart

=============================================================================
