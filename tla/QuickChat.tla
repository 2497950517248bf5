------------------------------ MODULE QuickChat ------------------------------
(***************************************************************************)
(* AICQChatClient and the quickchat commands (aicq/quickchat.py): an agent *)
(* binds itself to a human owner, asks for friendship, and chats once the  *)
(* owner has accepted.  Three things must agree: the owner the server has  *)
(* bound (to whom a chat goes), the binding in the memory of the client    *)
(* (whose friendship is checked) and the binding file (read by the next    *)
(* process; the commands also keep their latest_timestamp in it).          *)
(* A command is a process of its own; the interactive chat is one process  *)
(* for many calls.  The API client is one process, its calls may overlap.  *)
(***************************************************************************)
EXTENDS HttpClient

VARIABLES
    waits,    \* the send commands get --wait, and so print what is returned: fixed
    bound,    \* the owner that the server has bound to the agent
    asked,    \* the owners with a request for friendship
    friend,   \* those who accepted
    rows,     \* the friends in the database of the SDK
    spoke,    \* the owners to whom something was said
    file,     \* quickchat.json: the owner, a private_key (written by older
              \*   versions, demanded by the commands), latest_timestamp
    binding,  \* _binding
    shell     \* the interactive chat is running

chatVars == <<waits, bound, asked, friend, rows, spoke, file, binding, shell>>
server == <<bound, asked, friend, spoke>>
record == <<waits, file, binding, shell>>

Unbound == [owner |-> None, key |-> FALSE, ts |-> 0]
Bound(o) == [Unbound EXCEPT !.owner = o]

ChatInit ==
    /\ waits \in BOOLEAN
    /\ \/ bound = None /\ friend = {} /\ file = Unbound
       \/ \E o \in Owners : /\ bound = o /\ friend = {o}
                            /\ file = [Bound(o) EXCEPT !.key = TRUE]
    /\ asked = friend /\ rows = {} /\ spoke = {}
    /\ binding = file
    /\ shell = FALSE

-----------------------------------------------------------------------------
\* The stations of a call.

\* The request to chat; "since" comes from the file or from the chat client.
Sent(call, n) ==
    [call EXCEPT !.at = "sent",
                 !.since = IF kind = "cli" THEN binding.ts ELSE IF call.live THEN n ELSE @]

\* Mutation of Asks: the friendship is checked for the first message only.
AsksOnce(call, n) ==
    IF call.op = "speak" /\ binding.owner # None /\ spoke = {}
      THEN [call EXCEPT !.at = "friends", !.to = binding.owner, !.since = n]
      ELSE Sent(call, n)

\* _chat_full: who speaks is first checked to be a friend of the owner.
Asks(call, n) ==
    IF call.op = "speak" /\ binding.owner # None
      THEN [call EXCEPT !.at = "friends", !.to = binding.owner, !.since = n]
      ELSE Sent(call, n)

\* What a call does once there is a core c.
Station(call, c, n) ==
    CASE call.op \in {"init", "status"} -> Idle
      [] call.op \in {"bind", "file"} /\ c = "anon" -> Idle
      [] call.op = "bind" -> [call EXCEPT !.at = "setup"]
      [] call.op = "file" -> [call EXCEPT !.at = "upload"]
      [] call.op = "unbind" -> [call EXCEPT !.at = "unbind"]
      [] OTHER -> Asks(call, n)

\* The chat client is replaced; calls under way go on with the old one.
Dropped == [t \in Tasks |-> IF task[t].at \in {"friends", "sent", "served"}
                              THEN [task[t] EXCEPT !.live = FALSE,
                                      !.since = IF task[t].at = "friends" THEN latest ELSE @]
                              ELSE task[t]]

\* Call t goes on with a core c, and with a new chat client if fresh.
Proceeds(t, call, c, fresh) ==
    /\ core' = c
    /\ latest' = IF fresh THEN 0 ELSE latest
    /\ task' = [(IF fresh THEN Dropped ELSE task)
                  EXCEPT ![t] = Station(call, c, IF fresh THEN 0 ELSE latest)]
    /\ agent' = agent

\* _ensure_core and _ensure_agent.  A client without a token is not used again.
Starts(t, call) ==
    IF core = "none" \/ call.op = "init"
      THEN SignsIn(t, call) /\ UNCHANGED <<core, latest>>
      ELSE LET chats == call.op \in {"speak", "listen"} IN
           Proceeds(t, call, IF chats /\ core = "late" THEN "token" ELSE core,
                    chats /\ core # "token")

Calls == [op : {"init", "status", "unbind", "speak", "listen", "file"}, to : {None}]
         \union [op : {"bind"}, to : Owners]

\* A method of the API client, or a line of the interactive chat.
Begin(t, c) ==
    /\ kind = "owner" \/ (shell /\ c.op = "speak")
    /\ MayBegin(t)
    /\ Starts(t, Call(c.op, c.to))
    /\ UNCHANGED <<fixed, clock, chatVars>>

\* A command.  Those that chat demand a private key.
Command(t, c) ==
    /\ kind = "cli" /\ ~shell /\ AllIdle
    /\ c.op \in {"speak", "listen", "file"} => file.key
    /\ binding' = file
    /\ core' = "none" /\ latest' = 0
    /\ SignsIn(t, Call(c.op, c.to))
    /\ UNCHANGED <<fixed, clock, server, rows, waits, file, shell>>

OpenShell ==
    /\ kind = "cli" /\ ~shell /\ AllIdle /\ file.key
    /\ shell' = TRUE /\ binding' = file
    /\ core' = "none" /\ latest' = 0
    /\ UNCHANGED <<fixed, clock, agent, task, server, rows, waits, file>>

CloseShell ==
    /\ shell /\ AllIdle
    /\ shell' = FALSE
    /\ UNCHANGED <<httpVars, server, rows, waits, file, binding>>

\* login() done; a refusal is swallowed by init and _ensure_core.
SignedIn(t) ==
    /\ kind # "room" /\ task[t].at = "login"
    /\ \E c \in {"token", "anon"} :
        /\ IF c = "token" THEN agent = "account" ELSE LoginRefused(t)
        /\ Proceeds(t, task[t], c, task[t].op \in {"init", "speak", "listen"})
    /\ UNCHANGED <<fixed, clock, chatVars>>

\* A request is refused: the call raises.
Rejected(t) ==
    /\ kind # "room" /\ task[t].at \in {"setup", "upload", "sent", "unbind"}
    /\ Ends(t)
    /\ UNCHANGED <<fixed, clock, agent, core, latest, chatVars>>

-----------------------------------------------------------------------------
\* bind: the server first, then the request for friendship, then the file.

SetupServed(t) ==
    /\ kind # "room" /\ task[t].at = "setup"
    /\ bound' = task[t].to
    /\ Goes(t, [task[t] EXCEPT !.at = "ask"]) \/ (~safe /\ Ends(t))
    /\ UNCHANGED <<fixed, clock, agent, core, latest, asked, friend, rows, spoke, record>>

\* _save_binding, with what a private key or a timestamp was there gone.
Saved(t) ==
    /\ file' = Bound(task[t].to) /\ binding' = Bound(task[t].to)
    /\ latest' = 0
    /\ task' = [Dropped EXCEPT ![t] = Idle]

\* A refusal of the request is swallowed, a broken connection is not.
FriendAsked(t) ==
    /\ kind # "room" /\ task[t].at = "ask"
    /\ asked' \in {asked, asked \union {task[t].to}}
    /\ Saved(t) \/ (~safe /\ Ends(t) /\ UNCHANGED <<file, binding, latest>>)
    /\ UNCHANGED <<fixed, clock, agent, core, bound, friend, rows, spoke, waits, shell>>

\* unbind: the server first, then the file.  An error in removing it is swallowed.
UnbindServed(t) ==
    /\ kind # "room" /\ task[t].at = "unbind" /\ core # "anon"
    /\ bound' = None
    /\ \/ /\ file' = Unbound \/ (~safe /\ file' = file)
          /\ binding' = Unbound /\ latest' = 0
          /\ task' = [Dropped EXCEPT ![t] = Idle]
       \/ ~safe /\ Ends(t) /\ UNCHANGED <<file, binding, latest>>
    /\ UNCHANGED <<fixed, clock, agent, core, asked, friend, rows, spoke, waits, shell>>

-----------------------------------------------------------------------------
\* chat, send_file, send_image.

\* An upload is followed by a chat, or, if it was sent as an image and is none,
\* by a second upload.
Uploaded(t) ==
    /\ kind # "room" /\ task[t].at = "upload"
    /\ \E op \in {"file", "speak"} : Starts(t, [task[t] EXCEPT !.op = op])
    /\ UNCHANGED <<fixed, clock, chatVars>>

\* list_friends, from the server or, when it refuses, from the database; any
\* other failure lets the message pass.
FriendsAnswered(t) ==
    LET call == task[t]
        goes(list) == Goes(t, IF call.to \in list THEN Sent(call, latest) ELSE Idle)
    IN /\ kind # "room" /\ call.at = "friends"
       /\ \/ /\ core = "anon" => agent = "account"
             /\ core' = IF core = "anon" THEN "late" ELSE core
             /\ rows' = friend /\ goes(friend)
          \/ goes(rows) /\ UNCHANGED <<core, rows>>
          \/ ~safe /\ goes({call.to}) /\ UNCHANGED <<core, rows>>
       /\ UNCHANGED <<fixed, clock, agent, latest, server, record>>

\* The server passes the message on to the owner that it has bound.
Answered(t) ==
    /\ kind # "room" /\ task[t].at = "sent" /\ core # "anon" /\ bound # None
    /\ IF task[t].op = "speak"
         THEN now < MaxTime /\ now' = now + 1 /\ spoke' = spoke \union {bound}
         ELSE UNCHANGED <<now, spoke>>
    /\ \E n \in (IF task[t].op = "speak" THEN {now'} ELSE Newest(bound)) :
          Goes(t, [task[t] EXCEPT !.at = "served", !.to = bound, !.upto = n])
    /\ UNCHANGED <<fixed, posts, got, agent, core, latest, bound, asked, friend, rows, record>>

\* The commands put the timestamp in the file; "send" without --wait prints nothing.
Received(t) ==
    LET r == task[t]
        newer == r.upto > r.since
        b == IF kind = "cli" /\ newer THEN [binding EXCEPT !.ts = r.upto] ELSE binding
    IN /\ kind # "room" /\ r.at = "served"
       /\ IF kind = "owner" \/ shell \/ waits \/ r.op = "listen"
            THEN Hands(r.to, r.since, r.upto) ELSE got' = got
       /\ latest' = IF newer /\ r.live THEN r.upto ELSE latest
       /\ binding' = b
       /\ file' = IF kind = "cli" /\ newer THEN b ELSE file
       /\ Ends(t)
       /\ UNCHANGED <<fixed, now, posts, agent, core, server, rows, waits, shell>>

Lost(t) ==
    /\ kind # "room" /\ ~safe /\ task[t].at = "served"
    /\ Ends(t)
    /\ UNCHANGED <<fixed, clock, agent, core, latest, chatVars>>

-----------------------------------------------------------------------------
\* close(), while calls may be under way.
Close ==
    /\ kind = "owner" /\ core # "none"
    /\ core' = "none" /\ latest' = 0 /\ task' = Dropped
    /\ UNCHANGED <<fixed, clock, agent, chatVars>>

\* The process ends, perhaps while it writes the file, and another starts.
Relaunch ==
    /\ kind # "room" /\ (safe => AllIdle)
    /\ core' = "none" /\ latest' = 0
    /\ task' = [t \in Tasks |-> Idle]
    /\ file' = file \/ (file' = Unbound /\ \E t \in Tasks : task[t].at \in {"ask", "served"})
    /\ binding' = file'
    /\ shell' = FALSE
    /\ UNCHANGED <<fixed, clock, agent, server, rows, waits>>

OwnerAccepts(o) ==
    /\ o \in asked \ friend
    /\ friend' = friend \union {o}
    /\ UNCHANGED <<httpVars, bound, asked, rows, spoke, record>>

OwnerSays(o) ==
    /\ kind # "room" /\ o \in friend
    /\ Say(o)
    /\ UNCHANGED chatVars

ChatNext ==
    \/ \E t \in Tasks :
        \/ \E c \in Calls : Begin(t, c) \/ Command(t, c)
        \/ SignedIn(t) \/ Rejected(t)
        \/ SetupServed(t) \/ FriendAsked(t) \/ UnbindServed(t)
        \/ Uploaded(t) \/ FriendsAnswered(t)
        \/ Answered(t) \/ Received(t) \/ Lost(t)
    \/ OpenShell \/ CloseShell \/ Close \/ Relaunch
    \/ \E o \in Owners : OwnerAccepts(o) \/ OwnerSays(o)

=============================================================================
