----------------------------- MODULE RoomConsole -----------------------------
(***************************************************************************)
(* The terminal of "aicq chat" (aicq/__init__.py, cmd_chat).  Its loop     *)
(* waits for two tasks, a line from input(), which runs in a thread of the *)
(* executor, and the next message of the room; the one that is not done is *)
(* cancelled, and both are made anew.  A thread in input() cannot be       *)
(* cancelled: it is abandoned, goes on to read, and what it reads is lost. *)
(* Only one thread at a time has the terminal.                             *)
(* Lines and messages are numbers.                                         *)
(***************************************************************************)
EXTENDS Naturals, Sequences, FiniteSets

CONSTANTS Workers,                 \* threads in the executor
          MaxLines, MaxReceived    \* bounds: lines typed, messages received

ASSUME ConsoleAssumption ==
    Workers \in Nat \ {0} /\ MaxLines \in Nat /\ MaxReceived \in Nat

VARIABLES
    main,      \* "off", then the loop: "prompt", "wait", "handle", "send",
               \*   "closing" or "ended"
    input,     \* the input task: "none", "queued", "reading", "read" (the loop has
               \*   not been told), "done"
    stale,     \* threads that were abandoned in input()
    holder,    \* who has the terminal: "none", "live" or "stale"
    line,      \* the line that the input task has read
    msg,       \* the message that the message task has got, or 0
    todo,      \* the tasks that were done and are still to be handled
    tty,       \* lines typed and not read
    inbox,     \* message_queue
    typed,     \* history: the lines, each a "text" or "quit"
    received,  \* history: how many messages came
    printed,   \* history: the messages shown, the lines sent, those that could not
    said, refused, lost   \* be sent, and those that an abandoned thread read

reading == <<input, stale, holder, line>>
events == <<tty, inbox, typed, received>>
outcome == <<printed, said, refused, lost>>
consoleVars == <<main, reading, msg, todo, events, outcome>>

ConsoleInit ==
    /\ main = "off"
    /\ input = "none" /\ stale = 0 /\ holder = "none" /\ line = 0
    /\ msg = 0 /\ todo = {}
    /\ tty = <<>> /\ inbox = <<>> /\ typed = <<>> /\ received = 0
    /\ printed = <<>> /\ said = <<>> /\ refused = {} /\ lost = {}

Stopped == main \in {"closing", "ended"}

\* join_ephemeral_room, and the callback is registered.
CmdChat ==
    /\ main = "off"
    /\ main' \in {"prompt", "ended"}
    /\ UNCHANGED <<reading, msg, todo, events, outcome>>

-----------------------------------------------------------------------------
\* The user, and the callback that the receive loop of AICQCore makes.

Type(kind) ==
    /\ main \notin {"off", "ended"} /\ Len(typed) < MaxLines
    /\ typed' = Append(typed, kind) /\ tty' = Append(tty, Len(typed) + 1)
    /\ UNCHANGED <<main, reading, msg, todo, inbox, received, outcome>>

OnGroupMsg ==
    /\ main # "off" /\ ~Stopped /\ received < MaxReceived
    /\ received' = received + 1 /\ inbox' = Append(inbox, received + 1)
    /\ UNCHANGED <<main, reading, msg, todo, tty, typed, outcome>>

-----------------------------------------------------------------------------
\* The threads.

\* The terminal goes to any of the threads that wait for it.
Passes(live, s) ==
    holder' \in IF live \/ s > 0 THEN {h \in {"live", "stale"} : IF h = "live" THEN live ELSE s > 0}
                                 ELSE {"none"}

ReadLine ==
    /\ tty # <<>> /\ tty' = Tail(tty)
    /\ \/ /\ holder = "live"
          /\ input' = "read" /\ line' = Head(tty)
          /\ Passes(FALSE, stale)
          /\ UNCHANGED <<stale, lost>>
       \/ /\ holder = "stale"
          /\ lost' = lost \union {Head(tty)}
          /\ stale' = stale - 1
          /\ input' = IF input = "queued" THEN "reading" ELSE input
          /\ Passes(input' = "reading", stale')
          /\ UNCHANGED line
    /\ UNCHANGED <<main, msg, todo, inbox, typed, received, printed, said, refused>>

LineDelivered ==
    /\ input = "read"
    /\ input' = "done"
    /\ UNCHANGED <<main, stale, holder, line, msg, todo, events, outcome>>

-----------------------------------------------------------------------------
\* The loop.

\* Two new tasks.  With all threads busy the input has to queue.
Prompt ==
    /\ main = "prompt"
    /\ main' = "wait"
    /\ input' = IF stale < Workers THEN "reading" ELSE "queued"
    /\ holder' = IF holder = "none" THEN "live" ELSE holder
    /\ UNCHANGED <<stale, line, msg, todo, events, outcome>>

\* The message task.
GetMessage ==
    /\ main = "wait" /\ msg = 0 /\ inbox # <<>>
    /\ msg' = Head(inbox) /\ inbox' = Tail(inbox)
    /\ UNCHANGED <<main, reading, todo, tty, typed, received, outcome>>

\* The input task is cancelled: at best before a thread has taken it.
Abandoned ==
    /\ input' = IF input = "done" THEN input ELSE "none"
    /\ stale' = IF input = "reading" THEN stale + 1 ELSE stale
    /\ holder' = IF holder = "live" THEN "stale" ELSE holder
    /\ lost' = IF input = "read" THEN lost \union {line} ELSE lost

\* Mutations of Wake: only one of the tasks that are done is handled; or the loop
\* waits for both tasks.
WakeOne ==
    /\ main = "wait" /\ (input = "done" \/ msg # 0)
    /\ main' = "handle"
    /\ \E t \in {"input", "msg"} : /\ (t = "input" /\ input = "done") \/ (t = "msg" /\ msg # 0)
                                   /\ todo' = {t} /\ msg' = IF t = "msg" THEN msg ELSE 0
    /\ Abandoned
    /\ UNCHANGED <<line, events, printed, said, refused>>
WakeAll ==
    /\ main = "wait" /\ input = "done" /\ msg # 0
    /\ main' = "handle"
    /\ todo' = {"input", "msg"}
    /\ Abandoned
    /\ UNCHANGED <<line, msg, events, printed, said, refused>>

\* asyncio.wait returns the tasks that are done; those that are not are cancelled.
Wake ==
    /\ main = "wait" /\ (input = "done" \/ msg # 0)
    /\ main' = "handle"
    /\ todo' = {t \in {"input", "msg"} : IF t = "input" THEN input = "done" ELSE msg # 0}
    /\ Abandoned
    /\ UNCHANGED <<line, msg, events, printed, said, refused>>

\* On with the other task that was done, if any.
Continues(rest) == todo' = rest /\ main' = IF rest = {} THEN "prompt" ELSE "handle"

HandleMessage ==
    /\ main = "handle" /\ "msg" \in todo
    /\ printed' = Append(printed, msg) /\ msg' = 0
    /\ Continues(todo \ {"msg"})
    /\ UNCHANGED <<reading, events, said, refused, lost>>

HandleLine ==
    /\ main = "handle" /\ "input" \in todo
    /\ main' = IF typed[line] = "quit" THEN "closing" ELSE "send"
    /\ input' = "none"
    /\ UNCHANGED <<stale, holder, line, msg, todo, events, outcome>>

\* send_group_message: sent, refused with an AICQError, or any other exception,
\* which ends the loop.
LineSent ==
    /\ main = "send"
    /\ \/ said' = Append(said, line) /\ refused' = refused /\ Continues(todo \ {"input"})
       \/ refused' = refused \union {line} /\ said' = said /\ Continues(todo \ {"input"})
       \/ main' = "closing" /\ UNCHANGED <<said, refused, todo>>
    /\ UNCHANGED <<reading, msg, events, printed, lost>>

\* asyncio.run returns when the threads of the executor are over.
Exit ==
    /\ main = "closing" /\ stale = 0
    /\ main' = "ended"
    /\ UNCHANGED <<reading, msg, todo, events, outcome>>

LoopStep == \/ Prompt \/ GetMessage \/ Wake \/ HandleMessage \/ HandleLine \/ LineSent
            \/ LineDelivered \/ Exit

ConsoleNext ==
    \/ CmdChat
    \/ \E kind \in {"text", "quit"} : Type(kind)
    \/ OnGroupMsg
    \/ ReadLine
    \/ LoopStep

ConsoleSpec == ConsoleInit /\ [][ConsoleNext]_consoleVars

\* The event loop and the threads run on; nobody has to type.
ConsoleFairness == WF_consoleVars(LoopStep) /\ WF_consoleVars(ReadLine)

-----------------------------------------------------------------------------
\* Although each line cancels the task that waits for a message, every message is
\* shown once, in order.  Lines are sent in the order in which they were typed, none
\* twice; "type a message and press Enter to send it" fails at most once for each
\* message that came: the thread that it made the loop abandon eats a line.
ConsoleInOrder ==
    LET taken == IF msg = 0 THEN 0 ELSE 1 IN
    /\ \A i \in DOMAIN printed : printed[i] = i
    /\ ~Stopped => received = Len(printed) + taken + Len(inbox)
    /\ \A i, j \in DOMAIN said : i < j => said[i] < said[j]
    /\ Cardinality(lost) + stale <= Len(printed) + taken

\* Every message is shown and every line sent, refused or lost, also when abandoned
\* threads fill the executor; and the program ends after /quit, unless such a thread
\* still waits for a line.
ConsoleServes ==
    /\ \A n \in 1..MaxReceived : received >= n ~> Len(printed) >= n \/ Stopped
    /\ \A n \in 1..MaxLines :
          Len(typed) >= n ~> \/ n \in refused \union lost \union {said[i] : i \in DOMAIN said}
                             \/ Stopped
    /\ main = "closing" ~> main = "ended" \/ (stale > 0 /\ tty = <<>>)
=============================================================================
