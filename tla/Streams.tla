------------------------------- MODULE Streams -------------------------------
(***************************************************************************)
(* Streaming between an agent and its friends: the frames stream_chunk,    *)
(* stream_end and stream_cancel, the cancel flags of the agent's SDK and   *)
(* the dispatch in the friend's.  The agent runs one task per friend, the  *)
(* polling loop that the docs of is_stream_cancelled give.  The server     *)
(* (external) relays the frames of a pair of clients in order.             *)
(* Which SDK is on which side makes the difference, so both are            *)
(* parameters:                                                             *)
(*   python   aicq/core.py          go   go/messaging.go, ws.go, client.go *)
(*   node     nodejs/src/messaging.ts, websocket.ts                        *)
(*   browser  the web client, external                                     *)
(***************************************************************************)
EXTENDS Naturals, Sequences

CONSTANTS Friends,
          AgentSdks, PeerSdks,  \* the SDKs to look at on either side
          MaxStreams, MaxWire, MaxCancels   \* model bounds, per friend

ASSUME StreamsAssumption ==
    /\ AgentSdks \subseteq {"python", "go", "node"}
    /\ PeerSdks \subseteq {"python", "go", "node", "browser"}
    /\ {MaxStreams, MaxWire, MaxCancels} \subseteq Nat

VARIABLES
    agent, peer,   \* the SDKs on the two sides: fixed
    withIds,       \* the agent passes a message id with its frames: fixed
    callback,      \* the agent's user registered OnStreamCancel: fixed
    task,          \* task[f]: where the task for f is, and its stream's number
    flag,          \* flag[f]: the stream to f is marked cancelled
    down,          \* down[f]: frames on their way to f
    up,            \* up[f]: cancel frames on their way from f
    seen,          \* seen[f]: ids in the dedup set of f that came with frames
    shown,         \* shown[f]: the last stream f's callbacks saw, open or ended
    asked,         \* history: the stream f last cancelled, and how many it did
    aborts         \* history: streams to f that ended because of the flag

setup == <<agent, peer, withIds, callback>>
vars == <<setup, task, flag, down, up, seen, shown, asked, aborts>>

Init ==
    /\ agent \in AgentSdks /\ peer \in PeerSdks
    /\ withIds \in BOOLEAN /\ callback \in BOOLEAN
    /\ task = [f \in Friends |-> [pc |-> "idle", n |-> 0]]
    /\ flag = [f \in Friends |-> FALSE]
    /\ down = [f \in Friends |-> <<>>]
    /\ up = [f \in Friends |-> 0]
    /\ seen = [f \in Friends |-> {}]
    /\ shown = [f \in Friends |-> [n |-> 0, open |-> FALSE]]
    /\ asked = [f \in Friends |-> [n |-> 0, times |-> 0]]
    /\ aborts = [f \in Friends |-> 0]

Streaming(f) == task[f].pc = "streaming"

\* sendStreamChunk, sendStreamEnd: what goes on the wire.
Push(f, kind) ==
    /\ Len(down[f]) < MaxWire
    /\ down' = [down EXCEPT ![f] = Append(@, [kind |-> kind, n |-> task[f].n])]

\* The id that a frame carries: only Go puts it on chunks.
HasId(frame) == withIds /\ (frame.kind = "end" \/ agent = "go")

\* The Node SDK's sendStreamEnd forgets the flag, the others leave it.
EndClears(f) == flag' = [flag EXCEPT ![f] = @ /\ agent # "node"]

-----------------------------------------------------------------------------
\* The agent's task for f.

Begin(f) ==
    /\ task[f].pc = "idle" /\ task[f].n < MaxStreams
    /\ task' = [task EXCEPT ![f] = [pc |-> "streaming", n |-> @.n + 1]]
    /\ UNCHANGED <<setup, flag, down, up, seen, shown, asked, aborts>>

\* A round of the loop: not cancelled, so one more chunk.
SendChunk(f) ==
    /\ Streaming(f) /\ ~flag[f]
    /\ Push(f, "chunk")
    /\ UNCHANGED <<setup, task, flag, up, seen, shown, asked, aborts>>

\* The answer is complete: the end of a round, so nothing polls here.
Finish(f) ==
    /\ Streaming(f)
    /\ Push(f, "end")
    /\ EndClears(f)
    /\ task' = [task EXCEPT ![f].pc = "idle"]
    /\ UNCHANGED <<setup, up, seen, shown, asked, aborts>>

\* Mutation of Abort: the loop breaks without the end signal.
AbortSilently(f) ==
    /\ Streaming(f) /\ flag[f]
    /\ task' = [task EXCEPT ![f].pc = "ending"]
    /\ aborts' = [aborts EXCEPT ![f] = @ + 1]
    /\ UNCHANGED <<setup, flag, down, up, seen, shown, asked>>

\* The poll finds the flag: send_stream_end, which suspends ...
Abort(f) ==
    /\ Streaming(f) /\ flag[f]
    /\ Push(f, "end")
    /\ EndClears(f)
    /\ task' = [task EXCEPT ![f].pc = "ending"]
    /\ aborts' = [aborts EXCEPT ![f] = @ + 1]
    /\ UNCHANGED <<setup, up, seen, shown, asked>>

\* Mutation of ClearStreamCancel: the flag stays.
ClearNothing(f) ==
    /\ task[f].pc = "ending"
    /\ task' = [task EXCEPT ![f].pc = "idle"]
    /\ UNCHANGED <<setup, flag, down, up, seen, shown, asked, aborts>>

\* ... then clear_stream_cancel and break.
ClearStreamCancel(f) ==
    /\ task[f].pc = "ending"
    /\ flag' = [flag EXCEPT ![f] = FALSE]
    /\ task' = [task EXCEPT ![f].pc = "idle"]
    /\ UNCHANGED <<setup, down, up, seen, shown, asked, aborts>>

\* The agent stops a stream that it receives from f.  Node marks its own stream
\* to f by this; Go only sends the frame, and Python cannot send one.
CancelTheirs(f) ==
    /\ agent = "node" /\ ~flag[f]
    /\ flag' = [flag EXCEPT ![f] = TRUE]
    /\ UNCHANGED <<setup, task, down, up, seen, shown, asked, aborts>>

\* Mutation of HandleCancel: a registered callback replaces the flag in Python
\* as it does in Go.
HandleCancelOrCall(f) ==
    /\ up[f] > 0
    /\ up' = [up EXCEPT ![f] = @ - 1]
    /\ flag' = [flag EXCEPT ![f] = @ \/ (agent # "node" /\ ~callback)]
    /\ UNCHANGED <<setup, task, down, seen, shown, asked, aborts>>

\* stream_cancel arrives.  Python sets the flag and calls the callback; Go's
\* flag is set by the callback that NewAICQClient registers and that the user's
\* replaces; Node only calls the callback.
HandleCancel(f) ==
    /\ up[f] > 0
    /\ up' = [up EXCEPT ![f] = @ - 1]
    /\ flag' = [flag EXCEPT ![f] = @ \/ agent = "python" \/ (agent = "go" /\ ~callback)]
    /\ UNCHANGED <<setup, task, down, seen, shown, asked, aborts>>

-----------------------------------------------------------------------------
\* The friend.

\* The dispatch of one frame.  Python drops what its dedup set has seen, by the
\* id of any kind of frame; Go and Node have no dedup for streams.
HandleFrame(f) ==
    /\ down[f] # <<>>
    /\ down' = [down EXCEPT ![f] = Tail(@)]
    /\ LET frame == Head(down[f])
       IN IF peer = "python" /\ HasId(frame) /\ frame.n \in seen[f]
          THEN UNCHANGED <<seen, shown>>
          ELSE /\ shown' = [shown EXCEPT ![f] = [n |-> frame.n, open |-> frame.kind = "chunk"]]
               /\ seen' = IF peer = "python" /\ HasId(frame)
                          THEN [seen EXCEPT ![f] = @ \union {frame.n}] ELSE seen
    /\ UNCHANGED <<setup, task, flag, up, asked, aborts>>

\* The friend stops the stream it sees.  Python has no call for it.
SendStreamCancel(f) ==
    /\ peer # "python"
    /\ shown[f].open /\ asked[f].times < MaxCancels
    /\ up' = [up EXCEPT ![f] = @ + 1]
    /\ asked' = [asked EXCEPT ![f] = [n |-> shown[f].n, times |-> @.times + 1]]
    /\ UNCHANGED <<setup, task, flag, down, seen, shown, aborts>>

-----------------------------------------------------------------------------
TaskStep(f) == SendChunk(f) \/ Finish(f) \/ Abort(f) \/ ClearStreamCancel(f)

Next == \E f \in Friends :
    \/ Begin(f) \/ TaskStep(f) \/ CancelTheirs(f) \/ HandleCancel(f)
    \/ HandleFrame(f) \/ SendStreamCancel(f)

Spec == Init /\ [][Next]_vars

\* Tasks that have begun run on, and frames arrive and are handled.  The answer
\* need never be complete by itself: Finish gets no fairness of its own.
Fairness ==
    \A f \in Friends : /\ WF_vars(TaskStep(f))
                       /\ WF_vars(HandleCancel(f))
                       /\ WF_vars(HandleFrame(f))

FairSpec == Spec /\ Fairness

-----------------------------------------------------------------------------
\* The pair of SDKs whose ids collide: Go gives all frames of a stream one id,
\* and Python takes the second for a duplicate of the first.
IdsCollide == agent = "go" /\ peer = "python" /\ withIds

\* The agents whose tasks can see a cancel by polling.
FlagReachesTask == agent = "python" \/ (agent = "go" /\ ~callback)

\* When a stream is over and its frames have arrived, the friend's client has
\* closed it too: no message stays "generating" for ever.
StreamsClose ==
    \A f \in Friends :
        ~IdsCollide /\ ~Streaming(f) /\ down[f] = <<>> => ~shown[f].open

\* A cancel stops at most one stream, and only one to the friend who sent it: an
\* abort consumes the flag.
OneAbortPerCancel ==
    \A f \in Friends : FlagReachesTask => aborts[f] + up[f] <= asked[f].times

\* A cancel that is sent while its stream runs stops that stream: it is never
\* lost between the flag's being set, polled and cleared.
StopWorks ==
    \A f \in Friends :
        FlagReachesTask /\ Streaming(f) /\ asked[f].n = task[f].n
            ~> ~Streaming(f) \/ asked[f].n # task[f].n
=============================================================================
