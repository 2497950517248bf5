-------------------------------- MODULE Invoke --------------------------------
(***************************************************************************)
(* invoke_agent_stream of the three SDKs (aicq/invoke.py, go/invoke.go,    *)
(* nodejs/src/invoke.ts): after a challenge the caller posts its message,  *)
(* and the answer is a body of server-sent events.  The server (external)  *)
(* writes the events, the network delivers the bytes in pieces of any      *)
(* length, and the parser finds the events again at the blank lines.       *)
(* Python and Node have a generator, which runs when the caller asks for   *)
(* an event; Go has a goroutine, which fills a channel.                    *)
(* An event on the wire is two halves of text, cut within a character, and *)
(* two newlines.  Kind "end" stands for end, cancel and error, "other" for *)
(* types that the SDK does not know.                                       *)
(***************************************************************************)
EXTENDS Naturals, Sequences, FiniteSetsExt

CONSTANTS InvokeSdks,   \* the SDKs to look at: "python", "go", "node"
          Cap,          \* the capacity of Go's channel
          MaxEvents     \* bound: events that the server writes

ASSUME InvokeAssumption ==
    /\ InvokeSdks \subseteq {"python", "go", "node"}
    /\ Cap \in Nat \ {0} /\ MaxEvents \in Nat

VARIABLES
    sdk,       \* fixed
    cancels,   \* a caller who leaves also cancels the context (Go): fixed
    caller,    \* "reads" or "left" (with cancel(), in Go)
    reader,    \* where the call is: "idle", "challenge", "post", "reading",
               \*   "done", or "failed" with an exception or an error event
    body,      \* "open", "clean", "ragged" (the last newline is missing), "cut"
    sent,      \* the kinds of the events written
    wire,      \* what is on its way
    buffer,    \* what was received and not yet parsed
    channel,   \* Go: events for the caller
    given      \* history: the events that the caller got

invokeSetup == <<sdk, cancels>>
stream == <<body, sent, wire>>
invokeVars == <<invokeSetup, caller, reader, stream, buffer, channel, given>>

InvokeInit ==
    /\ sdk \in InvokeSdks /\ cancels \in BOOLEAN
    /\ caller = "reads" /\ reader = "idle" /\ body = "open"
    /\ sent = <<>> /\ wire = <<>> /\ buffer = <<>>
    /\ channel = <<>> /\ given = <<>>

Half(n, p) == [n |-> n, part |-> p, ok |-> TRUE]
Newline == Half(0, 0)
Written(n) == <<Half(n, 1), Half(n, 2), Newline, Newline>>
Over == reader \in {"done", "failed"}

-----------------------------------------------------------------------------
\* The call: a challenge, the signed post, and the stream of the answer.

InvokeAgentStream ==
    /\ reader = "idle"
    /\ reader' = "challenge"
    /\ UNCHANGED <<invokeSetup, caller, stream, buffer, channel, given>>

FetchChallenge ==
    /\ reader = "challenge"
    /\ reader' \in {"post", "failed"}
    /\ UNCHANGED <<invokeSetup, caller, stream, buffer, channel, given>>

PostAnswered ==
    /\ reader = "post"
    /\ reader' \in {"reading", "failed"}
    /\ UNCHANGED <<invokeSetup, caller, stream, buffer, channel, given>>

ServerWrites(kind) ==
    /\ reader = "reading" /\ body = "open" /\ Len(sent) < MaxEvents
    /\ sent' = Append(sent, kind)
    /\ wire' = wire \o Written(Len(sent) + 1)
    /\ UNCHANGED <<invokeSetup, caller, reader, body, buffer, channel, given>>

ServerCloses ==
    /\ reader = "reading" /\ body = "open"
    /\ \/ body' = "clean" /\ wire' = wire
       \/ wire # <<>> /\ body' = "ragged" /\ wire' = SubSeq(wire, 1, Len(wire) - 1)
       \/ body' = "cut" /\ \E n \in 0..Len(wire) : wire' = SubSeq(wire, 1, n)
    /\ UNCHANGED <<invokeSetup, caller, reader, sent, buffer, channel, given>>

-----------------------------------------------------------------------------
\* The parser.

Blanks == {i \in 1..(Len(buffer) - 1) : buffer[i] = Newline /\ buffer[i + 1] = Newline}

\* Python decodes each piece by itself, so a character in two pieces is lost.
Decoded(piece) ==
    [i \in DOMAIN piece |->
        IF sdk = "python" /\ \/ piece[i].part = 1 /\ i = Len(piece)
                             \/ piece[i].part = 2 /\ i = 1
          THEN [piece[i] EXCEPT !.ok = FALSE] ELSE piece[i]]

Receive ==
    /\ reader = "reading" /\ caller = "reads" /\ Blanks = {}
    /\ \E n \in 1..Len(wire) :
        /\ buffer' = buffer \o Decoded(SubSeq(wire, 1, n))
        /\ wire' = SubSeq(wire, n + 1, Len(wire))
    /\ UNCHANGED <<invokeSetup, caller, reader, body, sent, channel, given>>

\* The event of a block of lines, or none: its type is that of the last "event:".
Parsed(block) ==
    LET begun == {i \in DOMAIN block : block[i].part = 1}
        n == block[Max(begun)].n
        halves == {i \in DOMAIN block : block[i].n = n /\ block[i].ok}
    IN IF begun = {} \/ (sent[n] = "other" /\ sdk # "go") THEN {}
       ELSE {[n |-> n, kind |-> sent[n], whole |-> Cardinality(halves) = 2]}

\* yield, or a send on the channel, which waits for room.
Gives(e) ==
    \/ sdk = "go" /\ Len(channel) < Cap /\ channel' = Append(channel, e) /\ given' = given
    \/ sdk # "go" /\ caller = "reads" /\ given' = Append(given, e) /\ channel' = channel

\* Mutation of NextBlock: the loop goes on after the last event.
NextBlockGoesOn ==
    LET i == Min(Blanks)
        e == Parsed(SubSeq(buffer, 1, i - 1))
    IN /\ reader = "reading" /\ Blanks # {}
       /\ buffer' = SubSeq(buffer, i + 2, Len(buffer))
       /\ IF e = {} THEN UNCHANGED <<channel, given>> ELSE \E x \in e : Gives(x)
       /\ UNCHANGED <<invokeSetup, caller, reader, stream>>

NextBlock ==
    LET i == Min(Blanks)
        e == Parsed(SubSeq(buffer, 1, i - 1))
    IN /\ reader = "reading" /\ Blanks # {}
       /\ buffer' = SubSeq(buffer, i + 2, Len(buffer))
       /\ IF e = {} THEN UNCHANGED <<channel, given, reader>>
          ELSE \E x \in e : Gives(x) /\ reader' = IF x.kind = "end" THEN "done" ELSE reader
       /\ UNCHANGED <<invokeSetup, caller, stream>>

\* The body is over.  What is left in the buffer is one more event, except in Go.
BodyEnds ==
    /\ reader = "reading" /\ caller = "reads" /\ Blanks = {}
    /\ wire = <<>> /\ body \in {"clean", "ragged"}
    /\ LET e == IF sdk = "go" THEN {} ELSE Parsed(buffer)
       IN IF e = {} THEN UNCHANGED <<channel, given>> ELSE \E x \in e : Gives(x)
    /\ reader' = "done" /\ buffer' = <<>>
    /\ UNCHANGED <<invokeSetup, caller, stream>>

\* The connection breaks, or (in Go) cancel() has closed the body: an exception, or
\* an error event.
ReadFails ==
    /\ reader = "reading" /\ Blanks = {}
    /\ (wire = <<>> /\ body = "cut") \/ caller = "left"
    /\ IF sdk = "go" THEN Gives([n |-> 0, kind |-> "end", whole |-> TRUE])
                     ELSE UNCHANGED <<channel, given>>
    /\ reader' = "failed"
    /\ UNCHANGED <<invokeSetup, caller, stream, buffer>>

\* Mutation of ContextDone: the context is looked at between two lines only, not
\* while a send waits.
ContextDoneBetween ==
    /\ sdk = "go" /\ reader = "reading" /\ caller = "left" /\ cancels
    /\ Len(channel) < Cap
    /\ reader' = "done"
    /\ UNCHANGED <<invokeSetup, caller, stream, buffer, channel, given>>

\* Go's goroutine looks at the context at each line and at each send.
ContextDone ==
    /\ sdk = "go" /\ reader = "reading" /\ caller = "left" /\ cancels
    /\ reader' = "done"
    /\ UNCHANGED <<invokeSetup, caller, stream, buffer, channel, given>>

-----------------------------------------------------------------------------
\* The caller.

Take ==
    /\ caller = "reads" /\ channel # <<>>
    /\ given' = Append(given, Head(channel)) /\ channel' = Tail(channel)
    /\ UNCHANGED <<invokeSetup, caller, reader, stream, buffer>>

\* The loop over the events is left; a generator is closed by that.
Leave ==
    /\ caller = "reads" /\ reader = "reading"
    /\ caller' = "left"
    /\ reader' = IF sdk = "go" THEN reader ELSE "done"
    /\ UNCHANGED <<invokeSetup, stream, buffer, channel, given>>

ReaderStep == Receive \/ NextBlock \/ BodyEnds \/ ReadFails \/ ContextDone

InvokeNext ==
    \/ InvokeAgentStream \/ FetchChallenge \/ PostAnswered
    \/ \E kind \in {"chunk", "end", "other"} : ServerWrites(kind)
    \/ ServerCloses
    \/ ReaderStep
    \/ Take \/ Leave

InvokeSpec == InvokeInit /\ [][InvokeNext]_invokeVars

\* The reader runs on, and a caller who reads takes what there is.
InvokeFairness == WF_invokeVars(ReaderStep) /\ WF_invokeVars(Take)

-----------------------------------------------------------------------------
\* The events that are due: those up to the first end that the SDK knows.
Due == {i \in DOMAIN sent : /\ \A j \in 1..(i - 1) : sent[j] # "end"
                            /\ sent[i] = "other" => sdk = "go"}

\* The caller gets the events as the server wrote them, in order, with none missing
\* and none after the end, wherever the network cuts the bytes; and all of them when
\* the call returns by itself.  Two SDKs fall short: Python breaks characters, and
\* Go drops an event that no blank line follows.
GivenAsSent ==
    LET events == given \o channel   \* number 0 is that of Go's own error event
        numbers == {events[i].n : i \in DOMAIN events} \ {0}
    IN /\ \A i, j \in DOMAIN events : i < j /\ events[j].n # 0 => events[i].n < events[j].n
       /\ numbers \subseteq Due
       /\ \A i \in Due, j \in numbers : i < j => i \in numbers
       /\ reader = "done" /\ caller = "reads" /\ ~(sdk = "go" /\ body = "ragged") => numbers = Due
       /\ sdk # "python" => \A i \in DOMAIN events : events[i].whole

\* The reader ends when the body is over, and when the caller leaves.  In Go the
\* caller must cancel the context, too: cancel() alone leaves the goroutine waiting
\* for room in the channel.
ReaderEnds ==
    (caller = "reads" /\ body # "open") \/ (caller = "left" /\ cancels)
        ~> Over \/ (caller = "left" /\ ~cancels)
=============================================================================
