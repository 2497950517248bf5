------------------------ MODULE StreamOutputsProofs ------------------------
(***************************************************************************)
(* For any number of friends, threads, lines and messages.  A stream that  *)
(* is over is closed at the friend's client, and a cancel stops at most    *)
(* one stream.  The caller of an invocation gets the events that the       *)
(* server wrote, wherever the network cuts the text.  The terminal shows   *)
(* every message once and in order, sends the lines in the order in which  *)
(* they were typed, and loses at most one line for each message that came. *)
(***************************************************************************)
EXTENDS StreamOutputs, FiniteSetTheorems, SequenceTheorems, TLAPS

\* The frames between the agent and a friend.

Frame == [kind : {"chunk", "end"}, n : Nat]

StreamsType ==
    /\ agent \in {"python", "go", "node"} /\ {withIds, callback} \subseteq BOOLEAN
    /\ task \in [Friends -> [pc : {"idle", "streaming", "ending"}, n : Nat]]
    /\ flag \in [Friends -> BOOLEAN]
    /\ down \in [Friends -> Seq(Frame)]
    /\ seen \in [Friends -> SUBSET Nat]
    /\ shown \in [Friends -> [n : Nat, open : BOOLEAN]]
    /\ asked \in [Friends -> [n : Nat, times : Nat]]
    /\ up \in [Friends -> Nat] /\ aborts \in [Friends -> Nat]

\* No frame of a later stream, and no end of the stream that runs, was sent or is
\* known to the friend's dedup set; every end has an id of its own, which is new
\* to that set.
EndsAreNew(f) ==
    /\ \A m \in seen[f] : m <= task[f].n
    /\ Streaming(f) => task[f].n \notin seen[f]
    /\ \A i \in 1..Len(down[f]) :
          /\ down[f][i].n <= task[f].n
          /\ down[f][i].kind = "end" =>
                /\ down[f][i].n \notin seen[f]
                /\ Streaming(f) => down[f][i].n # task[f].n
    /\ \A i, j \in 1..Len(down[f]) :
          down[f][i].kind = "end" /\ down[f][j].kind = "end" /\ i # j =>
             down[f][i].n # down[f][j].n

\* What the friend's client has open is still being streamed, or its end is the
\* last frame on the way.
EndIsComing(f) ==
    /\ ~Streaming(f) /\ down[f] # <<>> => down[f][Len(down[f])].kind = "end"
    /\ shown[f].open => Streaming(f) \/ down[f] # <<>>

\* A flag that is set, and that no abort has used yet, is a cancel that was asked
\* for and has arrived.
Unused(f) == IF flag[f] /\ task[f].pc # "ending" THEN 1 ELSE 0
CancelsPaid(f) == aborts[f] + up[f] + Unused(f) <= asked[f].times

StreamsInv ==
    /\ StreamsType
    /\ ~IdsCollide => \A f \in Friends : EndsAreNew(f) /\ EndIsComing(f)
    /\ FlagReachesTask => \A f \in Friends : CancelsPaid(f)

LEMMA StreamsInitHolds == Init => StreamsInv
BY StreamsAssumption DEF Init, StreamsInv, StreamsType, EndsAreNew, EndIsComing,
     CancelsPaid, Unused, Streaming, setup

\* What a friend's account is of.
LEMMA FriendType ==
    ASSUME StreamsType, NEW f \in Friends
    PROVE  /\ task[f].n \in Nat /\ task[f].pc \in {"idle", "streaming", "ending"}
           /\ seen[f] \subseteq Nat
           /\ down[f] \in Seq(Frame) /\ Len(down[f]) \in Nat
           /\ \A i \in 1..Len(down[f]) : down[f][i] \in Frame
                                         /\ down[f][i].kind \in {"chunk", "end"}
                                         /\ down[f][i].n \in Nat
<1>1. down[f] \in Seq(Frame)
  BY DEF StreamsType
<1>2. \A i \in 1..Len(down[f]) : down[f][i] \in Frame
  BY <1>1
<1>3. task[f].n \in Nat /\ task[f].pc \in {"idle", "streaming", "ending"}
  BY DEF StreamsType
<1>4. seen[f] \subseteq Nat
  BY DEF StreamsType
<1>5. Len(down[f]) \in Nat
  BY <1>1
<1>6. \A i \in 1..Len(down[f]) : down[f][i].kind \in {"chunk", "end"} /\ down[f][i].n \in Nat
  BY <1>2 DEF Frame
<1>7. QED
  BY <1>1, <1>2, <1>3, <1>4, <1>5, <1>6

\* What is sent is one frame more, of the stream that runs.
LEMMA Pushed ==
    ASSUME StreamsType, NEW f \in Friends, NEW kind \in {"chunk", "end"}, Push(f, kind)
    PROVE  /\ down' \in [Friends -> Seq(Frame)]
           /\ \A g \in Friends \ {f} : down'[g] = down[g]
           /\ Len(down'[f]) = Len(down[f]) + 1
           /\ \A i \in 1..Len(down[f]) : down'[f][i] = down[f][i]
           /\ down'[f][Len(down[f]) + 1] = [kind |-> kind, n |-> task[f].n]
           /\ down'[f] # <<>>
<1> DEFINE frame == [kind |-> kind, n |-> task[f].n]
<1>1. down[f] \in Seq(Frame) /\ down \in [Friends -> Seq(Frame)] /\ frame \in Frame
  BY FriendType DEF StreamsType, Frame
<1>2. down' = [down EXCEPT ![f] = Append(@, frame)]
  BY DEF Push
<1> HIDE DEF frame
<1>3. down'[f] = Append(down[f], frame)
  BY <1>1, <1>2
<1>4. \A g \in Friends \ {f} : down'[g] = down[g]
  BY <1>1, <1>2
<1>5. down' \in [Friends -> Seq(Frame)]
  BY <1>1, <1>2
<1>6. /\ Len(down'[f]) = Len(down[f]) + 1
      /\ \A i \in 1..Len(down[f]) : down'[f][i] = down[f][i]
      /\ down'[f][Len(down[f]) + 1] = frame
      /\ down'[f] # <<>>
  BY <1>1, <1>3
<1>7. QED
  BY <1>4, <1>5, <1>6 DEF frame

\* What has arrived is the first frame; the others move up.
LEMMA EmptyFrames == \A s \in Seq(Frame) : s = <<>> <=> Len(s) = 0
OBVIOUS

LEMMA Arrived ==
    ASSUME StreamsType, NEW f \in Friends, HandleFrame(f)
    PROVE  /\ down' \in [Friends -> Seq(Frame)]
           /\ \A g \in Friends \ {f} : down'[g] = down[g]
           /\ Len(down[f]) \in Nat \ {0} /\ Len(down'[f]) = Len(down[f]) - 1
           /\ \A i \in 1..Len(down'[f]) : down'[f][i] = down[f][i + 1]
           /\ Len(down[f]) = 1 => down'[f] = <<>>
           /\ Len(down[f]) > 1 => down'[f] # <<>>
           /\ Head(down[f]) = down[f][1]
<1>1. down[f] \in Seq(Frame) /\ down \in [Friends -> Seq(Frame)]
  BY FriendType DEF StreamsType
<1>2. down[f] # <<>> /\ down' = [down EXCEPT ![f] = Tail(@)]
  BY DEF HandleFrame
<1>3. down'[f] = Tail(down[f]) /\ \A g \in Friends \ {f} : down'[g] = down[g]
  BY <1>1, <1>2
<1>4. Tail(down[f]) \in Seq(Frame)
  BY <1>1, <1>2
<1>5. down' \in [Friends -> Seq(Frame)]
  BY <1>1, <1>2, <1>4
<1>6. /\ Len(down[f]) \in Nat \ {0} /\ Len(down'[f]) = Len(down[f]) - 1
      /\ \A i \in 1..Len(down'[f]) : down'[f][i] = down[f][i + 1]
      /\ Len(down[f]) = 1 => down'[f] = <<>>
      /\ Len(down[f]) > 1 => down'[f] # <<>>
      /\ Head(down[f]) = down[f][1]
  <2>1. Len(down[f]) \in Nat \ {0} /\ Head(down[f]) = down[f][1]
    BY <1>1, <1>2
  <2>2. /\ Len(down'[f]) = Len(down[f]) - 1
        /\ \A i \in 1..Len(down'[f]) : down'[f][i] = down[f][i + 1]
    BY <1>1, <1>2, <1>3
  <2>3. down'[f] = <<>> <=> Len(down'[f]) = 0
    BY <1>3, <1>4, EmptyFrames
  <2>4. QED
    BY <2>1, <2>2, <2>3
<1>7. QED
  BY <1>3, <1>5, <1>6

LEMMA StreamsTypeStep == StreamsType /\ [Next]_vars => StreamsType'
<1> SUFFICES ASSUME StreamsType, [Next]_vars PROVE StreamsType'
  OBVIOUS
<1> USE DEF StreamsType, setup
<1>1. CASE UNCHANGED vars
  BY <1>1 DEF vars
<1>2. ASSUME NEW f \in Friends, Begin(f) PROVE StreamsType'
  BY <1>2 DEF Begin
<1>3. ASSUME NEW f \in Friends, SendChunk(f) PROVE StreamsType'
  <2>1. down' \in [Friends -> Seq(Frame)]
    BY <1>3, Pushed DEF SendChunk
  <2>2. UNCHANGED <<setup, task, flag, up, seen, shown, asked, aborts>>
    BY <1>3 DEF SendChunk
  <2>3. /\ agent' \in {"python", "go", "node"} /\ ({withIds, callback} \subseteq BOOLEAN)'
        /\ seen' \in [Friends -> SUBSET Nat] /\ shown' \in [Friends -> [n : Nat, open : BOOLEAN]]
    BY <2>2
  <2>4. /\ task' \in [Friends -> [pc : {"idle", "streaming", "ending"}, n : Nat]]
        /\ flag' \in [Friends -> BOOLEAN] /\ asked' \in [Friends -> [n : Nat, times : Nat]]
        /\ up' \in [Friends -> Nat] /\ aborts' \in [Friends -> Nat]
    BY <2>2
  <2>5. QED
    BY <2>1, <2>3, <2>4, Zenon
<1>4. ASSUME NEW f \in Friends, Finish(f) PROVE StreamsType'
  <2>1. down' \in [Friends -> Seq(Frame)]
    BY <1>4, Pushed DEF Finish
  <2>2. flag' \in [Friends -> BOOLEAN]
    BY <1>4 DEF Finish, EndClears
  <2>3. task' \in [Friends -> [pc : {"idle", "streaming", "ending"}, n : Nat]]
    BY <1>4 DEF Finish
  <2>4. QED
    BY <1>4, <2>1, <2>2, <2>3 DEF Finish
<1>5. ASSUME NEW f \in Friends, Abort(f) PROVE StreamsType'
  <2>1. down' \in [Friends -> Seq(Frame)]
    BY <1>5, Pushed DEF Abort
  <2>2. flag' \in [Friends -> BOOLEAN]
    BY <1>5 DEF Abort, EndClears
  <2>3. task' \in [Friends -> [pc : {"idle", "streaming", "ending"}, n : Nat]]
    BY <1>5 DEF Abort
  <2>4. aborts' \in [Friends -> Nat]
    BY <1>5 DEF Abort
  <2>5. QED
    BY <1>5, <2>1, <2>2, <2>3, <2>4 DEF Abort
<1>6. ASSUME NEW f \in Friends, ClearStreamCancel(f) PROVE StreamsType'
  BY <1>6 DEF ClearStreamCancel
<1>7. ASSUME NEW f \in Friends, CancelTheirs(f) PROVE StreamsType'
  BY <1>7 DEF CancelTheirs
<1>8. ASSUME NEW f \in Friends, HandleCancel(f) PROVE StreamsType'
  BY <1>8 DEF HandleCancel
<1>9. ASSUME NEW f \in Friends, HandleFrame(f) PROVE StreamsType'
  <2> DEFINE frame == Head(down[f])
  <2>1. frame.n \in Nat
    BY <1>9, Arrived, FriendType
  <2>2. /\ \/ shown' = shown
           \/ shown' = [shown EXCEPT ![f] = [n |-> frame.n, open |-> frame.kind = "chunk"]]
        /\ seen' = seen \/ seen' = [seen EXCEPT ![f] = @ \union {frame.n}]
    BY <1>9 DEF HandleFrame
  <2> HIDE DEF frame
  <2>3. seen' \in [Friends -> SUBSET Nat]
    <3>1. seen[f] \union {frame.n} \in SUBSET Nat /\ seen \in [Friends -> SUBSET Nat]
      BY <2>1
    <3>2. QED
      BY <2>2, <3>1
  <2>4. shown' \in [Friends -> [n : Nat, open : BOOLEAN]]
    <3>1. [n |-> frame.n, open |-> frame.kind = "chunk"] \in [n : Nat, open : BOOLEAN]
      BY <2>1
    <3>2. QED
      BY <2>2, <3>1
  <2>5. down' \in [Friends -> Seq(Frame)]
    BY <1>9, Arrived
  <2>6. QED
    BY <1>9, <2>3, <2>4, <2>5 DEF HandleFrame
<1>10. ASSUME NEW f \in Friends, SendStreamCancel(f) PROVE StreamsType'
  BY <1>10 DEF SendStreamCancel
<1>11. QED
  BY <1>1, <1>2, <1>3, <1>4, <1>5, <1>6, <1>7, <1>8, <1>9, <1>10 DEF Next, TaskStep

\* One friend's account reads only what belongs to that friend.
LEMMA OthersEnds ==
    ASSUME NEW g \in Friends, EndsAreNew(g), EndIsComing(g),
           down'[g] = down[g], task'[g] = task[g], seen'[g] = seen[g], shown'[g] = shown[g]
    PROVE  EndsAreNew(g)' /\ EndIsComing(g)'
BY DEF EndsAreNew, EndIsComing, Streaming

LEMMA EndsStep ==
    ASSUME StreamsType, ~IdsCollide, NEW f \in Friends, NEW g \in Friends,
           EndsAreNew(g), EndIsComing(g),
           \/ Begin(f) \/ TaskStep(f) \/ CancelTheirs(f) \/ HandleCancel(f)
           \/ HandleFrame(f) \/ SendStreamCancel(f)
    PROVE  EndsAreNew(g)' /\ EndIsComing(g)'
<1>1. CASE f # g
  <2>1. \A kind \in {"chunk", "end"} : Push(f, kind) => down'[g] = down[g]
    BY <1>1, Pushed
  <2>2. down'[g] = down[g] /\ task'[g] = task[g] /\ seen'[g] = seen[g] /\ shown'[g] = shown[g]
    BY <1>1, <2>1 DEF StreamsType, Begin, TaskStep, SendChunk, Finish, Abort,
       ClearStreamCancel, CancelTheirs, HandleCancel, HandleFrame, SendStreamCancel
  <2>3. QED
    BY <2>2, OthersEnds
<1>2. CASE f = g
  <2>0. /\ task[f].n \in Nat /\ seen[f] \subseteq Nat
        /\ Len(down[f]) \in Nat
        /\ \A i \in 1..Len(down[f]) : down[f][i].kind \in {"chunk", "end"}
                                      /\ down[f][i].n \in Nat
    BY FriendType
  <2>1. CASE Begin(f)
    <3>1. /\ task[f].pc = "idle" /\ task'[f].n = task[f].n + 1 /\ task'[f].pc = "streaming"
          /\ UNCHANGED <<down, seen, shown>>
      BY <2>1 DEF Begin, StreamsType
    <3>2. EndsAreNew(f)'
      BY <1>2, <2>0, <3>1 DEF EndsAreNew, Streaming
    <3>3. EndIsComing(f)'
      BY <3>1 DEF EndIsComing, Streaming
    <3>4. QED
      BY <1>2, <3>2, <3>3
  <2>2. CASE SendChunk(f)
    <3>1. Streaming(f) /\ Push(f, "chunk") /\ UNCHANGED <<task, seen, shown>>
      BY <2>2 DEF SendChunk
    <3>2. EndsAreNew(f)'
      <4>1. /\ Len(down'[f]) = Len(down[f]) + 1
            /\ \A i \in 1..Len(down[f]) : down'[f][i] = down[f][i]
            /\ down'[f][Len(down[f]) + 1] = [kind |-> "chunk", n |-> task[f].n]
        BY <3>1, Pushed
      <4>2. \A i \in 1..Len(down'[f]) :
               \/ i \in 1..Len(down[f]) /\ down'[f][i] = down[f][i]
               \/ down'[f][i].kind = "chunk" /\ down'[f][i].n = task[f].n
        BY <2>0, <4>1
      <4>3. task' = task /\ seen' = seen
        BY <3>1
      <4>4. ASSUME NEW i \in 1..Len(down'[f])
            PROVE  /\ down'[f][i].n <= task'[f].n
                   /\ down'[f][i].kind = "end" =>
                         /\ down'[f][i].n \notin seen'[f]
                         /\ Streaming(f)' => down'[f][i].n # task'[f].n
        BY <1>2, <2>0, <4>2, <4>3 DEF EndsAreNew, Streaming
      <4>5. ASSUME NEW i \in 1..Len(down'[f]), NEW j \in 1..Len(down'[f]), i # j,
                   down'[f][i].kind = "end", down'[f][j].kind = "end"
            PROVE  down'[f][i].n # down'[f][j].n
        BY <1>2, <4>2, <4>5 DEF EndsAreNew
      <4>6. QED
        BY <1>2, <4>3, <4>4, <4>5 DEF EndsAreNew, Streaming
    <3>3. EndIsComing(f)'
      BY <3>1, Pushed DEF EndIsComing, Streaming
    <3>4. QED
      BY <1>2, <3>2, <3>3
  <2>3. ASSUME Push(f, "end"), Streaming(f), ~Streaming(f)', task'[f].n = task[f].n,
               seen' = seen
        PROVE  EndsAreNew(f)' /\ EndIsComing(f)'
    <3> DEFINE last == Len(down[f]) + 1
    <3>0. /\ Len(down'[f]) = last /\ down'[f] # <<>>
          /\ \A i \in 1..Len(down[f]) : down'[f][i] = down[f][i]
          /\ down'[f][last] = [kind |-> "end", n |-> task[f].n]
      BY <2>3, Pushed
    <3>1. EndsAreNew(f)'
      <4>1. \A i \in 1..Len(down'[f]) :
               \/ i \in 1..Len(down[f]) /\ down'[f][i] = down[f][i]
               \/ i = last
        BY <2>0, <3>0
      <4>2. \A m \in seen'[f] : m <= task'[f].n
        BY <1>2, <2>3 DEF EndsAreNew
      <4>3. ASSUME NEW i \in 1..Len(down'[f])
            PROVE  /\ down'[f][i].n <= task'[f].n
                   /\ down'[f][i].kind = "end" => down'[f][i].n \notin seen'[f]
        BY <1>2, <2>0, <2>3, <3>0, <4>1 DEF EndsAreNew, Streaming
      <4>4. ASSUME NEW i \in 1..Len(down'[f]), NEW j \in 1..Len(down'[f]), i # j,
                   down'[f][i].kind = "end", down'[f][j].kind = "end"
            PROVE  down'[f][i].n # down'[f][j].n
        <5>1. CASE i = last
          BY <1>2, <2>3, <3>0, <4>1, <4>4, <5>1 DEF EndsAreNew
        <5>2. CASE j = last
          BY <1>2, <2>3, <3>0, <4>1, <4>4, <5>2 DEF EndsAreNew
        <5>3. CASE i # last /\ j # last
          BY <1>2, <4>1, <4>4, <5>3 DEF EndsAreNew
        <5>4. QED
          BY <5>1, <5>2, <5>3
      <4>5. QED
        BY <2>3, <4>2, <4>3, <4>4 DEF EndsAreNew
    <3>2. EndIsComing(f)'
      BY <2>3, <3>0 DEF EndIsComing
    <3>3. QED
      BY <3>1, <3>2
  <2>4. CASE Finish(f)
    <3>1. task'[f].n = task[f].n /\ ~Streaming(f)'
      BY <2>4 DEF Finish, Streaming, StreamsType
    <3>2. QED
      BY <1>2, <2>3, <2>4, <3>1 DEF Finish
  <2>5. CASE Abort(f)
    <3>1. task'[f].n = task[f].n /\ ~Streaming(f)'
      BY <2>5 DEF Abort, Streaming, StreamsType
    <3>2. QED
      BY <1>2, <2>3, <2>5, <3>1 DEF Abort
  <2>6. CASE ClearStreamCancel(f)
    <3>1. task'[f].n = task[f].n /\ ~Streaming(f)' /\ ~Streaming(f)
      BY <2>6 DEF ClearStreamCancel, Streaming, StreamsType
    <3>2. UNCHANGED <<down, seen, shown>>
      BY <2>6 DEF ClearStreamCancel
    <3>3. QED
      BY <1>2, <3>1, <3>2 DEF EndsAreNew, EndIsComing
  <2>7. CASE CancelTheirs(f) \/ HandleCancel(f) \/ SendStreamCancel(f)
    BY <2>7, OthersEnds DEF CancelTheirs, HandleCancel, SendStreamCancel
  <2>8. CASE HandleFrame(f)
    <3>1. task' = task
      BY <2>8 DEF HandleFrame
    <3>2. /\ Len(down[f]) \in Nat \ {0} /\ Len(down'[f]) = Len(down[f]) - 1
          /\ \A i \in 1..Len(down'[f]) : down'[f][i] = down[f][i + 1]
          /\ Len(down[f]) = 1 => down'[f] = <<>>
          /\ Len(down[f]) > 1 => down'[f] # <<>>
      BY <2>8, Arrived
    <3> DEFINE frame == down[f][1]
    <3>3. frame = Head(down[f]) /\ frame.kind \in {"chunk", "end"} /\ frame.n \in Nat
      BY <2>0, <2>8, <3>2, Arrived
    <3>4. \/ UNCHANGED <<seen, shown>> /\ peer = "python" /\ HasId(frame) /\ frame.n \in seen[f]
          \/ /\ shown'[f] = [n |-> frame.n, open |-> frame.kind = "chunk"]
             /\ \/ seen'[f] = seen[f]
                \/ peer = "python" /\ HasId(frame) /\ seen'[f] = seen[f] \union {frame.n}
      BY <2>8, <3>3 DEF HandleFrame, StreamsType
    <3>5. peer = "python" /\ HasId(frame) => frame.kind = "end"
      BY DEF HasId, IdsCollide
    <3>6. frame.kind = "end" => /\ frame.n \notin seen[f]
                                /\ Streaming(f) => frame.n # task[f].n
          /\ frame.n <= task[f].n
          /\ \A i \in 2..Len(down[f]) : frame.kind = "end" /\ down[f][i].kind = "end" =>
                down[f][i].n # frame.n
      BY <1>2, <3>2 DEF EndsAreNew
    <3>7. /\ shown'[f] = [n |-> frame.n, open |-> frame.kind = "chunk"]
          /\ \/ seen'[f] = seen[f]
             \/ frame.kind = "end" /\ seen'[f] = seen[f] \union {frame.n}
      BY <3>4, <3>5, <3>6
    <3>8. EndIsComing(f)'
      <4>1. CASE Len(down[f]) = 1
        <5>1. ~Streaming(f) => frame.kind = "end"
          BY <1>2, <3>2, <4>1 DEF EndIsComing
        <5>2. shown'[f].open = (frame.kind = "chunk")
          BY <3>7
        <5>3. QED
          BY <3>1, <3>2, <4>1, <5>1, <5>2 DEF EndIsComing, Streaming
      <4>2. CASE Len(down[f]) > 1
        <5>1. down'[f][Len(down'[f])] = down[f][Len(down[f])]
          BY <3>2, <4>2
        <5>2. down'[f] # <<>> /\ down[f] # <<>>
          BY <2>0, <3>2, <4>2
        <5>3. QED
          BY <1>2, <3>1, <5>1, <5>2 DEF EndIsComing, Streaming
      <4>3. \A n \in Nat \ {0} : n = 1 \/ n > 1
        OBVIOUS
      <4>4. QED
        BY <3>2, <4>1, <4>2, <4>3
    <3> HIDE DEF frame
    <3>9. EndsAreNew(f)'
      <4>1. \A m \in seen'[f] : m <= task'[f].n
        BY <1>2, <3>1, <3>6, <3>7 DEF EndsAreNew
      <4>2. Streaming(f)' => task'[f].n \notin seen'[f]
        BY <1>2, <3>1, <3>6, <3>7 DEF EndsAreNew, Streaming
      <4>3. ASSUME NEW i \in 1..Len(down'[f])
            PROVE  /\ down'[f][i].n <= task'[f].n
                   /\ down'[f][i].kind = "end" =>
                         /\ down'[f][i].n \notin seen'[f]
                         /\ Streaming(f)' => down'[f][i].n # task'[f].n
        <5>1. i + 1 \in 2..Len(down[f]) /\ i + 1 \in 1..Len(down[f])
              /\ down'[f][i] = down[f][i + 1]
          BY <2>0, <3>2
        <5>2. QED
          BY <1>2, <3>1, <3>6, <3>7, <5>1 DEF EndsAreNew, Streaming
      <4>4. ASSUME NEW i \in 1..Len(down'[f]), NEW j \in 1..Len(down'[f]), i # j,
                   down'[f][i].kind = "end", down'[f][j].kind = "end"
            PROVE  down'[f][i].n # down'[f][j].n
        <5>1. /\ i + 1 \in 1..Len(down[f]) /\ down'[f][i] = down[f][i + 1]
              /\ j + 1 \in 1..Len(down[f]) /\ down'[f][j] = down[f][j + 1]
              /\ i + 1 # j + 1
          BY <2>0, <3>2, <4>4
        <5>2. QED
          BY <1>2, <4>4, <5>1 DEF EndsAreNew
      <4>5. QED
        BY <4>1, <4>2, <4>3, <4>4 DEF EndsAreNew
    <3>10. QED
      BY <1>2, <3>8, <3>9
  <2>9. QED
    BY <1>2, <2>1, <2>2, <2>4, <2>5, <2>6, <2>7, <2>8 DEF TaskStep
<1>3. QED
  BY <1>1, <1>2

LEMMA CancelsStep ==
    ASSUME StreamsType, FlagReachesTask, NEW f \in Friends, NEW g \in Friends, CancelsPaid(g),
           \/ Begin(f) \/ TaskStep(f) \/ CancelTheirs(f) \/ HandleCancel(f)
           \/ HandleFrame(f) \/ SendStreamCancel(f)
    PROVE  CancelsPaid(g)'
<1> USE DEF StreamsType, CancelsPaid, Unused, FlagReachesTask, Streaming
<1>1. CASE Begin(f)
  BY <1>1 DEF Begin
<1>2. CASE SendChunk(f)
  BY <1>2 DEF SendChunk
<1>3. CASE Finish(f)
  BY <1>3 DEF Finish, EndClears
<1>4. CASE Abort(f)
  BY <1>4 DEF Abort, EndClears
<1>5. CASE ClearStreamCancel(f)
  BY <1>5 DEF ClearStreamCancel
<1>6. CASE CancelTheirs(f)
  BY <1>6 DEF CancelTheirs
<1>7. CASE HandleCancel(f)
  BY <1>7 DEF HandleCancel
<1>8. CASE HandleFrame(f)
  BY <1>8 DEF HandleFrame
<1>9. CASE SendStreamCancel(f)
  BY <1>9 DEF SendStreamCancel
<1>10. QED
  BY <1>1, <1>2, <1>3, <1>4, <1>5, <1>6, <1>7, <1>8, <1>9 DEF TaskStep

LEMMA StreamsStep == StreamsInv /\ [Next]_vars => StreamsInv'
<1> SUFFICES ASSUME StreamsInv, [Next]_vars PROVE StreamsInv'
  OBVIOUS
<1>1. StreamsType' /\ StreamsType
  BY StreamsTypeStep DEF StreamsInv
<1>2. setup' = setup
  BY DEF Next, vars, Begin, TaskStep, SendChunk, Finish, Abort, ClearStreamCancel,
     CancelTheirs, HandleCancel, HandleFrame, SendStreamCancel
<1>3. IdsCollide' = IdsCollide /\ FlagReachesTask' = FlagReachesTask
  BY <1>2 DEF setup, IdsCollide, FlagReachesTask
<1>4. CASE UNCHANGED vars
  BY <1>4 DEF vars, StreamsInv, StreamsType, IdsCollide, FlagReachesTask, EndsAreNew,
     EndIsComing, CancelsPaid, Unused, Streaming, setup
<1>5. CASE Next
  <2>1. PICK f \in Friends : \/ Begin(f) \/ TaskStep(f) \/ CancelTheirs(f)
                             \/ HandleCancel(f) \/ HandleFrame(f) \/ SendStreamCancel(f)
    BY <1>5 DEF Next
  <2>2. ~IdsCollide => \A g \in Friends : EndsAreNew(g)' /\ EndIsComing(g)'
    BY <1>1, <2>1, EndsStep DEF StreamsInv
  <2>3. FlagReachesTask => \A g \in Friends : CancelsPaid(g)'
    BY <1>1, <2>1, CancelsStep DEF StreamsInv
  <2>4. QED
    BY <1>1, <1>3, <2>2, <2>3 DEF StreamsInv
<1>6. QED
  BY <1>4, <1>5

\* The account is kept.
THEOREM StreamsInvariant == Spec => []StreamsInv
<1>1. Init => StreamsInv
  BY StreamsInitHolds
<1>2. StreamsInv /\ [Next]_vars => StreamsInv'
  BY StreamsStep
<1>3. QED
  BY <1>1, <1>2, PTL DEF Spec

LEMMA StreamsInvSays == StreamsInv => StreamsClose /\ OneAbortPerCancel
<1> SUFFICES ASSUME StreamsInv PROVE StreamsClose /\ OneAbortPerCancel
  OBVIOUS
<1>1. StreamsClose
  BY DEF StreamsInv, StreamsClose, EndIsComing
<1>2. OneAbortPerCancel
  <2>1. ASSUME NEW f \in Friends, FlagReachesTask
        PROVE  aborts[f] + up[f] <= asked[f].times
    <3>1. /\ aborts[f] \in Nat /\ up[f] \in Nat /\ asked[f].times \in Nat
          /\ Unused(f) \in {0, 1} /\ aborts[f] + up[f] + Unused(f) <= asked[f].times
      BY <2>1 DEF StreamsInv, StreamsType, CancelsPaid, Unused
    <3>2. QED
      BY <3>1
  <2>2. QED
    BY <2>1 DEF OneAbortPerCancel
<1>3. QED
  BY <1>1, <1>2

\* For any number of friends, frames and streams, and every pair of SDKs whose ids do
\* not collide: once a stream is over and its frames have arrived, the friend's client
\* has closed it too (dispatch of stream_end in handle_message, the dedup set).
THEOREM StreamsAreClosed == Spec => []StreamsClose
BY StreamsInvariant, StreamsInvSays, PTL

\* For any number of cancels: where the flag reaches the task (is_stream_cancelled,
\* clear_stream_cancel), a cancel stops at most one stream of its friend.
THEOREM CancelsStopOne == Spec => []OneAbortPerCancel
BY StreamsInvariant, StreamsInvSays, PTL

-----------------------------------------------------------------------------
\* The answer to an invocation.

Bytes == [n : Nat, part : 0..2, ok : BOOLEAN]
Kinds == {"chunk", "end", "other"}
Events == [n : Nat, kind : Kinds, whole : BOOLEAN]

InvokeType ==
    /\ sdk \in {"python", "go", "node"}
    /\ caller \in {"reads", "left"} /\ body \in {"open", "clean", "ragged", "cut"}
    /\ reader \in {"idle", "challenge", "post", "reading", "done", "failed"}
    /\ sent \in Seq(Kinds)
    /\ wire \in Seq(Bytes) /\ buffer \in Seq(Bytes)
    /\ channel \in Seq(Events) /\ given \in Seq(Events)
    /\ sdk # "go" => channel = <<>>

\* Nothing is there before the answer begins.
NothingYet ==
    reader \in {"idle", "challenge", "post"} =>
        /\ sent = <<>> /\ wire = <<>> /\ buffer = <<>> /\ channel = <<>> /\ given = <<>>
        /\ body = "open" /\ caller = "reads"

\* The piece of text at position p of the answer: the number of its event, and what
\* it is of it.
EventAt(p) == IF p % 4 \in {1, 2} THEN (p \div 4) + 1 ELSE 0
PartAt(p) == IF p % 4 \in {1, 2} THEN p % 4 ELSE 0
IsAt(piece, p) == piece.n = EventAt(p) /\ piece.part = PartAt(p)

Got == given \o channel
Numbers == {Got[i].n : i \in DOMAIN Got}
DueTo(k) == {i \in 1..k : sent[i] = "other" => sdk = "go"}

\* The first k events were cut off the buffer.  What is in the buffer and on its way
\* follows them, piece by piece, up to where the body ends.
TextAt(k) ==
    /\ 4 * k + Len(buffer) + Len(wire) <= 4 * Len(sent)
    /\ body \in {"open", "clean"} => 4 * k + Len(buffer) + Len(wire) = 4 * Len(sent)
    /\ body = "ragged" => 4 * k + Len(buffer) + Len(wire) + 1 = 4 * Len(sent)
    /\ \A i \in 1..Len(buffer) :
          /\ IsAt(buffer[i], 4 * k + i)
          /\ sdk # "python" \/ buffer[i].part = 0 => buffer[i].ok
    /\ \A i \in 1..Len(wire) : IsAt(wire[i], 4 * k + Len(buffer) + i) /\ wire[i].ok

\* And what was due among the k is what the caller got or will find in the channel.
GivenTo(k) ==
    /\ \A i \in 1..k : sent[i] # "end"
    /\ Numbers = DueTo(k)

ReadTo(k) == TextAt(k) /\ GivenTo(k)

Ordered ==
    /\ \A i, j \in DOMAIN Got : i < j /\ Got[j].n # 0 => Got[i].n < Got[j].n
    /\ sdk # "python" => \A i \in DOMAIN Got : Got[i].whole

InvokeInv ==
    /\ InvokeType /\ NothingYet /\ Ordered
    /\ reader = "reading" => \E k \in 0..Len(sent) : ReadTo(k)
    /\ Over => GivenAsSent
-----------------------------------------------------------------------------
\* Where the pieces of an event are.
LEMMA Places ==
    ASSUME NEW k \in Nat
    PROVE  /\ EventAt(4 * k + 1) = k + 1 /\ PartAt(4 * k + 1) = 1
           /\ EventAt(4 * k + 2) = k + 1 /\ PartAt(4 * k + 2) = 2
           /\ EventAt(4 * k + 3) = 0 /\ PartAt(4 * k + 3) = 0
           /\ EventAt(4 * k + 4) = 0 /\ PartAt(4 * k + 4) = 0
BY DEF EventAt, PartAt

LEMMA NoEventWithoutPart ==
    ASSUME NEW p \in Nat, PartAt(p) = 0
    PROVE  EventAt(p) = 0
BY DEF EventAt, PartAt

LEMMA TwoNewlines ==
    ASSUME NEW k \in Nat, NEW i \in Nat \ {0},
           PartAt(4 * k + i) = 0, PartAt(4 * k + i + 1) = 0
    PROVE  i >= 3
BY DEF PartAt

LEMMA PieceType ==
    ASSUME InvokeType
    PROVE  /\ Len(buffer) \in Nat /\ Len(wire) \in Nat /\ Len(sent) \in Nat
           /\ \A i \in 1..Len(buffer) : buffer[i] \in Bytes
           /\ \A i \in 1..Len(wire) : wire[i] \in Bytes
           /\ \A i \in 1..Len(sent) : sent[i] \in Kinds
<1>1. wire \in Seq(Bytes) /\ buffer \in Seq(Bytes) /\ sent \in Seq(Kinds)
  BY DEF InvokeType
<1>2. QED
  BY <1>1

\* The blank lines are found where the events end.
LEMMA BlanksAre ==
    ASSUME InvokeType, NEW k \in Nat, TextAt(k)
    PROVE  /\ Len(buffer) >= 4 => Blanks # {} /\ Min(Blanks) = 3
           /\ Blanks # {} => Len(buffer) >= 4
<1>1. \A i \in 1..Len(buffer) : buffer[i] = Newline <=> PartAt(4 * k + i) = 0
  <2> TAKE i \in 1..Len(buffer)
  <2>1. /\ buffer[i] \in Bytes /\ IsAt(buffer[i], 4 * k + i)
        /\ buffer[i].part = 0 => buffer[i].ok
        /\ 4 * k + i \in Nat
    BY PieceType DEF TextAt
  <2>2. buffer[i] = [n |-> buffer[i].n, part |-> buffer[i].part, ok |-> buffer[i].ok]
    BY <2>1 DEF Bytes
  <2>3. CASE PartAt(4 * k + i) = 0
    <3>1. buffer[i].n = 0 /\ buffer[i].part = 0 /\ buffer[i].ok = TRUE
      BY <2>1, <2>3, NoEventWithoutPart DEF IsAt, Bytes
    <3>2. QED
      BY <2>2, <2>3, <3>1 DEF Newline, Half
  <2>4. CASE PartAt(4 * k + i) # 0
    BY <2>1, <2>4 DEF IsAt, Newline, Half
  <2>5. QED
    BY <2>3, <2>4
<1>2. \A i \in Blanks : i \in 1..(Len(buffer) - 1) /\ i >= 3
  <2> TAKE i \in Blanks
  <2>1. i \in 1..(Len(buffer) - 1) /\ buffer[i] = Newline /\ buffer[i + 1] = Newline
    BY DEF Blanks
  <2>2. i \in 1..Len(buffer) /\ i + 1 \in 1..Len(buffer) /\ i \in Nat \ {0}
    BY <2>1, PieceType
  <2>3. PartAt(4 * k + i) = 0 /\ PartAt(4 * k + (i + 1)) = 0
    BY <1>1, <2>1, <2>2
  <2>4. 4 * k + (i + 1) = 4 * k + i + 1
    BY <2>2
  <2>5. QED
    BY <2>1, <2>2, <2>3, <2>4, TwoNewlines
<1>3. Len(buffer) >= 4 => 3 \in Blanks
  <2> SUFFICES ASSUME Len(buffer) >= 4 PROVE 3 \in Blanks
    OBVIOUS
  <2>1. 3 \in 1..Len(buffer) /\ 4 \in 1..Len(buffer) /\ 3 \in 1..(Len(buffer) - 1)
    BY PieceType
  <2>2. buffer[3] = Newline /\ buffer[4] = Newline
    BY <1>1, <2>1, Places
  <2>3. 3 + 1 = 4
    OBVIOUS
  <2>4. QED
    BY <2>1, <2>2, <2>3 DEF Blanks
<1>4. Blanks # {} => Len(buffer) >= 4
  BY <1>2, PieceType
<1>5. 3 \in Blanks => Min(Blanks) = 3
  <2> SUFFICES ASSUME 3 \in Blanks PROVE Min(Blanks) = 3
    OBVIOUS
  <2>1. \A y \in Blanks : 3 <= y /\ y \in Nat
    BY <1>2, PieceType
  <2>2. \A x \in Blanks : (\A y \in Blanks : x <= y) => x = 3
    BY <2>1
  <2>3. \E x \in Blanks : \A y \in Blanks : x <= y
    BY <2>1
  <2>4. QED
    BY <2>2, <2>3 DEF Min
<1>6. QED
  BY <1>3, <1>4, <1>5

\* A block that begins with an event's two halves is that event.
LEMMA ParsedIs ==
    ASSUME InvokeType, NEW m \in 1..Len(sent), NEW block \in Seq(Bytes),
           Len(block) \in 2..3,
           \A i \in 1..Len(block) : IsAt(block[i], 4 * (m - 1) + i),
           sdk # "python" => \A i \in 1..Len(block) : block[i].ok
    PROVE  IF sent[m] = "other" /\ sdk # "go" THEN Parsed(block) = {}
           ELSE \E whole \in BOOLEAN :
                  /\ Parsed(block) = {[n |-> m, kind |-> sent[m], whole |-> whole]}
                  /\ sdk # "python" => whole
<1> DEFINE begun == {i \in DOMAIN block : block[i].part = 1}
           halves == {i \in DOMAIN block : block[i].n = m /\ block[i].ok}
<1>1. m - 1 \in Nat /\ m \in Nat /\ m # 0 /\ DOMAIN block = 1..Len(block)
  BY PieceType
<1>2. /\ 1 \in DOMAIN block /\ 2 \in DOMAIN block
      /\ block[1].n = m /\ block[1].part = 1
      /\ block[2].n = m /\ block[2].part = 2
      /\ 3 \in DOMAIN block => block[3].n = 0 /\ block[3].part = 0
      /\ DOMAIN block \subseteq {1, 2, 3}
  <2>1. /\ 1 \in 1..Len(block) /\ 2 \in 1..Len(block)
        /\ 1..Len(block) \subseteq {1, 2, 3}
    <3>1. \A l \in 2..3 : 1 \in 1..l /\ 2 \in 1..l /\ 1..l \subseteq {1, 2, 3}
      OBVIOUS
    <3>2. QED
      BY <3>1
  <2>2. /\ EventAt(4 * (m - 1) + 1) = m /\ PartAt(4 * (m - 1) + 1) = 1
        /\ EventAt(4 * (m - 1) + 2) = m /\ PartAt(4 * (m - 1) + 2) = 2
        /\ EventAt(4 * (m - 1) + 3) = 0 /\ PartAt(4 * (m - 1) + 3) = 0
    <3>1. (m - 1) + 1 = m
      BY <1>1
    <3>2. QED
      BY <1>1, <3>1, Places
  <2>3. IsAt(block[1], 4 * (m - 1) + 1) /\ IsAt(block[2], 4 * (m - 1) + 2)
        /\ (3 \in 1..Len(block) => IsAt(block[3], 4 * (m - 1) + 3))
    BY <2>1
  <2>4. QED
    BY <1>1, <2>1, <2>2, <2>3 DEF IsAt
<1>3. begun = {1}
  BY <1>2
<1>4. Max(begun) = 1
  <2>1. \A x \in begun : x = 1
    BY <1>3
  <2>2. QED
    BY <1>3, <2>1 DEF Max
<1>5. halves \subseteq {1, 2} /\ (sdk # "python" => halves = {1, 2})
  BY <1>1, <1>2
<1>6. Cardinality({1, 2}) = 2
  <2>0. IsFiniteSet({1}) /\ Cardinality({1}) = 1
    BY FS_Singleton, Zenon
  <2>1. 2 \notin {1}
    OBVIOUS
  <2>2. Cardinality({1} \union {2}) = Cardinality({1}) + 1
    BY <2>0, <2>1, FS_AddElement, Zenon
  <2>3. {1, 2} = {1} \union {2}
    OBVIOUS
  <2>4. Cardinality({1, 2}) = 1 + 1
    BY <2>0, <2>2, <2>3, Zenon
  <2>5. QED
    BY <2>4
<1>7. sdk # "python" => Cardinality(halves) = 2
  BY <1>5, <1>6, Zenon
<1>8. begun # {} /\ block[Max(begun)].n = m
  BY <1>2, <1>3, <1>4
<1>9. Parsed(block) = IF sent[m] = "other" /\ sdk # "go" THEN {}
                      ELSE {[n |-> m, kind |-> sent[m], whole |-> Cardinality(halves) = 2]}
  BY <1>8 DEF Parsed
<1>10. (Cardinality(halves) = 2) \in BOOLEAN
  OBVIOUS
<1> HIDE DEF begun, halves
<1>11. QED
  BY <1>7, <1>9, <1>10

\* What the caller takes from the channel it had got already.
LEMMA TakenIsGot ==
    ASSUME InvokeType, Take
    PROVE  Got' = Got /\ given' \in Seq(Events) /\ channel' \in Seq(Events)
<1>1. given \in Seq(Events) /\ channel \in Seq(Events) /\ channel # <<>>
  BY DEF InvokeType, Take
<1>2. given' = Append(given, Head(channel)) /\ channel' = Tail(channel)
  BY DEF Take
<1>3. Head(channel) \in Events /\ Tail(channel) \in Seq(Events)
  BY <1>1
<1>4. \A g, c \in Seq(Events) : c # <<>> => Append(g, Head(c)) \o Tail(c) = g \o c
  <2> SUFFICES ASSUME NEW g \in Seq(Events), NEW c \in Seq(Events), c # <<>>
               PROVE  Append(g, Head(c)) \o Tail(c) = g \o c
    OBVIOUS
  <2>1. /\ Head(c) \in Events /\ Tail(c) \in Seq(Events) /\ Len(Tail(c)) = Len(c) - 1
        /\ \A i \in 1..Len(Tail(c)) : Tail(c)[i] = c[i + 1]
    BY HeadTailProperties
  <2>0. Head(c) = c[1] /\ Len(c) \in Nat \ {0} /\ Len(g) \in Nat
    OBVIOUS
  <2> DEFINE h == Head(c)  t == Tail(c)  a == Append(g, h)
  <2>2. a \in Seq(Events) /\ Len(a) = Len(g) + 1 /\ a[Len(g) + 1] = h
        /\ \A i \in 1..Len(g) : a[i] = g[i]
    BY <2>1, AppendProperties
  <2> HIDE DEF h, t, a
  <2>3. a \o t \in Seq(Events) /\ g \o c \in Seq(Events)
        /\ Len(a \o t) = Len(a) + Len(t) /\ Len(g \o c) = Len(g) + Len(c)
    BY <2>0, <2>1, <2>2, ConcatProperties DEF t
  <2>4. ASSUME NEW i \in 1..(Len(g) + Len(c)) PROVE (a \o t)[i] = (g \o c)[i]
    <3>1. CASE i \in 1..Len(g)
      BY <2>0, <2>1, <2>2, <3>1 DEF t
    <3>2. CASE i = Len(g) + 1
      BY <2>0, <2>1, <2>2, <3>2 DEF t, h
    <3>3. CASE i > Len(g) + 1
      <4>1. (a \o t)[i] = t[i - Len(a)] /\ (g \o c)[i] = c[i - Len(g)]
        BY <2>0, <2>1, <2>2, <3>3 DEF t
      <4>2. i - Len(a) \in 1..Len(t) /\ (i - Len(a)) + 1 = i - Len(g)
        BY <2>0, <2>1, <2>2, <3>3 DEF t
      <4>3. t[i - Len(a)] = c[(i - Len(a)) + 1]
        BY <2>0, <2>1, <4>2 DEF t
      <4>4. QED
        BY <4>1, <4>2, <4>3
    <3>4. QED
      <4>1. i \in Nat /\ i >= 1
        BY <2>0
      <4>2. i \in 1..Len(g) \/ i = Len(g) + 1 \/ i > Len(g) + 1
        BY <2>0, <4>1
      <4>3. QED
        BY <3>1, <3>2, <3>3, <4>2
  <2>5. Len(a \o t) = Len(g \o c) /\ Len(g \o c) = Len(g) + Len(c)
    BY <2>0, <2>1, <2>2, <2>3 DEF t
  <2>6. a \o t = g \o c
    BY <2>3, <2>4, <2>5, SeqEqual
  <2>7. QED
    BY <2>6 DEF a, t, h
<1>5. QED
  BY <1>1, <1>2, <1>3, <1>4 DEF Got

\* What is yielded, or sent on the channel, is got last.
LEMMA GivenIsGot ==
    ASSUME InvokeType, NEW e \in Events, Gives(e)
    PROVE  /\ given' \in Seq(Events) /\ channel' \in Seq(Events)
           /\ sdk # "go" => channel' = <<>>
           /\ Got \in Seq(Events) /\ Got' \in Seq(Events)
           /\ Len(Got') = Len(Got) + 1 /\ Got'[Len(Got) + 1] = e
           /\ \A i \in 1..Len(Got) : Got'[i] = Got[i]
<1>1. /\ given \in Seq(Events) /\ channel \in Seq(Events) /\ Got \in Seq(Events)
      /\ sdk # "go" => channel = <<>>
  BY DEF InvokeType, Got
<1>2. CASE sdk = "go"
  <2>1. given' = given /\ channel' = Append(channel, e)
    BY <1>2 DEF Gives
  <2>2. QED
    BY <1>1, <1>2, <2>1 DEF Got
<1>3. CASE sdk # "go"
  <2>1. given' = Append(given, e) /\ channel' = <<>> /\ channel = <<>>
    BY <1>1, <1>3 DEF Gives
  <2>2. Got = given /\ Got' = given'
    BY <1>1, <2>1 DEF Got
  <2>3. QED
    BY <1>1, <1>3, <2>1, <2>2
<1>4. QED
  BY <1>2, <1>3

\* Between the events the caller has got what was due, and nothing else.
LEMMA SaysAsSent ==
    ASSUME InvokeType, Ordered, NEW k \in 0..Len(sent), GivenTo(k)
    PROVE  /\ Numbers \ {0} = Numbers
           /\ Numbers \subseteq Due
           /\ \A i \in Due, j \in Numbers : i < j => i \in Numbers
           /\ k = Len(sent) => Numbers = Due
<1>1. Len(sent) \in Nat /\ DOMAIN sent = 1..Len(sent)
  BY DEF InvokeType
<1>2. \A i \in 1..k : i \in Nat /\ i # 0 /\ i \in 1..Len(sent) /\ \A j \in 1..(i - 1) : j \in 1..k
  BY <1>1
<1>3. Numbers = DueTo(k) /\ \A i \in 1..k : sent[i] # "end"
  BY DEF GivenTo
<1>4. \A i \in 1..k : i \in Due <=> i \in Numbers
  BY <1>1, <1>2, <1>3 DEF Due, DueTo
<1>5. Numbers \subseteq 1..k
  BY <1>3 DEF DueTo
<1>6. Due \subseteq 1..Len(sent)
  BY <1>1 DEF Due
<1>7. \A i \in Due, j \in Numbers : i < j => i \in 1..k
  BY <1>1, <1>5, <1>6
<1>8. QED
  BY <1>2, <1>4, <1>5, <1>6, <1>7

\* GivenAsSent, in the terms of the invariant.
LEMMA AsSentIs ==
    ASSUME InvokeType, Ordered,
           Numbers \ {0} \subseteq Due,
           \A i \in Due, j \in Numbers \ {0} : i < j => i \in Numbers \ {0},
           reader = "done" /\ caller = "reads" /\ ~(sdk = "go" /\ body = "ragged")
               => Numbers \ {0} = Due
    PROVE  GivenAsSent
BY DEF GivenAsSent, Ordered, Numbers, Got

\* One event more was read, and given if it was due.
LEMMA OneEventMore ==
    ASSUME InvokeType, Ordered, NEW k \in 0..(Len(sent) - 1), GivenTo(k),
           NEW e \in SUBSET Events, UNCHANGED <<sent, sdk>>,
           IF sent[k + 1] = "other" /\ sdk # "go"
           THEN e = {} /\ UNCHANGED <<channel, given>>
           ELSE \E x \in Events : /\ e = {x} /\ Gives(x)
                                  /\ x.n = k + 1 /\ x.kind = sent[k + 1]
                                  /\ sdk # "python" => x.whole
    PROVE  /\ given' \in Seq(Events) /\ channel' \in Seq(Events)
           /\ sdk' # "go" => channel' = <<>>
           /\ Ordered'
           /\ Numbers' = DueTo(k + 1)'
           /\ (\A y \in e : y.kind # "end") => GivenTo(k + 1)'
           /\ (\E y \in e : y.kind = "end") \/ k + 1 = Len(sent) =>
                 Numbers' = Due' /\ Numbers' \ {0} = Numbers'
<1>1. Len(sent) \in Nat /\ DOMAIN sent = 1..Len(sent) /\ k \in Nat /\ k + 1 \in Nat
      /\ k + 1 \in 1..Len(sent) /\ 1..(k + 1) = 1..k \union {k + 1} /\ k + 1 \notin 1..k
  BY DEF InvokeType
<1>2. Numbers = DueTo(k) /\ (\A i \in 1..k : sent[i] # "end")
  BY DEF GivenTo
<1>3. ASSUME sent[k + 1] = "other" /\ sdk # "go"
      PROVE  /\ given' \in Seq(Events) /\ channel' \in Seq(Events)
             /\ sdk' # "go" => channel' = <<>>
             /\ Ordered'
             /\ Numbers' = DueTo(k + 1)'
             /\ (\A y \in e : y.kind # "end") => GivenTo(k + 1)'
             /\ (\E y \in e : y.kind = "end") => Numbers' = Due' /\ Numbers' \ {0} = Numbers'
  <2>1. UNCHANGED <<channel, given>> /\ Got' = Got /\ e = {}
    BY <1>3 DEF Got
  <2>2. given' \in Seq(Events) /\ channel' \in Seq(Events) /\ (sdk' # "go" => channel' = <<>>)
    BY <2>1 DEF InvokeType
  <2>3. Ordered' /\ Numbers' = Numbers
    BY <2>1 DEF Ordered, Numbers
  <2>4. DueTo(k + 1)' = DueTo(k)
    BY <1>1, <1>3 DEF DueTo
  <2>5. \A i \in 1..(k + 1) : sent'[i] # "end"
    BY <1>1, <1>2, <1>3
  <2>6. QED
    BY <1>2, <2>1, <2>2, <2>3, <2>4, <2>5 DEF GivenTo
<1>4. ASSUME ~(sent[k + 1] = "other" /\ sdk # "go")
      PROVE  /\ given' \in Seq(Events) /\ channel' \in Seq(Events)
             /\ sdk' # "go" => channel' = <<>>
             /\ Ordered'
             /\ Numbers' = DueTo(k + 1)'
             /\ (\A y \in e : y.kind # "end") => GivenTo(k + 1)'
             /\ (\E y \in e : y.kind = "end") => Numbers' = Due' /\ Numbers' \ {0} = Numbers'
  <2>1. PICK x \in Events : /\ e = {x} /\ Gives(x)
                            /\ x.n = k + 1 /\ x.kind = sent[k + 1]
                            /\ sdk # "python" => x.whole
    BY <1>4
  <2>2. /\ given' \in Seq(Events) /\ channel' \in Seq(Events)
        /\ sdk # "go" => channel' = <<>>
        /\ Got \in Seq(Events) /\ Got' \in Seq(Events)
        /\ Len(Got') = Len(Got) + 1 /\ Got'[Len(Got) + 1] = x
        /\ \A i \in 1..Len(Got) : Got'[i] = Got[i]
    BY <2>1, GivenIsGot
  <2>3. /\ Len(Got) \in Nat
        /\ DOMAIN Got = 1..Len(Got) /\ DOMAIN Got' = 1..Len(Got) \union {Len(Got) + 1}
    BY <2>2
  <2>4. \A i \in 1..Len(Got) : Got[i].n \in 1..k
    BY <1>2, <2>3 DEF Numbers, DueTo
  <2>5. Ordered'
    <3>1. \A i, j \in DOMAIN Got' : i < j /\ Got'[j].n # 0 => Got'[i].n < Got'[j].n
      <4> SUFFICES ASSUME NEW i \in DOMAIN Got', NEW j \in DOMAIN Got',
                          i < j, Got'[j].n # 0
                   PROVE  Got'[i].n < Got'[j].n
        OBVIOUS
      <4>1. i \in 1..Len(Got)
        BY <2>3
      <4>2. CASE j \in 1..Len(Got)
        BY <2>2, <2>3, <4>1, <4>2 DEF Ordered
      <4>3. CASE j = Len(Got) + 1
        BY <1>1, <2>1, <2>2, <2>4, <4>1, <4>3
      <4>4. QED
        BY <2>3, <4>2, <4>3
    <3>2. sdk' # "python" => \A i \in DOMAIN Got' : Got'[i].whole
      BY <2>1, <2>2, <2>3 DEF Ordered
    <3>3. QED
      BY <3>1, <3>2 DEF Ordered
  <2>6. Numbers' = Numbers \union {k + 1}
    BY <2>1, <2>2, <2>3 DEF Numbers
  <2>7. DueTo(k + 1)' = DueTo(k) \union {k + 1}
    BY <1>1, <1>4 DEF DueTo
  <2>8. Numbers' = DueTo(k + 1)'
    BY <1>2, <2>6, <2>7
  <2>9. x.kind # "end" => GivenTo(k + 1)'
    BY <1>1, <1>2, <2>1, <2>8 DEF GivenTo
  <2>10. x.kind = "end" => Numbers' = Due' /\ Numbers' \ {0} = Numbers'
    <3> SUFFICES ASSUME x.kind = "end" PROVE Numbers' = Due' /\ Numbers' \ {0} = Numbers'
      OBVIOUS
    <3>1. sent'[k + 1] = "end" /\ sent' = sent /\ sdk' = sdk
      BY <2>1
    <3>2. ASSUME NEW i \in Due' PROVE i \in DueTo(k + 1)'
      <4>1. /\ i \in 1..Len(sent) /\ \A j \in 1..(i - 1) : sent[j] # "end"
            /\ sent[i] = "other" => sdk = "go"
        BY <1>1, <3>1, <3>2 DEF Due
      <4>2. ~(k + 1 \in 1..(i - 1))
        BY <3>1, <4>1
      <4>3. i \in 1..(k + 1)
        BY <1>1, <4>1, <4>2
      <4>4. QED
        BY <3>1, <4>1, <4>3 DEF DueTo
    <3>3. ASSUME NEW i \in DueTo(k + 1)' PROVE i \in Due' /\ i # 0
      <4>1. i \in 1..(k + 1) /\ (sent[i] = "other" => sdk = "go")
        BY <3>1, <3>3 DEF DueTo
      <4>2. i \in 1..Len(sent) /\ i # 0 /\ \A j \in 1..(i - 1) : j \in 1..k
        BY <1>1, <4>1
      <4>3. QED
        BY <1>1, <1>2, <3>1, <4>1, <4>2 DEF Due
    <3>4. QED
      BY <2>8, <3>2, <3>3
  <2>11. QED
    BY <2>1, <2>2, <2>5, <2>8, <2>9, <2>10
<1>5. (\A y \in e : y.kind # "end") \/ \E y \in e : y.kind = "end"
  OBVIOUS
<1>6. k + 1 = Len(sent) /\ GivenTo(k + 1)' => Numbers' = Due' /\ Numbers' \ {0} = Numbers'
  <2> SUFFICES ASSUME k + 1 = Len(sent), GivenTo(k + 1)'
               PROVE  Numbers' = Due' /\ Numbers' \ {0} = Numbers'
    OBVIOUS
  <2>1. Numbers' = DueTo(k + 1)' /\ \A i \in 1..(k + 1) : sent[i] # "end"
    BY DEF GivenTo
  <2>2. \A i \in 1..(k + 1) : i # 0 /\ \A j \in 1..(i - 1) : j \in 1..(k + 1)
    BY <1>1
  <2>3. Due' = DueTo(k + 1)'
    BY <1>1, <2>1, <2>2 DEF Due, DueTo
  <2>4. \A i \in DueTo(k + 1)' : i # 0
    BY <2>2 DEF DueTo
  <2>5. QED
    BY <2>1, <2>3, <2>4
<1>7. QED
  BY <1>3, <1>4, <1>5, <1>6

\* A cut of a sequence of pieces.
LEMMA Cut ==
    ASSUME NEW s \in Seq(Bytes), NEW m \in Nat \ {0}, NEW n \in Nat, n <= Len(s), m <= n + 1
    PROVE  /\ SubSeq(s, m, n) \in Seq(Bytes) /\ Len(SubSeq(s, m, n)) = n - m + 1
           /\ \A i \in 1..(n - m + 1) : SubSeq(s, m, n)[i] = s[m + i - 1]
<1>1. \A i \in m..n : s[i] \in Bytes
  OBVIOUS
<1>2. m \in Int /\ n \in Int /\ (m <= n \/ m = n + 1)
  OBVIOUS
<1>3. /\ SubSeq(s, m, n) \in Seq(Bytes)
      /\ Len(SubSeq(s, m, n)) = IF m <= n THEN n - m + 1 ELSE 0
      /\ \A i \in 1..(n - m + 1) : SubSeq(s, m, n)[i] = s[m + i - 1]
  BY <1>1, <1>2, SubSeqProperties
<1>4. (IF m <= n THEN n - m + 1 ELSE 0) = n - m + 1
  BY <1>2
<1>5. QED
  BY <1>3, <1>4

LEMMA WritesText ==
    ASSUME InvokeType, NEW k \in Nat, TextAt(k), NEW kind \in Kinds, ServerWrites(kind)
    PROVE  wire' \in Seq(Bytes) /\ sent' \in Seq(Kinds) /\ TextAt(k)'
           /\ Len(sent') = Len(sent) + 1 /\ \A i \in 1..Len(sent) : sent'[i] = sent[i]
<1> DEFINE n == Len(sent) + 1
           new == Written(n)
<1>1. sent \in Seq(Kinds) /\ wire \in Seq(Bytes) /\ buffer \in Seq(Bytes)
      /\ Len(sent) \in Nat /\ Len(wire) \in Nat /\ Len(buffer) \in Nat
  BY DEF InvokeType
<1>2. /\ new \in Seq(Bytes) /\ Len(new) = 4
      /\ new[1].n = n /\ new[1].part = 1 /\ new[2].n = n /\ new[2].part = 2
      /\ new[3].n = 0 /\ new[3].part = 0 /\ new[4].n = 0 /\ new[4].part = 0
      /\ \A i \in 1..4 : new[i].ok
  BY <1>1 DEF Written, Half, Newline, Bytes
<1> HIDE DEF new
<1>3. /\ wire' = wire \o new /\ sent' = Append(sent, kind)
      /\ UNCHANGED <<body, buffer, sdk>> /\ body = "open"
  BY DEF ServerWrites, invokeSetup, new
<1>4. /\ wire' \in Seq(Bytes) /\ Len(wire') = Len(wire) + 4
      /\ \A i \in 1..Len(wire) : wire'[i] = wire[i]
      /\ \A i \in 1..4 : wire'[Len(wire) + i] = new[i]
  <2>1. /\ wire \o new \in Seq(Bytes) /\ Len(wire \o new) = Len(wire) + Len(new)
        /\ \A i \in 1 .. Len(wire) + Len(new) :
              (wire \o new)[i] = IF i <= Len(wire) THEN wire[i] ELSE new[i - Len(wire)]
    BY <1>1, <1>2, ConcatProperties
  <2>2. QED
    BY <1>1, <1>2, <1>3, <2>1
<1>5. /\ sent' \in Seq(Kinds) /\ Len(sent') = Len(sent) + 1
      /\ \A i \in 1..Len(sent) : sent'[i] = sent[i]
  BY <1>1, <1>3
<1>6. 4 * k + Len(buffer) + Len(wire) = 4 * Len(sent)
  BY <1>3 DEF TextAt
<1>7. \A i \in 1..4 : IsAt(new[i], 4 * Len(sent) + i)
  <2>1. \A j \in 1..4 : j = 1 \/ j = 2 \/ j = 3 \/ j = 4
    OBVIOUS
  <2>2. /\ IsAt(new[1], 4 * Len(sent) + 1) /\ IsAt(new[2], 4 * Len(sent) + 2)
        /\ IsAt(new[3], 4 * Len(sent) + 3) /\ IsAt(new[4], 4 * Len(sent) + 4)
    BY <1>1, <1>2, Places DEF IsAt
  <2>3. QED
    BY <2>1, <2>2
<1>8. ASSUME NEW i \in 1..Len(wire')
      PROVE  IsAt(wire'[i], 4 * k + Len(buffer') + i) /\ wire'[i].ok
  <2>1. CASE i \in 1..Len(wire)
    BY <1>3, <1>4, <2>1 DEF TextAt, IsAt
  <2>2. CASE i \notin 1..Len(wire)
    <3> DEFINE j == i - Len(wire)
    <3>1. j \in 1..4 /\ i = Len(wire) + j
      BY <1>1, <1>4, <2>2
    <3>2. 4 * k + Len(buffer') + i = 4 * Len(sent) + j
      <4>1. Len(buffer') = Len(buffer)
        BY <1>3
      <4> HIDE DEF j
      <4>2. 4 * k + Len(buffer) + (Len(wire) + j) = (4 * k + Len(buffer) + Len(wire)) + j
        BY <1>1, <3>1
      <4>3. QED
        BY <1>6, <3>1, <4>1, <4>2
    <3>3. QED
      BY <1>2, <1>4, <1>7, <3>1, <3>2
  <2>3. QED
    BY <2>1, <2>2
<1>9. 4 * k + Len(buffer') + Len(wire') = 4 * Len(sent')
  BY <1>1, <1>3, <1>4, <1>5, <1>6
<1>10. 4 * k + Len(buffer') + Len(wire') <= 4 * Len(sent')
  BY <1>1, <1>3, <1>4, <1>5, <1>9
<1>11. \A i \in 1..Len(buffer') :
          /\ IsAt(buffer'[i], 4 * k + i)
          /\ sdk' # "python" \/ buffer'[i].part = 0 => buffer'[i].ok
  BY <1>3 DEF TextAt
<1>12. /\ body' \in {"open", "clean"} => 4 * k + Len(buffer') + Len(wire') = 4 * Len(sent')
       /\ body' = "ragged" => 4 * k + Len(buffer') + Len(wire') + 1 = 4 * Len(sent')
  BY <1>3, <1>9
<1>13. TextAt(k)'
  BY <1>8, <1>10, <1>11, <1>12 DEF TextAt, IsAt
<1>14. QED
  BY <1>4, <1>5, <1>13

LEMMA ClosesText ==
    ASSUME InvokeType, NEW k \in Nat, TextAt(k), ServerCloses
    PROVE  wire' \in Seq(Bytes) /\ TextAt(k)'
<1>1. /\ sent \in Seq(Kinds) /\ wire \in Seq(Bytes) /\ buffer \in Seq(Bytes)
      /\ Len(sent) \in Nat /\ Len(wire) \in Nat /\ Len(buffer) \in Nat
  BY DEF InvokeType
<1>2. UNCHANGED <<sent, buffer, sdk>> /\ body = "open"
  BY DEF ServerCloses, invokeSetup
<1>3. 4 * k + Len(buffer) + Len(wire) = 4 * Len(sent)
  BY <1>2 DEF TextAt
<1>4. ASSUME NEW n \in 0..Len(wire), wire' = SubSeq(wire, 1, n),
             body' \in {"clean", "ragged", "cut"},
             body' = "clean" => n = Len(wire),
             body' = "ragged" => n + 1 = Len(wire)
      PROVE  wire' \in Seq(Bytes) /\ TextAt(k)'
  <2>1. /\ wire' \in Seq(Bytes) /\ Len(wire') = n
        /\ \A i \in 1..n : wire'[i] = wire[i] /\ i \in 1..Len(wire)
    <3>1. /\ SubSeq(wire, 1, n) \in Seq(Bytes) /\ Len(SubSeq(wire, 1, n)) = n - 1 + 1
          /\ \A i \in 1..(n - 1 + 1) : SubSeq(wire, 1, n)[i] = wire[1 + i - 1]
      BY <1>1, Cut
    <3>2. QED
      BY <1>1, <1>4, <3>1
  <2>2. /\ 4 * k + Len(buffer') + Len(wire') <= 4 * Len(sent')
        /\ body' = "clean" => 4 * k + Len(buffer') + Len(wire') = 4 * Len(sent')
        /\ body' = "ragged" => 4 * k + Len(buffer') + Len(wire') + 1 = 4 * Len(sent')
    <3>1. Len(buffer') = Len(buffer) /\ Len(sent') = Len(sent)
      BY <1>2
    <3>2. 4 * k + Len(buffer) + n <= 4 * Len(sent)
      BY <1>1, <1>3
    <3>3. n = Len(wire) => 4 * k + Len(buffer) + n = 4 * Len(sent)
      BY <1>3
    <3>4. n + 1 = Len(wire) => 4 * k + Len(buffer) + n + 1 = 4 * Len(sent)
      BY <1>1, <1>3
    <3>5. QED
      BY <1>4, <2>1, <3>1, <3>2, <3>3, <3>4
  <2>3. QED
    BY <1>2, <1>4, <2>1, <2>2 DEF TextAt, IsAt
<1>5. CASE body' = "clean" /\ wire' = wire
  BY <1>1, <1>2, <1>3, <1>5 DEF TextAt, IsAt
<1>6. CASE wire # <<>> /\ body' = "ragged" /\ wire' = SubSeq(wire, 1, Len(wire) - 1)
  <2>1. Len(wire) - 1 \in 0..Len(wire) /\ (Len(wire) - 1) + 1 = Len(wire)
    BY <1>1, <1>6
  <2>2. QED
    BY <1>4, <1>6, <2>1
<1>7. CASE body' = "cut" /\ \E n \in 0..Len(wire) : wire' = SubSeq(wire, 1, n)
  BY <1>4, <1>7
<1>8. QED
  BY <1>5, <1>6, <1>7 DEF ServerCloses

\* A piece of the stream is decoded and put at the end of the buffer.
LEMMA ReceivesText ==
    ASSUME InvokeType, NEW k \in Nat, TextAt(k), Receive
    PROVE  wire' \in Seq(Bytes) /\ buffer' \in Seq(Bytes) /\ TextAt(k)'
<1>1. /\ sent \in Seq(Kinds) /\ wire \in Seq(Bytes) /\ buffer \in Seq(Bytes)
      /\ Len(sent) \in Nat /\ Len(wire) \in Nat /\ Len(buffer) \in Nat
  BY DEF InvokeType
<1>2. UNCHANGED <<sent, body, sdk>>
  BY DEF Receive, invokeSetup
<1>3. PICK n \in 1..Len(wire) : /\ buffer' = buffer \o Decoded(SubSeq(wire, 1, n))
                                /\ wire' = SubSeq(wire, n + 1, Len(wire))
  BY DEF Receive
<1> DEFINE piece == SubSeq(wire, 1, n)
           text == Decoded(piece)
<1>4. /\ n \in Nat /\ n <= Len(wire)
      /\ piece \in Seq(Bytes) /\ Len(piece) = n /\ DOMAIN piece = 1..n
      /\ \A i \in 1..n : piece[i] = wire[i] /\ i \in 1..Len(wire)
  <2>1. /\ piece \in Seq(Bytes) /\ Len(piece) = n - 1 + 1
        /\ \A i \in 1..(n - 1 + 1) : piece[i] = wire[1 + i - 1]
    BY <1>1, Cut
  <2>2. n - 1 + 1 = n /\ n \in Nat /\ n <= Len(wire) /\ \A i \in 1..n : 1 + i - 1 = i
    BY <1>1
  <2>3. QED
    BY <1>1, <2>1, <2>2
<1>5. /\ wire' \in Seq(Bytes) /\ Len(wire') = Len(wire) - n
      /\ \A i \in 1..(Len(wire) - n) : wire'[i] = wire[n + i]
  <2>1. /\ SubSeq(wire, n + 1, Len(wire)) \in Seq(Bytes)
        /\ Len(SubSeq(wire, n + 1, Len(wire))) = Len(wire) - (n + 1) + 1
        /\ \A i \in 1..(Len(wire) - (n + 1) + 1) :
              SubSeq(wire, n + 1, Len(wire))[i] = wire[n + 1 + i - 1]
    BY <1>1, <1>4, Cut
  <2>2. QED
    BY <1>1, <1>3, <1>4, <2>1
<1> HIDE DEF piece
<1>6. ASSUME NEW i \in 1..n
      PROVE  /\ text[i] \in Bytes /\ text[i].n = wire[i].n /\ text[i].part = wire[i].part
             /\ sdk # "python" \/ text[i].part = 0 => text[i].ok = wire[i].ok
  <2>1. text[i] = piece[i] \/ text[i] = [piece[i] EXCEPT !.ok = FALSE]
    BY <1>4 DEF Decoded
  <2>2. sdk # "python" \/ piece[i].part = 0 => text[i] = piece[i]
    BY <1>4 DEF Decoded
  <2>3. piece[i] \in Bytes /\ piece[i] = wire[i]
    BY <1>1, <1>4
  <2> HIDE DEF text
  <2>4. QED
    BY <2>1, <2>2, <2>3 DEF Bytes
<1>7. text \in Seq(Bytes) /\ Len(text) = n
  <2>1. text = [i \in 1..n |-> text[i]]
    BY <1>4 DEF Decoded
  <2>2. \A i \in 1..n : text[i] \in Bytes
    BY <1>6
  <2> HIDE DEF text
  <2>3. QED
    BY <1>4, <2>1, <2>2, IsASeq
<1> HIDE DEF text
<1>8. /\ buffer' \in Seq(Bytes) /\ Len(buffer') = Len(buffer) + n
      /\ \A i \in 1..Len(buffer) : buffer'[i] = buffer[i]
      /\ \A i \in 1..n : buffer'[Len(buffer) + i] = text[i]
  <2>1. /\ buffer \o text \in Seq(Bytes) /\ Len(buffer \o text) = Len(buffer) + Len(text)
        /\ \A i \in 1 .. Len(buffer) + Len(text) :
              (buffer \o text)[i] = IF i <= Len(buffer) THEN buffer[i] ELSE text[i - Len(buffer)]
    BY <1>1, <1>7, ConcatProperties
  <2>2. buffer' = buffer \o text
    BY <1>3 DEF text, piece
  <2>3. QED
    BY <1>1, <1>4, <1>7, <2>1, <2>2
<1>9. ASSUME NEW i \in 1..Len(buffer')
      PROVE  /\ IsAt(buffer'[i], 4 * k + i)
             /\ sdk # "python" \/ buffer'[i].part = 0 => buffer'[i].ok
  <2>1. CASE i \in 1..Len(buffer)
    BY <1>8, <2>1 DEF TextAt
  <2>2. CASE i \notin 1..Len(buffer)
    <3> DEFINE j == i - Len(buffer)
    <3>1. j \in 1..n /\ j \in 1..Len(wire) /\ i = Len(buffer) + j
          /\ 4 * k + Len(buffer) + j = 4 * k + i
      BY <1>1, <1>4, <1>8, <2>2
    <3>2. buffer'[i] = text[j] /\ IsAt(wire[j], 4 * k + i) /\ wire[j].ok
      BY <1>8, <3>1 DEF TextAt
    <3> HIDE DEF j
    <3>3. QED
      BY <1>6, <3>1, <3>2 DEF IsAt
  <2>3. QED
    BY <2>1, <2>2
<1>10. ASSUME NEW i \in 1..Len(wire')
       PROVE  IsAt(wire'[i], 4 * k + Len(buffer') + i) /\ wire'[i].ok
  <2>1. /\ wire'[i] = wire[n + i] /\ n + i \in 1..Len(wire)
        /\ 4 * k + Len(buffer') + i = 4 * k + Len(buffer) + (n + i)
    <3>1. i \in 1..(Len(wire) - n)
      BY <1>5
    <3>2. wire'[i] = wire[n + i] /\ n + i \in 1..Len(wire)
      BY <1>1, <1>4, <1>5, <3>1
    <3>3. Len(buffer') = Len(buffer) + n /\ i \in Nat
      BY <1>1, <1>4, <1>8, <3>1
    <3>4. 4 * k + (Len(buffer) + n) + i = 4 * k + Len(buffer) + (n + i)
      BY <1>1, <1>4, <3>3
    <3>5. QED
      BY <3>2, <3>3, <3>4
  <2>2. QED
    BY <2>1 DEF TextAt
<1>11. 4 * k + Len(buffer') + Len(wire') = 4 * k + Len(buffer) + Len(wire)
  BY <1>1, <1>4, <1>5, <1>8
<1>12. /\ 4 * k + Len(buffer') + Len(wire') <= 4 * Len(sent')
       /\ body' \in {"open", "clean"} => 4 * k + Len(buffer') + Len(wire') = 4 * Len(sent')
       /\ body' = "ragged" => 4 * k + Len(buffer') + Len(wire') + 1 = 4 * Len(sent')
  <2>1. 4 * k + Len(buffer') + Len(wire') + 1 = 4 * k + Len(buffer) + Len(wire) + 1
    BY <1>11
  <2>2. QED
    BY <1>2, <1>11, <2>1 DEF TextAt
<1>13. QED
  BY <1>2, <1>5, <1>8, <1>9, <1>10, <1>12 DEF TextAt

\* The first block of the buffer is the next event, and it is cut off.
LEMMA NextText ==
    ASSUME InvokeType, NEW k \in Nat, TextAt(k), Len(buffer) >= 4,
           buffer' = SubSeq(buffer, 5, Len(buffer)), UNCHANGED <<sdk, stream>>
    PROVE  /\ k + 1 \in 1..Len(sent)
           /\ buffer' \in Seq(Bytes) /\ TextAt(k + 1)'
<1>1. /\ sent \in Seq(Kinds) /\ wire \in Seq(Bytes) /\ buffer \in Seq(Bytes)
      /\ Len(sent) \in Nat /\ Len(wire) \in Nat /\ Len(buffer) \in Nat
  BY DEF InvokeType
<1>2. /\ buffer' \in Seq(Bytes) /\ Len(buffer') = Len(buffer) - 4
      /\ \A i \in 1..(Len(buffer) - 4) : buffer'[i] = buffer[4 + i]
  <2>1. /\ SubSeq(buffer, 5, Len(buffer)) \in Seq(Bytes)
        /\ Len(SubSeq(buffer, 5, Len(buffer))) = Len(buffer) - 5 + 1
        /\ \A i \in 1..(Len(buffer) - 5 + 1) : SubSeq(buffer, 5, Len(buffer))[i] = buffer[5 + i - 1]
    <3>1. 5 \in Nat \ {0} /\ Len(buffer) <= Len(buffer) /\ 5 <= Len(buffer) + 1
      BY <1>1
    <3>2. QED
      BY <1>1, <3>1, Cut
  <2>2. QED
    BY <1>1, <2>1
<1>3. UNCHANGED <<sent, wire, body, sdk>>
  BY DEF stream
<1>0. 4 * (k + 1) = 4 * k + 4
  OBVIOUS
<1>4. 4 * (k + 1) + Len(buffer') + Len(wire') = 4 * k + Len(buffer) + Len(wire)
  <2>1. 4 * k + 4 + (Len(buffer) - 4) + Len(wire) = 4 * k + Len(buffer) + Len(wire)
    BY <1>1
  <2>2. QED
    BY <1>0, <1>2, <1>3, <2>1
<1>5. /\ 4 * (k + 1) + Len(buffer') + Len(wire') <= 4 * Len(sent')
      /\ body' \in {"open", "clean"} => 4 * (k + 1) + Len(buffer') + Len(wire') = 4 * Len(sent')
      /\ body' = "ragged" => 4 * (k + 1) + Len(buffer') + Len(wire') + 1 = 4 * Len(sent')
  <2>1. 4 * (k + 1) + Len(buffer') + Len(wire') + 1 = 4 * k + Len(buffer) + Len(wire) + 1
    BY <1>4
  <2>2. QED
    BY <1>3, <1>4, <2>1 DEF TextAt
<1>6. k + 1 \in 1..Len(sent)
  <2>1. 4 * k + Len(buffer) + Len(wire) <= 4 * Len(sent)
    BY DEF TextAt
  <2>2. QED
    BY <1>1, <2>1
<1>7. ASSUME NEW i \in 1..Len(buffer')
      PROVE  /\ IsAt(buffer'[i], 4 * (k + 1) + i)
             /\ sdk' # "python" \/ buffer'[i].part = 0 => buffer'[i].ok
  <2>1. /\ buffer'[i] = buffer[4 + i] /\ 4 + i \in 1..Len(buffer)
        /\ 4 * (k + 1) + i = 4 * k + (4 + i)
    BY <1>1, <1>2
  <2>2. QED
    BY <1>3, <2>1 DEF TextAt
<1>8. ASSUME NEW i \in 1..Len(wire')
      PROVE  IsAt(wire'[i], 4 * (k + 1) + Len(buffer') + i) /\ wire'[i].ok
  <2>1. /\ wire'[i] = wire[i] /\ i \in 1..Len(wire)
        /\ 4 * (k + 1) + Len(buffer') + i = 4 * k + Len(buffer) + i
    <3>1. i \in Nat /\ wire'[i] = wire[i] /\ i \in 1..Len(wire)
      BY <1>1, <1>3
    <3>2. 4 * k + 4 + (Len(buffer) - 4) + i = 4 * k + Len(buffer) + i
      BY <1>1, <3>1
    <3>3. QED
      BY <1>0, <1>2, <3>1, <3>2
  <2>2. QED
    BY <2>1 DEF TextAt
<1>9. TextAt(k + 1)'
  BY <1>5, <1>7, <1>8 DEF TextAt, IsAt
<1>10. QED
  BY <1>2, <1>6, <1>9

\* The event that the first two or three pieces of the buffer make.
LEMMA FirstEvent ==
    ASSUME InvokeType, NEW k \in Nat, TextAt(k), NEW block \in Seq(Bytes),
           Len(block) \in 2..3, Len(block) <= Len(buffer), k + 1 \in 1..Len(sent),
           \A i \in 1..Len(block) : block[i] = buffer[i]
    PROVE  IF sent[k + 1] = "other" /\ sdk # "go" THEN Parsed(block) = {}
           ELSE \E x \in Events : /\ Parsed(block) = {x}
                                  /\ x.n = k + 1 /\ x.kind = sent[k + 1]
                                  /\ sdk # "python" => x.whole
<1>1. /\ Len(buffer) \in Nat /\ Len(sent) \in Nat
      /\ sent[k + 1] \in Kinds /\ k + 1 \in Nat /\ (k + 1) - 1 = k
  BY PieceType
<1>2. \A i \in 1..Len(block) : i \in 1..Len(buffer)
  BY <1>1
<1>3. \A i \in 1..Len(block) : IsAt(block[i], 4 * ((k + 1) - 1) + i)
  BY <1>1, <1>2 DEF TextAt
<1>4. sdk # "python" => \A i \in 1..Len(block) : block[i].ok
  BY <1>2 DEF TextAt
<1>5. IF sent[k + 1] = "other" /\ sdk # "go" THEN Parsed(block) = {}
      ELSE \E whole \in BOOLEAN :
             /\ Parsed(block) = {[n |-> k + 1, kind |-> sent[k + 1], whole |-> whole]}
             /\ sdk # "python" => whole
  BY <1>3, <1>4, ParsedIs
<1>6. \A whole \in BOOLEAN : [n |-> k + 1, kind |-> sent[k + 1], whole |-> whole] \in Events
  BY <1>1 DEF Events
<1>7. QED
  BY <1>5, <1>6

LEMMA SameGot ==
    ASSUME Got' = Got, UNCHANGED <<sent, sdk>>
    PROVE  /\ Ordered => Ordered'
           /\ Numbers' = Numbers /\ Due' = Due
<1>1. Ordered => Ordered'
  BY DEF Ordered
<1>2. Numbers' = Numbers
  BY DEF Numbers
<1>3. Due' = Due
  BY DEF Due
<1>4. QED
  BY <1>1, <1>2, <1>3

LEMMA NextBlockStep ==
    ASSUME InvokeInv, NextBlock
    PROVE  InvokeInv'
<1> DEFINE block == SubSeq(buffer, 1, 2)
           e == Parsed(block)
<1>1. /\ InvokeType /\ Ordered
      /\ reader = "reading" /\ Blanks # {} /\ UNCHANGED <<invokeSetup, caller, stream>>
  BY DEF InvokeInv, NextBlock
<1>2. PICK k \in 0..Len(sent) : TextAt(k) /\ GivenTo(k)
  BY <1>1 DEF InvokeInv, ReadTo
<1>3. /\ wire \in Seq(Bytes) /\ buffer \in Seq(Bytes) /\ k \in Nat
      /\ Len(sent) \in Nat /\ Len(wire) \in Nat /\ Len(buffer) \in Nat
  BY <1>1 DEF InvokeType
<1>4. Len(buffer) >= 4 /\ Min(Blanks) = 3
  BY <1>1, <1>2, <1>3, BlanksAre
<1>5. /\ buffer' = SubSeq(buffer, 5, Len(buffer))
      /\ IF e = {} THEN UNCHANGED <<channel, given, reader>>
         ELSE \E x \in e : Gives(x) /\ reader' = IF x.kind = "end" THEN "done" ELSE reader
  <2>1. 3 - 1 = 2 /\ 3 + 2 = 5
    OBVIOUS
  <2>2. QED
    BY <1>4, <2>1 DEF NextBlock
<1>6. k + 1 \in 1..Len(sent) /\ buffer' \in Seq(Bytes) /\ TextAt(k + 1)'
  BY <1>1, <1>2, <1>3, <1>4, <1>5, NextText DEF invokeSetup
<1>7. IF sent[k + 1] = "other" /\ sdk # "go" THEN e = {}
      ELSE \E x \in Events : /\ e = {x}
                             /\ x.n = k + 1 /\ x.kind = sent[k + 1]
                             /\ sdk # "python" => x.whole
  <2>1. /\ block \in Seq(Bytes) /\ Len(block) = 2
        /\ \A i \in 1..2 : block[i] = buffer[i]
    <3>1. /\ SubSeq(buffer, 1, 2) \in Seq(Bytes) /\ Len(SubSeq(buffer, 1, 2)) = 2 - 1 + 1
          /\ \A i \in 1..(2 - 1 + 1) : SubSeq(buffer, 1, 2)[i] = buffer[1 + i - 1]
      BY <1>3, <1>4, Cut
    <3>2. QED
      BY <1>3, <3>1
  <2>2. Len(block) \in 2..3 /\ Len(block) <= Len(buffer)
    BY <1>3, <1>4, <2>1
  <2> HIDE DEF block
  <2>3. QED
    BY <1>1, <1>2, <1>3, <1>6, <2>1, <2>2, FirstEvent
<1> HIDE DEF block, e
<1>8. /\ e \in SUBSET Events /\ UNCHANGED <<sent, sdk>>
      /\ IF sent[k + 1] = "other" /\ sdk # "go"
         THEN e = {} /\ UNCHANGED <<channel, given>>
         ELSE \E x \in Events : /\ e = {x} /\ Gives(x)
                                /\ x.n = k + 1 /\ x.kind = sent[k + 1]
                                /\ sdk # "python" => x.whole
  BY <1>1, <1>5, <1>7 DEF invokeSetup, stream
<1>9. k \in 0..(Len(sent) - 1)
  BY <1>3, <1>6
<1>10. /\ given' \in Seq(Events) /\ channel' \in Seq(Events)
       /\ sdk' # "go" => channel' = <<>>
       /\ Ordered'
       /\ Numbers' = DueTo(k + 1)'
       /\ (\A y \in e : y.kind # "end") => GivenTo(k + 1)'
       /\ (\E y \in e : y.kind = "end") \/ k + 1 = Len(sent) =>
             Numbers' = Due' /\ Numbers' \ {0} = Numbers'
  BY <1>1, <1>2, <1>8, <1>9, OneEventMore
<1>11. /\ \A y \in e : y.kind # "end" => reader' = "reading"
       /\ \A y \in e : y.kind = "end" => reader' = "done"
       /\ e = {} => reader' = "reading"
  BY <1>1, <1>5, <1>8
<1>12. reader' \in {"reading", "done"} /\ (reader' = "reading" => \A y \in e : y.kind # "end")
       /\ (reader' = "done" => \E y \in e : y.kind = "end")
  BY <1>5, <1>8, <1>11
<1>13. InvokeType' /\ NothingYet'
  <2>1. InvokeType'
    BY <1>1, <1>6, <1>10, <1>12 DEF InvokeType, invokeSetup, stream
  <2>2. QED
    BY <1>12, <2>1 DEF NothingYet
<1>14. reader' = "reading" => \E j \in 0..Len(sent') : ReadTo(j)'
  <2>1. k + 1 \in 0..Len(sent')
    BY <1>3, <1>6, <1>8
  <2>2. QED
    BY <1>6, <1>10, <1>12, <2>1 DEF ReadTo
<1>15. Over' => GivenAsSent'
  <2>1. SUFFICES ASSUME Over' PROVE GivenAsSent'
    OBVIOUS
  <2>2. Numbers' = Due' /\ Numbers' \ {0} = Numbers'
    BY <1>10, <1>12, <2>1 DEF Over
  <2>3. QED
    BY <1>10, <1>13, <2>2 DEF GivenAsSent, Ordered, Numbers, Got
<1>16. QED
  BY <1>10, <1>13, <1>14, <1>15 DEF InvokeInv

LEMMA BodyEndsStep ==
    ASSUME InvokeInv, BodyEnds
    PROVE  InvokeInv'
<1> DEFINE e == IF sdk = "go" THEN {} ELSE Parsed(buffer)
<1>1. /\ InvokeType /\ Ordered
      /\ reader = "reading" /\ caller = "reads" /\ Blanks = {}
      /\ wire = <<>> /\ body \in {"clean", "ragged"}
      /\ IF e = {} THEN UNCHANGED <<channel, given>> ELSE \E x \in e : Gives(x)
      /\ reader' = "done" /\ buffer' = <<>>
      /\ UNCHANGED <<invokeSetup, caller, stream>>
  BY DEF InvokeInv, BodyEnds
<1>2. PICK k \in 0..Len(sent) : TextAt(k) /\ GivenTo(k)
  BY <1>1 DEF InvokeInv, ReadTo
<1>3. /\ buffer \in Seq(Bytes) /\ k \in Nat /\ Len(sent) \in Nat /\ Len(buffer) \in Nat
      /\ Len(wire) = 0
  BY <1>1 DEF InvokeType
<1>4. Len(buffer) < 4
  BY <1>1, <1>2, <1>3, BlanksAre
<1>5. UNCHANGED <<sent, body, sdk, caller>>
  BY <1>1 DEF invokeSetup, stream
<1> HIDE DEF e
<1>6. ASSUME given' \in Seq(Events), channel' \in Seq(Events), sdk' # "go" => channel' = <<>>,
             Ordered', (Numbers \ {0})' \subseteq Due',
             \A i \in Due', j \in (Numbers \ {0})' : i < j => i \in (Numbers \ {0})',
             ~(sdk = "go" /\ body = "ragged") => (Numbers \ {0})' = Due'
      PROVE  InvokeInv'
  <2>1. InvokeType' /\ NothingYet'
    <3>1. buffer' \in Seq(Bytes)
      BY <1>1
    <3>2. QED
      BY <1>1, <1>6, <3>1 DEF InvokeType, NothingYet, invokeSetup, stream
  <2>2. GivenAsSent'
    BY <1>5, <1>6 DEF GivenAsSent, Ordered, Numbers, Got
  <2>3. QED
    BY <1>1, <1>6, <2>1, <2>2 DEF InvokeInv
<1>7. CASE e = {} /\ k = Len(sent)
  <2>1. Got' = Got /\ UNCHANGED <<given, channel>>
    BY <1>1, <1>7 DEF Got
  <2>2. Ordered' /\ Numbers' = Numbers /\ Due' = Due
    BY <1>1, <1>5, <2>1, SameGot
  <2>3. Numbers \ {0} = Numbers /\ Numbers = Due
    BY <1>1, <1>2, <1>7, SaysAsSent
  <2>4. QED
    BY <1>1, <1>5, <1>6, <2>1, <2>2, <2>3 DEF InvokeType
<1>8. CASE body = "clean"
  <2>1. 4 * k + Len(buffer) = 4 * Len(sent)
    BY <1>2, <1>3, <1>8 DEF TextAt
  <2>2. Len(buffer) = 0 /\ k = Len(sent)
    BY <1>3, <1>4, <2>1
  <2>3. {i \in DOMAIN buffer : buffer[i].part = 1} = {}
    BY <1>3, <2>2
  <2>4. e = {}
    BY <2>3 DEF e, Parsed
  <2>5. QED
    BY <1>7, <2>2, <2>4
<1>9. CASE body = "ragged"
  <2>1. 4 * k + Len(buffer) + 1 = 4 * Len(sent)
    BY <1>2, <1>3, <1>9 DEF TextAt
  <2>2. Len(buffer) = 3 /\ k + 1 = Len(sent) /\ k + 1 \in 1..Len(sent) /\ k \in 0..(Len(sent) - 1)
    <3>1. \A b, m, n \in Nat : b < 4 /\ 4 * m + b + 1 = 4 * n =>
             b = 3 /\ m + 1 = n /\ m + 1 \in 1..n /\ m \in 0..(n - 1)
      OBVIOUS
    <3>2. QED
      BY <1>3, <1>4, <2>1, <3>1
  <2>3. CASE sdk = "go"
    <3>1. Got' = Got /\ UNCHANGED <<given, channel>>
      BY <1>1, <2>3 DEF Got, e
    <3>2. Ordered' /\ Numbers' = Numbers /\ Due' = Due
      BY <1>1, <1>5, <3>1, SameGot
    <3>3. /\ Numbers \ {0} = Numbers /\ Numbers \subseteq Due
          /\ \A i \in Due, j \in Numbers : i < j => i \in Numbers
      BY <1>1, <1>2, SaysAsSent
    <3>4. QED
      BY <1>1, <1>5, <1>6, <1>9, <2>3, <3>1, <3>2, <3>3 DEF InvokeType
  <2>4. CASE sdk # "go"
    <3>1. IF sent[k + 1] = "other" /\ sdk # "go" THEN Parsed(buffer) = {}
          ELSE \E x \in Events : /\ Parsed(buffer) = {x}
                                 /\ x.n = k + 1 /\ x.kind = sent[k + 1]
                                 /\ sdk # "python" => x.whole
      <4>1. /\ Len(buffer) \in 2..3 /\ Len(buffer) <= Len(buffer)
            /\ \A i \in 1..Len(buffer) : buffer[i] = buffer[i]
        BY <2>2
      <4>2. QED
        BY <1>1, <1>2, <1>3, <2>2, <4>1, FirstEvent
    <3>2. e = Parsed(buffer)
      BY <2>4 DEF e
    <3>3. /\ e \in SUBSET Events /\ UNCHANGED <<sent, sdk>>
          /\ IF sent[k + 1] = "other" /\ sdk # "go"
             THEN e = {} /\ UNCHANGED <<channel, given>>
             ELSE \E x \in Events : /\ e = {x} /\ Gives(x)
                                    /\ x.n = k + 1 /\ x.kind = sent[k + 1]
                                    /\ sdk # "python" => x.whole
      BY <1>1, <1>5, <3>1, <3>2
    <3>4. /\ given' \in Seq(Events) /\ channel' \in Seq(Events)
          /\ sdk' # "go" => channel' = <<>>
          /\ Ordered'
          /\ Numbers' = Due' /\ Numbers' \ {0} = Numbers'
      BY <1>1, <1>2, <2>2, <3>3, OneEventMore
    <3>5. QED
      BY <1>6, <3>4
  <2>5. QED
    BY <2>3, <2>4
<1>10. QED
  BY <1>1, <1>8, <1>9

LEMMA InvokeInitHolds == InvokeInit => InvokeInv
<1> SUFFICES ASSUME InvokeInit PROVE InvokeInv
  OBVIOUS
<1>1. Got = <<>>
  BY DEF InvokeInit, Got
<1>2. sdk \in {"python", "go", "node"}
  BY InvokeAssumption DEF InvokeInit
<1>3. InvokeType
  BY <1>2 DEF InvokeInit, InvokeType
<1>4. Ordered
  BY <1>1 DEF Ordered
<1>5. QED
  BY <1>3, <1>4 DEF InvokeInit, InvokeInv, NothingYet, Over

\* A step that gives nothing, ends nothing and leaves the text alone.
LEMMA QuietStep ==
    ASSUME InvokeInv, UNCHANGED <<sdk, sent, wire, buffer, body, channel, given>>,
           caller' = caller \/ (caller' = "left" /\ reader \notin {"idle", "challenge", "post"}),
           reader' = reader \/ (reader' = "reading" /\ reader = "post")
    PROVE  InvokeInv'
<1>1. InvokeType' /\ NothingYet'
  BY DEF InvokeInv, InvokeType, NothingYet
<1>2. Got' = Got
  BY DEF Got
<1>3. Ordered' /\ Numbers' = Numbers /\ Due' = Due
  BY <1>2, SameGot DEF InvokeInv
<1>4. reader = "reading" => \E k \in 0..Len(sent') : ReadTo(k)'
  BY <1>3 DEF InvokeInv, ReadTo, TextAt, GivenTo, DueTo, IsAt
<1>5. reader = "post" => ReadTo(0)' /\ 0 \in 0..Len(sent')
  <2> SUFFICES ASSUME reader = "post" PROVE ReadTo(0)' /\ 0 \in 0..Len(sent')
    OBVIOUS
  <2>1. /\ sent' = <<>> /\ wire' = <<>> /\ buffer' = <<>> /\ channel' = <<>> /\ given' = <<>>
        /\ body' = "open"
    BY DEF InvokeInv, NothingYet
  <2>2. Got' = <<>>
    BY <2>1 DEF Got
  <2>3. Numbers' = {} /\ DueTo(0)' = {}
    BY <2>2 DEF Numbers, DueTo
  <2>4. TextAt(0)'
    BY <2>1 DEF TextAt
  <2>5. GivenTo(0)'
    BY <2>3 DEF GivenTo
  <2>6. QED
    BY <2>1, <2>4, <2>5 DEF ReadTo
<1>6. Over' => GivenAsSent'
  <2> SUFFICES ASSUME Over' PROVE GivenAsSent'
    OBVIOUS
  <2>1. Over /\ reader' = reader
    BY DEF Over
  <2>2. GivenAsSent /\ (caller' = "reads" => caller = "reads")
    BY <2>1 DEF InvokeInv, InvokeType
  <2>3. QED
    BY <1>2, <1>3, <2>1, <2>2 DEF GivenAsSent, Numbers, Got
<1>7. QED
  BY <1>1, <1>3, <1>4, <1>5, <1>6 DEF InvokeInv

\* An end that comes before the body's: what was given so far is as it was sent.
LEMMA EarlyEndStep ==
    ASSUME InvokeInv, ~Over, UNCHANGED <<sdk, sent, wire, buffer, body>>, Over',
           caller' \in {"reads", "left"}, ~(reader' = "done" /\ caller' = "reads"),
           \/ UNCHANGED <<channel, given>>
           \/ reader = "reading" /\ sdk = "go"
              /\ Gives([n |-> 0, kind |-> "end", whole |-> TRUE])
    PROVE  InvokeInv'
<1> DEFINE error == [n |-> 0, kind |-> "end", whole |-> TRUE]
<1>0. InvokeType /\ Ordered /\ error \in Events
  BY DEF InvokeInv, Events, Kinds
<1>1. /\ Numbers \ {0} \subseteq Due
      /\ \A i \in Due, j \in Numbers \ {0} : i < j => i \in Numbers \ {0}
  <2>1. CASE reader = "reading"
    BY <2>1, SaysAsSent DEF InvokeInv, ReadTo
  <2>2. CASE reader # "reading"
    <3>1. Got = <<>>
      BY <2>2 DEF InvokeInv, InvokeType, NothingYet, Over, Got
    <3>2. Numbers = {}
      BY <3>1 DEF Numbers
    <3>3. QED
      BY <3>2
  <2>3. QED
    BY <2>1, <2>2
<1>2. ASSUME given' \in Seq(Events), channel' \in Seq(Events), sdk' # "go" => channel' = <<>>,
             Ordered', (Numbers \ {0})' = Numbers \ {0}, Due' = Due
      PROVE  InvokeInv'
  <2>1. InvokeType' /\ NothingYet'
    BY <1>0, <1>2 DEF InvokeType, NothingYet, Over
  <2>2. GivenAsSent'
    BY <1>1, <1>2 DEF GivenAsSent, Ordered, Numbers, Got
  <2>3. QED
    BY <1>2, <2>1, <2>2 DEF InvokeInv, Over
<1>3. CASE UNCHANGED <<channel, given>>
  <2>1. Got' = Got
    BY <1>3 DEF Got
  <2>2. QED
    BY <1>0, <1>2, <1>3, <2>1, SameGot DEF InvokeType
<1>4. CASE sdk = "go" /\ Gives(error)
  <2> HIDE DEF error
  <2>1. /\ given' \in Seq(Events) /\ channel' \in Seq(Events)
        /\ sdk # "go" => channel' = <<>>
        /\ Got \in Seq(Events) /\ Got' \in Seq(Events)
        /\ Len(Got') = Len(Got) + 1 /\ Got'[Len(Got) + 1] = error
        /\ \A i \in 1..Len(Got) : Got'[i] = Got[i]
    BY <1>0, <1>4, GivenIsGot
  <2>2. /\ Len(Got) \in Nat
        /\ DOMAIN Got = 1..Len(Got) /\ DOMAIN Got' = 1..Len(Got) \union {Len(Got) + 1}
    BY <2>1
  <2>3. error.n = 0 /\ error.whole
    BY DEF error
  <2>4. Ordered'
    <3>1. ASSUME NEW i \in DOMAIN Got', NEW j \in DOMAIN Got', i < j, Got'[j].n # 0
          PROVE  Got'[i].n < Got'[j].n
      <4>1. j \in 1..Len(Got) /\ i \in 1..Len(Got)
        BY <2>1, <2>2, <2>3, <3>1
      <4>2. QED
        BY <1>0, <2>1, <2>2, <3>1, <4>1 DEF Ordered
    <3>2. sdk' # "python" => \A i \in DOMAIN Got' : Got'[i].whole
      BY <1>0, <2>1, <2>2, <2>3 DEF Ordered
    <3>3. QED
      BY <3>1, <3>2 DEF Ordered
  <2>5. Numbers' = Numbers \union {0}
    BY <2>1, <2>2, <2>3 DEF Numbers
  <2>6. (Numbers \ {0})' = Numbers \ {0}
    BY <2>5
  <2>7. Due' = Due
    BY DEF Due
  <2>8. QED
    BY <1>2, <2>1, <2>4, <2>6, <2>7
<1>5. QED
  BY <1>3, <1>4 DEF error

\* The text grows, is cut short or is received; what was given stays.
LEMMA TextStep ==
    ASSUME InvokeInv, reader = "reading", UNCHANGED <<invokeSetup, caller, reader, channel, given>>,
           \/ \E kind \in Kinds : ServerWrites(kind)
           \/ ServerCloses
           \/ Receive
    PROVE  InvokeInv'
<1>1. PICK k \in 0..Len(sent) : TextAt(k) /\ GivenTo(k)
  BY DEF InvokeInv, ReadTo
<1>2. InvokeType /\ Ordered /\ k \in Nat /\ Len(sent) \in Nat /\ UNCHANGED <<sdk, cancels>>
  BY DEF InvokeInv, InvokeType, invokeSetup
<1>3. /\ wire' \in Seq(Bytes) /\ buffer' \in Seq(Bytes) /\ sent' \in Seq(Kinds)
      /\ body' \in {"open", "clean", "ragged", "cut"}
      /\ TextAt(k)'
      /\ Len(sent') \in Nat /\ Len(sent) <= Len(sent')
      /\ \A i \in 1..Len(sent) : sent'[i] = sent[i]
  <2>1. ASSUME NEW kind \in Kinds, ServerWrites(kind)
        PROVE  /\ wire' \in Seq(Bytes) /\ buffer' \in Seq(Bytes) /\ sent' \in Seq(Kinds)
               /\ body' \in {"open", "clean", "ragged", "cut"}
               /\ TextAt(k)'
               /\ Len(sent') \in Nat /\ Len(sent) <= Len(sent')
               /\ \A i \in 1..Len(sent) : sent'[i] = sent[i]
    <3>1. /\ wire' \in Seq(Bytes) /\ sent' \in Seq(Kinds) /\ TextAt(k)'
          /\ Len(sent') = Len(sent) + 1 /\ \A i \in 1..Len(sent) : sent'[i] = sent[i]
      BY <1>1, <1>2, <2>1, WritesText
    <3>2. buffer' = buffer /\ body' = body
      BY <2>1 DEF ServerWrites
    <3>3. QED
      BY <1>2, <3>1, <3>2 DEF InvokeType
  <2>2. CASE ServerCloses
    <3>1. wire' \in Seq(Bytes) /\ TextAt(k)'
      BY <1>1, <1>2, <2>2, ClosesText
    <3>2. buffer' = buffer /\ sent' = sent /\ body' \in {"open", "clean", "ragged", "cut"}
      BY <2>2 DEF ServerCloses
    <3>3. QED
      BY <1>2, <3>1, <3>2 DEF InvokeType
  <2>3. CASE Receive
    <3>1. wire' \in Seq(Bytes) /\ buffer' \in Seq(Bytes) /\ TextAt(k)'
      BY <1>1, <1>2, <2>3, ReceivesText
    <3>2. sent' = sent /\ body' = body
      BY <2>3 DEF Receive
    <3>3. QED
      BY <1>2, <3>1, <3>2 DEF InvokeType
  <2>4. QED
    BY <2>1, <2>2, <2>3
<1>4. Got' = Got
  BY DEF Got
<1>5. Ordered' /\ Numbers' = Numbers
  BY <1>2, <1>4 DEF Ordered, Numbers
<1>6. GivenTo(k)'
  <2>1. \A i \in 1..k : i \in 1..Len(sent)
    BY <1>2
  <2>2. \A i \in 1..k : sent'[i] = sent[i]
    BY <1>3, <2>1
  <2>3. DueTo(k)' = DueTo(k)
    BY <1>2, <2>2 DEF DueTo
  <2>4. QED
    BY <1>1, <1>5, <2>2, <2>3 DEF GivenTo
<1>7. InvokeType'
  BY <1>2, <1>3 DEF InvokeType
<1>8. k \in 0..Len(sent')
  BY <1>2, <1>3
<1>9. QED
  BY <1>3, <1>5, <1>6, <1>7, <1>8 DEF InvokeInv, NothingYet, ReadTo, Over

LEMMA InvokeStep == InvokeInv /\ [InvokeNext]_invokeVars => InvokeInv'
<1> SUFFICES ASSUME InvokeInv, [InvokeNext]_invokeVars PROVE InvokeInv'
  OBVIOUS
<1>0. InvokeType /\ Ordered
  BY DEF InvokeInv
<1>1. CASE UNCHANGED invokeVars
  BY <1>1, QuietStep DEF invokeVars, invokeSetup, stream
<1>2. CASE InvokeAgentStream
  <2>1. /\ reader = "idle" /\ reader' = "challenge"
        /\ UNCHANGED <<sdk, caller, body, sent, wire, buffer, channel, given>>
    BY <1>2 DEF InvokeAgentStream, invokeSetup, stream
  <2>2. Got' = Got
    BY <2>1 DEF Got
  <2>3. Ordered'
    BY <1>0, <2>1, <2>2, SameGot
  <2>4. QED
    BY <1>0, <2>1, <2>3 DEF InvokeInv, InvokeType, NothingYet, Over
<1>3. CASE FetchChallenge
  <2>1. /\ reader = "challenge" /\ reader' \in {"post", "failed"}
        /\ UNCHANGED <<sdk, caller, body, sent, wire, buffer, channel, given>>
    BY <1>3 DEF FetchChallenge, invokeSetup, stream
  <2>2. CASE reader' = "failed"
    BY <1>0, <2>1, <2>2, EarlyEndStep DEF Over, InvokeType
  <2>3. CASE reader' = "post"
    <3>1. Got' = Got
      BY <2>1 DEF Got
    <3>2. Ordered'
      BY <1>0, <2>1, <3>1, SameGot
    <3>3. QED
      BY <1>0, <2>1, <2>3, <3>2 DEF InvokeInv, InvokeType, NothingYet, Over
  <2>4. QED
    BY <2>1, <2>2, <2>3
<1>4. CASE PostAnswered
  <2>1. /\ reader = "post" /\ reader' \in {"reading", "failed"}
        /\ UNCHANGED <<sdk, caller, body, sent, wire, buffer, channel, given>>
    BY <1>4 DEF PostAnswered, invokeSetup, stream
  <2>2. CASE reader' = "failed"
    BY <1>0, <2>1, <2>2, EarlyEndStep DEF Over, InvokeType
  <2>3. CASE reader' = "reading"
    BY <2>1, <2>3, QuietStep
  <2>4. QED
    BY <2>1, <2>2, <2>3
<1>5. ASSUME NEW kind \in {"chunk", "end", "other"}, ServerWrites(kind) PROVE InvokeInv'
  <2>1. kind \in Kinds /\ reader = "reading"
        /\ UNCHANGED <<invokeSetup, caller, reader, channel, given>>
    BY <1>5 DEF ServerWrites, Kinds
  <2>2. QED
    BY <1>5, <2>1, TextStep
<1>6. CASE ServerCloses
  BY <1>6, TextStep DEF ServerCloses
<1>7. CASE Receive
  BY <1>7, TextStep DEF Receive
<1>8. CASE NextBlock
  BY <1>8, NextBlockStep
<1>9. CASE BodyEnds
  BY <1>9, BodyEndsStep
<1>10. CASE ReadFails
  <2>1. /\ reader = "reading" /\ reader' = "failed"
        /\ UNCHANGED <<sdk, caller, body, sent, wire, buffer>>
        /\ \/ UNCHANGED <<channel, given>>
           \/ sdk = "go" /\ Gives([n |-> 0, kind |-> "end", whole |-> TRUE])
    BY <1>10 DEF ReadFails, invokeSetup, stream
  <2>2. caller' \in {"reads", "left"} /\ ~Over /\ Over' /\ ~(reader' = "done" /\ caller' = "reads")
    BY <1>0, <2>1 DEF InvokeType, Over
  <2>3. QED
    BY <2>1, <2>2, EarlyEndStep
<1>11. CASE ContextDone
  BY <1>0, <1>11, EarlyEndStep DEF ContextDone, invokeSetup, stream, Over
<1>12. CASE Take
  <2>1. Got' = Got /\ given' \in Seq(Events) /\ channel' \in Seq(Events)
        /\ UNCHANGED <<sdk, caller, reader, body, sent, wire, buffer>>
    BY <1>0, <1>12, TakenIsGot DEF Take, invokeSetup, stream
  <2>2. channel # <<>>
    BY <1>12 DEF Take
  <2>3. Ordered' /\ Numbers' = Numbers /\ Due' = Due
    BY <1>0, <2>1, SameGot
  <2>4. InvokeType' /\ NothingYet'
    BY <1>0, <2>1, <2>2 DEF InvokeInv, InvokeType, NothingYet
  <2>5. reader' = "reading" => \E k \in 0..Len(sent') : ReadTo(k)'
    BY <2>1, <2>3 DEF InvokeInv, ReadTo, TextAt, GivenTo, DueTo, IsAt
  <2>6. Over' => GivenAsSent'
    BY <2>1, <2>3 DEF InvokeInv, Over, GivenAsSent, Numbers, Got
  <2>7. QED
    BY <2>3, <2>4, <2>5, <2>6 DEF InvokeInv
<1>13. CASE Leave
  <2>1. /\ reader = "reading" /\ caller' = "left"
        /\ reader' = IF sdk = "go" THEN reader ELSE "done"
        /\ UNCHANGED <<sdk, body, sent, wire, buffer, channel, given>>
    BY <1>13 DEF Leave, invokeSetup, stream
  <2>2. CASE reader' = reader
    BY <2>1, <2>2, QuietStep
  <2>3. CASE reader' = "done"
    BY <2>1, <2>3, EarlyEndStep DEF Over
  <2>4. QED
    BY <2>1, <2>2, <2>3
<1>14. QED
  BY <1>1, <1>2, <1>3, <1>4, <1>5, <1>6, <1>7, <1>8, <1>9, <1>10, <1>11, <1>12, <1>13
     DEF InvokeNext, ReaderStep

\* The parser keeps its place, and the account of what it gave.
THEOREM InvokeInvariant == InvokeSpec => []InvokeInv
<1>1. QED
  BY InvokeInitHolds, InvokeStep, PTL DEF InvokeSpec

LEMMA InvokeInvSays == InvokeInv => GivenAsSent
<1> SUFFICES ASSUME InvokeInv PROVE GivenAsSent
  OBVIOUS
<1>1. CASE Over
  BY <1>1 DEF InvokeInv
<1>2. CASE reader = "reading"
  <2>1. PICK k \in 0..Len(sent) : GivenTo(k)
    BY <1>2 DEF InvokeInv, ReadTo
  <2>2. QED
    BY <1>2, <2>1, SaysAsSent, AsSentIs DEF InvokeInv
<1>3. CASE reader \in {"idle", "challenge", "post"}
  <2>1. Got = <<>>
    BY <1>3 DEF InvokeInv, NothingYet, Got
  <2>2. Numbers = {}
    BY <2>1 DEF Numbers
  <2>3. QED
    BY <1>3, <2>2, AsSentIs DEF InvokeInv
<1>4. QED
  BY <1>1, <1>2, <1>3 DEF InvokeInv, InvokeType, Over

\* However long the answer is and wherever the network cuts it: the caller gets the
\* events that are due, in order, with none missing and none after the end, and all of
\* them when the call returns by itself; whole, except from the Python SDK.
THEOREM AnswersAreGiven == InvokeSpec => []GivenAsSent
BY InvokeInvariant, InvokeInvSays, PTL

-----------------------------------------------------------------------------
\* The terminal.  The invariant has a part for each of the three, and one about the
\* phases of the loop and of its input task, on which all three rest.

ConsoleType ==
    /\ main \in {"off", "prompt", "wait", "handle", "send", "closing", "ended"}
    /\ input \in {"none", "queued", "reading", "read", "done"}
    /\ holder \in {"none", "live", "stale"}
    /\ stale \in Nat /\ line \in Nat /\ msg \in Nat /\ received \in Nat
    /\ todo \subseteq {"input", "msg"}
    /\ tty \in Seq(Nat) /\ inbox \in Seq(Nat) /\ printed \in Seq(Nat) /\ said \in Seq(Nat)
    /\ typed \in Seq({"text", "quit"})
    /\ IsFiniteSet(lost)

\* Between two waits at most a line that was read is left of the input task; and
\* the terminal is with the live thread or with an abandoned one.
PhaseInv ==
    /\ main # "wait" => input \in {"none", "done"}
    /\ main \notin {"wait", "handle"} => input = "none"
    /\ main = "handle" => ("input" \in todo <=> input = "done")
    /\ main \in {"handle", "send"} => ("msg" \in todo <=> msg # 0)
    /\ main = "handle" => todo # {}
    /\ main \in {"off", "prompt"} => msg = 0
    /\ holder = "live" => input = "reading"
    /\ holder = "stale" => stale > 0
    /\ holder = "none" => stale = 0 /\ input # "reading"

Taken == IF msg = 0 THEN 0 ELSE 1

\* The messages that came are those that were shown, the one that is taken, and
\* those that wait, in this order.
MessageInv ==
    /\ \A i \in 1..Len(printed) : printed[i] = i
    /\ msg # 0 => msg = Len(printed) + 1
    /\ ~Stopped => /\ received = Len(printed) + Taken + Len(inbox)
                   /\ \A i \in 1..Len(inbox) : inbox[i] = Len(printed) + Taken + i

\* The lines that wait are the last ones typed; the line that the loop has in hand
\* is later than those that were sent.
HeadLine == Len(typed) - Len(tty)
LineInv ==
    /\ Len(tty) <= Len(typed)
    /\ \A j \in 1..Len(tty) : tty[j] = HeadLine + j
    /\ line <= HeadLine
    /\ \A i \in 1..Len(said) : said[i] <= HeadLine
    /\ input \in {"read", "done"} \/ main = "send" =>
           \A i \in 1..Len(said) : said[i] < line
    /\ \A i, j \in 1..Len(said) : i < j => said[i] < said[j]

\* A message that is taken pays for the line that it may cost, and no message does
\* so before the loop wakes.
LostInv ==
    /\ Cardinality(lost) + stale <= Len(printed) + Taken
    /\ main \in {"off", "prompt", "wait"} => Cardinality(lost) + stale <= Len(printed)

ConsoleInv == ConsoleType /\ PhaseInv /\ MessageInv /\ LineInv /\ LostInv

-----------------------------------------------------------------------------
LEMMA InitHolds == ConsoleInit => ConsoleInv
<1> SUFFICES ASSUME ConsoleInit PROVE ConsoleInv
  OBVIOUS
<1>1. IsFiniteSet(lost) /\ Cardinality(lost) = 0
  BY FS_EmptySet DEF ConsoleInit
<1>2. ConsoleType
  BY <1>1 DEF ConsoleInit, ConsoleType
<1>3. PhaseInv /\ MessageInv
  BY DEF ConsoleInit, PhaseInv, MessageInv, Taken, Stopped
<1>4. LineInv /\ LostInv
  BY <1>1 DEF ConsoleInit, LineInv, HeadLine, LostInv, Taken
<1>5. QED
  BY <1>2, <1>3, <1>4 DEF ConsoleInv

LEMMA Stutters ==
    ASSUME ConsoleInv, UNCHANGED consoleVars
    PROVE  ConsoleInv'
<1> USE DEF consoleVars, reading, events, outcome
<1>1. ConsoleType' /\ PhaseInv'
  BY DEF ConsoleInv, ConsoleType, PhaseInv
<1>2. MessageInv' /\ LineInv' /\ LostInv'
  BY DEF ConsoleInv, MessageInv, LineInv, HeadLine, LostInv, Taken, Stopped
<1>3. QED
  BY <1>1, <1>2 DEF ConsoleInv

\* One more element is at most one more.
LEMMA OneMore ==
    ASSUME NEW S, IsFiniteSet(S), NEW x
    PROVE  /\ IsFiniteSet(S \union {x})
           /\ Cardinality(S) \in Nat
           /\ Cardinality(S \union {x}) \in {Cardinality(S), Cardinality(S) + 1}
<1>1. Cardinality(S) \in Nat
  BY FS_CardinalityType
<1>2. IsFiniteSet(S \union {x})
  BY FS_AddElement
<1>3. Cardinality(S \union {x}) \in {Cardinality(S), Cardinality(S) + 1}
  <2>1. x \in S => S \union {x} = S
    OBVIOUS
  <2>2. x \notin S => Cardinality(S \union {x}) = Cardinality(S) + 1
    BY FS_AddElement
  <2>3. QED
    BY <2>1, <2>2
<1>4. QED
  BY <1>1, <1>2, <1>3

-----------------------------------------------------------------------------
LEMMA TypeStep ==
    ASSUME ConsoleInv, ConsoleNext
    PROVE  ConsoleType'
<1> USE DEF ConsoleInv, ConsoleType, reading, events, outcome
<1>1. ASSUME CmdChat PROVE ConsoleType'
  BY <1>1 DEF CmdChat
<1>2. ASSUME NEW kind \in {"text", "quit"}, Type(kind) PROVE ConsoleType'
  BY <1>2 DEF Type
<1>3. ASSUME OnGroupMsg PROVE ConsoleType'
  BY <1>3 DEF OnGroupMsg
<1>4. ASSUME ReadLine PROVE ConsoleType'
  <2>1. tty' \in Seq(Nat) /\ Head(tty) \in Nat
    BY <1>4 DEF ReadLine
  <2>2. CASE holder = "live"
    BY <1>4, <2>1, <2>2 DEF ReadLine, Passes
  <2>3. CASE holder = "stale"
    <3>1. stale' \in Nat
      BY <1>4, <2>3 DEF ReadLine, PhaseInv
    <3>2. IsFiniteSet(lost')
      BY <1>4, <2>3, OneMore DEF ReadLine
    <3>3. QED
      BY <1>4, <2>1, <2>3, <3>1, <3>2 DEF ReadLine, Passes
  <2>4. QED
    BY <1>4, <2>2, <2>3 DEF ReadLine
<1>5. ASSUME Prompt PROVE ConsoleType'
  BY <1>5 DEF Prompt
<1>6. ASSUME GetMessage PROVE ConsoleType'
  BY <1>6 DEF GetMessage
<1>7. ASSUME Wake PROVE ConsoleType'
  <2>1. IsFiniteSet(lost')
    BY <1>7, OneMore DEF Wake, Abandoned
  <2>2. QED
    BY <1>7, <2>1 DEF Wake, Abandoned
<1>8. ASSUME HandleMessage PROVE ConsoleType'
  BY <1>8 DEF HandleMessage, Continues
<1>9. ASSUME HandleLine PROVE ConsoleType'
  BY <1>9 DEF HandleLine
<1>10. ASSUME LineSent PROVE ConsoleType'
  <2>1. said' \in Seq(Nat)
    <3>1. said' = said \/ said' = Append(said, line)
      BY <1>10 DEF LineSent
    <3>2. said \in Seq(Nat) /\ Append(said, line) \in Seq(Nat)
      OBVIOUS
    <3>3. QED
      BY <3>1, <3>2
  <2>2. main' \in {"prompt", "handle", "closing"} /\ todo' \subseteq {"input", "msg"}
    BY <1>10 DEF LineSent, Continues
  <2>3. QED
    BY <1>10, <2>1, <2>2 DEF LineSent
<1>11. ASSUME LineDelivered PROVE ConsoleType'
  BY <1>11 DEF LineDelivered
<1>12. ASSUME Exit PROVE ConsoleType'
  BY <1>12 DEF Exit
<1>13. QED
  BY <1>1, <1>2, <1>3, <1>4, <1>5, <1>6, <1>7, <1>8, <1>9, <1>10, <1>11, <1>12
     DEF ConsoleNext, LoopStep

LEMMA PhaseStep ==
    ASSUME ConsoleInv, ConsoleNext
    PROVE  PhaseInv'
<1> USE DEF ConsoleInv, PhaseInv, reading, events, outcome
<1>1. ASSUME CmdChat PROVE PhaseInv'
  BY <1>1 DEF CmdChat
<1>2. ASSUME NEW kind \in {"text", "quit"}, Type(kind) PROVE PhaseInv'
  BY <1>2 DEF Type
<1>3. ASSUME OnGroupMsg PROVE PhaseInv'
  BY <1>3 DEF OnGroupMsg
<1>4. ASSUME ReadLine PROVE PhaseInv'
  <2>1. CASE holder = "live"
    BY <1>4, <2>1 DEF ReadLine, Passes, ConsoleType
  <2>2. CASE holder = "stale"
    BY <1>4, <2>2 DEF ReadLine, Passes, ConsoleType
  <2>3. QED
    BY <1>4, <2>1, <2>2 DEF ReadLine
<1>5. ASSUME Prompt PROVE PhaseInv'
  BY <1>5, ConsoleAssumption DEF Prompt, ConsoleType
<1>6. ASSUME GetMessage PROVE PhaseInv'
  BY <1>6 DEF GetMessage
<1>7. ASSUME Wake PROVE PhaseInv'
  <2>1. main' = "handle" /\ input' = IF input = "done" THEN "done" ELSE "none"
    BY <1>7 DEF Wake, Abandoned
  <2>2. ("input" \in todo' <=> input = "done") /\ ("msg" \in todo' <=> msg # 0)
    BY <1>7 DEF Wake
  <2>3. todo' # {} /\ msg' = msg
    BY <1>7, <2>2 DEF Wake
  <2>4. /\ holder' = "live" => input' = "reading"
        /\ holder' = "stale" => stale' > 0
        /\ holder' = "none" => stale' = 0 /\ input' # "reading"
    <3>1. /\ stale' = IF input = "reading" THEN stale + 1 ELSE stale
          /\ holder' = IF holder = "live" THEN "stale" ELSE holder
      BY <1>7 DEF Wake, Abandoned
    <3>2. stale \in Nat
      BY DEF ConsoleType
    <3>3. QED
      BY <1>7, <2>1, <3>1, <3>2
  <2>5. QED
    BY <2>1, <2>2, <2>3, <2>4
<1>8. ASSUME HandleMessage PROVE PhaseInv'
  BY <1>8 DEF HandleMessage, Continues, ConsoleType
<1>9. ASSUME HandleLine PROVE PhaseInv'
  BY <1>9 DEF HandleLine
<1>10. ASSUME LineSent PROVE PhaseInv'
  BY <1>10 DEF LineSent, Continues, ConsoleType
<1>11. ASSUME LineDelivered PROVE PhaseInv'
  BY <1>11 DEF LineDelivered
<1>12. ASSUME Exit PROVE PhaseInv'
  BY <1>12 DEF Exit
<1>13. QED
  BY <1>1, <1>2, <1>3, <1>4, <1>5, <1>6, <1>7, <1>8, <1>9, <1>10, <1>11, <1>12
     DEF ConsoleNext, LoopStep

-----------------------------------------------------------------------------
\* Only three steps touch the messages.
LEMMA MessageStep ==
    ASSUME ConsoleInv, ConsoleNext
    PROVE  MessageInv'
<1> USE DEF ConsoleInv, ConsoleType, reading, events, outcome, MessageInv, Taken, Stopped
<1>1. ASSUME UNCHANGED <<msg, inbox, received, printed>>, Stopped => Stopped'
      PROVE  MessageInv'
  BY <1>1
<1>2. ASSUME OnGroupMsg PROVE MessageInv'
  <2>1. /\ Len(inbox') = Len(inbox) + 1
        /\ \A i \in 1..Len(inbox') : inbox'[i] = IF i = Len(inbox) + 1 THEN received + 1 ELSE inbox[i]
    BY <1>2 DEF OnGroupMsg
  <2>2. received' = received + 1 /\ ~Stopped /\ UNCHANGED <<main, msg, printed>>
    BY <1>2 DEF OnGroupMsg
  <2>3. ASSUME NEW i \in 1..Len(inbox')
        PROVE  inbox'[i] = Len(printed) + Taken + i
    <3>1. CASE i = Len(inbox) + 1
      <4>1. inbox'[i] = received + 1
        BY <2>1, <3>1
      <4>2. received = Len(printed) + Taken + Len(inbox) /\ Len(inbox) \in Nat /\ Len(printed) \in Nat
        BY <2>2
      <4>3. Taken \in Nat
        OBVIOUS
      <4> HIDE DEF Taken, ConsoleInv, MessageInv
      <4>4. QED
        BY <3>1, <4>1, <4>2, <4>3
    <3>2. CASE i # Len(inbox) + 1
      <4>1. i \in 1..Len(inbox)
        BY <2>1, <3>2
      <4>2. QED
        BY <2>1, <2>2, <3>2, <4>1
    <3>3. QED
      BY <3>1, <3>2
  <2>4. received = Len(printed) + Taken + Len(inbox) /\ Len(inbox) \in Nat /\ Len(printed) \in Nat
    BY <2>2
  <2>5. received' = Len(printed') + Taken' + Len(inbox')
    <3>1. Taken \in Nat /\ Taken' = Taken /\ Len(printed') = Len(printed)
      BY <2>2
    <3> HIDE DEF Taken, ConsoleInv, MessageInv
    <3>2. QED
      BY <2>1, <2>2, <2>4, <3>1
  <2>6. /\ \A i \in 1..Len(printed') : printed'[i] = i
        /\ msg' # 0 => msg' = Len(printed') + 1
        /\ Taken' = Taken
    BY <2>2
  <2>7. \A i \in 1..Len(inbox') : inbox'[i] = Len(printed') + Taken' + i
    BY <2>2, <2>3, <2>6
  <2>8. QED
    BY <2>5, <2>6, <2>7
<1>3. ASSUME GetMessage PROVE MessageInv'
  <2>1. msg' = Len(printed) + 1 /\ msg' # 0 /\ ~Stopped
    BY <1>3 DEF GetMessage
  <2>2. Len(inbox') = Len(inbox) - 1 /\ \A i \in 1..Len(inbox') : inbox'[i] = inbox[i + 1]
    BY <1>3 DEF GetMessage
  <2>3. UNCHANGED <<main, received, printed>> /\ msg = 0
    BY <1>3 DEF GetMessage
  <2>4. QED
    BY <2>1, <2>2, <2>3
<1>4. ASSUME HandleMessage PROVE MessageInv'
  <2>1. msg = Len(printed) + 1 /\ msg # 0 /\ ~Stopped
    BY <1>4 DEF HandleMessage, PhaseInv
  <2>2. /\ Len(printed') = Len(printed) + 1
        /\ \A i \in 1..Len(printed') : printed'[i] = IF i = Len(printed) + 1 THEN msg ELSE printed[i]
    BY <1>4 DEF HandleMessage
  <2>3. msg' = 0 /\ UNCHANGED <<received, inbox>>
    BY <1>4 DEF HandleMessage
  <2>4. QED
    BY <2>1, <2>2, <2>3
<1>5. ASSUME LoopStep, ~GetMessage, ~HandleMessage PROVE MessageInv'
  BY <1>1, <1>5 DEF LoopStep, Prompt, Wake, Abandoned, HandleLine, LineSent, Continues,
                    LineDelivered, Exit
<1>6. ASSUME CmdChat PROVE MessageInv'
  BY <1>1, <1>6 DEF CmdChat
<1>7. ASSUME ReadLine PROVE MessageInv'
  BY <1>1, <1>7 DEF ReadLine
<1>8. ASSUME NEW kind \in {"text", "quit"}, Type(kind) PROVE MessageInv'
  BY <1>1, <1>8 DEF Type
<1>9. QED
  BY <1>2, <1>3, <1>4, <1>5, <1>6, <1>7, <1>8 DEF ConsoleNext

\* A line that is typed goes behind those that wait; one that is read becomes the
\* line in hand, or is lost; one that is sent is later than those before it.
LEMMA LineStep ==
    ASSUME ConsoleInv, ConsoleNext
    PROVE  LineInv'
<1> USE DEF ConsoleInv, ConsoleType, reading, events, outcome, LineInv, HeadLine
<1>1. ASSUME UNCHANGED <<tty, typed, said, line>>,
             input' \in {"read", "done"} \/ main' = "send"
                 => input \in {"read", "done"} \/ main = "send"
      PROVE  LineInv'
  BY <1>1
<1>2. ASSUME NEW kind \in {"text", "quit"}, Type(kind) PROVE LineInv'
  <2>1. /\ Len(tty') = Len(tty) + 1 /\ Len(typed') = Len(typed) + 1
        /\ \A j \in 1..Len(tty') : tty'[j] = IF j = Len(tty) + 1 THEN Len(typed) + 1 ELSE tty[j]
        /\ UNCHANGED <<said, line, input, main>>
    <3>1. tty' = Append(tty, Len(typed) + 1) /\ typed' = Append(typed, kind)
      BY <1>2 DEF Type
    <3>2. UNCHANGED <<said, line, input, main>>
      BY <1>2 DEF Type
    <3>3. Len(typed) + 1 \in Nat
      OBVIOUS
    <3>4. Len(tty') = Len(tty) + 1 /\ Len(typed') = Len(typed) + 1
      BY <3>1, <3>3
    <3>5. ASSUME NEW j \in 1..Len(tty')
          PROVE  tty'[j] = IF j = Len(tty) + 1 THEN Len(typed) + 1 ELSE tty[j]
      BY <3>1, <3>3, <3>4, <3>5
    <3>6. QED
      BY <3>2, <3>4, <3>5
  <2>2. HeadLine' = HeadLine
    BY <2>1
  <2>3. ASSUME NEW j \in 1..Len(tty') PROVE tty'[j] = HeadLine' + j
    <3>1. CASE j = Len(tty) + 1
      BY <2>1, <3>1
    <3>2. CASE j # Len(tty) + 1
      <4>1. j \in 1..Len(tty)
        BY <2>1, <3>2
      <4>2. tty'[j] = tty[j] /\ tty[j] = HeadLine + j
        BY <2>1, <3>2, <4>1
      <4>3. QED
        BY <2>2, <4>2
    <3>3. QED
      BY <3>1, <3>2
  <2>4. QED
    BY <2>1, <2>2, <2>3
<1>3. ASSUME ReadLine PROVE LineInv'
  <2>1. /\ Len(tty') = Len(tty) - 1
        /\ \A j \in 1..Len(tty') : tty'[j] = tty[j + 1]
        /\ UNCHANGED <<said, typed, main>> /\ Head(tty) = HeadLine + 1
    BY <1>3 DEF ReadLine
  <2>2. line' \in {line, HeadLine + 1}
    BY <1>3, <2>1 DEF ReadLine
  <2>3. input' \in {"read", "done"} \/ main' = "send" =>
            \/ line' = HeadLine + 1
            \/ line' = line /\ (input \in {"read", "done"} \/ main = "send")
    BY <1>3, <2>1 DEF ReadLine
  <2>4. HeadLine' = HeadLine + 1 /\ HeadLine \in Nat
    BY <2>1
  <2>5. Len(tty') <= Len(typed') /\ \A j \in 1..Len(tty') : tty'[j] = HeadLine' + j
    BY <2>1, <2>4
  <2>6. line' <= HeadLine' /\ \A i \in 1..Len(said') : said'[i] <= HeadLine'
    <3>1. \A i \in 1..Len(said) : said[i] \in Nat /\ said[i] <= HeadLine
      OBVIOUS
    <3>2. QED
      BY <2>1, <2>2, <2>4, <3>1
  <2>7. ASSUME input' \in {"read", "done"} \/ main' = "send", NEW i \in 1..Len(said')
        PROVE  said'[i] < line'
    <3>1. said[i] \in Nat /\ said[i] <= HeadLine
      BY <2>1, <2>7
    <3>2. QED
      BY <2>1, <2>3, <2>4, <2>7, <3>1
  <2>8. QED
    BY <2>1, <2>5, <2>6, <2>7
<1>4. ASSUME LineSent PROVE LineInv'
  <2>1. input' = "none" /\ main' # "send"
    BY <1>4 DEF LineSent, Continues, PhaseInv
  <2>2. UNCHANGED <<tty, typed, line>>
    BY <1>4 DEF LineSent
  <2>3. CASE said' = said
    BY <2>1, <2>2, <2>3
  <2>4. CASE said' = Append(said, line)
    <3>1. /\ Len(said') = Len(said) + 1
          /\ \A i \in 1..Len(said') : said'[i] = IF i = Len(said) + 1 THEN line ELSE said[i]
          /\ \A i \in 1..Len(said) : said[i] < line
      BY <1>4, <2>4 DEF LineSent
    <3>2. ASSUME NEW i \in 1..Len(said') PROVE said'[i] <= HeadLine'
      <4>1. CASE i = Len(said) + 1
        BY <2>2, <3>1, <4>1
      <4>2. CASE i \in 1..Len(said)
        BY <2>2, <3>1, <4>2
      <4>3. QED
        BY <3>1, <4>1, <4>2
    <3>3. ASSUME NEW i \in 1..Len(said'), NEW j \in 1..Len(said'), i < j
          PROVE  said'[i] < said'[j]
      <4>1. i \in 1..Len(said) /\ said'[i] = said[i]
        BY <3>1, <3>3
      <4>2. CASE j = Len(said) + 1
        BY <3>1, <4>1, <4>2
      <4>3. CASE j \in 1..Len(said)
        BY <3>1, <3>3, <4>1, <4>3
      <4>4. QED
        BY <3>1, <4>2, <4>3
    <3>4. QED
      BY <2>1, <2>2, <3>2, <3>3
  <2>5. QED
    BY <1>4, <2>3, <2>4 DEF LineSent
<1>5. ASSUME LoopStep, ~LineSent PROVE LineInv'
  BY <1>1, <1>5 DEF LoopStep, Prompt, GetMessage, Wake, Abandoned, HandleMessage, Continues,
                    HandleLine, LineDelivered, Exit, PhaseInv
<1>6. ASSUME CmdChat \/ OnGroupMsg PROVE LineInv'
  BY <1>1, <1>6 DEF CmdChat, OnGroupMsg
<1>7. QED
  BY <1>2, <1>3, <1>4, <1>5, <1>6 DEF ConsoleNext

-----------------------------------------------------------------------------
\* A thread is abandoned only when the loop wakes for a message, and a thread that
\* loses a line is no longer there.
LEMMA LostStep ==
    ASSUME ConsoleInv, ConsoleNext
    PROVE  LostInv'
<1> USE DEF ConsoleInv, ConsoleType, reading, events, outcome, LostInv, Taken
<1>0. /\ Cardinality(lost) \in Nat /\ Len(printed) \in Nat
      /\ Cardinality(lost \union {line}) \in {Cardinality(lost), Cardinality(lost) + 1}
      /\ Cardinality(lost \union {Head(tty)}) \in {Cardinality(lost), Cardinality(lost) + 1}
  <2>1. IsFiniteSet(lost) /\ printed \in Seq(Nat)
    OBVIOUS
  <2>2. Len(printed) \in Nat
    BY <2>1
  <2>3. QED
    BY <2>1, <2>2, OneMore
<1>1. ASSUME UNCHANGED <<lost, stale, printed, msg>>,
             main' \in {"off", "prompt", "wait"} => main \in {"off", "prompt", "wait"} \/ msg = 0
      PROVE  LostInv'
  BY <1>0, <1>1
<1>2. ASSUME ReadLine PROVE LostInv'
  <2>1. CASE holder = "live"
    BY <1>0, <1>2, <2>1 DEF ReadLine
  <2>2. CASE holder = "stale"
    <3>0. /\ lost' = lost \union {Head(tty)} /\ stale' = stale - 1
          /\ UNCHANGED <<main, printed, msg>>
      BY <1>2, <2>2 DEF ReadLine
    <3>1. stale > 0 /\ stale' \in Nat
      BY <2>2, <3>0 DEF PhaseInv
    <3>2. Cardinality(lost') \in Nat /\ Cardinality(lost') + stale' <= Cardinality(lost) + stale
      BY <1>0, <3>0, <3>1
    <3>3. QED
      BY <1>0, <3>0, <3>1, <3>2
  <2>3. QED
    BY <1>2, <2>1, <2>2 DEF ReadLine
<1>3. ASSUME GetMessage PROVE LostInv'
  BY <1>0, <1>3 DEF GetMessage
<1>4. ASSUME Wake PROVE LostInv'
  <2>1. Cardinality(lost) + stale <= Len(printed) /\ main' = "handle"
    BY <1>4 DEF Wake
  <2>2. UNCHANGED <<printed, msg>>
    BY <1>4 DEF Wake
  <2>3. CASE msg = 0
    <3>1. input = "done"
      BY <1>4, <2>3 DEF Wake
    <3>2. lost' = lost /\ stale' = stale
      BY <1>4, <3>1 DEF Wake, Abandoned
    <3>3. QED
      BY <1>0, <2>1, <2>2, <2>3, <3>2
  <2>4. CASE msg # 0
    <3>0. \/ stale' = stale + 1 /\ lost' = lost
          \/ stale' = stale /\ lost' = lost
          \/ stale' = stale /\ lost' = lost \union {line}
      BY <1>4 DEF Wake, Abandoned
    <3>1. /\ stale \in Nat /\ stale' \in Nat
          /\ Cardinality(lost') \in {Cardinality(lost), Cardinality(lost) + 1}
          /\ \/ stale' = stale
             \/ Cardinality(lost') = Cardinality(lost) /\ stale' = stale + 1
      <4>1. CASE lost' = lost
        <5>1. Cardinality(lost') = Cardinality(lost)
          BY <4>1, Zenon
        <5>2. QED
          BY <3>0, <5>1
      <4>2. CASE stale' = stale /\ lost' = lost \union {line}
        <5>1. Cardinality(lost') = Cardinality(lost \union {line})
          BY <4>2, Zenon
        <5>2. QED
          BY <1>0, <3>0, <4>2, <5>1
      <4>3. QED
        BY <3>0, <4>1, <4>2
    <3>2. Cardinality(lost') + stale' <= Cardinality(lost) + stale + 1
      BY <1>0, <3>1
    <3>3. QED
      BY <1>0, <2>1, <2>2, <2>4, <3>1, <3>2
  <2>5. QED
    BY <2>3, <2>4
<1>5. ASSUME HandleMessage PROVE LostInv'
  <2>1. Len(printed') = Len(printed) + 1 /\ msg # 0 /\ msg' = 0
    BY <1>5 DEF HandleMessage, PhaseInv
  <2>2. UNCHANGED <<lost, stale>>
    BY <1>5 DEF HandleMessage
  <2>3. QED
    BY <1>0, <2>1, <2>2
<1>6. ASSUME LineSent PROVE LostInv'
  <2>1. main' = "prompt" => msg = 0
    BY <1>6 DEF LineSent, Continues, PhaseInv
  <2>2. QED
    BY <1>1, <1>6, <2>1 DEF LineSent, Continues
<1>7. ASSUME Prompt \/ HandleLine \/ LineDelivered \/ Exit PROVE LostInv'
  BY <1>1, <1>7 DEF Prompt, HandleLine, LineDelivered, Exit
<1>8. ASSUME CmdChat \/ OnGroupMsg \/ \E kind \in {"text", "quit"} : Type(kind)
      PROVE  LostInv'
  BY <1>1, <1>8 DEF CmdChat, OnGroupMsg, Type
<1>9. QED
  BY <1>2, <1>3, <1>4, <1>5, <1>6, <1>7, <1>8 DEF ConsoleNext, LoopStep

-----------------------------------------------------------------------------
LEMMA InvStep == ConsoleInv /\ [ConsoleNext]_consoleVars => ConsoleInv'
<1>1. ASSUME ConsoleInv, ConsoleNext PROVE ConsoleInv'
  <2>1. ConsoleType' /\ PhaseInv' /\ MessageInv' /\ LineInv' /\ LostInv'
    BY <1>1, TypeStep, PhaseStep, MessageStep, LineStep, LostStep
  <2>2. QED
    BY <2>1 DEF ConsoleInv
<1>2. QED
  BY <1>1, Stutters

\* The loop of the terminal keeps its invariant.
THEOREM ConsoleInvariant == ConsoleSpec => []ConsoleInv
<1>1. QED
  BY InitHolds, InvStep, PTL DEF ConsoleSpec

\* Whatever is cancelled and abandoned, every message is shown once and in order, the
\* lines that are sent keep the order in which they were typed, and no more lines are
\* lost than messages came.
THEOREM ConsoleKeepsOrder == ConsoleSpec => []ConsoleInOrder
<1>1. ConsoleInv => ConsoleInOrder
  <2>1. printed \in Seq(Nat) /\ said \in Seq(Nat)
            => DOMAIN printed = 1..Len(printed) /\ DOMAIN said = 1..Len(said)
    OBVIOUS
  <2>2. QED
    BY <2>1 DEF ConsoleInv, ConsoleType, MessageInv, LineInv, LostInv, Taken, ConsoleInOrder
<1>2. QED
  BY <1>1, ConsoleInvariant, PTL

-----------------------------------------------------------------------------
\* The composition adds nothing to its parts, and what they promise it promises.
THEOREM OutputsKeepPromises ==
    OutputsSpec => [](StreamsClose /\ OneAbortPerCancel /\ GivenAsSent /\ ConsoleInOrder)
<1>1. OutputsInit => Init /\ InvokeInit /\ ConsoleInit
  BY DEF OutputsInit
<1>2. [OutputsNext]_<<output, vars, invokeVars, consoleVars>>
        => [Next]_vars /\ [InvokeNext]_invokeVars /\ [ConsoleNext]_consoleVars
  BY DEF OutputsNext
<1>3. OutputsSpec => Spec /\ InvokeSpec /\ ConsoleSpec
  BY <1>1, <1>2, PTL DEF OutputsSpec, Spec, InvokeSpec, ConsoleSpec
<1>4. QED
  BY <1>3, StreamsAreClosed, CancelsStopOne, AnswersAreGiven, ConsoleKeepsOrder, PTL
=============================================================================
