--------------------------- MODULE SessionProofs ---------------------------
(***************************************************************************)
(* Proofs about the session of the Node client: Auth, for any number of    *)
(* concurrent calls and any nesting of Python's login, and NodeWS, for any *)
(* number of sockets and any delays. They share a module because the       *)
(* NodeClient does both: it authenticates again before it reconnects.      *)
(***************************************************************************)
EXTENDS NodeWS, Auth, FiniteSetTheorems, TLAPS

\* What the place of a call says about the rest of it: who has returned waits for
\* nothing, a login nests only in posts of a login, and a request that has just
\* been sent was not rejected yet.
Shape(t) ==
    /\ At(t, "idle") => task[t].op = "request"
    /\ task[t].pc \in {"idle", "wait", "sent", "resend", "retry"} => task[t].nest = <<>>
    /\ task[t].pc \in {"sent", "resend", "retry"} => task[t].op = "request"
    /\ At(t, "sent") => ~stale[t] /\ ~task[t].kept
    /\ task[t].op = "request" /\ task[t].kept => task[t].pc \in {"retry", "idle"}

IInv == TypeOK /\ \A t \in Tasks : Shape(t)

-----------------------------------------------------------------------------
\* The effects of the parts of which the actions are made.

Others(t) == \A u \in Tasks \ {t} : task'[u] = task[u]

\* Idle is a call that is over.
LEMMA IdleFacts ==
    /\ Idle \in Calls /\ Idle.pc = "idle" /\ Idle.op = "request"
    /\ Idle.nest = <<>> /\ ~Idle.again /\ ~Idle.kept
  BY DEF Idle, Calls

\* Starts: the call of t is new, and only its own.
LEMMA StartsEffect ==
    ASSUME TypeOK, NEW t \in Tasks, NEW op \in {"request", "login", "refresh"},
           NEW p \in {"sent", "wait", "refresh", "challenge"}, Starts(t, op, p)
    PROVE  /\ At(t, "idle")
           /\ task' \in [Tasks -> Calls] /\ Others(t)
           /\ task'[t].pc = p /\ task'[t].op = op /\ task'[t].nest = <<>>
           /\ task'[t].kept = (op # "request" /\ task[t].kept)
  BY IdleFacts DEF TypeOK, Calls, Starts, Others

\* Goes: nothing but the place of t changes.
LEMMA GoesEffect ==
    ASSUME TypeOK, NEW t \in Tasks,
           NEW p \in {"wait", "refresh", "challenge", "login", "resend", "retry"}, Goes(t, p)
    PROVE  /\ task' \in [Tasks -> Calls] /\ Others(t)
           /\ task'[t].pc = p /\ task'[t].op = task[t].op
           /\ task'[t].nest = task[t].nest /\ task'[t].kept = task[t].kept
  BY DEF TypeOK, Calls, Goes, Others

\* Ends: t is idle again, and its result is that of a request only.
LEMMA EndsEffect ==
    ASSUME TypeOK, NEW t \in Tasks, NEW o \in {"ok", "401", "error", "auth"}, Ends(t, o)
    PROVE  /\ task' \in [Tasks -> Calls] /\ Others(t)
           /\ task'[t].pc = "idle" /\ task'[t].op = "request" /\ task'[t].nest = <<>>
           /\ task'[t].kept = task[t].kept
           /\ lock' \in Tasks \union {NoTask}
           /\ out' = IF task[t].op = "request" THEN [out EXCEPT ![t] = o] ELSE out
  BY IdleFacts DEF TypeOK, Calls, Ends, Others

\* Unauthorized: a post is repeated, or a login begins within the login.
LEMMA UnauthorizedEffect ==
    ASSUME TypeOK, NEW t \in Tasks, Unauthorized(t), task[t].pc \in {"challenge", "login"}
    PROVE  \/ Ends(t, "error")
           \/ /\ task' \in [Tasks -> Calls] /\ Others(t)
              /\ Len(task'[t].nest) <= Limit
              /\ task'[t].op = task[t].op /\ task'[t].kept = task[t].kept
              /\ \/ task'[t].pc = task[t].pc /\ task'[t].nest = task[t].nest
                 \/ task'[t].pc \in {"refresh", "challenge"} /\ task'[t].nest # <<>>
              /\ UNCHANGED <<lock, out>>
<1>1. CASE access /\ task' = [task EXCEPT ![t].again = TRUE] /\ UNCHANGED <<lock, out>>
  BY <1>1 DEF TypeOK, Calls, Others
<1>2. CASE /\ ~access /\ Len(task[t].nest) < Limit
           /\ task' = [task EXCEPT ![t].pc = IF refresh THEN "refresh" ELSE "challenge",
                                   ![t].nest = Append(@, task[t].pc)]
           /\ UNCHANGED <<lock, out>>
  <2> DEFINE longer == Append(task[t].nest, task[t].pc)
  <2>1. longer \in Seq({"challenge", "login"}) /\ Len(longer) = Len(task[t].nest) + 1
    BY DEF TypeOK, Calls
  <2>2. longer # <<>> /\ Len(longer) <= Limit
    BY <1>2, <2>1, AuthAssumption DEF TypeOK, Calls
  <2>3. /\ task' \in [Tasks -> Calls] /\ Others(t)
        /\ task'[t].pc \in {"refresh", "challenge"} /\ task'[t].nest = longer
        /\ task'[t].op = task[t].op /\ task'[t].kept = task[t].kept
    <3> HIDE DEF longer
    <3>1. task' = [task EXCEPT ![t].pc = IF refresh THEN "refresh" ELSE "challenge",
                               ![t].nest = longer]
      BY <1>2 DEF longer, TypeOK
    <3>2. task[t] \in Calls /\ task \in [Tasks -> Calls]
      BY DEF TypeOK
    <3>3. task'[t] = [task[t] EXCEPT !.pc = IF refresh THEN "refresh" ELSE "challenge",
                                     !.nest = longer]
      BY <3>1, <3>2
    <3>4. /\ task'[t] \in Calls
          /\ task'[t].pc \in {"refresh", "challenge"} /\ task'[t].nest = longer
          /\ task'[t].op = task[t].op /\ task'[t].kept = task[t].kept
      BY <2>1, <3>2, <3>3 DEF Calls
    <3>5. Others(t)
      BY <3>1, <3>2 DEF Others
    <3>6. task' \in [Tasks -> Calls]
      BY <3>1, <3>2, <3>4, <3>5 DEF Others
    <3>7. QED
      BY <3>4, <3>5, <3>6
  <2>4. QED
    BY <1>2, <2>2, <2>3
<1>3. QED
  BY <1>1, <1>2 DEF Unauthorized

\* Renewed: the innermost post that waits, the end of a login or refresh, or the
\* repetition of the request.
LEMMA RenewedEffect ==
    ASSUME TypeOK, NEW t \in Tasks, Renewed(t)
    PROVE  \/ /\ task[t].nest # <<>>
              /\ task' \in [Tasks -> Calls] /\ Others(t)
              /\ Len(task'[t].nest) <= Limit
              /\ task'[t].pc \in {"challenge", "login"}
              /\ task'[t].op = task[t].op /\ task'[t].kept = task[t].kept
              /\ UNCHANGED <<lock, out>>
           \/ task[t].nest = <<>> /\ task[t].op # "request" /\ Ends(t, "ok")
           \/ /\ task[t].nest = <<>> /\ task[t].op = "request"
              /\ Goes(t, IF sdk = "go" THEN "resend" ELSE "retry")
              /\ lock' = NoTask /\ out' = out
<1>1. CASE task[t].nest # <<>>
  <2> DEFINE nest == task[t].nest
             shorter == SubSeq(nest, 1, Len(nest) - 1)
  <2>1. nest \in Seq({"challenge", "login"}) /\ Len(nest) \in Nat /\ Len(nest) > 0
    BY <1>1 DEF TypeOK, Calls
  <2>2. /\ nest[Len(nest)] \in {"challenge", "login"}
        /\ shorter \in Seq({"challenge", "login"}) /\ Len(shorter) <= Len(nest)
    BY <2>1
  <2>3. /\ task' = [task EXCEPT ![t].pc = nest[Len(nest)], ![t].again = TRUE,
                                ![t].nest = shorter]
        /\ UNCHANGED <<lock, out>>
    BY <1>1 DEF Renewed
  <2>4. Len(shorter) <= Limit
    BY <2>1, <2>2, AuthAssumption DEF TypeOK
  <2>5. QED
    <3> DEFINE top == nest[Len(nest)]
    <3>1. task' = [task EXCEPT ![t].pc = top, ![t].again = TRUE, ![t].nest = shorter]
      BY <2>3
    <3>2. top \in {"challenge", "login"} /\ shorter \in Seq({"challenge", "login"})
      BY <2>2
    <3> HIDE DEF top, shorter
    <3>3. /\ task' \in [Tasks -> Calls] /\ Others(t)
          /\ task'[t].pc = top /\ task'[t].nest = shorter
          /\ task'[t].op = task[t].op /\ task'[t].kept = task[t].kept
      <4>1. task[t] \in Calls /\ task \in [Tasks -> Calls]
        BY DEF TypeOK
      <4>2. task'[t] = [task[t] EXCEPT !.pc = top, !.again = TRUE, !.nest = shorter]
        BY <3>1, <4>1
      <4>3. /\ task'[t] \in Calls
            /\ task'[t].pc = top /\ task'[t].nest = shorter
            /\ task'[t].op = task[t].op /\ task'[t].kept = task[t].kept
        BY <3>2, <4>1, <4>2 DEF Calls
      <4>4. Others(t)
        BY <3>1, <4>1 DEF Others
      <4>5. task' \in [Tasks -> Calls]
        BY <3>1, <4>1, <4>3, <4>4 DEF Others
      <4>6. QED
        BY <4>3, <4>4, <4>5
    <3>4. UNCHANGED <<lock, out>>
      BY <2>3
    <3>5. QED
      BY <1>1, <2>4, <3>2, <3>3, <3>4
<1>2. CASE task[t].nest = <<>>
  BY <1>2 DEF Renewed
<1>3. QED
  BY <1>1, <1>2

-----------------------------------------------------------------------------
\* LoginFails: the post is repeated, a login nests in it, or the call ends.
LEMMA LoginFailsEffect ==
    ASSUME TypeOK, NEW t \in Tasks, LoginFails(t), task[t].pc \in {"challenge", "login"}
    PROVE  \/ \E o \in {"auth", "error"} : Ends(t, o)
           \/ /\ task' \in [Tasks -> Calls] /\ Others(t)
              /\ Len(task'[t].nest) <= Limit
              /\ task'[t].op = task[t].op /\ task'[t].kept = task[t].kept
              /\ \/ task'[t].pc = task[t].pc /\ task'[t].nest = task[t].nest
                 \/ task'[t].pc \in {"refresh", "challenge"} /\ task'[t].nest # <<>>
              /\ UNCHANGED <<lock, out>>
  BY UnauthorizedEffect DEF LoginFails

\* A step of t keeps the invariant if it keeps the types and t has its shape
\* afterwards.
LEMMA StepKept ==
    ASSUME IInv, NEW t \in Tasks, Others(t), Shape(t)',
           task' \in [Tasks -> Calls], Len(task'[t].nest) <= Limit,
           sdk' = sdk, access' \in BOOLEAN, refresh' \in BOOLEAN,
           lock' \in Tasks \union {NoTask},
           out' \in [Tasks -> {"none", "ok", "401", "error", "auth"}],
           stale' \in [Tasks -> BOOLEAN], \A u \in Tasks \ {t} : stale'[u] => stale[u]
    PROVE  IInv'
<1>1. \A u \in Tasks : Len(task'[u].nest) <= Limit
  BY DEF IInv, TypeOK, Others
<1>2. TypeOK'
  BY <1>1 DEF IInv, TypeOK
<1>3. \A u \in Tasks : Shape(u)'
  BY DEF IInv, Others, Shape, At
<1>4. QED
  BY <1>2, <1>3 DEF IInv

\* Ends keeps the invariant, whatever becomes of the tokens.
LEMMA EndsKept ==
    ASSUME IInv, NEW t \in Tasks, NEW o \in {"ok", "401", "error", "auth"}, Ends(t, o),
           sdk' = sdk, access' \in BOOLEAN, refresh' \in BOOLEAN,
           stale' = stale \/ stale' = [u \in Tasks |-> FALSE]
    PROVE  IInv'
<1>1. TypeOK
  BY DEF IInv
<1>2. /\ task' \in [Tasks -> Calls] /\ Others(t)
      /\ task'[t].pc = "idle" /\ task'[t].op = "request" /\ task'[t].nest = <<>>
      /\ lock' \in Tasks \union {NoTask}
      /\ out' = IF task[t].op = "request" THEN [out EXCEPT ![t] = o] ELSE out
  BY <1>1, EndsEffect
<1>3. stale' \in [Tasks -> BOOLEAN] /\ \A u \in Tasks \ {t} : stale'[u] => stale[u]
  BY <1>1 DEF TypeOK
<1>4. out' \in [Tasks -> {"none", "ok", "401", "error", "auth"}]
  BY <1>1, <1>2 DEF TypeOK
<1>5. Len(task'[t].nest) <= Limit /\ Shape(t)'
  BY <1>2, AuthAssumption DEF Shape, At
<1>6. QED
  BY <1>2, <1>3, <1>4, <1>5, StepKept

\* Moving on from one place of the renewal to another keeps the invariant.
LEMMA GoesKept ==
    ASSUME IInv, NEW t \in Tasks,
           NEW p \in {"wait", "refresh", "challenge", "login", "resend", "retry"}, Goes(t, p),
           task[t].pc # "idle", task[t].op = "request" => ~task[t].kept,
           p \in {"wait", "resend", "retry"} => task[t].nest = <<>>,
           p \in {"resend", "retry"} => task[t].op = "request",
           sdk' = sdk, access' \in BOOLEAN, refresh' \in BOOLEAN, out' = out,
           lock' \in Tasks \union {NoTask},
           stale' \in [Tasks -> BOOLEAN], \A u \in Tasks \ {t} : stale'[u] => stale[u]
    PROVE  IInv'
<1>1. TypeOK
  BY DEF IInv
<1>2. /\ task' \in [Tasks -> Calls] /\ Others(t)
      /\ task'[t].pc = p /\ task'[t].op = task[t].op
      /\ task'[t].nest = task[t].nest /\ task'[t].kept = task[t].kept
  BY <1>1, GoesEffect
<1>3. Len(task'[t].nest) <= Limit /\ out' \in [Tasks -> {"none", "ok", "401", "error", "auth"}]
  BY <1>1, <1>2 DEF TypeOK
<1>4. Shape(t)'
  BY <1>2 DEF Shape, At
<1>5. QED
  BY <1>2, <1>3, <1>4, StepKept

\* So does the end of a post of the login.
LEMMA LoginFailsKept ==
    ASSUME IInv, NEW t \in Tasks, LoginFails(t), task[t].pc \in {"challenge", "login"},
           UNCHANGED <<sdk, access, refresh, stale>>
    PROVE  IInv'
<1>1. TypeOK /\ access' \in BOOLEAN /\ refresh' \in BOOLEAN
  BY DEF IInv, TypeOK
<1>2. CASE \E o \in {"auth", "error"} : Ends(t, o)
  BY <1>1, <1>2, EndsKept
<1>3. CASE /\ task' \in [Tasks -> Calls] /\ Others(t)
           /\ Len(task'[t].nest) <= Limit
           /\ task'[t].op = task[t].op /\ task'[t].kept = task[t].kept
           /\ \/ task'[t].pc = task[t].pc /\ task'[t].nest = task[t].nest
              \/ task'[t].pc \in {"refresh", "challenge"} /\ task'[t].nest # <<>>
           /\ UNCHANGED <<lock, out>>
  <2>1. Shape(t)'
    BY <1>3 DEF IInv, Shape, At
  <2>2. /\ lock' \in Tasks \union {NoTask} /\ stale' \in [Tasks -> BOOLEAN]
        /\ out' \in [Tasks -> {"none", "ok", "401", "error", "auth"}]
    BY <1>1, <1>3 DEF TypeOK
  <2>3. QED
    BY <1>1, <1>3, <2>1, <2>2, StepKept
<1>4. QED
  BY <1>1, <1>2, <1>3, LoginFailsEffect

\* And so do the tokens that are stored, with what follows them.
LEMMA RenewedKept ==
    ASSUME IInv, NEW t \in Tasks, task[t].pc \in {"refresh", "login"}, NEW r \in BOOLEAN,
           Stored(r), Renewed(t), sdk' = sdk
    PROVE  IInv'
<1>1. TypeOK /\ Shape(t)
  BY DEF IInv
<1>2. /\ access' \in BOOLEAN /\ refresh' \in BOOLEAN
      /\ stale' = [u \in Tasks |-> FALSE] /\ stale' \in [Tasks -> BOOLEAN]
  BY DEF Stored
<1>3. CASE /\ task[t].nest # <<>>
           /\ task' \in [Tasks -> Calls] /\ Others(t)
           /\ Len(task'[t].nest) <= Limit
           /\ task'[t].pc \in {"challenge", "login"}
           /\ task'[t].op = task[t].op /\ task'[t].kept = task[t].kept
           /\ UNCHANGED <<lock, out>>
  <2>1. Shape(t)'
    BY <1>1, <1>3 DEF Shape, At
  <2>2. /\ lock' \in Tasks \union {NoTask}
        /\ out' \in [Tasks -> {"none", "ok", "401", "error", "auth"}]
    BY <1>1, <1>3 DEF TypeOK
  <2>3. QED
    BY <1>2, <1>3, <2>1, <2>2, StepKept
<1>4. CASE task[t].nest = <<>> /\ task[t].op # "request" /\ Ends(t, "ok")
  BY <1>2, <1>4, EndsKept
<1>5. CASE /\ task[t].nest = <<>> /\ task[t].op = "request"
           /\ Goes(t, IF sdk = "go" THEN "resend" ELSE "retry")
           /\ lock' = NoTask /\ out' = out
  <2>1. PICK p \in {"resend", "retry"} : Goes(t, p)
    BY <1>5
  <2>2. ~task[t].kept
    BY <1>1, <1>5 DEF Shape
  <2>3. QED
    BY <1>2, <1>5, <2>1, <2>2, GoesKept
<1>6. QED
  BY <1>1, <1>3, <1>4, <1>5, RenewedEffect

-----------------------------------------------------------------------------
\* The inductive invariant of Auth: types, the nesting of Python's login within
\* its limit, and what the place of each call says about it.
THEOREM AuthInvariant == Spec => []IInv
<1>1. Init => IInv
  BY IdleFacts, AuthAssumption DEF Init, IInv, TypeOK, Shape, At
<1>2. IInv /\ [Next]_vars => IInv'
  <2> SUFFICES ASSUME IInv, [Next]_vars PROVE IInv'
    OBVIOUS
  <2>1. /\ TypeOK /\ \A t \in Tasks : Shape(t)
        /\ access \in BOOLEAN /\ refresh \in BOOLEAN /\ lock \in Tasks \union {NoTask}
        /\ stale \in [Tasks -> BOOLEAN]
        /\ out \in [Tasks -> {"none", "ok", "401", "error", "auth"}]
    BY DEF IInv, TypeOK
  <2>2. CASE UNCHANGED vars
    BY <2>2 DEF vars, IInv, TypeOK, Shape, At
  <2>3. CASE ClearTokens
    BY <2>3 DEF ClearTokens, IInv, TypeOK, Shape, At
  <2>4. ASSUME NEW t \in Tasks, Request(t) PROVE IInv'
    <3>1. /\ task' \in [Tasks -> Calls] /\ Others(t)
          /\ task'[t].pc = "sent" /\ task'[t].op = "request" /\ task'[t].nest = <<>>
          /\ ~task'[t].kept
      BY <2>1, <2>4, StartsEffect DEF Request
    <3>2. stale' = [stale EXCEPT ![t] = FALSE] /\ out' = [out EXCEPT ![t] = "none"]
      BY <2>4 DEF Request
    <3>3. Shape(t)' /\ Len(task'[t].nest) <= Limit
      BY <2>1, <3>1, <3>2, AuthAssumption DEF Shape, At
    <3>4. QED
      BY <2>1, <2>4, <3>1, <3>2, <3>3, StepKept DEF Request
  <2>5. ASSUME NEW t \in Tasks, CallLogin(t) \/ CallRefresh(t) PROVE IInv'
    <3>1. PICK op \in {"login", "refresh"}, p \in {"wait", "refresh", "challenge"} :
             Starts(t, op, p)
      BY <2>5 DEF CallLogin, CallRefresh
    <3>2. /\ task' \in [Tasks -> Calls] /\ Others(t)
          /\ task'[t].pc = p /\ task'[t].op = op /\ task'[t].nest = <<>>
      BY <2>1, <3>1, StartsEffect
    <3>3. Shape(t)' /\ Len(task'[t].nest) <= Limit
      BY <3>1, <3>2, AuthAssumption DEF Shape, At
    <3>4. UNCHANGED <<sdk, access, refresh, lock, stale, out>>
      BY <2>5 DEF CallLogin, CallRefresh
    <3>5. QED
      BY <2>1, <3>2, <3>3, <3>4, StepKept
  <2>6. ASSUME NEW t \in Tasks, Acquire(t) PROVE IInv'
    <3>1. PICK p \in {"refresh", "challenge"} : Goes(t, p)
      BY <2>6 DEF Acquire
    <3>2. /\ task[t].pc = "wait" /\ lock' = t
          /\ UNCHANGED <<sdk, access, refresh, stale, out>>
      BY <2>6 DEF Acquire, At
    <3>3. task[t].op = "request" => ~task[t].kept
      BY <2>1, <3>2 DEF Shape
    <3>4. QED
      BY <2>1, <3>1, <3>2, <3>3, GoesKept
  <2>7. ASSUME NEW t \in Tasks, Resend(t) PROVE IInv'
    <3>1. /\ task[t].pc = "resend" /\ Goes(t, "retry")
          /\ UNCHANGED <<sdk, access, refresh, lock, stale, out>>
      BY <2>7 DEF Resend, At
    <3>2. task[t].op = "request" /\ ~task[t].kept /\ task[t].nest = <<>>
      BY <2>1, <3>1 DEF Shape
    <3>3. QED
      BY <2>1, <3>1, <3>2, GoesKept
  <2>8. ASSUME NEW t \in Tasks, AnswerFirst(t) PROVE IInv'
    <3>1. task[t].pc = "sent" /\ UNCHANGED <<sdk, access, refresh>>
      BY <2>8 DEF AnswerFirst, At
    <3>2. task[t].op = "request" /\ ~task[t].kept /\ task[t].nest = <<>>
      BY <2>1, <3>1 DEF Shape, At
    <3>3. ASSUME NEW o \in {"ok", "error"}, Ends(t, o), UNCHANGED stale PROVE IInv'
      BY <2>1, <3>1, <3>3, EndsKept
    <3>4. CASE Rejected(t)
      <4>1. /\ stale' = [stale EXCEPT ![t] = TRUE] /\ stale' \in [Tasks -> BOOLEAN]
            /\ UNCHANGED <<lock, out>>
        BY <2>1, <3>4 DEF Rejected
      <4>2. ASSUME NEW p \in {"wait", "refresh", "challenge"}, Goes(t, p) PROVE IInv'
        BY <2>1, <3>1, <3>2, <4>1, <4>2, GoesKept
      <4>3. CASE task' = [task EXCEPT ![t].pc = "retry", ![t].kept = TRUE]
        <5>1. /\ task' \in [Tasks -> Calls] /\ Others(t)
              /\ task'[t].pc = "retry" /\ task'[t].op = task[t].op
              /\ task'[t].nest = task[t].nest
          BY <2>1, <4>3 DEF TypeOK, Calls, Others
        <5>2. Shape(t)' /\ Len(task'[t].nest) <= Limit
          BY <3>2, <5>1, AuthAssumption DEF Shape, At
        <5>3. QED
          BY <2>1, <3>1, <4>1, <5>1, <5>2, StepKept
      <4>4. QED
        BY <3>4, <4>2, <4>3 DEF Rejected
    <3>5. QED
      BY <2>8, <3>3, <3>4 DEF AnswerFirst
  <2>9. ASSUME NEW t \in Tasks, AnswerRetry(t) PROVE IInv'
    BY <2>1, <2>9, EndsKept DEF AnswerRetry
  <2>10. ASSUME NEW t \in Tasks, AnswerRefresh(t) PROVE IInv'
    <3>1. task[t].pc = "refresh" /\ sdk' = sdk
      BY <2>10 DEF AnswerRefresh, At
    <3>2. CASE \E r \in BOOLEAN : Stored(r) /\ Renewed(t)
      BY <3>1, <3>2, RenewedKept
    <3>3. CASE /\ FallsBack(t) /\ UNCHANGED stale
               /\ access' \in BOOLEAN /\ refresh' \in BOOLEAN
      <4>1. CASE Ends(t, "auth")
        BY <2>1, <3>1, <3>3, <4>1, EndsKept
      <4>2. CASE Goes(t, "challenge") /\ UNCHANGED <<lock, out>>
        <5>1. task[t].op = "request" => ~task[t].kept
          BY <2>1, <3>1 DEF Shape
        <5>2. QED
          BY <2>1, <3>1, <3>3, <4>2, <5>1, GoesKept
      <4>3. QED
        BY <3>3, <4>1, <4>2 DEF FallsBack
    <3>4. CASE Ends(t, "error") /\ UNCHANGED <<access, refresh, stale>>
      BY <2>1, <3>1, <3>4, EndsKept
    <3>5. QED
      BY <2>1, <2>10, <3>2, <3>3, <3>4 DEF AnswerRefresh
  <2>11. ASSUME NEW t \in Tasks, AnswerChallenge(t) PROVE IInv'
    <3>1. task[t].pc = "challenge" /\ UNCHANGED <<sdk, access, refresh, stale>>
      BY <2>11 DEF AnswerChallenge, At
    <3>2. task[t].op = "request" => ~task[t].kept
      BY <2>1, <3>1 DEF Shape
    <3>3. CASE Goes(t, "login") /\ UNCHANGED <<lock, out>>
      BY <2>1, <3>1, <3>2, <3>3, GoesKept
    <3>4. CASE LoginFails(t)
      BY <3>1, <3>4, LoginFailsKept
    <3>5. QED
      BY <2>11, <3>3, <3>4 DEF AnswerChallenge
  <2>12. ASSUME NEW t \in Tasks, AnswerLogin(t) PROVE IInv'
    <3>1. task[t].pc = "login" /\ sdk' = sdk
      BY <2>12 DEF AnswerLogin, At
    <3>2. CASE Stored(TRUE) /\ Renewed(t)
      BY <3>1, <3>2, RenewedKept
    <3>3. CASE LoginFails(t) /\ UNCHANGED <<access, refresh, stale>>
      BY <3>1, <3>3, LoginFailsKept
    <3>4. QED
      BY <2>12, <3>2, <3>3 DEF AnswerLogin
  <2>13. QED
    BY <2>2, <2>3, <2>4, <2>5, <2>6, <2>7, <2>8, <2>9, <2>10, <2>11, <2>12
    DEF Next, Answered
<1>3. QED
  BY <1>1, <1>2, PTL DEF Spec

\* The types, and that nothing nests deeper than the stack allows.
THEOREM Types == Spec => []TypeOK
BY AuthInvariant, PTL DEF IInv

-----------------------------------------------------------------------------
\* The state of AuthPromise that Auth stands for.
phaseBar == [t \in Tasks |-> IF Outside(t) THEN "idle" ELSE Phase(t)]
staleBar == [t \in Tasks |-> ~Outside(t) /\ stale[t]]
outBar == [t \in Tasks |-> IF Outside(t) THEN "none" ELSE out[t]]

SameBar == UNCHANGED <<phaseBar, staleBar, outBar>>
PromiseStep == [Protocol!PromiseNext]_(Protocol!promiseVars)

LEMMA PhaseAtFacts ==
    /\ PhaseAt["idle"] = "idle" /\ PhaseAt["sent"] = "sent" /\ PhaseAt["wait"] = "refresh"
    /\ PhaseAt["refresh"] = "refresh" /\ PhaseAt["challenge"] = "login"
    /\ PhaseAt["login"] = "login" /\ PhaseAt["resend"] = "retried"
    /\ PhaseAt["retry"] = "retried"
  BY DEF PhaseAt

\* Where the call of t is does not depend on the other calls.
LEMMA MovesBar ==
    ASSUME NEW t \in Tasks, Others(t), NEW p,
           p = IF Outside(t)' THEN "idle" ELSE Phase(t)'
    PROVE  phaseBar' = [phaseBar EXCEPT ![t] = p]
  BY DEF phaseBar, Others, Outside, Phase, At

LEMMA StaleBar ==
    ASSUME TypeOK, NEW t \in Tasks, Others(t), NEW b,
           \A u \in Tasks \ {t} : stale'[u] = stale[u],
           b = (~Outside(t)' /\ stale'[t])
    PROVE  staleBar' = [staleBar EXCEPT ![t] = b]
  BY DEF staleBar, Others, Outside

LEMMA OutBar ==
    ASSUME TypeOK, NEW t \in Tasks, Others(t), NEW o,
           \A u \in Tasks \ {t} : out'[u] = out[u],
           o = IF Outside(t)' THEN "none" ELSE out'[t]
    PROVE  outBar' = [outBar EXCEPT ![t] = o]
  BY DEF outBar, Others, Outside

\* Renewed tokens are nobody's rejected ones.
LEMMA FreshBar ==
    ASSUME stale' = [u \in Tasks |-> FALSE]
    PROVE  staleBar' = [u \in Tasks |-> FALSE]
  BY DEF staleBar

LEMMA SamePhase ==
    ASSUME NEW t \in Tasks, Others(t), Outside(t)' = Outside(t), Phase(t)' = Phase(t)
    PROVE  phaseBar' = phaseBar
  BY DEF phaseBar, Others, Outside, Phase, At

LEMMA SameStale ==
    ASSUME NEW t \in Tasks, Others(t), task'[t].kept = task[t].kept, stale' = stale
    PROVE  staleBar' = staleBar
  BY DEF staleBar, Others, Outside

LEMMA SameOut ==
    ASSUME NEW t \in Tasks, Others(t), task'[t].kept = task[t].kept, out' = out
    PROVE  outBar' = outBar
  BY DEF outBar, Others, Outside

\* In what a step of t leaves the request of t where it was and the tokens alone,
\* nothing is seen of it.
LEMMA Unseen ==
    ASSUME NEW t \in Tasks, Others(t), task'[t].kept = task[t].kept, Phase(t)' = Phase(t),
           stale' = stale, out' = out
    PROVE  SameBar
  BY SamePhase, SameStale, SameOut DEF SameBar, Outside

\* A call that ends is a request that returns, or it is not seen.
LEMMA EndsBar ==
    ASSUME TypeOK, NEW t \in Tasks, Shape(t), NEW o \in {"ok", "401", "error", "auth"},
           Ends(t, o), stale' = stale
    PROVE  \/ SameBar
           \/ task[t].op = "request" /\ ~task[t].kept /\ Protocol!Returns(t, o)
<1>1. /\ Others(t) /\ task'[t].kept = task[t].kept
      /\ out' = IF task[t].op = "request" THEN [out EXCEPT ![t] = o] ELSE out
      /\ task'[t].pc = "idle" /\ task'[t].op = "request" /\ task'[t].nest = <<>>
  BY EndsEffect
<1>2. Phase(t)' = "idle" /\ staleBar' = staleBar
  BY <1>1, PhaseAtFacts, SameStale DEF Phase
<1>3. CASE task[t].op # "request"
  <2>1. Phase(t) = "idle" /\ out' = out
    BY <1>1, <1>3 DEF Phase
  <2>2. QED
    BY <1>1, <1>2, <2>1, Unseen
<1>4. CASE task[t].op = "request" /\ task[t].kept
  <2>1. Outside(t) /\ Outside(t)'
    BY <1>1, <1>4 DEF Outside
  <2>2. phaseBar' = phaseBar /\ outBar' = outBar
    BY <1>1, <2>1 DEF phaseBar, outBar, Others, Outside, Phase, TypeOK
  <2>3. QED
    BY <1>2, <2>2 DEF SameBar
<1>5. CASE task[t].op = "request" /\ ~task[t].kept
  <2>1. out'[t] = o /\ \A u \in Tasks \ {t} : out'[u] = out[u]
    BY <1>1, <1>5 DEF TypeOK
  <2>2. ~Outside(t)'
    BY <1>1, <1>5 DEF Outside
  <2>3. phaseBar' = [phaseBar EXCEPT ![t] = "idle"]
    BY <1>1, <1>2, <2>2, MovesBar
  <2>4. outBar' = [outBar EXCEPT ![t] = o]
    BY <1>1, <2>1, <2>2, OutBar
  <2>5. QED
    BY <1>2, <1>5, <2>3, <2>4
    DEF Protocol!Returns, Protocol!Moves, phaseBar, staleBar, outBar
<1>6. QED
  BY <1>3, <1>4, <1>5

\* A request that moves on without a result.
LEMMA GoesBar ==
    ASSUME TypeOK, NEW t \in Tasks, Others(t), task[t].op = "request", ~task[t].kept,
           task'[t].kept = task[t].kept, NEW p, Phase(t)' = p, out' = out
    PROVE  Protocol!Moves(t, p) /\ outBar' = outBar
<1>1. phaseBar' = [phaseBar EXCEPT ![t] = p] /\ outBar' = outBar
  BY MovesBar, SameOut DEF Outside
<1>2. QED
  BY <1>1 DEF Protocol!Moves, phaseBar

\* A step of the protocol, named.
LEMMA BarIsStep ==
    ASSUME SameBar \/ Protocol!PromiseNext
    PROVE  PromiseStep
  BY DEF PromiseStep, SameBar, Protocol!promiseVars, phaseBar, staleBar, outBar

\* A failed post of the login ends the request, or is not seen.
LEMMA LoginFailsBar ==
    ASSUME IInv, NEW t \in Tasks, LoginFails(t), task[t].pc \in {"challenge", "login"},
           stale' = stale
    PROVE  PromiseStep
<1>1. TypeOK /\ Shape(t)
  BY DEF IInv
<1>2. task[t].op = "request" => ~task[t].kept /\ Phase(t) = "login"
  BY <1>1, PhaseAtFacts DEF Shape, Phase
<1>3. ASSUME NEW o \in {"auth", "error"}, Ends(t, o) PROVE PromiseStep
  <2>1. \/ SameBar
        \/ task[t].op = "request" /\ ~task[t].kept /\ Protocol!Returns(t, o)
    BY <1>1, <1>3, EndsBar
  <2>2. CASE task[t].op = "request" /\ ~task[t].kept /\ Protocol!Returns(t, o)
    <3>1. phaseBar[t] = "login"
      BY <1>2, <2>2 DEF phaseBar, Outside
    <3>2. Protocol!GiveUp(t) \/ Protocol!Fail(t)
      BY <2>2, <3>1 DEF Protocol!GiveUp, Protocol!Fail, Protocol!Renewing, phaseBar
    <3>3. QED
      BY <3>2, BarIsStep DEF Protocol!PromiseNext
  <2>3. QED
    BY <2>1, <2>2, BarIsStep
<1>4. CASE /\ Others(t) /\ task'[t].op = task[t].op /\ task'[t].kept = task[t].kept
           /\ \/ task'[t].pc = task[t].pc /\ task'[t].nest = task[t].nest
              \/ task'[t].pc \in {"refresh", "challenge"} /\ task'[t].nest # <<>>
           /\ UNCHANGED <<lock, out>>
  <2>1. Phase(t)' = Phase(t)
    BY <1>2, <1>4 DEF Phase
  <2>2. QED
    BY <1>4, <2>1, Unseen, BarIsStep
<1>5. QED
  BY <1>1, <1>3, <1>4, LoginFailsEffect

\* Stored tokens are a renewal, and with the repetition of t a retry.
LEMMA RenewedBar ==
    ASSUME IInv, NEW t \in Tasks, task[t].pc \in {"refresh", "login"}, NEW r \in BOOLEAN,
           Stored(r), Renewed(t)
    PROVE  PromiseStep
<1>1. TypeOK /\ Shape(t)
  BY DEF IInv
<1>2. staleBar' = [u \in Tasks |-> FALSE]
  BY FreshBar DEF Stored
<1>3. ASSUME phaseBar' = phaseBar, outBar' = outBar PROVE PromiseStep
  <2>1. Protocol!Renew
    BY <1>2, <1>3 DEF Protocol!Renew, phaseBar, staleBar, outBar
  <2>2. QED
    BY <2>1, BarIsStep DEF Protocol!PromiseNext
<1>4. CASE /\ task[t].nest # <<>> /\ Others(t)
           /\ task'[t].pc \in {"challenge", "login"}
           /\ task'[t].op = task[t].op /\ task'[t].kept = task[t].kept
           /\ UNCHANGED <<lock, out>>
  <2>1. Phase(t)' = Phase(t)
    BY <1>4, PhaseAtFacts DEF Phase
  <2>2. QED
    BY <1>3, <1>4, <2>1, SamePhase, SameOut DEF Outside
<1>5. CASE task[t].nest = <<>> /\ task[t].op # "request" /\ Ends(t, "ok")
  <2>1. /\ Others(t) /\ task'[t].kept = task[t].kept /\ out' = out
        /\ task'[t].pc = "idle" /\ task'[t].op = "request" /\ task'[t].nest = <<>>
    BY <1>1, <1>5, EndsEffect
  <2>2. Phase(t) = "idle" /\ Phase(t)' = "idle"
    BY <1>5, <2>1, PhaseAtFacts DEF Phase
  <2>3. QED
    BY <1>3, <2>1, <2>2, SamePhase, SameOut DEF Outside
<1>6. CASE /\ task[t].nest = <<>> /\ task[t].op = "request"
           /\ Goes(t, IF sdk = "go" THEN "resend" ELSE "retry") /\ out' = out
  <2>1. PICK p \in {"resend", "retry"} : Goes(t, p)
    BY <1>6
  <2>2. /\ Others(t) /\ task'[t].pc = p /\ task'[t].op = "request"
        /\ task'[t].nest = <<>> /\ task'[t].kept = task[t].kept
    BY <1>1, <1>6, <2>1, GoesEffect
  <2>3. Phase(t)' = "retried" /\ Phase(t) \in {"refresh", "login"} /\ ~task[t].kept
    BY <1>1, <1>6, <2>2, PhaseAtFacts DEF Phase, Shape
  <2>4. Protocol!Moves(t, "retried") /\ outBar' = outBar
    BY <1>1, <1>6, <2>2, <2>3, GoesBar
  <2>5. phaseBar[t] \in {"refresh", "login"}
    BY <2>3 DEF phaseBar, Outside
  <2>6. Protocol!Retry(t)
    BY <1>2, <2>4, <2>5 DEF Protocol!Retry, Protocol!Renewing, phaseBar, staleBar, outBar
  <2>7. QED
    BY <2>6, BarIsStep DEF Protocol!PromiseNext
<1>7. QED
  BY <1>1, <1>4, <1>5, <1>6, RenewedEffect

-----------------------------------------------------------------------------
\* The requests of all three SDKs follow rules 1 to 4 of SPEC.md, for any number
\* of concurrent calls and any answers: every step of Auth is a step of the
\* protocol or is not seen.
THEOREM ImplementsProtocol == Spec => FollowsProtocol
<1>1. Init => Protocol!PromiseInit
  <2> SUFFICES ASSUME Init PROVE Protocol!PromiseInit
    OBVIOUS
  <2>1. \A t \in Tasks : /\ ~Outside(t) /\ Phase(t) = "idle"
                         /\ stale[t] = FALSE /\ out[t] = "none"
    BY IdleFacts, PhaseAtFacts DEF Init, Outside, Phase
  <2>2. \A t \in Tasks : (~Outside(t) /\ stale[t]) = FALSE
    BY <2>1
  <2>3. /\ phaseBar = [t \in Tasks |-> "idle"]
        /\ outBar = [t \in Tasks |-> "none"]
    BY <2>1 DEF phaseBar, outBar
  <2>4. staleBar = [t \in Tasks |-> FALSE]
    BY <2>2 DEF staleBar
  <2>5. QED
    BY <2>3, <2>4 DEF Protocol!PromiseInit, phaseBar, staleBar, outBar
<1>2. IInv /\ [Next]_vars => PromiseStep
  <2> SUFFICES ASSUME IInv, [Next]_vars PROVE PromiseStep
    OBVIOUS
  <2>1. TypeOK /\ \A t \in Tasks : Shape(t)
    BY DEF IInv
  <2>2. CASE UNCHANGED vars
    <3>1. SameBar
      BY <2>2 DEF vars, SameBar, phaseBar, staleBar, outBar, Outside, Phase
    <3>2. QED
      BY <3>1, BarIsStep
  <2>3. CASE ClearTokens
    <3>1. SameBar
      BY <2>3 DEF ClearTokens, SameBar, phaseBar, staleBar, outBar, Outside, Phase
    <3>2. QED
      BY <3>1, BarIsStep
  <2>4. ASSUME NEW t \in Tasks, Request(t) PROVE PromiseStep
    <3>1. /\ At(t, "idle") /\ Others(t)
          /\ task'[t].pc = "sent" /\ task'[t].op = "request" /\ task'[t].nest = <<>>
          /\ ~task'[t].kept
      BY <2>1, <2>4, StartsEffect DEF Request
    <3>2. /\ out'[t] = "none" /\ \A u \in Tasks \ {t} : out'[u] = out[u]
          /\ stale'[t] = FALSE /\ \A u \in Tasks \ {t} : stale'[u] = stale[u]
      BY <2>1, <2>4 DEF Request, TypeOK
    <3>3. ~Outside(t)' /\ Phase(t)' = "sent"
      BY <3>1, PhaseAtFacts DEF Outside, Phase
    <3>4. phaseBar' = [phaseBar EXCEPT ![t] = "sent"]
      BY <3>1, <3>3, MovesBar
    <3>5. outBar' = [outBar EXCEPT ![t] = "none"]
      BY <2>1, <3>1, <3>2, <3>3, OutBar
    <3>6. staleBar' = [staleBar EXCEPT ![t] = FALSE]
      BY <2>1, <3>1, <3>2, <3>3, StaleBar
    <3>7. phaseBar[t] = "idle"
      BY <2>1, <3>1, PhaseAtFacts DEF phaseBar, Shape, Phase, At
    <3>8. Protocol!Send(t)
      BY <3>4, <3>5, <3>6, <3>7
      DEF Protocol!Send, Protocol!Moves, phaseBar, staleBar, outBar
    <3>9. QED
      BY <3>8, BarIsStep DEF Protocol!PromiseNext
  <2>5. ASSUME NEW t \in Tasks, CallLogin(t) \/ CallRefresh(t) PROVE PromiseStep
    <3>1. PICK op \in {"login", "refresh"}, p \in {"wait", "refresh", "challenge"} :
             Starts(t, op, p)
      BY <2>5 DEF CallLogin, CallRefresh
    <3>2. /\ At(t, "idle") /\ Others(t) /\ task'[t].op = op
          /\ task'[t].kept = task[t].kept
      BY <2>1, <3>1, StartsEffect DEF TypeOK, Calls
    <3>3. Phase(t) = "idle" /\ Phase(t)' = "idle"
      BY <2>1, <3>2, PhaseAtFacts DEF Shape, Phase, At
    <3>4. UNCHANGED <<stale, out>>
      BY <2>5 DEF CallLogin, CallRefresh
    <3>5. QED
      BY <3>2, <3>3, <3>4, Unseen, BarIsStep
  <2>6. ASSUME NEW t \in Tasks, NEW p \in {"refresh", "challenge"}, Goes(t, p),
               task[t].pc \in {"wait", "refresh"}, UNCHANGED <<stale, out>>
        PROVE  PromiseStep
    <3>1. /\ Others(t) /\ task'[t].pc = p /\ task'[t].op = task[t].op
          /\ task'[t].nest = task[t].nest /\ task'[t].kept = task[t].kept
      BY <2>1, <2>6, GoesEffect
    <3>2. CASE Phase(t)' = Phase(t)
      BY <2>6, <3>1, <3>2, Unseen, BarIsStep
    <3>3. CASE Phase(t)' # Phase(t)
      <4>1. /\ task[t].op = "request" /\ ~task[t].kept
            /\ Phase(t) = "refresh" /\ Phase(t)' = "login"
        BY <2>1, <2>6, <3>1, <3>3, PhaseAtFacts DEF Phase, Shape
      <4>2. Protocol!Moves(t, "login") /\ outBar' = outBar /\ staleBar' = staleBar
        BY <2>1, <2>6, <3>1, <4>1, GoesBar, SameStale
      <4>3. phaseBar[t] = "refresh"
        BY <4>1 DEF phaseBar, Outside
      <4>4. Protocol!FallBack(t)
        BY <4>2, <4>3 DEF Protocol!FallBack, phaseBar, staleBar, outBar
      <4>5. QED
        BY <4>4, BarIsStep DEF Protocol!PromiseNext
    <3>4. QED
      BY <3>2, <3>3
  <2>7. ASSUME NEW t \in Tasks, Acquire(t) PROVE PromiseStep
    BY <2>6, <2>7 DEF Acquire, At
  <2>8. ASSUME NEW t \in Tasks, Resend(t) PROVE PromiseStep
    <3>1. /\ task[t].pc = "resend" /\ Goes(t, "retry") /\ UNCHANGED <<stale, out>>
      BY <2>8 DEF Resend, At
    <3>2. /\ Others(t) /\ task'[t].pc = "retry" /\ task'[t].op = task[t].op
          /\ task'[t].nest = task[t].nest /\ task'[t].kept = task[t].kept
      BY <2>1, <3>1, GoesEffect
    <3>3. Phase(t)' = Phase(t)
      BY <3>1, <3>2, PhaseAtFacts DEF Phase
    <3>4. QED
      BY <3>1, <3>2, <3>3, Unseen, BarIsStep
  <2>9. ASSUME NEW t \in Tasks, AnswerFirst(t) PROVE PromiseStep
    <3>1. /\ task[t].pc = "sent" /\ task[t].op = "request" /\ task[t].nest = <<>>
          /\ ~task[t].kept /\ ~stale[t] /\ refresh' = refresh
      BY <2>1, <2>9 DEF AnswerFirst, Shape, At
    <3>2. phaseBar[t] = "sent" /\ staleBar[t] = FALSE
      BY <3>1, PhaseAtFacts DEF phaseBar, staleBar, Outside, Phase
    <3>3. ASSUME NEW o \in {"none", "ok", "error"}, Protocol!Returns(t, o)
          PROVE  PromiseStep
      <4>1. Protocol!Answer(t)
        BY <3>2, <3>3 DEF Protocol!Answer, phaseBar
      <4>2. QED
        BY <4>1, BarIsStep DEF Protocol!PromiseNext
    <3>4. ASSUME NEW o \in {"ok", "error"}, Ends(t, o), UNCHANGED stale PROVE PromiseStep
      BY <2>1, <3>3, <3>4, EndsBar, BarIsStep
    <3>5. CASE Rejected(t)
      <4>1. /\ stale' = [stale EXCEPT ![t] = TRUE] /\ out' = out
        BY <3>5 DEF Rejected
      <4>2. stale'[t] = TRUE /\ \A u \in Tasks \ {t} : stale'[u] = stale[u]
        BY <2>1, <4>1 DEF TypeOK
      <4>3. ASSUME NEW p \in {"wait", "refresh", "challenge"}, Goes(t, p),
                   p = "challenge" => ~refresh
            PROVE  PromiseStep
        <5>1. /\ Others(t) /\ task'[t].pc = p /\ task'[t].op = task[t].op
              /\ task'[t].nest = task[t].nest /\ task'[t].kept = task[t].kept
          BY <2>1, <4>3, GoesEffect
        <5>2. PICK q \in {"refresh", "login"} : Phase(t)' = q /\ (q = "login" => ~refresh)
          BY <3>1, <4>3, <5>1, PhaseAtFacts DEF Phase
        <5>3. Protocol!Moves(t, q) /\ outBar' = outBar
          BY <2>1, <3>1, <4>1, <5>1, <5>2, GoesBar
        <5>4. staleBar' = [staleBar EXCEPT ![t] = TRUE]
          BY <2>1, <3>1, <4>2, <5>1, StaleBar DEF Outside
        <5>5. Protocol!Reject(t)
          BY <3>2, <5>2, <5>3, <5>4 DEF Protocol!Reject, phaseBar, staleBar, outBar
        <5>6. QED
          BY <5>5, BarIsStep DEF Protocol!PromiseNext
      <4>4. CASE task' = [task EXCEPT ![t].pc = "retry", ![t].kept = TRUE]
        <5>1. Others(t) /\ Outside(t)'
          BY <2>1, <4>4 DEF TypeOK, Calls, Others, Outside
        <5>2. phaseBar' = [phaseBar EXCEPT ![t] = "idle"]
          BY <5>1, MovesBar
        <5>3. outBar' = [outBar EXCEPT ![t] = "none"]
          BY <2>1, <4>1, <5>1, OutBar
        <5>4. staleBar' = [staleBar EXCEPT ![t] = FALSE]
          BY <2>1, <4>2, <5>1, StaleBar
        <5>5. staleBar' = staleBar
          BY <3>2, <5>4 DEF staleBar
        <5>6. Protocol!Returns(t, "none")
          BY <5>2, <5>3, <5>5
          DEF Protocol!Returns, Protocol!Moves, phaseBar, staleBar, outBar
        <5>7. QED
          BY <3>3, <5>6
      <4>5. QED
        BY <3>5, <4>3, <4>4 DEF Rejected
    <3>6. QED
      BY <2>9, <3>4, <3>5 DEF AnswerFirst
  <2>10. ASSUME NEW t \in Tasks, AnswerRetry(t) PROVE PromiseStep
    <3>1. PICK o \in {"ok", "401", "error"} : Ends(t, o)
      BY <2>10 DEF AnswerRetry
    <3>2. /\ task[t].pc = "retry" /\ stale' = stale
          /\ task[t].op = "request" /\ task[t].nest = <<>>
      BY <2>1, <2>10 DEF AnswerRetry, At, Shape
    <3>3. CASE ~task[t].kept /\ Protocol!Returns(t, o)
      <4>1. phaseBar[t] = "retried"
        BY <3>2, <3>3, PhaseAtFacts DEF phaseBar, Outside, Phase
      <4>2. Protocol!Finish(t)
        BY <3>3, <4>1 DEF Protocol!Finish, phaseBar
      <4>3. QED
        BY <4>2, BarIsStep DEF Protocol!PromiseNext
    <3>4. QED
      BY <2>1, <3>1, <3>2, <3>3, EndsBar, BarIsStep
  <2>11. ASSUME NEW t \in Tasks, AnswerRefresh(t) PROVE PromiseStep
    <3>1. task[t].pc = "refresh"
      BY <2>11 DEF AnswerRefresh, At
    <3>2. CASE \E r \in BOOLEAN : Stored(r) /\ Renewed(t)
      BY <3>1, <3>2, RenewedBar
    <3>3. CASE FallsBack(t) /\ UNCHANGED stale
      <4>1. CASE task[t].op = "refresh" /\ Ends(t, "auth")
        BY <2>1, <3>3, <4>1, EndsBar, BarIsStep
      <4>2. CASE Goes(t, "challenge") /\ UNCHANGED <<lock, out>>
        BY <2>6, <3>1, <3>3, <4>2
      <4>3. QED
        BY <3>3, <4>1, <4>2 DEF FallsBack
    <3>4. CASE Ends(t, "error") /\ UNCHANGED stale
      <4>1. CASE task[t].op = "request" /\ ~task[t].kept /\ Protocol!Returns(t, "error")
        <5>1. phaseBar[t] \in {"refresh", "login"}
          BY <3>1, <4>1, PhaseAtFacts DEF phaseBar, Outside, Phase
        <5>2. Protocol!Fail(t)
          BY <4>1, <5>1 DEF Protocol!Fail, Protocol!Renewing, phaseBar
        <5>3. QED
          BY <5>2, BarIsStep DEF Protocol!PromiseNext
      <4>2. QED
        BY <2>1, <3>4, <4>1, EndsBar, BarIsStep
    <3>5. QED
      <4>1. refresh \in BOOLEAN
        BY <2>1 DEF TypeOK
      <4>2. QED
        BY <2>11, <3>2, <3>3, <3>4, <4>1 DEF AnswerRefresh
  <2>12. ASSUME NEW t \in Tasks, AnswerChallenge(t) PROVE PromiseStep
    <3>1. task[t].pc = "challenge" /\ stale' = stale
      BY <2>12 DEF AnswerChallenge, At
    <3>2. CASE Goes(t, "login") /\ UNCHANGED <<lock, out>>
      <4>1. /\ Others(t) /\ task'[t].pc = "login" /\ task'[t].op = task[t].op
            /\ task'[t].nest = task[t].nest /\ task'[t].kept = task[t].kept
        BY <2>1, <3>2, GoesEffect
      <4>2. Phase(t)' = Phase(t)
        BY <3>1, <4>1, PhaseAtFacts DEF Phase
      <4>3. QED
        BY <3>1, <3>2, <4>1, <4>2, Unseen, BarIsStep
    <3>3. CASE LoginFails(t)
      BY <3>1, <3>3, LoginFailsBar
    <3>4. QED
      BY <2>12, <3>2, <3>3 DEF AnswerChallenge
  <2>13. ASSUME NEW t \in Tasks, AnswerLogin(t) PROVE PromiseStep
    <3>1. task[t].pc = "login"
      BY <2>13 DEF AnswerLogin, At
    <3>2. CASE Stored(TRUE) /\ Renewed(t)
      BY <3>1, <3>2, RenewedBar
    <3>3. CASE LoginFails(t) /\ stale' = stale
      BY <3>1, <3>3, LoginFailsBar
    <3>4. QED
      BY <2>13, <3>2, <3>3 DEF AnswerLogin
  <2>14. QED
    BY <2>2, <2>3, <2>4, <2>5, <2>7, <2>8, <2>9, <2>10, <2>11, <2>12, <2>13
    DEF Next, Answered
<1>3. IInv /\ [Next]_vars => [Protocol!PromiseNext]_(Protocol!promiseVars)
  BY <1>2 DEF PromiseStep
<1>4. QED
  BY <1>1, <1>3, AuthInvariant, PTL DEF Spec, FollowsProtocol, Protocol!PromiseSpec

-----------------------------------------------------------------------------
\* client/ws.ts. A patient user calls connect only when nothing of an earlier
\* attempt is left, and NodeOneInv says that then nothing ever comes in twos.

Active(s) == sock[s].st \in {"connecting", "open", "closing"}

\* While anything of a connection is left no timer is armed and no timer body
\* waits; only one of these is ever there; and it is the current socket that is open.
NodeOneInv ==
    /\ loose = 0 /\ waiting <= 1
    /\ timer => waiting = 0
    /\ \A s \in Sockets : Active(s) => ~timer /\ waiting = 0
    /\ \A s, t \in Sockets : Active(s) /\ Active(t) => s = t
    /\ \A s \in Sockets : Usable(s) => s = ws
    /\ \A s \in Sockets : Open(s) => connected /\ sock[s].online

\* What is left after disconnect is at most a socket whose close event comes, and
\* that event finds intentionallyClosed.
NodeFinalInv ==
    ~want => /\ ~timer /\ \A s \in Sockets : ~Usable(s)
             /\ closed \/ \A s \in Sockets : ~Active(s)

NodeInv ==
    /\ NodeTypeOK /\ hasCallback \in BOOLEAN
    /\ ~hasCallback => waiting = 0
    /\ patient => NodeOneInv
    /\ patient /\ ~hasCallback => NodeFinalInv

\* The types, one variable at a time.
SockState == {"free", "connecting", "open", "closing", "closed"}
NodeSock == sock \in [Sockets -> [st : SockState, online : BOOLEAN]] /\ ws \in Sockets \union {NoSocket}
NodeFlags == /\ connected \in BOOLEAN /\ closed \in BOOLEAN /\ want \in BOOLEAN
             /\ server \in {"up", "down"} /\ hasCallback \in BOOLEAN
NodeTimers == /\ timer \in BOOLEAN /\ loose \in 0..MaxTimers
              /\ backoff \in InitialBackoff..MaxBackoff
NodeWaiting == waiting \in 0..MaxTimers

LEMMA NodeTypes ==
    NodeSock /\ NodeFlags /\ NodeTimers /\ NodeWaiting
              <=> NodeTypeOK /\ hasCallback \in BOOLEAN
BY DEF NodeSock, NodeFlags, NodeTimers, NodeWaiting, SockState, NodeTypeOK

LEMMA NodeTypesNext ==
    ASSUME NodeSock', NodeFlags', NodeTimers', NodeWaiting'
    PROVE  NodeTypeOK' /\ hasCallback' \in BOOLEAN
BY DEF NodeSock, NodeFlags, NodeTimers, NodeWaiting, SockState, NodeTypeOK

LEMMA NodeBackoff ==
    /\ InitialBackoff \in InitialBackoff..MaxBackoff
    /\ \A b \in InitialBackoff..MaxBackoff :
          Capped(2 * b) \in InitialBackoff..MaxBackoff
BY NodeAssumption DEF Capped

LEMMA NodeInitHolds ==
    ASSUME NodeInit
    PROVE  NodeInv
<1>1. NodeSock /\ NodeFlags /\ NodeWaiting
  <2>1. /\ sock = [s \in Sockets |-> [st |-> "free", online |-> FALSE]] /\ ws = NoSocket
        /\ connected = FALSE /\ closed = FALSE /\ want = FALSE /\ server = "up" /\ waiting = 0
    BY DEF NodeInit, Free
  <2>2. waiting \in 0..MaxTimers /\ hasCallback \in BOOLEAN
    BY NodeAssumption DEF NodeInit
  <2>3. QED
    BY <2>1, <2>2 DEF NodeSock, NodeFlags, NodeWaiting, SockState
<1>2. NodeTimers
  <2>0. loose = 0
    BY DEF NodeInit
  <2>1. timer \in BOOLEAN
    BY DEF NodeInit
  <2>4. loose \in 0..MaxTimers
    BY NodeAssumption, <2>0
  <2>2. backoff \in InitialBackoff..MaxBackoff
    BY NodeBackoff DEF NodeInit
  <2>3. QED
    BY <2>1, <2>2, <2>4 DEF NodeTimers
<1>3. NodeTypeOK /\ hasCallback \in BOOLEAN
  BY <1>1, <1>2, NodeTypes
<1>4. \A s \in Sockets : ~Active(s) /\ ~Usable(s) /\ ~Open(s)
  BY DEF NodeInit, Active, Free, Usable, Open, Is
<1>5. NodeOneInv /\ NodeFinalInv /\ waiting = 0
  BY <1>4 DEF NodeInit, NodeOneInv, NodeFinalInv
<1>6. QED
  BY <1>3, <1>5 DEF NodeInv

LEMMA NodeSchedules ==
    ASSUME NodeTimers, loose < MaxTimers, ScheduleReconnect
    PROVE  NodeTimers'
<1>1. CASE closed
  BY <1>1 DEF NodeTimers, ScheduleReconnect, timerVars
<1>2. CASE ~closed
  <2>1. /\ timer' = TRUE /\ loose' = loose + (IF timer THEN 1 ELSE 0)
        /\ backoff' = Capped(2 * backoff)
    BY <1>2 DEF ScheduleReconnect
  <2>2. backoff' \in InitialBackoff..MaxBackoff
    BY <2>1, NodeBackoff DEF NodeTimers
  <2>3. loose' \in 0..MaxTimers
    BY NodeAssumption, <2>1 DEF NodeTimers
  <2>4. QED
    BY <2>1, <2>2, <2>3 DEF NodeTimers
<1>3. QED
  BY <1>1, <1>2

LEMMA NodeConnects ==
    ASSUME NodeSock, closed \in BOOLEAN, Connect
    PROVE  NodeSock' /\ closed' \in BOOLEAN
<1> DEFINE fresh == [Free EXCEPT !.st = "connecting"]
<1>1. fresh \in [st : SockState, online : BOOLEAN]
  BY DEF Free, SockState
<1> HIDE DEF fresh
<1>2. CASE UNCHANGED <<sock, ws, closed>>
  BY <1>2 DEF NodeSock
<1>3. ASSUME NEW s \in Sockets, ws' = s, closed' = FALSE,
             sock' = [sock EXCEPT ![s] = fresh]
      PROVE  NodeSock' /\ closed' \in BOOLEAN
  BY <1>1, <1>3 DEF NodeSock
<1>4. QED
  BY <1>2, <1>3 DEF Connect, fresh

LEMMA NodeTypeStep ==
    ASSUME NodeInv, NodeNext
    PROVE  NodeTypeOK' /\ hasCallback' \in BOOLEAN
<1>0. NodeSock /\ NodeFlags /\ NodeTimers /\ NodeWaiting
  BY NodeTypes DEF NodeInv
<1> DEFINE Kept == NodeSock' /\ NodeFlags' /\ NodeTimers' /\ NodeWaiting'
<1> USE <1>0
<1>3. ASSUME UserConnect PROVE Kept
  <2>1. NodeSock' /\ closed' \in BOOLEAN
    BY <1>3, NodeConnects DEF UserConnect, NodeFlags
  <2>2. QED
    BY <1>3, <2>1 DEF UserConnect, NodeFlags, NodeTimers, NodeWaiting, timerVars, mode
<1>4. ASSUME Disconnect PROVE Kept
  <2>1. NodeSock'
    BY <1>4 DEF Disconnect, NodeSock, SockState
  <2>2. QED
    BY <1>4, <2>1 DEF Disconnect, NodeFlags, NodeTimers, NodeWaiting, mode
<1>5. ASSUME NEW s \in Sockets, OpenEvent(s) PROVE Kept
  <2> DEFINE opened == [sock EXCEPT ![s].st = "open"]
  <2>1. opened \in [Sockets -> [st : SockState, online : BOOLEAN]]
    BY DEF NodeSock, SockState
  <2>2. sock' = opened \/ sock' = [opened EXCEPT ![ws].online = TRUE]
    BY <1>5 DEF OpenEvent
  <2> HIDE DEF opened
  <2>3. [opened EXCEPT ![ws].online = TRUE] \in [Sockets -> [st : SockState, online : BOOLEAN]]
    BY <2>1
  <2>4. NodeSock'
    BY <1>5, <2>1, <2>2, <2>3 DEF OpenEvent, NodeSock
  <2>5. NodeTimers'
    BY <1>5, NodeBackoff DEF OpenEvent, NodeTimers
  <2>6. QED
    BY <1>5, <2>4, <2>5 DEF OpenEvent, NodeFlags, NodeWaiting, mode
<1>6. ASSUME NEW s \in Sockets, CloseEvent(s) PROVE Kept
  <2>1. NodeTimers'
    BY <1>6, NodeSchedules DEF CloseEvent
  <2>2. NodeSock'
    BY <1>6 DEF CloseEvent, NodeSock, SockState
  <2>3. QED
    BY <1>6, <2>1, <2>2 DEF CloseEvent, NodeFlags, NodeWaiting, mode
<1>7. ASSUME NEW s \in Sockets, Drop(s) PROVE Kept
  <2>1. NodeSock'
    BY <1>7 DEF Drop, NodeSock, SockState
  <2>2. QED
    BY <1>7, <2>1 DEF Drop, NodeFlags, NodeTimers, NodeWaiting, timerVars, mode
<1>8. ASSUME TimerFires PROVE Kept
  <2>1. timer' \in BOOLEAN /\ loose' \in 0..MaxTimers
    <3>1. CASE timer /\ timer' = FALSE /\ UNCHANGED loose
      BY <3>1 DEF NodeTimers
    <3>2. CASE loose > 0 /\ loose' = loose - 1 /\ UNCHANGED timer
      BY NodeAssumption, <3>2 DEF NodeTimers
    <3>3. QED
      BY <1>8, <3>1, <3>2 DEF TimerFires, Fires
  <2>2. NodeTimers'
    BY <1>8, <2>1 DEF TimerFires, NodeTimers
  <2>3. NodeSock' /\ closed' \in BOOLEAN
    BY <1>8, NodeConnects DEF TimerFires, NodeFlags, NodeSock
  <2>4. NodeWaiting'
    BY NodeAssumption, <1>8 DEF TimerFires, NodeWaiting
  <2>5. QED
    BY <1>8, <2>2, <2>3, <2>4 DEF TimerFires, NodeFlags, mode
<1>9. ASSUME CallbackDone PROVE Kept
  <2>1. NodeWaiting'
    BY NodeAssumption, <1>9 DEF CallbackDone, NodeWaiting
  <2>2. NodeTimers'
    <3>1. CASE UNCHANGED timerVars
      BY <3>1 DEF NodeTimers, timerVars
    <3>2. CASE loose < MaxTimers /\ ScheduleReconnect
      BY <3>2, NodeSchedules
    <3>3. QED
      BY <1>9, <3>1, <3>2 DEF CallbackDone
  <2>3. NodeSock' /\ closed' \in BOOLEAN
    BY <1>9, NodeConnects DEF CallbackDone, NodeFlags, NodeSock
  <2>4. QED
    BY <1>9, <2>1, <2>2, <2>3 DEF CallbackDone, NodeFlags, mode
<1>10. ASSUME ServerDown \/ ServerUp PROVE Kept
  <2>1. NodeSock'
    BY <1>10 DEF ServerDown, ServerUp, NodeSock, SockState
  <2>2. QED
    BY <1>10, <2>1 DEF ServerDown, ServerUp, NodeFlags, NodeTimers, NodeWaiting,
       timerVars, mode
<1>11. Kept
  BY <1>3, <1>4, <1>5, <1>6, <1>7, <1>8, <1>9, <1>10 DEF NodeNext, SocketEvent
<1>12. QED
  BY <1>11, NodeTypesNext

\* An attempt to connect by the only one who may make it.
LEMMA NodeOneDials ==
    ASSUME NodeSock, NodeOneInv, Connect,
           \A s \in Sockets : ~Active(s),
           ~timer', loose' = 0, waiting' = 0, connected' = connected
    PROVE  NodeOneInv'
<1> USE DEF Active, Usable, Open, Is
<1>1. CASE UNCHANGED <<sock, ws, closed>>
  BY <1>1 DEF NodeOneInv
<1>2. ASSUME NEW s \in Sockets, ws' = s,
             sock' = [sock EXCEPT ![s] = [Free EXCEPT !.st = "connecting"]]
      PROVE  NodeOneInv'
  <2>1. /\ sock'[s].st = "connecting"
        /\ \A t \in Sockets \ {s} : sock'[t] = sock[t]
    BY <1>2 DEF NodeSock, Free
  <2>2. \A t \in Sockets : Active(t)' => t = s
    BY <2>1
  <2>3. \A t \in Sockets : Usable(t)' => t = s
    BY <2>1
  <2>4. \A t \in Sockets : ~Open(t)'
    BY <2>1
  <2>5. QED
    BY <1>2, <2>2, <2>3, <2>4 DEF NodeOneInv
<1>3. QED
  BY <1>1, <1>2 DEF Connect

\* Sockets that only come nearer to their end.
LEMMA NodeShrinks ==
    ASSUME NodeOneInv,
           \A s \in Sockets : \/ sock'[s] = sock[s]
                              \/ /\ Usable(s)
                                 /\ sock'[s].st = "closing",
           \A s \in Sockets : Usable(s)' => s = ws',
           \A s \in Sockets : Open(s)' => connected',
           timer' => timer, loose' = loose, waiting' = waiting
    PROVE  NodeOneInv'
<1> USE NodeAssumption DEF Active, Usable, Open, Is
<1>1. \A s \in Sockets : Active(s)' => Active(s)
  OBVIOUS
<1>2. \A s \in Sockets : Open(s)' => sock'[s].online
  BY DEF NodeOneInv
<1>3. QED
  BY <1>1, <1>2 DEF NodeOneInv

LEMMA NodeOneStep ==
    ASSUME NodeInv, patient, NodeNext
    PROVE  NodeOneInv'
<1>0. NodeSock /\ NodeFlags /\ NodeTimers /\ NodeWaiting /\ NodeOneInv
  BY NodeTypes DEF NodeInv
<1> USE <1>0
<1>1. ASSUME UserConnect PROVE NodeOneInv'
  <2>1. ~timer /\ loose = 0 /\ waiting = 0 /\ \A s \in Sockets : ~Active(s)
    BY <1>1 DEF UserConnect, AtRest, Active
  <2>2. QED
    BY <1>1, <2>1, NodeOneDials DEF UserConnect, timerVars
<1>2. ASSUME Disconnect PROVE NodeOneInv'
  <2>1. \A s \in Sockets : ~Usable(s)' /\ ~Open(s)'
    BY <1>2 DEF Disconnect, NodeOneInv, NodeSock, Usable, Open, Is
  <2>2. \A s \in Sockets : \/ sock'[s] = sock[s]
                           \/ Usable(s) /\ sock'[s].st = "closing"
    BY <1>2 DEF Disconnect, NodeSock
  <2>3. QED
    BY <1>2, <2>1, <2>2, NodeShrinks DEF Disconnect
<1>3. ASSUME NEW s \in Sockets, OpenEvent(s) PROVE NodeOneInv'
  <2> USE NodeAssumption DEF Active, Usable, Open, Is
  <2>1. s = ws /\ Active(s)
    BY <1>3 DEF OpenEvent, NodeOneInv
  <2>2. /\ sock'[s].st = "open" /\ sock'[s].online = TRUE
        /\ \A t \in Sockets \ {s} : sock'[t] = sock[t]
    BY <1>3, <2>1 DEF OpenEvent, NodeSock
  <2>3. \A t \in Sockets \ {s} : ~Active(t)
    BY <2>1 DEF NodeOneInv
  <2>4. \A t \in Sockets : Active(t)' => t = s
    BY <2>2, <2>3
  <2>5. \A t \in Sockets : Usable(t)' \/ Open(t)' => t = s
    BY <2>2, <2>3
  <2>6. /\ connected' = TRUE /\ ws' = ws /\ UNCHANGED <<timer, loose, waiting>>
    BY <1>3 DEF OpenEvent
  <2>7. ~timer /\ waiting = 0
    BY <2>1 DEF NodeOneInv
  <2>8. QED
    BY <2>1, <2>2, <2>4, <2>5, <2>6, <2>7 DEF NodeOneInv
<1>4. ASSUME NEW s \in Sockets, CloseEvent(s) PROVE NodeOneInv'
  <2> USE NodeAssumption DEF Active, Usable, Open, Is
  <2>1. Active(s)
    BY <1>4 DEF CloseEvent
  <2>2. ~timer /\ waiting = 0 /\ loose = 0
    BY <2>1 DEF NodeOneInv
  <2>3. loose' = 0 /\ waiting' = 0
    BY <1>4, <2>2 DEF CloseEvent, ScheduleReconnect, timerVars
  <2>4. \A t \in Sockets \ {s} : ~Active(t)
    BY <2>1 DEF NodeOneInv
  <2>5. /\ sock'[s].st = "closed"
        /\ \A t \in Sockets \ {s} : sock'[t] = sock[t]
    BY <1>4 DEF CloseEvent, NodeSock
  <2>6. \A t \in Sockets : ~Active(t)' /\ ~Usable(t)' /\ ~Open(t)'
    BY <2>4, <2>5
  <2>7. QED
    BY <2>3, <2>6 DEF NodeOneInv
<1>5. ASSUME NEW s \in Sockets, Drop(s) PROVE NodeOneInv'
  <2> USE DEF Usable, Open, Is
  <2>1. Usable(s)
    BY <1>5 DEF Drop
  <2>2. \A t \in Sockets : \/ sock'[t] = sock[t]
                           \/ Usable(t) /\ sock'[t].st = "closing"
    BY <1>5, <2>1 DEF Drop, NodeSock
  <2>3. UNCHANGED <<ws, connected, timer, loose, waiting>>
    BY <1>5 DEF Drop, timerVars
  <2>4. /\ \A t \in Sockets : Usable(t)' => t = ws'
        /\ \A t \in Sockets : Open(t)' => connected'
    BY <2>2, <2>3 DEF NodeOneInv
  <2> HIDE DEF Usable, Open, Is
  <2>5. QED
    BY <2>2, <2>3, <2>4, NodeShrinks
<1>6. ASSUME TimerFires PROVE NodeOneInv'
  <2>1. timer /\ ~timer' /\ loose = 0 /\ loose' = 0
    BY <1>6 DEF TimerFires, Fires, NodeOneInv
  <2>2. waiting = 0 /\ \A s \in Sockets : ~Active(s)
    BY <2>1 DEF NodeOneInv
  <2>3. CASE hasCallback
    <3>1. waiting' = 1 /\ UNCHANGED <<sock, ws, connected>>
      BY <1>6, <2>2, <2>3 DEF TimerFires
    <3>2. QED
      BY <2>1, <2>2, <3>1 DEF NodeOneInv, Active, Usable, Open, Is
  <2>4. CASE ~hasCallback
    BY <1>6, <2>1, <2>2, <2>4, NodeOneDials DEF TimerFires
  <2>5. QED
    BY <2>3, <2>4
<1>7. ASSUME CallbackDone PROVE NodeOneInv'
  <2>1. waiting = 1 /\ waiting' = 0 /\ ~timer /\ loose = 0
    BY NodeAssumption, <1>7 DEF CallbackDone, NodeOneInv, NodeWaiting
  <2>2. \A s \in Sockets : ~Active(s)
    BY <2>1 DEF NodeOneInv
  <2>3. CASE Connect /\ UNCHANGED timerVars
    BY <1>7, <2>1, <2>2, <2>3, NodeOneDials DEF CallbackDone, timerVars
  <2>4. CASE ScheduleReconnect /\ UNCHANGED <<sock, ws, closed>>
    <3>1. loose' = 0
      BY <2>1, <2>4 DEF ScheduleReconnect, timerVars
    <3>2. QED
      BY <1>7, <2>1, <2>2, <2>4, <3>1
      DEF CallbackDone, NodeOneInv, Active, Usable, Open, Is
  <2>5. QED
    BY <1>7, <2>3, <2>4 DEF CallbackDone
<1>8. ASSUME ServerDown PROVE NodeOneInv'
  <2> USE DEF Usable, Open, Is
  <2>1. \A t \in Sockets : \/ sock'[t] = sock[t]
                           \/ Usable(t) /\ sock'[t].st = "closing"
    BY <1>8 DEF ServerDown, NodeSock
  <2>2. UNCHANGED <<ws, connected, timer, loose, waiting>>
    BY <1>8 DEF ServerDown, timerVars
  <2>3. /\ \A t \in Sockets : Usable(t)' => t = ws'
        /\ \A t \in Sockets : Open(t)' => connected'
    BY <2>1, <2>2 DEF NodeOneInv
  <2> HIDE DEF Usable, Open, Is
  <2>4. QED
    BY <2>1, <2>2, <2>3, NodeShrinks
<1>9. ASSUME ServerUp PROVE NodeOneInv'
  BY <1>9 DEF ServerUp, timerVars, NodeOneInv, Active, Usable, Open, Is
<1>10. QED
  BY <1>1, <1>2, <1>3, <1>4, <1>5, <1>6, <1>7, <1>8, <1>9 DEF NodeNext, SocketEvent

\* A set of which every member is one and the same has at most one.
LEMMA AtMostOne ==
    ASSUME NEW S, NEW x, \A y \in S : y = x
    PROVE  Cardinality(S) <= 1
<1>1. CASE S = {}
  BY <1>1, FS_EmptySet
<1>2. CASE S # {}
  <2>1. S = {x}
    BY <1>2
  <2>2. Cardinality(S) = 1
    BY <2>1, FS_Singleton
  <2>3. QED
    BY <2>2
<1>3. QED
  BY <1>1, <1>2

LEMMA NodeFinalStep ==
    ASSUME NodeInv, patient, ~hasCallback, NodeNext
    PROVE  NodeFinalInv'
<1>0. NodeSock /\ NodeFlags /\ NodeOneInv /\ NodeFinalInv /\ waiting = 0
  BY NodeTypes DEF NodeInv
<1> USE <1>0
<1>1. CASE want' = TRUE
  BY <1>1 DEF NodeFinalInv
<1>2. ASSUME Disconnect PROVE NodeFinalInv'
  <2>1. \A s \in Sockets : ~Usable(s)'
    BY <1>2 DEF Disconnect, NodeOneInv, NodeSock, Usable, Open, Is
  <2>2. QED
    BY <1>2, <2>1 DEF Disconnect, NodeFinalInv
<1>3. ASSUME NEW s \in Sockets, OpenEvent(s) PROVE NodeFinalInv'
  <2>1. want /\ want' = want
    BY <1>3 DEF OpenEvent, NodeFinalInv, NodeFlags, Usable
  <2>2. QED
    BY <2>1 DEF NodeFinalInv
<1>4. ASSUME NEW s \in Sockets, CloseEvent(s), ~want PROVE NodeFinalInv'
  <2>1. Active(s)
    BY <1>4 DEF CloseEvent, Active, Is
  <2>2. closed /\ ~timer /\ \A t \in Sockets : ~Usable(t)
    BY <1>4, <2>1 DEF NodeFinalInv
  <2>3. closed' /\ ~timer'
    BY <1>4, <2>2 DEF CloseEvent, ScheduleReconnect, timerVars
  <2>4. \A t \in Sockets : ~Usable(t)'
    BY <1>4, <2>2 DEF CloseEvent, NodeSock, Usable, Open, Is
  <2>5. QED
    BY <2>3, <2>4 DEF NodeFinalInv
<1>5. ASSUME NEW s \in Sockets, Drop(s) PROVE NodeFinalInv'
  <2>1. want /\ want' = want
    BY <1>5 DEF Drop, NodeFinalInv, NodeFlags, Usable
  <2>2. QED
    BY <2>1 DEF NodeFinalInv
<1>6. ASSUME TimerFires PROVE NodeFinalInv'
  <2>1. want /\ want' = want
    BY <1>6 DEF TimerFires, Fires, NodeOneInv, NodeFinalInv, NodeFlags
  <2>2. QED
    BY <2>1 DEF NodeFinalInv
<1>7. ~CallbackDone
  BY DEF CallbackDone
<1>8. ASSUME ServerDown PROVE NodeFinalInv'
  <2>1. UNCHANGED <<want, timer, closed>>
    BY <1>8 DEF ServerDown, timerVars
  <2>2. CASE want
    BY <2>1, <2>2 DEF NodeFinalInv
  <2>3. CASE ~want
    <3>1. \A s \in Sockets : ~Usable(s) /\ ~Open(s)
      BY <2>3 DEF NodeFinalInv, Usable
    <3>2. \A s \in Sockets : sock'[s] = sock[s]
      BY <1>8, <3>1 DEF ServerDown
    <3>3. QED
      BY <2>1, <2>3, <3>1, <3>2 DEF NodeFinalInv, Active, Usable, Open, Is
  <2>4. QED
    BY <2>2, <2>3
<1>9. ASSUME ServerUp PROVE NodeFinalInv'
  BY <1>9 DEF ServerUp, timerVars, NodeFinalInv, Active, Usable, Open, Is
<1>10. ASSUME NEW s \in Sockets, CloseEvent(s), want PROVE NodeFinalInv'
  BY <1>10 DEF CloseEvent, NodeFinalInv
<1>11. ASSUME UserConnect PROVE want' = TRUE
  BY <1>11 DEF UserConnect
<1>12. QED
  BY <1>1, <1>2, <1>3, <1>4, <1>5, <1>6, <1>7, <1>8, <1>9, <1>10, <1>11
  DEF NodeNext, SocketEvent

\* The handlers never touch what is fixed.
LEMMA NodeModeKept ==
    ASSUME NodeNext
    PROVE  UNCHANGED <<hasCallback, patient>>
BY DEF NodeNext, SocketEvent, UserConnect, Disconnect, OpenEvent,
   CloseEvent, Drop, TimerFires, CallbackDone, ServerDown,
   ServerUp, mode

\* Without a callback no timer body waits.
LEMMA NodeNoneWaits ==
    ASSUME ~hasCallback, waiting = 0, NodeNext
    PROVE  waiting' = 0
<1>1. CASE UserConnect \/ Disconnect \/ ServerDown \/ ServerUp
  BY <1>1 DEF UserConnect, Disconnect, ServerDown, ServerUp
<1>2. ASSUME NEW s \in Sockets, SocketEvent(s) \/ Drop(s) PROVE waiting' = 0
  BY <1>2 DEF SocketEvent, OpenEvent, CloseEvent, Drop
<1>3. CASE TimerFires
  BY <1>3 DEF TimerFires
<1>4. ~CallbackDone
  BY DEF CallbackDone
<1>5. QED
  BY <1>1, <1>2, <1>3, <1>4 DEF NodeNext

LEMMA NodeInvKept ==
    ASSUME NodeInv, [NodeNext]_nodeVars
    PROVE  NodeInv'
<1>1. CASE NodeNext
  BY <1>1, NodeTypeStep, NodeOneStep, NodeFinalStep, NodeModeKept, NodeNoneWaits DEF NodeInv
<1>2. CASE UNCHANGED nodeVars
  <2>1. /\ UNCHANGED <<sock, ws, connected, closed, backoff, timer, loose, waiting, server, want>>
        /\ UNCHANGED <<hasCallback, patient>>
    BY <1>2 DEF nodeVars, mode
  <2>2. NodeTypeOK' /\ hasCallback' \in BOOLEAN
    BY <2>1 DEF NodeInv, NodeTypeOK
  <2>3. NodeOneInv' <=> NodeOneInv
    BY <2>1 DEF NodeOneInv, Active, Usable, Open, Is
  <2>4. NodeFinalInv' <=> NodeFinalInv
    BY <2>1 DEF NodeFinalInv, Active, Usable, Open, Is
  <2>5. QED
    BY <2>1, <2>2, <2>3, <2>4 DEF NodeInv
<1>3. QED
  BY <1>1, <1>2

\* What holds in every reachable state, whatever the constants.
LEMMA NodeInvAlways ==
    NodeSpec => []NodeInv
<1>1. NodeInit => NodeInv
  BY NodeInitHolds
<1>2. NodeInv /\ [NodeNext]_nodeVars => NodeInv'
  BY NodeInvKept
<1>3. QED
  BY <1>1, <1>2, PTL DEF NodeSpec

\* The types of the Node manager's state.
THEOREM NodeTypesHold ==
    NodeSpec => []NodeTypeOK
<1>1. NodeInv => NodeTypeOK
  BY DEF NodeInv
<1>2. QED
  BY <1>1, NodeInvAlways, PTL

\* A patient user of the Node manager has at most one live socket, whatever old
\* close events, timers and callbacks do; isConnected tells the truth about it, and
\* the server was greeted on it, also after a reconnect.
THEOREM NodeGreetsOneSocket ==
    NodeSpec => []OneGreetedSocket
<1>1. NodeInv => OneGreetedSocket
  <2> SUFFICES ASSUME NodeInv, patient PROVE OneGreetedSocket
    BY DEF OneGreetedSocket
  <2> DEFINE live == {s \in Sockets : Usable(s)}
  <2>1. \A s \in live : s = ws
    BY DEF NodeInv, NodeOneInv
  <2>2. Cardinality(live) <= 1
    BY <2>1, AtMostOne
  <2>3. OneLiveSocket
    BY <2>2 DEF OneLiveSocket
  <2>4. Open(ws) => connected
    BY DEF NodeInv, NodeOneInv, NodeTypeOK, Open, Is
  <2>5. \A s \in Sockets : Open(s) => sock[s].online
    BY DEF NodeInv, NodeOneInv
  <2>6. QED
    BY <2>3, <2>4, <2>5 DEF OneGreetedSocket
<1>2. QED
  BY <1>1, NodeInvAlways, PTL

\* Without a reconnect callback a patient user's disconnect is final: no socket is
\* live after it and no timer, armed or forgotten, will open one.
THEOREM NodeDisconnectIsFinal ==
    NodeSpec => []DisconnectIsFinal
<1>1. NodeInv => DisconnectIsFinal
  BY DEF NodeInv, NodeOneInv, NodeFinalInv, DisconnectIsFinal, NothingLeft
<1>2. QED
  BY <1>1, NodeInvAlways, PTL

=============================================================================
