-------------------------------- MODULE Auth --------------------------------
(***************************************************************************)
(* The tokens of one client and the concurrent calls that use and renew    *)
(* them: a request with its repetition after a 401, a login, a refresh.    *)
(*   python   aicq/core.py _http_get, _http_post, _ensure_auth, login,     *)
(*            refresh_auth                                                 *)
(*   go       go/auth.go AuthManager, whose Refresh and ChallengeLogin     *)
(*            hold the mutex across their HTTP requests                    *)
(*   node     nodejs/src/auth.ts AuthManager, client.ts httpRequest        *)
(* Any request may be answered, rejected with a 401, refused otherwise or  *)
(* lost, so tokens expire and are rotated at any time.  An action is what  *)
(* follows such an answer, up to the next request.                         *)
(***************************************************************************)
EXTENDS Naturals, Sequences

CONSTANTS Tasks, NoTask,
          Sdks,      \* the SDKs to look at
          Limit      \* nesting of login at which Python's stack ends, small here

ASSUME AuthAssumption ==
    /\ NoTask \notin Tasks
    /\ Sdks \subseteq {"python", "go", "node"}
    /\ Limit \in Nat

VARIABLES
    sdk,       \* fixed
    access,    \* is there an access token
    refresh,   \* is there a refresh token
    task,      \* the calls
    lock,      \* Go: who holds AuthManager.mu for writing
    stale,     \* history: as in AuthPromise
    out        \* history: as in AuthPromise

vars == <<sdk, access, refresh, task, lock, stale, out>>

\* nest: Python's posts that wait for a login that their own 401 has begun;
\* again: the outstanding post is such a repetition; kept: the last
\* request got its 401 although there was a token.
Idle == [pc |-> "idle", op |-> "request", nest |-> <<>>, again |-> FALSE, kept |-> FALSE]

\* In Go and Node the user may set tokens that were saved.
Init ==
    /\ sdk \in Sdks
    /\ access \in BOOLEAN /\ refresh \in BOOLEAN
    /\ sdk = "python" => ~access /\ ~refresh
    /\ task = [t \in Tasks |-> Idle]
    /\ lock = NoTask
    /\ stale = [t \in Tasks |-> FALSE]
    /\ out = [t \in Tasks |-> "none"]

At(t, pc) == task[t].pc = pc
Goes(t, pc) == task' = [task EXCEPT ![t].pc = pc, ![t].again = FALSE]
Starts(t, op, pc) ==
    /\ At(t, "idle")
    /\ task' = [task EXCEPT ![t] = [Idle EXCEPT !.op = op, !.pc = pc,
                                              !.kept = op # "request" /\ task[t].kept]]

\* The call returns or raises, and with it goes the lock.
Ends(t, o) ==
    /\ task' = [task EXCEPT ![t] = [Idle EXCEPT !.kept = task[t].kept]]
    /\ out' = IF task[t].op = "request" THEN [out EXCEPT ![t] = o] ELSE out
    /\ lock' = IF lock = t THEN NoTask ELSE lock

Stored(r) == access' = TRUE /\ refresh' = r /\ stale' = [t \in Tasks |-> FALSE]

-----------------------------------------------------------------------------
\* The calls.  Token() of Go waits for the mutex.
Request(t) ==
    /\ lock = NoTask
    /\ Starts(t, "request", "sent")
    /\ out' = [out EXCEPT ![t] = "none"] /\ stale' = [stale EXCEPT ![t] = FALSE]
    /\ UNCHANGED <<sdk, access, refresh, lock>>

CallLogin(t) ==
    /\ Starts(t, "login", IF sdk = "go" THEN "wait" ELSE "challenge")
    /\ UNCHANGED <<sdk, access, refresh, lock, stale, out>>

\* Without a refresh token Python and Node raise at once.
CallRefresh(t) ==
    /\ sdk = "go" \/ refresh
    /\ Starts(t, "refresh", IF sdk = "go" THEN "wait" ELSE "refresh")
    /\ UNCHANGED <<sdk, access, refresh, lock, stale, out>>

\* AICQClient.close of Node, which stops no call.
ClearTokens ==
    /\ sdk = "node" /\ access
    /\ access' = FALSE /\ refresh' = FALSE
    /\ UNCHANGED <<sdk, task, lock, stale, out>>

-----------------------------------------------------------------------------
\* Mutation of Rejected: Go and Node, too, repeat with the token they have.
RejectedKeepsToken(t) ==
    /\ stale' = [stale EXCEPT ![t] = TRUE]
    /\ \/ access /\ task' = [task EXCEPT ![t].pc = "retry", ![t].kept = sdk = "python"]
       \/ ~access /\ Goes(t, IF sdk = "go" THEN "wait" ELSE IF refresh THEN "refresh" ELSE "challenge")
    /\ UNCHANGED <<lock, out>>

\* A request has got a 401.
Rejected(t) ==
    /\ stale' = [stale EXCEPT ![t] = TRUE]
    /\ \/ sdk = "go" /\ Goes(t, "wait")
       \/ sdk = "python" /\ access /\ task' = [task EXCEPT ![t].pc = "retry", ![t].kept = TRUE]
       \/ /\ sdk = "node" \/ (sdk = "python" /\ ~access)
          /\ Goes(t, IF refresh THEN "refresh" ELSE "challenge")
    /\ UNCHANGED <<lock, out>>

\* The answer to a request, the first time.
AnswerFirst(t) ==
    /\ At(t, "sent")
    /\ \/ Rejected(t)
       \/ (\E o \in {"ok", "error"} : Ends(t, o)) /\ UNCHANGED stale
    /\ UNCHANGED <<sdk, access, refresh>>

\* Go: Refresh or ChallengeLogin gets the mutex.
Acquire(t) ==
    /\ At(t, "wait") /\ lock = NoTask
    /\ lock' = t
    /\ Goes(t, IF task[t].op # "login" /\ refresh THEN "refresh" ELSE "challenge")
    /\ UNCHANGED <<sdk, access, refresh, stale, out>>

\* Go: Token() again, after the mutex was released.
Resend(t) ==
    /\ At(t, "resend") /\ lock = NoTask
    /\ Goes(t, "retry")
    /\ UNCHANGED <<sdk, access, refresh, lock, stale, out>>

AnswerRetry(t) ==
    /\ At(t, "retry")
    /\ \E o \in {"ok", "401", "error"} : Ends(t, o)
    /\ UNCHANGED <<sdk, access, refresh, stale>>

\* The tokens are stored: on with what waits for them.
Renewed(t) ==
    LET nest == task[t].nest
    IN IF nest # <<>>
       THEN /\ task' = [task EXCEPT ![t].pc = nest[Len(nest)], ![t].again = TRUE,
                                    ![t].nest = SubSeq(nest, 1, Len(nest) - 1)]
            /\ UNCHANGED <<lock, out>>
       ELSE IF task[t].op # "request" THEN Ends(t, "ok")
       ELSE /\ Goes(t, IF sdk = "go" THEN "resend" ELSE "retry")
            /\ lock' = NoTask /\ UNCHANGED out

\* The refresh has failed: login, unless the call was for a refresh only.
FallsBack(t) ==
    IF sdk # "go" /\ task[t].op = "refresh"
    THEN Ends(t, "auth")
    ELSE Goes(t, "challenge") /\ UNCHANGED <<lock, out>>

\* A new refresh token replaces the old one; a refusal makes Python forget both
\* tokens; of a lost answer Python makes no AuthError.
AnswerRefresh(t) ==
    /\ At(t, "refresh")
    /\ \/ Stored(TRUE) /\ Renewed(t)
       \/ (sdk # "node" \/ refresh) /\ Stored(refresh) /\ Renewed(t)
       \/ /\ sdk = "python" /\ access' = FALSE /\ refresh' = FALSE
          /\ FallsBack(t) /\ UNCHANGED stale
       \/ sdk = "python" /\ Ends(t, "error") /\ UNCHANGED <<access, refresh, stale>>
       \/ sdk # "python" /\ FallsBack(t) /\ UNCHANGED <<access, refresh, stale>>
    /\ UNCHANGED sdk

\* Mutation of Unauthorized: the repetition is not marked as one.
UnauthorizedUnmarked(t) ==
    /\ sdk = "python" /\ ~task[t].again
    /\ \/ access /\ UNCHANGED task
       \/ ~access /\ Goes(t, IF refresh THEN "refresh" ELSE "challenge")
    /\ UNCHANGED <<lock, out>>

\* Python posts challenge and login with _http_post: a 401 repeats the post, or
\* logs in within the login, which ends with the stack.
Unauthorized(t) ==
    /\ sdk = "python" /\ ~task[t].again
    /\ \/ access /\ task' = [task EXCEPT ![t].again = TRUE] /\ UNCHANGED <<lock, out>>
       \/ /\ ~access /\ Len(task[t].nest) < Limit
          /\ task' = [task EXCEPT ![t].pc = IF refresh THEN "refresh" ELSE "challenge",
                                  ![t].nest = Append(@, task[t].pc)]
          /\ UNCHANGED <<lock, out>>
       \/ ~access /\ Len(task[t].nest) = Limit /\ Ends(t, "error")

\* A post of the login is refused or lost.
LoginFails(t) ==
    \/ Unauthorized(t)
    \/ Ends(t, "auth")
    \/ sdk = "python" /\ Ends(t, "error")

AnswerChallenge(t) ==
    /\ At(t, "challenge")
    /\ (Goes(t, "login") /\ UNCHANGED <<lock, out>>) \/ LoginFails(t)
    /\ UNCHANGED <<sdk, access, refresh, stale>>

AnswerLogin(t) ==
    /\ At(t, "login")
    /\ \/ Stored(TRUE) /\ Renewed(t)
       \/ LoginFails(t) /\ UNCHANGED <<access, refresh, stale>>
    /\ UNCHANGED sdk

-----------------------------------------------------------------------------
Answered(t) ==
    \/ AnswerFirst(t) \/ AnswerRetry(t) \/ AnswerRefresh(t)
    \/ AnswerChallenge(t) \/ AnswerLogin(t)

Next ==
    \/ ClearTokens
    \/ \E t \in Tasks : \/ Request(t) \/ CallLogin(t) \/ CallRefresh(t)
                        \/ Acquire(t) \/ Resend(t) \/ Answered(t)

Spec == Init /\ [][Next]_vars

\* Requests are answered or time out, and a Go mutex is handed to who waits.
Fairness ==
    \A t \in Tasks : WF_vars(Answered(t)) /\ SF_vars(Acquire(t)) /\ SF_vars(Resend(t))

-----------------------------------------------------------------------------
Calls == [pc : {"idle", "wait", "sent", "refresh", "challenge", "login", "resend", "retry"},
          op : {"request", "login", "refresh"},
          nest : Seq({"challenge", "login"}),
          again : BOOLEAN, kept : BOOLEAN]

TypeOK ==
    /\ sdk \in Sdks
    /\ access \in BOOLEAN /\ refresh \in BOOLEAN
    /\ task \in [Tasks -> Calls] /\ \A t \in Tasks : Len(task[t].nest) <= Limit
    /\ lock \in Tasks \union {NoTask}
    /\ stale \in [Tasks -> BOOLEAN]
    /\ out \in [Tasks -> {"none", "ok", "401", "error", "auth"}]

\* Where SPEC.md sees the request of t.
PhaseAt == [idle |-> "idle", sent |-> "sent", wait |-> "refresh", refresh |-> "refresh",
            challenge |-> "login", login |-> "login", resend |-> "retried",
            retry |-> "retried"]

Phase(t) ==
    IF task[t].op # "request" THEN "idle"
    ELSE IF task[t].nest # <<>> THEN "login" ELSE PhaseAt[task[t].pc]

Outside(t) == task[t].kept
Protocol == INSTANCE AuthPromise
    WITH phase <- [t \in Tasks |-> IF Outside(t) THEN "idle" ELSE Phase(t)],
         stale <- [t \in Tasks |-> ~Outside(t) /\ stale[t]],
         out <- [t \in Tasks |-> IF Outside(t) THEN "none" ELSE out[t]]

\* Requests follow rules 1 to 4 of SPEC.md, however they interleave with each
\* other, with logins, refreshes and rejected refresh tokens: none is repeated
\* with the tokens that were rejected, none gives up before a login has failed.
\* The requests of Python that get a 401 with a token at hand are left out.
FollowsProtocol == Protocol!PromiseSpec

\* Every call returns: nobody is left waiting for the mutex of Go, and the
\* repetitions of Python end.
CallsReturn == \A t \in Tasks : ~At(t, "idle") ~> At(t, "idle")
=============================================================================
