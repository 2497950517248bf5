---------------------------- MODULE AuthPromise ----------------------------
(***************************************************************************)
(* "Token Refresh Protocol" of SPEC.md, rules 1 to 4, for the concurrent   *)
(* requests of one client: a 401 leads to a refresh, a failed refresh to a *)
(* login, a failed login to an AuthError, and a request is repeated once   *)
(* and only with tokens that were renewed after its rejection.             *)
(***************************************************************************)
CONSTANTS Tasks

VARIABLES refresh,   \* is there a refresh token
          phase,     \* phase[t]: where the request of t is
          stale,     \* stale[t]: its 401 came after the tokens were last renewed
          out        \* out[t]: what its last request returned

promiseVars == <<phase, stale, out>>

Phases == {"idle", "sent", "refresh", "login", "retried"}
Renewing == {"refresh", "login"}

PromiseInit ==
    /\ phase = [t \in Tasks |-> "idle"]
    /\ stale = [t \in Tasks |-> FALSE]
    /\ out = [t \in Tasks |-> "none"]

Moves(t, p) == phase' = [phase EXCEPT ![t] = p]
Returns(t, o) == Moves(t, "idle") /\ out' = [out EXCEPT ![t] = o] /\ UNCHANGED stale

Send(t) ==
    /\ phase[t] = "idle" /\ Moves(t, "sent")
    /\ out' = [out EXCEPT ![t] = "none"] /\ stale' = [stale EXCEPT ![t] = FALSE]

Answer(t) == phase[t] = "sent" /\ \E o \in {"none", "ok", "error"} : Returns(t, o)

\* Rule 1.  Without a refresh token refreshAuth fails at once.
Reject(t) ==
    /\ phase[t] = "sent"
    /\ Moves(t, "refresh") \/ (~refresh /\ Moves(t, "login"))
    /\ stale' = [stale EXCEPT ![t] = TRUE] /\ UNCHANGED out

\* Rule 2.
FallBack(t) == phase[t] = "refresh" /\ Moves(t, "login") /\ UNCHANGED <<stale, out>>

\* Rule 3.
GiveUp(t) == phase[t] = "login" /\ Returns(t, "auth")

\* The network fails while the tokens are renewed.
Fail(t) == phase[t] \in Renewing /\ Returns(t, "error")

\* Somebody has renewed the tokens.
Renew == stale' = [t \in Tasks |-> FALSE] /\ UNCHANGED <<phase, out>>

\* Rule 4.
Retry(t) ==
    /\ phase[t] \in Renewing /\ Moves(t, "retried")
    /\ stale' = [u \in Tasks |-> FALSE] \/ (~stale[t] /\ UNCHANGED stale)
    /\ UNCHANGED out

Finish(t) == phase[t] = "retried" /\ \E o \in {"ok", "401", "error"} : Returns(t, o)

PromiseNext ==
    \/ Renew
    \/ \E t \in Tasks : \/ Send(t) \/ Answer(t) \/ Reject(t) \/ FallBack(t) \/ GiveUp(t)
                        \/ Fail(t) \/ Retry(t) \/ Finish(t)

PromiseSpec == PromiseInit /\ [][PromiseNext]_promiseVars
=============================================================================
