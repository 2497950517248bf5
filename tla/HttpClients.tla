----------------------------- MODULE HttpClients -----------------------------
(***************************************************************************)
(* The two polling clients of the Python SDK, each as it may be used: the  *)
(* room client and the owner's client with calls that overlap or one at a  *)
(* time, and the quickchat commands, with and without failures.            *)
(***************************************************************************)
EXTENDS RoomClient, QuickChat

CONSTANT Modes   \* the combinations <<kind, serial, safe>> to look at

ASSUME ModesAssumption ==
    Modes \subseteq {"room", "owner", "cli"} \X BOOLEAN \X BOOLEAN

vars == <<httpVars, roomVars, chatVars>>

Init ==
    /\ \E m \in Modes : kind = m[1] /\ serial = m[2] /\ safe = m[3]
    /\ HttpInit /\ RoomInit /\ ChatInit
    /\ kind = "room" => bound = None /\ waits
    /\ kind = "owner" => waits
    /\ kind # "room" => ~share

Common(t) == (Registered(t) \/ LoginLost(t)) /\ UNCHANGED <<roomVars, chatVars>>
RoomSays(c) == kind = "room" /\ Say(c) /\ UNCHANGED <<roomVars, chatVars>>

Next ==
    \/ \E t \in Tasks : Common(t)
    \/ \E c \in Codes : RoomSays(c)
    \/ RoomNext /\ UNCHANGED chatVars
    \/ ChatNext /\ UNCHANGED roomVars

Spec == Init /\ [][Next]_vars

-----------------------------------------------------------------------------
Times == 0..MaxTime
CallRecords == [at : {"idle", "register", "login", "setup", "ask", "unbind", "upload",
                 "friends", "sent", "served"},
           op : {"none", "join", "chat", "init", "status", "bind", "unbind",
                 "speak", "listen", "file"},
           to : Convs \union {None}, key : Keys \union {NoKey},
           since : Times, upto : Times, live : BOOLEAN]
Bindings == [owner : Owners \union {None}, key : BOOLEAN, ts : Times]

\* The values of every variable.
TypeOK ==
    /\ kind \in {"room", "owner", "cli"}
    /\ {serial, safe, share, waits, shell} \subseteq BOOLEAN
    /\ now \in Times
    /\ posts \in [Convs -> SUBSET (1..MaxTime)] /\ got \in [Convs -> SUBSET (1..MaxTime)]
    /\ agent \in {"none", "key", "account"}
    /\ core \in {"none", "anon", "token", "late"}
    /\ latest \in Times
    /\ task \in [Tasks -> CallRecords]
    /\ issued \in [Codes -> 0..2]
    /\ keyfile \in [Codes -> Keys \union {NoKey}]
    /\ mem \in [code : Codes \union {None}, key : Keys \union {NoKey}]
    /\ bound \in Owners \union {None}
    /\ friend \subseteq asked /\ asked \subseteq Owners
    /\ rows \subseteq friend /\ spoke \subseteq Owners
    /\ file \in Bindings /\ binding \in Bindings

Seen(c, n) == \A x \in posts[c] : x <= n => x \in got[c]
OneRoom == \A c \in Codes \ {mem.code} : issued[c] = 0
OneOwner == \A o \in Owners \ {bound} : posts[o] = {} /\ o \notin spoke

\* Whoever polls from latest_timestamp has been given everything before it.  With
\* one room, or one owner, this survives overlapping calls, lost answers, lost
\* binds and restarts.  With several rooms calls must not overlap; with several
\* owners nothing may be lost and no bind be under way.  The commands must be made
\* to print what they fetch.
NothingSkipped ==
    /\ kind = "room" /\ mem # Outside /\ (serial \/ OneRoom) => Seen(mem.code, latest)
    /\ kind = "owner" /\ bound # None
       /\ (OneOwner \/ (safe /\ \A t \in Tasks : task[t].op # "bind"))
         => Seen(bound, latest)
    /\ kind = "cli" /\ bound # None /\ waits /\ (OneOwner \/ (safe /\ AllIdle))
         => Seen(bound, file.ts)

\* The promise of the key files: a client whose joins do not overlap and are
\* answered stays the one member of the room that it became first, over any
\* number of joins of any rooms and of restarts, if the codes of the rooms
\* differ in more than the case of their letters.
OneIdentity ==
    kind = "room" /\ serial /\ safe /\ ~share => \A c \in Codes : issued[c] <= 1

\* When calls neither overlap nor get lost, nothing is said to an owner who has
\* not accepted the friendship, although the server, the client and the file
\* each have an idea of their own of who the owner is.
SpeaksToFriends == serial /\ safe => spoke \subseteq friend

=============================================================================
