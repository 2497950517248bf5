---------------------------- MODULE LoopIdentity ----------------------------
(***************************************************************************)
(* aicq/loop.py: whose keys and whose account the startLoop tasks of one   *)
(* process use.  An identity is a dict that holds a key pair and, once it  *)
(* is known, an account id.  Dicts are shared by reference: the module     *)
(* keeps the last one in _identity_cache, every task keeps the one it was  *)
(* started with, and the file identity.json keeps a copy.  A task suspends *)
(* at each HTTP request and at ws_connect, and reads its dict again after. *)
(* The callbacks of all tasks send through one LoopContext, _loop_ctx,     *)
(* which each task makes its own when it goes online.                      *)
(* The account id of a key is written as that key.                         *)
(***************************************************************************)
EXTENDS Naturals, FiniteSets

CONSTANTS AutoKeys,        \* key pairs that _get_or_create_identity generates
          UserKeys,        \* key pairs the user has, each with an account
          NoKey, Loops, NoLoop,
          Dicts, NoDict,   \* dict objects; there must be one to spare
          Usages,          \* values of usage to look at
          Modes            \* values of serial and of whole to look at

ASSUME IdentityAssumption ==
    /\ AutoKeys \intersect UserKeys = {} /\ NoKey \notin AutoKeys \union UserKeys
    /\ NoDict \notin Dicts /\ NoLoop \notin Loops
    /\ IsFiniteSet(Loops) /\ IsFiniteSet(Dicts)
    /\ Cardinality(Dicts) > Cardinality(Loops) + 1
    /\ \A u \in Usages : u \subseteq {"auto", "full", "partial", "key"}
    /\ Modes \subseteq BOOLEAN

VARIABLES
    file,        \* identity.json; a torn file is read as none
    heap,        \* the contents of the dicts
    cache,       \* _identity_cache
    loop,        \* the startLoop tasks; up: whose token a callback uploads a file with
    ctx,         \* _loop_ctx: the task whose socket and dict it has, and whose token
    slips,       \* history: what was wrong with the messages sent through it
    registered,  \* keys that have an account on the server
    made,        \* history: the keys generated so far
    usage,       \* the ways in which startLoop is called: fixed
    serial,      \* one task at a time: fixed
    whole        \* the process never ends in the middle of a save: fixed

modes == <<usage, serial, whole>>
rest == <<ctx, slips, modes>>
identityVars == <<file, heap, cache, loop, registered, made, rest>>

Keys == AutoKeys \union UserKeys
Identities == [key : Keys, acc : Keys \union {NoKey}]
Blank == [key |-> NoKey, acc |-> NoKey]     \* no file, an unused dict
Idle == [pc |-> "idle", d |-> NoDict, key |-> NoKey, as |-> NoKey, up |-> NoKey]
NoContext == [of |-> NoLoop, tok |-> NoKey]

Used == {cache} \union {loop[l].d : l \in Loops}
New == CHOOSE d \in Dicts : d \notin Used

\* The contents of the dicts from now on; those nobody refers to are forgotten.
Holds(contents) == heap' = [d \in Dicts |-> IF d \in Used' THEN contents[d] ELSE Blank]

IdentityInit ==
    /\ file = Blank
    /\ heap = [d \in Dicts |-> Blank]
    /\ cache = NoDict
    /\ loop = [l \in Loops |-> Idle]
    /\ ctx = NoContext /\ slips = {}
    /\ registered = UserKeys /\ made = {}
    /\ usage \in Usages /\ serial \in Modes /\ whole \in Modes

-----------------------------------------------------------------------------
\* _get_or_create_identity(public_key): memory, file, or a new key pair.

Hit(pk) == cache # NoDict /\ pk \in {NoKey, heap[cache].key}
InFile(pk) == file # Blank /\ pk \in {NoKey, file.key}

\* Mutation of GetOrCreate: the new key pair is not saved.
GetOrCreateUnsaved(pk, d, id) ==
    \/ /\ Hit(pk) /\ d = cache /\ id = heap[cache]
       /\ UNCHANGED <<file, made>>
    \/ /\ ~Hit(pk) /\ InFile(pk) /\ d = New /\ id = file
       /\ UNCHANGED <<file, made>>
    \/ /\ ~Hit(pk) /\ ~InFile(pk) /\ d = New
       /\ id.key \in AutoKeys \ made /\ id.acc = NoKey
       /\ made' = made \union {id.key} /\ UNCHANGED file

GetOrCreate(pk, d, id) ==
    \/ /\ Hit(pk) /\ d = cache /\ id = heap[cache]
       /\ UNCHANGED <<file, made>>
    \/ /\ ~Hit(pk) /\ InFile(pk) /\ d = New /\ id = file
       /\ UNCHANGED <<file, made>>
    \/ /\ ~Hit(pk) /\ ~InFile(pk) /\ d = New
       /\ id.key \in AutoKeys \ made /\ id.acc = NoKey
       /\ made' = made \union {id.key} /\ file' = id

Goes(l, pc, d, key) ==
    loop' = [loop EXCEPT ![l] = [Idle EXCEPT !.pc = pc, !.d = d, !.key = key]]

\* An iteration of startLoop: _ensure_registered, then _login, each of which
\* takes the key from the dict when it begins.
Iterate(l, d, id) == Goes(l, IF id.acc = NoKey THEN "register" ELSE "login", d, id.key)

\* The task begins with dict d, which now holds id and becomes the cache.
Runs(l, d, id) ==
    /\ cache' = d
    /\ Iterate(l, d, id)
    /\ Holds([heap EXCEPT ![d] = id])

MayStart(l) == loop[l] = Idle /\ (serial => \A k \in Loops : loop[k] = Idle)

\* startLoop(on_message)
StartAuto(l) ==
    /\ MayStart(l) /\ "auto" \in usage
    /\ \E d \in Dicts, id \in Identities : GetOrCreate(NoKey, d, id) /\ Runs(l, d, id)
    /\ UNCHANGED <<registered, rest>>

\* startLoop(on_message, public_key=...)
StartKey(l) ==
    /\ MayStart(l) /\ "key" \in usage
    /\ \E pk \in made \union UserKeys, d \in Dicts, id \in Identities :
          GetOrCreate(pk, d, id) /\ Runs(l, d, id)
    /\ UNCHANGED <<registered, rest>>

\* startLoop(on_message, identity=...) with all fields: the user's own dict.
StartFull(l) ==
    /\ MayStart(l) /\ "full" \in usage
    /\ \E k \in UserKeys : Runs(l, New, [key |-> k, acc |-> k])
    /\ UNCHANGED <<file, made, registered, rest>>

\* ... without the account id: its keys are written into the dict there is.
StartPartial(l) ==
    /\ MayStart(l) /\ "partial" \in usage
    /\ \E k \in UserKeys, d \in Dicts, id \in Identities :
          GetOrCreate(NoKey, d, id) /\ Runs(l, d, [id EXCEPT !.key = k])
    /\ UNCHANGED <<registered, rest>>

\* mySecret, in the same process.
MySecret ==
    /\ "auto" \in usage
    /\ \E d \in Dicts, id \in Identities :
          /\ GetOrCreate(NoKey, d, id)
          /\ cache' = d /\ UNCHANGED loop
          /\ Holds([heap EXCEPT ![d] = id])
    /\ UNCHANGED <<registered, rest>>

-----------------------------------------------------------------------------
\* _update_identity_cache, and the task's own dict: the account id is known.
Known(l) ==
    LET k == loop[l].key
        updated == [heap EXCEPT ![cache].acc = k]
    IN /\ file' = updated[cache]
       /\ UNCHANGED cache
       /\ Goes(l, "login", loop[l].d, heap[loop[l].d].key)
       /\ Holds([updated EXCEPT ![loop[l].d].acc = k])

Unknown(l, pc) ==
    /\ Goes(l, pc, loop[l].d, IF pc = "login" THEN heap[loop[l].d].key ELSE loop[l].key)
    /\ UNCHANGED <<file, heap, cache>>

\* The answer to the registration; one that is lost may have taken effect.
Register(l) ==
    /\ loop[l].pc = "register"
    /\ registered' \in {registered, registered \union {loop[l].key}}
    /\ \/ loop[l].key \in registered' /\ Known(l)
       \/ Unknown(l, "lookup")
    /\ UNCHANGED <<made, rest>>

\* The answer to the lookup; without one the task tries to log in all the same.
Lookup(l) ==
    /\ loop[l].pc = "lookup"
    /\ \/ loop[l].key \in registered /\ Known(l)
       \/ Unknown(l, "login")
    /\ UNCHANGED <<registered, made, rest>>

\* _login with the key pair it took from the dict when it began.
LogIn(l) ==
    /\ loop[l].pc = "login"
    /\ \/ loop[l].key \in registered /\ Goes(l, "dial", loop[l].d, loop[l].key)
       \/ Goes(l, "sleep", loop[l].d, NoKey)
    /\ UNCHANGED <<file, heap, cache, registered, made, rest>>

\* Mutation of Greet: a context that is in use is not taken over.
GreetKeepsContext(l) ==
    /\ loop[l].pc = "dial"
    /\ \/ /\ loop' = [loop EXCEPT ![l].pc = "online", ![l].as = heap[loop[l].d].acc]
          /\ ctx' = IF ctx = NoContext THEN [of |-> l, tok |-> loop[l].key] ELSE ctx
       \/ Goes(l, "sleep", loop[l].d, NoKey) /\ UNCHANGED ctx
    /\ UNCHANGED <<file, heap, cache, registered, made, slips, modes>>

\* ws_connect, then "online" with the account id that the dict has by now, and
\* the socket, the token and the dict in the context.
Greet(l) ==
    /\ loop[l].pc = "dial"
    /\ \/ /\ loop' = [loop EXCEPT ![l].pc = "online", ![l].as = heap[loop[l].d].acc]
          /\ ctx' = [of |-> l, tok |-> loop[l].key]
       \/ Goes(l, "sleep", loop[l].d, NoKey) /\ UNCHANGED ctx
    /\ UNCHANGED <<file, heap, cache, registered, made, slips, modes>>

\* The receive loop notices when no callback is under way.
Lost(l) ==
    /\ loop[l].pc = "online" /\ loop[l].up = NoKey
    /\ Goes(l, "sleep", loop[l].d, NoKey)
    /\ UNCHANGED <<file, heap, cache, registered, made, rest>>

WakeUp(l) ==
    /\ loop[l].pc = "sleep"
    /\ Iterate(l, loop[l].d, heap[loop[l].d])
    /\ UNCHANGED <<file, heap, cache, registered, made, rest>>

\* The task is cancelled, or returns for want of auto_reconnect.
Ends(l) ==
    /\ loop[l] # Idle
    /\ loop' = [loop EXCEPT ![l] = Idle]
    /\ UNCHANGED <<file, cache, registered, made, rest>>
    /\ Holds(heap)

-----------------------------------------------------------------------------
\* LoopContext, used by a callback of task l.

\* A message goes out over the socket of the context, in the name in its dict.
Says(l) ==
    LET account == loop[ctx.of].key
        name == heap[loop[ctx.of].d].acc
    IN /\ loop[ctx.of].pc = "online"
       /\ slips' = slips \union {s \in {"name", "task", "file"} :
            CASE s = "name" -> name \notin {NoKey, account}
              [] s = "task" -> account # loop[l].key
              [] s = "file" -> loop[l].up \notin {NoKey, account}}

InCallback(l) == loop[l].pc = "online" /\ UNCHANGED <<file, heap, cache, registered, made, ctx, modes>>

SendMessage(l) ==
    /\ InCallback(l) /\ loop[l].up = NoKey
    /\ Says(l)
    /\ UNCHANGED loop

\* send_file: an upload with the token of the context ...
UploadFile(l) ==
    /\ InCallback(l) /\ loop[l].up = NoKey
    /\ loop' = [loop EXCEPT ![l].up = ctx.tok]
    /\ UNCHANGED slips

\* ... and then the message; the context may be another by now, or without a socket.
SendFileMessage(l) ==
    /\ InCallback(l) /\ loop[l].up # NoKey
    /\ loop' = [loop EXCEPT ![l].up = NoKey]
    /\ Says(l) \/ UNCHANGED slips

-----------------------------------------------------------------------------
NewProcess ==
    /\ cache' = NoDict /\ ctx' = NoContext
    /\ loop' = [l \in Loops |-> Idle]
    /\ heap' = [d \in Dicts |-> Blank]
    /\ UNCHANGED <<made, slips, modes>>

Crash == NewProcess /\ UNCHANGED <<file, registered>>

\* The process ends while _save_identity_to_file writes what Known has learned:
\* open(..., "w") has emptied the file.
CrashInSave ==
    /\ ~whole
    /\ \E l \in Loops : loop[l].pc \in {"register", "lookup"} /\ loop[l].key \in registered
    /\ file' = Blank
    /\ NewProcess
    /\ UNCHANGED registered

IdentityNext ==
    \/ \E l \in Loops : \/ StartAuto(l) \/ StartKey(l) \/ StartFull(l) \/ StartPartial(l)
                        \/ Register(l) \/ Lookup(l) \/ LogIn(l) \/ Greet(l)
                        \/ Lost(l) \/ WakeUp(l) \/ Ends(l)
                        \/ SendMessage(l) \/ UploadFile(l) \/ SendFileMessage(l)
    \/ MySecret \/ Crash \/ CrashInSave

IdentitySpec == IdentityInit /\ [][IdentityNext]_identityVars

-----------------------------------------------------------------------------
\* The ways of calling startLoop that the dicts it shares stand: any number of
\* tasks of one kind, or tasks of both kinds one after the other.
Sound == usage \subseteq {"auto", "full"} /\ (serial \/ usage # {"auto", "full"})

\* A key pair that was generated here and has an account is never lost: the file
\* has it, whatever answers are lost and whenever the process ends.
KeysKept ==
    Sound /\ whole => \A k \in registered \intersect AutoKeys : file.key = k

\* No task goes online under the account of a key other than the one it has
\* logged in with, though dicts change while it is suspended.  What a callback
\* sends bears the name of the account whose socket it goes over; it is the
\* account of the callback's own task if there is one task, or one key.
OnlineAsItself ==
    Sound =>
        /\ \A l \in Loops : loop[l].pc = "online" => loop[l].as \in {NoKey, loop[l].key}
        /\ "name" \notin slips
        /\ serial \/ usage = {"auto"} => slips = {}
=============================================================================
