# TLA+ models of aicqSDK

aicqSDK is one client protocol written three times, in Python (`src/aicq`), Go
(`src/go`) and TypeScript (`src/nodejs`). An SDK signs in to an AICQ server with
an Ed25519 key, keeps one WebSocket connection per agent, and sends and receives
messages, streams, friend requests and ephemeral-room traffic over it. There is
no test suite in the repository; `src/SPEC.md` is the nearest thing to a
statement of what the three are to do.

What is hard in this code is concurrency around little state: who holds the
socket while a handshake, a token refresh or a `disconnect` is suspended; which
goroutine may close which channel; which row of a table is the current one after
a crash. That is what the modules are about. Message contents, cryptography and
formatting are abstracted away.

## 1. Inventory

| Component | State | Operations | Talks to | What is hard |
|---|---|---|---|---|
| Message deduplication (`go/db.go`, `core.py:154-185`, `websocket.ts handleMessage`) | list and index of seen ids, pruned at 1000 to 500 | has, add, reset | called by the receive loops | pruning at the limit; test and insert in two critical sections |
| Python connection (`core.py` `connect`, `_do_ws_connect`, `_ws_loop`, `_schedule_reconnect`, `_reconnect_after`, `disconnect`) | `ws`, `_ws_task`, `_ws_running`, `_reconnect_task`, `_manual_close`, `_ephemeral`, backoff | connect, join a room, disconnect, receive, reconnect | tokens of the account, server | every `await` is a point where another task may overwrite `ws` |
| Node `WSManager` (`websocket.ts`) | `ws`, `connected`, `intentionallyClosed`, `reconnectTimer`, delay | connect, disconnect, open/close events, timer, awaited callback | `AICQClient.ensureAuth` | late close events, timers armed twice, disconnect during the callback |
| Go `WSManager` (`ws.go`) | `conn`, `connected`, `stopCh`, `doneCh`, backoff; goroutines | Connect, ConnectWithRetry, ReconnectLoop, Disconnect, readLoop, two ping loops | `AuthService`, server | goroutines re-read fields that a later Connect replaced; channels closed twice |
| Streaming and cancel (`core.py`, `messaging.go`, `messaging.ts`, `client.go`) | cancel flags per friend | chunk, end, cancel, poll, clear | receive loop, dedup | a cancel racing the end of its stream; ids shared by frames |
| Agent table (`db.py`, `core.py`, `server.py`, CLI) | `agents` rows with `is_current`; active agent and token in memory | create own / friend agent, login, switch, start | server's registration and lookup | calls suspended at HTTP requests, crashes between two saves, INSERT OR REPLACE |
| Authentication (`core.py`, `auth.go`, `auth.ts`) | access and refresh token; Go: a mutex that is held across the requests | login, refresh, retry after 401 | every REST call, reconnects | a retry that repeats the same token, a refresh racing a login, a login that is itself retried |
| Agent loop (`loop.py`) | per task: socket, delay, dedup set, time of the last ping; per process: `_identity_cache`, `_loop_ctx`; `identity.json` | startLoop, mySecret, sends of `LoopContext` | handlers of the user, server | state that is new on every connection; identity dicts shared by tasks that are suspended in a request; a file written in place |
| Messaging (`core.py`, `server.py`; `messaging.go`, `messaging.ts`) | pending history requests, seen ids, active agent, token, socket, rows of the local database | send over WebSocket or REST, files, lists, group history, receive, switch | connection, agent table | a send that fails half-way; futures keyed by milliseconds; an active agent that changes while a call is suspended |
| Ephemeral rooms (`core.py` `AICQAgentClient`, `ephemeral.go`, `ephemeral.ts`) | member key in memory and in a file per code, `latest_timestamp`, token | join, chat, their blocking forms | agent table, server | overlapping calls, which key is presented after which join or restart |
| QuickChat (`quickchat.py`) | the binding at the server, in memory and in `quickchat.json`; core and chat client | init, bind, unbind, chat, files, commands | agent table, friends, server | three copies of one binding, changed one after the other |
| Invoke (`invoke.py`, `invoke.go`, `invoke.ts`) | buffer of the parser; Go: a goroutine and a channel | challenge, post, read events | server | bytes cut anywhere; a caller who leaves |
| Terminal of `aicq chat` (`__init__.py` `cmd_chat`) | two tasks, the executor's threads, `message_queue` | read a line, send, print | Python connection | a task that is cancelled while its thread sits in `input()` |
| Cryptography, REST wrappers, types | none of their own | one request or one computation per call | server | nothing a model checker would find |

Correctness, component by component: an id is not handled twice and no fresh one
is dropped (dedup); at most one live socket, always read, gone for good after
`disconnect`, and re-made after a loss (the three connections); a stream that is
over is closed at the recipient, and a cancel stops exactly the stream it was
meant for (streams); no registered key is lost, the table has one current row and
memory agrees with it (agent table); the loop comes back from every failure, and
goes online under the account of the key it logged in with (agent loop); a rejected
request is repeated once, with renewed tokens, and fails with `AuthError` only after a
login has failed (authentication); a caller is told what became of a message, a history
is the answer to the request that was made, and rows, socket and token belong to one
agent (messaging); who polls from a timestamp has been given everything before it, a
client remains one member of a room, and nothing is said to an owner who has not
accepted (rooms, QuickChat); events arrive as they were written, and the reader ends
(Invoke); nothing typed or received is lost or shown out of order (terminal). The
hazards behind these, each at its line, are listed in `PROJECT.json`.

## 2. Modules

| Module | Models | Built on |
|---|---|---|
| `DedupPromise` | abstract: what SPEC.md promises of deduplication | |
| `Dedup` | Go `DedupTracker` and the handlers' Has-then-Add | instantiates `DedupPromise`, refines it |
| `PyCoreWS` | the Python connection | |
| `PyCoreWSProofs` | proofs about `PyCoreWS` | `PyCoreWS`, TLAPS |
| `NodeWS` | the Node connection | |
| `GoWS` | the Go connection with all its goroutines | its `OneServedConn` is what lets `Dedup` assume one reader |
| `GoProofs` | proofs about `Dedup` and `GoWS` | `Dedup`, `GoWS`, TLAPS |
| `Streams` | streams and cancels between any two SDKs | |
| `PyIdentity` | the agent table and the active agent | |
| `PyIdentityProofs` | proofs about `PyIdentity` | `PyIdentity`, TLAPS |
| `AgentLoop` | the connection loop of `startLoop` | instantiates `DedupPromise`, refines it on each connection |
| `LoopIdentity` | keys and accounts of the `startLoop` tasks of a process, and the `LoopContext` they share | abstracts the connection of `AgentLoop` to up and lost |
| `AgentLoopProofs` | proofs about `AgentLoop` and `LoopIdentity`, the two halves of `loop.py` | `AgentLoop`, `LoopIdentity`, TLAPS |
| `AuthPromise` | abstract: the first four rules of the "Token Refresh Protocol" of SPEC.md | |
| `Auth` | tokens, login, refresh and the 401 retry of the three SDKs | instantiates `AuthPromise`, refines it |
| `SpecPromises` | the two chapters of SPEC.md that the SDKs implement, deduplication and the token protocol, as one specification for TLC | extends `Dedup` and `Auth` |
| `SessionProofs` | proofs about `Auth` and `NodeWS`; the `NodeClient` does both, since it authenticates again before it reconnects | `Auth`, `NodeWS`, TLAPS |
| `Messaging` | sends, files, lists, histories, received messages and the agent switch of `AICQCore` | abstracts the connection of `PyCoreWS` to up, off and the stages of a reconnect, and the retry of `Auth` to whose token it uses |
| `MessagingProofs` | proofs about `Messaging` | `Messaging`, TLAPS |
| `HttpClient` | what the two polling clients share: the server's conversations, sign-in, suspended calls | |
| `RoomClient` | `AICQAgentClient` and its key files | extends `HttpClient` |
| `QuickChat` | `AICQChatClient` and the quickchat commands | extends `HttpClient` |
| `HttpClients` | either of the two, with its mode; the properties of both | extends `RoomClient` and `QuickChat` |
| `HttpClientsProofs` | proofs about `HttpClients` | `HttpClients`, TLAPS |
| `Invoke` | `invoke_agent_stream` of the three SDKs and its event parser | |
| `RoomConsole` | the terminal of `aicq chat` | |
| `StreamOutputs` | the three ways in which output reaches a reader, as one specification for TLC | extends `Streams`, `Invoke`, `RoomConsole` |
| `StreamOutputsProofs` | proofs about `Streams`, `Invoke` and `RoomConsole` | `StreamOutputs`, TLAPS |
| `MC…` | constants for TLC | the module they are named after |

### How state and actions correspond to the code

*Dedup.* `ids` and `index` are the fields of `DedupTracker`. `Check` is a handler
up to the unlock of `Has`, `Deliver` is `Add` and the callback; `pend[r]` is the
id between the two. `n`, `at`, `last` are history and belong to `DedupPromise`.

*PyCoreWS.* asyncio runs one task at a time, so an action is what happens between
two awaits. `ws`, `wsTask`, `running`, `manual`, `eph`, `backoff`, `token`,
`refresh` are the fields `self.ws`, `_ws_task`, `_ws_running`, `_manual_close`,
`_ephemeral`, `_reconnect_backoff`, `access_token`, `refresh_token`; the last two say
whether there is one, and a rejected refresh clears both. `sock[s].tok` says whether the
greeting on socket `s` had a token. `call[c]` is
a user call that is suspended, `loop[s]` the receive loop whose task was created
with socket `s` and `reads[s]` the socket that it took from `self.ws` when it
first ran, `re` the reconnect task. `Established` is the part of `_do_ws_connect`
after the handshake, `GreetingLost` the same when the greeting fails.

*NodeWS.* An action is one callback of the event loop. `sock[s]` is a WebSocket
with its readyState and the presence messages it carried; `timer` says that
`reconnectTimer` is armed, `loose` counts armed timers that `reconnectTimer` no
longer names, `waiting` timer bodies that await the callback. `hasCallback` and
`patient` are fixed at the start.

*GoWS.* An action is one stretch under `connMu`, or one receive from a channel.
The pair `stopCh`, `doneCh` of a Connect has the name of its connection.
`actor[a]` is a goroutine in Connect, ConnectWithRetry, Disconnect or
ReconnectLoop, `reader[c]` the readLoop started by the Connect of `c`, `pings` the
set of live ping loops. `calm` is fixed at the start.

*Streams.* `task[f]` is the polling loop that the docs of `is_stream_cancelled`
give. `flag[f]` is `_stream_cancel_flags`, `streamCancelFlags` or
`cancelledStreams`; `down[f]` and `up[f]` are frames in transit; `seen[f]` is the
recipient's dedup set, `shown[f]` what its callbacks saw. Which SDK is on which
side is fixed at the start, all pairs are looked at.

*PyIdentity.* `agents[id]` is a row, `active` is `self._agent`, `token` the owner
of `self.access_token`, `task[t]` a call suspended at an HTTP request. The answer
to a request may be a success, a refusal, or be lost after the server acted;
`Crash` may come at any time.

*AgentLoop.* One task, one action between two awaits: `pc` is where it is, `sock`
the socket as the network has it, which the task only learns when its `async for`
ends. `delay`, `seen` are `reconnect_delay` and `message_ids_seen`; `age` counts
ping intervals since `last_ping`. `start` is the number of deliveries made before
the present connection: `DedupPromise` is instantiated with deliveries counted
from there, so a new connection is its `Forget`.

*LoopIdentity.* `heap` holds the identity dicts, and `cache`, `loop[l].d` are
references to them, because the code shares dicts between `_identity_cache` and
the tasks and updates them in place. `loop[l].key` is the key that a suspended
request took from its dict, `loop[l].as` the account id sent with "online".
`file` is `identity.json`. A dict that nothing refers to is blank again. `ctx` is
`_loop_ctx`: the task whose socket and dict it holds, and the token; `loop[l].up` is the
token with which a callback of `l` uploads a file before it sends it, and `slips` what was
wrong with a message that went out: its name is not the account of the socket, the socket
is not of the callback's own task, or the file was uploaded by somebody else.

*Auth.* `access`, `refresh` say whether there are tokens, `task[t]` is a suspended call:
`sent` is the request before its first answer, `retry` its repetition, `refresh`,
`challenge` and `login` the three requests that renew tokens. An action is what follows
the answer to one of them. `lock` is the write lock of Go's `AuthManager.mu`, which
`Acquire` takes for a whole Refresh or ChallengeLogin and for which `Token()` waits.
`nest` are Python's posts that wait for the login which their own 401 has begun, since
`login` posts through the retry. `stale[t]`, history, says that the tokens were not
renewed since the request of `t` was rejected.

*Messaging.* `active`, `token`, `renew` are `self._agent` and the owners of
`self.access_token` and `self.refresh_token`; `socket` is whom the last "online" named and
whose token it carried, if any. `link` is the connection, or where the reconnect task is:
asleep, in `refresh_auth` (`asked` is whose refresh token it sent, which a login may have
replaced when the answer comes) or about to dial, with whatever token there is. A rejected
refresh clears both tokens, and no frame goes through a socket that was greeted without
one. `EnsureAuth` and `Repeats` are a 401 to a REST call: which token it is repeated with,
after a login as whoever is active. `rejected`, history, says that the refresh token of a
careful user was rejected since the last login. `task[t]` is a call
of a handler of `server.py` that is suspended, `sends[n]` what became of message `n`:
`arrived` how often, as whom (`as`), whether a row was `kept` and what the caller was told.
`pending` is `_pending_requests`; an id is the number of a millisecond. `mixed` notes that
a row was stored under one agent about another.

*HttpClient, RoomClient, QuickChat.* A timestamp is the number of a message. `task[t]` is
a suspended call: `at` is the request it waits for, `since` and `upto` what it asked from
and was answered up to, `live` (QuickChat) whether the chat client it uses is still the
current one. `posts[c]` is what was said in a conversation, `got[c]` what the user was
given of it. In *RoomClient* `keyfile[c]` is the file under `ephemeral/`, `mem` the
fields `invite_code` and `private_key`. In *QuickChat* `bound` is the server's idea of the
owner, `binding` that of the client and `file` that of `quickchat.json`; `rows` are the
friends in the database of the SDK, which `list_friends` falls back to.

*Invoke.* An event on the wire is two halves and two newlines, so that a cut may fall
within a character, between two events and within the blank line. `NextBlock` is one turn
of the loop over `\n\n`, `Receive` one piece of the body; `channel` is Go's channel, and
`given` what the caller got. In Python and Node the generator runs only while the caller
asks.

*RoomConsole.* `main` is where the loop is; `input`, `msg` are the two tasks it waits for.
`stale` counts the threads that a cancelled task has left behind in `input()`, and
`holder` says which thread has the terminal: CPython lets one read at a time.

### Modes

Some properties hold only of some users or servers. The distinction is a variable
that is chosen in the initial state and never changes, so that one run looks at
both sides and each property says which side it is about:

- `patient` (Node): the user calls `connect` only when nothing is under way.
  `calm` (Go): the user connects when all is at rest and disconnects a connection
  that is established. `Polite` (Python, a constant): the user does not call
  `connect` while a connection or a reconnect exists. Without these the three
  connections do make two sockets, because none of the `connect` functions looks
  at what is already there; that is listed as hazards and visible in the models.
- `hasCallback` (Node): `AICQClient` always installs the reconnect callback, a
  bare `WSManager` has none.
- `withIds`, `callback` (Streams): the agent passes message ids; the agent's user
  registered a cancel callback.
- `auto` (AgentLoop): `auto_reconnect`.
- `usage`, `serial`, `whole` (LoopIdentity): the ways in which `startLoop` is called
  (`auto` without arguments, `full` or `partial` with an identity, `key` with a
  public key), one task at a time, no crash in the middle of a save. `Sound` names
  the usages for which the properties are stated. Outside of it they are false: a
  registration answer of one task is written into the cached dict of another and
  into the file (`loop.py:411`), a partial identity is merged into the cached one
  with its account id (`loop.py:638`), an unknown public key overwrites the file
  (`loop.py:401`), and a save that is interrupted has emptied it (`loop.py:353`).
- `sdk` (Auth): which of the three is looked at. `kept` marks a Python request that was
  rejected although there was a token; `FollowsProtocol` is stated of the others,
  because `_ensure_auth` then returns at once (`core.py:201`) and the same token is
  sent again.
- `serial`, `careful`, `nested` (PyIdentity): calls come one at a time; a friend
  is added once and never oneself; the lookup answers `{account: {id}}`.
- `spread`, `clean`, `careful` (Messaging): no two history requests share a
  millisecond; a send that fails had no effect and all rows can be written; a switch is
  made offline, between calls, and followed by a login.
- `kind`, `serial`, `safe` (HttpClients): the room client, the owner's client or the
  quickchat commands; one call at a time; requests are answered and no process dies
  during a call. `share` (RoomClient): two codes differ in case only and so have one
  file. `waits` (QuickChat): the send commands get `--wait`.
- `sdk`, `cancels` (Invoke): the SDK; a caller who leaves also cancels the context (Go).
- `output` (StreamOutputs): frames, the answer to an invocation, or the terminal.

## 3. Runs

Each run ends within about two minutes.

| Run | Checks | Shows |
|---|---|---|
| `spec_promises` | `TrackerConsistent` `KeepsPromise` `FollowsProtocol` `CallsReturn` | deduplication: with one reader the tracker's list and map agree through pruning, and it refines the promise of SPEC.md; tokens: two concurrent calls of each SDK, every answer rejected, refused, lost or accepted: requests keep to SPEC.md, and every call returns |
| `py_ws` | `TypeOK` `OneReadSocket` `DisconnectIsFinal` `RecoversFromLoss` | the Python connection under losses, outages, rejected refresh tokens, agent and room sessions |
| `py_ws_gives_up` (violation) | `Recovers` | a reconnect that fails once is the last: the task that would schedule the next attempt is itself the pending one |
| `py_ws_no_token` (violation) | `GreetsWithToken` | after a rejected refresh, which clears both tokens, the reconnect goes online with no token |
| `node_ws` | `NodeTypeOK` `OneGreetedSocket` `DisconnectIsFinal` `Recovers` | the Node connection with and without callback, patient and arbitrary user |
| `go_ws` | `TypeOK` `NoPanic` `OneServedConn` `DisconnectIsFinal` `Recovers` `PingsEnd` | the Go goroutines: no channel is closed twice, one connection with one reader, pings last as long as the connection and not longer |
| `streams` | `StreamsClose` `OneAbortPerCancel` `StopWorks` `GivenAsSent` `ReaderEnds` `ConsoleInOrder` `ConsoleServes` | streams and cancels for every pair of SDKs; invocations of every SDK with every cut of the bytes and a caller who may leave; the terminal of a room with its abandoned threads |
| `py_identity` | `OneCurrent` `KeysSurvive` `ActiveIsStored` `ReturnsOwn` | the agent table under concurrent calls, lost answers, crashes, switches |
| `agent_loop` | `KeepsPromise` `Recovers` `BacksOff` | startLoop keeps the dedup promise on each connection, comes back from every failure and outage until it is cancelled, and backs off as documented |
| `loop_identity` | `KeysKept` `OnlineAsItself` | a generated key with an account stays in the file; no task goes online, and no callback speaks, under another key's account, while tasks share and update dicts and the context |
| `http_clients` | `NothingSkipped` `OneIdentity` `SpeaksToFriends` | the room client, the owner's client and the commands: no message falls between two polls, joins and restarts keep one member per room, only friends are spoken to |
| `messaging` | `AnsweredAsAsked` `HonestOutcome` `StoredWithOwner` | two concurrent calls of `AICQCore` with losses, refreshes that succeed or are rejected, 401s, timeouts, late answers and switches |

For every property of a passing run `PROJECT.json` names a mutation of a modelled
definition (written just before it in its module) that makes TLC report that
property: a dropped guard, a missing cap, a flag that is not reset. Where a module has
proofs its type invariant is proved and not run again.

### Bounds and why they are enough

- *Dedup*: `PruneAt` 4, `Keep` 2 for 1000 and 500; five ids, nine deliveries
  between resets. Pruning needs five different ids, and nine deliveries reach it
  twice with ids coming back after they were forgotten. The two sizes do not
  matter to the code beyond their order, and the proofs are for all sizes.
- *PyCoreWS*, *NodeWS*: three sockets at a time (the names of closed ones are used again): the old
  one, the one in use and one a late event may open. Backoff 2 to 5 (or 3)
  doubles once, hits the cap and is reset; real delays have no other effect.
  At most two loose timers and two waiting callbacks in Node (`MaxTimers`), so
  that a third is not armed; `patient` runs never reach it. What a rejected refresh leads
  to (`py_ws`, `py_ws_no_token`) needs one reconnect, hence one socket beside the lost one.
- *GoWS*: two connection names at a time, one user goroutine and one
  ReconnectLoop, the JSON ping loop only, because the loops differ in what they
  send and not in how they end. A second user goroutine was looked at while the
  model was written and is what `NoPanic` is restricted from: two concurrent
  Disconnects do close one channel twice.
- *Streams*: one friend (the state of two friends is disjoint), three streams, so
  that a cancel can arrive during its stream, after it and during the next; three
  frames in transit, three cancels. Each run ends when the streams are used up,
  which is why this configuration does not check for deadlock.
- *AgentLoop*: a set of two for 1000, three ids, six deliveries over all
  connections: enough to fill the set, evict, meet an evicted id again and do so on
  a second connection. Delay 2 to 6 doubles, is capped and reset. `age` stops at
  two intervals, where a ping is due and one more was missed.
- *LoopIdentity*: two generated keys, two of the user, two tasks, four dicts (the
  cache, one for each task, one to spare; `IdentityAssumption` says that this is
  always enough). Keys and tasks are interchangeable, hence the symmetry. The mixture of
  `partial` and `key` is left out of the run: neither is among the sound usages.
- *Auth*: two calls, since what one does to another goes through the tokens and the
  mutex only. `Limit` 1 lets Python's login begin one login of its own before the stack
  ends; deeper nesting repeats the same step.
- *Messaging*: two agents, two groups, two calls, one send and two history requests, one
  received frame: a send and a switch, a request and a late answer to an earlier one, or
  two requests with one id fit in. Further sends repeat the first, since a send keeps no
  state but its own; the theorems are for any number. `MCModes` has each fault by itself.
- *HttpClients*: two rooms or two owners, two calls, two messages said by others (or by
  us): one before and one after a poll, a bind or a join. Three tasks or three messages
  were not needed for any violation that was found without the modes. The owner's client
  with overlapping calls and failures at once is left out of the run: it has 6.2 million
  states, and held when it was checked by itself.
- *Invoke*: three events, a channel of one for 64: an event before the end, the end and
  one after it, and a goroutine that waits for room while another event comes.
- *RoomConsole*: two threads for the executor's dozen or more, two lines, two messages:
  both threads may be abandoned, so that the third input has to queue.
- *PyIdentity*: two own keys, one friend, two calls in progress; keys and calls
  are interchangeable and TLC uses that symmetry. Two keys give two pending and
  two account rows; a third would only repeat the first two.

### Fairness

Nothing is assumed of users, of losses or of new outages. Weak fairness is assumed
of the steps of tasks that are ready (the asyncio and Node event loops run every
ready callback, the Go scheduler every runnable goroutine), of armed timers and
tickers, of the answer to a close frame, and of the end of an outage. Liveness
properties that need the server to stay reachable say so with `<>[]` or `[]`.
In *AgentLoop* the end of the `async for` is strongly fair, because a
lost connection has only finitely many frames left in its buffer, each handled
with a turn in `callback` in between. In *Auth* every request is answered or times out (weak fairness), and who waits
for the Go mutex gets it (strong fairness: `sync.RWMutex` starves nobody). In *Streams* the whole of a task is fair and not its `Finish`: an answer may go on
for ever, so that `StopWorks` is owed to the cancel alone. In *Invoke* the reader
runs on, and a caller who has not left takes what is in Go's channel; the server may
leave the body open for ever. In *RoomConsole* the event loop runs on and a thread that
has the terminal reads a line that was typed; nobody has to type. *LoopIdentity*,
*PyIdentity*, *Messaging* and *HttpClients* have safety properties only.

## 4. Proofs

TLAPS proves, for all values of the constants, every invariant and every action property
that a passing run checks, and the three refinements. Each module has one inductive invariant for
each group of properties; where it is conditional on a mode, the mode is a variable that
no step changes, so that a theorem speaks of the same users and servers as the run.

Connections:

- `PyCoreWSProofs`: `Types` for any user; `OneSocket` and `DisconnectEnds` for a polite
  one, with any number of sockets and of coroutines that disconnect at once, from
  `ConnInvariant`. Neither is inductive, because `connect` and `_reconnect_after`
  overwrite `self.ws` without looking. `DialInv` says why that does no harm: who dials, the
  user's call or the reconnect task, finds no open socket and no receive loop, and there is
  never one of each. `LoopInv` says that the one receive loop belongs to the current
  socket and reads it, `StopInv` what a disconnect that is under way has done.
  `TokensInGreetings` is the other side of the run `py_ws_no_token`: while the server rejects
  no refresh token, every agent that is online gave a token, whatever the user does. Its
  invariant, `TokenInv`, adds that the client still has both tokens.
- `SessionProofs`, Node: `NodeTypesHold`, `NodeGreetsOneSocket`, `NodeDisconnectIsFinal`,
  from `NodeInv`. `NodeOneInv` is about a patient user: a live socket, an armed timer and
  a timer body that waits exclude each other, there is at most one of each, and no timer
  is ever loose. This is why it does no harm that `scheduleReconnect` overwrites
  `reconnectTimer` and that a late close event looks at no socket. `NodeFinalInv` says
  what `disconnect` may leave behind, namely a socket whose close event finds
  `intentionallyClosed`; with a callback it is false (section 6).
- `GoProofs`, connection: `GoTypesHold`, `GoNeverPanics`, `GoServesOneConn`,
  `GoDisconnectIsFinal`, for any number of goroutines and connection names, from `GoInv`.
  A goroutine of `GoWS` reads `m.conn`, `m.stopCh` and `m.doneCh` again after each wait,
  so that each part of `GoCalm` says what it will find. `GoFields`: the channels are those
  of the connection. `GoReaders`: the read loop holds the current ones and `doneCh`, which
  it will close, is open. `GoActors`: one goroutine acts at a time, who dials has no read
  loop beside it, and who is about to close `stopCh` finds it open. `GoPinged`, of any
  user, is for the ping loops: the current `stopCh` is closed only on the way to the close
  frame.

Messages and streams:

- `GoProofs`, deduplication: `TrackerInvariant` for any number of readers;
  `HistoryInvariant` and `ImplementsPromise` under the assumption `SingleReader`. The
  second is the inductive invariant that the refinement needs: the list is the tail of the
  history, which turns "is in the map" into "was handled recently". It rests on
  lemmas about `Pruned` (what suffix it keeps and how long it is).
- `StreamOutputsProofs`, streams: `StreamsAreClosed` and `CancelsStopOne`, for any number
  of friends, streams and frames, from `StreamsInvariant`. `EndIsComing` says that what the
  recipient shows as open is still being streamed or has its end as the last frame on the
  way; that this end is not swallowed by the recipient's dedup set needs `EndsAreNew`.
  `CancelsPaid` counts: aborts, cancels on their way and a flag that is set are together
  no more than the cancels that were asked for.
- `StreamOutputsProofs`, Invoke: `AnswersAreGiven`, for any answer and any cuts, from
  `InvokeInvariant`. At any time there is a `k` such that the first `k` events have been
  cut off the buffer: what is left in the buffer and on the wire is the text from there
  on (`TextAt`), and what was due among the `k` is with the caller or in Go's channel
  (`GivenTo`). Receiving a piece keeps `k`, `NextBlock` goes to the next.
- `StreamOutputsProofs`, terminal: `ConsoleKeepsOrder`, for any number of threads, lines
  and messages, from `ConsoleInvariant`. `MessageInv` accounts for every message that came
  as shown, taken or waiting; `LineInv` says that the line in hand is later than those
  sent; `LostInv` that a message pays for the line it may cost only when the loop wakes
  for it. All rest on `PhaseInv`, which says what is left of the two tasks in each phase
  of the loop.
- `MessagingProofs`: `HistoriesAreAnswers`, `SendsAreHonest` and `OwnersAreKept`, for any
  agents, groups, calls and bounds, from `MessagingInvariant`. None is inductive. For
  histories it is added that an id which the server may still answer is not above
  `lastId`, and that a call waits for the id under which it is registered, for the group
  of that request; ids then never come back when no two requests share a millisecond. For
  sends: the number of a send under way belongs to one call, and its message is open
  and, if failed sends have no effect, has not arrived. For owners: a careful user is
  logged in, or offline with nothing but logins under way. `TokensKept` says what logged in
  means: the access token is that of the active agent, or gone exactly when the refresh
  token was rejected, and the refresh token is never anybody else's. A refresh under way
  was asked with that agent's token, so that its late answer cannot bring another owner,
  and a 401 logs in as that agent. `SocketKept` is the same of the greeting on the socket.

Who one is:

- `PyIdentityProofs`: `RegisteredKeysSurvive`, `ActiveAgentIsStored`,
  `OneCurrentAgent` (at most one current row), `CurrentIsFound` (`OneCurrent`) and
  `CreatedIsReturned`, all with the help of `IdentityInvariant`. None is inductive
  by itself. What is added for the first two: the keys of suspended calls are of the right sort
  (`TaskKeys`), and for each key that is registered or being registered the
  pending row is still there with its secret (`PendingKept`). The argument is
  that a pending id is written once and that nothing else ever writes that id;
  account, prefix and empty ids may be overwritten, and are. For `OneCurrent` of a
  careful user it is added that they are not (`Tidy`): what a suspended call will write is
  not there yet, no two calls will write the same row, and a row holds the key of its id.
- `AgentLoopProofs`, connection: `LoopInvariant`, and from it `ImplementsPromise` and
  `DelaysBackOff`. The promise is not inductive: that an id is absent from the set
  says nothing by itself about when it was handled. `Window` says it: the set is
  the tail of the deliveries on this connection, and what it has forgotten is
  `MaxSize` deliveries old. `AddedIsTail` is the lemma about `_LRUSet.add` that
  keeps it. For the delay, `Reset` says that a task with a socket has the base
  delay. `StepKinds` splits the steps into those that touch set and history and
  the rest.
- `AgentLoopProofs`, identities: `IdentityKeysKept` and `TasksOnlineAsThemselves`, for any
  number of tasks, keys and dicts, in the usages that `Sound` names. The code updates dicts
  in place that other tasks hold, so the invariant `IdInv` is about the dicts and not about
  the tasks: every dict in use holds a key of the user with its account, or the key of the
  file (`IdDicts`), and a task has the key of its dict (`IdTasks`). `IdContext` says under
  which conditions `_loop_ctx` has the socket and the token of the task that speaks through
  it. `IdSpare`, a pigeonhole over `IdentityAssumption`, says that the model never runs out
  of dicts.
- `SessionProofs`, tokens: `AuthInvariant`, `Types` and `ImplementsProtocol`, for any
  number of concurrent calls and any `Limit`. Types alone do not map to the protocol:
  `Shape` adds that a request which was just sent is not marked as rejected, that only posts
  of a login wait in `nest`, and that what is repeated is a request. One lemma for each part
  that the actions share (`Starts`, `Goes`, `Ends`, `Renewed`, `LoginFails`) says what it
  does to the calls, a second that it keeps the invariant, a third which step of the
  protocol it is.

Polling clients, `HttpClientsProofs`, for any rooms, owners, messages and calls:

- `TypesHold`.
- `OneMemberPerRoom` needs that a client which has been made a member holds that key in
  its file or in the one answered join that is under way, and that the memory never holds
  a key that the file of its code does not hold.
- `FriendsAreAsked`, from `AskInv`: server, client and file name the same owner but for the
  moment between the two requests of a bind, and no other call is under way then; whoever
  has passed the check of the friendship is about to speak to that owner.
- `NothingIsSkipped`, from `HistoryInv`. A timestamp travels: from the client or the file
  into a call, from the server into the answer, and back. `Stock` is the set of times that
  may be polled from next, and the parts of the invariant say for each sort of client why
  all of it, or the part that counts, is told. `TimesInv`: no time is ahead of the server's
  clock, so that a message said later is later. `SoleInv`: where one owner was ever heard,
  whatever time is used is told of him, over any overlap, loss and restart. `CalmInv`:
  without failures, and outside of a bind, the times that count are told of the owner who
  is bound; a time that a bind has overtaken does not count. `ShellInv`: a command is alone,
  and in the interactive chat nothing is done but to speak. `MadeInv` and `PollInv` are for
  rooms: keys and rooms that the client knows were made by the server, and the calls that
  poll do so for the current room. The steps that neither say nor give anything are
  covered together by `QuietStep`; one lemma says what it keeps of each part.

Assumptions on the constants are those the modules state, and no theorem has others but
`SingleReader`. Only model-checked: all liveness (`Recovers`, `RecoversFromLoss`,
`PingsEnd`, `StopWorks`, `ReaderEnds`, `ConsoleServes`, `CallsReturn`), which is out of
reach of the prover.

## 5. Disagreements

What the code does and a document, a comment or the reader would not expect. The first two
are runs that end in a violation; the others are behaviours of the passing models.

- *PyCoreWS*: a reconnect that fails is not followed by another (`core.py:903`, whose
  docstring says that it backs off and goes on).
- *PyCoreWS*: a refresh that the server rejects clears both tokens (`core.py:525-526`). The
  reconnect goes on (`core.py:888`, "trying to reconnect with the existing token") and sends
  "online" with the token `None` (`core.py:602-607`), where SPEC.md:204 and 210 ask for a
  fresh token; nothing logs in again. `RecoversFromLoss` names such a connection as its one
  exception. In *Messaging* no frame passes through it, although `send_message` and
  `send_group_message` report theirs as sent.
- *PyIdentity*: `create_my_agent` saves a second row when it learns the account id
  (`core.py:381`, under the comment "update the account_id", 379), and the row with the
  temporary id remains the current one: after `aicq init` and a restart the client goes
  online under the temporary id, where SPEC.md:217 has the account id.
- *Auth*: `_ensure_auth` returns when there is a token (`core.py:201`), so a Python request
  that is rejected is repeated with the same token, without the refresh that SPEC.md:200
  and the docstring of `_http_get` (`core.py:213`) name.
- *QuickChat*: `bind` saves no `private_key`, and `chat`, `send`, `poll`, `send-file` and
  `send-image` refuse without one: after `bind` no command that chats works, although
  README.md:954 and the docstring of `AICQChatClient` (`quickchat.py:75-85`) have them in
  that order. `send` without `--wait` advances the timestamp and prints nothing, so that
  what the owner said in between is never shown.
- *QuickChat*: a message passes when the check of the friendship fails for an unknown
  reason (`quickchat.py:430`), and goes to the owner that the server has bound, who is
  another than the one checked while a `bind` is under way.
- *RoomClient*: the file of a code is named in lower case (`core.py:44-50`) while codes are
  case-sensitive (`core.py:2027`): two codes that differ in case take each other's key.
  A chat that is answered after another room was joined moves `latest_timestamp` for the
  new room.
- *Messaging*: a message that the WebSocket swallows is reported as sent; a row that
  cannot be written makes `send_message` raise for a message that was sent.
- *Invoke*: Python decodes each piece of the body by itself (`invoke.py:224`) and turns a
  character that is cut into replacement characters. Go drops an event that no blank line
  follows and passes events of unknown types on; its `cancel` alone leaves the goroutine
  waiting when the channel is full (`invoke.go:313`).
- *LoopIdentity*: with several tasks the last to go online owns `_loop_ctx`
  (`loop.py:689`), and the callbacks of the others speak through it.
- *RoomConsole*: "type a message and press Enter to send it" (`__init__.py:352`): after
  each message that is received the next line that is typed goes to a thread whose task
  was cancelled (`__init__.py:383-384`) and is lost; after `/quit` the process waits for
  such a thread until Enter is pressed once more.
- The key files, `identity.json` and `quickchat.json` are truncated and written in place;
  a process that ends in between has lost what was there.

## 6. What the models leave out

- *PyCoreWS*: the greeting after the handshake is one step with it, and a
  cancelled reconnect task ends at once instead of at its next await. Message
  handling and its dedup are not part of it.
- *Streams*: `disconnect` clears the Python flags (`core.py:850-851`); the model has
  no disconnect. The server is external and keeps the order of a pair's frames.
- *AgentLoop*: login and handshake fail only while the server is unreachable; a
  message without content is handled like one with a short callback; which
  identity is used is in *LoopIdentity*. Deduplication across reconnects, which
  SPEC.md asks for, is not claimed: the set is local to a connection
  (`loop.py:699`), and an id that is delivered again after one is handled again.
- *LoopIdentity*: an identity whose account id the server refuses, the picture of
  `mySecret`, and sends through `_loop_ctx` from outside of a callback.
- *Dedup* with two read loops delivers an id twice, since `Has` and `Add` are locked
  separately; the promise is checked and proved for one, which is what `OneServedConn`
  gives a calm user. *Streams* exceptions: a Go stream with message ids never ends
  for a Python recipient (`IdsCollide`), and a Node agent, or a Go agent with its own
  callback, polls a flag that no cancel sets (`FlagReachesTask`).
- *Auth*: whose tokens they are (the agent switches of Go, Node and the local server),
  registration, the file uploads, Node's `ensureAuth`, and answers without a token.
  A login fails only through its requests: there is an agent with a key. A rejected
  refresh makes Python forget tokens that a concurrent login has just stored
  (`core.py:525`), and a refresh that ends after `close` brings Node's tokens back
  (`auth.ts:285`); both are behaviours of the model and no property forbids them.
- *NodeWS*, with a callback: a `disconnect` while a timer body awaits it is undone by the
  `connect` that follows (`websocket.ts:331`).
- *AgentLoop*: a connection on which no frame arrives is never pinged, since the interval
  is looked at after a frame only (`loop.py:878`), though README.md:86 promises a ping
  every 30 seconds. `age` shows it.
- *GoWS*: a token is always present, because `auth.Refresh` never clears one.
- *PyIdentity*: one process writes the table, apart from `aicq switch`; a 401 and
  its retry; a registration answered with success and no id behaves as one whose
  lookup fails. `delete_agent` is called by nothing in the package.
- *PyCoreWS*: an agent session comes back as the room member once any room was joined,
  since `_ephemeral` is never reset; no document says what is intended, and no
  property is stated of it.
- *Messaging*: the sends of a room member, the p2p transfer of small files, which needs
  no upload, and the Go and Node clients. Of a 401 and its retry, which are in *Auth*, there
  is whose token the request is repeated with. A reconnect makes one attempt, as the code
  does. The user does not call `connect` while one is under way.
- *RoomClient*: an explicit `private_key`, the members and the expiry of a room; the event
  loops that the blocking calls start. The clients of Go and Node keep no key files.
- *QuickChat*: a process that ends between the save and the print of an interactive chat.
- *Invoke*: Node's `AbortSignal`, and Node's parser releasing the lock of a body that it
  does not cancel; Python has no local timeout, and the model none either.
- *RoomConsole*: Ctrl-C and the end of the input; a message before the callback is
  registered; the terminal of `aicq agent`, which is built in the same way.
- Cryptography, REST wrappers, the other handlers of the local HTTP server and the other
  commands of the CLI hold no state of their own beyond what *PyIdentity*, *Messaging* and
  *RoomConsole* model. `nodejs/lib` is compiled output.

## 7. Plan

1. Messaging of Go and Node, and their switch of the agent (`SetCurrentAgent` of Go
   restores the tokens and not the keys).
2. *AgentLoop* and *LoopIdentity* composed.
3. `GoClient`, composing `GoWS` and `Dedup`, so that one reader is a result and not
   an assumption; an abstract `ConnectionLifecycle` that the three connections
   implement for a patient user.
4. Proofs: every safety property of the runs is a theorem. Left are the statements that
   relate modules: a reader of `Dedup` that is the read loop of `GoWS` (`SingleReader`
   from `GoServesOneConn`), and the lifecycle of item 3 for an arbitrary number of
   sockets; the invariants `NodeInv`, `GoInv` and `ConnInv` are what these will rest on.
