# Orphus: a TLA+ development of its coordination layer

Orphus is a coding agent whose sessions talk to each other. This directory
models the parts of it where several processes meet: the *roundtable* — rooms
kept by a broker process, read in bounded digests; the *intercom*, whose
messages go from session to session through a broker of their own — how that
broker is started, how a send is settled, and how a busy session takes in what
arrives; and the *MCP client*, which keeps server processes for tool calls. It
is TLA+ checked with TLC on small instances and, where it says so, proved with
TLAPS for every value of the constants. Paths are relative to the repository;
"room-store.ts" without a directory is `packages/roundtable/broker/room-store.ts`
and so on.

## 1. Inventory

| Component | State it keeps | Operations | Hard behaviour | Here |
|---|---|---|---|---|
| Room store (`room-store.ts`) | per room: members, ring buffer, next sequence number, cursor per role name, topic | join, leave, evictSession, post, fetch, setCursor | removal and re-creation of rooms, the full buffer, cursors given by clients | `RoomStore`, `RoomLog` |
| Broker (`broker.ts`) | sessions Map, one session id per connection, idle timer | register, six requests, close, bad frame, idle check, signals, shutdown | order of closes, checks, registrations and shutdown | `RoundtableBroker` |
| Broker startup and shutdown (`broker.ts`, `spawn.ts`, `socket-probe.ts`, `main.ts`) | lock file, socket path, pid file: shared between processes | spawn, lock, probe, unlink, bind, remove | several processes, a crash between any two system calls | `BrokerLifecycle` |
| Client (`client.ts`) | socket, session id, registration timer, pending requests | connect, request, dispatch, disconnect | close and timers against answers | `RoundtableClient` |
| Extension instance (`index.ts`) | current client, promise `connecting`, pending activity, its timer, `quiesced` | ensureConnected, flushActivity, quiesce | everything that can happen between two awaits | `RoundtableExtension` |
| Tool (`roundtable-tool.ts`, `digest.ts`) | none of its own | rooms, join, leave, post, digest, peek, export, fetch | one action is several requests; other sessions act in between | `RoundtableTool` |
| Bounded rendering (`bounded-render.ts`) | loop state | boundedRender | boundary of the budget | `BoundedRender` |
| Framing (`framing.ts`) | reader's buffer | writeMessage, reader | chunk boundaries | `Framing`, `OrderedDelivery` |
| MCP bridge, memory, role launcher (`mcp/`, `memory/`, `roles/`) | little or none | adapters, argv building, formatting | — | not modelled |
| Intercom sends (`packages/intercom/broker`: `client.ts`, `pending-send-registry.ts`, `broker.ts`, `send-handler.ts`, `delivered-message-cache.ts`) | a client's pending sends and generations of ids; the broker's sessions and delivery cache | send, supervisor send, register, presence, close | retries and late answers under one message id, other senders, expiry, broker restarts | `IntercomSend` |
| Intercom supervisor channel (`supervisor-channel.ts`) | capabilities, record of crossings | authorize, claim, record, matchReply | reconnects of parent and child | `SupervisorChannel` |
| Intercom broker spawning (`broker/spawn.ts`, the constructor and shutdown of `broker/broker.ts`) | spawn lock, socket and pid file: shared between processes | spawnBrokerIfNeeded, acquire and release of the lock, start, quit | every pair of system calls, kills, what the dead leave behind | `IntercomSpawn` |
| Intercom inbound delivery (`inbound-idle-queue.ts`, `inbound-message-admission.ts`, `foreground-detach-handoff.ts`, `terminal-ordering-barrier.ts`, `stable-delivery-retry.ts`, `index-heavy.ts`) | admissions, idle queue, handshakes, flush timer, a notice's claim, unsettled sends | arrive, offer, commit, flush, terminal notice, claim and rollback, retire | four takers race for an entry; a dispatch fails after others have moved on | `IntercomInbound` |
| Intercom reply tracking (`reply-tracker.ts`) | which ask a reply answers | ask, reply | a late answer | planned |
| MCP client (`packages/mcp`: `server-manager.ts`, `lifecycle.ts`, `proxy-call.ts`, `commands.ts`, `init.ts`) | connections and dials by server name, counts of calls, back-off | connect, close, call, health check, reconnect, logout, shutdown | callers that share a dial, are cancelled, or act on a connection that was replaced; server deaths | `McpServers` |
| Subagent control (`crates/atomic-natives/src/subagent_control`) | registry of child runs | spawn, control, residency | threads | planned |
| Workflows (`packages/workflows`) | durable run state | stages, goals, resume | crash recovery | planned |
| Coding agent core, web access, transcription, fleet, systemone | sessions, settings, external services | — | mostly I/O, or upstream code | not modelled |

How they interact. A tool call asks the extension instance for a client; the
instance makes sure a broker answers (spawning one if not), creates a client
and connects it. The client writes framed JSON requests on the socket; the
broker handles each frame in one turn of its event loop against the room store,
answers, and notifies the other members of the room. Notifications reach the
extension's activity listener, which pings its agent at most once per quiet
period. Read cursors belong to role *names*, so two sessions of one name, and
one session before and after a reconnect, share them.

A send of the intercom is a promise of the sender's client: the client notes an
attempt under the message id, writes a frame, and the broker looks the id up in
its cache, finds and checks the target, writes the message to the target's
socket and confirms. Callers retry with the same id, on the same connection or
a new one. A child session is bound to its parent's session by a capability the
parent had the broker issue; that is the only way across groups. A session that
finds no intercom broker starts one: it probes, takes the spawn lock, spawns and
waits; broker and session are processes of their own and share three files. At
the other end of a send, a session that is busy queues what arrives. A
foreground owner may detach for an entry of the queue, the idle flush takes all
of it, and when a subagent ends, its terminal notice claims what that subagent
had sent before, so that it is read first.

A tool call that needs an MCP server asks the manager for its connection by the
server's name; it dials, joins a dial in progress, or authorizes and dials
again. Calls are counted on whatever connection the name leads to, and a health
visit every thirty seconds closes lazy servers that nobody uses.

What makes each part correct:

- *Room store*: a room is a log that only grows, numbered without a gap; the
  buffer holds its newest end; every cursor stays inside the log and only moves
  forward — also across the removal of a room that nobody used.
- *Broker*: sessions Map, closures, sockets and room members agree; a broker
  that everybody left ends.
- *Lifecycle*: one starter at a time; no starter takes a live broker's socket;
  a socket left behind is reclaimed.
- *Client and instance*: nothing waits for a connection that is gone; at most
  one client is in the rooms; a quiesced instance is mute and leaves.
- *Tool*: nothing counts as read that no digest received; an export accounts
  for every message.
- *Rendering*: within budget whatever the input; budget goes by priority.
- *Framing*: messages arrive whole, once and in order.
- *Intercom sends*: an attempt is settled by its own answer; "delivered" means
  that this message was written to a target, once while the broker remembers
  its id; every send is answered or ends with its connection.
- *Supervisor channel*: a message leaves its group only to the sender's
  supervisor or back to the child it answers; a slot serves one child.
- *Spawning*: a lock on the disk is that of somebody who will release it, or can
  be told to be stale; it excludes while nobody removes a living owner's lock;
  nothing the dead leave keeps a session from starting a broker.
- *Inbound delivery*: what was admitted is surfaced, once and in order, whoever
  takes it and whatever fails; an entry that a failed notice put back may have to
  wait for a later turn.
- *MCP client*: every server process that runs is in reach of somebody who will
  close it; counts follow the calls; every call ends; idle lazy servers close.

`PROJECT.json` lists under "hazards" what in this code is hard to test, each at
its line, and the properties that watch it.

## 2. Modules

```
RoomLog  <--implements--  RoomStore  <--EXTENDS--  RoundtableBroker
                              ^
                              +------- EXTENDS --  RoundtableTool
BrokerLifecycle
RoundtableClient  <--EXTENDS--  RoundtableExtension
OrderedDelivery  <--implements--  Framing
BoundedRender
BoundedMap  <--EXTENDS--  SupervisorChannel  <--EXTENDS--  IntercomSend
IntercomSpawn
IntercomInbound
McpServers
```

Every component `M` that is checked by itself has `.cfg` files and, where the
instance needs more than constants, a module `MCM`; `RoomStore` is checked
inside `RoundtableBroker` and the tool, `RoundtableClient` inside
`RoundtableExtension`. Proofs are in modules of their own (section 4).
Definitions called "a variant" in a comment are deliberately wrong
versions of the definition that follows them: substituted for it, they make a
property fail, which shows that the property depends on that code. Type
invariants are theorems where a module has proofs, so no run spends time on them.

**RoomStore** (room-store.ts). The Map of rooms is the set `live` with one
function per field of `RoomState`; a room outside `live` has the field values a
new one gets. `Join`, `Leave`, `EvictSession`, `Post`, `SetCursor` are the
methods; a method that throws is an action that is not enabled. `Fetched` is
`fetch`. **RoomLog** is what a reader is promised, with no buffer, no membership
and no removal.

**RoundtableBroker** (broker.ts). A step is one event of the broker's loop: a
new connection, one decoded request, a malformed frame, a "close", a signal,
the idle timer. `shutdown()` destroys sockets, whose close handlers are separate
later steps (`DestroyedClose`), as in Node. `sid[c]` is the `sessionId` that
`handleConnection` closes over. Time is `Tick`; `Off` stands for
`shutdownTimer === null`.

**BrokerLifecycle**. A step is one system call of one process; the socket path
is a shared variable that names the process that bound it. `server.close()` is
two steps because libuv unlinks a pipe's path before it closes the descriptor
(`CloseServer`, `CloseSocket`); `shutdown()`'s own `unlinkSync` is a third.
`Listen` has both outcomes of `listen()`; that EADDRINUSE never happens among
brokers that keep the lock is a property. `Crash` may hit any step in
`CrashPoints`.

**RoundtableTool**. `digest` is three requests — cursor probe, fetch,
set_cursor — and each is handled by the broker in a step of its own, any time
after it was written; `Fail` is a timeout or a closed connection, after which a
written set_cursor may still be handled (`"late"`). `fetched` and `own` are
history variables for the properties.

**RoundtableClient / RoundtableExtension**. A client's `dial` is where its
`connect()` stands; `Refused` is a rejection of the promise `registered`, which
`connect()` notices only when it awaits it. `flight[k]` is the body of
`ensureConnected` that creates client `k`. Answers, silence, hang-ups and
malformed frames of the broker are environment steps.

**BoundedRender**. One step is one turn of the loop. An item is the lengths the
formatters return for it, which are arbitrary.

**Framing**. Bytes are counted: `Start[i]` is where the i-th frame begins and
`Start[N + 1]` where the last one ends, a table the run gives and the proofs
leave open. A length read anywhere but at the start of a frame is any number, so
that a reader that cuts wrongly goes astray. **OrderedDelivery** is the promise.

**BoundedMap** is the insertion-ordered map both caches of the intercom broker
are written as: a sequence of entries in which every key has one place, found by
CHOOSE and without recursion, so that it can be proved about; **SupervisorChannel** has the two maps of
supervisor-channel.ts. **IntercomSend** is clients and broker together. A
connection names its client object, its session and the broker's handler; a
session that comes back has a new one. `Send` and `SendAgain` are `sendFrame`
with its two outcomes of `acquire`; `ReadAnswer`, `Timeout` and `ClientClose`
settle. `handleBrokerSend` is one step with the three outcomes
`AnswerFromCache`, `RejectSend` and `ForwardSend`: its checks are
`SupervisorAllowed`, `Resolved` and `Reachable`. Connecting and registering is
one step, since a client that is not registered can send nothing. `legacy` is
a broker too old to echo attempt ids, which the client still supports.
`ForgetGeneration` assumes that nothing stays on the wire for ten minutes. The
history variables `verdict`, `asked`, `forwarded`, `copies` and `accepted` are
read by properties only.

**IntercomSpawn** (spawn.ts and the intercom's broker.ts). A step is one system
call: the probe, the read of the pid file, the exclusive create of the lock, the
write into it, the read and unlink of somebody else's. `at[p]` is the next call
of session `p`, `own[p]` whether it is inside the try block whose finally
releases. Brokers unlink the path, bind, write the pid file and exit in steps of
their own; `Dies` and a broker's death may come at any of them. `robbed` is a history variable: a session
removed the lock of another that was alive, which the code allows (a lock whose
owner has created but not yet written it has no owner to look up).

**IntercomInbound** (index-heavy.ts and the modules beside it). A step is the
code from one await to the next. `entry[m]` is the admission, `hand[m]` the
foreground handshake with its bus round trip, `queue` and `timer` the idle queue
and its flush, `notice[n]` a terminal notice with the claim it holds, from
`claimOrdinarySourceTargets` to the commit or `rollbackFrom`. A send hands messages to the
agent session and settles later; it is retried until it succeeds or its
generation retires. `Filter` is `Array.filter` on sequences, written by the rank of
each kept place, since nothing can be proved about the recursive `SelectSeq`.
`revived` is a history variable for what a rollback put back
after another taker had it, and `notice[n].back` holds what a failed notice put
back of its own claim. `MaxFails = 1` is the code: a subagent's end is announced
once (background-single.ts:153), and after a failed dispatch notify.ts:276
acknowledges `false` and nobody tries again. More are an
over-approximation: the barrier would serve another dispatch, so the theorems
allow any number. `LeftBehind` is what follows: rolled back while the agent is
idle and no timer is armed, an entry stays in the queue until a later turn ends
or a later handshake for another one arms the timer.

**McpServers** (server-manager.ts, lifecycle.ts, proxy-call.ts, caller-wait.ts,
commands.ts, init.ts). `conn` and `dial` are the manager's two maps, by server
name; `obj[o]` is a connection object with its status, its count and whether its
server process runs. Calls, commands and health visits hold a *name* over their
awaits, never the connection, and the model keeps that: after an await they read
the map again, as the code does. A caller that is cancelled stops waiting while
the dial goes on for the others. A server may die at any time and nothing tells
the manager.

## 3. Runs

| Run | Question | Instance |
|---|---|---|
| `broker` | Map, sockets and members agree; buffers, cursors and counters through everything connections do; `RoomLog` implemented; `IdleExit` | 3 connections, 4 ids, 2 roles, 1 room, capacity 2, 3 messages, grace 1 |
| `lifecycle` | exclusive startup, no stolen socket, `listen()` finds the path free, a spawn ends with a broker | 3 processes, killed at any system call, chmod may fail |
| `tool` | cursors against digests, exports | 2 sessions of 2 roles, 2 calls, capacity 3, page 2, 4 messages |
| `extension` | orphans, mute after quiesce, waiting requests; activity reported, a quiesced instance leaves, a connect ends | 3 clients, 2 requests, 2 rooms |
| `bounded_render` | budget and priority | 3 items, lengths around the boundary of the code's own 200 |
| `framing` | whole, once, in order, nothing stuck | 4 frames, all chunkings |
| `intercom_send` | own answers, confirmed means written, once while remembered, across groups only between child and supervisor, one child per slot, every send settles | a parent, a child and a peer, one dynamic capability, 3 messages under 2 ids, 2 attempts in all, maps of one entry |
| `intercom_spawn` | a written lock has an owner; it excludes unless robbed; a lone session gets it | 2 sessions, 2 brokers, 3 starts, 2 tries, killed at any system call |
| `intercom_inbound` | nothing lost, nothing twice unless revived, order kept, a claim excludes, what is queued is surfaced unless a failed notice put it back | 2 subagents with a message and a notice each, 2 turns, each notice dispatched once, 2 generations |
| `mcp_servers` | no server orphaned, no phantom count, idle servers close, calls settle | 1 server, lazy or keep-alive, 2 calls, 3 connections, 1 command |

`broker` checks the properties of `RoomStore` in the module that composes it,
so that rooms see every order of requests, closes and shutdowns, and not only
every order of method calls.

Why these bounds are enough to be interesting: a capacity of 2 with 3 messages
(3 with 4 for the tool) makes the buffer rotate while cursors lie before, in and
behind it; `SeqArgs` runs from -1 to past the newest message; three connections
let one come, go and come back while another is there; three processes are what
a double broker takes (one shutting down, one that replaced it, one spawned
later); three clients are a lost one, a failed connect and a good one; a page of
2 under a retention of 3 is 200 under 500. `MaxSeq`, the number of connections,
ids, clients, calls and frames, and `Grace` are the bounds on what would be
unbounded; each is a constant. Two attempts are a send and its
retry, a question and its answer, or two senders with one id; the number of
connections bounds how often brokers are replaced; a map of one entry evicts at
the second id, and expiry may forget it before. A grace of one tick still
separates "armed", "due" and "off", and a due check may wait for any number of
steps. Two sessions and two brokers are enough for a session to rob another of
its lock and for a second broker to unlink the first one's socket; the third
start is a session that comes back to what they left. Two subagents, each with a
message and a notice, are a claim, a rollback and an unrelated entry between
them; what the first turn queues and a failed notice leaves behind, the second
brings out. Servers share nothing but the shutdown, so one server stands for each; two
calls share a dial and a count, and three connection objects are one in the map,
one being closed and one being dialled. Session ids are taken in
one order (`IdsInOrder`), since nothing but the order of their creation tells
them apart; symmetry sets are used in the tool's safety runs only. `CHECK_DEADLOCK
FALSE` stands in every run in which the system may stop: a broker exits, an
instance is quiesced and its clients are used up, a loop ends.

Two runs are expected to fail: each checks a sentence of the documentation
against what the code does.

| Run | What the code does | Line |
|---|---|---|
| `intercom_inbound_twice` | a rollback rebuilds the queue from before the claim, so an entry of another child that was surfaced meanwhile is surfaced again | inbound-idle-queue.ts:72 |
| `mcp_keep_alive` | a keep-alive server that dies stays "connected" and is never dialled again | packages/mcp/lifecycle.ts:59 |

Further disagreements between words and code that the models show, but on which
no run is spent:

- docs/architecture.md:47 says that the roundtable broker exits "five seconds
  after the last session disconnects"; the check that an earlier close armed is
  not cancelled by a new session, so it may exit right after the last one left
  (broker.ts:258, `CheckIdle`).
- broker.ts:116 says "One per machine (per agent dir)" and 147-149 tells of the
  split fleet that the startup avoids; a broker that shuts down unlinks a path
  its successor has bound, and the next spawn makes a second one
  (broker.ts:242, `BrokerLifecycle`).
- docs/roundtable-tool.md:79 says that a digest advances the cursor "to the
  newest message included" and digest.ts:22 that budget is spent "on the NEWEST
  messages first"; with more than 200 unread, fetch returns the oldest 200, and
  the newest are not among them (room-store.ts:133, `Fetched`).
- index.ts:61 says that "the digest tier recovers anything a lost ping would
  have said"; a digest whose set_cursor was handled and whose answer was lost
  has consumed its messages without showing them (roundtable-tool.ts:258,
  `Mark` then `Fail`).
- client.ts:54-55 says why the registration timer destroys the socket; while
  the socket is still dialing, nobody listens for the "close" that follows, and
  connect() never settles (client.ts:92; `ConnectEndsOnceDialed` says what is
  left of the claim).
- packages/intercom/README.md:453 says that the spawn lock "prevents duplicate
  brokers when multiple sessions start at once"; a lock that its creator has not
  written yet counts as stale and is removed (spawn.ts:338, `robbed`), and an
  intercom broker unlinks the socket path when it starts and when it stops,
  whoever bound it (broker/broker.ts:64 and 302). Two brokers at once, one of
  them unreachable, are states of `IntercomSpawn`.
- packages/mcp/CHANGELOG.md:723 says "Active tool calls prevent idle timeout from
  shutting down a server mid-request"; calls are counted by name, so a call
  that outlives its connection lowers the count of the next one, and that may
  be closed under a call of its own (server-manager.ts:330). What does hold is
  `NoPhantomCalls`: a count is never too high.
- A dial that is in progress when an MCP session ends enters the map afterwards
  (server-manager.ts:63), and nobody closes it any more.
- Of the intercom's idle queue: a message that arrives idle overtakes those that
  still wait in the queue; a terminal notice overtakes a flush that is being
  retried; two notices whose dispatches fail at once may put their entries back
  in the wrong order (`QueueInOrder` asks for one), and a rollback after the
  session was replaced puts old entries into the new session's queue.
- packages/intercom/README.md:123 says "busy interactive recipients receive the
  message once they go idle", and 129 that "Failed dispatches remain retryable".
  While a notice has claimed an entry, the flush may fire on an empty queue, or
  another notice that ends may clear its timer; when the dispatch then fails, the
  rollback queues the entry without arming one (inbound-idle-queue.ts:67), and
  nobody dispatches the notice again: packages/subagents/CHANGELOG.md:162 counts
  on a "durable result watcher", of which packages/subagents/README.md:999 says
  that there is none. The recipient is idle and the message stays queued until
  a later turn; without its disjunct `LeftBehind`, `QueuedSurfaces` is violated.
- intercom confirms a send when it has written it to the target's socket
  (broker/send-handler.ts:146): a target that is gone by then loses it, and a
  retry of the id is confirmed from the cache (`AckMeansForwarded` says written).
- docs/roundtable-tool.md:143 says of a join's topic "Only used when creating";
  a room created without one takes it from a later join (room-store.ts:71,
  `TopicAfterJoin`).
- docs/roundtable-tool.md:68 says that posting marks "the message" read for its
  author; it marks everything before it too (room-store.ts:125, `Post`).
- broker.ts:116 says "exits when idle"; the check is armed only by the close of
  a registered session, so a broker that nobody registered with stays
  (broker.ts:292; `IdleExit` asks for a registration).
- broker.ts:229-232 cancels the idle check in `shutdown()` so that it does not
  fire into a closed broker; the close handlers of the sockets it then destroys
  arm a new one (`Signal`, then `DestroyedClose`).
- A connection accepted before `shutdown()` that registers after it is served
  (`Register` asks for no phase), by a broker whose path somebody else may own.
- docs/troubleshooting.md:97-99 says that a stale startup lock is reported with
  its owner; a process killed between creating the lock and writing into it
  leaves one that names nobody (`lockWritten`, `StaleLock`).
- docs/troubleshooting.md:105 says "a live broker re-creates" a removed socket;
  no action of a serving broker binds the path again.

### Fairness

- *Broker* (`MCFairness`): time passes, an expired timer's callback runs, a
  "close" follows `destroy()`, an event loop without work ends. These are
  Node's promises. Clients owe nothing: they may stay connected for ever, and
  `IdleExit` asks only about a broker that everybody left.
- *Lifecycle* (`LifeFairness`): a process that runs takes its next step.
  Nobody must spawn, shut down or die.
- *Extension* (`ExtFairness`): timers fire; an await that can resume does; the
  broker is found or not; opening a socket succeeds or fails; "close" follows
  `destroy()`. The broker need not answer, so requests and registration rely on
  their timers. Weak fairness is enough everywhere: each of these stays enabled
  until it is taken or something else settles the matter.
- *Intercom* (`SendFairness`): the broker handles what it can read, a client
  reads what it is sent, and a socket closed at the other end is closed. No
  timer is fair: `SendsSettle` shows that the ten-second timer is not needed
  while the broker echoes attempt ids.
- *Spawning* (`SpawnFairness`): a process that lives takes its next system call,
  and its waits are timed, so they end. Nobody must look for a broker, quit or
  be killed.
- *Inbound* (`InboundFairness`): the flush timer fires; a run of the agent ends;
  the owner's answer or the handshake's own timer comes; a send that is retried
  every 100 ms succeeds in the end; a dispatch of a notice that is in flight
  ends, well or badly. Nobody must send, start a turn, replace the session, or
  dispatch a notice, the first time or again.
- *MCP* (`McpFairness`): the timers of the health check and of idleness fire;
  a dial, a close, an authorization and a request end, well or badly (the
  transport's and the caller's timeouts see to that); what an await resolved
  resumes. Servers need not live, and nobody must cancel, command or shut down.

## 4. Proofs

For every value of the constants that satisfies the assumptions in the modules
(a capacity of at least one, names that are not elements of the sets they stand
outside of, lengths that are natural numbers):

- **RoomStoreProofs**: `StoreTypeCorrect`, `BufferIsNewest`, `CursorInsideLog`,
  `CountersOnlyGrow`, `StoreRefinesLog`. The inductive invariant `StoreInv` joins
  the type, the shape of the buffer and the bound on the cursors. The buffer's
  shape is what makes it inductive: it says that an empty buffer belongs to a
  room without a message, so that what `leave` resets is already initial.
- **RoundtableBrokerProofs**: `BrokerRefinesStore` (each action is an operation
  of the store or leaves it alone), from which the store's theorems carry over
  to the broker: `BrokerTypeCorrect`, `BrokerKeepsNewest`, `BrokerKeepsCursors`,
  `BrokerRefinesLog`. `SessionsAgree` and `NoGhostMembers` have an invariant of
  their own, which adds that every id in the Map or a closure has been used and
  that no two connections have the same id: that makes the close handler of one
  connection harmless to the others.
- **BrokerSocketProofs**, the broker's two ends of its socket. The lifecycle:
  `LifeTypeCorrect`, `StartupIsExclusive`, `ListenSucceeds`,
  `StartersLeaveLiveSockets`. A process in the startup section is the creator of
  the lock file; what it found at the path stays so until it acts on it, because
  only `listen()` puts a socket there and that takes the lock. The framing:
  `ReaderLeavesNothingStuck` and `FramingRefinesDelivery`, for any number of
  frames of any lengths and any chunks. `FramingInv` says that the reader's next
  byte is the start of the frame after the last one delivered (`AtFrameStart`)
  and that no more arrives than was written; from that, what the reader takes
  for a length is one, and each step is a step of `OrderedDelivery` or stutters.
- **RoundtableExtensionProofs**: `ExtTypeCorrect`, `NothingIsLeftWaiting`,
  `SpeaksWithOneVoice`, `QuiescedForGood`. `ExtInv` adds to the three properties
  how a client's fields go together (`ClientShape`: a registered client with an
  open socket is one that calls itself connected) and that at most one body of
  `ensureConnected` is under way, before which no client of the instance was
  left in the rooms (`FlightShape`). `NobodyHears` is the step that needs both:
  the guard of `ensureConnected` looks only at the current client, and `OneVoice`
  says that there is no other.
- **RoundtableToolProofs**: `ToolTypeCorrect`, `ReadWasFetched`,
  `ExportsAccountForAll`. `FetchedIsRun` says that a fetch is an unbroken run
  from the first retained message after the one asked for; so below the end of a
  digest's page every message is in the page, rotated out, or at most the cursor
  the digest started from. `ToolInv` carries that over the steps of others: what
  is accounted for stays so (`AccountedStays`), because counters, cursors and
  records only grow, and `CallOK` says of each call what its next request
  relies on. The renderer that results go through has its theorems here
  too: `RenderTypeCorrect`, `OutputIsBounded`, `TiersFollowPriority`. Its
  invariant relates `spent` to the length of the lines pushed: each costs its
  length and one newline.
- **IntercomSendProofs**: `SendTypesCorrect`, `AnswersSettleTheirOwn`,
  `DeliveredIsTrue`, `RememberedMeansOnce`, `CrossingIsVertical`,
  `SlotHasOneChild`, for any number of connections, attempts and messages, any
  size of the maps, and any cut, timeout or restart. The lemmas about
  **BoundedMap** say that `Put`, `Without` and eviction keep every key once and
  leave the other entries alone. `SendInv` has a part for each place that could
  mislead a client: a confirmation on the wire is the broker's verdict on its
  own frame (`AnswersTrue`), which needs the cache to remember only what was
  forwarded (`CacheTrue`) and calls that share an attempt to be for one message
  (`AskedAlike`). An answer without an attempt id is matched by message id;
  that it meets its own attempt needs `WireInOrder` (a frame is on the wire
  once, and its answer only after it) and `RegistrySound` (an id that the
  registry does not know is not on the wire, so the first attempt under an id is
  alone there). Across groups, `CrossingsForwarded` says that a recorded
  crossing was a question that did reach the supervisor, and `SlotsHold` ties the
  slots bound in the broker to the children it accepted.
- **IntercomSessionProofs**, what a session does outside a broker. Spawning:
  `SpawnTypeCorrect`, `LocksHaveOwners`, `SpawnLockExcludes`; the invariant says
  where in the code an owner can be, that a lock about to be written is still
  empty, and that without a robbery the lock on the disk is its owner's. Inbound
  delivery: `InboundTypesCorrect`, `NoneIsLost`, `SurfacesOnce`,
  `ClaimsAreExclusive`, `QueueStaysInOrder`, for any number of messages, notices,
  turns, failures and generations. `StepsMove` first says what each step does to
  the *places* of a message, sequences taken as sets; `InboundInv` then says that
  a message is in one place at a time until a rollback revives it (`OnePlace`),
  that one which is not admitted is nowhere or in the send of its arrival
  (`AdmittedFirst`), that a claim is what the queue held of the notice's child
  (`ClaimsHold`), and that no message is younger than the generation of its send
  (`GenerationsPass`): a send that retires is of an older generation, and
  so is all it drops. `OrderHolds` is what makes `QueueInOrder` inductive: not
  only the queue is in order, but also what a rollback of a notice that fails
  alone would put in front of it, and all that has come since came later.
- **McpServersProofs**: `McpTypeCorrect`, `NoServerLost`, `CountsEnd`. `McpInv`
  says of the two maps what state the objects in them are in (`MapHolds`,
  `DialHolds`), that a process that runs belongs to a server (`UpHasServer`) and
  that a call is counted while it runs, on a connection of its own server
  (`CountedOwn`). `NoPhantomCalls` then follows a count through closes and
  reconnects under the same name.

What the theorems assume beyond types is stated where the constants are
declared. `NamesAssumption` asks that no session goes by the id of another
(ids are fresh UUIDs, names come from users): a session that took the id of a
departed supervisor for its name would be sent the child's next question, and
`GroupsCrossedVertically` would fail. `CapsAssumption` and `SendsAssumption` give
the environment's inputs their types. `FramesAssumption` says that frames follow
one another, each with its header. `InboundAssumption` asks for finitely many
messages and notices, from which the number of an admission is greater than all
the earlier ones; a session receives finitely many.

Every invariant and every action property of the runs, and both refinements, are
theorems. Checked by TLC only is liveness (`IdleExit`,
`SpawnEndsWithBroker`, `ActivityIsReported`, `QuiescedLeaves`,
`ConnectEndsOnceDialed`, `SendsSettle`, `LoneSessionGetsLock`, `QueuedSurfaces`,
`IdleServersClose`, `CallsSettle`), which is out of TLAPS's reach. The two
runs that are expected to fail refute a claim and have nothing to prove.

## 5. What is not modelled

Of the roundtable: message texts, reply links and timestamps; the wording of
tool results; the path and role checks of export; finding the command that runs a
broker; Windows (named pipes leave no file, so its lifecycle is simpler); a probe
that times out against a slow but living broker; a signal before the listening
callback; memory, roles and the MCP bridge.

Of the intercom: session lists and group broadcasts (they change no state), id
prefixes as targets, the stages of its connect() and its idle timer; replies to
a waiting ask and the reply tracker; delivery to workflow stages and to sessions
without a UI; a pid that was given to another process. A message that was
admitted is remembered for ever, where the cache forgets it after its time to
live (inbound-message-admission.ts:25), and a claim goes by the sender's session,
without the rule for older senders that are known by an ambiguous name
(inbound-idle-queue.ts:44-59).

Of the MCP client: what `executeCall` does before proxy-call.ts:187; direct
tools and resources (the same manager through `lazyConnect`), eager servers (lazy ones that start at once and never idle), the
OAuth flow behind an authorization, the metadata cache, UI sessions.

The packages listed as planned or not modelled above. Over a third of the
repository's lines are the workflow package's `skills` directory, bundled browser
and hook scripts that the engine does not run; much of the coding agent's core is
its terminal interface and adapters to model providers, whose behaviour lies in
layout and I/O. Neither is a subject for a state machine.

## 6. Plan

1. *Workflows*, the durable part: stages, goals, resume after a crash.
2. *Intercom*, the rest: reply tracking and waiters; the parent's restoring of
   capabilities; an abstract "at most once per id while remembered" that
   `IntercomSend` implements.
3. *Roundtable*: the MCP bridge as an instance of the extension's module; the
   whole fleet — several instances against one `RoundtableBroker` — for "a post
   is noticed by every other member that stays connected".
4. *Subagent control* (native registry and residency).
5. *Proofs*: that `IntercomSend` implements an abstract send, an answer at most
   once and true; for what is added above, the invariant with the model.
