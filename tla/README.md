# A verification project for tmux-control-mode-js

TLA+ models of the parts of this library where the order of events decides
whether it is right, the TLC configurations that check them, and TLAPS proofs
about the client core, the two ledgers, both ends of the WebSocket bridge, the layout
relay, the pane streams and the Electron bridge. Paths are those of
the repository; `PROJECT.json` maps each definition to the lines it models.

    tlc -config client.cfg MCTmuxClient       # a run: module and .cfg, see "Runs"
    tlapm TmuxClientProofs.tla                # proofs; the other modules are listed in section 5

## 1. The system

The library speaks tmux's control mode (`tmux -C`) over a transport: a child
process, a WebSocket, an Electron channel. tmux reads command lines and answers
each with a guard block (`%begin` ... `%end` or `%error`); between blocks it
writes notifications and pane output. Everything runs on one JavaScript thread:
what interleaves is macrotasks (data, close events, timers, calls of the
application), the continuations of `await` that run between them, and calls
that event handlers make from inside the library.

| Component | State | Operations | Talks to |
|---|---|---|---|
| Parser (`protocol/parser.ts`) | partial line, open block | `feed` | calls TmuxClient per message |
| TmuxClient (`client.ts`) | command FIFO, inflight call, connection state, greeting and exit flags | `execute`, `close`, `detach`, transport handlers | transport, router, emitter |
| Transports (`transport/`) | phase of a child or socket, close gate | `send`, `close`, close event | TmuxClient |
| Topology router (`topology-router.ts`, `pane-output.ts`) | pane table, epochs, sinks, held output, queries in flight | `attachBytesSink`, `dispatchBytes`, `handleNotification`, `bootstrap`, `refreshWindow`, transport ready, lost, closed | runs `list-panes` through TmuxClient, writes to sinks |
| Idle suppression (`idle-pane-suppressor.ts`) | interest per pane, paused panes | `recompute`, `dispose` | pauses and continues panes through TmuxClient |
| Subscription ledger (`connectors/subscription-ledger.ts`) | record per name, names per peer | `subscribe`, `unsubscribe`, `releasePeer`, `dispose` | awaits TmuxClient |
| Backpressure ledger (`connectors/backpressure-ledger.ts`) | bytes outstanding per peer and pane, paused panes | `account`, `ack`, `clearPeer`, `releasePeer`, `dispose` | pauses and continues panes through TmuxClient |
| Bridge (`connectors/bridge-*.ts`, `rpc*.ts`) | peers | dispatch of requests, fan-out of output and events | the two ledgers, TmuxClient |
| WebSocket server (`connectors/websocket/server.ts` and helpers) | per connection: phase, inflight calls, timers, buffers | handshake, calls, heartbeat, drain, finalize | bridge |
| WebSocket client (`connectors/websocket/client.ts`, `outbox.ts`, `reconnect-controller.ts`) | outbox, attempt counter, coverage to replay | connect, call, reconnect, close | server, its own router |
| Electron bridge (`connectors/electron/`) | senders, their abort flags, acknowledgement batches | invoke, ack, teardown | bridge |
| Cross-session layout (`cross-session-layout*.ts`, `connectors/cross-session-layout-ledger.ts`) | reference counts across awaits | enable, disable, relay | TmuxClient subscriptions |
| Pane terminal (`packages/pane-terminal/`) | seed cycle, reseed sweep, first-resize gate | seed, live output, reconnect | TmuxClient, a terminal |
| Line sinks (`line-sink.ts`) | per pane: decoder, partial line, last chunk, consumers | `attachLineSink`, `write`, `end` | byte sinks of the router |
| Keymap (`keymap/`) | prefix state | key events | commands |
| Commands, sinks, encoders, test harness | little or none | pure or sequential | |

What makes each correct, and what is hard about it:

- **TmuxClient** correlates replies by position alone: tmux's blocks carry no
  identity the client knows in advance. One call too many or too few in the
  FIFO and every later promise gets somebody else's reply. Refused sends, a
  greeting block that answers nothing, corrupted terminators, a close in the
  middle, and handlers that call back in from `ready` and `exit` all touch it.
- **Subscription ledger**: several peers share one binding in tmux. Each
  request runs up to an `await`, and peers join, drop and disappear while
  others wait; two indexes must agree and tmux must hold exactly what is owned.
- **Backpressure ledger**: the sum over peers decides whether a pane is paused.
  Pauses and Continues cross output on its way; either may be refused; peers
  depart holding bytes. A pane left paused is a terminal that looks dead.
- **Topology router**: output is routed by a table that queries re-read while
  panes move. Answers may be older than notices already handled, output can
  arrive before the query that places its pane, and what is held must be
  replayed once and in order.
- **WebSocket server**: a connection can end during any await of its handshake
  or of a call, from six directions; what was acquired must be unwound once and
  the peer told of the first error. Timeouts race answers and ids are reused.
- **WebSocket client**: a call may wait in the outbox across a reconnect, time
  out there, or be in flight when the connection drops; the new peer knows
  nothing of the coverage the old one had granted.
- **Electron**: two processes with queues of messages between them. A window can
  die with a call in flight, with acknowledgements unsent, or unnoticed; the pause
  loop, idle suppression and the layout relay share the connection to tmux.
- **Cross-session layout**: processes share one hook in tmux, a bounded buffer
  and an epoch; each counts references across awaits that may be refused.
- **Line sinks**: consumers of a pane share one decoder and know the chunk it read
  last by object identity, while the router may replay a copy to some of them.
- **Pane terminal**: a snapshot and a stream that overlap, taken again after
  every outage, and a terminal that cannot show either before it has a size.

`PROJECT.json` lists all components with their status, and 40 hazards with the
line where each bites and the properties that watch it.

## 2. Plan

| # | Module | Status |
|---|---|---|
| 1 | `TmuxControlStream`, `TmuxClient`, `CommandPromises` (abstract), `TmuxClientProofs` | done |
| 2 | `SubscriptionLedger`, `SubscriptionLedgerProofs` | done |
| 3 | `BackpressureLedger`, `BackpressureLedgerProofs` | done |
| 4 | `TopologyRouter` | modelled and checked |
| 5 | `WsServer`, `WebSocketProofs` | done |
| 6 | `WsClient`, `WebSocketProofs` | done |
| 7 | `PaneStream` (streams, sweep, gate), `PaneStreamProofs` | done |
| 8 | `CrossSessionLayout` (the relay), `CrossSessionLayoutProofs` | done |
| 9 | `ElectronBridge` (with the pause loop, idle suppression and the bridge's layout ledger), `ElectronBridgeProofs`, `ElectronBridgeRestProofs` | done |
| 10 | `LineSinks` (over the router) | modelled and checked |
| 11 | sinks that attach and detach from within `write`; parser line reassembly | next |

Compositions: `TmuxClient` EXTENDS `TmuxControlStream` and instantiates
`CommandPromises`. The ledgers and the router use a client that keeps
`CommandPromises`: commands are executed in order, each settles once, the end
of the connection rejects the rest. `PaneStream` composes any number of streams
with the sweep that seeds them again, their sinks' gates and the pipe they
share; `CrossSessionLayout` any number of relays over one tmux; `WsClient` the
client with the peer that dies with its connection. `LineSinks`
EXTENDS `TopologyRouter`: each action is the router's with what it does to the lines.
`ElectronBridge` instantiates
`BackpressureLedger` and runs it between real pages, with the two other components
that drive the same `TmuxClient`.

Theorems that are left: `LinesAsWritten` of the line sinks, which needs an invariant over
the router's held output. `NothingVanishes` is not among them: section 4 shows that it does not
hold for all constants.

## 3. The modules and the code

### TmuxControlStream
tmux as one client sees it. A line is a record: its kind as the parser can tell
it, and, for the properties only, the command whose block it belongs to and
the size of that block. tmux answers in order, one block per command after the
greeting, a *command list* with one per command (`Lists`); it writes
notifications between blocks, corrupts terminators (`Mangling`, which is what
`chaos/corrupt.ts` does to a stream), exits or dies. Line reassembly in
`feed()` is not modelled.

### TmuxClient
One action per call into the client. `Execute` is `execute()` with its guards
in order: closed, invalid line, push, send, and the rollback `dropPending` when
`send` throws. `Close`, `Detach`, `TransportClose` are the three ways to an end
and all run `OnClose`, the constructor's handler. `Receive*` are `processLine`
together with the case of `handleMessage` its message reaches, because the
parser calls it in the same turn.

*Re-entrancy.* Two emissions have client code left to run after them: `ready`
(the router gets its runner afterwards) and the synthetic `exit` (the state
becomes `closed` afterwards). `frames` is the stack of these unfinished calls;
while one is open, `Execute`, `Close` and `Detach` may happen, and nothing
arrives. `FinishReady` and `FinishClose` run what is left.

*Transports.* `link` ranges over opening, open, broken, closing, closed.
`CloseStyles` says whether the close event takes a turn ("async": child
process, socket) or comes inside `close()` ("sync": the mock server).

### CommandPromises
What callers may rely on: calls settle in the order they were accepted, each
once; refused calls never join; the end rejects the rest. `KeepsPromises`
refines it with `queue` as the inflight call followed by the FIFO and `over` as
the closed transport.

### SubscriptionLedger
One name, several peers, every `await` of the code. A request runs up to its
first await (`Enter`, `Unsubscribe`); a reply of tmux queues the continuations
that wait for it in the order they started to (`Settle`), and `Job` runs one.
`draining` keeps macrotasks out until the queue is empty, as the runtime does,
while replies of one chunk may be read before it starts. `records` holds every
record ever made, because continuations keep references to records that were
torn down. `Unruly` switches on two behaviours of peers that the code does not
survive, so that the rest can be checked without them.

### BackpressureLedger
One pane; the class's synchronous methods are functions on a record, and an
action is one call from the bridge, one chunk reaching one peer, or the
continuation of a settled Continue. A `PaneFlow` object is an episode number,
since the code compares identities. tmux executes commands in order, may refuse
some, and holds output back while paused; output written earlier is still on
its way.

### TopologyRouter
Handlers are functions on the router's record (`OnMembership`, `OnLayout`,
`BootstrapSettled`, `RefreshSettled`, `ReleaseHeld`). Abstractions:

- the generation counters of `TopologyEpochTracker` are the verdict they would
  give each query, `standing`: current, latest (outdated by a window event but
  still the last bootstrap) or stale. `mine` is `this.queryRun === run`.
- `windowIndex` is the inverse of the table (its stale members are always
  filtered through the table by its readers).
- layouts received during a bootstrap keep their order (`recordLayout`).
- `Floating` panes are in no layout, and windows of other sessions (`Foreign`)
  send neither layouts nor output.
- a chunk carries `homes`, where its pane was between the writing and the
  delivery. It is there for the properties only.
- bytes are chunks; `HeldLimit` is the cap of held output.

tmux side: a move leaves notices; queries may be answered before the notices
are written, because tmux runs clients' command queues and its own notification
queue in turn; it tells all pending notices before it reads a pane again. A
reply settles a promise whose continuation runs after the rest of its chunk.
A pane scope behaves as a server scope here (neither needs the topology). A
layout that does not parse "lists nothing, so it contradicts nothing"
(`topology-router.ts`), so the two routing properties exempt it.

Not modelled: sinks that attach, detach or close from within `write`; idle
suppression (see `ElectronBridge`); a window that changes session (`move-window`, `link-window`).

### LineSinks
`perPane` is the registry's state per pane, `heard` what each consumer in `Liners` was
given; the other sinks take bytes. An action is one of the router's together with the
`write` or `end` of the consumers it reaches, in the registry's order: `LineDispatch`
writes the chunk, `LineSettle` the copies that `hold()` made of it, `LineDetach` and
`LineClose` end consumers, and the last one of a pane is given the partial line. A line
is the sequence of chunks its text came from; the chunks in `Breaks` have a newline in
their middle, so they end one line and begin the next. UTF-8 sequences that straddle
chunks travel with the partial line and are not modelled apart.

### WsServer
One connection of the server. Connections share only the flag `draining`, so
one is enough. An action is one callback of the socket, a timer, one
continuation after an await (the suspended handshake is `hello`: `authenticating`,
`creating`), or a call of the application. `conn.held` is what the connection has acquired and
`finalize` gives back; `disposed` counts how often its client was given back;
`conn.told` is the errors sent to the peer and `conn.report` the one that
`connection-closed` carries. A call passes `routeCall` (limit, duplicate, rate),
`Authorized` and `Outcome` or `RequestTimeout`; `stage` is where it is, `timers`
the calls whose timeout is armed, `conn.inflight` the call pump, by id. `High = 1` is one
message in the buffer, so `sampleDrain` sees both sides of the watermark.
A `send` that throws and the rate limiter's arithmetic are not modelled. What both ends
have by nature (the type invariant, the initial state, the next-state relation) is called
`ServerTypeOK`, `ServerInit`, `ServerNext` here, so that one module of proofs can extend both.

### WsClient
The client and, of the other side, what it sends and the coverage that its peer
holds (`peer`, dead with the connection). `calls` is the outbox, entry by entry,
with how often each was sent; `frames` and `results` are the wire. `retry` is
the controller: attempts, armed timer. `wanted` is what the application holds,
in calls that resolved. `OfflineDisable` lets an application give coverage up
during an outage, which the code does not survive. Handlers that call back into
the client are not modelled.

### PaneStream
`stream[p]` is a `PaneStream` with its seed cycle (`phase`, `stale`, `answer`),
`view[p]` its sink with the first-resize gate, `sweep` the `ReseedScheduler`,
`asked` the commands tmux has not executed and `pipe` what it wrote and the
client has not read. A chunk of output is its number, a capture is the number of
chunks the pane had made when it was executed, and the screen a terminal shows
is the sequence it was given, a capture standing for the chunks it holds
(`Painted`). The stream of a `Short` pane may be disposed. `arrived` is for the properties: which output came while
a sink was there to take it.

### CrossSessionLayout
One record per process (`relay`), and the tmux they share: the hook, the buffer
of entries with its cap, the epoch, the windows with hooks of their own
(`Shadowed`). `enable` and `disable` queue operations; `Begin` starts the next
and every command it runs is an action of its own (`ShowHooks`, `Install`,
`InstallAndBump`, `ReadBaseline`, `Subscribe`, ...), so the processes interleave
between them. `Report` is the subscription telling a relay the present value;
`handleDelivery` decides what was missed and asks for a repair. A step of `disable` that finds the
relay wanted again subscribes, as `reconcile()` does. `disable` is
called for enables that resolved, as the bridge does
(`connectors/cross-session-layout-ledger.ts`); `Listeners` bounds how many share a relay. `ClearHook` is somebody removing the
hook; `ClearAnytime` lets that fall between a relay's check and its install, too.

### ElectronBridge
`toMain[r]` and `toPage[r]` are IPC between the main process and window `r`, in
order. `proxy[r]` is the page's `TmuxClientProxy`, `senders[r]` its entry in the
registry with the token of its peer, `coverage[p]` that token's entry in
`CrossSessionLayoutLedger` with its queue of steps. The variables from `ledger` to
`written` are those of `BackpressureLedger`, instantiated as `Flow`: its commands and
replies are its own actions, while the bridge calls its methods (`account`, `ack`,
`releasePeer`) in the middle of handlers that do more. The suppressor's commands join
the same queue to tmux. `Turn` holds a handler back until the promise jobs of the
one before have run. A call is an `enable` or a `disable` of layout coverage, the
methods whose outcome leaves state behind. The relay is abstract here
(`CrossSessionLayout` is the real one): it grants or refuses. Two switches are off in
the run because the code does not survive them: `Reloads` (a page replaced without
`close()`) and `Eager` (coverage given up before it was granted).

## 4. Runs

| Run | Asks | Bounds, and why they are enough |
|---|---|---|
| `client` | five safety properties and the refinement of `CommandPromises` | three calls, one unsendable: one inflight, one queued, one refused is every position the FIFO distinguishes. One payload line, one notification, corrupted terminators, both close styles. 2.8M states |
| `client_live` | accepted calls settle, a detach ends in `closed`, the router has no runner after close | two calls, asynchronous closing. 161k states |
| `subs` | the ledger with two peers | four requests: a subscribe, a join, a drop and one more reach every wait of the code. Two argument pairs, one of which tmux may refuse |
| `bp` | the pause loop with two peers | watermarks 3 and 1, six chunks, one refusal: the sum crosses both marks twice, from either peer |
| `router` | routing, agreement of the table, queries that end | a window each for two sinks, a pane that moves once and a floating one, one kind of trouble. 975k states |
| `lines` | hold and replay, and the lines made of it | consumers on a window and on the session, a byte sink on the server; two chunks, the second of which ends a line; a move, one kind of trouble; the byte sink stays. 2.2M states |
| `ws_server` | unwinding, answers, the first error, dead and lagging peers | three calls, two of them with one id, one in flight at a time: a duplicate, a full pump and a second use of an id whose first timer is armed. 177k states |
| `ws_client` | sending, closing, coverage, recovery | three calls (an enable, a disable and one more, in any order and mix), two lost connections, one refusal, one retry: an attempt can fail, succeed and be lost again. 759k states |
| `pane` | what is shown, captures, seeding | two panes, one of them disposed, so the sweep has a stream to wait for and one to skip; one chunk, two mounts, one outage, one refusal or resize. 484k states |
| `layout` | missed changes, counts, a removed hook comes back | two processes with one listener at a time, so a relay is asked for, given up and asked for again while its queue is busy; three windows of which one is shadowed, a buffer of two entries (it overflows at the second change), two enables, the hook removed once, one refusal. 5.5M states up to the symmetry of the processes. With `Listeners = 2` TLC checks the first two properties as well (5.5M states, three minutes); they are proved for any number |
| `electron` | credits, leftovers, agreement | two windows, so one can leave the other alone with a paused pane; six things that happen unasked (a proxy made or closed, a call, a time-out, a chunk, a window destroyed, the connection lost, a disposal), in any mix: two proxies, two chunks that pause the pane, a departure and one more, or a window with an enable, its undoing and its end. Two tokens (a window can close and come back; with the other open there is none left), a batch of two chunks, one refusal. 3.4M states up to the symmetry of the windows |
| `lines_replayed` | *violated*: `DecodedOnce` | a consumer on a window and one on the server; nothing moves or fails |

What the passing runs show, beyond the small instance of each:

- **client.** Every reply that settles a promise is the block of that call
  (`OwnReply`) and whole (`LinesFindTheirReaders`), with refused sends and corrupted
  terminators. Nobody waits on a closed connection, not even a call made by a
  handler of `exit`, notifications are emitted once and never taken from
  output, and `exit` precedes `closed` and comes once.
- **subs.** The two indexes agree whenever no continuation waits; tmux's
  binding is the one owned; a subscribe answered `ok` is bound; every request
  is answered.
- **bp.** No pane is paused silently: below the low mark a Continue is on its
  way or its refusal was reported. One Continue per episode. After everything
  is answered tmux and the ledger agree, dispose included.
- **router.** A sink gets a chunk only if its scope held the pane at some time
  between writing and delivery; a pane whose scope was never in
  doubt loses nothing unless the loss is reported; when nothing is under way the
  table equals tmux; queries that re-ask each other end. Unreported loss is
  excluded for one move only (see below).
- **lines.** Every sink is given a chunk once and in order, held or not, replayed or not.
  Consumers that share a pane's decoder are given the same lines, with no text twice and
  none missing but what no consumer was given, across moves, late attachments, refused
  queries and a reconnect, provided the router gives a chunk to all of them at once.
- **ws_server.** Wherever the handshake and the calls are suspended, whatever
  ends the connection unwinds what it acquired, the client once; answers, time-outs,
  denials and reused ids never answer a call twice; the peer hears the
  first error and the `connection-closed` event reports that one. A peer that is
  gone without a word is found by the heartbeat, before hello too, and a pane
  paused for a peer whose buffer drained is resumed although nothing is sent.
- **ws_client.** No call is sent twice or after its caller was rejected; a closed
  client leaves no caller, timer or socket; every outage ends in ready or closed.
  An application that holds an enable when all is answered has one on the new
  peer, or was told it has not, provided it gave none up during the outage.
- **pane.** At rest, everything the pane put out while its present sink was there,
  or while there was none, is in what the sink was given, through stale captures,
  outages, sweeps and the gate; one capture per stream is under way; no stream seeds
  for ever.
- **layout.** At rest each listener has been sent every layout, or was told to
  read it again after it changed, or knows its window is not covered. A relay
  is subscribed exactly while an enable stands. With one
  listener at a time a removed hook comes back
  whichever process notices first, unless a repair was refused and reported.
- **electron.** Every chunk a window is billed for is on its way to the page, waits
  there for the batch to fill, or is being acknowledged; so when all messages are
  delivered a pane somebody watches flows, whoever came or went, idle suppression on.
  This needs `BatchAssumption`, see below. A window that died leaves no sender, bytes or
  coverage behind, and its calls are aborted. Pages and main process end up agreeing on
  registration, connection state and coverage, and no call stays unanswered.

### What the violation says
It disagrees with a sentence of the repository, quoted in `PROJECT.json`.

`lines_replayed`: a line consumer on a window (or session) next to one on the server (or
a pane). Output of a pane that is not placed yet reaches the second at once and the first
as a copy, later; the decoder they share reads both, and the line that both are given has
the chunk's text twice. It takes a chunk before the first bootstrap has answered.

### Other limits, seen with the same modules
None of these is kept as a run; each needs only the constants or the property
named, and disagrees with the line given or marks the edge of what holds.

| Module, change | What TLC finds | Where the code says otherwise |
|---|---|---|
| `client` with `Lists = {c1}` | `OwnReply`: `invalidCommand` admits `a ; b`, tmux answers with two blocks, the second settles the next call. The relay of `cross-session-layout.ts` sends such a line | `errors.ts:242` |
| `client` with `PayloadKinds = {"fake"}` | `LinesFindTheirReaders` (`CompleteReply`): any well-formed `%end` closes the open block; its command number is not compared | |
| `client_live` with `CloseStyles = {"sync"}` | a handler of `ready` that closes leaves the router with a runner | `client.ts:366` |
| `subs` with `Unruly = {"resubscribes"}` | `TmuxFollowsLedger` (`AnsweredIsBound`): subscribe, unsubscribe, subscribe without waiting; the last is answered `ok`, then released by the unsubscribe before it. | `subscription-ledger.ts:216` |
| `subs` with `Unruly = {"leaves"}` | `OwnersAreLive`, `Lockstep`: a joiner resumes after its peer was released and counts it as an owner for good, so the name is never unsubscribed | `subscription-ledger.ts:141` |
| `bp`, `RefusedResumeIsRetried` | a refused Continue is not retried: a pane tmux still pauses makes no output, so there is no crossing | `backpressure-ledger.ts:229` |
| `router` with `KeepsOne = FALSE` | `RoutedHome`: with no window or session sink layouts are ignored, and the next sink is served from the old table until its bootstrap answers | |
| `router` with `MaxMoves = 2` | `NothingLost`: the query of a new window fails, what is held for its pane is dropped, and then its layout in the next window is read | `topology-router.ts:385` |
| `ws_client` with `OfflineDisable = TRUE` | `CoverageSurvives`: a disable made during an outage counts twice, in the count the welcome replays and as the queued call behind the replay; of two enables none is left | `client.ts:380` (WebSocket) |
| `ws_server`, `EveryConnectionDrains` | a connection still before hello at the shutdown is not told to drain and runs afterwards | `server.ts:207` |
| `pane`, one pane, `WholePicture` | output that reached a sink which was then unmounted is in no capture when the cached snapshot is shown to the next | `pane-stream.ts:422` |
| `pane`, `BlankIsReported` | a sink mounted after the first size report, and any mount after a connection that took the size subscription along, gets no resize, so its gate holds what it has | `pane-stream.ts:825` |
| `pane` with `MaxDrops = 2` | `NothingVanishes`: a reconnect during a sweep returns the sweep in flight, and streams it has passed are not seeded again | `reseed-scheduler.ts:103` |
| `pane` with three panes, `Short = {}`, `MaxMounts = 4`, `MaxOutput = 0`, `MaxEvents = 0` | `SeedingWhileCapturing`, which lines 540-541 ask for ("Re-enter seeding so any byte arriving during the new capture is buffered"): a stream mounted behind the reconnect's sweep caches a snapshot, the sweep captures it again, and an unmount and a mount meanwhile take the fast path of `attach()`, which asks for a cached snapshot and not for the phase. The stream is live, and the older capture is written over what it shows. With two panes the order of the client's answers forbids it | `pane-stream.ts:421` |
| the same with `MaxOutput = 1`, `Cap = 0` | `NothingVanishes`: a chunk between that capture and its answer is written and then gone | `pane-stream.ts:425` |
| `electron` with `Reloads = TRUE` | `CreditIsKept`: a page reloaded without `close()` registers again under its old sender, which stays billed for what the old page never acknowledged; reloaded while its pane is paused it gets no more output | `sender-registry.ts:104` |
| `electron` with `Eager = TRUE` | `InStepAtRest`: enable, disable, enable without waiting; the first is refused and takes the count of the last, which is answered `ok` and covers nothing | `cross-session-layout-ledger.ts:37` |
| `electron` without `BatchAssumption` (`Low = 1`) | `CreditIsKept`: the residues of two pages exceed the low watermark and the pane stays paused. With the defaults (64 KiB batches, 256 KiB low) that takes five windows | `renderer.ts:405` |
| `electron`, "a pane nobody watches is paused" | a window that dies holding bytes of a paused pane has it paused by the suppressor, then continued by the ledger | `idle-pane-suppressor.ts:28` |
| `layout` with one process, `Listeners = 2`, `MaxCalls = 3` | `HookComesBack`, although "A repair already waiting in the queue answers every delivery behind it" (line 302): a repair waits behind two disables; the first gives the subscription up, the second finds that `enable()` was called meanwhile and takes it again in its own step. If tmux's first report, that the hook is gone, is read in one chunk with the answer to that subscribe, `repairQueued` still speaks of the old repair, no other is queued, and the old one is of the earlier generation and dropped: the hook stays away, unreported, until something else changes | `cross-session-layout.ts:463` |
| `layout` with `ClearAnytime = TRUE` | `NothingMissed`: a replaced hook does not move the epoch, so changes made while it was gone are not announced to the other processes | `cross-session-layout.ts:118` |

Further, by hand: a handler of `exit` that calls `close()` after the transport
died turns the announced reason into `disposed` (`client.ts:203`); the sum of a
pane can cross high again while a Continue is in flight, against
`backpressure-ledger.ts:221`, and recovers at the next chunk; a `disable()` for an
enable that has not resolved takes the relay's count below zero when that
enable fails (`cross-session-layout.ts:330`), which the bridge's ledger avoids;
bytes tmux writes between reading and executing a `capture-pane` are both in
the capture and in the stream, so a chunk may be shown twice.

### Fairness
Stated only where a liveness property needs it. tmux executes what it is sent
and finishes a block it began; the runtime delivers data and close events and
empties its microtask queue: these are what a live tmux and an event loop do.
In `bp` the peers consume what they were sent, which is the contract of
acknowledgements. In `ws_server` timers fire and the transport drains what a peer
reads; nothing is assumed of the peer, of tmux or of the application's hooks. In
`ws_client` timers fire, a socket that is opened opens or fails, one that is
closed says so, and a bridge that was said hello to answers or closes: the client
has no timer of its own for these. In `pane` tmux serves, what it sent is
read, frames are drawn and a lost connection comes back. Callers, peers and
applications owe nothing else. There is no fairness on anything that may fail:
refusals, disconnects, corruption. Deadlock is not checked: once the connection
is closed, or the bounds are used up, everything may legitimately stop.

## 5. Proofs

The theorems hold for every set of calls, every bound, every subset of close
styles, every use of ids, from the named assumptions on the constants.
`TmuxClientProofs` is about the stream and the client's calls and lines, `SubscriptionLedgerProofs` and `BackpressureLedgerProofs` about the ledgers,
`WebSocketProofs` about a connection of the WebSocket server and about its client,
`CrossSessionLayoutProofs` about the relays that share a tmux, `PaneStreamProofs` about
the streams of a client, `ElectronBridgeProofs` and `ElectronBridgeRestProofs` (which
extends it) about the Electron bridge.

| Theorem | States | Assumes |
|---|---|---|
| `TypeCorrect` | `TypeOK`, inductive as it stands | |
| `RepliesReachTheirCalls` | `OwnReply` | `Lists = {}` |
| `AllTracked` | `WaitingIsTracked` | |
| `NobodyWaits` | `NobodyWaitsOnAClosedConnection` | |
| `SettledStays` | `SettledOnce` (action property) | |
| `ClosedStaysClosed` | `ClosedIsFinal` (action property) | |
| `ExitComesFirst` | `ExitBeforeClosed` | |
| `Implements` | `KeepsPromises`, the refinement of `CommandPromises` | |
| `LinesArrive` | `LinesFindTheirReaders` | `"fake" \notin PayloadKinds` |
| `RunnerGone` | `NoRunnerAfterClose` | `"sync" \notin CloseStyles` |
| `RefcountsLive` | `OwnersAreLive` of the subscription ledger | `"leaves" \notin Unruly` |
| `IndexesAgree` | `Lockstep` | `Unruly = {}` |
| `TmuxAgrees` | `TmuxFollowsLedger` | `Unruly = {}` |
| `NeverPausedSilently` | `PausedBelowLowIsResuming` of the backpressure ledger | its three assumptions |
| `NeverDoubleSent` | `OneContinuePerEpisode` | its three assumptions |
| `BeliefIsTrue` | `BeliefMatchesTmux` | its three assumptions |
| `Released` | `ReleasedOnClose` | `ServerAssumption` |
| `FirstFatalStands` | `FirstFatalReported` | `ServerAssumption` |
| `AnsweredOnce` | `RepliedOnce` | `ServerAssumption` |
| `ClosedClean` | `ClosedIsClean` of the WebSocket client | `ClientAssumption` |
| `CoverageKept` | `CoverageSurvives` | `ClientAssumption`, `~OfflineDisable` |
| `SentToWhoWaits` | `SentOnceWhileWaiting` (action property) | `ClientAssumption` |
| `CoverageTrue` | `CoverageFollowsCalls` of the layout relay | `LayoutAssumption` |
| `NothingIsMissed` | `NothingMissed` | `LayoutAssumption`, `~ClearAnytime` |
| `RemovedHookComesBack` | `HookComesBack` | `LayoutAssumption`, `~ClearAnytime`, `Listeners = 1`, `Shadowed # Windows` |
| `OneAtATime` | `OneCapture` of the pane streams | `PaneAssumption` |
| `NothingSurvives` | `GoneIsForgotten` of the Electron bridge | `BridgeAssumption` |
| `CreditSurvives` | `CreditIsKept` | `BridgeAssumption`, `BatchAssumption`, `~Reloads` |
| `SidesAgree` | `InStepAtRest` | `BridgeAssumption`, `~Reloads`, `~Eager` |

`AllTracked`, `SettledStays` and `ClosedStaysClosed` state properties of
`TmuxClient` that are proved and in no run.

**Replies and the stream.** `OwnReply` speaks of settled calls only and is not
inductive: which block the next terminator closes depends on three places at
once, the FIFO, the inbox and tmux's own position. `IInv` relates them through
`Seen`, the last block whose `%begin` the client has read:

- `AnswersInOrder` and `InboxInOrder`: tmux answers one block per command, and
  the unread lines are in block order, each block behind its `%begin`;
- `FifoFollowsStream`: the FIFO is the tail of the commands written after
  `Seen`, and an inflight call is the command at `Seen`;
- `BlockIsOpen` and `InboxFollowsSeen`: the client reads on exactly where it
  stopped; the block it has open still owes it a terminator, and no block
  between `Seen` and tmux's position is missing from the inbox.

The last two groups hold only while the transport lives, since its close empties
the FIFO and leaves the inbox; `ClosingIsAnnounced` says that nothing is read
between that close and `closed`. Under a live transport the head of the inbox
therefore belongs to `Seen` or begins `Seen + 1` (`HeadLinePlace`), and settling
the inflight call settles the owner of that block. `Lists = {}` is needed and
not a convenience: section 4 has the counterexample without it. Corrupted
terminators and output that looks like a terminator are covered: the first
settles the right call with a protocol error, the second ends a block early but
keeps the client on the right call, because the true terminator then finds
the slot empty. Sends the transport refuses are covered
too, which is what `dropPending` is for.

**Calls.** `CInv` is `TypeOK`, `Tracked` and `Ended`. `Tracked` says that a call
waits exactly when it is in the FIFO or the inflight slot, in one place, and that
only an open block after the greeting has an inflight call, so a `%begin` never
overwrites one. `Ended` says that a closed transport has nothing outstanding and
that its `exit` frame is the innermost unfinished call until `closed` is
announced. That is what makes the calls of handlers harmless: `Submit` under that
frame meets a transport that refuses. These properties do not depend on what
tmux writes, so command lists are allowed here. `ExitComesFirst` adds `ExitOnce`,
which ties the counter to `exitAlreadyEmitted`. `Implements` maps a `%begin` to a
stutter (a call moves from the FIFO to the slot in front of it), a terminator to
`Answer`, the transport's close to `End`.

**Lines.** `InStep` says that some function on the places between the lines of the
inbox leads from where the client stands (outside any block, or so many lines into one,
as `collected` says if a call is inflight) to where tmux stands, one line at a time: a
`%begin` and a notification only outside a block, a line of output and a terminator only
inside, the terminator with the size of its block. So the client never takes a line for
what it is not. That needs neither numbers nor `Lists = {}`. `RunnerGone` adds that a
transport does not close under the `ready` frame, which a synchronous close may do:
section 4 has the counterexamples for both hypotheses.

Before they were proved, TLC checked `IInv` (with `Nat` in `InboxFollowsSeen` cut to
`0..5`), `CInv` and `ExitOnce` with the constants of `client` and with output that
looks like a terminator, and the last two with a command list among the calls. The
cut is why `IInv` is not a run.

**The subscription ledger.** None of its properties is inductive: what a request
finds after an `await` depends on what every other request did meanwhile. `Inv` of
`SubscriptionLedgerProofs` has three layers. `Base` holds for any peers: a call knows
the record it waits on, nothing waits twice, a creator waits first in its record's
queue, subscribes are on their way in the order of their records. `Refcount` adds that
a peer in the middle of a join is registered, and the theorem about it that none leaves
there. `Orderly` needs quiet peers and says how the three orders fit together, that of
the records, of the commands on the wire and of the continuations the runtime has
queued:

- `Fifo`, `Placed`, `Creators`, `JobsOrder`, `Fresh`: records settle in the order they
  were made; whoever waits is in its record's queue before that and in the runtime's
  after; a creator runs before those who joined it, a join that must start over before
  the unsubscribe that could release what it joins;
- `Kept`, `Superseded`, `OwnedOrOrphan`, `DropsHeld`, `DropsOwn`: the record held has
  owners, and its creator alone while in flight; one taken down in flight has nobody
  left to roll back; a peer waiting to unsubscribe is still an owner;
- `Binding`: the commands on their way alternate, the first fits what tmux has bound and
  the last leads to what the ledger holds; `LatestHolds` says the same of a peer's
  latest answered subscribe.

The step lemmas are about turns: whatever a request does between two awaits changes one
call, at most one record and at most one command, and is one of nine kinds (`Moves`).
Each conjunct is shown to survive every turn, an answer of tmux, a departure and the end
of the connection. The hypotheses are needed: section 4 has the counterexamples
with unruly peers.

**The backpressure ledger.** `IInv` of `BackpressureLedgerProofs` ties the flag
`resuming` to what is on its way. `OneContinue` counts the Continues of an episode on the
wire, among the unread replies and among the continuations to run: one while
`resuming` is set and none otherwise. `ContinueIsLast` says that one is behind every
other command, which is why its answer tells how tmux was left;
`FlowsWhenBelieved` and `PausedWhenBelieved` say the same of the last command when
nothing is asked. `PausedBelowLowIsResuming` is about a sum over the peers, the fold of
the community modules: `SumExcept` (changing one peer's bytes changes the sum by the
difference) is proved from `IsFiniteSet(Peers)`, with minimal elements of a well-founded
order in the place of an induction scheme.

**The WebSocket server.** `ReleasedOnClose` and `FirstFatalReported` are not inductive.
`WInv` adds to `TypeOK`: `Shape`, about the connection's fields (resources are held all
together or not at all, and only while it is open; a hello timer and a heartbeat only
while it is attended; what the peer was told and what is reported is `fatal`, which is
write-once), and `Handshake` (a suspended handshake has no client yet, so the
continuation that makes one either keeps it or gives it back: that is why
`disposed` never passes one). `AnsweredOnce` needs more than the count of replies:
`RInv` says that, for each id, replies sent, plus the entry in flight, plus the calls of
that id still being authorized, never exceed the calls received. A second use of an
id that replaces an entry only lowers the left side, and the first one's timer, finding
a reply due, finds an entry or nothing; neither creates a reply.

**The WebSocket client.** `Base` of `WebSocketProofs` holds for any application: `Phases`
(only a client that is ready has anything on its wire, only one that reconnects an armed
timer, a closed one nothing pending), `Wire` (a call or its answer is under way once, and
only if it was sent), `Bounded` (the peer holds no more than the enables the wire does not
hold) and `Counted`. `Coverage` is the part that is hard to see in the code. While the
client is ready, coverage the application holds, and the disables and granted enables
still under way, are together no more than what the peer holds, the replays on the wire
and the refused replays on their way back (`Covered`). A welcome sends as many replays as
the application holds to a peer that holds none, and that keeps it because a client
that is not ready has no disable pending (`DisablesEnd`): a drop rejects those on the
wire, and none is queued in an outage. The latter is what `~OfflineDisable` says;
section 4 has the counterexample without it. `SentToWhoWaits` rests on `Base` alone.
The client's queue is a Map; the model takes its order from the ids (`InOrder`).

**The layout relay.** `Base` of `CrossSessionLayoutProofs` is about each relay by itself
and the buffer they share. `Serving` says that tmux has one command of a relay besides
its fetches, the one its coroutine awaits, so an answer finds the step that waits for it;
`Phases` ties what is awaited to what is listened to and subscribed; `Counts` says that
the count is what was granted plus what is queued, which is `CoverageFollowsCalls` when
nothing is. `Ordered` says that the entries are numbered without a gap. `Known` adds what
happens between processes. A listener that does not know a window's layout (`WillHear`)
is fetching it, has its entry still to read, has missed entries and will see that from
their numbers, or sees a new epoch; or the hook is gone, which the subscription reports.
`Behind` keeps a relay's numbers from running ahead of tmux, `Delivered` says that the
last report was acted on, `ForeignGoes` that another program's hook is replaced before
anybody listens, and `Replaces` that an install without a new epoch finds a hook in
place. The last is what `~ClearAnytime` is for: a hook removed between the check and
the install comes back in the old epoch, and section 4 says what is lost then. TLC checked
`Known` with one and with two listeners before it was proved.

`Coming` is for `HookComesBack`, with one listener at a time. A subscribed relay without
a hook has its report still to come, has a repair of this subscription in its queue
(`Mending`), or was refused one and said so (`Mends`). A report cannot repeat the last one
unseen: one that found no hook is of an earlier epoch than any hook that is there
(`LastTrue`), because only an install with a new epoch follows it. When the report comes, the flag
`repairQueued` may keep a repair from being queued; then one waits (`Flagged`), and it is
of this subscription, for those of an earlier one leave the queue before anybody
listens again (`StaleGoes`). That is where one listener is needed: the only disable in
the queue has no enable ahead of it (`Alternate`), so the step that gives a subscription up has
nothing but repairs behind it, and none outlives it. With two listeners a second disable
may stand between, and section 4 has the counterexample. `Shadowed # Windows` says that
the hook covers some window; a repair is asked for only by uncovered ones, and a report
with every window shadowed is the same with and without the hook. TLC checked
`Coming` with one listener and three enables before it was proved.

**The pane streams.** `OneCapture` is about two queues and a stream, and the counts of
each would do for no step alone: `One` says that a capture of a pane is in the commands or
in the answers, once, and that while it is in either its stream waits for the first answer
(`Due`). So `attach()` and `reseed()`, which capture only in the idle phase, find neither;
an answer that arrives is the last of its pane; and a stale capture, which `seed()` asks
for again when it has settled, finds both queues empty of it. The difficult step is the
settling itself (`SettleStep`): several captures end at once with a connection, each may
be asked for again, and the sweep, if it awaited one of them, goes on to the first stream
that is idle, which is none of those (`RunsStep`). `NothingVanishes` is not proved
because it is not true for all constants. TLC checked `IInv` with the constants of `pane`.

**The Electron bridge.** The main process walks its registry in a recursive function over
the tokens, each step of which is a method of `BackpressureLedger`: what those methods do
is taken from `BackpressureLedgerProofs`, instantiated as `L`, and a walk is known by what
it has done up to a token. `IInv` of `ElectronBridgeProofs` holds for any pages, reloaded
and eager ones too. `Registry` says that a token is one sender's and is given out once, and
that a window that is gone has none; `Billed` that only subscribers owe anything; `CallsOK`
and `MailOK` that a call is on its way once, as an invoke, as a step or as an answer. The
part that is hard to see in the code is `Forgotten`, about the coverage of a peer that was
torn down while the relay was being asked for it: its queue still has the release behind
the step that waits, and no step that would leave the reference held.

`CreditIsKept` needs two more, and pages that close. `Windows`: in the mailbox of a page
registrations and closings alternate (`Turns`), so the one being read never ends a
subscription the page still wants, and acknowledgements are of whole batches; therefore no
message but the chunk and its acknowledgement moves the balance of a window (`Owed`).
`LoopOK` is about the pane: a Continue of the present episode is on the wire, among the
replies or among the promise jobs (`Flying`) exactly while the ledger is `resuming`, and
the last command on its way to tmux, whoever gave it, is a Continue when somebody is
subscribed and the ledger does not hold the pane (`ToldLast`). That is what a command
of the suppressor could break, a pause for the last sink behind the ledger's Continue. At rest each subscriber owes less
than a batch, so the sum is within the low mark by `BatchAssumption`, and a pane that is
paused and not resuming would be above it. `Reloads` has its counterexample in section 4.
TLC checked `Windows` and `LoopOK` before they were proved, with and without suppression.

`InStepAtRest` compares what one side counts with what the other remembers, so its three
conjuncts need a record of everything in between. `Books`: for each window, the count of
the bridge's layout ledger is the enables that were granted, less the disables that were
run, plus the enables its queue still holds (`Even`); a disable counts only where an
enable was granted before it (`Earned`), which is what `~Eager` gives, and which makes
`Standing`, the calls replayed in order with a floor at zero, the plain difference
(`StandingIs`). The hard part is the way from a mailbox to the ledger: a disable on its way
must still find its enable when it arrives, whatever was refused meanwhile (`WaitOK`).
`Faces`: an open proxy's registration is on its way, or the window is subscribed and the
newest state on its way, or else the one it shows, is the client's. `PendingOK`: behind a
promise that is pending there is its call in a mailbox or in the queue of a peer, or its
answer on the way to a page that lives; with every message delivered there is none of
these, so no promise is pending. `Eager` has its counterexample in section 4.

*Only model-checked*: liveness, which needs fairness and ENABLED; what the terminals of the
pane streams show; the router (its handlers fold over layouts) and the line sinks.

## 6. Not modelled

See the components of `PROJECT.json`. Of the Electron bridge, `drain()`, the parsing of
arguments, two proxies open in one page at a time (the registry knows one sender per
window, so closing either unregisters both) and the page's own router; of idle
suppression, scopes narrower than the server. Handlers of line sinks that dispose of their
consumer: by reading, the partial line is then delivered before the lines of the chunk
that are left (`line-sink.ts:200`). Connections of several WebSocket peers
that share a client have a ledger each and may overwrite each other's bindings, which
`server.ts:738` declares out of scope. Pure encoders,
layout and frame parsers, text streams and thin command wrappers have no state
whose order matters; their unit tests reach them. The mounts and the example
multiplexer are glue. Bytes, names and formats are abstracted to what the
properties tell apart. Handlers that call back in are modelled for `TmuxClient` only.
