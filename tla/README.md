# A TLA+ verification development of art-pollinator

art-pollinator passes creative works ("content", known by metadata tokens and
content hashes) from device to device.  Every device keeps a small library in
two pools, *locked* items, which it keeps, and *swappable* items, which it
trades in swaps with every peer it meets.  This directory models the parts of
the program that decide what a device holds, offers, accepts, evicts and
forgets, checks them with TLC on small instances, and proves the most important
facts with TLAPS for every instance.

## 1. The system

Layers, from the inside out: `core` is pure domain logic and port interfaces,
`app` holds the use cases, `adapters` implement ports, `clients` compose them.

| Component | State it keeps | Operations | Model |
|---|---|---|---|
| Library aggregate, capacity (`core/src/library`) | immutable map hash -> entry (locked, priority), bounds | addItem, removeItem, lockItem, unlockItem, validateCapacityBounds | `Library`, `LibraryService` |
| Naive policies (`core/src/policies`) | none | selectOffer, selectAccept, selectEvict | `Library` |
| Swap state machine (`core/src/swap`) | phase and its data | transition(state, event) | `SwapStateMachine` |
| Swap service (`app/src/swap`) | locals of each call of `swap()` | revocation, offer and accept rounds, saves, reconcile, outcome | `SwapService`; rate limiting and trust in `Encounters` |
| Encounter memory (`core/src/encounter`) | declined and evicted records | isSuppressed, record | `SwapService` (`suppressed`) |
| In-memory transport (`core/src/ports/fakes`) | inbox, waiters of each device | connect, send, receive, disconnect | `SwapService` (`inbox`, `waiters`) |
| Revocation log (`core/src/ports/fakes`, node) | first entry of each hash | record, list | `SwapService` (`log`) |
| Library service (`app/src/library`) | current library, capacity; persistent repository | create, add, remove, lock, unlock, setCapacity, adoptLibrary | `LibraryService`; beside the swaps, `SwapService` (`Edit`) |
| Admin service (`app/src/admin`) | none of its own | setCapacity, revokeContent, listings | `LibraryService`; `revokeContent` also in `SwapService` |
| Node and mobile composition roots (`clients`) | wiring; swaps in flight | handleNewPeer / automatic swaps | `LibraryService` (swap calls), `SwapService` (sessions), `NodeStart` (creation, start, stop) |
| Ingestion service (`app/src/ingestion`) | none | ingest: hash, sign, store blob, add | `LibraryService` (`add`) |
| SQLite metadata repository | tokens, schema version | save, delete, listAll, migrations | `repository`; rows and migrations in `NodeStart` |
| HTTP transport, peer authentication | inbox, waiters, per-peer queues, long polls, challenges, sessions; client pollers and handshakes | send, receive, poll, handshake, disconnect | `HttpTransport` (one peer) |
| BLE transport | connections, reassemblers, inbox | connect, send, receive, disconnect | `BleTransport` |
| Deferred blob queue (`app/src/blob`) | pending entries, attempts, due times | enqueue, processDue | `DeferredBlobQueue` |
| Rate limiter, trust tracker (`core/src/security`) | timestamps per key; bad and reciprocal counts | recordAndCheck, peek, prune; recordOutcome, prune | `Encounters` |
| Filesystem blob store, queue store | files | put, has; saveAll, load | `DeferredBlobQueue` (`stored`, `persisted`) |
| Scan scheduler | timers, backoff, found flag | start, stop, report, windows | `ScanScheduler` |
| LAN and BLE discovery | callback, known peers, probes in flight, responder | startDiscovery, stopDiscovery, probes | `Discovery`, `DiscoveryPort` |
| Identity | key pair in a file and in memory | sign, getCurrentIdentity, rotateIdentity | `NodeStart` (a node's) |
| Admin HTTP server, TLS files | listener; certificate and key files | listen, close; ensureSelfSignedCert | `NodeStart` |
| Priority policy, tokens, wire codec, crypto, configuration, screens, seeding, scripts | none, or only files | conversions, I/O, presentation | not modelled (section 8) |

How they interact.  Everything on one device runs in one JavaScript event loop:
code between two `await`s is atomic, and at every `await` any other call may run.
The library is immutable, so a call computes a *new* library from the snapshot
it read and later installs it; `LibraryService` is the only holder of the
current one.  A swap reads its snapshot when it starts and its caller hands the
result back with `adoptLibrary` when it ends.  Devices interact through messages
only, over a transport whose `receive()` is shared by all the swaps of a device.
What survives a restart is the metadata repository, the blobs, the file of the
blob queue, and the identity and certificate of a node.

What is hard here, and where it bites, is listed under "hazards" in
`PROJECT.json`: results computed before an await and installed after it, swaps
on stale snapshots, messages that are lost, late or delivered to the wrong swap,
timeouts that leave a `receive()` behind, failures after the point of no return,
a repository that only grows, locks and takedowns made by the device's own user
or operator, and revocations that arrive, while a swap is on its way.

What makes each part correct:

* **Library and service**: neither pool outgrows its capacity and the bytes stay
  within the budget, whatever calls overlap; what is held is stored; a swap
  leaves the locked pool alone.
* **Swap protocol**: every swap follows the state machine, both sides agree on
  what moved, items locked when a swap was called stay home, content listed as
  revoked when it began is not taken in and known takedowns are applied, every
  swap ends, an undisturbed one completes.
* **HTTP transport**: a peer's messages arrive in order and at most once through
  reconnections; nothing waits in a queue that a poll could take; every send ends.
* **Blob queue**: an accepted blob stays pending until it is stored or given up,
  and is not given up early.
* **BLE transport**: a message is reassembled from its own chunks, in order and
  once, whatever fails between two chunks; every send ends.
* **Rate limiter and trust**: no window admits a burst, pruning changes no
  decision, a penalty goes down by reciprocity only.
* **Discovery**: each start hears of each peer once and of every peer that keeps
  answering, and nothing after a stop that was not refused.
* **Scan scheduler**: one timer pending while it runs and none after; the pauses
  follow the silence; scanning never dies.
* **A node's start**: after any crash the database reads as it was saved, and the
  node keeps its key and certificate.

## 2. Modules

| Module | What it is |
|---|---|
| `Library` | The aggregate and the policies as operators on snapshots. |
| `LibraryService` | One device: overlapping calls on the current library, crash and restart. EXTENDS `Library`. |
| `SwapStateMachine` | Abstract specification: the life of one swap. |
| `SwapService` | Detailed specification: many swaps on many devices, over a network. EXTENDS `Library`; implements `SwapStateMachine` for every session. |
| `HttpTransport` | Server and client of the HTTP transport, for one peer. |
| `DeferredBlobQueue` | The queue of blobs over its file-backed stores. |
| `Encounters` | What a device remembers of its peers over several swaps: rate limiter and trust tracker. |
| `BleTransport` | Both ends of the BLE transport, with the framing, over a radio that fails. |
| `DiscoveryPort` | Abstract specification: what `startDiscovery` promises its caller. |
| `Discovery` | Detailed specification: the three adapters; implements `DiscoveryPort`. |
| `ScanScheduler` | Windows, pauses and backoff over delayed timers. |
| `NodeStart` | A node over several starts: database, identity, certificate, listeners. |
| `LibraryServiceProofs`, `SwapServiceProofs`, `DeferredBlobQueueProofs`, `EncountersProofs`, `DiscoveryProofs`, `ScanSchedulerProofs`, `NodeStartProofs` | The theorems about each of these modules, with the inductive invariants and lemmas they need. |
| `TransportProofs` | The same for the two transports, `HttpTransport` and `BleTransport`.  It extends both, so `BleTransport` names what both have `BleInit`, `BleNext`, `sendBle` and so on. |
| `MC...` | Instances for TLC, one per module (two of `SwapService`). |

### `Library`

A library is a function from the held hashes to `[locked, priority]`.  The
JavaScript `Map` also has an insertion order; the policies use it only to choose
among equally good items, so a policy here returns the *set of choices* it may
make, which contains what any order would choose.  An operation returns
`[ok, library]`, as `LibraryOperationResult`; a rejected one returns the library
it was given.  `addAll` is `addItem` in a loop that stops at the first
rejection: counts and bytes only grow, so whether all succeed depends on the
totals only.  Every caller of the loop discards a partly filled library.

### `LibraryService`

One action per synchronous call (`lock`, `unlock`, `setCapacity`) and one per
stretch between two awaits of an asynchronous one:

| Code | Actions |
|---|---|
| `LibraryService.add` (also the end of `ingest`) | `add` computes the result, `AddSave` is the repository's save, `Install` is `applyResult` |
| `AdminService.revokeContent`, `LibraryService.remove` | `revokeContent`, `remove`, `RemoveDelete`, `Install` |
| `handleNewPeer`, `swap()`, `adoptLibrary` | `swap`, `SwapNegotiate`, `SwapSave`, `SwapReconcile`, `Install` |
| a storage call that rejects, a swap that aborts | `Fail` |
| process stops, `LibraryService.create` | `Crash`, `create` |

`op[c]` holds the locals of the call that caller `c` has in progress.  Inside a
swap the peer is unconstrained: any authorised revocations, any offer.  A second
call of the same kind is another caller.  Two history-like choices deserve a
word: `takenDown` records which items the operator deleted, because only those
may be held without being stored; and listeners of the library are left out,
since they are called with the library that the action installs.

### `SwapStateMachine` and `SwapService`

The reducer is eight lines of phases; what could go wrong is that `swap()` feeds
it an event out of order, and then `unwrapTransition` throws.  So the reducer is
the abstract specification and `FollowsStateMachine` says that each session of
`SwapService`, under `phase <- Phase(s)` and the item sets it has agreed on,
takes only its steps.

A session is one call of `swap()` on `Owner[s]` talking to `Peer[s]`.

| Code | Actions |
|---|---|
| entry, rate limiter, listing of the revocation log | `Start`, `Throttle`, `BeginNegotiation` |
| `transport.send` in each round | `Send` (delivered, or lost), `SendRejects` |
| `receiveWithTimeout` | `Receive`, `Timeout`; the abandoned `receive()` stays in `waiters` |
| a message resolves the first waiter | `Deliver`: `HandleRevocation`, `HandleOffer`, `HandleAccept`, abort on anything unexpected, `RecordRejects` when the log fails midway |
| transfer phase, `TRANSFER_COMPLETE` | `Save`, `CompleteTransfer` |
| evict, add, `RECONCILE_COMPLETE` | `Reconcile` |
| outcome records | `RecordOutcome`, `Complete`, `StorageRejects` |
| the catch block | `Fail`, `Abort` (disconnect may drop what is queued for the peer) |
| suppression window | `Expire` |
| `lock`, `unlock`, `add`, `remove` by the user; `AdminService.revokeContent` | `Edit`: `lock`, `unlock`; `add`, `Added`; `remove`, `Removed`; `revokeContent`, `RemoveRevoked`, `Removed`; `EditRejects` |

The users' calls run beside the swaps as the event loop runs them: between any two
awaits of a swap the library may change under it, and so may the revocation log, of
which the operator is the second writer.  A call that awaits storage installs the
library it computed before.  `snapshot` keeps the library `swap()` was called with
and `listed` the revocations it read when it began; the code keeps both as locals
(`request.library`, `listAll`'s result), and uses nothing newer.  The properties say
what that gives, and no more: `LockedStaysHome` that whatever a swap stores was
swappable in the snapshot of a device talking to it, `RevokedNotTakenIn` and
`RevocationApplied` that what either side had *listed* is refused and removed.  A
lock or a takedown that comes later is not honoured by the swap under way, against
what the documents say; that is a finding each (`swap-service.ts:596`, `:661`).

Abstractions: a token is its hash; a message is its kind and the items or
entries it carries, and one that does not decode is one of the wrong kind; an
item is `Unacceptable` when its token is oversized or fails verification; a
revocation is `authorized` when the signer of the entry signed the item's token;
the suppression window is the action `Expire`.  The records of one revocation
message are one step when they succeed, since nobody reads the log between them
but a session whose list would be one entry older.  Loggers, the activity log,
and hop counts are left out; the rate limiter only decides here whether `Throttle`
happens, and has, with the trust tracker, a module of its own (`Encounters`).
What may go wrong is in `faults`, a set fixed in the initial state: with all of
`FaultKinds` messages are lost, storage calls and sends reject and timers fire;
with the empty set none of it happens, and the swaps must then complete.
`SwapService` has no crash: a crash loses a session and nothing else, and
`LibraryService` covers what it leaves in the repository.

### `HttpTransport`

Everything the server keeps for one `x-peer-id`, and the client for one server.
The server does not watch for closed connections, so a poll the client has
abandoned lives on there: a poll is a record with its stage at the server, its
answer, and whether a client still waits for it (`live`).  Handshakes are
numbered for the same reason: one that `disconnect` has forgotten still runs, and
spoils the challenge of the next.

| Code | Actions |
|---|---|
| `connect`, `ensurePolling`, start of `pollLoop` | `connect`, `LoopAuthenticated`, `PollStart` |
| `authenticate`, `performHandshake` and the two handshake routes | `JoinHandshake`; `HandshakeChallenge`, `HandshakeResponse`, `HandshakeDone`, `HandshakeFails`; the rate limiter's `HandshakeRefused`, the time to live's `ChallengeExpires` |
| client `send`, `handlePost` | `send`, `SendAuthenticated`, `PostArrives`, `PostRead` (after the body), `SendDone`, `SendFails`; `PostRefused` by the rate limiter, `BodyRefused` for its size |
| `handleLongPoll`, its timer, the loop's use of the answer | `PollArrives`, `PollTimesOut`, `PollAnswered`, `PollForgotten`, `PollFails` |
| server `send`, `disconnect`, `isAuthenticated` | `ServerSend`, `ServerDisconnect`, `SessionExpires` |
| client `disconnect` | `ClientDisconnect` |

Abstractions: a signature is the number of the handshake whose nonce it signs; the
rate limiters may refuse at any time (how they count is in `Encounters`); times to
live are the actions `ChallengeExpires` and `SessionExpires`; a failed POST has
either not reached the server or was handled by it.  The message of a POST goes
straight to `arrived`: how several peers share `receive()` is `SwapService`'s
subject.  A client disconnects only when its own `send` has ended, as a swap does.

### `DeferredBlobQueue`

| Code | Actions |
|---|---|
| `enqueue` | `enqueue` (already pending?), `EnqueueChecked` (`has`), `EnqueuePush` |
| `saveAll` | `SaveSerialise`, `SaveRename`, `SaveRejects` |
| `processDue` | `processDue`, `PassBegin` (connection status), `FetchFails`, `FetchSucceeds`, `PutDone`, `PutRejects`, and the end of the pass inside `Loop` |
| process stops, `create` | `Restart` |

The array is shared: `enqueue` pushes to it while a pass iterates over it, and the
end of the pass puts another in its place.  A call that still refers to the
current array is `live`; when the array is replaced, the calls that were keep the
old one.  `put` writes in place, so a blob is absent, partial or complete, and
`has` tells only whether a file exists: `NothingForgotten` counts a partial file
as held, as the code does, and the finding on `filesystem-blob-store.ts:97` says
why that is too weak.  Names of temporary files and `load` answering `[]` for any
error are left out.

### `Encounters`

| Code | Actions |
|---|---|
| entry of `swap()`: `recordAndCheck` | `Admit`, or `Throttle`, which also marks a node |
| the offer, the trust-adjusted accept policy, a rejected item | `SelectOffer`, `HandleOffer` |
| end of a swap, `recordOutcome` | `Finish`; `Abort` records nothing |
| `prune` of either | `pruneLimiter`, `pruneTrust` |

`timestamps` and `trust` are the two maps, an absent key being `{}` or `Unseen`.
The array of timestamps of a key is a set of events, each with its instant and its
number among those of that instant: the code counts and filters the array and never
looks at its order, and `AttemptIsNew` proves that no two attempts become one.
The window is `(now - Window, now]`, and denied attempts are recorded as well, as
in the code.  `attempts` and `admitted` are the complete histories that pruning
and filtering throw away: the properties compare with them.  Nothing in the
program calls either `prune` yet and no composition root constructs a
`TrustTracker`; their own comments say when they may be called, which is any time.

### `BleTransport`

| Code | Actions |
|---|---|
| `send`, `getOrConnect` at its awaits | `sendBle`, `ConnectedToDevice`, `ConnectRejects`, `Monitor` |
| the chunks of `chunkMessage`, each awaited | `WriteChunk` (with `Arrives` at the other side's listener: `push`, `deliver`), `WriteRejects` |
| `disconnect` | `disconnect`, `Cancelled` |
| the link drops: an error the listener ignores | `LinkDrops` |

Bytes carry the number of their message, so that joining two messages shows.
`Write` is the radio, modelled from the interface and the fake of the repository: an
answered write has reached whatever the other side subscribed.  A subscription is
`spoilt` while it has missed a part of the message it is in; the framing cannot
tell, and what is delivered then is marked so in `delivered`.  `Sorted` has the
subscriptions called in the order they were made.

### `DiscoveryPort` and `Discovery`

`DiscoveryPort` has a start in force and counts reports: one per start and peer,
none to a start that has been stopped or replaced.  `Discovery` implements it with
`active <- wanted`, the start its caller believes to be in force.

| Code | Actions |
|---|---|
| `LanDiscoveryProber` | `startWeb`, `stopWeb`; `Tick` is the recurring task, `ProbeReturns` an answer, a refusal or the timeout |
| `HttpProbeLanDiscoveryAdapter` with `LanDiscoveryResponder` | `startWifi`, `Listens` or `ListenRejects`; `stopWifi`, `Closes` |
| `BleDiscoveryAdapter` | `startBle`, `Advertises` or `AdvertiseRejects`; `stopBle`, `Unadvertises` or `UnadvertiseRejects`; `Sighted` is the scanner's listener |

A probe is not cancelled by a stop, so its answer may come after it or after the
next start.  The radio may refuse to advertise and to stop advertising.  A refused
start leaves its callback installed and is not in force; a refused stop has ended the
scan and cleared `discovering`, and the device stays advertised through every later
stop until a new start and its stop succeed.  `refused` remembers that this
happened, `QuietAfterStop` promises no advertising only without it, and the
behaviour itself is a finding (`ble-discovery-adapter.ts:98`).  `close` of the
responder may reject too, but stops listening either way.  A caller makes a call when the last one has returned, except on the
prober, whose calls return at once; calls that overlap on the other two break the
port, and are findings.

### `ScanScheduler`

`scan` holds the fields, `timers` the tasks of `TimerSchedulerPort`.  A callback runs
inside the scheduler's method and may do nothing or call `stop` (the window's end),
so `runWindow` and `finishWindow` are operators from state to state with the
callback's choice between the two halves; `start`, `stop`,
`reportPeersFoundThisWindow`, `WindowStarts`, `WindowEnds` and `Tick` are the actions.
A timer that is due may fire late, and the code does not mind.
`StartCallback` and `EndCallback` name what the callbacks may call: the other
combinations leave a second timer, and are findings.  The constructor checks only
that the window fits the interval, so the model takes a cap below the baseline, or
below the window, as well: backing off then shortens the interval, and the pause is
cut at 0 (`Greatest`).  Settings that are fractions or not positive are left out.

### `NodeStart`

| Code | Actions |
|---|---|
| `runMigrations` | `Boot`; `Execute` is one statement, `Duplicate` its rejection, `setSchemaVersion` |
| rest of `createNodeCompositionRoot`, `ensureSelfSignedCert` | `create`, `createWithTls` |
| `start`, `stop` | `listen`, `close` |
| `save`, `delete` | `save`, `delete` |
| the identity's `sign`, `generateAndPersist`, `persist` | `sign`, `PersistFails` |
| the process stops | `Crash` |

A statement of SQLite is atomic and durable, a file written in place is neither.
Of a row, the columns that some migration adds.  The first start finds a database
of any schema version, with rows as a program of that version left them.

## 3. Runs

| Run | Instance | Shows |
|---|---|---|
| `library_service` | `MCLibraryService` | type, pool and byte bounds, durability, and the locked pool under every interleaving of two calls |
| `swap_pair` | `MCSwapPair`, all faults or none | one swap per side between two devices: agreement, locks and revocations with a user or an operator at work meanwhile, refinement of the state machine, termination, and completion where nothing fails |
| `http_transport` | `MCHttpTransport` | order, uniqueness of the poller, queue against poll; sends end, queued messages are fetched |
| `blob_queue` | `MCDeferredBlobQueue` | no accepted blob is forgotten, none given up early, with one pass at a time, failures and restarts |
| `encounters` | `MCEncounters` | no window admits a burst, pruning changes no decision, penalties go down by reciprocity or long silence |
| `discovery` | `MCDiscovery` | each adapter implements the port over a radio and a listener that may refuse, is quiet once stopped, and finds what keeps answering |
| `ble_transport` | `MCBleTransport` | messages, empty ones too, whole, in order and once but for the one a failure cuts; sends end |
| `scan_scheduler` | `MCScanScheduler` | one timer chain, the interval follows the silence, scanning never dies |
| `node_start` | `MCNodeStart` | what was saved is read back across versions and crashes; one key, one certificate |
| `create_fails` | `MCLibraryService` | **violated**: a restart can throw |
| `lock_lost` | `MCLibraryService` | **violated**: a lock can be overwritten |
| `swap_hub_crosstalk` | `MCSwapHub`, no faults | **violated**: two swaps on a node take each other's messages |

The violated runs each state what a comment or document of the repository says;
`PROJECT.json` "findings" quotes it.

**Bounds.**  `MCLibraryService`: three items of sizes 1, 1 and 2; two concurrent
callers (every property is violated, where it is, by two; the theorems hold for
any number); capacities (lockable, swappable, bytes) = (1,1,2), (1,0,2) and the
invalid (0,0,2), with `MaxTotalSlots` 4, so that each pool overflows by one item,
the budget refuses what slots would take, a capacity falls below occupancy, and
an invalid one is asked for; one priority, as in the code, where everything is
added with priority 0.  Items of equal size and callers are symmetric; no
liveness is checked in that run.  `MCSwapPair`: two devices, one swap each,
five items; with all faults, three pairs of libraries (A over its capacity; A
empty; A holding what B offers nothing against), three pairs of revocation logs,
two of suppressed items; `MAX_OFFER_ITEMS` 1, so one library makes an offer that is
too large; B's byte budget refuses one item.  Without faults, two pairs of
libraries that fit, one of them with the item whose token cannot be verified.
A last group of states has one call by a user or an operator, any call at any moment
on either device, over storage that may reject: one is enough to change the
library or the log between a swap's reading of it and its use.  (More calls, or calls
together with the other faults, multiply the states beyond what a run can hold; the
safety theorems hold for any number of them.)
`MCSwapHub`: one node, two others, four
swaps, three items: enough for two swaps of one device to overlap.  A second swap
between the same two devices is not yet in an instance.  `MCHttpTransport`: two
polls and two handshakes under way, so that an abandoned one overlaps its
successor; two messages each way, so that order matters; and two disturbances
(disconnects, expiries, refusals, failures): the first breaks a connection, the
second the one that follows.  `MCDeferredBlobQueue`: two
blobs, two calls at a time, two attempts with a delay of one tick (`MaxDelay` 2),
a clock of two readings (`MaxTime` 1), and room for two entries (`MaxQueue`):
enough for a pass to hold one entry back, fetch another and be overtaken by an
`enqueue`.  `Overlapping` is FALSE: overlapping passes lose entries, which is
listed as a finding.

`MCEncounters`: a node and a person, windows of two instants and two events, four
attempts over four instants, so that a window fills, empties and is pruned; two
slots, so that one mark halves the cap and two make it 0.  `MCDiscovery`:
two hosts of one peer (a host reachable at two addresses) and one that is not
ours, two starts, two probes in flight per host.  `MCBleTransport`: two messages one
way and one the other, each empty or of three bytes, in chunks of one byte (MTU 4: the
clamp) or two (MTU 6: a short last chunk), so that an empty one follows a cut one; two connections each, so that a link is lost and
made again.  One caller on each device: overlapping sends are a finding.
`MCScanScheduler`: interval 2, multiplier 2, cap 7, so that the last step of the
backoff is cut by the cap; two windows before backoff; a window as long as the
interval, so that the pause may be 0.  `MCNodeStart`: one row, two
keys, three starts, so that two crashes precede a start.

**Deadlock** is checked for `LibraryService`, `DeferredBlobQueue`, `Encounters`,
`BleTransport` and `ScanScheduler`.  It is off for
the swap runs, where a finite number of swaps is started and all of them end; for
`HttpTransport`, whose messages and disturbances are bounded and whose client
stops polling for good after a 401; and for `Discovery` and `NodeStart`, whose
starts are bounded.

**Fairness.**  `FairSpec` assumes weak fairness of `Step(s)`, everything a started
swap does by itself, and of `Deliver(d)`.  The event loop justifies both: an
`await` on a storage or transport call resumes, an armed timer fires
(`receiveTimeoutMs` is always given a value), and a message that has arrived is handed
to the first waiting call.  `Start` and `Expire` are not fair: nobody has to
meet a peer.  Nothing is assumed of the network: a lost message stays lost, and
`EverySwapEnds` then rests on the timer alone.  In `HttpTransport` each request
under way advances (the loops of both sides run, the server's poll timer fires, the
network delivers or fails a request); nobody has to send, connect or disconnect.
`QueuedIsFetched` promises delivery from the moment no disturbance is to come and
no request of an earlier connection is still to arrive (`Undisturbed`): before
that a message may be written to a poll nobody reads, and is lost.  In `Discovery`
the recurring task fires, a request ends (by its timeout if nothing else), an
advertisement in range is heard and listen and close call back; in `BleTransport`
the library answers every call, rejecting it when the link is gone, and a
swap whose send failed calls `disconnect`, as its catch block does; in `ScanScheduler`
time passes and a due timer fires.  Nobody has to call start or stop, and no link
has to hold.  `Encounters` and `NodeStart` assume no fairness.

## 4. What is proved

Every theorem holds for all values of the constants that the assumptions of its
module admit.  Where a property needs more, the theorem says so, and the instance of
the run that checks the property meets the hypothesis.  The inductive invariants were
checked by TLC on these instances before they were proved.

`LibraryServiceProofs`, for every set of items, callers, sizes and capacities:

| Theorem | Property | Argument |
|---|---|---|
| `TypeCorrect` | `TypeOK` | inductive by itself, one step per action |
| `PoolsStayBounded`, `BytesStayBounded` | `PoolsBounded`, `BytesBounded` | bounding the current library is not inductive: `Install` replaces it by one computed long ago.  `WithinInv` bounds the library of each call as well (`StaysWithin`).  For the bytes, `byteSize` is a fold in an order nobody chose: its value is shown to exist, not to depend on the order (`WeighingsAgree`), to be a sum (`ByteSizeOf`) and to grow with the set (`ByteSizeGrows`) |
| `HeldStaysDurable` | `HeldIsDurable` | `DurableInv`: each call's library lies within what is stored or taken down, plus the item it has yet to save (`Backed`).  Stored or taken down never shrinks, so every caller's fact survives the others' steps |
| `SwapNeverTouchesLocked` | `SwapKeepsLocked` | only `SwapReconcile` can make the step, and it evicts swappable items only and adds unlocked ones only (`ReconcileKeepsLocked`) |

`SwapServiceProofs`, for any devices, sessions, items, logs and initial libraries,
with loss, timeouts and failures as the model has them, and any number of calls by
users and operators at any moment:

| Theorem | Property | Needs | Argument |
|---|---|---|---|
| `TypeCorrect` | `TypeOK` | | one step per action; what is delivered was queued |
| `StateMachineFollowed` | `FollowsStateMachine` | | each step of a session maps to one event of the reducer in a phase that allows it, or to a stutter; a message of another swap changes nothing of that |
| `LockedItemsStayHome` | `LockedStaysHome` | | `HomeInv`: what is in an offer on its way, or accepted, was swappable in the snapshot of a session that talks to the device (`Shown`).  Snapshots are kept (`ShownGrows`); what is offered comes from the snapshot, since the only round before the offer takes items away (`RoundsInOrder`).  It holds with any number of overlapping swaps, although one may take the offer meant for another |
| `RevokedItemsStayOut` | `RevokedNotTakenIn` | `InPairs`: each device swaps once, with a peer that swaps with it | `RoundsInOrder`: what was listed is known, and nothing known is accepted, whatever the log has become since; `TakeInv` (below) for what the peer listed |
| `SidesAgree` | `SentWasAccepted` | `InPairs` | `SentInv`: the messages between a pair are at most the next of each round, and each is what its sender's state says; a round is answered once |
| `TakedownsReachBothSides` | `RevocationApplied` | `InPairs` | `TakeInv`: a list on its way is the one its sender began with (`IsListing`), and from the revocation round on a side knows all of it and works on nothing that it takes down (`Cleared`) |

Without `InPairs`, `SentWasAccepted` is false: that is the run `swap_hub_crosstalk`.
`OnePerDevice` within it is stronger than what the code needs; see the plan.

`TransportProofs` of `HttpTransport`, for any number of messages, polls and handshakes:

| Theorem | Property | Argument |
|---|---|---|
| `TypeCorrect` | `TypeOK` | with `Begun`: a request that is under way has been numbered |
| `NothingWaitsForAPoll` | `QueueOrPoll` | inductive with the types: whatever registers a poll or fills the queue looks at the other first |
| `OnePollAtATime` | `OnePoller` | inductive with the types: the loop starts a poll only when it has used or dropped the last |
| `MessagesInOrder` | `ReceivedInOrder` | `OrderInv`, with both of the above: what is received comes before what an answer carries to a live poll, and both before what waits in the queue (`InTurn`); the abandoned polls carry nothing the client will use |

`TransportProofs` of `BleTransport`, for any MTU, any sizes of messages, and any
number of messages and connections:

| Theorem | Property | Needs | Argument |
|---|---|---|---|
| `BleTypeCorrect` | `BleTypeOK` | | for any number of callers.  `WithinMessage`: no more than all of a message under way has been written, so the next chunk is inside it (and is empty for an empty message) |
| `BleInOrder` | `WholeAndInOrder` | `OneCaller`: a device has one send or disconnect under way at a time | `BleInv`.  `Holds`: a reassembler that has missed nothing holds exactly the bytes its peer has written of the message under way, and nothing between messages; its next chunk continues them (`HoldsNext`).  `OneSubscription`: a frame reaches one reassembler, so a message is delivered once.  `DeliveredSoFar`: the deliveries so far can be numbered, and all come before the message under way |

With two callers on a device `WholeAndInOrder` is false, as TLC shows on the same
instance: both connect, or their chunks meet in one buffer (section 6).

`DeferredBlobQueueProofs`, for any blobs, callers and backoff:

| Theorem | Property | Needs | Argument |
|---|---|---|---|
| `TypeCorrect` | `TypeOK` | | `Reading`: a pass is always inside the array it iterates over |
| `GivesUpOnlyWhenExhausted` | `NeverGivesUpEarly` | | `AttemptsCounted`: no entry, in the queue, the file or the locals of any call, counts more attempts than its blob has failed.  It holds for overlapping passes too |
| `AcceptedBlobsStay` | `NothingForgotten` | `~Overlapping` | `KeepInv`: all along a pass each queued blob is ahead of it, set aside, held or given up (`Kept`), and a call that is saving finds its blob there as well (`Accepted`).  With overlapping passes it is false, and a finding |

`EncountersProofs`, for any peers, limits, windows and attempts:

| Theorem | Property | Argument |
|---|---|---|
| `TypeCorrect` | `TypeOK` | the cap never exceeds the slots, whatever the counts (`CapWithinSlots`) |
| `NothingRecentForgotten` | `ForgetsNothingRecent` | `EventsInv`: what is kept is some of the attempts and all of those in the window; time only moves the window on |
| `NoWindowBursts` | `NoBurst` | a window that is closed no longer changes; one that is open holds no more than what `Admit` has just counted, by `EventsInv` |
| `PenaltyNeedsReciprocity` | `ForgivenByReciprocity` | step by step, from the types: a mark is one of reciprocity or of fault, never both |

`DiscoveryProofs`, for any hosts, peers and number of starts:

| Theorem | Property | Needs | Argument |
|---|---|---|---|
| `TypeCorrect` | `TypeOK` | | one step per action |
| `PortsImplementDiscovery` | `ImplementsDiscoveryPort` | `CallsAwaited`: only the prober's calls may overlap | `PortInv`: per adapter, what its fields say of the start in force, and that a peer counts as reported exactly when it was; each action is then one of the port's or a stutter |
| `StopsAreQuiet` | `QuietAfterStop` | `CallsAwaited` | from `PortInv`, which says that between calls the device is advertised only while a start is in force or after a refused stop |

`ScanSchedulerProofs`, for all whole, positive settings with the window no longer than
the interval (whatever the cap), when onWindowStart leaves the scheduler alone and onWindowEnd at most stops it
(`Behaved`; what a restart from a callback does is a finding):

| Theorem | Property | Argument |
|---|---|---|
| `TypeCorrect` | `TypeOK` | a new handle always exists, and `BackoffStaysInRange` |
| `RunsOneChain` | `OneChain` | counting timers is not inductive: stop cancels the handles in two fields, so `ChainInv` also says that the field for the pending timer's kind names it |
| `IntervalIsDue` | `IntervalFollowsSilence` | `SilenceInv`: the two fields of the scheduler remember the number of silent windows (`Remembers`).  Multiplying and cutting step by step is the same as cutting the power once (`BackoffFollows`, `PowerGrows`) |

`NodeStartProofs`, for every set of hashes and keys and any number of starts:

| Theorem | Property | Argument |
|---|---|---|
| `TypeCorrect` | `TypeOK` | `Schema`: between two statements, the columns are what the version in the file promises and what the migration under way has added.  The version lags behind the columns, never the other way round |
| `RowsReadBack` | `ReadsWhatWasSaved` | the property speaks of an open repository; `DbInv` says it of every moment, so that it survives the statements of a migration.  A backfill changes the row, not what is read from it (`FilledReadsTheSame`), and a saved token reads back as itself (`WrittenReadsTheSame`) |
| `KeepsOneIdentity` | `OneIdentity` | `KeyInv`: a file is complete before what it holds is used, so whoever signed is in the identity file and what was served is on disk |

**Recursion.**  Induction over data is not available, since the induction theorems
take an operator.  Where a proof needs it, for the fold of `byteSize` and for the
powers of the backoff, it takes a smallest counterexample instead: the order on the
naturals is well founded (`NatLessThanWellFounded`), so a nonempty set of bad sizes
or exponents has a least member, and the definition unfolded once refutes it.  The
list of a set's members in increasing order, in which `BleTransport` has
subscriptions called, is shown to exist in the same way (`OrderingExists`).

**Assumptions.**  `Item` is finite, sizes are natural, priorities are integers and
include 0, capacities have natural slots, the configured one is valid, and
`MaxTotalSlots` is positive; the initial states of `SwapService` are libraries, logs
and sets of items (`InitialAssumption`), and its sessions join two devices; the mark of
no poll or handshake is none of them; the backoff has natural delays and at
least one attempt; the radio joins two devices, sizes of messages (0 is one) and the MTU are
natural, however small; limits and windows are positive; a host is at one peer or at none;
no key is one of the marks of a missing or cut file; the scan settings are whole and
positive, which the constructor does not check, and the window fits the interval, which
it does.  The bounds are natural numbers.  TLC evaluates them all in
every run of those modules.

## 5. What is only model-checked

* Liveness, which needs fairness and `ENABLED`: `EverySwapEnds`,
  `UndisturbedSwapsComplete`, `EverySendEnds`, `EveryBleSendEnds`, `QueuedIsFetched`,
  `AnsweringPeerFound`, `KeepsScanning`.
* The hypotheses `InPairs`, `OneCaller`, `CallsAwaited` and `Behaved`
  are about how the code is called, not about the code.  Every invariant and every
  action property of a passing run is a theorem.  `LockHolds`, `CreateSucceeds` and,
  beyond pairs, `SentWasAccepted` are false (section 6).

## 6. Findings

With a run: a restart can throw (`library-service.ts:93`); a lock, or any other
change, made while an add or a swap is in flight can be lost
(`library-service.ts:197`, `:157`); concurrent swaps of one device answer each
other's peers (`swap-service.ts:608`).

Met while modelling, without a run; `PROJECT.json` quotes the comment or document
each of them contradicts:

* *Swaps and libraries*: an operator's revocation hides the signer's later one; a
  known takedown can be offered again; a capacity decrease binds only later swaps;
  an error that carries a completed state; stored tokens no library holds;
  placeholder seeding; the phone without a revocation log; a takedown that a
  running swap undoes; an item locked during a swap that is offered all the same; an
  item revoked during a swap that is accepted all the same; a peer whose accept cap
  is 0 can never be reciprocal; reciprocal swaps banked ahead of the marks they offset.
* *Blobs*: a queued blob can be missing from the file; a truncated blob counts as
  held; overlapping passes lose entries; overlapping calls enqueue a blob twice.
* *HTTP*: a client whose session expired stays silent until it disconnects; a
  handshake that failed is never tried again before that.
* *BLE*: what one reassembly buffer cannot tell apart; a second connection made
  while the first is awaited; links that are left up, or remembered when gone.
* *Discovery*: a stop during a start's await, a start during a stop's; a start
  whose listener was rejected blocks the next; a refused stop of the radio leaves the
  device advertised, and no later stop repeats it.
* *Scan scheduler*: `stop` inside a callback leaves a timer; a report that comes just
  after its window, or before a stop, is lost; a cap below the interval makes the
  backoff shorten it.
* *Node*: an interrupted migration is repeated and rejected for ever; an identity
  file cut short; listeners left open by a failed start; health after a stop;
  the certificate of a former bind host; NULL signers after the backfill.

## 7. Plan

Done: every module of section 2, checked; theorems about all of them.  Left:

1. A second swap between the same two devices, so that a `receive()` which timed out
   can swallow its message; several calls by the users during a swap, with every fault.
2. Several peers of one `HttpTransport`, joined to `SwapService`: which swap the
   message that announced a peer goes to.
3. Proofs: `RevokedNotTakenIn`, `RevocationApplied` and `SentWasAccepted` for several swaps of a
   device that do not overlap.

## 8. Not modelled

* The priority policy: weighted scores that no composition root writes into an
  entry.
* Token and wire encodings, hashing and signatures: SwapService sees a message as
  its kind and what it carries, and one that does not decode as one of the wrong
  kind.
* Deleting blobs and the integrity check of `get`, routing and parsing of the admin
  HTTP server, configuration, screens, placeholder seeding, development
  scripts: conversions, I/O and presentation, without state that the properties
  could tell apart.
* The rotation of a person's identity: no composition root constructs the adapter
  in that mode.
* The contract suites and fakes of `core/src/ports` and `core/src/policies`, which are
  tests in shape; two fakes that stand for a platform (the in-memory transport and
  revocation log) are modelled as `SwapService` uses them.

The map names code, not comments.  More than half of the implementation's lines are
documentation, and much of the rest is the list above, types and barrels; what
decides, waits, stores and fails is mapped.
