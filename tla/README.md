# TLA+ models of sitos

sitos is a distributed parameter store on Zenoh.  A *storage node* embedded in a
host process keeps base parameters and *sessions* (a snapshot, an overlay and
optional buffers per sid).  Clients write and read through a transport
(`ParamStore`, `ParamCache`, `SessionView`, `BufferPublisher`), and two protocols
turn fire-and-forget publication into something a caller can rely on:
*acknowledgements* (ADR-0028) and *fences* (ADR-0029, ADR-0035).  Durable sessions
have an on-disk lifecycle recorded in a catalog (ADR-0036).

Paths below are relative to the repository.  Every definition that models code
names its lines in `PROJECT.json` under `map`.

## 1. Inventory

| Part | State | Operations | Interacts with |
|---|---|---|---|
| Fence lane (`fence.cpp`, `FenceLaneState`) | highest seen, completed prefix, first failure, failure count | Admit, Complete, RecordOverflow, RecordMalformed, Evaluate | receiver registry |
| Fence receiver (`fence.cpp`, `storage_node.cpp`) | lanes per (sid, generation, class, publisher), poisoned scopes, dispatch tickets, claims and answers | DispatchSample, OnSample, ApplyBufferFenceMarker, EraseSession, CloseAndWait | session record, ack registry, store |
| Durable session (`storage_node.cpp`) | session record, catalog record, directory, store, liveliness token, latch | CreateSession, RetainSession, CloseSession, Start, Stop, buffer reads and writes | catalog, file system, RocksDB |
| Fence publisher (`fence.cpp`) | last sequence, pending waiter, first submission error, bound generation | SubmitData, BeginFence, Wait, Complete, Close | transport, ack polling, ParamCache |
| ParamCache (`param_cache.cpp`) | baseline, effective values, buffered samples, live generations, stale flag, recovery thread | Attach, Put, Get, WaitForLocalDelivery, OnLiveliness, RecoveryLoop, Detach | storage node queries, fence publisher |
| Ack registry and client (`ack_registry.cpp`, `ack_client.cpp`) | processing and completed tokens, ring of bounded size | Claim, Complete, RecordRejected, Find, poll | OnSample, OnQuery |
| ParamSubscription (`param_subscription.cpp`) | staging queue, active flag, callback count | Subscribe, OnSample, Drain, Close | transport |
| Get completion (`transport/get_completion.*`) | leases, dropped flag, result | AcquireCallbackLease, ProcessReply, WaitForResult, ReleaseCallback | transport callbacks |
| SessionView, BufferPublisher, ParamStore | little or none | composite reads, discovery, calls | the parts above |
| Session catalog (`session_catalog.cpp`) | schema, instance and session records in RocksDB | Open, LoadEntries, Put, Find | durable session |
| Keys, values, batches, acknowledgement codec | none | build and parse keys and selectors, encode and decode bytes | every part |
| Engines, hashing, configuration | data structures and pure functions | | |
| Python bindings and package | callback channel, dispatcher thread, GIL | wrappers | the C++ API |

What makes the system hard: callbacks of one publisher run on several transport
threads; a sid is closed and created again while callbacks of its earlier
generation are in flight; a callback looks a session up under a lock and touches
its store after releasing it; Stop and CloseSession drain several populations one
after another; queues and registries are bounded and drop; a catalog write may
fail after reaching the disk; power is lost between any two disk operations; a
liveliness token is declared outside every table lock.  `PROJECT.json` lists each
hazard at its line.

## 2. Map of the project

| Module | Models | Checked by |
|---|---|---|
| `FenceLane`, `FenceReceiver` | fences, receiving side | `fence`, proofs |
| `FencePublisher` (`MCFencePublisher`) | fences, sending side | `publisher`, `publisher_progress`, `publisher_refusal` |
| `DurableSession` | durable lifecycle and catalog | `durable`, `durable_readiness` |
| `ParamCache` | cache with recovery | `cache_recovery`, `cache_progress` |
| `AckedWrites` (`MCAckedWrites`) | parameter writes and acknowledgements, client to engine | `acked_writes` |
| `NodeQuery` (`MCNodeQuery`) | reads, client to engine and back | `node_query` |
| `SerialDelivery`, `ParamSubscription` | a subscription's contract, and its implementation | `param_subscription` |
| `Keys`, `Codecs`, `WireFormats` (`MCWireFormats`) | keys, selectors and byte formats | `wire_formats` |
| `Fence...Proofs`, `FenceTheorems` | proofs about the receiving side | TLAPS |
| `DurableProofs`, `DurableTheorems` | proofs about the durable lifecycle | TLAPS |
| `AckedTheorems` | proofs about parameter writes | TLAPS |
| `SubscriptionTheorems` | proofs about a subscription | TLAPS |

Next: the composition of `FencePublisher` and `FenceReceiver` against one contract
(an Ok fence means every earlier submission is stored), the cache-side fence lane,
and an inductive invariant of `ParamCache`.

## 3. Modules

### FenceLane

The arithmetic of one lane.  A lane is a record of `highest_seen`,
`completed_through`, the first failure and a saturating count, exactly the members
of `FenceLaneState`.  `Admit`, `Complete`, `RecordOverflow`, `RecordMalformed` and
`Evaluate` are operators from lane to lane.

### FenceReceiver

The storage node's receiving side for one sid and one buffer class.  Callback
threads deliver samples of a few publishers; a sample carries valid lane metadata,
malformed metadata or a marker.  The steps of a callback follow the code:
admission to the node's gate, lookup of the session and a dispatch ticket under
`session_mutex` (`Dispatch...`), waiting for the ticket (`TakeTurn`), the admission
lease (`AcquireData`, `SelectMarker`), the store access (`WriteData`), the lane
completion (`CompleteData`) or evaluation (`EvaluateMarker`), and leaving.  The
lifecycle thread creates, rolls back, closes and stops.  `CloseDispatch`,
`DispatchDrained` and `AdmissionDrained` are the waits of `CloseAndWait` and
`WaitForAdmission`.  History variables record what was stored, completed, lost and
answered, so that properties can talk about the past.

Left out: the ephemeral class next to the durable one (the same code with another
key); buffer samples without lane metadata; a malformed sample that does not even
name its publisher; eviction of old answers from the ack ring; allocation failure
inside the ack registry (the marker is then simply unanswered); a Start after
Stop.  `subscriber_mutex` only adds serialization and is not modelled, which gives
the model more interleavings than the code.  Data of an earlier generation that
arrives after a re-creation is admitted to the new generation's lane by the code;
`docs/03_wire_protocol.md` says it is not isolated, and no property claims so.

### DurableSession

One sid of a node in catalog mode.  `disk`, `dirs`, `store` and `synced` survive a
crash, everything else is process memory.  Threads run CreateSession,
RetainSession, CloseSession, a durable write or a durable query; Start is run by a
thread too.  One action is what the code does between two points where another
thread can intervene: `catalog_mutex` is the variable `holder`; the shared holders
of `catalog_gate` are the threads whose `pc` is in `InGate`, and `Latch` is its
unique side; `liveliness_mutex` is held by a thread at `"announcing"`; what runs
under the unique `session_mutex` is one step.  Generations are numbered in the
order their UUIDs are drawn.

Disk operations may fail (`Fail`, bounded by `MaxFailures`).  A failed catalog
write leaves the in-memory record alone and the durable one in either state; the
writer keeps `catalog_mutex` until the latch is published.  `Crash` drops any part
of what was not synchronized.  `LatchElsewhere` stands for the failed write of
another sid, which latches the whole node.

`SessionCatalog::Open` is two steps: the directory appears (`OpenCatalog`), then the
schema is written (`InitializeCatalog`), and a crash may separate them.  A record
carries the optional members that are not null (`Mark`); every writer says which it
adds or clears, and `HasLifecycleMetadata` is what the decoder of the next Start
demands, so `CatalogMatchesDisk` fails if any sequence of operations writes a record
that would make the whole catalog unreadable.

A thread's locals are reset when its call returns: nothing reads them, and the state
space is a third of what it would be.

Left out: stores made by a host factory (ADR-0032); sessions without the durable
route, which have no record; the JSON text of a record and the syntax of its UUIDs and
timestamps; directories the node did not create; the Sync of a fence marker, which only
makes more entries durable.

### FencePublisher

The sending side, used by several threads.  `lane` is `lane_mutex_`; a section
under `waiter_mutex_`, a waiter's own mutex or `wait_lifecycle_mutex_` is one step.
A caller submits data (`SubmitData`, `DrawSequence`, `PutData`, `RecheckData`), runs
a fence (`BeginFence` to `ReturnHandle`, then `ReturnEarly` to `Release` for Wait)
or closes.  `Sample`, `Reserve`, `Validate` and `Publish` are the two-phase
publication of `PublishWaiterResult`, run by `Complete` for a cache target and by
the poll of a buffer target.  `Replace` changes the transport generation at any
moment, `Expire` lets a deadline pass.  The receiver is abstract: it takes what was
put in order, may miss any of it, and answers Ok exactly when it has stored the
covered prefix; `FenceReceiver` is what justifies this.

The target is chosen once, by `Init`.  Push and Fence of a `BufferPublisher` are
externally serialized (`docs/04_api_cpp.md`), which `Serialized` states; the calls of a
`ParamCache` are not.  A Put that fails may or may not have been sent: one that was not
is the same, to everybody, as one the receiver misses.

Left out: diagnostics carried by a timeout; a transport without the fence profile;
an answer that does not decode or has another fingerprint.

### ParamCache

One cache followed at one key.  `states` holds the `State` objects, `leases` their
`in_flight` holders, `active` is `active_state`.  `Attach` and the recovery worker run
the same `BuildCandidate` (`DeclareCandidate`, `FetchSnapshot`, `FetchOverlay`,
`GoLive`, and `CloseCandidate`, `CleanedUp` on failure) and the same `QuiesceState`
(`CloseReplaced`, `Quiesced`); `pc` says where each of the two is.  What runs under
`Recovery::mutex`, `sequence_mutex` or `gate_mutex` is one step.  A callback takes its
lease (`EnterCallback`) before it applies (`OnSample`); a Put loads the State, takes
the lease and submits, and then applies.  The Session on the node is its generation,
one snapshot value, one overlay value and the token.  The path may be lost: samples
of others published meanwhile never arrive and Gets return nothing.

The transport is assumed to behave as one router does: what it delivers to this
process it delivers in order, and a Get sees the writes routed before it.  Without
that no client could tell a late sample of an old generation from a new one.

Left out: the fence lane and the dispatch tickets of a cache; transports without
liveliness; several keys (batches are one mutation); move operations.

### AckedWrites

Put, PutBatch and Delete from the client's local checks to the engine and back.  A call
is submitted, its sample may be lost, delayed past a restart or delivered twice, and one
of the node's callbacks takes it through OnSample: the lease, the application lane
(`EnterLane`), the token's claim, the decision what to reject (`Verdict`), one engine
call per entry (`Invoke`, `EngineTrue`, `EngineFails`; it may fail or throw before or
after changing the store) and the completion (`Finish`, `GuardResult` when something
threw).  `ReentrantSample` is a sample delivered on the thread that is inside an engine
call.  The registry keeps `Capacity` results and drops the oldest.  The caller polls until
it finds the result or its deadline passes.

Left out: fingerprint collisions of two random tokens; an exhausted allocator; the log.

### NodeQuery

Get, Contains and List of `ParamStore`, the generation discovery of `BufferPublisher`, and
the reads of a `SessionView`.  A query is submitted once a queryable is known
(`WaitForStorageNode`) or the wait has expired; the node admits it (`OnQueryable`), selects
the reader (`SelectReader`), collects one consistent list (`Collect`) and replies entry by
entry; `GetCompletion` on the caller's side enrols each reply callback, serializes them in
the sink and ends when the reply context was dropped and no callback is inside.  A view
takes readers, an admission and a lease, and releases them before it calls the sink, whose
code may itself close the session or stop the node.  Writes, CreateSession, RetainSession,
CloseSession, Stop and Start run meanwhile; a query or a reply may be lost, refused or
repeated.  `allowed` collects what the scope held at each instant of the call.

Left out: the other metadata of a session; concurrent queries of several readers, which
share nothing but the node's gate.

### SerialDelivery and ParamSubscription

`SerialDelivery` is the contract: one change at a time, each at most once, in order, none
skipped, nothing after Close.  `ParamSubscription` is Subscribe with its staging queue,
samples on several transport threads with one of them draining for all, samples nested in
the callback, Close by several threads, and above it the Python channel, dispatcher thread
and `Subscription.close`.  The refinement maps the queue, the item being delivered and the
phase of the subscription; every step of the detailed module is a step of the contract or
leaves it alone.

### Keys, Codecs and WireFormats

Pure functions.  `Keys` has the key grammar, the marker routes (strict and loose) and the
path of a List: prefix validation, the enclosing selector, the node's reading of it and the
client's filter.  A text is a sequence of symbols, one per character the grammar tells
apart or per word it knows.  `Codecs` has the byte formats with the widths of the integer
fields as constants; a one-byte u32 lets byte strings of length seven reach every branch of
the batch decoder.  `WireFormats` asks each question once and compares the answer with a
definition that parses nothing: what the builders build, the layout of
`docs/03_wire_protocol.md` written out, the byte ranges of the Unicode standard.

## 4. Runs

| Run | Instance | Shows |
|---|---|---|
| `fence` | 3 fair callbacks, 1 publisher, 2 dispatch slots, 1 generation | Ok proves the whole prefix, also when samples are dropped for capacity; stores happen once and in order; no callback uses a released session; answers are final; admitted callbacks, closes, rollbacks and stops finish |
| `durable` | 2 fair threads, 2 generations, 2 crashes, 1 failure | the catalog is readable and agrees with the directories, retained data survives, no use after release, no stale token, legal record transitions with removal only while deleting, a latched catalog freezes the disk, calls return, deletions resolve |
| `durable_readiness` | 2 threads, 1 failure | a violation, see section 7 |
| `publisher` | 2 callers, 1 callback, 2 fences, both targets | lane order on the wire; a verdict is the published, validated and timely answer to that fence, and the first decision stands; Close leaves nobody inside |
| `publisher_progress` | 2 fair callers, 1 fence, both targets | every call returns |
| `publisher_refusal` | 1 caller, 1 callback, 2 fences | a violation, see section 7 |
| `cache_recovery` | 2 generations, 1 outage, 1 local writer, 1 write | a bound cache holds what the node holds, also when samples are lost and Puts run across the rebuild; the active State always serves |
| `cache_progress` | Attach, Detach, Attach with a writer and 1 failure, fair threads | nothing outlives Detach, an announced generation is bound, Attach and Detach return |
| `acked_writes` | 2 writes of every kind, 2 callbacks, a ring of 1, 1 duplicate, 1 restart | results and answers tell what the store holds, a token is applied once, batches stay together, everything ends |
| `node_query` | every kind of read, 2 reply callbacks, 1 writer, 3 changes, 1 fault | a read answers what was so at one instant, its callbacks end with it, closing and stopping are quiet, every call returns |
| `param_subscription` | 2 native threads, 2 closers, 3 samples, C++ and Python | the refinement of `SerialDelivery`, quiet Python callbacks, every call returns |
| `wire_formats` | all short texts and payloads, and one edit from what is written | one text has one reading, a List is exact, batches and acknowledgements decode exactly, diagnostics can be sent |

Every property has a mutant of the code in `PROJECT.json` that violates it: a
dropped wait, a skipped check, a swapped order.

**Bounds.**  Three callbacks are what a reordering between two data samples and a
marker needs, and two dispatch slots for three callbacks make the queue overflow.  The
full lane registry and a second generation are not in the `fence` instance; the theorems
of section 5 cover them for every capacity and number of generations.  In `durable`, two
generations are what a late closer of the first needs to meet the second; two crashes
reach a crash during the recovery from a crash; one failure, in any order with them,
reaches a failing step of every operation.  One buffer entry is enough because entries
are independent and write-once.  Two fences let a late answer to the first meet the
second; two callers and one callback are what a disconnect needs to race a completion and
a Close.  One value and its absence are enough to tell a lost, stale or reordered sample
in a cache; two messages in flight let a sample and a liveliness event queue behind each
other.  Two writes and a ring of one make eviction happen while a result is wanted; a
batch of two entries has a middle.  One reader with two reply callbacks meets every
ordering of reply, drop and return; three changes are a write between a close and a
creation.  Three samples let one be delivered, one queue and one arrive.  The alphabets of
`wire_formats` hold a character of each class of the grammar, the bytes next to every
limit of a range, and prefixes and ids of which one is a prefix of the other.

`fence` and `durable` check for deadlock.  The other systems may stop when they have no
more calls and events, and their runs do not; that no call or callback is stuck is what
the liveness properties say.

**Fairness.**  A thread that can step does (weak fairness per thread, or, in
`node_query`, where everything is bounded, of all threads together); a Stop whose drain is
over finishes; deadlines and query timers pass; in `durable` a host whose node is down
starts it again.  Calls themselves are never forced, no lock is fair and nothing is
assumed of the transport, with one exception: in `cache_progress` it delivers what is in
flight.  Durable accesses are bounded by `MaxAccesses`, because a stream of readers could
keep the latch out of the gate.  Engine calls and user callbacks return.

## 5. Proofs

Four components are proved for every value of their constants.  What each theorem says
is in the comment before it.

### Fences, receiving side

`FenceTheorems` proves for every number of callbacks, publishers, generations and
every capacity what the run `fence` checks on a small instance, and three facts the
run leaves to the proof: the types with the saturating counters (`TypeCorrect`), that a
completion is the next of its lane (`CompletionOrder`) and that tickets are neither lost
nor shared (`TicketSafety`).  The properties are not inductive.  The strengthening `IInv`
(`FenceReceiverProofs`) adds how the session phases follow the lifecycle (`SessionInv`),
that a dispatch entry pins the live record of its generation (`EntryInv`), what a callback
holds at each step (`CallbackInv`), that each ticket from the one served to the next one
has one holder (`TicketInv`), that the lanes are sound and a scope is poisoned only when
the registry is full (`ReceiverInv`), that the pending callbacks of a lane hold its
uncompleted reservations in ticket order (`ReservationInv`), that a future generation
has no trace (`FreshInv`), that the live lanes describe the store accesses
(`StoredInv`), that a lost sample is remembered somewhere (`LossInv`) and that a
processing token is claimed once (`ClaimInv`).

`FenceReceiverProofs` starts with the facts about the lane operators and
`EvaluateOkIsClean`, then proves the types and what a delivery and a callback do to the
lanes; `FenceCallbackProofs` the session, entries, callbacks, tickets and reservations;
`FenceTheorems` stores, losses, answers and the theorems.  Each step lemma has one case per group of actions.

### Durable sessions

`DurableTheorems` proves all six safety properties of the run `durable`, for every number
of threads, items, generations, crashes, failing disk operations and accesses: the four
invariants (`CatalogSurvivesPowerLoss`, `RetentionIsDurable`, `AccessPinsEngine`,
`TokenIsWithdrawn`) and the two action properties (`LifecycleIsRespected`,
`LatchIsFinal`).

The inductive invariant `IInv` (`DurableProofs`) ties together the three records of a
session: the one on disk, the catalog's view of it and the session record in memory.
`ControlInv` says where a call can be, `LockInv` who holds `catalog_mutex` and that nobody
is inside the gate of a latched catalog.  `SyncInv` says that view and disk agree unless
the catalog is still to be loaded or a write has failed, in which case it is latched or its
writer is about to latch it; this is what makes every later step sound.  `RecordInv` and
`CreateInv` say how the session record follows the view and which call owns it.
`DeleteInv` says that a deletion in progress is on disk (`Doomed`) and that nobody holds
the engine of a generation whose removal has begun.  `AdmissionInv` says that an admitted
call pins the record and what its Sync has covered; `PromiseInv` that what a retention
promised stays synchronized until its generation is doomed; `TokenInv` that a declaration
in progress belongs to the active session or that a close or a retention waits for it.

The argument has three layers.  A step that only moves one call from place to place
(`Moves`) keeps the invariant whatever the call (`MovesStep`), so the actions that read
and decide need one line each (`StepMoves`).  The six steps that write the catalog share
one obligation, that the record they write fits what is in memory and in the directories
(`Fits`); from it both the success and the failure of the write follow, a failure leaving
either record on disk.  Both layers are in `DurableProofs`, with the lemmas that say when a
step of one thread keeps what the invariant says of the others (`ControlFrame` to
`TokenFrame`).  The other steps, the crash and Start included, are in `DurableTheorems`.

### Parameter writes

`AckedTheorems` proves the four safety properties of the run `acked_writes` for every set
of requests, entries per batch, callbacks, ring capacity, duplicates and restarts
(`ResultsTrue`, `AnswersTrue`, `AppliesOnce`, `BatchesContiguous`).  Its invariant says
who is in the application lane and which token is in processing (`LaneInv`), that the ring
holds the completed tokens once each (`RingInv`), what the callback in the lane has done:
the confirmed engine calls are a prefix of its entries, and the last of them is the last
mutation of the store (`ApplyInv`), what a completed result says of the calls that were
made and how often a token was applied (`ResultInv`), and what the callers were told
(`AnswerInv`).  `Work` covers every step inside the lane, `Registered` every step that
leaves a result in the registry, the oldest one making room.

### Subscriptions

`SubscriptionTheorems` proves that a subscription implements `SerialDelivery`
(`SubscriptionDelivers`, the property `DeliversSerially`) and that a closed Python
subscription is quiet (`PythonCallbackStops`), for every number of transport threads,
closing threads and samples.  The invariant says that samples are staged exactly until
Subscribe decides (`SubscribeInv`), that `native_in_flight` counts the callbacks between
admission and return (`NativeInv`), that there is one drainer and an item is current
exactly while it delivers (`DrainInv`), that a close gets past its wait only when
nothing admitted is left (`CloseInv`), and that the dispatcher has ended when a close by
another thread has returned (`PythonInv`).  Most steps are invisible under the refinement
mapping (`Quiet`); Push, Drain, the end of a delivery, FailStaging, Activate and
CloseQuiesce are the steps Take, Begin, End, Fail, Open and Close.

### Assumptions, and what is only model-checked

The constants are assumed only to be what their declarations say: capacities and
bounds are naturals, the last sequence is at least one, the ways a store write
fails are statuses other than Ok, the ring of completed results has room for one, the
threads of a subscription's different roles are different threads, and no thread or token is
the absent one.

Only model-checked: liveness, which is outside the prover's reach; the recursion over
texts and bytes in `Keys` and `Codecs`, because what it computes for every input needs an
induction over data; and the safety properties of `FencePublisher`, `ParamCache`
and `NodeQuery`, whose inductive invariants are planned.

## 6. Not modelled

`PROJECT.json` lists every part with what is left out of it.

- zenoh-c and RocksDB are libraries.  The models let transport callbacks run in any order
  and lose or repeat messages, except `ParamCache` (section 3); RocksDB is a store whose
  writes are durable once synchronized and may fail.
- The fence lane of a cache uses the lane and the tickets that `FenceReceiver` models for
  the node; its composition with the swap of a cache's State is not modelled.
- The JSON text of catalog records and of session metadata, SHA-256, logging,
  configuration and status texts are sequential and pure; no property is about them.
- Stores made by a host's engine factory, sessions without a durable route and the
  report of directories the catalog does not know change no catalogued state.
- Opening a transport, its configuration errors and the moves of handles.
- The Python wrappers other than a subscription: argument conversion, the GIL, the leases
  and stop phases they put around one native object, and the engine trampoline during
  interpreter shutdown.
- Tests, benchmarks and examples.

## 7. Findings

*Readiness.*  `docs/adr/0036-retained-session-catalog.md:120` says that `ready` "is
false once the latch is set and never returns to true in the same process".  The
latch is a field of `StorageNode::State`, which every Start creates anew, so a Stop
and a Start whose catalog opens report ready again (`durable_readiness`).  The
header comment of `StorageNodeReadinessReason` describes what the code does.

*Refusal after an early return.*  `include/sitos/param_cache.hpp:122` says "At most
one wait may be pending per attached cache: a second concurrent call returns
Status::InvalidArgument with std::errc::operation_in_progress".  `Complete`
publishes the terminal result before it removes the waiter from `pending_`, and the
early return of `Wait` does not remove it.  A caller whose wait returned early and
who waits again at once, with no other call in progress, can be refused
(`publisher_refusal`).
