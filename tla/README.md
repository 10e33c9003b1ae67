# A TLA+ verification of OrbitKV

OrbitKV extends the KV cache of LLM inference engines. One Cache Manager per host keeps
reusable state in pinned DRAM and on SSD, restores it into engine-owned GPU memory, and reads
it from other Managers. This directory models the parts of it whose correctness depends on the
order in which threads, tasks, processes and messages act and checks the models with TLC on small
instances. For the peer transfer protocol, the SSD store, the GPU-direct SSD lane and the
validation of GPU layouts it also proves the safety properties with TLAPS, for every instance.

Everything is translated from the Rust and Python sources under `src/`; `PROJECT.json` maps each
definition to its lines. The definitions listed under `mutants` there
("as") are plausible bugs of the code they stand beside; no specification uses them, they only
show that a property can fail.

## The system and its modules

### Peer transfer

`PeerTransfer` models one source (`peer/export.rs`: `TransferLockManager`, windows, slots,
generations, staging, the byte and session budgets; `server/src/peer.rs`: the RPC handlers) and the
Managers that read from it (`peer/completion.rs`: `TransferCompletions`, slots, permits, the
guard that releases until it is acknowledged). Each lock section of the code is one action; each
RPC is a request and a reply in `msgs`, which may stay there for ever (lost), be handled late or,
for a release, be handled twice. A requester may die and the source may be fenced at any time.
`SourceHold` says what all of this is for: a ticket is granted at most once, and what is read is
held. `PeerTransfer` implements it.

### Inventory, index, replication

`ResidencyInventory` is the owner's journal of residency changes (`storage/inventory.rs`) with
its bounded history, snapshot paging and scoped replay. `GlobalIndex` is the catalog
(`orbitkv-catalog/src/index.rs`): views of owners, a staged rebuild, deltas, byte and coverage
accounting, retirement and batched cleanup. `InventoryReplication` composes them with the
followers, sessions and frames of `cluster/inventory.rs` and the membership of
`cluster/watch.rs`. `OwnerReplica` is what a lookup may rely on; the composition implements it.
A set of expected owners carries its revision and an older one changes nothing. A lookup returns at
most a given number of replicas per key, in an order the model leaves open: `Lookup` is the set of
answers it may give, for every limit in `ReplicaLimits` (the code's limit is four; one and two
replicas, below and at the number of owners, show both a full and a short list).

### SSD store

`SsdRing` is the ring of extents (`storage/ssd/index.rs`): allocation at the head, retirement at
the tail, leases and invalid entries. `SsdStore` adds the writer task, GPU writers, readers,
flush, the set of pending writes and the inventory updates of `storage/ssd/mod.rs`, `writer.rs`
and `reader.rs`. Each lock section is an action; an inventory change that follows it outside the
lock is a step of its own (`announcing`). Batches offered to the store have at most `BatchLimit`
different keys, and the ring stops at `MaxHead`.

`SsdQueue` is the lane that moves extents between SSD and engine pages without the CPU
(`transfer/worker/ssd/queue.rs`, `decode.rs`, `storage/ssd/cufile/slot.rs`): the queue thread, one
action per step of a turn of its loop, the codec thread, the device that ends what was submitted,
and the callers. `jobs`, `job`, `slots` and `decode` are the thread's own state, `codec`, `arena` and
`scratch` the codec thread's; `lease` and `permits` are what callers see. A batch is its number in
the plan of its task. `SsdStore` sees the lane only as GPU writers and readers that end well or not.

### DRAM residency, allocation and publication

`DramCache` is the store and its three replacement classes (`storage/dram/mod.rs`, `policy.rs`).
`BlockStorage` composes it with the pinned pool (`memory/pool.rs`), the reclaiming allocation of
`storage/mod.rs`, the insert worker of `storage/publish.rs`, and readers and queries that hold
blocks. The offset allocator is external and modelled as exact: a request fits if a shard has a
free place for it. Shards are probed in one step, and a rank's layers are one slot.

### Queries and their leases

`QuerySessions` models one engine session against the Manager: the client's tickets, the query book
(`server/cache/query_control.rs`), pending reads and replies (`cache/pending.rs`), leases
(`query/lease.rs`), the byte budget with its speculative quarter (`query/mod.rs`), the registration
generation (`engine/query.rs`) and shutdown. A handler that runs under the lock of the queries is one
action; a read is a task that reads, makes its lease and then queues or retains the reply. Calls of
a coordinator may arrive in any order, twice or never. Abstracted: a block is one byte, a hash list
is its length, clocks are flags. Session reconnection is not modelled.

### Restores executed by the engine

`RestoreGrants` models the shared-memory records of `channel/completion.rs` with the four threads
that use them: the caller, the engine's executor (`python/src/local_restore.rs`), the Manager's
dispatcher and its reaper (`server/endpoint/restore.rs`), and the task that publishes plan parts.
Every compare-and-swap on a record is an action, with these exceptions: the check and the swap of
`publish_local` are one step, so are `close` with the cancellation it causes, and reading and
processing one slot. A plan part takes as many words of the bank as its number. Engine,
session, reaper and Manager may die. Two things follow from the code and are exceptions in the
properties: an engine that dies between the drain transition and the dirty bit leaves its source
held until the Manager exits, and so does a failed reaper for records it had not seen.

### Layouts, plans and GPU registration

`KVGeometry` is the validation of one layer's layout (`transfer/layout.rs`), `LayerTopology` the
sealing of an instance (`engine/instance.rs`): slots, groups, page-first shards, namespace.
`RestorePlan` computes the copies of a restore (`engine/restore.rs`, `transfer/worker/mod.rs`),
`SavePlan` where a save puts its bytes in a page or in the SSD file and how the file is read back
(`engine/publish.rs`, `storage/ssd/cufile.rs`, `transfer/worker/ssd.rs`). They are operators;
`GpuRegistration` checks them against byte-by-byte references on every geometry and every sealed
topology its runs reach, with bounded inputs (two blocks; I/O aligned as the slots or four times
coarser; one or two aligned units of staging). A managed restore that names one destination twice is
not refused by the code, so the two restore plans are compared for distinct destinations.

`GpuRegistration` itself models the life of exported GPU memory: clients that export tensors and
count credits (`python/src/registration.rs`), the connection tasks of the Manager
(`endpoint/session.rs`), the registry of imports (`registry.rs`), instances and worker pools of the
engine, sessions (`cache/session.rs`) and shutdown (`cache/lifecycle.rs`). A credit is
<<client, attempt, layer>>; handles, dtypes and texts are left out, and cleanup over HTTP is the
same path. What the properties do not promise, because the code does not: a Register that completes
on another connection after its session's cleanup stays until unregistration or shutdown; a failed
worker drain is remembered and not retried; credits whose importer is unknown are kept for ever; and
page-first instances that split the layers of a stage share a namespace with ones that do not.

### Saves through the channel

`PublishPath` models saves from Python threads (`python/src/client.rs`) through the slots of the
shared arena (`channel/arena.rs`, `client.rs`, `bootstrap.rs`, `transport.rs`) to the tasks of the
Manager (`endpoint/mod.rs`) and back. The write of a slot is three steps in shared memory, so that a
reader may see it half done. Variables: `sv` the saves, `ch` the clients' channels, `arena`,
`queue`, `reply`, `sess` and `tasks` the Manager's side, `srv` its dispatcher, permits and budgets.
Faults: failing spawn, connect, send, engine, execution or copy, an unproven or lost outcome,
unwinding, close, stop, unregistration, Manager exit. The limit on saves counts saves and not
bytes; a payload is <<save, chunk>> of one byte per header, name and block; notifications are hints
and left out, since every wait is timed. `ChannelClient::close` does not take the call lock, so a
blocking save that has passed the poisoned check can write a slot that has a new owner; `late` marks
such behaviours and the properties on requests except them.

### The vLLM connector

`VllmConnector` models the scheduler and worker adapters (`vllm/scheduler.py`, `vllm/worker.py`)
over an external engine: `rq` are vLLM's requests, `eng` its step, `sch` and `wk` the adapters,
`meta` the metadata of a step, `content` what every GPU block holds, `ledger` the leases and
`interest` the open queries. Faults: abort, preemption, a save that is rejected, a lookup that
raises, results that are unknown, waits that expire, failing restores, shutdown, and another
connector that took the pages. An exception that leaves the adapter ends the engine with its pages
held. A block has two tokens and a hash is the block's index in its request; scheduling is
synchronous; a group has one lease. A request that is held on an otherwise idle engine is reported
only with the next step; that is how vLLM asks, and no property says otherwise.

Layouts with a recurrent or a window group ask for candidates and then read group by group. Of a
window layout the model writes down the window group's table: its pages retire while the request
runs and are allocated again, which is what its pinned jobs are for. The pages of the full attention
group are pinned by the same jobs and never retire. `update_state_after_alloc` also compares what
vLLM allocated with what the lookup offered and raises when they differ; the modelled engine
allocates what it was offered, so these checks are left out.

Teardown is per rank, registration per instance: `reg` is the instance's registration at the
Manager, the ranks whose pool still takes copies and the ranks with a copy running. The workers of a
scope are the local ranks of one instance. Each joins its save thread; the first one then
unregisters the instance for all of them, the others only forget their layers. The Manager closes
and drains one pool after another before it drops the instance; what a rank submits after that ends
as a failed save. `BlocksAreOwn` says that no copy outlives the registration and that a copy whose
outcome was lost is still owned. It does not say that a rank with a lost outcome keeps the
registration: that rank raises `native Save completion unknown; registration and pages remain held`
(`worker.py:268`), yet the first rank may already have unregistered the instance, or do so later.
The drain at the Manager, and not this check, is what protects the pages.

## Runs

Bounds are named constants of the modules. They are the smallest at which every case named in
the properties occurs: two actors for each contended resource, a limit that is reached, and
generations, revisions or sequence numbers that are used at least twice.

Several runs are unions of small instances: the variable (or its index) `scope`, `shape` or
`bounds` is chosen in the initial state from a set given in the MC module, and names the actors,
limits, operations and faults of that behaviour. A fault then meets every interleaving of a small
system, and the instances together stay small enough to be explored exhaustively. Where a scope
has a field `live`, liveness is checked in the scopes that set it.

| Run | Properties | Shows |
| --- | --- | --- |
| `inventory_respawn` (fails) | `Converges` | A membership that is suspended and reinstalled can leave a member without a follower: its task had left its loop but was not yet finished when follow_members looked. |
| `ssd_announce` (fails) | `InventoryAgrees` | With a GPU writer beside the writer task, an inventory update made after the lock is released overtakes a later one, and the inventory keeps showing a block that is gone. |
| `block_storage` | `ResidencyExact`, `ReclaimIsRight`, `StorageProgress` | One saving rank and one reader over two keys of different sizes on a pool that just holds both: TinyLFU refusals, a protected limit, warmups, loads, cleanup and eviction keep the replacement classes and the inventory exact, and pressure evicts in order and overlooks nothing; and two ranks on a smaller pool under fair scheduling, where every allocation returns and the memory of half-saved blocks is given back. |
| `peer_transfer` | `SourceHeldWhileReading`, `NoOrphanedGrant`, `BooksBalance` | Two requesters with a window each compete for the source's session and byte budget, every request and reply delayed, lost or (releases) repeated, staging that shrinks, grows or fails, a fence and a crash: pins outlive READs, one requester's tickets never disturb the other's pins, and budgets and permits add up. |
| `peer_transfer_reuse` | `SessionWindowsStayOpen`, `TicketsHold`, `TransfersEnd` | One requester reuses its slot over two generations while the source's only window is lost, evicted and replaced under it: tickets are single use, the whole implements SourceHold, and with timeouts, retries and native deadlines source memory is unpinned and requester slots come back, unless the requester died or its READ never quiesced. |
| `inventory_replication` | `ViewsAreExact`, `IndexExact`, `LookupsComplete`, `FollowsSources`, `Converges` | Two owners, with more replicas of a key than a lookup returns and with a metadata budget too small for both, a single snapshot permit, and a membership that is suspended, reinstalled and reduced under running sessions; and one owner whose inventory changes while it is paged, replayed and streamed, with a journal of one record, a budget too small to rebuild a view beside the old one, a residence outside the scope and a stream that breaks. Installed views are exactly the source's state at their watermark, the lookup table is exactly the views, byte and coverage counters are exact, complete coverage means lookups that are complete up to their limit and offer current replicas only, the index implements OwnerReplica, and the fairly scheduled follower catches up with the last change. |
| `ssd_tier` | `ExtentsHeld`, `EntriesAccounted`, `LaneIsSafe`, `AnswersAreTrue`, `WritesEnd`, `LaneEnds` | The SSD ring and the GPU-direct lane, each with a scope of its own. Ring: with two ordered writes in flight, one GPU writer and one reader that may find a block corrupt, no extent that is read or written is handed out and every admitted key leaves the pending set. Lane: saves, raw and encoded loads over two staging slots, with every fault: what the device touches stays held, extents are published whole, answers are true and every task is answered. |
| `query_sessions` | `BudgetExact`, `LeasesOwned`, `QueriesEnd` | An engine's queries, preparations and warm-ups beside a remote coordinator's, under expiry, deadlines, a lost session, re-registration, interests that retire and shutdown: the byte budget stays exact, no lease is orphaned, stale, canceled or unknown to its engine, and sessions, speculation and shutdown end. |
| `gpu_registration` | `CreditsBalance`, `MappingsHeld`, `PlansExact`, `SessionsEnd`, `ShutdownCompletes` | Two processes registering GPU memory for two instances, with every geometry, layout and failure in a scope of its own: credits are returned once, mappings follow the engine, accepted geometries, sealed layouts and the plans over them are exact, sessions and shutdown release what they own. |
| `restore_grants` | `CopiesAreSafe`, `OutcomesAreTrue`, `SlotReuseIsSafe`, `RestoresEnd` | Three restores over two completion records, one in two plan parts and one run by the Manager: cancellation, revocation, claims, drains, a lost outcome, a failed reaper, and the exit of either process never free a source that is being copied, mix two plans, or report a restore that is not over; and under fair scheduling two restores whose plans do not fit the bank together end for their caller and return their sources, though the engine may exit at any step. |
| `publish_path` | `RequestsAreOwn`, `PublishesAreWhole`, `ChargesExact`, `PublishingEnds` | A save from the Python handle to the device copy and back, in nine small instances (merged handles, chunked requests, two clients taking turns in one slot, and one group of faults each): source pages stay owned until no task can read them, reported success means every chunk ran once, budgets and counters are exact, and publishes, close and shutdown end. |
| `vllm_connector` | `BlocksAreOwn`, `OwnershipExact`, `ResetIsQuiet`, `WorkEnds` | The vLLM connector's scheduler and worker adapters under preemption, aborts, finished requests, retired window pages, rejected and unproven saves, and a teardown in which one rank unregisters the instance of all: saves read what their hashes name and no copy outlives the registration, leases, queries and pinned blocks have one owner and come back, requests complete. |

Two runs are expected to fail, and record disagreements between the code and the repository's
own documents (`findings` in `PROJECT.json`).

## Fairness

Liveness is checked under weak fairness of the steps the code's scheduling guarantees: spawned
tasks and threads run, bounded waits time out, native transfers end at their deadline, and a
request that is retried for ever is at last delivered. No fairness is assumed of clients'
decisions, faults, evictions or membership changes.

By module: in `SsdStore` the writer task, the device, GPU writers and readers are fair; in
`SsdQueue` the queue thread, the codec thread and the device; in `QuerySessions` reading tasks, GPU
copies, the dispatcher's maintenance, the reaper, the expiry clock and the steps of the shutdown;
in `RestoreGrants` the executor, the dispatcher, the reaper and the publish task; in
`GpuRegistration` connection, cleanup and shutdown tasks, a client that reads the reply it waits
for, and the jobs of a closing pool; in `PublishPath` publishing threads, tasks, the closing
client, the dispatcher and the drain; in `VllmConnector` the engine loop, the workers and their
save threads with the copies they wait for. There a query that is asked again and again is at last answered (strong fairness):
this is the promise of the Manager that `QuerySessions` checks.

## Proofs

The theorems hold for every value of the constants. Their assumptions are the types of the
constants (`ASSUME` in the component's module), which TLC evaluates on its instances. For each
component an inductive invariant was first checked with TLC on the instances of its run.

### Peer transfer

`PeerTransferProofs` states the inductive invariant `TransferInvariant` and shows that every action
preserves it; `PeerTransferTheorems` concludes. The safety properties are not inductive: to know
that no delayed authorization pins memory one must know where every message and job may be
relative to its requester's slot. The invariant therefore adds that windows have one owner for
ever, that generations in flight never run ahead of the slot they came from, that a ticket has one
authorization (its request, then one job, then one outcome), that a grant on its way stands for
pinned memory, and that an authorization whose requester has moved on finds its ticket closed.

From it follow `NoReadOutlivesItsPin`, `DelayedAuthorizationIsHarmless` and
`EvictionSparesTransfers` (safety), `SingleUse` (an action property: how generations and phases may
move), and `PromiseKept`: the protocol implements `SourceHold`. The refinement is shown step by
step: each action opens, drops, begins or ends at most one ticket of the abstract specification, or
none. `TicketsAlwaysHold` puts the last two together as the run checks them.

`PeerTransferBooks` proves `BooksAlwaysBalance`: the session count, the reserved bytes and the
permits of the requesters always equal a recount, and stay inside their limits. Every action
changes at most one session or one slot, and a sum over a finite set changes by what one element
changes.

### The GPU-direct SSD lane

`SsdQueueProofs`, `SsdQueueSteps` and `SsdQueueTheorems` prove `LaneIsSafe` and `AnswersAreTrue`.
The invariant `QueueInvariant` says where everything is: a task is in the channel or in the deque,
once; a busy slot works for a job that counts it; every batch of a job that has not failed is left
to submit, in one slot, or moved; the batches an extent still waits for are its counter, and its
lease is what that counter says; the active window's reads are queued, in slots or landed, and the
codec thread has a command or a reply only for it. The counters are cardinalities, which is why the
expectations of the loop (`expect`, subtractions) never fail.

### The SSD store

`SsdStoreProofs` proves `ExtentsHeld` and `EntriesAccounted` from `StoreInvariant`. The ring part,
`RingSound`, places every live extent between tail and head, within one turn of the file, and
orders extents of one shard; the lemmas on division (`TurnsApart`) turn that into disjoint bytes
modulo the capacity. `LeasesOK` ties each lease to its reader and to the generation of its entry,
and each hidden entry to a lease or to the reader about to remove it. `HeldOnce` says that a pending
key is in exactly one of command queue, submission list, write window and GPU writers, which makes
`PendingExact`, a count, inductive. Filtering a batch is a recursive function here, so that
`FilteredFacts` can say what it keeps.

### Operators

`OperatorTheorems` proves what the operators without state compute. `LayoutsExact`: for any number
and size of blocks and segments, `KVCacheGeometry::new` accepts only layouts that neither overlap nor
leave the extent compared with the tensor, and refuses none of one or two segments that does not
overlap. `check_split_segments_disjoint` compares the distance of K and V with the two nearest
multiples of the stride only; `SplitSegmentsDisjoint` brackets the distance between those, and every
other pair of blocks lies at least one stride further apart. The run `gpu_registration` checks the
same `LayoutExact` on the layouts it registers.

The sums of `FiniteSums` are there too. The library's induction theorems cannot be instantiated by
the provers, so induction over data is done by least counterexample: a set of sizes at which a claim
fails would have a least element. `FiniteFacts`, `CountingFacts` and `SummingFacts` collect what the
component proofs use of finite sets and sums. The step lemmas assume them as hypotheses, which keeps
the library out of thousands of proof obligations. `OperatorTheorems` proves them, each component's
last module discharges them through an instance of it (`CountingHolds`, `SummingHolds`), and the
theorems rest on nothing else.

### Only model-checked

All liveness, since TLAPS does not reason about fairness: `StorageProgress`, `TransfersEnd`,
`Converges`, `WritesEnd`, `LaneEnds`, `QueriesEnd`, `ShutdownCompletes`, `RestoresEnd`,
`PublishingEnds` and `WorkEnds`. The refinement of `OwnerReplica` by `InventoryReplication`, and the
safety of `BlockStorage`, `InventoryReplication`, `QuerySessions`, `RestoreGrants`,
`GpuRegistration`, `PublishPath` and `VllmConnector`: their inductive invariants have not been
worked out. `DramCache` and `QuerySessions` also compute with folds over sequences and sets, and
`LayerTopology`, `RestorePlan` and `SavePlan` with folds and sorts; what those return for every input
needs induction over data, and TLC compares them with references instead.

The run `ssd_tier` checks `SsdStore` and `SsdQueue` side by side; the theorems are about each alone,
which is the same since neither touches the other's variables.

## Not modelled

* Codecs: contents and compressed sizes are known only on the GPU, and the arithmetic is out of
  TLC's reach. The arena and the scratch memory of the GPU codec are part of `SsdQueue`; the encoded
  save path is not modelled.
* Cost estimates and planning choose among sources with floating-point numbers; where a model meets
  such a choice it is free. TinyLFU's admission verdict is a free choice as well.
* The execution of peer reads below `PeerTransfer`, RDMA, io_uring, cuFile, CUDA and CUDA IPC:
  external. A submission is an action that may fail and ends at some later step.
* Byte formats, keys and state identity: pure functions on bytes that unit tests cover.
* The shard query coordinator: its calls, in any order, are inputs of `QuerySessions`.
* The SGLang adapter, the router, HTTP and process start: sequential callers of what is modelled.
* Within modelled parts: the shutdown drain of the SSD writer, the cap of its reuse history and
  batched prefetch; NUMA placement of allocations and read coalescing; failing release calls,
  prefix hints and LoRA checks of the vLLM connector.
* Metrics, timelines and logging.
