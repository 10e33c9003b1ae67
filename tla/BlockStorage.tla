---------------------------- MODULE BlockStorage ----------------------------
(***************************************************************************)
(* The block storage of one Cache Manager: the pinned pool, the allocation *)
(* loop that evicts DRAM blocks until a request fits (storage/mod.rs), the *)
(* worker that seals saved slots into blocks (storage/publish.rs), and the *)
(* saves and reads that use them concurrently (engine/publish.rs,          *)
(* query/read.rs).                                                         *)
(*                                                                         *)
(* A pinned allocation is a range of the pool.  It is free as soon as      *)
(* nobody refers to it, so the pool is not a variable.  Where in the pool  *)
(* the offset allocator (external) puts an allocation is any free place    *)
(* within a shard.  Abstracted: the shards are probed in one step; a read  *)
(* loads the first block of the prefix that is not resident, from an SSD   *)
(* or a peer, in one step once it has the memory.                          *)
(***************************************************************************)
EXTENDS DramCache

CONSTANTS
    Queries,      \* tasks that read
    Blockwise,    \* blockwise_alloc
    BatchSize,    \* RECLAIM_BATCH_SIZE
    Shapes        \* the managers considered: [slots: of a block, each saved by its own rank,
                  \* pool: units of the pinned pool, shard: units of one of its shards,
                  \* jobs: bound on saves and reads that load, live: scheduled fairly]

Ranks == 0..(Max({s.slots : s \in Shapes}) - 1)

ASSUME StorageAssumption ==
    /\ Shapes \subseteq [slots : Nat \ {0}, pool : Nat, shard : Nat \ {0}, jobs : Nat, live : BOOLEAN]
    /\ \A k \in Keys : Footprint[k] > Max(Ranks)
    /\ BatchSize \in Nat \ {0} /\ Blockwise \in BOOLEAN /\ Ranks \cap Queries = {}
    /\ ~Blockwise => \A j, k \in Keys : Footprint[j] = Footprint[k]

VARIABLES
    dram,      \* the DRAM cache
    task,      \* task[t]: the save of a rank, or a read
    queue,     \* batches on their way to the insert worker
    inflight,  \* inflight[k][i]: the allocation of slot i of an unsealed block
    sealed,    \* blocks the worker has sealed and is about to insert
    jobs,      \* begun so far
    shape      \* the manager of this behaviour

vars == <<dram, task, queue, inflight, sealed, jobs, shape>>

Slots == 0..(shape.slots - 1)
Tasks == Slots \cup Queries
\* The slots of a block need not have one size.
SlotSize(k, i) == (Footprint[k] + i) \div shape.slots

NoAlloc == [at |-> -1, size |-> 0]
Idle == [st |-> "idle", keys |-> <<>>, todo |-> <<>>, got |-> <<>>, hand |-> {}, freed |-> FALSE,
         warming |-> FALSE, blocks |-> <<>>]

Init ==
    /\ shape \in Shapes
    /\ dram = EmptyCache
    /\ task = [t \in Tasks |-> Idle]
    /\ queue = <<>> /\ sealed = <<>>
    /\ inflight = [k \in Keys |-> [i \in Slots |-> NoAlloc]]
    /\ jobs = 0

-----------------------------------------------------------------------------
(* The pool.  An allocation is given back when its last user drops it.     *)

\* Blocks somebody besides the cache holds.
Held == ToSet(sealed) \cup UNION {task[t].hand \cup ToSet(task[t].blocks) : t \in Tasks}

Allocations ==
    UNION {b.allocs : b \in Held \cup {dram.cache[k] : k \in Keys}}
        \cup UNION {ToSet(task[t].got) : t \in Tasks}
        \cup UNION {{queue[i].allocs[k] : k \in ToSet(queue[i].keys)} : i \in DOMAIN queue}
        \cup ({inflight[k][i] : k \in Keys, i \in Slots} \ {NoAlloc})
UsedUnits == UNION {a.at..(a.at + a.size - 1) : a \in Allocations}

\* Places for an allocation: within one shard, over no live allocation.
Places(size) ==
    {at \in 0..(shape.pool - size) :
        /\ at \div shape.shard = (at + size - 1) \div shape.shard
        /\ at..(at + size - 1) \cap UsedUnits = {}}
Fits(size) == Places(size) # {}

Set(t, fields) == task' = [task EXCEPT ![t] = fields @@ @]
Wanted(t) == Head(task[t].todo)

-----------------------------------------------------------------------------
(* Storage::allocate.                                                      *)

\* A save that gets no memory fails; a read goes on with the prefix it has.
GiveUp(t) == Set(t, IF t \in Slots THEN Idle ELSE [st |-> "loaded", todo |-> <<>>])

Take(t) ==
    \E at \in Places(Wanted(t)) :
        Set(t, [st |-> IF Len(task[t].todo) = 1 THEN "ready" ELSE "try", todo |-> Tail(task[t].todo),
                got |-> Append(task[t].got, [at |-> at, size |-> Wanted(t)]), freed |-> FALSE])

TryAllocate(t) ==
    /\ task[t].st = "try"
    /\ IF Fits(Wanted(t)) THEN Take(t) ELSE Set(t, [st |-> "probe", freed |-> FALSE])
    /\ UNCHANGED <<dram, queue, inflight, sealed, jobs, shape>>

\* reclaim_until_allocator_can_allocate: memory somebody else freed meanwhile is enough too.
Probe(t) ==
    /\ task[t].st = "probe"
    /\ Set(t, [st |-> IF Fits(Wanted(t)) THEN "try" ELSE "evict"])
    /\ UNCHANGED <<dram, queue, inflight, sealed, jobs, shape>>

\* Mutant: an allocation that evicted nothing tries again from the start.
EvictForever(t) ==
    LET evicted == RemoveLru(dram, Held, BatchSize, Wanted(t))
    IN /\ task[t].st = "evict"
       /\ dram' = evicted.d
       /\ Set(t, IF evicted.removed = <<>> THEN [st |-> "try"]
                 ELSE [st |-> "drop", freed |-> TRUE, hand |-> ToSet(evicted.removed)])
       /\ UNCHANGED <<queue, inflight, sealed, jobs, shape>>

\* One batch leaves the cache under its lock; when nothing can be evicted, and nothing was, one
\* last try remains.
Evict(t) ==
    LET evicted == RemoveLru(dram, Held, BatchSize, Wanted(t))
    IN /\ task[t].st = "evict"
       /\ dram' = evicted.d
       /\ Set(t, IF evicted.removed = <<>>
                 THEN [st |-> IF task[t].freed THEN "try" ELSE "retry"]
                 ELSE [st |-> "drop", freed |-> TRUE, hand |-> ToSet(evicted.removed)])
       /\ UNCHANGED <<queue, inflight, sealed, jobs, shape>>

\* The evicted blocks are dropped after the lock is released.
DropEvicted(t) ==
    /\ task[t].st = "drop"
    /\ Set(t, [st |-> "probe", hand |-> {}])
    /\ UNCHANGED <<dram, queue, inflight, sealed, jobs, shape>>

RetryAllocate(t) ==
    /\ task[t].st = "retry"
    /\ IF Fits(Wanted(t)) THEN Take(t) ELSE GiveUp(t)
    /\ UNCHANGED <<dram, queue, inflight, sealed, jobs, shape>>

AllocateStep(t) == TryAllocate(t) \/ Probe(t) \/ Evict(t) \/ DropEvicted(t) \/ RetryAllocate(t)

-----------------------------------------------------------------------------
(* Saves: batch_save_kv_blocks_from_ipc_inner.                             *)

Total(i, keys) == FoldLeft(LAMBDA sum, k : sum + SlotSize(k, i), 0, keys)
Requests(i, keys) ==
    IF Blockwise THEN [n \in DOMAIN keys |-> SlotSize(keys[n], i)] ELSE <<Total(i, keys)>>

\* What is resident is not saved again; the rest gets memory, one allocation for each block or one
\* for all.
BeginSave(i, wanted) ==
    LET keys == SelectSeq(wanted, LAMBDA k : k \notin Resident(dram))
    IN /\ task[i].st = "idle" /\ jobs < shape.jobs /\ keys # <<>>
       /\ Set(i, [st |-> "try", keys |-> keys, todo |-> Requests(i, keys), got |-> <<>>])
       /\ jobs' = jobs + 1
       /\ UNCHANGED <<dram, queue, inflight, sealed, shape>>

\* The copy from the GPU succeeded and the slots are queued, or it failed.
EndSave(i, copied) ==
    LET keys == task[i].keys
        slots == [k \in ToSet(keys) |->
                     task[i].got[IF Blockwise THEN CHOOSE n \in DOMAIN keys : keys[n] = k ELSE 1]]
    IN /\ task[i].st = "ready" /\ i \in Slots
       /\ Set(i, Idle)
       /\ queue' = IF copied THEN Append(queue, [slot |-> i, keys |-> keys, allocs |-> slots]) ELSE queue
       /\ UNCHANGED <<dram, inflight, sealed, jobs, shape>>

-----------------------------------------------------------------------------
(* The insert worker: PublishWorker.                                       *)

\* Slots of block k once the batch is inserted, a slot that is there already being kept.
Merged(batch, k) ==
    [i \in Slots |-> IF i = batch.slot /\ inflight[k][i] = NoAlloc THEN batch.allocs[k]
                     ELSE inflight[k][i]]
Complete(slots) == \A i \in Slots : slots[i] # NoAlloc
SavedBlock(k, slots) == [key |-> k, allocs |-> {slots[i] : i \in Slots}, warmed |-> FALSE]

\* insert: a resident block drops its late slots, a full one is sealed, another waits for the
\* other ranks.
HandleBatch ==
    LET batch == Head(queue)
        new == SelectSeq(batch.keys, LAMBDA k : k \notin Resident(dram))
        full == SelectSeq(new, LAMBDA k : Complete(Merged(batch, k)))
    IN /\ sealed = <<>> /\ queue # <<>>
       /\ queue' = Tail(queue)
       /\ sealed' = [n \in DOMAIN full |-> SavedBlock(full[n], Merged(batch, full[n]))]
       /\ inflight' = [k \in Keys |->
                          IF k \in ToSet(full) THEN [i \in Slots |-> NoAlloc]
                          ELSE IF k \in ToSet(new) THEN Merged(batch, k) ELSE inflight[k]]
       /\ UNCHANGED <<dram, task, jobs, shape>>

Rejections == IF LfuAdmission THEN SUBSET Keys ELSE {{}}

PublishSealed(rejected) ==
    /\ sealed # <<>>
    /\ dram' = BatchInsert(dram, sealed, "retained", rejected)
    /\ sealed' = <<>>
    /\ UNCHANGED <<task, queue, inflight, jobs, shape>>

\* gc_inflight: blocks whose other slots never came.
Gc(stale) ==
    /\ sealed = <<>> /\ \A k \in stale : \E i \in Slots : inflight[k][i] # NoAlloc
    /\ stale # {}
    /\ inflight' = [k \in Keys |-> IF k \in stale THEN [i \in Slots |-> NoAlloc] ELSE inflight[k]]
    /\ UNCHANGED <<dram, task, queue, sealed, jobs, shape>>

-----------------------------------------------------------------------------
(* Reads: read_prefix, read_membership and discover.                       *)

\* The resident prefix is held; what follows is loaded, if there is a source for it.
BeginRead(q, keys, warming, source) ==
    LET hits == Hits(dram, keys)
        loads == source /\ hits < Len(keys)
    IN /\ task[q].st = "idle" /\ (loads => jobs < shape.jobs)
       /\ dram' = TouchPrefix(dram, keys, warming)
       /\ Set(q, [st |-> IF loads THEN "try" ELSE "holding", keys |-> keys, warming |-> warming,
                  todo |-> IF loads THEN <<Footprint[keys[hits + 1]]>> ELSE <<>>,
                  blocks |-> PrefixBlocks(dram, keys)])
       /\ jobs' = IF loads THEN jobs + 1 ELSE jobs
       /\ UNCHANGED <<queue, inflight, sealed, shape>>

\* A loaded block is cached, as reclaimable after a warmup or when it came from a peer.
FinishLoad(q, source, rejected) ==
    LET k == task[q].keys[Len(task[q].blocks) + 1]
        block == [key |-> k, allocs |-> ToSet(task[q].got), warmed |-> task[q].warming]
        class == IF task[q].warming \/ source = "remote" THEN "reclaimable" ELSE "retained"
    IN /\ task[q].st = "ready" /\ q \in Queries
       /\ IF source = "failed" THEN UNCHANGED dram /\ Set(q, [st |-> "loaded", got |-> <<>>])
          ELSE /\ dram' = BatchInsert(dram, <<block>>, class, rejected)
               /\ Set(q, [st |-> "loaded", got |-> <<>>, blocks |-> Append(task[q].blocks, block)])
       /\ UNCHANGED <<queue, inflight, sealed, jobs, shape>>

\* A read on demand protects what it found.
RetainLoaded(q) ==
    /\ task[q].st = "loaded"
    /\ dram' = IF task[q].warming THEN dram ELSE RetainRead(dram, task[q].blocks)
    /\ Set(q, [st |-> "holding"])
    /\ UNCHANGED <<queue, inflight, sealed, jobs, shape>>

\* get_blocks_aligned, and pin_residencies for a peer that names an inventory row: the block is
\* held and becomes recent.
HoldResident(q, k) ==
    /\ task[q].st = "idle" /\ k \in Resident(dram)
    /\ dram' = Refresh(dram, k)
    /\ Set(q, [st |-> "holding", keys |-> <<k>>, blocks |-> <<dram.cache[k]>>])
    /\ UNCHANGED <<queue, inflight, sealed, jobs, shape>>

\* discover keeps a weak reference; it can be upgraded as long as anybody holds the block.
UpgradeWeak(q, block) ==
    /\ task[q].st = "idle" /\ block \in Held
    /\ Set(q, [st |-> "holding", keys |-> <<block.key>>, blocks |-> <<block>>])
    /\ UNCHANGED <<dram, queue, inflight, sealed, jobs, shape>>

Release(q) ==
    /\ task[q].st = "holding"
    /\ Set(q, Idle)
    /\ UNCHANGED <<dram, queue, inflight, sealed, jobs, shape>>

\* cleanup_memory_cache: held blocks leave the cache too.
Cleanup ==
    /\ Resident(dram) # {}
    /\ dram' = Clear(dram)
    /\ UNCHANGED <<task, queue, inflight, sealed, jobs, shape>>

-----------------------------------------------------------------------------
Sequences1To2 == {<<k>> : k \in Keys} \cup {s \in Keys \X Keys : s[1] # s[2]}

WorkerStep == HandleBatch \/ (\E rejected \in Rejections : PublishSealed(rejected))
SaveStep(i) == AllocateStep(i) \/ \E copied \in BOOLEAN : EndSave(i, copied)
ReadStep(q) ==
    \/ AllocateStep(q) \/ RetainLoaded(q) \/ Release(q)
    \/ \E source \in {"ssd", "remote", "failed"}, rejected \in Rejections : FinishLoad(q, source, rejected)

Next ==
    \/ WorkerStep \/ Cleanup
    \/ \E stale \in SUBSET Keys : Gc(stale)
    \/ \E i \in Slots : SaveStep(i) \/ \E keys \in Sequences1To2 : BeginSave(i, keys)
    \/ \E q \in Queries :
         \/ ReadStep(q)
         \/ \E keys \in Sequences1To2, warming, source \in BOOLEAN : BeginRead(q, keys, warming, source)
         \/ \E k \in Keys : HoldResident(q, k)
         \/ \E block \in Held : UpgradeWeak(q, block)

Spec == Init /\ [][Next]_vars

\* Every thread keeps running, and the server calls gc_stale_inflight periodically.
FairSpec ==
    /\ Spec /\ WF_vars(shape.live /\ WorkerStep)
    /\ \A i \in Ranks : WF_vars(shape.live /\ i \in Slots /\ SaveStep(i))
    /\ \A q \in Queries : WF_vars(shape.live /\ ReadStep(q))
    /\ \A k \in Keys : WF_vars(shape.live /\ Gc({k}))

-----------------------------------------------------------------------------
(* Properties.                                                             *)

\* The type invariant.
TypeOK ==
    /\ DOMAIN dram = DOMAIN EmptyCache /\ Resident(dram) \subseteq Keys
    /\ \A t \in Tasks :
         /\ task[t].st \in {"idle", "try", "probe", "evict", "drop", "retry", "ready", "loaded", "holding"}
         /\ task[t].st \in {"try", "probe", "evict", "drop", "retry"} => task[t].todo # <<>>
    /\ UsedUnits \subseteq 0..(shape.pool - 1) /\ jobs \in 0..shape.jobs

\* See ClassesPartition.  (insert_block, retain_demand, move_resident, remove_lru, remove_all.)
ReplacementExact == ClassesPartition(dram)

\* The inventory shows a DRAM row for exactly the resident blocks, at every moment, because both
\* change under the lock of the cache.  (insert_block, remove_lru, remove_all.)
InventoryExact == dram.advertised = Resident(dram)

\* Pressure evicts only blocks that nobody else holds, and no block of a class while one of a
\* class to be reclaimed earlier could go instead.  (remove_lru_batch.)
Rank(d, k) == IF In(d, k, "reclaimable") THEN 1 ELSE IF In(d, k, "probationary") THEN 2 ELSE 3
EvictsInOrder(t) ==
    task[t].st = "evict" /\ task'[t].st = "drop" =>
        \A k \in Resident(dram) \ Resident(dram') :
            /\ dram.cache[k] \notin Held
            /\ \A i \in Resident(dram') : Rank(dram, i) < Rank(dram, k) => dram.cache[i] \in Held

\* An allocation is refused only if, at a moment during the call, every resident block was held by
\* somebody else: nothing that could be evicted is overlooked.  (allocate, remove_lru_batch.)
NoFalseExhaustion(t) ==
    task[t].st # "retry" /\ task'[t].st = "retry" => \A k \in Resident(dram) : dram.cache[k] \in Held

\* An allocation that competes with finitely many others returns: once the last job has begun
\* nobody allocates any more.
Allocating(t) == task[t].st \in {"try", "probe", "evict", "drop", "retry"}
AllocateReturns == shape.live => <>[](\A t \in Tasks : ~Allocating(t))

\* Memory of a block whose other ranks never saved their slots is given back.  (gc_inflight.)
InflightDrains ==
    shape.live => <>[](\A k \in Keys, i \in Slots : inflight[k][i] = NoAlloc)

-----------------------------------------------------------------------------
(* What is checked                                                           *)

\* Residency, the replacement classes with their byte count and the advertised rows agree after
\* every insertion, touch, eviction and clear (storage/dram).
ResidencyExact ==
  /\ TypeOK
  /\ ReplacementExact
  /\ InventoryExact

\* Memory pressure takes the right blocks, and gives up only when there is none to take
\* (remove_lru_batch, allocate).
ReclaimIsRight == [][\A t \in Tasks : EvictsInOrder(t) /\ NoFalseExhaustion(t)]_vars

\* Competing allocations return, and memory of blocks that are never completed comes back
\* (allocate, gc_inflight).
StorageProgress ==
  /\ AllocateReturns
  /\ InflightDrains
=============================================================================
