----------------------------- MODULE DramCache ------------------------------
(***************************************************************************)
(* The DRAM cache (orbitkv-core/src/storage/dram/mod.rs, with the          *)
(* admission of dram/policy.rs): the resident blocks, the three            *)
(* replacement classes that order their eviction, and the DRAM rows of the *)
(* residency inventory, all under one lock.  Every operation is a function *)
(* from the state of the cache, a record, to the next one.                 *)
(*                                                                         *)
(* Abstracted data: a block is its key, the pinned allocations that back   *)
(* it, which tell apart two blocks of one key, and whether a warmup read   *)
(* it.  Whether TinyLFU finds a candidate colder than the victim is a      *)
(* choice of the caller.                                                   *)
(***************************************************************************)
EXTENDS Integers, Sequences, FiniteSets, SequencesExt

CONSTANTS
    Keys,
    Footprint,       \* Footprint[k]: memory_footprint of a block of k
    ProtectedLimit,  \* protected_limit: bytes that retained blocks may have, 0 for no limit
    LfuAdmission     \* enable_lfu_admission

ASSUME CacheAssumption ==
    Footprint \in [Keys -> Nat \ {0}] /\ ProtectedLimit \in Nat /\ LfuAdmission \in BOOLEAN

Classes == {"reclaimable", "probationary", "retained"}
NoBlock == [key |-> "none", allocs |-> {}, warmed |-> FALSE]

EmptyCache ==
    [cache      |-> [k \in Keys |-> NoBlock],    \* the resident block of k
     lru        |-> [c \in Classes |-> <<>>],    \* keys of class c, the oldest first
     bytes      |-> 0,                           \* retained_bytes
     advertised |-> {}]                          \* keys with a DRAM row in the inventory

Resident(d) == {k \in Keys : d.cache[k] # NoBlock}
In(d, k, c) == Contains(d.lru[c], k)

\* refresh_recency.
Refresh(d, k) ==
    [d EXCEPT !.lru = [c \in Classes |-> IF In(d, k, c) THEN Append(Remove(@[c], k), k) ELSE @[c]]]

\* Mutant: moving a block out of the retained class keeps its bytes there.
MoveKeepsBytes(d, k, from, to) ==
    [d EXCEPT !.lru = [@ EXCEPT ![from] = Remove(@, k), ![to] = Append(@, k)],
              !.bytes = @ + (IF to = "retained" THEN Footprint[k] ELSE 0)]

\* move_resident, to another class.
Move(d, k, from, to) ==
    [d EXCEPT !.lru = [@ EXCEPT ![from] = Remove(@, k), ![to] = Append(@, k)],
              !.bytes = @ - (IF from = "retained" THEN Footprint[k] ELSE 0)
                          + (IF to = "retained" THEN Footprint[k] ELSE 0)]

-----------------------------------------------------------------------------
(* Insertion and promotion.                                                *)

\* A candidate is compared with a victim, so the first block of all is admitted.
MayReject(d) == LfuAdmission /\ Resident(d) # {}

\* insert_block, with the insert of policy.rs; a resident block is never replaced.
Insert(d, block, class, rejected) ==
    LET k == block.key
        c == IF ProtectedLimit > 0 /\ class = "retained" THEN "probationary" ELSE class
    IN IF k \in Resident(d) THEN IF block.warmed THEN d ELSE Refresh(d, k)
       ELSE IF rejected /\ MayReject(d) THEN d
       ELSE [d EXCEPT !.cache[k] = block, !.lru[c] = Append(@, k),
                      !.bytes = IF c = "retained" THEN @ + Footprint[k] ELSE @,
                      !.advertised = @ \cup {k}]

\* batch_insert, batch_insert_reclaimable and batch_insert_refs.
BatchInsert(d, blocks, class, rejected) ==
    FoldLeft(LAMBDA acc, b : Insert(acc, b, class, b.key \in rejected), d, blocks)

\* Older retained blocks are demoted until there is room for more.
Demote(d, room) ==
    FoldLeft(LAMBDA acc, k : IF acc.bytes > room THEN Move(acc, k, "retained", "probationary") ELSE acc,
             d, d.lru["retained"])

\* retain_demand: a block that was asked for leaves its class, if it can be protected at all.
Retain(d, block) ==
    LET k == block.key
        from == IF In(d, k, "probationary") THEN "probationary" ELSE "reclaimable"
        movable == In(d, k, from) /\ (from = "probationary" \/ block.warmed)
    IN IF ~movable \/ (ProtectedLimit > 0 /\ Footprint[k] > ProtectedLimit) THEN d
       ELSE IF ProtectedLimit = 0 THEN Move(d, k, from, "retained")
       ELSE Move(Demote(d, ProtectedLimit - Footprint[k]), k, from, "retained")

\* retain_demand of a finished read: only for the blocks that are still the resident ones.
RetainRead(d, blocks) ==
    FoldLeft(LAMBDA acc, b : IF acc.cache[b.key] = b THEN Retain(acc, b) ELSE acc, d, blocks)

-----------------------------------------------------------------------------
(* Lookup.                                                                 *)

Hits(d, keys) ==
    LET misses == {i \in DOMAIN keys : keys[i] \notin Resident(d)}
    IN IF misses = {} THEN Len(keys) ELSE Min(misses) - 1

\* get_prefix_blocks: a warmup looks without touching.
PrefixBlocks(d, keys) == [i \in 1..Hits(d, keys) |-> d.cache[keys[i]]]
TouchPrefix(d, keys, warming) ==
    IF warming THEN d
    ELSE FoldLeft(LAMBDA acc, b : Refresh(Retain(acc, b), b.key), d, PrefixBlocks(d, keys))

-----------------------------------------------------------------------------
(* Eviction.                                                               *)

\* remove_lru_batch_from_class: every candidate is looked at once, oldest first, until the batch
\* is full or large enough; those somebody else holds go to the back.
ScanClass(acc, c, held, batchSize, target) ==
    FoldLeft(LAMBDA a, k :
                 IF Len(a.removed) = batchSize \/ a.removedBytes >= target THEN a
                 ELSE IF a.d.cache[k] \in held THEN [a EXCEPT !.d = Refresh(@, k)]
                 ELSE [removed      |-> Append(a.removed, a.d.cache[k]),
                       removedBytes |-> a.removedBytes + Footprint[k],
                       d            |-> [a.d EXCEPT !.cache[k] = NoBlock,
                                                    !.lru[c] = Remove(@, k),
                                                    !.bytes = IF c = "retained" THEN @ - Footprint[k] ELSE @,
                                                    !.advertised = @ \ {k}]],
             acc, acc.d.lru[c])

\* Mutant: a candidate somebody else holds ends the scan of its class.
ScanStopsAtHeld(acc, c, held, batchSize, target) ==
    IF acc.d.lru[c] # <<>> /\ acc.d.cache[Head(acc.d.lru[c])] \in held THEN acc
    ELSE ScanClass(acc, c, held, batchSize, target)
\* Mutant of the whole: see ScanStopsAtHeld.
ScanUntilHeld(d, held, batchSize, target) ==
    FoldLeft(LAMBDA acc, c : ScanStopsAtHeld(acc, c, held, batchSize, target),
             [d |-> d, removed |-> <<>>, removedBytes |-> 0],
             <<"reclaimable", "probationary", "retained">>)

\* remove_lru_batch.
RemoveLru(d, held, batchSize, target) ==
    FoldLeft(LAMBDA acc, c : ScanClass(acc, c, held, batchSize, target),
             [d |-> d, removed |-> <<>>, removedBytes |-> 0],
             <<"reclaimable", "probationary", "retained">>)

\* remove_all.
Clear(d) == EmptyCache

-----------------------------------------------------------------------------
\* Every resident block is in exactly one class, once; nothing else is; the bytes of the retained
\* class are exact and within the limit.  retain_demand and move_resident rely on it: "protected
\* bytes have an owner".
ClassesPartition(d) ==
    /\ \A k \in Keys :
         Cardinality({<<c, i>> \in Classes \X (1..Cardinality(Keys)) :
                         i \in DOMAIN d.lru[c] /\ d.lru[c][i] = k})
             = (IF k \in Resident(d) THEN 1 ELSE 0)
    /\ d.bytes = FoldLeft(LAMBDA sum, k : sum + Footprint[k], 0, d.lru["retained"])
    /\ ProtectedLimit > 0 => d.bytes <= ProtectedLimit
=============================================================================
