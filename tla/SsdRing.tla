------------------------------ MODULE SsdRing -------------------------------
(***************************************************************************)
(* The SSD cache index (orbitkv-core/src/storage/ssd/index.rs): one ring   *)
(* per cache file, in which extents are reserved in order and overwritten  *)
(* in order, and one entry per key, written in two phases.  Every          *)
(* operation runs under the lock of the store.                             *)
(*                                                                         *)
(* Abstracted data: sizes are in units of the alignment; the readers       *)
(* counter of an entry is the set of its leases, and the identity of the   *)
(* counter is the generation (shard, begin).  A shard's FIFO order is the  *)
(* order of begin, so it is not kept apart: the entries before the new     *)
(* tail are exactly the ones its scan reaches.                             *)
(***************************************************************************)
EXTENDS Integers, Sequences, FiniteSets

CONSTANTS
    Keys,
    Size,       \* Size[k]: extent of the block of k
    NumShards,  \* cache files
    Capacity,   \* of every shard
    MaxHead     \* u64::MAX: the logical offsets never wrap, allocation fails instead

Shards == 0..(NumShards - 1)

ASSUME RingAssumption ==
    /\ NumShards \in Nat \ {0} /\ Capacity \in Nat \ {0} /\ MaxHead \in Nat
    /\ Size \in [Keys -> Nat]

VARIABLES
    head,       \* head[s], tail[s]: logical offsets of shard s
    tail,
    nextShard,  \* round-robin cursor
    entries,    \* entries[k]: the entry of k, with st "none" when there is none
    leases      \* SsdReadLease: sources pinned by readers

ringVars == <<head, tail, nextShard, entries, leases>>

NoEntry == [st |-> "none", shard |-> 0, begin |-> 0]
Entry(st, s, begin) == [st |-> st, shard |-> s, begin |-> begin]

RingInit ==
    /\ head = [s \in Shards |-> 0] /\ tail = [s \in Shards |-> 0]
    /\ nextShard = 0
    /\ entries = [k \in Keys |-> NoEntry]
    /\ leases = {}

Live(k) == entries[k].st # "none"
OffsetValid(e) == e.begin >= tail[e.shard]

\* get: only a committed entry is readable.
Readable(k) == entries[k].st = "committed" /\ OffsetValid(entries[k])

SameGeneration(e, f) == e.shard = f.shard /\ e.begin = f.begin
Readers(k) == {l \in leases : l.key = k /\ SameGeneration(l, entries[k])}

-----------------------------------------------------------------------------
(* allocate_contiguous and advance_tail.                                   *)

Larger(a, b) == IF a >= b THEN a ELSE b

\* An extent does not wrap around the end of the file.
BeginAt(s, size) ==
    LET space == Capacity - (head[s] % Capacity)
    IN IF size > space THEN head[s] + space ELSE head[s]
NewTail(s, size) == Larger(BeginAt(s, size) + size - Capacity, 0)

\* What the advancing tail would run over.
Overrun(s, newTail) == {k \in Keys : Live(k) /\ entries[k].shard = s /\ entries[k].begin < newTail}

\* Neither an active write nor a pinned source may be overwritten.  Mutant: writes may be.
ProtectsReadersOnly(k) == Readers(k) # {}
Protected(k) == entries[k].st = "writing" \/ Readers(k) # {}

CanAllocate(s, size) ==
    /\ size > 0 /\ size <= Capacity
    /\ BeginAt(s, size) + size <= MaxHead
    /\ \A k \in Overrun(s, NewTail(s, size)) : ~Protected(k)

\* The shards in the order in which reserve tries them.
Offset(s) == (s + NumShards - nextShard) % NumShards
Chosen(s, size) ==
    /\ CanAllocate(s, size)
    /\ \A t \in Shards : CanAllocate(t, size) => Offset(s) <= Offset(t)

\* take_retired.
Retired(k, s) == Overrun(s, Larger(tail[s], NewTail(s, Size[k])))

CanReserve(k) == ~Live(k) /\ \E s \in Shards : CanAllocate(s, Size[k])

\* reserve: the entry is written before it is readable, and what it overruns is forgotten.
Reserve(k, s) ==
    LET begin == BeginAt(s, Size[k])
        newTail == Larger(tail[s], NewTail(s, Size[k]))
    IN /\ ~Live(k) /\ Chosen(s, Size[k])
       /\ head' = [head EXCEPT ![s] = begin + Size[k]]
       /\ tail' = [tail EXCEPT ![s] = newTail]
       /\ nextShard' = (s + 1) % NumShards
       /\ entries' = [i \in Keys |->
                         IF i = k THEN Entry("writing", s, begin)
                         ELSE IF i \in Overrun(s, newTail) THEN NoEntry ELSE entries[i]]
       /\ UNCHANGED leases

\* commit: an entry still being written becomes readable or is removed.
Commit(k, success) ==
    /\ entries' = [entries EXCEPT ![k] =
                      IF @.st # "writing" THEN @
                      ELSE IF success /\ OffsetValid(@) THEN [@ EXCEPT !.st = "committed"]
                      ELSE NoEntry]
    /\ UNCHANGED <<head, tail, nextShard, leases>>

-----------------------------------------------------------------------------
(* Leases and corruption.                                                  *)

\* pin of a candidate, which may be older than the entry.
CanPin(candidate) == Readable(candidate.key) /\ SameGeneration(candidate, entries[candidate.key])
Pin(lease) ==
    /\ leases' = leases \cup {lease}
    /\ UNCHANGED <<head, tail, nextShard, entries>>

\* The counter is decremented outside the lock.
Unpin(lease) ==
    /\ leases' = leases \ {lease}
    /\ UNCHANGED <<head, tail, nextShard, entries>>

\* invalidate_encoded: the failed generation is hidden, and its extent kept while it is pinned.
Invalidates(failed) ==
    entries[failed.key].st \in {"committed", "invalid"} /\ SameGeneration(failed, entries[failed.key])
Invalidate(failed) ==
    /\ entries' = [entries EXCEPT ![failed.key] =
                      IF Readers(failed.key) = {} THEN NoEntry ELSE [@ EXCEPT !.st = "invalid"]]
    /\ UNCHANGED <<head, tail, nextShard, leases>>

\* release_invalid, by whoever dropped the last lease.
ReleaseInvalid(released) ==
    LET k == released.key
    IN /\ entries' = [entries EXCEPT ![k] =
                         IF @.st = "invalid" /\ SameGeneration(released, @) /\ Readers(k) = {}
                         THEN NoEntry ELSE @]
       /\ UNCHANGED <<head, tail, nextShard, leases>>
=============================================================================
