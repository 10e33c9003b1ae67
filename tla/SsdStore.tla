------------------------------ MODULE SsdStore ------------------------------
(***************************************************************************)
(* The tasks around the SSD ring (orbitkv-core/src/storage/ssd/{mod,       *)
(* writer,reader}.rs): admission into the write queue, the writer task     *)
(* with its window of ordered writes, GPU workers that write extents       *)
(* themselves, readers that pin a generation and may find it corrupt, and  *)
(* the residency inventory, which everyone updates after the lock of the   *)
(* store is released.                                                      *)
(*                                                                         *)
(* External: the kernel and the GPU finish an I/O in any order, well or    *)
(* not.  A queued block is held weakly, so it may be gone when it is       *)
(* dequeued.  Metrics and cost observations are left out.                  *)
(***************************************************************************)
EXTENDS SsdRing

CONSTANTS
    GpuWorkers,     \* threads that write through GpuWriteLease
    ReadTasks,      \* tasks that read one block each
    Encoded,        \* keys whose blocks are stored encoded
    ReusePolicy,    \* SsdWritePolicy::Reuse instead of All
    BatchLimit,     \* bound: the longest batch that is offered
    QueueDepth,     \* write_queue_depth
    WriteInflight   \* write_inflight

ASSUME StoreAssumption ==
    /\ Encoded \subseteq Keys /\ ReusePolicy \in BOOLEAN
    /\ BatchLimit \in Nat /\ QueueDepth \in Nat \ {0} /\ WriteInflight \in Nat \ {0}
    /\ GpuWorkers \cap ReadTasks = {} /\ "writer" \notin GpuWorkers \cup ReadTasks

VARIABLES
    pendingWrites,  \* keys on their way to the disk
    reuseHistory,   \* keys seen by the reuse policy
    queue,          \* commands of the writer: <<k, ...>>, or <<>> for a flush
    pending,        \* the writer's tasks not yet submitted
    inflight,       \* its submitted writes, in order
    flushing,       \* a flush waits for the writer to drain
    gpuEnabled,     \* GpuIo::enabled
    gpu,            \* gpu[w]: the GpuWriteLease of a worker
    reader,         \* reader[r]: the state of a read task
    announcing,     \* announcing[a]: inventory changes actor a still has to make
    advertised      \* keys the inventory shows on SSD

writerVars == <<pendingWrites, reuseHistory, queue, pending, inflight, flushing>>
vars == <<ringVars, writerVars, gpuEnabled, gpu, reader, announcing, advertised>>

Actors == {"writer"} \cup GpuWorkers \cup ReadTasks
NoKey == "no key"
Idle == [st |-> "idle", key |-> NoKey, shard |-> 0, begin |-> 0]

Init ==
    /\ RingInit
    /\ pendingWrites = {} /\ reuseHistory = {}
    /\ queue = <<>> /\ pending = <<>> /\ inflight = <<>> /\ flushing = FALSE
    /\ gpuEnabled = TRUE
    /\ gpu = [w \in GpuWorkers |-> Idle]
    /\ reader = [r \in ReadTasks |-> Idle]
    /\ announcing = [a \in Actors |-> {}]
    /\ advertised = {}

\* The elements of s that are in S, in their order.
Filtering(s, S) ==
    LET upTo[i \in 0..Len(s)] ==
          IF i = 0 THEN <<>>
          ELSE IF s[i] \in S THEN Append(upTo[i - 1], s[i]) ELSE upTo[i - 1]
    IN upTo
Filtered(s, S) == Filtering(s, S)[Len(s)]

\* An actor leaves its inventory changes for the next steps, and makes them before anything else.
Free(a) == announcing[a] = {}
Owes(a, keys, present) ==
    announcing' = [announcing EXCEPT ![a] = {[key |-> k, present |-> present] : k \in keys}]

Announce(a) ==
    /\ \E change \in announcing[a] :
         /\ announcing' = [announcing EXCEPT ![a] = @ \ {change}]
         /\ advertised' = IF change.present THEN advertised \cup {change.key}
                          ELSE advertised \ {change.key}
    /\ UNCHANGED <<ringVars, writerVars, gpuEnabled, gpu, reader>>

-----------------------------------------------------------------------------
(* Admission.                                                              *)

\* admission_skip.
Admitted(k, reused) ==
    /\ ~Readable(k) /\ k \notin pendingWrites
    /\ ReusePolicy => reused \/ k \in reuseHistory

\* The reuse policy remembers every key it was asked about that is not already on its way.
Remembered(keys) ==
    IF ReusePolicy THEN reuseHistory \cup {k \in keys : ~Readable(k) /\ k \notin pendingWrites}
    ELSE reuseHistory

\* ingest_batch: what is admitted is queued as one batch, or dropped if the queue is full.
Ingest(batch, reused) ==
    LET admitted == Filtered(batch, {k \in Keys : Admitted(k, reused)})
        queued == admitted # <<>> /\ Len(queue) < QueueDepth
    IN /\ ~(reused /\ ~ReusePolicy)
       /\ reuseHistory' = Remembered({batch[i] : i \in DOMAIN batch})
       /\ queue' = IF queued THEN Append(queue, admitted) ELSE queue
       /\ pendingWrites' = IF queued THEN pendingWrites \cup {admitted[i] : i \in DOMAIN admitted}
                           ELSE pendingWrites
       /\ UNCHANGED <<ringVars, pending, inflight, flushing, gpuEnabled, gpu, reader, announcing,
                      advertised>>

\* flush waits for room in the queue.  Bound: one flush at a time.
Flush ==
    /\ Len(queue) < QueueDepth /\ <<>> \notin {queue[i] : i \in DOMAIN queue} /\ ~flushing
    /\ queue' = Append(queue, <<>>)
    /\ UNCHANGED <<ringVars, pendingWrites, reuseHistory, pending, inflight, flushing, gpuEnabled,
                   gpu, reader, announcing, advertised>>

-----------------------------------------------------------------------------
(* The writer task: ssd_writer_loop and execute_write.                     *)

\* The biased select first polls every submitted write, then takes the oldest one if it is done.
Polled ==
    /\ Free("writer") /\ \A i \in DOMAIN inflight : inflight[i].st # "new"
    /\ inflight # <<>> => Head(inflight).st = "io"

\* A new command is taken only when nothing waits for submission and no flush is pending; blocks
\* that are gone lose their reservation.
Receive(gone) ==
    LET batch == Head(queue)
        kept == Filtered(batch, Keys \ gone)
    IN /\ Polled /\ queue # <<>> /\ pending = <<>> /\ ~flushing
       /\ gone \subseteq {batch[i] : i \in DOMAIN batch}
       /\ queue' = Tail(queue)
       /\ IF batch = <<>>
          THEN flushing' = TRUE /\ UNCHANGED <<pending, pendingWrites>>
          ELSE /\ pending' = kept /\ pendingWrites' = pendingWrites \ gone
               /\ UNCHANGED flushing
       /\ UNCHANGED <<ringVars, reuseHistory, inflight, gpuEnabled, gpu, reader, announcing,
                      advertised>>

Submit ==
    /\ Polled /\ pending # <<>> /\ Len(inflight) < WriteInflight
    /\ inflight' = Append(inflight, [key |-> Head(pending), st |-> "new"])
    /\ pending' = Tail(pending)
    /\ UNCHANGED <<ringVars, pendingWrites, reuseHistory, queue, flushing, gpuEnabled, gpu, reader,
                   announcing, advertised>>

\* The first poll of execute_write reserves the extent, or gives the write up.
StartWrite(i) ==
    /\ Free("writer") /\ inflight[i].st = "new"
    /\ \/ \E s \in Shards :
            /\ Reserve(inflight[i].key, s)
            /\ Owes("writer", Retired(inflight[i].key, s), FALSE)
            /\ inflight' = [inflight EXCEPT ![i].st = "io"]
       \/ /\ ~CanReserve(inflight[i].key)
          /\ inflight' = [inflight EXCEPT ![i].st = "failed"]
          /\ UNCHANGED <<ringVars, announcing>>
    /\ UNCHANGED <<pendingWrites, reuseHistory, queue, pending, flushing, gpuEnabled, gpu, reader,
                   advertised>>

\* The kernel finishes writes in any order.
FinishWrite(i, success) ==
    /\ inflight[i].st = "io"
    /\ inflight' = [inflight EXCEPT ![i].st = IF success THEN "written" ELSE "failed"]
    /\ UNCHANGED <<ringVars, pendingWrites, reuseHistory, queue, pending, flushing, gpuEnabled, gpu,
                   reader, announcing, advertised>>

\* commit_write: ring and pendingWrites under the lock, the inventory after it.
CommitWrite(a, k, success) ==
    LET committed == entries[k].st = "committed" \/ (success /\ entries[k].st = "writing")
    IN /\ Commit(k, success)
       /\ pendingWrites' = pendingWrites \ {k}
       /\ Owes(a, IF committed /\ OffsetValid(entries[k]) THEN {k} ELSE {}, TRUE)

\* Completions are taken in submission order.
CompleteWrite ==
    /\ Free("writer") /\ inflight # <<>> /\ Head(inflight).st \in {"written", "failed"}
    /\ CommitWrite("writer", Head(inflight).key, Head(inflight).st = "written")
    /\ inflight' = Tail(inflight)
    /\ UNCHANGED <<reuseHistory, queue, pending, flushing, gpuEnabled, gpu, reader, advertised>>

\* Mutant: a flush also waits for the queue it keeps closed.
FireFlushWhenEmpty ==
    /\ Free("writer") /\ flushing /\ pending = <<>> /\ inflight = <<>> /\ queue = <<>>
    /\ flushing' = FALSE
    /\ UNCHANGED <<ringVars, pendingWrites, reuseHistory, queue, pending, inflight, gpuEnabled, gpu,
                   reader, announcing, advertised>>

FireFlush ==
    /\ Free("writer") /\ flushing /\ pending = <<>> /\ inflight = <<>>
    /\ flushing' = FALSE
    /\ UNCHANGED <<ringVars, pendingWrites, reuseHistory, queue, pending, inflight, gpuEnabled, gpu,
                   reader, announcing, advertised>>

-----------------------------------------------------------------------------
(* GPU writes: reserve_gpu and GpuWriteLease.                              *)

ReserveGpu(w, k) ==
    /\ Free(w) /\ gpu[w].st = "idle" /\ gpuEnabled
    /\ Admitted(k, FALSE)
    /\ \E s \in Shards :
         /\ Reserve(k, s)
         /\ Owes(w, Retired(k, s), FALSE)
         /\ gpu' = [gpu EXCEPT ![w] = [st |-> "io", key |-> k, shard |-> s, begin |-> BeginAt(s, Size[k])]]
    /\ pendingWrites' = pendingWrites \cup {k}
    /\ UNCHANGED <<reuseHistory, queue, pending, inflight, flushing, gpuEnabled, reader, advertised>>

\* commit, or drop of a lease whose write failed; a failing GPU disables further ones.
FinishGpu(w, success) ==
    /\ Free(w) /\ gpu[w].st = "io"
    /\ CommitWrite(w, gpu[w].key, success)
    /\ gpu' = [gpu EXCEPT ![w] = Idle]
    /\ gpuEnabled' \in {gpuEnabled, gpuEnabled /\ success}
    /\ UNCHANGED <<reuseHistory, queue, pending, inflight, flushing, reader, advertised>>

-----------------------------------------------------------------------------
(* Reads: SsdReadCandidate, SsdReadLease and execute_prefetch.             *)

LeaseOf(r) == [reader |-> r, key |-> reader[r].key, shard |-> reader[r].shard, begin |-> reader[r].begin]
SetReader(r, st) == reader' = [reader EXCEPT ![r].st = st]
OnlyReader == UNCHANGED <<writerVars, gpuEnabled, gpu, advertised>>

\* discover: the candidate is a copy of the entry and holds nothing.
Discover(r, k) ==
    /\ reader[r].st = "idle" /\ Free(r) /\ Readable(k)
    /\ reader' = [reader EXCEPT ![r] = [st |-> "candidate", key |-> k, shard |-> entries[k].shard,
                                        begin |-> entries[k].begin]]
    /\ OnlyReader /\ UNCHANGED <<ringVars, announcing>>

PinCandidate(r) ==
    /\ reader[r].st = "candidate"
    /\ IF CanPin(reader[r])
       THEN Pin(LeaseOf(r)) /\ SetReader(r, "reading")
       ELSE reader' = [reader EXCEPT ![r] = Idle] /\ UNCHANGED ringVars
    /\ OnlyReader /\ UNCHANGED announcing

\* pin_residencies: a peer's request names an inventory record, checked under the lock.
PinResidency(r, k) ==
    /\ reader[r].st = "idle" /\ Free(r) /\ k \in advertised /\ Readable(k)
    /\ reader' = [reader EXCEPT ![r] = [st |-> "reading", key |-> k, shard |-> entries[k].shard,
                                        begin |-> entries[k].begin]]
    /\ Pin([reader |-> r, key |-> k, shard |-> entries[k].shard, begin |-> entries[k].begin])
    /\ OnlyReader /\ UNCHANGED announcing

\* A block that does not validate is hidden from everyone.
FindCorrupt(r) ==
    /\ reader[r].st = "reading" /\ reader[r].key \in Encoded
    /\ SetReader(r, "done")
    /\ IF Invalidates(reader[r])
       THEN Invalidate(reader[r]) /\ Owes(r, {reader[r].key}, FALSE)
       ELSE UNCHANGED <<ringVars, announcing>>
    /\ OnlyReader

FinishRead(r) ==
    /\ reader[r].st = "reading"
    /\ SetReader(r, "done")
    /\ OnlyReader /\ UNCHANGED <<ringVars, announcing>>

\* Mutant: nobody looks for a corrupt generation after the last lease.
DropLeaseForgets(r) ==
    /\ reader[r].st = "done" /\ Free(r)
    /\ Unpin(LeaseOf(r))
    /\ reader' = [reader EXCEPT ![r] = Idle]
    /\ OnlyReader /\ UNCHANGED announcing

\* Drop of the lease: the counter first, then, for the last reader, the lock.
DropLease(r) ==
    /\ reader[r].st = "done" /\ Free(r)
    /\ Unpin(LeaseOf(r))
    /\ reader' = IF {l \in leases : SameGeneration(l, LeaseOf(r))} = {LeaseOf(r)}
                 THEN [reader EXCEPT ![r].st = "last"] ELSE [reader EXCEPT ![r] = Idle]
    /\ OnlyReader /\ UNCHANGED announcing

ReleaseLast(r) ==
    /\ reader[r].st = "last"
    /\ ReleaseInvalid(reader[r])
    /\ reader' = [reader EXCEPT ![r] = Idle]
    /\ OnlyReader /\ UNCHANGED announcing

-----------------------------------------------------------------------------
Batches ==
    {b \in UNION {[1..n -> Keys] : n \in 1..BatchLimit} : \A i, j \in DOMAIN b : b[i] = b[j] => i = j}

WriterStep ==
    \/ \E gone \in SUBSET Keys : Receive(gone)
    \/ Submit \/ CompleteWrite \/ FireFlush
    \/ \E i \in DOMAIN inflight : StartWrite(i)
    \/ Announce("writer")
DeviceStep == \E i \in DOMAIN inflight, success \in BOOLEAN : FinishWrite(i, success)
GpuStep(w) == (\E success \in BOOLEAN : FinishGpu(w, success)) \/ Announce(w)
ReadStep(r) ==
    \/ PinCandidate(r) \/ FindCorrupt(r) \/ FinishRead(r) \/ DropLease(r) \/ ReleaseLast(r)
    \/ Announce(r)

Next ==
    \/ \E batch \in Batches, reused \in BOOLEAN : Ingest(batch, reused)
    \/ Flush \/ WriterStep \/ DeviceStep
    \/ \E w \in GpuWorkers : GpuStep(w) \/ \E k \in Keys : ReserveGpu(w, k)
    \/ \E r \in ReadTasks : ReadStep(r) \/ \E k \in Keys : Discover(r, k) \/ PinResidency(r, k)

Spec == Init /\ [][Next]_vars
FairSpec ==
    /\ Spec /\ WF_vars(WriterStep) /\ WF_vars(DeviceStep)
    /\ \A w \in GpuWorkers : WF_vars(GpuStep(w))
    /\ \A r \in ReadTasks : WF_vars(ReadStep(r))

-----------------------------------------------------------------------------
(* Properties.                                                             *)

\* The type invariant, with the bounds of the write queue and of the window of ordered writes.
TypeOK ==
    /\ head \in [Shards -> 0..MaxHead] /\ tail \in [Shards -> 0..MaxHead] /\ nextShard \in Shards
    /\ entries \in [Keys -> [st : {"none", "writing", "committed", "invalid"}, shard : Shards,
                             begin : 0..MaxHead]]
    /\ leases \subseteq [reader : ReadTasks, key : Keys, shard : Shards, begin : 0..MaxHead]
    /\ pendingWrites \subseteq Keys /\ reuseHistory \subseteq Keys /\ advertised \subseteq Keys
    /\ Len(queue) <= QueueDepth /\ Len(inflight) <= WriteInflight
    /\ flushing \in BOOLEAN /\ gpuEnabled \in BOOLEAN
    /\ \A w \in GpuWorkers : gpu[w].st \in {"idle", "io"}
    /\ \A r \in ReadTasks : reader[r].st \in {"idle", "candidate", "reading", "done", "last"}

\* A pinned source keeps its entry: until its last reader is gone the generation it reads is
\* neither forgotten, replaced nor overrun, whatever is reserved meanwhile, so that a reader never
\* finds its data "overwritten during read".  (allocate_contiguous, execute_prefetch.)
LeasesKeepGenerations ==
    \A l \in leases :
        /\ SameGeneration(l, entries[l.key]) /\ entries[l.key].st \in {"committed", "invalid"}
        /\ OffsetValid(l)

\* No two live extents share a byte of a file, so no write lands on a block that is being
\* written, read or still offered.  (allocate_contiguous, advance_tail.)
Extent(k) == (entries[k].begin % Capacity)..((entries[k].begin % Capacity) + Size[k] - 1)
ExtentsDisjoint ==
    \A k \in Keys : Live(k) =>
        /\ Extent(k) \subseteq 0..(Capacity - 1)
        /\ \A i \in Keys \ {k} : Live(i) /\ entries[i].shard = entries[k].shard
               => Extent(i) \cap Extent(k) = {}

\* A write in flight keeps its entry: its extent is not handed out before it is committed or
\* given up, however slowly the device finishes.  (allocate_contiguous, GpuWriteLease.)
WritesKeepEntries ==
    /\ \A i \in DOMAIN inflight :
         inflight[i].st \in {"io", "written"} => entries[inflight[i].key].st = "writing"
    /\ \A w \in GpuWorkers : gpu[w].st = "io" =>
         entries[gpu[w].key].st = "writing" /\ SameGeneration(gpu[w], entries[gpu[w].key])

\* pendingWrites is exactly what the queue, the writer and the GPU workers still hold, each key
\* once: nothing is left behind to block later admissions, and no key has two writers.
Members(s) == {s[i] : i \in DOMAIN s}
Holders(k) ==
    Cardinality({i \in DOMAIN queue : k \in Members(queue[i])})
        + Cardinality({i \in DOMAIN pending : pending[i] = k})
        + Cardinality({i \in DOMAIN inflight : inflight[i].key = k})
        + Cardinality({w \in GpuWorkers : gpu[w].st = "io" /\ gpu[w].key = k})
PendingExact == \A k \in Keys : Holders(k) = (IF k \in pendingWrites THEN 1 ELSE 0)

\* A corrupt generation is hidden only as long as somebody reads it; it never blocks its key for
\* good.  (invalidate_encoded, SsdReadLease::drop, release_invalid.)
InvalidIsHeld ==
    \A k \in Keys : entries[k].st = "invalid" =>
        Readers(k) # {} \/ \E r \in ReadTasks : reader[r].st = "last" /\ reader[r].key = k

\* When nobody has an inventory change left to make, the inventory shows exactly the readable
\* blocks: a removed block is not resurrected and a stored one is not lost.  The planning document
\* says so: ring overwrite or corruption removes the evidence of a block.  (commit_write.)
InventoryAgrees ==
    (\A a \in Actors : Free(a)) => advertised = {k \in Keys : Readable(k)}

\* Every admitted key is eventually written or given up.
PendingDrains == \A k \in Keys : []<>(k \notin pendingWrites)

\* A flush returns, whatever else is queued or in flight.
FlushWaits == flushing \/ <<>> \in Members(queue)
FlushReturns == []<>~FlushWaits

-----------------------------------------------------------------------------
(* What is checked                                                           *)

\* The ring never hands out a place that is being read or written, whatever readers, writers and
\* GPU workers do meanwhile (allocate_contiguous, SsdReadLease, GpuWriteLease).
ExtentsHeld ==
  /\ LeasesKeepGenerations
  /\ ExtentsDisjoint
  /\ WritesKeepEntries

\* No failure leaves a key that can never be stored again: pending writes have a writer, hidden
\* entries a reader (admission_skip, release_invalid).
EntriesAccounted ==
  /\ TypeOK
  /\ PendingExact
  /\ InvalidIsHeld

\* Admitted writes end and flush returns (writer task, flush).
WritesEnd ==
  /\ PendingDrains
  /\ FlushReturns
=============================================================================
