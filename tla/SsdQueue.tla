------------------------------ MODULE SsdQueue ------------------------------
(***************************************************************************)
(* The GPU-direct SSD lane of a GPU worker pool: one thread that moves     *)
(* batches between SSD extents and engine pages through two registered     *)
(* staging slots (transfer/worker/ssd/queue.rs, storage/ssd/cufile/        *)
(* slot.rs), and the codec thread beside it that expands encoded input     *)
(* (transfer/worker/ssd/decode.rs).                                        *)
(*                                                                         *)
(* The thread never waits for the device: each turn of its loop admits     *)
(* commands, polls the jobs' host copies, the slots and the codec thread,  *)
(* answers the jobs that are complete and fills the slots that are free.   *)
(* The device, the codec thread, the callers and the pool act between any  *)
(* two steps of a turn.                                                    *)
(*                                                                         *)
(* Abstracted data: a batch is its number in its job's plan with the       *)
(* extent it writes, an encoded read its source and stored bytes.  Cost    *)
(* observations, metrics, the backend fallback and the invalidation of a   *)
(* corrupt extent in the SSD store are left out.                           *)
(***************************************************************************)
EXTENDS Integers, Sequences, FiniteSets, FiniteSums

CONSTANTS
  Tasks,         \* load and save tasks the pool may submit to this lane
  Scopes,        \* what a behaviour is about: the plan of every task, the faults it meets,
                 \* live: scheduled fairly
  Extents,       \* extents a save may write, numbered within the save
  Staging,       \* the staging slots, 1 .. STAGING_SLOTS
  LoadRoom,      \* restores a device admits (DeviceRestoreAdmission)
  SaveRoom,      \* direct saves a device admits (MAX_WRITES)
  ReadBurst,     \* READ_BURST
  AdmitBurst,    \* commands admitted in one turn
  MaxBatches,    \* bound: batches plan_reads makes of one encoded window
  Page,          \* alignment of an encoded input
  MaxSegments    \* MAX_BATCH_SEGMENTS

NoTask == "no task"
Drain == "drain"
NoExtent == 0

\* An encoded read: the source it lies in and its stored bytes.
ReadRecord == [source : Nat, size : Nat]

Plan == [write : BOOLEAN,          \* a save
         ok : BOOLEAN,             \* planning succeeded
         batches : Seq(Extents \cup {NoExtent}),
         encoded : Seq(ReadRecord),
         host : BOOLEAN,           \* some payload also moves through host memory
         budget : Nat]             \* codec_budget

\* A save has nothing encoded; what planning made of a task is not empty unless it failed.
WellPlanned(p) ==
  /\ p.write => p.ok /\ p.encoded = <<>>
  /\ ~p.ok => p.batches = <<>> /\ p.encoded = <<>>
  /\ p.ok => p.batches # <<>> \/ p.encoded # <<>>
  /\ \A i \in DOMAIN p.batches : p.batches[i] # NoExtent <=> p.write

Faults == {"closing", "io", "prepare", "slots", "codec", "death", "park"}

ASSUME TasksAssumption == NoTask \notin Tasks /\ Drain \notin Tasks /\ IsFiniteSet(Tasks)
ASSUME RoomAssumption ==
  /\ LoadRoom \in Nat /\ SaveRoom \in Nat /\ ReadBurst \in Nat /\ AdmitBurst \in Nat \ {0}
  /\ Staging \in Nat \ {0} /\ MaxBatches \in Nat /\ Page \in Nat \ {0} /\ MaxSegments \in Nat
ASSUME ExtentsAssumption == Extents \subseteq Nat \ {NoExtent}
ASSUME ScopesAssumption ==
  /\ Scopes \subseteq [plan : [Tasks -> Plan], faults : SUBSET Faults, live : BOOLEAN]
  /\ \A c \in Scopes, t \in Tasks : WellPlanned(c.plan[t])

Slots == 1 .. Staging
BatchIds(p) == DOMAIN p.batches
BatchesOf(p, e) == {b \in BatchIds(p) : p.batches[b] = e}

VARIABLES
  \* callers and pool
  scope,      \* the plans and faults of this behaviour
  gone,       \* tasks whose consumer has closed its end
  answer,     \* what the caller of a task was told
  lease,      \* the extents of a save: held, committed or dropped
  permits,    \* admission permits left, of loads and of saves
  pool,       \* the sender's side: "open", "closed" (draining) or "dropped"
  inbox,      \* commands on their way to the thread
  drained,    \* "no", "asked" or "done"
  \* the queue thread
  at, ix,     \* the phase of the turn and the slot it has reached
  taken,      \* commands admitted in this turn
  closed,     \* no further command will be admitted
  burst,      \* reads submitted since the last write, at most ReadBurst
  reset,      \* an error may have spoilt a stream
  made,       \* the staging slots exist
  jobs,       \* the deque of jobs
  job,        \* the jobs themselves
  slots,      \* the staging slots and what each carries
  decode,     \* the encoded window being restored
  \* the codec thread
  codec,      \* its state, its pending command and its pending reply
  arena,      \* bytes of its input arena, 0 for none
  scratch,    \* bytes of its codec scratch
  \* history
  moved,      \* batches of a task that completed well
  restored    \* encoded reads of a task that were decoded well

callers == <<scope, gone, answer, lease, permits>>
sender == <<pool, inbox>>
turn == <<at, ix, taken, closed, burst, reset>>
codecs == <<codec, arena, scratch>>
history == <<moved, restored>>
queueVars == <<callers, sender, drained, turn, made, jobs, job, slots, decode, codecs, history>>

NoJob == [raw |-> {}, queued |-> 0, encoded |-> <<>>, decoding |-> FALSE,
          remaining |-> [e \in Extents |-> 0], inflight |-> 0, error |-> "none",
          prepared |-> FALSE, host |-> "none"]
Empty == [st |-> "idle", task |-> NoTask, batch |-> 0, fired |-> FALSE]
NoDecode == [task |-> NoTask, reads |-> <<>>, left |-> 0, phase |-> "none"]
NoCodec == [st |-> "none", cmd |-> "none", bytes |-> 0, budget |-> 0, reply |-> "none"]

QueueInit ==
  /\ scope \in Scopes
  /\ gone = {} /\ answer = [t \in Tasks |-> "new"]
  /\ lease = [t \in Tasks |-> [e \in Extents |-> "none"]]
  /\ permits = [load |-> LoadRoom, save |-> SaveRoom]
  /\ pool = "open" /\ inbox = <<>> /\ drained = "no"
  /\ at = "admit" /\ ix = 1 /\ taken = 0 /\ closed = FALSE /\ burst = 0 /\ reset = FALSE
  /\ made = FALSE /\ jobs = <<>> /\ job = [t \in Tasks |-> NoJob]
  /\ slots = [s \in Slots |-> Empty] /\ decode = NoDecode
  /\ codec = NoCodec /\ arena = 0 /\ scratch = 0
  /\ moved = [t \in Tasks |-> {}] /\ restored = [t \in Tasks |-> 0]

plan == scope.plan
Fault(f) == f \in scope.faults
IsWrite(t) == plan[t].write
Kind(p) == IF p.write THEN "save" ELSE "load"
In(q, t) == \E i \in DOMAIN q : q[i] = t
InJobs(t) == In(jobs, t)
Removed(q, i) == [k \in 1 .. Len(q) - 1 |-> IF k < i THEN q[k] ELSE q[k + 1]]

-----------------------------------------------------------------------------
(* Callers and pool.                                                       *)

\* The write leases a save comes with.
Granted(p, e) == IF BatchesOf(p, e) = {} THEN "none" ELSE "held"

\* submit, under the lock of closed: a permit, the extents of a save, then the channel.
SubmitTask(t) ==
  /\ pool = "open" /\ answer[t] = "new" /\ permits[Kind(plan[t])] > 0
  /\ answer' = [answer EXCEPT ![t] = "waiting"]
  /\ lease' = [lease EXCEPT ![t] =
                 [e \in Extents |-> Granted(plan[t], e)]]
  /\ permits' = [permits EXCEPT ![Kind(plan[t])] = @ - 1]
  /\ inbox' = Append(inbox, t)
  /\ UNCHANGED <<scope, gone, pool, drained, turn, made, jobs, job, slots, decode, codecs, history>>

CloseConsumer(t) ==
  /\ Fault("closing") /\ answer[t] = "waiting" /\ t \notin gone
  /\ gone' = gone \cup {t}
  /\ UNCHANGED <<scope, answer, lease, permits, sender, drained, turn, made, jobs, job, slots,
                 decode, codecs, history>>

\* drain: no submission follows it into the channel.
DrainPool ==
  /\ pool = "open" /\ pool' = "closed" /\ drained' = "asked"
  /\ inbox' = Append(inbox, Drain)
  /\ UNCHANGED <<callers, turn, made, jobs, job, slots, decode, codecs, history>>

DropPool ==
  /\ pool = "open" /\ pool' = "dropped"
  /\ UNCHANGED <<callers, inbox, drained, turn, made, jobs, job, slots, decode, codecs, history>>

-----------------------------------------------------------------------------
(* Jobs.                                                                   *)

\* fail and cancel_abandoned: the first error stays, nothing more is submitted.
Stopped(j, why) ==
  [j EXCEPT !.error = IF @ = "none" THEN why ELSE @,
            !.raw = {}, !.queued = 0, !.encoded = <<>>]
Fail(j) == Stopped(j, "failed")

\* Job::new: a plan of raw batches and encoded reads, or the error planning met.
NewJob(p) ==
  [NoJob EXCEPT !.raw = BatchIds(p), !.encoded = p.encoded,
                !.remaining = [e \in Extents |-> Cardinality(BatchesOf(p, e))],
                !.error = IF p.ok THEN "none" ELSE "failed"]

HasWork(j) == j.raw # {} \/ j.queued > 0

\* is_complete.
Complete(j) ==
  /\ j.inflight = 0 /\ ~HasWork(j) /\ j.encoded = <<>>
  /\ ~j.decoding /\ j.host = "none"

\* prepare: the host part of the job is enqueued once, before its first batch.
Prepared(t) ==
  IF job[t].prepared THEN job[t]
  ELSE [job[t] EXCEPT !.prepared = TRUE, !.host = IF plan[t].host THEN "pending" ELSE "none"]

-----------------------------------------------------------------------------
(* A turn: admission.                                                      *)

Admit ==
  /\ at = "admit" /\ ~closed /\ taken < AdmitBurst /\ inbox # <<>>
  /\ inbox' = Tail(inbox) /\ taken' = taken + 1
  /\ IF Head(inbox) = Drain
     THEN closed' = TRUE /\ UNCHANGED <<jobs, job>>
     ELSE /\ jobs' = Append(jobs, Head(inbox))
          /\ job' = [job EXCEPT ![Head(inbox)] = NewJob(plan[Head(inbox)])]
          /\ UNCHANGED closed
  /\ UNCHANGED <<callers, pool, drained, at, ix, burst, reset, made, slots, decode, codecs,
                 history>>

\* The channel is disconnected: every sender is gone and nothing is left in it.
Disconnect ==
  /\ at = "admit" /\ ~closed /\ taken < AdmitBurst /\ inbox = <<>> /\ pool = "dropped"
  /\ closed' = TRUE
  /\ UNCHANGED <<callers, sender, drained, at, ix, taken, burst, reset, made, jobs, job, slots,
                 decode, codecs, history>>

\* Without jobs the thread waits for a command, with jobs it never does.
EndAdmit ==
  /\ at = "admit"
  /\ closed \/ taken = AdmitBurst \/ (jobs # <<>> /\ inbox = <<>> /\ pool # "dropped")
  /\ at' = "poll" /\ taken' = 0
  /\ UNCHANGED <<callers, sender, drained, ix, closed, burst, reset, made, jobs, job, slots,
                 decode, codecs, history>>

-----------------------------------------------------------------------------
(* Polling the jobs and the slots.                                         *)

\* poll_host: bad events drain the stream, which ends the copy and fails the job.
HostPolled(j, bad) ==
  CASE bad -> Fail([j EXCEPT !.host = "none"])
    [] ~bad /\ j.host = "fired" -> [j EXCEPT !.host = "none"]
    [] OTHER -> j

JobPolled(t, bad) ==
  IF t \in gone THEN Stopped(HostPolled(job[t], bad), "closed") ELSE HostPolled(job[t], bad)

PollJobs ==
  /\ at = "poll" /\ at' = "slots" /\ ix' = 1
  /\ \E bad \in SUBSET {t \in Tasks : Fault("io") /\ job[t].host # "none"} :
       job' = [t \in Tasks |-> IF InJobs(t) THEN JobPolled(t, t \in bad) ELSE job[t]]
  /\ UNCHANGED <<callers, sender, drained, taken, closed, burst, reset, made, jobs, slots,
                 decode, codecs, history>>

\* The loop over the slots, then the phase that follows it.
NextSlot(phase) ==
  IF ix = Staging THEN at' = phase /\ ix' = 1 ELSE at' = at /\ ix' = ix + 1

Busy(s) == slots[s].st # "idle"
IsEncoded(s) == Busy(s) /\ slots[s].batch = 0
ExtentOf(s) == IF slots[s].batch = 0 THEN NoExtent ELSE plan[slots[s].task].batches[slots[s].batch]
Reading(s) == Busy(s) /\ ~IsWrite(slots[s].task)

\* poll: NOT_READY.
SlotWaits ==
  /\ at = "slots" /\ ~(Busy(ix) /\ slots[ix].fired)
  /\ NextSlot("decode")
  /\ UNCHANGED <<callers, sender, drained, taken, closed, burst, reset, made, jobs, job, slots,
                 decode, codecs, history>>

\* poll: the whole read arrived, its scatter into the pages is enqueued.
SlotScatters ==
  /\ at = "slots" /\ Reading(ix) /\ slots[ix].fired /\ slots[ix].st = "io"
  /\ slots' = [slots EXCEPT ![ix] = [@ EXCEPT !.st = "scatter", !.fired = FALSE]]
  /\ NextSlot("decode")
  /\ UNCHANGED <<callers, sender, drained, taken, closed, burst, reset, made, jobs, job,
                 decode, codecs, history>>

\* What poll returns: success once the last stage fired; an error after a short transfer, or
\* once the stream was drained after a bad event or a failed scatter.
SlotResult(s, ok) ==
  Busy(s) /\ (ok => slots[s].fired /\ (Reading(s) => slots[s].st = "scatter"))

\* Job::complete: the counters of the job and of the extent it writes.
CountedDown(counters, e) ==
  IF e = NoExtent THEN counters ELSE [counters EXCEPT ![e] = @ - 1]
Completed(t, e, ok) ==
  LET j == [job[t] EXCEPT !.inflight = @ - 1, !.remaining = CountedDown(@, e)]
  IN IF ok THEN j ELSE Fail(j)

\* Mutant: the first batch of an extent publishes it.
CommitsEarly(t, e, ok) == e # NoExtent /\ ok /\ job[t].error = "none"

\* The last batch of an extent publishes it, unless the job has failed.
Commits(t, e, ok) ==
  e # NoExtent /\ job[t].remaining[e] = 1 /\ ok /\ job[t].error = "none"

SlotEnds(ok) ==
  /\ at = "slots" /\ SlotResult(ix, ok) /\ (ok \/ Fault("io"))
  /\ LET t == slots[ix].task
         e == ExtentOf(ix)
     IN  /\ job' = [job EXCEPT ![t] = Completed(t, e, ok)]
         /\ lease' = IF Commits(t, e, ok) THEN [lease EXCEPT ![t][e] = "committed"] ELSE lease
         /\ moved' = IF ok /\ slots[ix].batch # 0
                     THEN [moved EXCEPT ![t] = @ \cup {slots[ix].batch}] ELSE moved
  /\ decode' = IF IsEncoded(ix) THEN [decode EXCEPT !.left = @ - 1] ELSE decode
  /\ reset' = (reset \/ ~ok)
  /\ slots' = [slots EXCEPT ![ix] = Empty]
  /\ NextSlot("decode")
  /\ UNCHANGED <<scope, gone, answer, permits, sender, drained, taken, closed, burst, made, jobs,
                 codecs, restored>>

-----------------------------------------------------------------------------
(* Polling the codec thread: poll_decode.                                  *)

DecodeTask == decode.task
Decoding == decode.task # NoTask
Answering == decode.phase \in {"preparing", "decoding"}

decodeStays == <<callers, sender, drained, ix, taken, closed, burst, reset, made, jobs, slots,
                 arena, scratch, moved>>

\* The window is given up or done; its job goes on, or fails.
EndDecode(j) ==
  /\ decode' = NoDecode
  /\ job' = [job EXCEPT ![DecodeTask] = [j EXCEPT !.decoding = FALSE]]

PollNothing ==
  /\ at = "decode" /\ at' = "reap"
  /\ ~Decoding \/ (Answering /\ codec.reply = "none" /\ codec.st # "dead")
  /\ UNCHANGED <<decodeStays, job, decode, codec, restored>>

\* Prepared: the reads of the window become batches, unless the job was lost meanwhile.
\* Zero batches stand for the error plan_reads returned.
PollPrepared(n) ==
  /\ at = "decode" /\ at' = "reap" /\ Decoding /\ codec.reply \in {"prepared", "refused"}
  /\ codec' = [codec EXCEPT !.reply = "none"]
  /\ CASE codec.reply = "refused" -> EndDecode(Fail(job[DecodeTask]))
       [] codec.reply = "prepared" /\ job[DecodeTask].error # "none" ->
            EndDecode(job[DecodeTask])
       [] OTHER ->
            IF n = 0 THEN EndDecode(Fail(job[DecodeTask]))
            ELSE /\ decode' = [decode EXCEPT !.left = n, !.phase = "reading"]
                 /\ job' = [job EXCEPT ![DecodeTask].queued = @ + n]
  /\ UNCHANGED <<decodeStays, restored>>

\* Completed.
PollCompleted ==
  /\ at = "decode" /\ at' = "reap" /\ Decoding /\ codec.reply \in {"decoded", "broken"}
  /\ codec' = [codec EXCEPT !.reply = "none"]
  /\ EndDecode(IF codec.reply = "decoded" THEN job[DecodeTask] ELSE Fail(job[DecodeTask]))
  /\ restored' = IF codec.reply = "decoded"
                 THEN [restored EXCEPT ![DecodeTask] = @ + Len(decode.reads)] ELSE restored
  /\ UNCHANGED decodeStays

\* The codec thread ended without a reply.
PollDisconnected ==
  /\ at = "decode" /\ at' = "reap" /\ Decoding /\ Answering
  /\ codec.reply = "none" /\ codec.st = "dead"
  /\ EndDecode(Fail(job[DecodeTask]))
  /\ UNCHANGED <<decodeStays, codec, restored>>

\* Mutant: a failed job gives its window up while reads are still scattering into it.
GivesUpAtOnce(j) == j.error # "none"

\* Mutant: a failed job waits for reads that were never submitted.
WaitsForWindow(j) == j.error # "none" /\ decode.left = 0

\* A failed job keeps its window until the last of its reads has landed.
GivesUp(j) == j.error # "none" /\ j.inflight = 0

CanSend == codec.st = "up" /\ codec.cmd = "none"
SendCommand(cmd, bytes, budget) ==
  codec' = [codec EXCEPT !.cmd = cmd, !.bytes = bytes, !.budget = budget]

\* Reading: once every batch has landed the window is decoded.
PollReading ==
  /\ at = "decode" /\ at' = "reap" /\ Decoding /\ decode.phase = "reading"
  /\ LET j == job[DecodeTask] IN
       CASE GivesUp(j) -> EndDecode(j) /\ UNCHANGED codec
         [] ~GivesUp(j) /\ j.error = "none" /\ decode.left = 0 ->
              IF CanSend
              THEN /\ SendCommand("decode", codec.bytes, codec.budget)
                   /\ decode' = [decode EXCEPT !.phase = "decoding"]
                   /\ UNCHANGED job
              ELSE EndDecode(Fail(j)) /\ UNCHANGED codec
         [] OTHER -> UNCHANGED <<job, decode, codec>>
  /\ UNCHANGED <<decodeStays, restored>>

-----------------------------------------------------------------------------
(* Answering the jobs that are complete.                                   *)

\* finish_load, and the reply of a save.
AnswerOf(j) == IF j.error = "none" THEN "ok" ELSE j.error

\* finish: unpublished extents are dropped before the caller may reuse its pages; the permit
\* goes back and the answer goes out.
FinishJob(i) ==
  /\ at = "reap" /\ Complete(job[jobs[i]])
  /\ \A k \in 1 .. i - 1 : ~Complete(job[jobs[k]])
  /\ LET t == jobs[i] IN
       /\ lease' = [lease EXCEPT ![t] =
                      [e \in Extents |-> IF @[e] = "held" THEN "dropped" ELSE @[e]]]
       /\ permits' = [permits EXCEPT ![Kind(plan[t])] = @ + 1]
       /\ answer' = [answer EXCEPT ![t] = AnswerOf(job[t])]
       /\ job' = [job EXCEPT ![t] = NoJob]
  /\ jobs' = Removed(jobs, i)
  /\ UNCHANGED <<scope, gone, sender, drained, turn, made, slots, decode, codecs, history>>

NoneComplete == \A i \in DOMAIN jobs : ~Complete(job[jobs[i]])

\* Slots whose stream may be spoilt are dropped once none of them carries anything.
Spoilt == reset /\ \A s \in Slots : ~Busy(s)

\* The last job has gone: wait for commands, or release slots, codec thread and runtime and
\* acknowledge the drain.
EndReapIdle ==
  /\ at = "reap" /\ jobs = <<>>
  /\ reset' = (reset /\ ~Spoilt)
  /\ IF closed
     THEN /\ at' = "exited" /\ made' = FALSE
          /\ codec' = NoCodec /\ arena' = 0 /\ scratch' = 0
          /\ drained' = IF drained = "asked" THEN "done" ELSE drained
     ELSE /\ at' = "admit" /\ made' = (made /\ ~Spoilt)
          /\ UNCHANGED <<codecs, drained>>
  /\ UNCHANGED <<callers, sender, ix, taken, closed, burst, jobs, job, slots, decode, history>>

\* Slots are made when there are none; without them every job fails.
EndReap(created) ==
  /\ at = "reap" /\ jobs # <<>> /\ NoneComplete
  /\ reset' = (reset /\ ~Spoilt)
  /\ (made /\ ~Spoilt) \/ ~Fault("slots") => created
  /\ made' = created
  /\ at' = IF created THEN "submit" ELSE "admit"
  /\ job' = IF created THEN job
            ELSE [t \in Tasks |-> IF InJobs(t) THEN Fail(job[t]) ELSE job[t]]
  /\ UNCHANGED <<callers, sender, drained, ix, taken, closed, burst, jobs, slots, decode,
                 codecs, history>>

-----------------------------------------------------------------------------
(* Filling the slots that are free.                                        *)

Eligible(t) == HasWork(job[t]) \/ (job[t].encoded # <<>> /\ ~Decoding)
Writing == \E s \in Slots : Busy(s) /\ IsWrite(slots[s].task)
Reads == {i \in DOMAIN jobs : ~IsWrite(jobs[i]) /\ Eligible(jobs[i])}

\* At most one write is in flight, which leaves a slot to demand reads.
Writes == {i \in DOMAIN jobs : ~Writing /\ IsWrite(jobs[i]) /\ Eligible(jobs[i])}

First(S, i) == i \in S /\ \A k \in S : i <= k

\* Reads go first until ReadBurst of them have passed a waiting write.
Selected(i) ==
  \/ First(Reads, i) /\ (Writes = {} \/ burst < ReadBurst)
  \/ First(Writes, i) /\ (Reads = {} \/ burst >= ReadBurst)

CanSubmit(i) == at = "submit" /\ ~reset /\ ~Busy(ix) /\ Selected(i)

submitStays == <<callers, sender, drained, taken, closed, made, arena, scratch, history>>

\* The job goes to the back of the deque; the burst counts reads between writes.
Rotate(i) ==
  /\ jobs' = Append(Removed(jobs, i), jobs[i])
  /\ burst' = CASE IsWrite(jobs[i]) -> 0
                [] ~IsWrite(jobs[i]) /\ burst < ReadBurst -> burst + 1
                [] OTHER -> burst
  /\ NextSlot("admit")

SubmitNothing ==
  /\ at = "submit"
  /\ IF reset THEN at' = "admit" /\ ix' = 1 ELSE NextSlot("admit")
  /\ ~reset => Busy(ix) \/ \A i \in DOMAIN jobs : ~Selected(i)
  /\ UNCHANGED <<submitStays, burst, reset, jobs, job, slots, decode, codec>>

\* prepare failed; whatever it had enqueued was drained.
PrepareFails(i) ==
  /\ Fault("prepare") /\ CanSubmit(i) /\ ~job[jobs[i]].prepared
  /\ job' = [job EXCEPT ![jobs[i]] = Fail(@)]
  /\ Rotate(i)
  /\ UNCHANGED <<submitStays, reset, slots, decode, codec>>

\* input_window: the page-aligned end of every read of a prefix, and the longest prefix of one
\* source that fits half the budget (the first read may take more).
Round(n) == ((n + Page - 1) \div Page) * Page
EndOf(reads, k) == Partial([i \in DOMAIN reads |-> Round(reads[i].size)], Len(reads))[k]
FitsWindow(reads, budget, k) ==
  /\ k <= MaxSegments /\ reads[k].source = reads[1].source
  /\ reads[k].size > 0 /\ EndOf(reads, k) + 2 * Page <= budget
  /\ k > 1 => EndOf(reads, k) <= budget \div 2
Window(reads, budget) ==
  CHOOSE n \in 0 .. Len(reads) :
    /\ \A k \in 1 .. n : FitsWindow(reads, budget, k)
    /\ n < Len(reads) => ~FitsWindow(reads, budget, n + 1)

\* Decode::begin, after a codec thread was started for it; either may fail.
BeginDecode(i, started) ==
  LET t == jobs[i]
      n == Window(job[t].encoded, plan[t].budget)
      j == Prepared(t)
      ready == [codec EXCEPT !.st = IF @ = "none" /\ started THEN "up" ELSE @]
  IN /\ CanSubmit(i) /\ ~HasWork(job[t])
     /\ codec.st # "none" \/ ~Fault("codec") => started
     /\ IF ready.st # "up" \/ ready.cmd # "none" \/ n = 0
        THEN /\ job' = [job EXCEPT ![t] = Fail(j)] /\ codec' = ready /\ UNCHANGED decode
        ELSE /\ job' = [job EXCEPT ![t] = [j EXCEPT !.decoding = TRUE,
                                              !.encoded = SubSeq(@, n + 1, Len(@))]]
             /\ decode' = [task |-> t, reads |-> SubSeq(job[t].encoded, 1, n), left |-> 0,
                           phase |-> "preparing"]
             /\ codec' = [ready EXCEPT !.cmd = "prepare", !.budget = plan[t].budget,
                                       !.bytes = EndOf(job[t].encoded, n)]
     /\ Rotate(i)
     /\ UNCHANGED <<submitStays, reset, slots>>

\* The raw batches of a job come first, then those of its encoded window.
FrontBatch(j) == IF j.raw = {} THEN 0 ELSE CHOOSE b \in j.raw : \A c \in j.raw : b <= c
Popped(j) ==
  IF j.raw = {} THEN [j EXCEPT !.queued = @ - 1] ELSE [j EXCEPT !.raw = @ \ {FrontBatch(j)}]

\* GpuSlot::submit: the slot owns the batch until its event, or nothing of it remains.
SubmitBatch(i, ok) ==
  LET t == jobs[i]
      j == Popped(Prepared(t))
  IN /\ CanSubmit(i) /\ HasWork(job[t]) /\ (ok \/ Fault("io"))
     /\ IF ok
        THEN /\ job' = [job EXCEPT ![t] = [j EXCEPT !.inflight = @ + 1]]
             /\ slots' = [slots EXCEPT ![ix] = [st |-> "io", task |-> t,
                                                batch |-> FrontBatch(job[t]), fired |-> FALSE]]
             /\ UNCHANGED reset
        ELSE /\ job' = [job EXCEPT ![t] = Fail(j)] /\ reset' = TRUE /\ UNCHANGED slots
     /\ Rotate(i)
     /\ UNCHANGED <<submitStays, decode, codec>>

-----------------------------------------------------------------------------
(* The codec thread.                                                       *)

codecStays == <<callers, sender, drained, turn, made, jobs, job, slots, decode, history>>
Reply(r) == codec' = [codec EXCEPT !.cmd = "none", !.reply = r]

\* Prepare: an arena too small or too large for the window is freed, scratch beyond what the
\* arena leaves of the budget is freed, and only then a new arena is allocated.
Oversized(bytes, budget) == arena > budget \div 2 /\ arena > bytes
Resident(bytes, budget) ==
  IF arena = 0 \/ arena < bytes \/ Oversized(bytes, budget) THEN bytes ELSE arena

ScratchKept(left) == IF scratch > left THEN 0 ELSE scratch

CodecPrepares(ok) ==
  LET size == Resident(codec.bytes, codec.budget)
      fits == codec.bytes # 0 /\ codec.bytes < codec.budget
  IN /\ codec.st = "up" /\ codec.cmd = "prepare"
     /\ ~ok /\ fits => arena # size /\ Fault("codec")
     /\ IF fits
        THEN /\ arena' = IF ok THEN size ELSE 0
             /\ scratch' = ScratchKept(codec.budget - size)
        ELSE UNCHANGED <<arena, scratch>>
     /\ Reply(IF fits /\ ok THEN "prepared" ELSE "refused")
     /\ UNCHANGED codecStays

\* reserve: the scratch is kept or grown, never beyond the rest of the budget; the old one is
\* freed first, so none is left when growing it fails.
ScratchAfter(grow, ok) ==
  IF grow THEN {codec.budget - arena} \cup (IF ok THEN {} ELSE {0}) ELSE {scratch}

\* Decode: the stream is drained before the reply, whatever happened.
CodecDecodes(grow, ok) ==
  /\ codec.st = "up" /\ codec.cmd = "decode" /\ (ok \/ Fault("codec"))
  /\ scratch' \in ScratchAfter(grow, ok)
  /\ Reply(IF ok THEN "decoded" ELSE "broken")
  /\ UNCHANGED <<codecStays, arena>>

\* The thread unwinds: dropping the arena drains its stream first.
CodecDies ==
  /\ Fault("death") /\ codec.st = "up" /\ codec.cmd # "none"
  /\ codec' = [codec EXCEPT !.st = "dead", !.cmd = "none"]
  /\ arena' = 0 /\ scratch' = 0
  /\ UNCHANGED codecStays

-----------------------------------------------------------------------------
(* The device.                                                             *)

SlotFires(s) ==
  /\ Busy(s) /\ ~slots[s].fired
  /\ slots' = [slots EXCEPT ![s].fired = TRUE]
  /\ UNCHANGED <<callers, sender, drained, turn, made, jobs, job, decode, codecs, history>>

HostFires(t) ==
  /\ job[t].host = "pending"
  /\ job' = [job EXCEPT ![t].host = "fired"]
  /\ UNCHANGED <<callers, sender, drained, turn, made, jobs, slots, decode, codecs, history>>

\* A stream that cannot be drained proves nothing: the thread that met it keeps everything and
\* never goes on (retain_gpu_work).
QueueParks ==
  /\ Fault("park")
  /\ \/ at = "poll" /\ \E t \in Tasks : job[t].host # "none"
     \/ at = "slots" /\ Busy(ix)
     \/ at = "submit" /\ \E i \in DOMAIN jobs : CanSubmit(i)
     \/ at = "reap" /\ made
  /\ at' = "parked"
  /\ UNCHANGED <<callers, sender, drained, ix, taken, closed, burst, reset, made, jobs, job,
                 slots, decode, codecs, history>>

CodecParks ==
  /\ Fault("park") /\ codec.st = "up" /\ codec.cmd = "decode"
  /\ codec' = [codec EXCEPT !.st = "parked"]
  /\ UNCHANGED <<codecStays, arena, scratch>>

-----------------------------------------------------------------------------
TurnStep ==
  \/ Admit \/ Disconnect \/ EndAdmit \/ PollJobs
  \/ SlotWaits \/ SlotScatters \/ \E ok \in BOOLEAN : SlotEnds(ok)
  \/ PollNothing \/ \E n \in 0 .. MaxBatches : PollPrepared(n)
  \/ PollCompleted \/ PollDisconnected \/ PollReading
  \/ EndReapIdle \/ \E created \in BOOLEAN : EndReap(created)
  \/ SubmitNothing
  \/ \E i \in DOMAIN jobs :
       \/ FinishJob(i) \/ PrepareFails(i)
       \/ \E ok \in BOOLEAN : BeginDecode(i, ok) \/ SubmitBatch(i, ok)

CodecStep ==
  \/ \E ok \in BOOLEAN : CodecPrepares(ok)
  \/ \E grow, ok \in BOOLEAN : CodecDecodes(grow, ok)

QueueNext ==
  \/ \E t \in Tasks : SubmitTask(t) \/ CloseConsumer(t) \/ HostFires(t)
  \/ DrainPool \/ DropPool
  \/ TurnStep \/ CodecStep \/ CodecDies
  \/ \E s \in Slots : SlotFires(s)
  \/ QueueParks \/ CodecParks

QueueSpec == QueueInit /\ [][QueueNext]_queueVars

\* The two threads run, and the device ends what it was given.
QueueFairness ==
  /\ WF_queueVars(scope.live /\ TurnStep) /\ WF_queueVars(scope.live /\ CodecStep)
  /\ \A s \in Slots : WF_queueVars(scope.live /\ SlotFires(s))
  /\ \A t \in Tasks : WF_queueVars(scope.live /\ HostFires(t))

-----------------------------------------------------------------------------
(* Properties.                                                             *)

Waiting(t) == answer[t] = "waiting"
Carrying(slot, t) == {s \in Slots : slot[s].task = t}
CarryingEncoded(slot) == {s \in Slots : slot[s].st # "idle" /\ slot[s].batch = 0}
SlotsOf(t) == Carrying(slots, t)
EncodedSlots == CarryingEncoded(slots)

Counters == [Extents -> Int]
Job == [raw : SUBSET Nat, queued : Int, encoded : Seq(ReadRecord),
        decoding : BOOLEAN, remaining : Counters, inflight : Int,
        error : {"none", "failed", "closed"}, prepared : BOOLEAN,
        host : {"none", "pending", "fired"}]
Slot == [st : {"idle", "io", "scatter"}, task : Tasks \cup {NoTask}, batch : Nat, fired : BOOLEAN]

\* The type invariant.
QueueTypeOK ==
  /\ scope \in Scopes /\ gone \in SUBSET Tasks
  /\ answer \in [Tasks -> {"new", "waiting", "ok", "failed", "closed"}]
  /\ lease \in [Tasks -> [Extents -> {"none", "held", "committed", "dropped"}]]
  /\ permits \in [load : Int, save : Int]
  /\ pool \in {"open", "closed", "dropped"} /\ inbox \in Seq(Tasks \cup {Drain})
  /\ drained \in {"no", "asked", "done"}
  /\ at \in {"admit", "poll", "slots", "decode", "reap", "submit", "exited", "parked"}
  /\ ix \in Slots /\ taken \in Nat /\ closed \in BOOLEAN /\ burst \in Nat /\ reset \in BOOLEAN
  /\ made \in BOOLEAN /\ jobs \in Seq(Tasks) /\ job \in [Tasks -> Job] /\ slots \in [Slots -> Slot]
  /\ decode \in [task : Tasks \cup {NoTask}, reads : Seq(ReadRecord), left : Int,
                 phase : {"none", "preparing", "reading", "decoding"}]
  /\ codec \in [st : {"none", "up", "dead", "parked"}, cmd : {"none", "prepare", "decode"},
                bytes : Int, budget : Nat,
                reply : {"none", "prepared", "refused", "decoded", "broken"}]
  /\ arena \in Int /\ scratch \in Int
  /\ moved \in [Tasks -> SUBSET Nat] /\ restored \in [Tasks -> Nat]

\* Whatever the device still touches belongs to a job the queue holds: engine pages, extents
\* and the arena outlive every batch, host copy and decode, so no expect() of the loop fails
\* and no caller is answered early (run, Job::finish, GpuSlot::submit).
PagesHeld ==
  /\ \A s \in Slots : Busy(s) => InJobs(slots[s].task) /\ Waiting(slots[s].task)
  /\ \A t \in Tasks : job[t].host # "none" \/ job[t].decoding => InJobs(t) /\ Waiting(t)
  /\ \A t \in Tasks : job[t].inflight = Cardinality(SlotsOf(t))
  /\ Decoding => job[DecodeTask].decoding

\* While batches scatter into the arena its window is the active one and the codec thread has
\* nothing to do: the arena is neither decoded, freed nor replaced under them (DecodeCommand,
\* DeviceInput::drop).
ArenaIsStable ==
  /\ EncodedSlots # {} =>
       /\ decode.phase = "reading" /\ codec.cmd = "none" /\ codec.reply = "none"
       /\ \A s \in EncodedSlots : slots[s].task = DecodeTask
       /\ Cardinality(EncodedSlots) <= decode.left
  /\ codec.cmd # "none" \/ codec.reply # "none" => Decoding /\ Answering
  /\ \A k \in DOMAIN decode.reads : decode.reads[k].source = decode.reads[1].source

\* "Two in-flight batches; at most one write leaves capacity for demand reads" (run).
OneWrite ==
  \A r, s \in Slots :
    Busy(r) /\ Busy(s) /\ IsWrite(slots[r].task) /\ IsWrite(slots[s].task) => r = s

\* "Changes in budget never produce a temporary double reservation": arena and scratch
\* together stay inside the budget of the window (decode::run, GpuCodec::reserve).
CodecInBudget == codec.st \in {"up", "parked"} /\ codec.cmd # "prepare" => arena + scratch <= codec.budget

\* An extent is published only when every one of its batches was written well, and none is
\* still held when the caller of the save is answered (Job::complete, GpuWriteLease).
CommitsAreWhole ==
  \A t \in Tasks, e \in Extents :
    /\ lease[t][e] = "committed" => BatchesOf(plan[t], e) \subseteq moved[t]
    /\ lease[t][e] = "held" => Waiting(t)

\* Everything a plan asks for was done.
Whole(p, batches, reads, leases) ==
  /\ batches = BatchIds(p) /\ reads = Len(p.encoded)
  /\ \A e \in Extents : BatchesOf(p, e) # {} => leases[e] = "committed"

\* A task that is told it succeeded has moved every batch, decoded every read and published
\* every extent (Job::finish).
SuccessIsComplete ==
  \A t \in Tasks : answer[t] = "ok" => Whole(plan[t], moved[t], restored[t], lease[t])

\* The permits of a device are exactly the tasks not yet answered (Drop of ssd_admission and
\* decode_admission).
PermitsReturn ==
  /\ permits.load = LoadRoom - Cardinality({t \in Tasks : Waiting(t) /\ ~IsWrite(t)})
  /\ permits.save = SaveRoom - Cardinality({t \in Tasks : Waiting(t) /\ IsWrite(t)})

\* The device works on nothing that was let go, at most one write is in flight, and the codec
\* thread stays inside its budget.
LaneIsSafe == QueueTypeOK /\ PagesHeld /\ ArenaIsStable /\ OneWrite /\ CodecInBudget

\* What callers and the SSD store learn of a task is what was done.
AnswersAreTrue == CommitsAreWhole /\ SuccessIsComplete /\ PermitsReturn

Parked == at = "parked" \/ codec.st = "parked"

\* Every task is answered, and a drain acknowledged, unless a stream could not be drained: a
\* task is submitted once, so what waits in the end was never answered
\* (run: "Read bursts and round-robin jobs bound starvation").
LaneEnds ==
  scope.live => <>[](Parked \/ (drained # "asked" /\ \A t \in Tasks : ~Waiting(t)))
=============================================================================
