--------------------------- MODULE SsdQueueProofs ---------------------------
(***************************************************************************)
(* What the GPU-direct SSD lane keeps, for any number of tasks, slots and  *)
(* extents, any plans and any faults: the inductive invariant, and the     *)
(* steps of the callers, of the codec thread, of the device and of jobs    *)
(* that are admitted, polled and answered.                                 *)
(***************************************************************************)
EXTENDS SsdQueue, TLAPS

-----------------------------------------------------------------------------
(* CountingFacts, one fact at a time.                                      *)

\* Intervals are finite.
LEMMA IntervalFinite == ASSUME CountingFacts, NEW n \in Int PROVE IsFiniteSet(1 .. n)
  BY Zenon DEF CountingFacts, FiniteFacts

\* So are subsets of finite sets.
LEMMA SubsetFinite ==
  ASSUME CountingFacts, NEW S, IsFiniteSet(S), NEW T \in SUBSET S
  PROVE  IsFiniteSet(T)
  BY Zenon DEF CountingFacts, FiniteFacts

\* A finite set has a number of elements, 0 when there are none.
LEMMA CountIsNat ==
  ASSUME CountingFacts, NEW S, IsFiniteSet(S)
  PROVE  Cardinality(S) \in Nat
  BY Zenon DEF CountingFacts, FiniteFacts

\* The empty set counts zero, and is the only finite set that does.
LEMMA NoneCounted ==
  ASSUME CountingFacts
  PROVE  /\ IsFiniteSet({}) /\ Cardinality({}) = 0
         /\ \A S : IsFiniteSet(S) => (Cardinality(S) = 0 <=> S = {})
  BY Zenon DEF CountingFacts, FiniteFacts

\* One element more counts one more.
LEMMA OneMoreCounted ==
  ASSUME CountingFacts, NEW S, IsFiniteSet(S), NEW x, x \notin S, NEW T, T = S \cup {x}
  PROVE  Cardinality(T) = Cardinality(S) + 1 /\ IsFiniteSet(T) /\ Cardinality(S) \in Nat
  BY Zenon DEF CountingFacts, FiniteFacts

\* A set of naturals has a least element.
LEMMA LeastOfNats ==
  ASSUME CountingFacts, NEW T \in SUBSET Nat, T # {}
  PROVE  \E x \in T : \A y \in T : x <= y
  BY Zenon DEF CountingFacts, FiniteFacts

\* Partial sums are what their definition says.
LEMMA PartialSums ==
  ASSUME CountingFacts, NEW n \in Nat, NEW r, \A i \in 1 .. n : r[i] \in Nat
  PROVE  /\ Partial(r, n) \in [0 .. n -> Nat]
         /\ Partial(r, n)[0] = 0
         /\ \A i \in 1 .. n : Partial(r, n)[i] = Partial(r, n)[i - 1] + r[i]
  BY ZenonT(40) DEF CountingFacts, FiniteFacts

Distinct(q) == \A i, k \in DOMAIN q : q[i] = q[k] => i = k

Live(t) == InJobs(t) /\ job[t].error = "none"

\* A task is in the channel or in the deque, once, and its caller waits.
QueuesAgree ==
  /\ Distinct(jobs)
  /\ \A i, k \in DOMAIN inbox : inbox[i] = inbox[k] /\ inbox[i] # Drain => i = k
  /\ \A t \in Tasks : InJobs(t) => Waiting(t)
  /\ \A i \in DOMAIN inbox : inbox[i] # Drain => Waiting(inbox[i]) /\ ~InJobs(inbox[i])

\* A task outside the deque has no job, and has done nothing unless it was answered.
OutsideIsFresh ==
  \A t \in Tasks : ~InJobs(t) =>
    /\ job[t] = NoJob
    /\ answer[t] \in {"new", "waiting"} => moved[t] = {} /\ restored[t] = 0

\* A slot that carries something carries it for a job of the deque, which counts it.
SlotsAgree ==
  /\ \A s \in Slots : ~Busy(s) => slots[s] = Empty
  /\ \A s \in Slots : Busy(s) => slots[s].task \in Tasks /\ InJobs(slots[s].task)
  /\ \A t \in Tasks : job[t].inflight = Cardinality(SlotsOf(t))

\* Every batch of a job that has not failed is left to submit, in one slot, or moved.
BatchesAgree ==
  /\ \A s \in Slots : Busy(s) /\ slots[s].batch # 0 =>
       slots[s].batch \in BatchIds(plan[slots[s].task]) \ moved[slots[s].task]
  /\ \A r, s \in Slots :
       Busy(r) /\ slots[r].batch # 0 /\ slots[r].task = slots[s].task /\ slots[r].batch = slots[s].batch
         => r = s
  /\ \A t \in Tasks : moved[t] \subseteq BatchIds(plan[t])
  /\ \A t \in Tasks : job[t].raw \subseteq BatchIds(plan[t]) \ moved[t]
  /\ \A t \in Tasks, s \in Slots : slots[s].task = t => slots[s].batch \notin job[t].raw
  /\ \A t \in Tasks : Live(t) => \A b \in BatchIds(plan[t]) \ moved[t] :
       b \in job[t].raw \/ \E s \in Slots : slots[s].task = t /\ slots[s].batch = b

Due(p, e, done) ==
  IF BatchesOf(p, e) # {} /\ BatchesOf(p, e) \subseteq done THEN "committed" ELSE Granted(p, e)

\* The counter of an extent counts its batches not yet moved, and its lease follows it.
ExtentAgrees(t, e) ==
  /\ Live(t) =>
       /\ job[t].remaining[e] = Cardinality(BatchesOf(plan[t], e) \ moved[t])
       /\ lease[t][e] = Due(plan[t], e, moved[t])
  /\ ~InJobs(t) /\ Waiting(t) => lease[t][e] = Granted(plan[t], e)
  /\ answer[t] = "new" => lease[t][e] = "none"
ExtentsAgree == \A t \in Tasks, e \in Extents : ExtentAgrees(t, e)

\* The window belongs to one job, its reads are queued, in slots or landed.
WindowAgrees ==
  /\ ~Decoding => decode = NoDecode
  /\ Decoding => decode.phase # "none"
  /\ \A t \in Tasks : job[t].decoding <=> decode.task = t
  /\ \A t \in Tasks : job[t].queued >= 0
  /\ \A t \in Tasks : job[t].queued > 0 =>
       decode.task = t /\ decode.phase = "reading" /\ job[t].error = "none"
  /\ \A s \in Slots : IsEncoded(s) => slots[s].task = decode.task /\ decode.phase = "reading"
  /\ decode.phase = "reading" => Cardinality(EncodedSlots) + job[DecodeTask].queued <= decode.left
  /\ \A k \in DOMAIN decode.reads : decode.reads[k].source = decode.reads[1].source

\* The reads of a job that has not failed are to come, in its window or restored.
ReadsAgree ==
  \A t \in Tasks : Live(t) =>
    restored[t] + (IF decode.task = t THEN Len(decode.reads) ELSE 0) + Len(job[t].encoded)
      = Len(plan[t].encoded)

\* The codec thread has a command or a reply only for the window, and never both.
CodecAgrees ==
  /\ codec.cmd = "prepare" => decode.phase = "preparing" /\ codec.reply = "none"
  /\ codec.cmd = "decode" => decode.phase = "decoding" /\ codec.reply = "none"
  /\ codec.reply \in {"prepared", "refused"} => decode.phase = "preparing"
  /\ codec.reply \in {"decoded", "broken"} => decode.phase = "decoding"
  /\ codec.cmd = "prepare" => 0 < codec.bytes /\ codec.bytes < codec.budget
  /\ arena >= 0 /\ scratch >= 0
  /\ codec.st \in {"none", "dead"} => codec.cmd = "none" /\ arena = 0 /\ scratch = 0

Rest ==
  /\ QueuesAgree /\ OutsideIsFresh /\ SlotsAgree /\ BatchesAgree /\ ExtentsAgree
  /\ WindowAgrees /\ ReadsAgree /\ CodecAgrees
  /\ OneWrite /\ CodecInBudget /\ CommitsAreWhole /\ SuccessIsComplete /\ PermitsReturn

\* The inductive invariant.
QueueInvariant == QueueTypeOK /\ Rest

-----------------------------------------------------------------------------
(* Sequences without duplicates.                                           *)

\* Taking one job out of the deque takes that task out and no other.
LEMMA RemovedFacts ==
  ASSUME NEW S, NEW q \in Seq(S), NEW i \in DOMAIN q, Distinct(q)
  PROVE  /\ Removed(q, i) \in Seq(S) /\ Distinct(Removed(q, i))
         /\ \A t : In(Removed(q, i), t) <=> In(q, t) /\ t # q[i]
<1> DEFINE r == Removed(q, i)
<1>1. /\ DOMAIN q = 1 .. Len(q) /\ Len(q) \in Nat /\ i \in 1 .. Len(q)
      /\ \A k \in 1 .. Len(q) : q[k] \in S
  OBVIOUS
<1>2. /\ DOMAIN r = 1 .. Len(q) - 1
      /\ \A k \in 1 .. Len(q) - 1 : r[k] = IF k < i THEN q[k] ELSE q[k + 1]
  BY Zenon DEF Removed
<1>3. r \in [1 .. Len(q) - 1 -> S]
  BY SMTT(40), <1>1 DEF Removed
<1>4. r \in Seq(S)
  <2>1. Len(q) - 1 \in Nat
    BY SMTT(40), <1>1
  <2> QED BY SMTT(40), <1>3, <2>1
<1>5. Distinct(r)
  <2> SUFFICES ASSUME NEW k \in 1 .. Len(q) - 1, NEW m \in 1 .. Len(q) - 1, r[k] = r[m] PROVE k = m
    BY Zenon, <1>2 DEF Distinct
  <2>1. PICK a \in 1 .. Len(q) : r[k] = q[a] /\ a = IF k < i THEN k ELSE k + 1
    BY SMTT(40), <1>1, <1>2
  <2>2. PICK b \in 1 .. Len(q) : r[m] = q[b] /\ b = IF m < i THEN m ELSE m + 1
    BY SMTT(40), <1>1, <1>2
  <2>3. a = b
    BY Zenon, <1>1, <2>1, <2>2 DEF Distinct
  <2> HIDE DEF r
  <2> QED BY SMTT(40), <1>1, <2>1, <2>2, <2>3
<1>6. ASSUME NEW t PROVE In(r, t) <=> In(q, t) /\ t # q[i]
  <2>1. ASSUME In(r, t) PROVE In(q, t) /\ t # q[i]
    <3>1. PICK k \in 1 .. Len(q) - 1 : r[k] = t
      BY Zenon, <1>2, <2>1 DEF In
    <3>2. PICK a \in 1 .. Len(q) : r[k] = q[a] /\ a = IF k < i THEN k ELSE k + 1
      BY SMTT(40), <1>1, <1>2
    <3>3. a # i
      BY SMTT(40), <1>1, <3>2
    <3> QED BY Zenon, <1>1, <3>1, <3>2, <3>3 DEF In, Distinct
  <2>2. ASSUME In(q, t), t # q[i] PROVE In(r, t)
    <3>1. PICK k \in 1 .. Len(q) : q[k] = t
      BY Zenon, <1>1, <2>2 DEF In
    <3>2. CASE k < i
      BY SMTT(40), <1>1, <1>2, <3>1, <3>2 DEF In
    <3>3. CASE k > i
      <4>1. k - 1 \in 1 .. Len(q) - 1 /\ r[k - 1] = q[k]
        BY SMTT(40), <1>1, <1>2, <3>3
      <4> QED BY Zenon, <1>2, <3>1, <4>1 DEF In
    <3> QED BY SMTT(40), <1>1, <2>2, <3>1, <3>2, <3>3
  <2> QED BY Zenon, <2>1, <2>2
<1> QED BY Zenon, <1>4, <1>5, <1>6

\* A task that is not in the deque is added once.
LEMMA AppendFacts ==
  ASSUME NEW S, NEW q \in Seq(S), NEW x \in S
  PROVE  /\ Append(q, x) \in Seq(S)
         /\ Distinct(q) /\ ~In(q, x) => Distinct(Append(q, x))
         /\ \A t : In(Append(q, x), t) <=> In(q, t) \/ t = x
<1>1. /\ DOMAIN q = 1 .. Len(q) /\ Len(q) \in Nat
      /\ DOMAIN Append(q, x) = 1 .. Len(q) + 1 /\ Append(q, x)[Len(q) + 1] = x
      /\ \A k \in 1 .. Len(q) : Append(q, x)[k] = q[k]
  OBVIOUS
<1>2. Append(q, x) \in Seq(S)
  OBVIOUS
<1> DEFINE r == Append(q, x)
<1> HIDE DEF r
<1>3. ASSUME Distinct(q), ~In(q, x) PROVE Distinct(r)
  BY SMTT(40), <1>1, <1>3 DEF Distinct, In, r
<1>4. ASSUME NEW t PROVE In(r, t) <=> In(q, t) \/ t = x
  <2>1. ASSUME In(r, t) PROVE In(q, t) \/ t = x
    BY SMTT(40), <1>1, <2>1 DEF In, r
  <2>2. ASSUME In(q, t) PROVE In(r, t)
    BY SMTT(40), <1>1, <2>2 DEF In, r
  <2>3. ASSUME t = x PROVE In(r, t)
    BY SMTT(40), <1>1, <2>3 DEF In, r
  <2> QED BY Zenon, <2>1, <2>2, <2>3
<1> QED BY Zenon, <1>2, <1>3, <1>4 DEF r

\* A job that goes to the back of the deque stays in it.
LEMMA RotatedFacts ==
  ASSUME NEW S, NEW q \in Seq(S), NEW i \in DOMAIN q, Distinct(q)
  PROVE  LET r == Append(Removed(q, i), q[i])
         IN  r \in Seq(S) /\ Distinct(r) /\ \A t : In(r, t) <=> In(q, t)
<1> DEFINE p == Removed(q, i)
<1>1. p \in Seq(S) /\ Distinct(p) /\ q[i] \in S /\ In(q, q[i])
  BY SMTT(40), RemovedFacts DEF In
<1>2. \A t : In(p, t) <=> In(q, t) /\ t # q[i]
  BY Zenon, RemovedFacts
<1> HIDE DEF p
<1>3. Append(p, q[i]) \in Seq(S) /\ Distinct(Append(p, q[i]))
  BY Zenon, <1>1, <1>2, AppendFacts
<1>4. \A t : In(Append(p, q[i]), t) <=> In(p, t) \/ t = q[i]
  BY Zenon, <1>1, AppendFacts
<1> QED BY Zenon, <1>1, <1>2, <1>3, <1>4 DEF p

-----------------------------------------------------------------------------
(* What the constants and the type invariant say.                          *)

\* The plan of a task, as the assumptions on the scopes have it.
LEMMA PlanFacts ==
  ASSUME CountingFacts, scope \in Scopes, NEW t \in Tasks
  PROVE  /\ plan[t] \in Plan /\ WellPlanned(plan[t])
         /\ plan[t].encoded \in Seq(ReadRecord) /\ plan[t].budget \in Nat
         /\ plan[t].batches \in Seq(Extents \cup {NoExtent})
         /\ BatchIds(plan[t]) \in SUBSET (Nat \ {0}) /\ IsFiniteSet(BatchIds(plan[t]))
         /\ \A e \in Extents : IsFiniteSet(BatchesOf(plan[t], e))
<1>1. plan[t] \in Plan /\ WellPlanned(plan[t])
  BY Zenon, ScopesAssumption DEF plan
<1>2. plan[t].encoded \in Seq(ReadRecord) /\ plan[t].batches \in Seq(Extents \cup {NoExtent})
  BY Zenon, <1>1 DEF Plan
<1>3. BatchIds(plan[t]) = 1 .. Len(plan[t].batches) /\ Len(plan[t].batches) \in Nat
  BY SMTT(40), <1>2 DEF BatchIds
<1>4. IsFiniteSet(BatchIds(plan[t]))
  BY SMTT(40), <1>3, IntervalFinite
<1>5. ASSUME NEW e \in Extents PROVE IsFiniteSet(BatchesOf(plan[t], e))
  BY Zenon, <1>4, SubsetFinite DEF BatchesOf
<1>6. plan[t].budget \in Nat
  BY Zenon, <1>1 DEF Plan
<1> QED BY SMTT(40), <1>1, <1>2, <1>3, <1>4, <1>5, <1>6

\* Sets of slots are finite.
LEMMA SlotSets ==
  ASSUME CountingFacts, NEW S \in SUBSET Slots
  PROVE  IsFiniteSet(S) /\ Cardinality(S) \in Nat
<1>1. IsFiniteSet(Slots)
  BY SMTT(40), RoomAssumption, IntervalFinite DEF Slots
<1> QED BY Zenon, <1>1, SubsetFinite, CountIsNat

\* The fields of jobs, slots and window, as the type invariant has them.
LEMMA TypeFacts ==
  ASSUME QueueTypeOK
  PROVE  /\ \A t \in Tasks :
              /\ job[t] \in Job /\ job[t].raw \in SUBSET Nat /\ job[t].queued \in Int
              /\ job[t].encoded \in Seq(ReadRecord) /\ job[t].decoding \in BOOLEAN
              /\ job[t].remaining \in [Extents -> Int] /\ job[t].inflight \in Int
              /\ job[t].error \in {"none", "failed", "closed"}
              /\ moved[t] \in SUBSET Nat /\ restored[t] \in Nat
         /\ decode.task \in Tasks \cup {NoTask} /\ decode.left \in Int
         /\ decode.reads \in Seq(ReadRecord)
         /\ decode.phase \in {"none", "preparing", "reading", "decoding"}
         /\ \A s \in Slots :
              /\ slots[s] \in Slot /\ slots[s].task \in Tasks \cup {NoTask}
              /\ slots[s].batch \in Nat
         /\ jobs \in Seq(Tasks) /\ \A i \in DOMAIN jobs : jobs[i] \in Tasks
         /\ \A i \in DOMAIN inbox : inbox[i] # Drain => inbox[i] \in Tasks
<1>1. /\ job \in [Tasks -> Job] /\ slots \in [Slots -> Slot] /\ jobs \in Seq(Tasks)
      /\ moved \in [Tasks -> SUBSET Nat] /\ restored \in [Tasks -> Nat]
      /\ inbox \in Seq(Tasks \cup {Drain})
  BY Zenon DEF QueueTypeOK
<1>2. \A j \in Job :
        /\ j.raw \in SUBSET Nat /\ j.queued \in Int
        /\ j.encoded \in Seq(ReadRecord) /\ j.decoding \in BOOLEAN
        /\ j.remaining \in [Extents -> Int] /\ j.inflight \in Int
        /\ j.error \in {"none", "failed", "closed"}
  BY Zenon DEF Job, Counters
<1>3. \A x \in Slot : x.task \in Tasks \cup {NoTask} /\ x.batch \in Nat
  BY Zenon DEF Slot
<1>4. /\ decode.task \in Tasks \cup {NoTask} /\ decode.left \in Int
      /\ decode.reads \in Seq(ReadRecord)
      /\ decode.phase \in {"none", "preparing", "reading", "decoding"}
  BY Zenon DEF QueueTypeOK
<1> QED BY SMTT(40), <1>1, <1>2, <1>3, <1>4

\* A window in the phase of reading has a job.
LEMMA WindowTask ==
  ASSUME QueueTypeOK, WindowAgrees
  PROVE  decode.phase # "none" => decode.task \in Tasks
BY SMTT(40), TypeFacts DEF WindowAgrees, Decoding, NoDecode

\* The channel and the codec thread matter only to what is said of them.
LEMMA SideFrame ==
  ASSUME Rest, QueuesAgree', CodecAgrees', CodecInBudget',
         UNCHANGED <<scope, answer, lease, permits, jobs, job, slots, decode, history>>
  PROVE  Rest'
<1> USE DEF history, plan
<1>2. OutsideIsFresh' BY Zenon DEF Rest, OutsideIsFresh, InJobs
<1>3. SlotsAgree' BY Zenon DEF Rest, SlotsAgree, Busy, InJobs, SlotsOf
<1>4. BatchesAgree' BY ZenonT(40) DEF Rest, BatchesAgree, Busy, Live, InJobs
<1>5. ExtentsAgree' BY Zenon DEF Rest, ExtentsAgree, ExtentAgrees, Live, InJobs, Waiting
<1>6. WindowAgrees' BY Zenon DEF Rest, WindowAgrees, Decoding, DecodeTask, IsEncoded, EncodedSlots, Busy
<1>7. ReadsAgree' BY Zenon DEF Rest, ReadsAgree, Live, InJobs
<1>9. OneWrite' BY Zenon DEF Rest, OneWrite, Busy, IsWrite
<1>10. CommitsAreWhole' BY Zenon DEF Rest, CommitsAreWhole, Waiting
<1>11. SuccessIsComplete' BY Zenon DEF Rest, SuccessIsComplete
<1>12. PermitsReturn' BY Zenon DEF Rest, PermitsReturn, Waiting, IsWrite
<1> QED BY Zenon, <1>2, <1>3, <1>4, <1>5, <1>6, <1>7, <1>9, <1>10, <1>11, <1>12 DEF Rest

\* The codec thread is seen by the queue only through its commands and replies.
LEMMA CodecFrame ==
  ASSUME Rest, CodecAgrees', CodecInBudget',
         UNCHANGED <<scope, answer, lease, permits, inbox, jobs, job, slots, decode, history>>
  PROVE  Rest'
<1>1. QueuesAgree' BY Zenon DEF Rest, QueuesAgree, Waiting, InJobs, Distinct
<1> QED BY Zenon, <1>1, SideFrame

booked == <<scope, answer, lease, permits, inbox, jobs, job, slots, decode, codecs, history>>

\* The invariant does not look at the phase of the turn.
LEMMA TurnFrame ==
  ASSUME Rest, UNCHANGED booked
  PROVE  Rest'
<1>1. CodecAgrees' /\ CodecInBudget'
  BY Zenon DEF booked, codecs, Rest, CodecAgrees, CodecInBudget
<1> QED BY Zenon, <1>1, CodecFrame DEF booked

\* Steps of the pool, of the thread and of the device that only move the turn on.
Quiet ==
  \/ DropPool \/ Disconnect \/ EndAdmit \/ SlotWaits \/ PollNothing \/ SubmitNothing \/ QueueParks
  \/ \E t \in Tasks : CloseConsumer(t)

TurnTypeOK ==
  /\ gone \in SUBSET Tasks /\ pool \in {"open", "closed", "dropped"}
  /\ drained \in {"no", "asked", "done"}
  /\ at \in {"admit", "poll", "slots", "decode", "reap", "submit", "exited", "parked"}
  /\ ix \in Slots /\ taken \in Nat /\ closed \in BOOLEAN /\ burst \in Nat /\ reset \in BOOLEAN
  /\ made \in BOOLEAN

CodecRecord ==
  [st : {"none", "up", "dead", "parked"}, cmd : {"none", "prepare", "decode"}, bytes : Int,
   budget : Nat, reply : {"none", "prepared", "refused", "decoded", "broken"}]

DecodeRecord ==
  [task : Tasks \cup {NoTask}, reads : Seq(ReadRecord), left : Int,
   phase : {"none", "preparing", "reading", "decoding"}]

Answers == {"new", "waiting", "ok", "failed", "closed"}
Leases == [Extents -> {"none", "held", "committed", "dropped"}]
Permits == [load : Int, save : Int]

BooksTypeOK ==
  /\ scope \in Scopes /\ answer \in [Tasks -> Answers] /\ lease \in [Tasks -> Leases]
  /\ permits \in Permits /\ inbox \in Seq(Tasks \cup {Drain})
  /\ jobs \in Seq(Tasks) /\ job \in [Tasks -> Job] /\ slots \in [Slots -> Slot]
  /\ decode \in DecodeRecord /\ codec \in CodecRecord /\ arena \in Int /\ scratch \in Int
  /\ moved \in [Tasks -> SUBSET Nat] /\ restored \in [Tasks -> Nat]

\* The type invariant in two parts.
LEMMA TypesSplit == QueueTypeOK <=> TurnTypeOK /\ BooksTypeOK
<1>1. QueueTypeOK => TurnTypeOK
  BY Zenon DEF QueueTypeOK, TurnTypeOK
<1>2. QueueTypeOK => BooksTypeOK
  BY Zenon DEF QueueTypeOK, BooksTypeOK, DecodeRecord, CodecRecord, Answers, Leases, Permits
<1>3. TurnTypeOK /\ BooksTypeOK => QueueTypeOK
  BY Zenon DEF QueueTypeOK, TurnTypeOK, BooksTypeOK, DecodeRecord, CodecRecord, Answers, Leases, Permits
<1> QED BY Zenon, <1>1, <1>2, <1>3

\* The two parts of the type invariant after a step.
LEMMA TypesSplitNext == TurnTypeOK' /\ BooksTypeOK' => QueueTypeOK'
BY Zenon DEF QueueTypeOK, TurnTypeOK, BooksTypeOK, DecodeRecord, CodecRecord, Answers, Leases, Permits

\* The loops over the slots stay among them.
LEMMA SlotIndex ==
  ASSUME ix \in Slots, NEW phase, NextSlot(phase)
  PROVE  ix' \in Slots /\ at' \in {at, phase}
BY SMTT(40), RoomAssumption DEF NextSlot, Slots

\* Quiet steps keep the invariant.
LEMMA QuietStep ==
  ASSUME QueueInvariant, Quiet
  PROVE  QueueInvariant'
<1> USE DEF callers, sender, turn, codecs, history, submitStays, decodeStays
<1>1. UNCHANGED booked
  BY Zenon DEF Quiet, booked, DropPool, Disconnect, EndAdmit, SlotWaits, PollNothing, SubmitNothing,
         QueueParks, CloseConsumer
<1>2. Rest'
  BY Zenon, <1>1, TurnFrame DEF QueueInvariant
<1>3. TurnTypeOK'
  <2> USE DEF QueueInvariant, QueueTypeOK, TurnTypeOK
  <2>0. 1 \in Slots
    BY SMTT(40), RoomAssumption DEF Slots
  <2>1. CASE DropPool BY Zenon, <2>1 DEF DropPool
  <2>2. CASE Disconnect BY Zenon, <2>2 DEF Disconnect
  <2>3. CASE EndAdmit BY Zenon, <2>3 DEF EndAdmit
  <2>4. CASE SlotWaits BY Zenon, <2>4, SlotIndex DEF SlotWaits
  <2>5. CASE PollNothing BY Zenon, <2>5 DEF PollNothing
  <2>6. CASE SubmitNothing BY Zenon, <2>0, <2>6, SlotIndex DEF SubmitNothing
  <2>7. CASE QueueParks BY Zenon, <2>7 DEF QueueParks
  <2>8. ASSUME NEW t \in Tasks, CloseConsumer(t) PROVE TurnTypeOK'
    BY SMTT(40), <2>8 DEF CloseConsumer
  <2> QED BY Zenon, <2>1, <2>2, <2>3, <2>4, <2>5, <2>6, <2>7, <2>8 DEF Quiet
<1>4. QueueTypeOK'
  <2>1. BooksTypeOK
    BY Zenon, TypesSplit DEF QueueInvariant
  <2>2. BooksTypeOK'
    BY Zenon, <1>1, <2>1 DEF BooksTypeOK, booked
  <2> QED BY Zenon, <1>3, <2>2, TypesSplitNext
<1> QED BY Zenon, <1>2, <1>4 DEF QueueInvariant

-----------------------------------------------------------------------------
(* Jobs that go on or stop.                                                *)

\* A job keeps its books; its plan is what it was, or nothing of it is left and it has failed.
Weaker(j, n) ==
  /\ n.inflight = j.inflight /\ n.remaining = j.remaining /\ n.decoding = j.decoding
  /\ \/ n.raw = j.raw /\ n.queued = j.queued /\ n.encoded = j.encoded /\ n.error = j.error
     \/ n.raw = {} /\ n.queued = 0 /\ n.encoded = <<>> /\ n.error # "none"

\* The same tasks are in the deque.
SameJobs == jobs' \in Seq(Tasks) /\ Distinct(jobs') /\ \A t \in Tasks : In(jobs', t) <=> In(jobs, t)

\* The part of a job that slots and leases depend on.
Keeps(j, n) ==
  /\ n.inflight = j.inflight /\ n.remaining = j.remaining
  /\ (n.raw = j.raw /\ n.error = j.error) \/ (n.raw = {} /\ n.error # "none")

\* Slots, leases and callers do not see what happens to windows and reads.
LEMMA WorkFrame ==
  ASSUME QueueInvariant, SameJobs,
         \A t \in Tasks : Keeps(job[t], job'[t]),
         \A t \in Tasks : ~In(jobs, t) => job'[t] = job[t] /\ restored'[t] = restored[t],
         WindowAgrees', ReadsAgree', CodecAgrees', CodecInBudget',
         UNCHANGED <<scope, answer, lease, permits, inbox, slots, moved>>
  PROVE  Rest'
<1> USE DEF QueueInvariant, Rest, plan, InJobs
<1>1. QueuesAgree'
  <2>1. \A i \in DOMAIN inbox : inbox[i] # Drain => inbox[i] \in Tasks
    BY SMTT(40) DEF QueueTypeOK
  <2> QED BY Zenon, <2>1 DEF QueuesAgree, Waiting, SameJobs
<1>2. OutsideIsFresh' BY Zenon DEF OutsideIsFresh, SameJobs
<1>3. SlotsAgree' BY Zenon DEF SlotsAgree, Busy, SlotsOf, SameJobs, Keeps
<1>4. BatchesAgree' BY SMTT(40) DEF BatchesAgree, Busy, Keeps, Live, SameJobs
<1>5. ExtentsAgree'
  <2> SUFFICES ASSUME NEW t \in Tasks, NEW e \in Extents PROVE ExtentAgrees(t, e)'
    BY Zenon DEF ExtentsAgree
  <2>1. ExtentAgrees(t, e)
    BY Zenon DEF ExtentsAgree
  <2>2. Keeps(job[t], job'[t]) /\ (In(jobs', t) <=> In(jobs, t))
    BY Zenon DEF SameJobs
  <2> QED BY Zenon, <2>1, <2>2 DEF ExtentAgrees, Keeps, Live, Waiting
<1>6. OneWrite' BY Zenon DEF OneWrite, Busy, IsWrite
<1>7. CommitsAreWhole' BY Zenon DEF CommitsAreWhole, Waiting
<1>8. SuccessIsComplete'
  <2>1. \A t \in Tasks : answer[t] = "ok" => restored'[t] = restored[t]
    BY Zenon DEF QueuesAgree, Waiting
  <2> QED BY Zenon, <2>1 DEF SuccessIsComplete
<1>9. PermitsReturn' BY Zenon DEF PermitsReturn, Waiting, IsWrite
<1> QED BY Zenon, <1>1, <1>2, <1>3, <1>4, <1>5, <1>6, <1>7, <1>8, <1>9

\* Where neither slots nor batches move, BatchesAgree is kept if the jobs still account for them.
LEMMA BatchesStay ==
  ASSUME BatchesAgree, slots' = slots, plan' = plan, moved' = moved,
         \A u \in Tasks : job'[u].raw \subseteq BatchIds(plan[u]) \ moved[u],
         \A u \in Tasks, s \in Slots : slots[s].task = u => slots[s].batch \notin job'[u].raw,
         \A u \in Tasks : In(jobs', u) /\ job'[u].error = "none" => \A b \in BatchIds(plan[u]) \ moved[u] :
           b \in job'[u].raw \/ \E s \in Slots : slots[s].task = u /\ slots[s].batch = b
  PROVE  BatchesAgree'
<1>1. /\ \A s \in Slots : slots'[s].st # "idle" /\ slots'[s].batch # 0 =>
           slots'[s].batch \in BatchIds(plan'[slots'[s].task]) \ moved'[slots'[s].task]
      /\ \A r, s \in Slots :
           slots'[r].st # "idle" /\ slots'[r].batch # 0 /\ slots'[r].task = slots'[s].task
             /\ slots'[r].batch = slots'[s].batch => r = s
      /\ \A u \in Tasks : moved'[u] \subseteq BatchIds(plan'[u])
  BY Zenon DEF BatchesAgree, Busy
<1>2. /\ \A u \in Tasks : job'[u].raw \subseteq BatchIds(plan'[u]) \ moved'[u]
      /\ \A u \in Tasks, s \in Slots : slots'[s].task = u => slots'[s].batch \notin job'[u].raw
  BY Zenon
<1>3. \A u \in Tasks : In(jobs', u) /\ job'[u].error = "none" => \A b \in BatchIds(plan'[u]) \ moved'[u] :
        b \in job'[u].raw \/ \E s \in Slots : slots'[s].task = u /\ slots'[s].batch = b
  <2> SUFFICES ASSUME NEW u \in Tasks, In(jobs', u), job'[u].error = "none",
                      NEW b \in BatchIds(plan'[u]) \ moved'[u]
               PROVE  b \in job'[u].raw \/ \E s \in Slots : slots'[s].task = u /\ slots'[s].batch = b
    BY Zenon
  <2>1. b \in BatchIds(plan[u]) \ moved[u]
    BY Zenon
  <2>2. b \in job'[u].raw \/ \E s \in Slots : slots[s].task = u /\ slots[s].batch = b
    BY ZenonT(40), <2>1
  <2> QED BY Zenon, <2>2
<1> QED BY Zenon, <1>1, <1>2, <1>3 DEF BatchesAgree, Busy, Live, InJobs

\* Where the slots and the window stay, WindowAgrees is kept if the jobs still agree with the window.
LEMMA WindowStays ==
  ASSUME WindowAgrees, slots' = slots, decode' = decode,
         \A t \in Tasks : job'[t].decoding <=> decode.task = t,
         \A t \in Tasks : job'[t].queued >= 0,
         \A t \in Tasks : job'[t].queued > 0 =>
           decode.task = t /\ decode.phase = "reading" /\ job'[t].error = "none",
         decode.phase = "reading" => Cardinality(EncodedSlots) + job'[decode.task].queued <= decode.left
  PROVE  WindowAgrees'
<1>1. EncodedSlots' = EncodedSlots
  BY Zenon DEF EncodedSlots
<1> QED BY Zenon, <1>1 DEF WindowAgrees, Decoding, DecodeTask, IsEncoded, Busy

\* Jobs may fail at any time without disturbing what the slots, the window and the leases hold.
LEMMA JobsFrame ==
  ASSUME CountingFacts, QueueInvariant, SameJobs,
         \A t \in Tasks : Weaker(job[t], job'[t]),
         \A t \in Tasks : ~In(jobs, t) => job'[t] = job[t], CodecAgrees', CodecInBudget',
         UNCHANGED <<scope, answer, lease, permits, inbox, slots, decode, history>>
  PROVE  Rest'
<1> USE DEF QueueInvariant, Rest, history, plan, InJobs
<1>6. WindowAgrees'
  <2>1. Cardinality(EncodedSlots) \in Nat
    BY Zenon, SlotSets DEF EncodedSlots, CarryingEncoded
  <2>2. decode.phase = "reading" => decode.task \in Tasks
    BY Zenon, WindowTask
  <2>3. \A t \in Tasks : job'[t].queued \in Int /\ job'[t].queued <= job[t].queued
    BY SMTT(40), TypeFacts DEF Weaker, WindowAgrees
  <2>4. EncodedSlots' = EncodedSlots
    BY Zenon DEF EncodedSlots
  <2>5. \A t \in Tasks : job'[t].decoding <=> decode.task = t
    BY ZenonT(40) DEF Weaker, WindowAgrees
  <2>6. \A t \in Tasks : job'[t].queued >= 0 /\
          (job'[t].queued > 0 => job[t].queued > 0 /\ job'[t].error = job[t].error)
    BY SMTT(40), <2>3 DEF Weaker, WindowAgrees
  <2>7. decode.phase = "reading" => Cardinality(EncodedSlots) + job'[decode.task].queued <= decode.left
    <3> SUFFICES ASSUME decode.phase = "reading"
                 PROVE  Cardinality(EncodedSlots) + job'[decode.task].queued <= decode.left
      BY Zenon
    <3>1. Cardinality(EncodedSlots) + job[decode.task].queued <= decode.left
      BY Zenon DEF WindowAgrees, DecodeTask
    <3>2. /\ job[decode.task].queued \in Int /\ job'[decode.task].queued \in Int /\ decode.left \in Int
          /\ job'[decode.task].queued <= job[decode.task].queued
      BY Zenon, <2>2, <2>3, TypeFacts
    <3> QED BY SMTT(40), <2>1, <3>1, <3>2
  <2> QED BY Zenon, <2>4, <2>5, <2>6, <2>7 DEF WindowAgrees, Decoding, DecodeTask, IsEncoded, Busy
<1>7. ReadsAgree' BY SMTT(40) DEF ReadsAgree, Weaker, Live, SameJobs
<1>8. \A t \in Tasks : Keeps(job[t], job'[t])
  BY Zenon DEF Weaker, Keeps
<1> QED BY Zenon, <1>6, <1>7, <1>8, WorkFrame

\* One field of a job at a time.
LEMMA JobRaw == ASSUME NEW j \in Job, NEW x \in SUBSET Nat PROVE [j EXCEPT !.raw = x] \in Job
BY Zenon DEF Job

\* A queued count may be any integer.
LEMMA JobQueued == ASSUME NEW j \in Job, NEW x \in Int PROVE [j EXCEPT !.queued = x] \in Job
BY Zenon DEF Job

\* A job may be left with any sequence of encoded reads.
LEMMA JobEncoded ==
  ASSUME NEW j \in Job, NEW x \in Seq(ReadRecord) PROVE [j EXCEPT !.encoded = x] \in Job
BY Zenon DEF Job

\* A job may start or stop decoding.
LEMMA JobDecoding == ASSUME NEW j \in Job, NEW x \in BOOLEAN PROVE [j EXCEPT !.decoding = x] \in Job
BY Zenon DEF Job

\* The counters of a job are integers.
LEMMA JobRemaining ==
  ASSUME NEW j \in Job, NEW x \in Counters PROVE [j EXCEPT !.remaining = x] \in Job
BY Zenon DEF Job

\* The batches in flight of a job are an integer.
LEMMA JobInflight == ASSUME NEW j \in Job, NEW x \in Int PROVE [j EXCEPT !.inflight = x] \in Job
BY Zenon DEF Job

\* The error of a job is one of three.
LEMMA JobError ==
  ASSUME NEW j \in Job, NEW x \in {"none", "failed", "closed"} PROVE [j EXCEPT !.error = x] \in Job
BY Zenon DEF Job

\* A job may become prepared.
LEMMA JobPrepared == ASSUME NEW j \in Job, NEW x \in BOOLEAN PROVE [j EXCEPT !.prepared = x] \in Job
BY Zenon DEF Job

\* The host part of a job is in one of three stages.
LEMMA JobHost ==
  ASSUME NEW j \in Job, NEW x \in {"none", "pending", "fired"} PROVE [j EXCEPT !.host = x] \in Job
BY Zenon DEF Job

\* A job that is stopped has failed, with nothing left to submit.
LEMMA StoppedFacts ==
  ASSUME NEW j \in Job, NEW why \in {"failed", "closed"}
  PROVE  /\ Stopped(j, why) \in Job /\ Weaker(j, Stopped(j, why))
         /\ Stopped(j, why).host = j.host /\ Stopped(j, why).error # "none"
         /\ Stopped(j, why).prepared = j.prepared
<1> DEFINE err == IF j.error = "none" THEN why ELSE j.error
           j1 == [j EXCEPT !.error = err]
           j2 == [j1 EXCEPT !.raw = {}]
           j3 == [j2 EXCEPT !.queued = 0]
<1>0. /\ err \in {"none", "failed", "closed"} /\ {} \in SUBSET Nat /\ 0 \in Int
      /\ <<>> \in Seq(ReadRecord)
  BY SMTT(40) DEF Job
<1>1. Stopped(j, why) \in Job
  <2> HIDE DEF err
  <2>1. j1 \in Job BY <1>0, JobError, Zenon
  <2> HIDE DEF j1
  <2>2. j2 \in Job BY <1>0, <2>1, JobRaw, Zenon
  <2> HIDE DEF j2
  <2>3. j3 \in Job BY <1>0, <2>2, JobQueued, Zenon
  <2> HIDE DEF j3
  <2>4. [j3 EXCEPT !.encoded = <<>>] \in Job BY <1>0, <2>3, JobEncoded, Zenon
  <2> QED BY Zenon, <2>4 DEF Stopped, j3, j2, j1, err
<1>2. /\ Weaker(j, Stopped(j, why))
      /\ Stopped(j, why).host = j.host /\ Stopped(j, why).error # "none"
      /\ Stopped(j, why).prepared = j.prepared
  BY Zenon DEF Stopped, Weaker, Job
<1> QED BY Zenon, <1>1, <1>2

\* The host copies of a job do not matter to its books.
LEMMA HostFacts ==
  ASSUME NEW j \in Job, NEW h \in {"none", "pending", "fired"}
  PROVE  [j EXCEPT !.host = h] \in Job /\ Weaker(j, [j EXCEPT !.host = h])
<1>1. Weaker(j, [j EXCEPT !.host = h])
  BY Zenon DEF Job, Weaker
<1> QED BY <1>1, JobHost, Zenon

\* Going on or stopping twice is going on or stopping.
LEMMA WeakerTwice ==
  ASSUME NEW j, NEW m, NEW n, Weaker(j, m), Weaker(m, n)
  PROVE  Weaker(j, n)
BY Zenon DEF Weaker

\* A job that was polled goes on or has failed.
LEMMA PolledFacts ==
  ASSUME NEW t \in Tasks, job[t] \in Job, NEW bad
  PROVE  JobPolled(t, bad) \in Job /\ Weaker(job[t], JobPolled(t, bad))
<1> DEFINE h == [job[t] EXCEPT !.host = "none"]
           p == HostPolled(job[t], bad)
<1>1. h \in Job /\ Weaker(job[t], h)
  BY HostFacts, Zenon
<1> HIDE DEF h
<1>2. Fail(h) \in Job /\ Weaker(job[t], Fail(h))
  BY Zenon, <1>1, StoppedFacts, WeakerTwice DEF Fail
<1>3. Weaker(job[t], job[t])
  BY Zenon DEF Weaker
<1>4. p = Fail(h) \/ p = h \/ p = job[t]
  BY Zenon DEF HostPolled, h
<1>5. p \in Job /\ Weaker(job[t], p)
  BY Zenon, <1>1, <1>2, <1>3, <1>4
<1> HIDE DEF p
<1>6. Stopped(p, "closed") \in Job /\ Weaker(job[t], Stopped(p, "closed"))
  BY Zenon, <1>5, StoppedFacts, WeakerTwice
<1> QED BY Zenon, <1>5, <1>6 DEF JobPolled, p

\* Steps that only let jobs go on or fail.
LEMMA JobsStep ==
  ASSUME CountingFacts, QueueInvariant, SameJobs, TurnTypeOK', job' \in [Tasks -> Job],
         \A t \in Tasks : Weaker(job[t], job'[t]),
         \A t \in Tasks : ~In(jobs, t) => job'[t] = job[t],
         UNCHANGED <<scope, answer, lease, permits, inbox, slots, decode, codecs, history>>
  PROVE  QueueInvariant'
<1>0. CodecAgrees' /\ CodecInBudget'
  BY Zenon DEF QueueInvariant, Rest, CodecAgrees, CodecInBudget, codecs
<1>1. Rest'
  BY Zenon, <1>0, JobsFrame
<1>2. QueueTypeOK'
  BY ZenonT(120) DEF QueueInvariant, QueueTypeOK, TurnTypeOK, SameJobs, codecs, history
<1> QED BY Zenon, <1>1, <1>2 DEF QueueInvariant

\* A job that was served goes to the back of the deque.
LEMMA RotateFacts ==
  ASSUME QueueInvariant, NEW i \in DOMAIN jobs, Rotate(i)
  PROVE  SameJobs /\ burst' \in Nat /\ ix' \in Slots /\ at' \in {at, "admit"} /\ jobs[i] \in Tasks
<1>1. jobs \in Seq(Tasks) /\ Distinct(jobs) /\ burst \in Nat /\ ix \in Slots
  BY Zenon DEF QueueInvariant, QueueTypeOK, Rest, QueuesAgree
<1>2. jobs' = Append(Removed(jobs, i), jobs[i]) /\ NextSlot("admit")
  BY Zenon DEF Rotate
<1>3. SameJobs
  BY Zenon, <1>1, <1>2, RotatedFacts DEF SameJobs
<1>4. burst' \in Nat
  BY SMTT(40), <1>1 DEF Rotate
<1>5. ix' \in Slots /\ at' \in {at, "admit"}
  BY Zenon, <1>1, <1>2, SlotIndex
<1> QED BY SMTT(40), <1>1, <1>3, <1>4, <1>5

\* A turn that polls the jobs, fails them for want of slots, or fails to prepare one.
LEMMA PollJobsStep ==
  ASSUME CountingFacts, QueueInvariant, PollJobs
  PROVE  QueueInvariant'
<1>1. PICK bad \in SUBSET Tasks :
        job' = [t \in Tasks |-> IF InJobs(t) THEN JobPolled(t, t \in bad) ELSE job[t]]
  BY Zenon DEF PollJobs
<1>2. \A t \in Tasks : job[t] \in Job
  BY Zenon, TypeFacts DEF QueueInvariant
<1>3. \A t \in Tasks : JobPolled(t, t \in bad) \in Job /\ Weaker(job[t], JobPolled(t, t \in bad))
  BY <1>2, PolledFacts, Zenon
<1>4. \A t \in Tasks : Weaker(job[t], job[t])
  BY Zenon DEF Weaker
<1>5. job' \in [Tasks -> Job] /\ \A t \in Tasks : Weaker(job[t], job'[t])
  BY Zenon, <1>1, <1>2, <1>3, <1>4
<1>6. \A t \in Tasks : ~In(jobs, t) => job'[t] = job[t]
  BY Zenon, <1>1 DEF InJobs
<1>7. SameJobs
  BY Zenon DEF SameJobs, PollJobs, QueueInvariant, QueueTypeOK, Rest, QueuesAgree
<1>8. 1 \in Slots
  BY SMTT(40), RoomAssumption DEF Slots
<1>9. TurnTypeOK'
  BY Zenon, <1>8 DEF PollJobs, TurnTypeOK, QueueInvariant, QueueTypeOK, callers, sender
<1> QED BY Zenon, <1>5, <1>6, <1>7, <1>9, JobsStep DEF PollJobs, callers, sender

\* The event of a host copy keeps the invariant.
LEMMA HostFiresStep ==
  ASSUME CountingFacts, QueueInvariant, NEW t \in Tasks, HostFires(t)
  PROVE  QueueInvariant'
<1>2. \A u \in Tasks : job[u] \in Job
  BY Zenon, TypeFacts DEF QueueInvariant
<1> DEFINE n == [job[t] EXCEPT !.host = "fired"]
<1>3. n \in Job /\ Weaker(job[t], n)
  BY <1>2, HostFacts, Zenon
<1>4. job' = [job EXCEPT ![t] = n] /\ job \in [Tasks -> Job]
  BY Zenon DEF HostFires, QueueInvariant, QueueTypeOK
<1> HIDE DEF n
<1>5. \A u \in Tasks : Weaker(job[u], job[u])
  BY Zenon DEF Weaker
<1>6. job' \in [Tasks -> Job] /\ \A u \in Tasks : Weaker(job[u], job'[u])
  BY Zenon, <1>3, <1>4, <1>5
<1>7. InJobs(t)
  BY SMTT(40) DEF HostFires, QueueInvariant, Rest, OutsideIsFresh, NoJob
<1>8. \A u \in Tasks : ~In(jobs, u) => job'[u] = job[u]
  BY Zenon, <1>4, <1>7 DEF InJobs
<1>9. SameJobs
  BY Zenon DEF SameJobs, HostFires, QueueInvariant, QueueTypeOK, Rest, QueuesAgree
<1>10. TurnTypeOK'
  BY Zenon DEF HostFires, TurnTypeOK, QueueInvariant, QueueTypeOK, callers, sender, turn
<1> QED BY Zenon, <1>6, <1>8, <1>9, <1>10, JobsStep DEF HostFires, callers, sender

\* Making the slots, or failing every job for want of them (run), keeps the invariant.
LEMMA EndReapStep ==
  ASSUME CountingFacts, QueueInvariant, NEW created \in BOOLEAN, EndReap(created)
  PROVE  QueueInvariant'
<1>2. \A u \in Tasks : job[u] \in Job
  BY Zenon, TypeFacts DEF QueueInvariant
<1>3. \A u \in Tasks : Fail(job[u]) \in Job /\ Weaker(job[u], Fail(job[u]))
  BY Zenon, <1>2, StoppedFacts DEF Fail
<1>4. \A u \in Tasks : Weaker(job[u], job[u])
  BY Zenon DEF Weaker
<1>5. job' \in [Tasks -> Job] /\ \A u \in Tasks : Weaker(job[u], job'[u])
  BY Zenon, <1>2, <1>3, <1>4 DEF EndReap, QueueInvariant, QueueTypeOK
<1>6. \A u \in Tasks : ~In(jobs, u) => job'[u] = job[u]
  BY Zenon DEF EndReap, InJobs
<1>7. SameJobs
  BY Zenon DEF SameJobs, EndReap, QueueInvariant, QueueTypeOK, Rest, QueuesAgree
<1>8. TurnTypeOK'
  BY Zenon DEF EndReap, TurnTypeOK, QueueInvariant, QueueTypeOK, callers, sender
<1> QED BY Zenon, <1>5, <1>6, <1>7, <1>8, JobsStep DEF EndReap, callers, sender

\* A job whose host part could not be enqueued fails (Job::prepare).
LEMMA PrepareFailsStep ==
  ASSUME CountingFacts, QueueInvariant, NEW i \in DOMAIN jobs, PrepareFails(i)
  PROVE  QueueInvariant'
<1>1. SameJobs /\ burst' \in Nat /\ ix' \in Slots /\ at' \in {at, "admit"} /\ jobs[i] \in Tasks
  BY Zenon, RotateFacts DEF PrepareFails
<1>2. \A u \in Tasks : job[u] \in Job
  BY Zenon, TypeFacts DEF QueueInvariant
<1>3. Fail(job[jobs[i]]) \in Job /\ Weaker(job[jobs[i]], Fail(job[jobs[i]]))
  BY Zenon, <1>1, <1>2, StoppedFacts DEF Fail
<1>4. job' = [job EXCEPT ![jobs[i]] = Fail(job[jobs[i]])] /\ job \in [Tasks -> Job]
  BY Zenon DEF PrepareFails, QueueInvariant, QueueTypeOK
<1>5. \A u \in Tasks : Weaker(job[u], job[u])
  BY Zenon DEF Weaker
<1>6. job' \in [Tasks -> Job] /\ \A u \in Tasks : Weaker(job[u], job'[u])
  BY Zenon, <1>1, <1>3, <1>4, <1>5
<1>7. \A u \in Tasks : ~In(jobs, u) => job'[u] = job[u]
  BY Zenon, <1>4 DEF In
<1>8. TurnTypeOK'
  BY ZenonT(40), <1>1 DEF PrepareFails, TurnTypeOK, QueueInvariant, QueueTypeOK, submitStays, callers, sender
<1> QED BY Zenon, <1>1, <1>6, <1>7, <1>8, JobsStep
        DEF PrepareFails, submitStays, callers, sender, codecs, history

-----------------------------------------------------------------------------
(* The device.                                                             *)

\* The slots carry what they carried.
Relabelled ==
  \A r \in Slots :
    /\ slots'[r].task = slots[r].task /\ slots'[r].batch = slots[r].batch
    /\ slots'[r].st # "idle" <=> slots[r].st # "idle"
    /\ slots'[r].st = "idle" => slots'[r] = slots[r]

\* A slot that goes from its transfer to its scatter, or whose event fires, carries what it did.
LEMMA SlotFrame ==
  ASSUME QueueInvariant, Relabelled,
         UNCHANGED <<scope, answer, lease, permits, inbox, jobs, job, decode, codecs, history>>
  PROVE  Rest'
<1> USE DEF QueueInvariant, Rest, codecs, history, plan, InJobs
<1>2. \A r \in Slots :
        /\ slots'[r].task = slots[r].task /\ slots'[r].batch = slots[r].batch
        /\ slots'[r].st # "idle" <=> slots[r].st # "idle"
        /\ slots'[r].st = "idle" => slots'[r] = slots[r]
  BY Zenon DEF Relabelled
<1>3. \A t \in Tasks : Carrying(slots', t) = Carrying(slots, t)
  BY Zenon, <1>2 DEF Carrying
<1>4. CarryingEncoded(slots') = CarryingEncoded(slots)
  BY Zenon, <1>2 DEF CarryingEncoded
<1>5. QueuesAgree' BY Zenon DEF QueuesAgree, Waiting
<1>6. OutsideIsFresh' BY Zenon DEF OutsideIsFresh
<1>7. SlotsAgree'
  <2>1. \A t \in Tasks : job[t].inflight = Cardinality(Carrying(slots', t))
    BY Zenon, <1>3 DEF SlotsAgree, SlotsOf
  <2>2. \A r \in Slots : slots'[r].st = "idle" => slots'[r] = Empty
    BY Zenon, <1>2 DEF SlotsAgree, Busy
  <2>3. \A r \in Slots : slots'[r].st # "idle" => slots'[r].task \in Tasks /\ In(jobs, slots'[r].task)
    BY ZenonT(40), <1>2 DEF SlotsAgree, Busy
  <2> QED BY Zenon, <2>1, <2>2, <2>3 DEF SlotsAgree, Busy, SlotsOf
<1>8. BatchesAgree' BY SMTT(40), <1>2 DEF BatchesAgree, Busy, Live
<1>9. ExtentsAgree' BY Zenon DEF ExtentsAgree, ExtentAgrees, Live, Waiting
<1>10. WindowAgrees' BY Zenon, <1>2, <1>4 DEF WindowAgrees, Decoding, DecodeTask, IsEncoded, EncodedSlots, Busy
<1>11. ReadsAgree' BY Zenon DEF ReadsAgree, Live
<1>12. CodecAgrees' /\ CodecInBudget' BY Zenon DEF CodecAgrees, CodecInBudget
<1>13. OneWrite' BY Zenon, <1>2 DEF OneWrite, Busy, IsWrite
<1>14. CommitsAreWhole' BY Zenon DEF CommitsAreWhole, Waiting
<1>15. SuccessIsComplete' BY Zenon DEF SuccessIsComplete
<1>16. PermitsReturn' BY Zenon DEF PermitsReturn, Waiting, IsWrite
<1> QED BY Zenon, <1>5, <1>6, <1>7, <1>8, <1>9, <1>10, <1>11, <1>12, <1>13, <1>14, <1>15, <1>16

\* One field of a slot at a time.
LEMMA SlotStage ==
  ASSUME NEW x \in Slot, NEW st \in {"idle", "io", "scatter"} PROVE [x EXCEPT !.st = st] \in Slot
BY Zenon DEF Slot

\* The event of a slot may fire.
LEMMA SlotFired == ASSUME NEW x \in Slot, NEW f \in BOOLEAN PROVE [x EXCEPT !.fired = f] \in Slot
BY Zenon DEF Slot

\* A slot whose event fires, or whose read is scattered, still carries what it did.
LEMMA SlotMovesStep ==
  ASSUME QueueInvariant, SlotScatters \/ \E s \in Slots : SlotFires(s)
  PROVE  QueueInvariant'
<1> USE DEF QueueInvariant
<1>1. ix \in Slots /\ slots \in [Slots -> Slot]
  BY Zenon DEF QueueTypeOK
<1>2. Relabelled /\ slots' \in [Slots -> Slot]
  <2>1. CASE SlotScatters
    <3> DEFINE x == [slots[ix] EXCEPT !.st = "scatter", !.fired = FALSE]
    <3>1. slots' = [slots EXCEPT ![ix] = x]
      BY Zenon, <1>1, <2>1 DEF SlotScatters
    <3>2. x \in Slot
      <4>1. slots[ix] \in Slot /\ "scatter" \in {"idle", "io", "scatter"} /\ FALSE \in BOOLEAN
        BY Zenon, <1>1
      <4> QED BY <4>1, SlotStage, SlotFired, Zenon
    <3>3. x.st # "idle" /\ x.task = slots[ix].task /\ x.batch = slots[ix].batch /\ slots[ix].st # "idle"
      BY Zenon, <1>1, <2>1 DEF Slot, SlotScatters
    <3> HIDE DEF x
    <3> QED BY Zenon, <1>1, <3>1, <3>2, <3>3 DEF Relabelled
  <2>2. CASE \E s \in Slots : SlotFires(s)
    <3> PICK s \in Slots : SlotFires(s)
      BY Zenon, <2>2
    <3> DEFINE x == [slots[s] EXCEPT !.fired = TRUE]
    <3>1. slots' = [slots EXCEPT ![s] = x]
      BY Zenon, <1>1 DEF SlotFires
    <3>2. x \in Slot
      <4>1. slots[s] \in Slot /\ TRUE \in BOOLEAN
        BY Zenon, <1>1
      <4> QED BY <4>1, SlotFired, Zenon
    <3>3. x.st # "idle" /\ x.task = slots[s].task /\ x.batch = slots[s].batch /\ slots[s].st # "idle"
      BY SMTT(40), <1>1 DEF Slot, SlotFires, Busy
    <3> HIDE DEF x
    <3> QED BY Zenon, <1>1, <3>1, <3>2, <3>3 DEF Relabelled
  <2> QED BY Zenon, <2>1, <2>2
<1>3. /\ UNCHANGED <<scope, answer, lease, permits, inbox, jobs, job, decode, codecs, history>>
      /\ UNCHANGED <<gone, pool, drained, taken, closed, burst, reset, made>>
  BY Zenon DEF SlotScatters, SlotFires, callers, sender, turn
<1>4. Rest'
  BY Zenon, <1>2, <1>3, SlotFrame
<1>5. ix' \in Slots /\ at' \in {at, "decode"}
  BY Zenon, <1>1, SlotIndex DEF SlotScatters, SlotFires, turn
<1>6. QueueTypeOK'
  <2>1. TurnTypeOK /\ BooksTypeOK
    BY Zenon, TypesSplit
  <2>2. TurnTypeOK'
    BY Zenon, <2>1, <1>3, <1>5 DEF TurnTypeOK
  <2>3. BooksTypeOK'
    BY Zenon, <2>1, <1>2, <1>3 DEF BooksTypeOK, codecs, history
  <2> QED BY Zenon, <2>2, <2>3, TypesSplitNext
<1> QED BY Zenon, <1>4, <1>6

-----------------------------------------------------------------------------
(* The codec thread.                                                       *)

Stages == {"none", "up", "dead", "parked"}
Commands == {"none", "prepare", "decode"}
Replies == {"none", "prepared", "refused", "decoded", "broken"}

\* One field of the codec thread at a time.
LEMMA CodecSt == ASSUME NEW c \in CodecRecord, NEW x \in Stages PROVE [c EXCEPT !.st = x] \in CodecRecord
BY Zenon DEF CodecRecord, Stages

\* The command of the codec thread is one of three.
LEMMA CodecCmd == ASSUME NEW c \in CodecRecord, NEW x \in Commands PROVE [c EXCEPT !.cmd = x] \in CodecRecord
BY Zenon DEF CodecRecord, Commands

\* The input of a command is any number of bytes.
LEMMA CodecBytes == ASSUME NEW c \in CodecRecord, NEW x \in Int PROVE [c EXCEPT !.bytes = x] \in CodecRecord
BY Zenon DEF CodecRecord

\* The budget of a command is any number of bytes.
LEMMA CodecBudget == ASSUME NEW c \in CodecRecord, NEW x \in Nat PROVE [c EXCEPT !.budget = x] \in CodecRecord
BY Zenon DEF CodecRecord

\* The reply of the codec thread is one of five.
LEMMA CodecReply == ASSUME NEW c \in CodecRecord, NEW x \in Replies PROVE [c EXCEPT !.reply = x] \in CodecRecord
BY Zenon DEF CodecRecord, Replies

\* A reply ends the command it answers.
LEMMA ReplyFacts ==
  ASSUME codec \in CodecRecord, NEW r \in Replies, Reply(r)
  PROVE  /\ codec' \in CodecRecord /\ codec'.cmd = "none" /\ codec'.reply = r
         /\ codec'.st = codec.st /\ codec'.budget = codec.budget
<1>1. "none" \in Commands
  BY Zenon DEF Commands
<1>2. codec' \in CodecRecord
  BY <1>1, CodecCmd, CodecReply, Zenon DEF Reply
<1>3. /\ codec'.cmd = "none" /\ codec'.reply = r
      /\ codec'.st = codec.st /\ codec'.budget = codec.budget
  BY Zenon DEF Reply, CodecRecord
<1> QED BY Zenon, <1>2, <1>3

\* What a prepared arena and the scratch that is kept take of the budget.
LEMMA PrepareFits ==
  ASSUME arena \in Int, scratch \in Int, arena >= 0, scratch >= 0,
         NEW bytes \in Int, NEW budget \in Nat, 0 < bytes, bytes < budget
  PROVE  LET size == Resident(bytes, budget)
             kept == ScratchKept(budget - size)
         IN  size \in Int /\ size >= 0 /\ size <= budget /\ kept \in Int /\ kept >= 0
             /\ size + kept <= budget
<1> DEFINE size == Resident(bytes, budget)
<1>1. size \in Int /\ size >= 0 /\ size <= budget
  BY SMTT(40) DEF Resident, Oversized
<1> HIDE DEF size
<1>2. /\ ScratchKept(budget - size) \in Int /\ ScratchKept(budget - size) >= 0
      /\ ScratchKept(budget - size) <= budget - size
  BY SMTT(40), <1>1 DEF ScratchKept
<1> QED BY SMTT(40), <1>1, <1>2 DEF size

\* Every step of the codec thread keeps the invariant (decode::run).
LEMMA CodecSteps ==
  ASSUME QueueInvariant, CodecStep \/ CodecDies \/ CodecParks
  PROVE  QueueInvariant'
<1> USE DEF QueueInvariant
<1>1. /\ codec \in CodecRecord /\ arena \in Int /\ scratch \in Int
      /\ CodecAgrees /\ CodecInBudget
  BY Zenon DEF QueueTypeOK, CodecRecord, Rest
<1>2. UNCHANGED codecStays
  BY Zenon DEF CodecStep, CodecPrepares, CodecDecodes, CodecDies, CodecParks
<1>3. decode' = decode
  BY Zenon, <1>2 DEF codecStays
<1>4. /\ codec' \in CodecRecord /\ arena' \in Int /\ scratch' \in Int
      /\ CodecAgrees' /\ CodecInBudget'
  <2>1. ASSUME NEW ok \in BOOLEAN, CodecPrepares(ok)
        PROVE  /\ codec' \in CodecRecord /\ arena' \in Int /\ scratch' \in Int
               /\ CodecAgrees' /\ CodecInBudget'
    <3> DEFINE size == Resident(codec.bytes, codec.budget)
               kept == ScratchKept(codec.budget - size)
    <3>1. /\ codec.bytes \in Int /\ codec.budget \in Nat
          /\ 0 < codec.bytes /\ codec.bytes < codec.budget
          /\ arena >= 0 /\ scratch >= 0 /\ decode.phase = "preparing" /\ codec.reply = "none"
      BY Zenon, <1>1, <2>1 DEF CodecPrepares, CodecAgrees, CodecRecord
    <3>2. /\ size \in Int /\ size >= 0 /\ size <= codec.budget /\ kept \in Int /\ kept >= 0
          /\ size + kept <= codec.budget
      BY Zenon, <1>1, <3>1, PrepareFits
    <3>3. arena' \in {size, 0} /\ scratch' = kept
      BY SMTT(40), <2>1, <3>1 DEF CodecPrepares
    <3> DEFINE r == IF codec.bytes # 0 /\ codec.bytes < codec.budget /\ ok THEN "prepared" ELSE "refused"
    <3>4. Reply(r) /\ codec.st = "up"
      BY Zenon, <2>1 DEF CodecPrepares
    <3>5. r \in {"prepared", "refused"} /\ r \in Replies
      BY Zenon DEF Replies
    <3> HIDE DEF size, kept, r
    <3>6. /\ codec' \in CodecRecord /\ codec'.cmd = "none" /\ codec'.reply = r
          /\ codec'.st = "up" /\ codec'.budget = codec.budget
      BY Zenon, <1>1, <3>4, <3>5, ReplyFacts
    <3>7. CodecAgrees'
      BY SMTT(40), <1>3, <3>1, <3>2, <3>3, <3>5, <3>6 DEF CodecAgrees
    <3>8. CodecInBudget'
      BY SMTT(40), <3>1, <3>2, <3>3, <3>6 DEF CodecInBudget
    <3> QED BY SMTT(40), <3>2, <3>3, <3>6, <3>7, <3>8
  <2>2. ASSUME NEW grow \in BOOLEAN, NEW ok \in BOOLEAN, CodecDecodes(grow, ok)
        PROVE  /\ codec' \in CodecRecord /\ arena' \in Int /\ scratch' \in Int
               /\ CodecAgrees' /\ CodecInBudget'
    <3>1. /\ codec.budget \in Nat /\ arena >= 0 /\ scratch >= 0 /\ arena + scratch <= codec.budget
          /\ decode.phase = "decoding"
      BY Zenon, <1>1, <2>2 DEF CodecDecodes, CodecAgrees, CodecInBudget, CodecRecord
    <3>2. arena' = arena /\ scratch' \in {codec.budget - arena, scratch, 0}
      BY Zenon, <2>2 DEF CodecDecodes, ScratchAfter
    <3> DEFINE r == IF ok THEN "decoded" ELSE "broken"
    <3>3. Reply(r) /\ codec.st = "up"
      BY Zenon, <2>2 DEF CodecDecodes
    <3>4. r \in {"decoded", "broken"} /\ r \in Replies
      BY Zenon DEF Replies
    <3> HIDE DEF r
    <3>5. /\ codec' \in CodecRecord /\ codec'.cmd = "none" /\ codec'.reply = r
          /\ codec'.st = "up" /\ codec'.budget = codec.budget
      BY Zenon, <1>1, <3>3, <3>4, ReplyFacts
    <3>6. CodecAgrees'
      BY SMTT(40), <1>1, <1>3, <3>1, <3>2, <3>4, <3>5 DEF CodecAgrees
    <3>7. CodecInBudget'
      BY SMTT(40), <1>1, <3>1, <3>2, <3>5 DEF CodecInBudget
    <3> QED BY SMTT(40), <1>1, <3>1, <3>2, <3>5, <3>6, <3>7
  <2>3. CASE CodecDies
    <3>1. codec' = [codec EXCEPT !.st = "dead", !.cmd = "none"] /\ arena' = 0 /\ scratch' = 0
      BY Zenon, <2>3 DEF CodecDies
    <3>2. "dead" \in Stages /\ "none" \in Commands
      BY Zenon DEF Stages, Commands
    <3>3. codec' \in CodecRecord
      BY <1>1, <3>1, <3>2, CodecSt, CodecCmd, Zenon
    <3>4. codec'.st = "dead" /\ codec'.cmd = "none" /\ codec'.reply = codec.reply
      BY Zenon, <1>1, <3>1 DEF CodecRecord
    <3> QED BY SMTT(40), <3>3, <3>4, <1>1, <1>3, <3>1 DEF CodecAgrees, CodecInBudget
  <2>4. CASE CodecParks
    <3>1. /\ codec' \in CodecRecord /\ codec'.st = "parked" /\ codec'.cmd = codec.cmd
          /\ codec'.reply = codec.reply /\ codec'.bytes = codec.bytes /\ codec'.budget = codec.budget
          /\ arena' = arena /\ scratch' = scratch /\ codec.st = "up"
      BY Zenon, <1>1, <2>4 DEF CodecParks, CodecRecord
    <3> QED BY Zenon, <1>1, <1>3, <3>1 DEF CodecAgrees, CodecInBudget
  <2> QED BY Zenon, <2>1, <2>2, <2>3, <2>4 DEF CodecStep
<1>5. Rest'
  BY Zenon, <1>2, <1>4, CodecFrame DEF codecStays, callers, sender
<1>6. QueueTypeOK'
  <2>1. TurnTypeOK /\ BooksTypeOK
    BY Zenon, TypesSplit
  <2>2. TurnTypeOK'
    BY Zenon, <2>1, <1>2 DEF TurnTypeOK, codecStays, callers, sender, turn
  <2>3. BooksTypeOK'
    BY Zenon, <2>1, <1>2, <1>4 DEF BooksTypeOK, codecStays, callers, sender, history
  <2> QED BY Zenon, <2>2, <2>3, TypesSplitNext
<1> QED BY Zenon, <1>5, <1>6

-----------------------------------------------------------------------------
(* Callers and pool.                                                       *)

\* The last job has gone.
LEMMA EndReapIdleStep ==
  ASSUME QueueInvariant, EndReapIdle
  PROVE  QueueInvariant'
<1> USE DEF QueueInvariant
<1>1. UNCHANGED <<scope, answer, lease, permits, inbox, jobs, job, slots, decode, history>>
  BY Zenon DEF EndReapIdle, callers, sender
<1>2. TurnTypeOK'
  <2>1. TurnTypeOK
    BY Zenon DEF QueueTypeOK, TurnTypeOK
  <2>2. UNCHANGED <<gone, pool, ix, taken, closed, burst>> /\ at' \in {"exited", "admit"}
    BY Zenon DEF EndReapIdle, callers, sender
  <2>3. reset' \in BOOLEAN /\ made' \in BOOLEAN
    <3>1. (reset /\ ~Spoilt) \in BOOLEAN /\ (made /\ ~Spoilt) \in BOOLEAN /\ FALSE \in BOOLEAN
      BY Zenon
    <3>2. reset' = (reset /\ ~Spoilt) /\ (made' = FALSE \/ made' = (made /\ ~Spoilt))
      BY Zenon DEF EndReapIdle
    <3> QED BY <3>1, <3>2, Zenon
  <2>4. drained' \in {"done", drained}
    BY Zenon DEF EndReapIdle, codecs
  <2> QED BY Zenon, <2>1, <2>2, <2>3, <2>4 DEF TurnTypeOK
<1>3. CASE UNCHANGED codecs
  <2>1. Rest'
    BY Zenon, <1>1, <1>3, TurnFrame DEF booked
  <2>2. BooksTypeOK
    BY Zenon, TypesSplit
  <2>3. BooksTypeOK'
    BY Zenon, <1>1, <1>3, <2>2 DEF BooksTypeOK, codecs, history
  <2> QED BY Zenon, <1>2, <2>1, <2>3, TypesSplitNext
<1>4. CASE codec' = NoCodec /\ arena' = 0 /\ scratch' = 0
  <2>1. /\ codec' \in CodecRecord /\ codec'.st = "none" /\ codec'.cmd = "none" /\ codec'.reply = "none"
    BY SMTT(40), <1>4 DEF NoCodec, CodecRecord
  <2>2. CodecAgrees' /\ CodecInBudget'
    BY SMTT(40), <1>4, <2>1 DEF CodecAgrees, CodecInBudget
  <2>3. Rest'
    BY Zenon, <1>1, <2>2, CodecFrame
  <2>4. BooksTypeOK /\ 0 \in Int
    BY SMTT(40), TypesSplit
  <2>5. BooksTypeOK'
    BY Zenon, <1>1, <1>4, <2>1, <2>4 DEF BooksTypeOK, history
  <2> QED BY Zenon, <1>2, <2>3, <2>5, TypesSplitNext
<1> QED BY Zenon, <1>3, <1>4 DEF EndReapIdle

\* A drain is one more command in the channel.
LEMMA DrainPoolStep ==
  ASSUME QueueInvariant, DrainPool
  PROVE  QueueInvariant'
<1> USE DEF QueueInvariant
<1>1. inbox \in Seq(Tasks \cup {Drain}) /\ QueuesAgree
  BY Zenon DEF QueueTypeOK, Rest
<1>2. inbox' = Append(inbox, Drain)
  BY Zenon DEF DrainPool
<1>3. inbox' \in Seq(Tasks \cup {Drain})
  BY SMTT(40), <1>1, <1>2
<1>4. /\ UNCHANGED <<scope, answer, lease, permits, jobs, job, slots, decode, history, codecs>>
      /\ UNCHANGED <<gone, turn, made>> /\ pool' = "closed" /\ drained' = "asked"
  BY Zenon DEF DrainPool, callers
<1>5. QueuesAgree'
  <2>1. \A k \in DOMAIN inbox' : inbox'[k] # Drain => k \in DOMAIN inbox /\ inbox'[k] = inbox[k]
    BY SMTT(40), <1>1, <1>2
  <2> QED BY Zenon, <1>1, <1>4, <2>1 DEF QueuesAgree, Waiting, InJobs
<1>6. CodecAgrees' /\ CodecInBudget'
  BY Zenon, <1>4 DEF Rest, CodecAgrees, CodecInBudget, codecs
<1>7. Rest'
  BY Zenon, <1>4, <1>5, <1>6, SideFrame
<1>8. QueueTypeOK'
  <2>1. TurnTypeOK /\ BooksTypeOK
    BY Zenon, TypesSplit
  <2>2. TurnTypeOK'
    BY Zenon, <2>1, <1>4 DEF TurnTypeOK, turn
  <2>3. BooksTypeOK'
    BY Zenon, <2>1, <1>3, <1>4 DEF BooksTypeOK, codecs, history
  <2> QED BY Zenon, <2>2, <2>3, TypesSplitNext
<1> QED BY Zenon, <1>7, <1>8

\* Loads and saves whose callers wait.
Loads(a, p) == {t \in Tasks : a[t] = "waiting" /\ ~p[t].write}
Saves(a, p) == {t \in Tasks : a[t] = "waiting" /\ p[t].write}

\* One task more waits, and is counted.
NewlyWaits(a, b, t) == a[t] # "waiting" /\ b[t] = "waiting" /\ \A u \in Tasks \ {t} : b[u] = a[u]
CountedIn(a, b, p, t) ==
  /\ Cardinality(Loads(a, p)) \in Nat /\ Cardinality(Saves(a, p)) \in Nat
  /\ p[t].write => /\ Cardinality(Saves(b, p)) = Cardinality(Saves(a, p)) + 1
                   /\ Loads(b, p) = Loads(a, p)
  /\ ~p[t].write => /\ Cardinality(Loads(b, p)) = Cardinality(Loads(a, p)) + 1
                    /\ Saves(b, p) = Saves(a, p)

\* Submitting a task of a kind is one more that waits of that kind and none of the other.
LEMMA OneMoreWaits ==
  ASSUME CountingFacts, NEW a, NEW b, NEW p, NEW t \in Tasks, NewlyWaits(a, b, t)
  PROVE  CountedIn(a, b, p, t)
<1> USE DEF NewlyWaits
<1>1. /\ IsFiniteSet(Loads(a, p)) /\ IsFiniteSet(Saves(a, p))
      /\ IsFiniteSet(Loads(b, p)) /\ IsFiniteSet(Saves(b, p))
  <2>1. /\ Loads(a, p) \in SUBSET Tasks /\ Saves(a, p) \in SUBSET Tasks
        /\ Loads(b, p) \in SUBSET Tasks /\ Saves(b, p) \in SUBSET Tasks
    BY Zenon DEF Loads, Saves
  <2> QED BY Zenon, <2>1, TasksAssumption, SubsetFinite
<1>2. t \notin Loads(a, p) /\ t \notin Saves(a, p)
  BY Zenon DEF Loads, Saves
<1>3. p[t].write => Saves(b, p) = Saves(a, p) \cup {t} /\ Loads(b, p) = Loads(a, p)
  BY Zenon DEF Loads, Saves
<1>4. ~p[t].write => Loads(b, p) = Loads(a, p) \cup {t} /\ Saves(b, p) = Saves(a, p)
  BY Zenon DEF Loads, Saves
<1>5. /\ ~p[t].write => Cardinality(Loads(b, p)) = Cardinality(Loads(a, p)) + 1
      /\ p[t].write => Cardinality(Saves(b, p)) = Cardinality(Saves(a, p)) + 1
  BY Zenon, <1>1, <1>2, <1>3, <1>4, OneMoreCounted
<1>6. /\ Cardinality(Loads(a, p)) \in Nat /\ Cardinality(Saves(a, p)) \in Nat
      /\ Cardinality(Loads(b, p)) \in Nat /\ Cardinality(Saves(b, p)) \in Nat
  BY Zenon, <1>1, CountIsNat
<1> QED BY Zenon, <1>3, <1>4, <1>5, <1>6 DEF CountedIn

\* The permits, with the sets of waiting tasks named.
PermitsOf(q, a, p) ==
  /\ q.load = LoadRoom - Cardinality(Loads(a, p))
  /\ q.save = SaveRoom - Cardinality(Saves(a, p))

\* The permits as a function of answers and plans.
LEMMA PermitsFacts == PermitsReturn <=> PermitsOf(permits, answer, plan)
BY Zenon DEF PermitsReturn, PermitsOf, Loads, Saves, Waiting, IsWrite

\* Submitting a task keeps the invariant (GpuWorkerPool::submit).
LEMMA SubmitTaskStep ==
  ASSUME CountingFacts, QueueInvariant, NEW t \in Tasks, SubmitTask(t)
  PROVE  QueueInvariant'
<1> USE DEF QueueInvariant, Rest
<1>1. /\ answer \in [Tasks -> {"new", "waiting", "ok", "failed", "closed"}] /\ answer[t] = "new"
      /\ lease \in [Tasks -> [Extents -> {"none", "held", "committed", "dropped"}]]
      /\ permits \in [load : Int, save : Int] /\ inbox \in Seq(Tasks \cup {Drain})
  BY Zenon DEF QueueTypeOK, SubmitTask
<1>2. /\ answer' = [answer EXCEPT ![t] = "waiting"]
      /\ lease' = [lease EXCEPT ![t] = [e \in Extents |-> Granted(plan[t], e)]]
      /\ inbox' = Append(inbox, t)
      /\ UNCHANGED <<scope, gone, pool, drained, turn, made, jobs, job, slots, decode, codecs, history>>
  BY Zenon DEF SubmitTask
<1>3. plan' = plan
  BY Zenon, <1>2 DEF plan
<1>4. /\ answer'[t] = "waiting" /\ \A u \in Tasks \ {t} : answer'[u] = answer[u]
      /\ \A u \in Tasks \ {t} : lease'[u] = lease[u]
      /\ \A e \in Extents : lease'[t][e] = Granted(plan[t], e)
  BY Zenon, <1>1, <1>2
<1>5. ~InJobs(t) /\ \A i \in DOMAIN inbox : inbox[i] # t
  BY SMTT(40), <1>1, TasksAssumption DEF QueuesAgree, Waiting
<1>6. QueuesAgree'
  <2>1. /\ DOMAIN inbox' = 1 .. Len(inbox) + 1 /\ inbox'[Len(inbox) + 1] = t
        /\ \A k \in 1 .. Len(inbox) : inbox'[k] = inbox[k] /\ k \in DOMAIN inbox
        /\ Len(inbox) \in Nat
    BY SMTT(40), <1>1, <1>2
  <2>2. \A k \in DOMAIN inbox' : k = Len(inbox) + 1 \/ (k \in DOMAIN inbox /\ inbox'[k] = inbox[k])
    BY SMTT(40), <2>1
  <2>3. \A i \in DOMAIN inbox : inbox[i] # Drain => inbox[i] \in Tasks \ {t}
    BY Zenon, <1>5, TypeFacts
  <2>4. \A i, k \in DOMAIN inbox' : inbox'[i] = inbox'[k] /\ inbox'[i] # Drain => i = k
    BY ZenonT(40), <1>5, <2>1, <2>2 DEF QueuesAgree
  <2>5. \A i \in DOMAIN inbox' : inbox'[i] # Drain => answer'[inbox'[i]] = "waiting" /\ ~In(jobs, inbox'[i])
    BY SMTT(40), <1>4, <1>5, <2>1, <2>2, <2>3 DEF QueuesAgree, Waiting, InJobs
  <2>6. \A u \in Tasks : In(jobs, u) => answer'[u] = "waiting"
    BY Zenon, <1>4 DEF QueuesAgree, Waiting, InJobs
  <2> QED BY ZenonT(40), <1>2, <2>4, <2>5, <2>6 DEF QueuesAgree, Waiting, InJobs
<1>7. OutsideIsFresh'
  BY Zenon, <1>1, <1>2, <1>4 DEF OutsideIsFresh, InJobs, history
<1>8. SlotsAgree' BY ZenonT(40), <1>2 DEF SlotsAgree, Busy, InJobs, SlotsOf
<1>9. BatchesAgree'
  <2>1. slots' = slots /\ moved' = moved /\ job' = job /\ jobs' = jobs
    BY Zenon, <1>2 DEF history
  <2>2. \A u \in Tasks : In(jobs', u) /\ job'[u].error = "none" => \A b \in BatchIds(plan[u]) \ moved[u] :
          b \in job'[u].raw \/ \E s \in Slots : slots[s].task = u /\ slots[s].batch = b
    BY ZenonT(120), <2>1 DEF BatchesAgree, Live, InJobs
  <2>3. /\ \A u \in Tasks : job'[u].raw \subseteq BatchIds(plan[u]) \ moved[u]
        /\ \A u \in Tasks, s \in Slots : slots[s].task = u => slots[s].batch \notin job'[u].raw
    BY Zenon, <2>1 DEF BatchesAgree
  <2> QED BY Zenon, <1>3, <2>1, <2>2, <2>3, BatchesStay
<1>10. ExtentsAgree'
  <2> SUFFICES ASSUME NEW u \in Tasks, NEW e \in Extents PROVE ExtentAgrees(u, e)'
    BY Zenon DEF ExtentsAgree
  <2>1. ExtentAgrees(u, e) /\ (u # t => answer'[u] = answer[u] /\ lease'[u] = lease[u])
    BY Zenon, <1>4 DEF ExtentsAgree
  <2>2. CASE u = t
    BY Zenon, <1>2, <1>3, <1>4, <1>5, <2>2 DEF ExtentAgrees, Live, InJobs
  <2>3. CASE u # t
    BY Zenon, <1>2, <1>3, <2>1, <2>3 DEF ExtentAgrees, Live, InJobs, Waiting, history
  <2> QED BY Zenon, <2>2, <2>3
<1>11. WindowAgrees' BY Zenon, <1>2 DEF WindowAgrees, Decoding, DecodeTask, IsEncoded, EncodedSlots, Busy
<1>12. ReadsAgree' BY Zenon, <1>2, <1>3 DEF ReadsAgree, Live, InJobs, history
<1>13. CodecAgrees' /\ CodecInBudget' BY Zenon, <1>2 DEF CodecAgrees, CodecInBudget, codecs
<1>14. OneWrite' BY Zenon, <1>2, <1>3 DEF OneWrite, Busy, IsWrite
<1>15. CommitsAreWhole'
  <2> SUFFICES ASSUME NEW u \in Tasks, NEW e \in Extents
               PROVE  /\ lease'[u][e] = "committed" => BatchesOf(plan[u], e) \subseteq moved[u]
                      /\ lease'[u][e] = "held" => answer'[u] = "waiting"
    BY Zenon, <1>2, <1>3 DEF CommitsAreWhole, Waiting, history
  <2>1. CASE u = t
    BY Zenon, <1>4, <2>1 DEF Granted
  <2>2. CASE u # t
    BY Zenon, <1>4, <2>2 DEF CommitsAreWhole, Waiting
  <2> QED BY Zenon, <2>1, <2>2
<1>16. SuccessIsComplete'
  <2>1. \A u \in Tasks : answer'[u] = "ok" => Whole(plan[u], moved[u], restored[u], lease'[u])
    BY Zenon, <1>4 DEF SuccessIsComplete
  <2> QED BY Zenon, <1>2, <1>3, <2>1 DEF SuccessIsComplete, history
<1>17. PermitsReturn'
  <2>1. PermitsOf(permits, answer, plan)
    BY Zenon, PermitsFacts
  <2>2. PermitsOf(permits', answer', plan)
    <3>1. CountedIn(answer, answer', plan, t)
      <4>1. NewlyWaits(answer, answer', t)
        BY Zenon, <1>1, <1>4 DEF NewlyWaits
      <4> QED BY Zenon, <4>1, OneMoreWaits
    <3>2. /\ plan[t].write => permits'.save = permits.save - 1 /\ permits'.load = permits.load
          /\ ~plan[t].write => permits'.load = permits.load - 1 /\ permits'.save = permits.save
      BY ZenonT(40), <1>1 DEF SubmitTask, Kind
    <3> HIDE DEF QueueInvariant, Rest
    <3> QED BY SMTT(40), <1>1, <2>1, <3>1, <3>2, RoomAssumption DEF PermitsOf, CountedIn
  <2> QED BY Zenon, <1>3, <2>2 DEF PermitsReturn, PermitsOf, Loads, Saves, Waiting, IsWrite
<1>18. QueueTypeOK'
  <2>1. answer' \in [Tasks -> {"new", "waiting", "ok", "failed", "closed"}]
    BY Zenon, <1>1, <1>2
  <2>2. lease' \in [Tasks -> [Extents -> {"none", "held", "committed", "dropped"}]]
    <3>1. [e \in Extents |-> Granted(plan[t], e)] \in [Extents -> {"none", "held", "committed", "dropped"}]
      BY Zenon DEF Granted
    <3> QED BY Zenon, <1>1, <1>2, <3>1
  <2>3. permits' \in [load : Int, save : Int]
    BY SMTT(40), <1>1 DEF SubmitTask, Kind
  <2>4. inbox' \in Seq(Tasks \cup {Drain})
    BY SMTT(40), <1>1, <1>2
  <2>5. TurnTypeOK /\ BooksTypeOK
    BY Zenon, TypesSplit
  <2>6. TurnTypeOK'
    BY Zenon, <1>2, <2>5 DEF TurnTypeOK, turn
  <2>7. BooksTypeOK'
    BY Zenon, <1>2, <2>1, <2>2, <2>3, <2>4, <2>5 DEF BooksTypeOK, Answers, Leases, Permits, codecs, history
  <2> QED BY Zenon, <2>6, <2>7, TypesSplitNext
<1> QED BY Zenon, <1>6, <1>7, <1>8, <1>9, <1>10, <1>11, <1>12, <1>13, <1>14, <1>15, <1>16, <1>17, <1>18

-----------------------------------------------------------------------------
(* Admission.                                                              *)

\* The job of a plan has everything still to do.
LEMMA NewJobFacts ==
  ASSUME CountingFacts, scope \in Scopes, NEW t \in Tasks
  PROVE  LET j == NewJob(plan[t])
         IN  /\ j \in Job /\ j.raw = BatchIds(plan[t]) /\ j.encoded = plan[t].encoded
             /\ j.queued = 0 /\ j.inflight = 0 /\ j.decoding = FALSE /\ j.host = "none"
             /\ \A e \in Extents : j.remaining[e] = Cardinality(BatchesOf(plan[t], e))
<1> DEFINE p == plan[t]
           counts == [e \in Extents |-> Cardinality(BatchesOf(p, e))]
           err == IF p.ok THEN "none" ELSE "failed"
           j1 == [NoJob EXCEPT !.raw = BatchIds(p)]
           j2 == [j1 EXCEPT !.encoded = p.encoded]
           j3 == [j2 EXCEPT !.remaining = counts]
           j4 == [j3 EXCEPT !.error = err]
<1>1. /\ BatchIds(p) \in SUBSET Nat /\ p.encoded \in Seq(ReadRecord)
      /\ \A e \in Extents : Cardinality(BatchesOf(p, e)) \in Nat
  BY Zenon, PlanFacts, CountIsNat
<1>2. counts \in Counters
  BY SMTT(40), <1>1 DEF Counters
<1>3. err \in {"none", "failed", "closed"}
  OBVIOUS
<1>4. NewJob(p) = j4
  BY Zenon DEF NewJob
<1>5. NoJob \in Job
  <2>1. [e \in Extents |-> 0] \in Counters /\ <<>> \in Seq(ReadRecord)
    BY SMTT(40) DEF Counters
  <2> QED BY SMTT(40), <2>1 DEF NoJob, Job
<1> HIDE DEF counts, err, p
<1>6. j1 \in Job
  BY <1>1, <1>5, JobRaw, Zenon
<1>7. j2 \in Job
  <2> HIDE DEF j1
  <2> QED BY <1>1, <1>6, JobEncoded, Zenon
<1>8. j3 \in Job
  <2> HIDE DEF j2
  <2> QED BY <1>2, <1>7, JobRemaining, Zenon
<1>9. j4 \in Job
  <2> HIDE DEF j3
  <2> QED BY <1>3, <1>8, JobError, Zenon
<1>10. /\ j4.raw = BatchIds(p) /\ j4.encoded = p.encoded /\ j4.remaining = counts
       /\ j4.queued = 0 /\ j4.inflight = 0 /\ j4.decoding = FALSE /\ j4.host = "none"
  BY Zenon DEF NoJob
<1> HIDE DEF j4
<1>11. \A e \in Extents : j4.remaining[e] = Cardinality(BatchesOf(p, e))
  BY Zenon, <1>10 DEF counts
<1> QED BY Zenon, <1>4, <1>9, <1>10, <1>11 DEF p

\* What is left of the channel once its first command was taken.
LEMMA TailFacts ==
  ASSUME QueueTypeOK, QueuesAgree, inbox # <<>>
  PROVE  /\ Tail(inbox) \in Seq(Tasks \cup {Drain}) /\ 1 \in DOMAIN inbox /\ Head(inbox) = inbox[1]
         /\ \A k \in DOMAIN Tail(inbox) : k + 1 \in DOMAIN inbox /\ Tail(inbox)[k] = inbox[k + 1] /\ k \in Nat \ {0}
         /\ Head(inbox) # Drain => \A k \in DOMAIN Tail(inbox) : Tail(inbox)[k] # Head(inbox)
<1>1. inbox \in Seq(Tasks \cup {Drain})
  BY Zenon DEF QueueTypeOK
<1>2. /\ Tail(inbox) \in Seq(Tasks \cup {Drain}) /\ 1 \in DOMAIN inbox /\ Head(inbox) = inbox[1]
      /\ \A k \in DOMAIN Tail(inbox) : k + 1 \in DOMAIN inbox /\ Tail(inbox)[k] = inbox[k + 1] /\ k \in Nat \ {0}
  BY SMTT(40), <1>1
<1> DEFINE r == Tail(inbox)
<1> HIDE DEF r
<1>3. ASSUME Head(inbox) # Drain, NEW k \in DOMAIN r, r[k] = Head(inbox) PROVE FALSE
  <2>1. k + 1 \in DOMAIN inbox /\ inbox[k + 1] = inbox[1] /\ k \in Nat \ {0} /\ 1 \in DOMAIN inbox
        /\ inbox[1] # Drain
    BY Zenon, <1>2, <1>3 DEF r
  <2>2. k + 1 = 1
    BY Zenon, <2>1 DEF QueuesAgree
  <2> QED BY SMTT(40), <2>1, <2>2
<1> QED BY Zenon, <1>2, <1>3 DEF r

\* Admitting a drain keeps the invariant.
LEMMA AdmitDrain ==
  ASSUME QueueInvariant, Admit, Head(inbox) = Drain
  PROVE  QueueInvariant'
<1> USE DEF QueueInvariant
<1>1. /\ inbox' = Tail(inbox) /\ taken' = taken + 1 /\ closed' = TRUE /\ inbox # <<>>
      /\ UNCHANGED <<scope, answer, lease, permits, jobs, job, slots, decode, codecs, history>>
      /\ UNCHANGED <<gone, pool, drained, at, ix, burst, reset, made>>
  BY Zenon DEF Admit, callers
<1>2. /\ inbox' \in Seq(Tasks \cup {Drain})
      /\ \A k \in DOMAIN inbox' : k + 1 \in DOMAIN inbox /\ inbox'[k] = inbox[k + 1] /\ k \in Nat \ {0}
  BY Zenon, <1>1, TailFacts DEF Rest
<1>3. QueuesAgree'
  <2>1. \A i, k \in DOMAIN inbox' : inbox'[i] = inbox'[k] /\ inbox'[i] # Drain => i = k
    <3> SUFFICES ASSUME NEW i \in DOMAIN inbox', NEW k \in DOMAIN inbox', inbox'[i] = inbox'[k], inbox'[i] # Drain
                 PROVE  i = k
      BY Zenon
    <3>1. i + 1 = k + 1
      BY Zenon, <1>2 DEF Rest, QueuesAgree
    <3>2. i \in Nat /\ k \in Nat
      BY Zenon, <1>2
    <3> QED BY SMTT(40), <3>1, <3>2
  <2>2. \A i \in DOMAIN inbox' : inbox'[i] # Drain => Waiting(inbox'[i]) /\ ~InJobs(inbox'[i])
    BY Zenon, <1>2 DEF Rest, QueuesAgree
  <2> QED BY Zenon, <1>1, <2>1, <2>2 DEF Rest, QueuesAgree, Waiting, InJobs
<1>4. CodecAgrees' /\ CodecInBudget'
  BY Zenon, <1>1 DEF Rest, CodecAgrees, CodecInBudget, codecs
<1>5. Rest'
  BY Zenon, <1>1, <1>3, <1>4, SideFrame
<1>6. QueueTypeOK'
  <2>1. TurnTypeOK /\ BooksTypeOK
    BY Zenon, TypesSplit
  <2>2. taken' \in Nat
    BY SMTT(40), <1>1, <2>1 DEF TurnTypeOK
  <2>3. TurnTypeOK'
    BY Zenon, <1>1, <2>1, <2>2 DEF TurnTypeOK
  <2>4. BooksTypeOK'
    BY Zenon, <2>1, <1>1, <1>2 DEF BooksTypeOK, codecs, history
  <2> QED BY Zenon, <2>3, <2>4, TypesSplitNext
<1> QED BY Zenon, <1>5, <1>6

\* Nothing refers to a task outside the deque.
LEMMA OutsideIsFree ==
  ASSUME QueueInvariant, NEW t \in Tasks, ~InJobs(t)
  PROVE  /\ \A s \in Slots : slots[s].task # t
         /\ decode.task # t /\ job[t] = NoJob /\ NoJob.inflight = 0 /\ Carrying(slots, t) = {}
<1> USE DEF QueueInvariant, Rest
<1>1. \A s \in Slots : slots[s].task # t
  BY SMTT(40), TasksAssumption DEF SlotsAgree, Busy, Empty
<1>2. job[t] = NoJob
  BY ZenonT(40) DEF OutsideIsFresh
<1>3. job[t].decoding = FALSE
  BY SMTT(40), <1>2 DEF NoJob
<1>4. decode.task # t
  BY Zenon, <1>3 DEF WindowAgrees
<1>5. NoJob.inflight = 0
  BY Zenon DEF NoJob
<1>6. Carrying(slots, t) = {}
  BY Zenon, <1>1 DEF Carrying
<1> QED BY ZenonT(40), <1>1, <1>2, <1>4, <1>5, <1>6

\* Admitting a task keeps the invariant: its job starts with everything still to do (Job::new).
LEMMA AdmitTask ==
  ASSUME CountingFacts, QueueInvariant, Admit, Head(inbox) # Drain
  PROVE  QueueInvariant'
<1> USE DEF QueueInvariant, Rest
<1> DEFINE t == Head(inbox)
           n == NewJob(plan[t])
<1>1. /\ inbox' = Tail(inbox) /\ taken' = taken + 1 /\ inbox # <<>>
      /\ jobs' = Append(jobs, t) /\ job' = [job EXCEPT ![t] = n]
      /\ UNCHANGED <<scope, answer, lease, permits, slots, decode, codecs, history>>
      /\ UNCHANGED <<gone, pool, drained, at, ix, burst, reset, made, closed>>
  BY Zenon DEF Admit, callers
<1>2. /\ inbox' \in Seq(Tasks \cup {Drain}) /\ 1 \in DOMAIN inbox /\ t = inbox[1]
      /\ \A k \in DOMAIN inbox' : k + 1 \in DOMAIN inbox /\ inbox'[k] = inbox[k + 1] /\ k \in Nat \ {0}
      /\ \A k \in DOMAIN inbox' : inbox'[k] # t
  BY Zenon, <1>1, TailFacts
<1>3. t \in Tasks /\ answer[t] = "waiting" /\ ~In(jobs, t)
  BY Zenon, <1>2, TypeFacts DEF QueuesAgree, Waiting, InJobs
<1>4. /\ n \in Job /\ n.raw = BatchIds(plan[t]) /\ n.encoded = plan[t].encoded
      /\ n.queued = 0 /\ n.inflight = 0 /\ n.decoding = FALSE
      /\ \A e \in Extents : n.remaining[e] = Cardinality(BatchesOf(plan[t], e))
  <2>1. scope \in Scopes
    BY Zenon DEF QueueTypeOK
  <2> HIDE DEF t
  <2> QED BY <1>3, <2>1, NewJobFacts, Zenon
<1>5. /\ \A s \in Slots : slots[s].task # t
      /\ decode.task # t /\ job[t] = NoJob /\ Carrying(slots, t) = {}
      /\ moved[t] = {} /\ restored[t] = 0
  BY Zenon, <1>3, OutsideIsFree DEF InJobs, OutsideIsFresh
<1> HIDE DEF n, t
<1>6. plan' = plan
  BY Zenon, <1>1 DEF plan
<1>7. /\ jobs' \in Seq(Tasks) /\ Distinct(jobs') /\ \A u : In(jobs', u) <=> In(jobs, u) \/ u = t
  <2>1. jobs \in Seq(Tasks) /\ Distinct(jobs)
    BY Zenon DEF QueueTypeOK, QueuesAgree
  <2> QED BY Zenon, <1>1, <1>3, <2>1, AppendFacts
<1>8. job \in [Tasks -> Job] /\ job' \in [Tasks -> Job] /\ job'[t] = n /\ \A u \in Tasks \ {t} : job'[u] = job[u]
  <2>1. job \in [Tasks -> Job]
    BY Zenon DEF QueueTypeOK
  <2> QED BY Zenon, <1>1, <1>3, <1>4, <2>1
<1>9. QueuesAgree'
  <2>1. \A i, k \in DOMAIN inbox' : inbox'[i] = inbox'[k] /\ inbox'[i] # Drain => i = k
    <3> SUFFICES ASSUME NEW i \in DOMAIN inbox', NEW k \in DOMAIN inbox', inbox'[i] = inbox'[k], inbox'[i] # Drain
                 PROVE  i = k
      BY Zenon
    <3>1. i + 1 = k + 1
      BY Zenon, <1>2 DEF QueuesAgree
    <3>2. i \in Nat /\ k \in Nat
      BY Zenon, <1>2
    <3> QED BY SMTT(40), <3>1, <3>2
  <2>2. \A i \in DOMAIN inbox' : inbox'[i] # Drain => answer[inbox'[i]] = "waiting" /\ ~In(jobs', inbox'[i])
    BY SMTT(40), <1>2, <1>7 DEF QueuesAgree, Waiting, InJobs
  <2>3. \A u \in Tasks : In(jobs', u) => answer[u] = "waiting"
    BY Zenon, <1>3, <1>7 DEF QueuesAgree, Waiting, InJobs
  <2> QED BY ZenonT(40), <1>1, <1>7, <2>1, <2>2, <2>3 DEF QueuesAgree, Waiting, InJobs
<1>10. OutsideIsFresh'
  BY Zenon, <1>1, <1>7, <1>8 DEF OutsideIsFresh, InJobs, history
<1>11. SlotsAgree'
  <2>1. Cardinality(Carrying(slots, t)) = 0
    BY Zenon, <1>5, NoneCounted
  <2>2. \A u \in Tasks : job'[u].inflight = Cardinality(Carrying(slots, u))
    BY Zenon, <1>4, <1>8, <2>1 DEF SlotsAgree, SlotsOf
  <2>3. \A s \in Slots : Busy(s) => In(jobs', slots[s].task)
    BY ZenonT(40), <1>7 DEF SlotsAgree, InJobs
  <2> QED BY Zenon, <1>1, <2>2, <2>3 DEF SlotsAgree, SlotsOf, Busy, InJobs
<1>12. BatchesAgree'
  <2>1. \A u \in Tasks : job'[u].raw \subseteq BatchIds(plan[u]) \ moved[u]
    BY SMTT(40), <1>4, <1>5, <1>8 DEF BatchesAgree
  <2>2. \A u \in Tasks, s \in Slots : slots[s].task = u => slots[s].batch \notin job'[u].raw
    BY Zenon, <1>5, <1>8 DEF BatchesAgree
  <2>3. \A u \in Tasks : In(jobs', u) /\ job'[u].error = "none" => \A b \in BatchIds(plan[u]) \ moved[u] :
          b \in job'[u].raw \/ \E s \in Slots : slots[s].task = u /\ slots[s].batch = b
    <3> SUFFICES ASSUME NEW u \in Tasks, In(jobs', u), job'[u].error = "none", NEW b \in BatchIds(plan[u]) \ moved[u]
                 PROVE  b \in job'[u].raw \/ \E s \in Slots : slots[s].task = u /\ slots[s].batch = b
      OBVIOUS
    <3>1. CASE u = t
      BY ZenonT(40), <1>4, <1>8, <3>1
    <3>2. CASE u # t
      BY SMTT(40), <1>7, <1>8, <3>2 DEF BatchesAgree, Live, InJobs
    <3> QED BY Zenon, <3>1, <3>2
  <2>4. slots' = slots /\ moved' = moved
    BY Zenon, <1>1 DEF history
  <2> QED BY ZenonT(40), <1>6, <2>1, <2>2, <2>3, <2>4, BatchesStay
<1>13. ExtentsAgree'
  <2> SUFFICES ASSUME NEW u \in Tasks, NEW e \in Extents PROVE ExtentAgrees(u, e)'
    BY Zenon DEF ExtentsAgree
  <2>1. ExtentAgrees(u, e)
    BY Zenon DEF ExtentsAgree
  <2>2. CASE u = t
    <3>1. lease[t][e] = Granted(plan[t], e)
      BY Zenon, <1>3, <2>1, <2>2 DEF ExtentAgrees, InJobs, Waiting
    <3>2. Due(plan[t], e, {}) = Granted(plan[t], e) /\ BatchesOf(plan[t], e) \ {} = BatchesOf(plan[t], e)
      BY Zenon DEF Due
    <3>3. n.remaining[e] = Cardinality(BatchesOf(plan[t], e) \ moved[t]) /\ lease[t][e] = Due(plan[t], e, moved[t])
      BY Zenon, <1>4, <1>5, <3>1, <3>2
    <3> QED BY Zenon, <1>1, <1>3, <1>6, <1>7, <1>8, <2>2, <3>3 DEF ExtentAgrees, InJobs, history
  <2>3. CASE u # t
    BY ZenonT(40), <1>1, <1>6, <1>7, <1>8, <2>1, <2>3 DEF ExtentAgrees, Live, InJobs, Waiting, history
  <2> QED BY Zenon, <2>2, <2>3
<1>14. WindowAgrees'
  <2>1. \A u \in Tasks : job'[u].decoding <=> decode.task = u
    BY ZenonT(40), <1>4, <1>5, <1>8 DEF WindowAgrees
  <2>2. \A u \in Tasks : job'[u].queued >= 0 /\ (job'[u].queued > 0 => u # t)
    BY SMTT(40), <1>4, <1>8 DEF WindowAgrees
  <2>3. decode.phase = "reading" => job'[decode.task] = job[decode.task]
    BY Zenon, <1>5, <1>8, WindowTask
  <2> QED BY Zenon, <1>1, <1>8, <2>1, <2>2, <2>3 DEF WindowAgrees, Decoding, DecodeTask, IsEncoded, EncodedSlots, Busy
<1>15. ReadsAgree'
  <2> SUFFICES ASSUME NEW u \in Tasks, In(jobs', u), job'[u].error = "none"
               PROVE  restored[u] + (IF decode.task = u THEN Len(decode.reads) ELSE 0) + Len(job'[u].encoded)
                        = Len(plan[u].encoded)
    BY ZenonT(40), <1>1, <1>6 DEF ReadsAgree, Live, InJobs, history
  <2>1. CASE u = t
    <3>1. plan[t].encoded \in Seq(ReadRecord)
      BY Zenon, <1>3, PlanFacts DEF QueueTypeOK
    <3>2. Len(plan[t].encoded) \in Nat
      BY SMTT(40), <3>1
    <3> QED BY SMTT(40), <1>4, <1>5, <1>8, <2>1, <3>2
  <2>2. CASE u # t
    BY Zenon, <1>7, <1>8, <2>2 DEF ReadsAgree, Live, InJobs
  <2> QED BY Zenon, <2>1, <2>2
<1>16. CodecAgrees' /\ CodecInBudget' BY Zenon, <1>1 DEF CodecAgrees, CodecInBudget, codecs
<1>17. OneWrite' BY Zenon, <1>1, <1>6 DEF OneWrite, Busy, IsWrite
<1>18. CommitsAreWhole' BY Zenon, <1>1, <1>6 DEF CommitsAreWhole, Waiting, history
<1>19. SuccessIsComplete' BY Zenon, <1>1, <1>6 DEF SuccessIsComplete, history
<1>20. PermitsReturn' BY ZenonT(40), <1>1, <1>6 DEF PermitsReturn, Waiting, IsWrite
<1>21. QueueTypeOK'
  <2>1. TurnTypeOK /\ BooksTypeOK
    BY Zenon, TypesSplit
  <2>2. taken' \in Nat
    BY SMTT(40), <1>1, <2>1 DEF TurnTypeOK
  <2>3. TurnTypeOK'
    BY Zenon, <1>1, <2>1, <2>2 DEF TurnTypeOK
  <2>4. BooksTypeOK'
    BY Zenon, <2>1, <1>1, <1>2, <1>7, <1>8 DEF BooksTypeOK, codecs, history
  <2> QED BY Zenon, <2>3, <2>4, TypesSplitNext
<1> QED BY ZenonT(40), <1>9, <1>10, <1>11, <1>12, <1>13, <1>14, <1>15, <1>16, <1>17, <1>18, <1>19, <1>20, <1>21

-----------------------------------------------------------------------------
(* Answering a job.                                                        *)

\* Answering a complete job keeps the invariant (Job::finish).
LEMMA FinishJobStep ==
  ASSUME CountingFacts, QueueInvariant, NEW i \in DOMAIN jobs, FinishJob(i)
  PROVE  QueueInvariant'
<1> USE DEF QueueInvariant, Rest
<1> DEFINE t == jobs[i]
           result == IF job[t].error = "none" THEN "ok" ELSE job[t].error
           ended == [e \in Extents |-> IF lease[t][e] = "held" THEN "dropped" ELSE lease[t][e]]
<1>1. /\ lease' = [lease EXCEPT ![t] = ended]
      /\ answer' = [answer EXCEPT ![t] = result]
      /\ job' = [job EXCEPT ![t] = NoJob] /\ jobs' = Removed(jobs, i)
      /\ Complete(job[t])
      /\ UNCHANGED <<scope, gone, sender, drained, turn, made, slots, decode, codecs, history>>
  BY Zenon DEF FinishJob, AnswerOf
<1>2. permits' = [permits EXCEPT ![Kind(plan[t])] = @ + 1]
  BY Zenon DEF FinishJob
<1>3. /\ jobs \in Seq(Tasks) /\ Distinct(jobs) /\ t \in Tasks /\ job[t] \in Job
      /\ job \in [Tasks -> Job] /\ permits \in [load : Int, save : Int]
      /\ answer \in [Tasks -> {"new", "waiting", "ok", "failed", "closed"}]
      /\ lease \in [Tasks -> [Extents -> {"none", "held", "committed", "dropped"}]]
  BY Zenon, TypeFacts DEF QueueTypeOK, QueuesAgree
<1>4. In(jobs, t) /\ answer[t] = "waiting"
  BY Zenon, <1>3 DEF QueuesAgree, Waiting, InJobs, In
<1>5. result \in {"ok", "failed", "closed"} /\ (result = "ok" => job[t].error = "none")
  BY Zenon, <1>3, TypeFacts
<1>6. ended \in [Extents -> {"none", "held", "committed", "dropped"}] /\ \A e \in Extents :
        /\ ended[e] # "held" /\ (ended[e] = "committed" => lease[t][e] = "committed")
        /\ (lease[t][e] = "committed" => ended[e] = "committed")
  BY Zenon, <1>3
<1> HIDE DEF t, result, ended
<1>7. /\ jobs' \in Seq(Tasks) /\ Distinct(jobs') /\ \A u : In(jobs', u) <=> In(jobs, u) /\ u # t
  BY Zenon, <1>1, <1>3, RemovedFacts DEF t
<1>8. /\ answer'[t] = result /\ \A u \in Tasks \ {t} : answer'[u] = answer[u]
      /\ lease'[t] = ended /\ \A u \in Tasks \ {t} : lease'[u] = lease[u]
      /\ job'[t] = NoJob /\ \A u \in Tasks \ {t} : job'[u] = job[u]
  BY Zenon, <1>1, <1>3
<1>9. /\ job[t].inflight = 0 /\ job[t].raw = {} /\ ~(job[t].queued > 0)
      /\ job[t].encoded = <<>> /\ ~job[t].decoding /\ job[t].host = "none"
  BY Zenon, <1>1 DEF Complete, HasWork
<1>10. decode.task # t /\ plan' = plan
  BY Zenon, <1>1, <1>3, <1>9 DEF WindowAgrees, plan
<1>11. Carrying(slots, t) = {} /\ \A s \in Slots : slots[s].task # t
  <2>1. Carrying(slots, t) \in SUBSET Slots
    BY Zenon DEF Carrying
  <2>2. Cardinality(Carrying(slots, t)) = 0
    BY Zenon, <1>3, <1>9 DEF SlotsAgree, SlotsOf
  <2>3. Carrying(slots, t) = {}
    BY Zenon, <2>1, <2>2, SlotSets, NoneCounted
  <2> QED BY Zenon, <2>3 DEF Carrying
<1>12. NoJob.inflight = 0 /\ NoJob.raw = {} /\ NoJob.queued = 0 /\ NoJob.decoding = FALSE
  BY Zenon DEF NoJob
<1>13. QueuesAgree'
  <2>1. \A k \in DOMAIN inbox : inbox[k] # Drain => inbox[k] \in Tasks \ {t}
    BY Zenon, <1>4, TypeFacts DEF QueuesAgree, InJobs
  <2>2. \A u \in Tasks : In(jobs', u) => answer'[u] = "waiting"
    BY Zenon, <1>7, <1>8 DEF QueuesAgree, InJobs, Waiting
  <2>3. \A k \in DOMAIN inbox : inbox[k] # Drain => answer'[inbox[k]] = "waiting" /\ ~In(jobs', inbox[k])
    BY Zenon, <1>7, <1>8, <2>1 DEF QueuesAgree, InJobs, Waiting
  <2>4. inbox' = inbox
    BY Zenon, <1>1 DEF sender
  <2> QED BY Zenon, <1>7, <2>2, <2>3, <2>4 DEF QueuesAgree, InJobs, Waiting
<1>14. OutsideIsFresh'
  <2>1. \A u \in Tasks : ~In(jobs', u) => job'[u] = NoJob
    BY Zenon, <1>7, <1>8 DEF OutsideIsFresh, InJobs
  <2>2. \A u \in Tasks : ~In(jobs', u) /\ answer'[u] \in {"new", "waiting"} => moved[u] = {} /\ restored[u] = 0
    BY Zenon, <1>5, <1>7, <1>8 DEF OutsideIsFresh, InJobs
  <2> QED BY Zenon, <1>1, <2>1, <2>2 DEF OutsideIsFresh, InJobs, history
<1>15. SlotsAgree'
  <2>1. Cardinality(Carrying(slots, t)) = 0
    BY Zenon, <1>11, NoneCounted
  <2>2. \A u \in Tasks : job'[u].inflight = Cardinality(Carrying(slots, u))
    BY Zenon, <1>8, <1>12, <2>1 DEF SlotsAgree, SlotsOf
  <2>3. \A s \in Slots : Busy(s) => In(jobs', slots[s].task)
    BY ZenonT(40), <1>7, <1>11 DEF SlotsAgree, InJobs
  <2> QED BY Zenon, <1>1, <2>2, <2>3 DEF SlotsAgree, SlotsOf, Busy, InJobs
<1>16. BatchesAgree'
  <2>1. \A u \in Tasks : job'[u].raw \subseteq BatchIds(plan[u]) \ moved[u]
    BY Zenon, <1>8, <1>12 DEF BatchesAgree
  <2>2. \A u \in Tasks, s \in Slots : slots[s].task = u => slots[s].batch \notin job'[u].raw
    BY Zenon, <1>8, <1>12 DEF BatchesAgree
  <2>3. \A u \in Tasks : In(jobs', u) /\ job'[u].error = "none" => \A b \in BatchIds(plan[u]) \ moved[u] :
          b \in job'[u].raw \/ \E s \in Slots : slots[s].task = u /\ slots[s].batch = b
    <3>1. \A u \in Tasks : In(jobs', u) => In(jobs, u) /\ job'[u] = job[u]
      BY Zenon, <1>7, <1>8
    <3> QED BY ZenonT(120), <3>1 DEF BatchesAgree, Live, InJobs
  <2>4. slots' = slots /\ moved' = moved
    BY Zenon, <1>1 DEF history
  <2> QED BY Zenon, <1>10, <2>1, <2>2, <2>3, <2>4, BatchesStay
<1>17. ExtentsAgree'
  <2> SUFFICES ASSUME NEW u \in Tasks, NEW e \in Extents PROVE ExtentAgrees(u, e)'
    BY Zenon DEF ExtentsAgree
  <2>1. ExtentAgrees(u, e)
    BY Zenon DEF ExtentsAgree
  <2>2. CASE u = t
    BY Zenon, <1>5, <1>7, <1>8, <2>2 DEF ExtentAgrees, Live, InJobs, Waiting
  <2>3. CASE u # t
    BY ZenonT(40), <1>1, <1>7, <1>8, <1>10, <2>1, <2>3 DEF ExtentAgrees, Live, InJobs, Waiting, history
  <2> QED BY Zenon, <2>2, <2>3
<1>18. WindowAgrees'
  <2>1. \A u \in Tasks : job'[u].decoding <=> decode.task = u
    BY ZenonT(40), <1>8, <1>10, <1>12 DEF WindowAgrees
  <2>2. ASSUME NEW u \in Tasks PROVE job'[u].queued >= 0 /\ (job'[u].queued > 0 => u # t)
    <3>1. CASE u = t
      BY SMTT(40), <1>8, <1>12, <3>1
    <3>2. CASE u # t
      BY Zenon, <1>8, <3>2 DEF WindowAgrees
    <3> QED BY Zenon, <3>1, <3>2
  <2>3. decode.phase = "reading" => job'[decode.task] = job[decode.task]
    BY Zenon, <1>8, <1>10, WindowTask
  <2>4. \A u \in Tasks : job'[u].queued > 0 =>
          decode.task = u /\ decode.phase = "reading" /\ job'[u].error = "none"
    <3> SUFFICES ASSUME NEW u \in Tasks, job'[u].queued > 0
                 PROVE  decode.task = u /\ decode.phase = "reading" /\ job'[u].error = "none"
      BY Zenon
    <3>1. job'[u] = job[u]
      BY Zenon, <1>8, <2>2
    <3> QED BY Zenon, <3>1 DEF WindowAgrees
  <2>5. decode.phase = "reading" => Cardinality(EncodedSlots) + job'[decode.task].queued <= decode.left
    BY Zenon, <2>3 DEF WindowAgrees, DecodeTask
  <2>6. slots' = slots /\ decode' = decode
    BY Zenon, <1>1
  <2> QED BY Zenon, <2>1, <2>2, <2>4, <2>5, <2>6, WindowStays
<1>19. ReadsAgree'
  <2>1. \A u \in Tasks : In(jobs', u) => u # t /\ In(jobs, u) /\ job'[u] = job[u]
    BY Zenon, <1>7, <1>8
  <2> QED BY Zenon, <1>1, <1>10, <2>1 DEF ReadsAgree, Live, InJobs, history
<1>20. CodecAgrees' /\ CodecInBudget' BY Zenon, <1>1 DEF CodecAgrees, CodecInBudget, codecs
<1>21. OneWrite' BY Zenon, <1>1, <1>10 DEF OneWrite, Busy, IsWrite
<1>22. CommitsAreWhole'
  <2> SUFFICES ASSUME NEW u \in Tasks, NEW e \in Extents
               PROVE  /\ lease'[u][e] = "committed" => BatchesOf(plan[u], e) \subseteq moved[u]
                      /\ lease'[u][e] = "held" => answer'[u] = "waiting"
    BY Zenon, <1>1, <1>10 DEF CommitsAreWhole, Waiting, history
  <2>1. CASE u = t
    BY Zenon, <1>6, <1>8, <2>1 DEF CommitsAreWhole
  <2>2. CASE u # t
    BY Zenon, <1>8, <2>2 DEF CommitsAreWhole, Waiting
  <2> QED BY Zenon, <2>1, <2>2
<1>23. SuccessIsComplete'
  <2>1. ASSUME result = "ok" PROVE Whole(plan[t], moved[t], restored[t], ended)
    <3>1. Live(t)
      BY Zenon, <1>4, <1>5, <2>1 DEF Live, InJobs
    <3>2. moved[t] = BatchIds(plan[t])
      <4>1. moved[t] \subseteq BatchIds(plan[t])
        BY Zenon, <1>3 DEF BatchesAgree
      <4>2. \A b \in BatchIds(plan[t]) \ moved[t] : b \in job[t].raw \/ \E s \in Slots : slots[s].task = t
        BY Zenon, <1>3, <3>1 DEF BatchesAgree
      <4>3. \A b \in BatchIds(plan[t]) : b \in moved[t]
        BY Zenon, <1>9, <1>11, <4>2
      <4> QED BY <4>1, <4>3, Zenon
    <3>3. restored[t] = Len(plan[t].encoded)
      <4>1. restored[t] + 0 + Len(job[t].encoded) = Len(plan[t].encoded) /\ restored[t] \in Nat
        BY Zenon, <1>3, <1>10, <3>1, TypeFacts DEF ReadsAgree
      <4>2. Len(job[t].encoded) = 0
        BY Zenon, <1>9
      <4> QED BY SMTT(40), <4>1, <4>2
    <3>4. \A e \in Extents : BatchesOf(plan[t], e) # {} => ended[e] = "committed"
      <4> SUFFICES ASSUME NEW e \in Extents, BatchesOf(plan[t], e) # {} PROVE ended[e] = "committed"
        OBVIOUS
      <4>1. lease[t][e] = Due(plan[t], e, moved[t])
        <5>1. ExtentAgrees(t, e)
          BY Zenon, <1>3 DEF ExtentsAgree
        <5> QED BY Zenon, <3>1, <5>1 DEF ExtentAgrees
      <4>2. BatchesOf(plan[t], e) \subseteq moved[t]
        BY Zenon, <3>2 DEF BatchesOf
      <4> QED BY Zenon, <1>6, <4>1, <4>2 DEF Due
    <3> QED BY Zenon, <3>2, <3>3, <3>4 DEF Whole
  <2>2. \A u \in Tasks : answer'[u] = "ok" => Whole(plan[u], moved[u], restored[u], lease'[u])
    BY Zenon, <1>8, <2>1 DEF SuccessIsComplete
  <2> QED BY Zenon, <1>1, <1>10, <2>2 DEF SuccessIsComplete, history
<1>24. PermitsReturn'
  <2>1. PermitsOf(permits, answer, plan)
    BY ZenonT(40), PermitsFacts
  <2>2. PermitsOf(permits', answer', plan)
    <3>1. CountedIn(answer', answer, plan, t)
      <4>1. NewlyWaits(answer', answer, t)
        BY Zenon, <1>4, <1>5, <1>8 DEF NewlyWaits
      <4> QED BY Zenon, <1>3, <4>1, OneMoreWaits
    <3>2. /\ plan[t].write => permits'.save = permits.save + 1 /\ permits'.load = permits.load
          /\ ~plan[t].write => permits'.load = permits.load + 1 /\ permits'.save = permits.save
      BY Zenon, <1>2, <1>3 DEF Kind
    <3> HIDE DEF QueueInvariant, Rest
    <3> QED BY SMTT(40), <1>3, <2>1, <3>1, <3>2, RoomAssumption DEF PermitsOf, CountedIn
  <2> QED BY Zenon, <1>10, <2>2 DEF PermitsReturn, PermitsOf, Loads, Saves, Waiting, IsWrite
<1>25. QueueTypeOK'
  <2>1. answer' \in [Tasks -> Answers]
    BY Zenon, <1>1, <1>3, <1>5 DEF Answers
  <2>2. lease' \in [Tasks -> Leases]
    BY ZenonT(40), <1>1, <1>3, <1>6 DEF Leases
  <2>3. permits' \in Permits
    BY SMTT(40), <1>2, <1>3 DEF Kind, Permits
  <2>4. job' \in [Tasks -> Job]
    <3>1. NoJob \in Job
      <4>1. [e \in Extents |-> 0] \in Counters /\ <<>> \in Seq(ReadRecord)
        BY SMTT(40) DEF Counters
      <4> QED BY SMTT(40), <4>1 DEF NoJob, Job
    <3> QED BY ZenonT(40), <1>1, <1>3, <3>1
  <2>5. UNCHANGED <<scope, gone, pool, inbox, drained, at, ix, taken, closed, burst, reset, made,
                    slots, decode, codec, arena, scratch, moved, restored>>
    BY Zenon, <1>1 DEF turn, sender, codecs, history
  <2>6. TurnTypeOK'
    BY ZenonT(40), <2>5 DEF TurnTypeOK, QueueTypeOK
  <2>7. BooksTypeOK'
    <3>1. BooksTypeOK
      BY Zenon, TypesSplit
    <3> QED BY Zenon, <1>7, <2>1, <2>2, <2>3, <2>4, <2>5, <3>1 DEF BooksTypeOK
  <2> QED BY Zenon, <2>6, <2>7, TypesSplitNext
<1> QED BY ZenonT(40), <1>13, <1>14, <1>15, <1>16, <1>17, <1>18, <1>19, <1>20, <1>21, <1>22, <1>23, <1>24, <1>25

=============================================================================
