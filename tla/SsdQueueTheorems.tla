-------------------------- MODULE SsdQueueTheorems --------------------------
(***************************************************************************)
(* What the GPU-direct SSD lane guarantees in every behaviour.  First the  *)
(* steps that open a decode window and fill a staging slot; then all steps *)
(* together.  OperatorTheorems discharges the facts on finite sets that  *)
(* the steps assume.                                                       *)
(***************************************************************************)
EXTENDS SsdQueueSteps

-----------------------------------------------------------------------------
(* Filling a slot.                                                         *)

\* A stored size is rounded up to whole pages.
LEMMA RoundFacts ==
  ASSUME NEW n \in Nat
  PROVE  Round(n) \in Nat /\ (n > 0 => Round(n) > 0)
<1> DEFINE m == n + Page - 1
           q == m \div Page
<1>1. Page \in Nat \ {0} /\ m \in Nat
  BY SMTT(40), RoomAssumption
<1>2. q \in Nat /\ (m >= Page => q > 0)
  BY SMTT(40), <1>1
<1>3. Round(n) = q * Page
  BY Zenon DEF Round
<1> HIDE DEF q
<1>4. q * Page \in Nat /\ (q > 0 => q * Page > 0)
  BY SMTT(40), <1>1, <1>2
<1>5. n > 0 => m >= Page
  BY SMTT(40), <1>1
<1> QED BY Zenon, <1>2, <1>3, <1>4, <1>5

\* The ends of the reads of a window.
LEMMA EndFacts ==
  ASSUME CountingFacts, NEW reads \in Seq(ReadRecord)
  PROVE  \A k \in 1 .. Len(reads) :
           EndOf(reads, k) \in Nat /\ (reads[k].size > 0 => EndOf(reads, k) > 0)
<1> DEFINE r == [i \in DOMAIN reads |-> Round(reads[i].size)]
           sum == Partial(r, Len(reads))
<1>1. Len(reads) \in Nat /\ \A k \in 1 .. Len(reads) : k \in DOMAIN reads /\ reads[k].size \in Nat
  <2>1. Len(reads) \in Nat /\ \A k \in 1 .. Len(reads) : k \in DOMAIN reads /\ reads[k] \in ReadRecord
    OBVIOUS
  <2>2. \A x \in ReadRecord : x.size \in Nat
    BY Zenon DEF ReadRecord
  <2> QED BY Zenon, <2>1, <2>2
<1>2. \A k \in 1 .. Len(reads) : r[k] \in Nat /\ (reads[k].size > 0 => r[k] > 0)
  <2> HIDE DEF r
  <2> SUFFICES ASSUME NEW k \in 1 .. Len(reads) PROVE r[k] \in Nat /\ (reads[k].size > 0 => r[k] > 0)
    OBVIOUS
  <2>1. r[k] = Round(reads[k].size) /\ reads[k].size \in Nat
    BY Zenon, <1>1 DEF r
  <2>2. Round(reads[k].size) \in Nat /\ (reads[k].size > 0 => Round(reads[k].size) > 0)
    BY <2>1, RoundFacts, Zenon
  <2> QED BY Zenon, <2>1, <2>2
<1> HIDE DEF r
<1>3. /\ sum \in [0 .. Len(reads) -> Nat]
      /\ \A i \in 1 .. Len(reads) : sum[i] = sum[i - 1] + r[i]
  BY Zenon, <1>1, <1>2, PartialSums
<1>4. \A k \in 1 .. Len(reads) : EndOf(reads, k) = sum[k]
  BY Zenon DEF EndOf, r
<1> HIDE DEF sum
<1>5. \A k \in 1 .. Len(reads) : sum[k - 1] \in Nat
  BY SMTT(40), <1>1, <1>3
<1> QED BY SMTT(40), <1>1, <1>2, <1>3, <1>4, <1>5

\* input_window: every read of the window fits, and the window ends inside the budget.
LEMMA WindowChoice ==
  ASSUME CountingFacts, NEW reads \in Seq(ReadRecord), NEW budget \in Nat
  PROVE  /\ Window(reads, budget) \in 0 .. Len(reads)
         /\ \A k \in 1 .. Window(reads, budget) : reads[k].source = reads[1].source
         /\ Window(reads, budget) # 0 =>
              /\ EndOf(reads, Window(reads, budget)) \in Int
              /\ 0 < EndOf(reads, Window(reads, budget)) /\ EndOf(reads, Window(reads, budget)) < budget
<1> DEFINE Stops == {n \in 0 .. Len(reads) : n < Len(reads) => ~FitsWindow(reads, budget, n + 1)}
           Good(n) == /\ \A k \in 1 .. n : FitsWindow(reads, budget, k)
                      /\ n < Len(reads) => ~FitsWindow(reads, budget, n + 1)
<1>1. Len(reads) \in Nat
  OBVIOUS
<1>2. \E n \in 0 .. Len(reads) : Good(n)
  <2>1. Stops \in SUBSET Nat /\ Len(reads) \in Stops
    BY SMTT(40), <1>1
  <2> HIDE DEF Stops
  <2>2. PICK n \in Stops : \A m \in Stops : n <= m
    BY Zenon, <2>1, LeastOfNats
  <2>3. n \in 0 .. Len(reads) /\ (n < Len(reads) => ~FitsWindow(reads, budget, n + 1))
    BY Zenon, <2>2 DEF Stops
  <2>4. ASSUME NEW k \in 1 .. n PROVE FitsWindow(reads, budget, k)
    <3>1. k - 1 \in 0 .. Len(reads) /\ k - 1 < Len(reads) /\ ~(n <= k - 1) /\ (k - 1) + 1 = k
      BY SMTT(40), <1>1, <2>3, <2>4
    <3>2. k - 1 \notin Stops
      BY Zenon, <2>2, <3>1
    <3> QED BY Zenon, <3>1, <3>2 DEF Stops
  <2> QED BY Zenon, <2>3, <2>4
<1> DEFINE w == Window(reads, budget)
<1>3. w \in 0 .. Len(reads) /\ Good(w)
  BY <1>2, Zenon DEF Window
<1> HIDE DEF w
<1>4. \A k \in 1 .. w : reads[k].source = reads[1].source
  BY Zenon, <1>3 DEF FitsWindow
<1>5. ASSUME w # 0 PROVE EndOf(reads, w) \in Int /\ 0 < EndOf(reads, w) /\ EndOf(reads, w) < budget
  <2>1. w \in 1 .. w /\ w \in 1 .. Len(reads)
    BY SMTT(40), <1>1, <1>3, <1>5
  <2>2. FitsWindow(reads, budget, w)
    BY Zenon, <1>3, <2>1
  <2>3. EndOf(reads, w) \in Nat /\ EndOf(reads, w) > 0 /\ EndOf(reads, w) + 2 * Page <= budget
    BY Zenon, <2>1, <2>2, EndFacts DEF FitsWindow
  <2> QED BY SMTT(40), <2>3, RoomAssumption
<1> QED BY Zenon, <1>3, <1>4, <1>5 DEF w

\* The same job, apart from its host part.
SamePlan(j, n) ==
  /\ n.inflight = j.inflight /\ n.remaining = j.remaining /\ n.decoding = j.decoding
  /\ n.raw = j.raw /\ n.queued = j.queued /\ n.encoded = j.encoded /\ n.error = j.error

\* Preparing a job enqueues its host part and nothing else.
LEMMA PreparedFacts ==
  ASSUME NEW t \in Tasks, job[t] \in Job
  PROVE  Prepared(t) \in Job /\ SamePlan(job[t], Prepared(t))
<1> DEFINE h == IF plan[t].host THEN "pending" ELSE "none"
           j1 == [job[t] EXCEPT !.prepared = TRUE]
           j2 == [j1 EXCEPT !.host = h]
<1>1. h \in {"none", "pending", "fired"} /\ TRUE \in BOOLEAN
  OBVIOUS
<1>2. Prepared(t) = IF job[t].prepared THEN job[t] ELSE j2
  BY Zenon DEF Prepared
<1> HIDE DEF h
<1>3. j1 \in Job
  BY <1>1, JobPrepared, Zenon
<1>4. SamePlan(job[t], j2) /\ SamePlan(job[t], job[t])
  BY Zenon DEF SamePlan, Job
<1>5. j2 \in Job
  <2> HIDE DEF j1
  <2> QED BY <1>1, <1>3, JobHost, Zenon
<1> HIDE DEF j2
<1> QED BY Zenon, <1>2, <1>4, <1>5

\* What a slot is filled from: the job has work, a read is not behind a write and the other way
\* round, and an encoded window is begun only when there is none.
LEMMA SelectedFacts ==
  ASSUME QueueInvariant, NEW i \in DOMAIN jobs, CanSubmit(i)
  PROVE  /\ jobs[i] \in Tasks /\ In(jobs, jobs[i]) /\ job[jobs[i]] \in Job
         /\ HasWork(job[jobs[i]]) \/ (job[jobs[i]].encoded # <<>> /\ ~Decoding)
         /\ IsWrite(jobs[i]) => \A s \in Slots : ~(Busy(s) /\ IsWrite(slots[s].task))
         /\ ix \in Slots /\ slots[ix] = Empty
<1> USE DEF QueueInvariant, Rest
<1>1. jobs[i] \in Tasks /\ In(jobs, jobs[i]) /\ job[jobs[i]] \in Job /\ ix \in Slots
  BY Zenon, TypeFacts DEF In, QueueTypeOK
<1>2. slots[ix] = Empty
  BY Zenon, <1>1 DEF CanSubmit, SlotsAgree
<1>3. i \in Reads \/ i \in Writes
  BY Zenon DEF CanSubmit, Selected, First
<1>4. Eligible(jobs[i])
  BY Zenon, <1>3 DEF Reads, Writes
<1>5. IsWrite(jobs[i]) => ~Writing
  BY Zenon, <1>3 DEF Reads, Writes
<1> QED BY Zenon, <1>1, <1>2, <1>4, <1>5 DEF Eligible, Writing

\* Without a window the codec thread has nothing to do.
LEMMA IdleWindow ==
  ASSUME QueueInvariant, ~Decoding
  PROVE  /\ decode = NoDecode /\ decode.task = NoTask /\ NoTask \notin Tasks
         /\ codec.cmd = "none" /\ codec.reply = "none" /\ CarryingEncoded(slots) = {}
         /\ \A u \in Tasks : job[u].queued = 0 /\ ~job[u].decoding
<1> USE DEF QueueInvariant, Rest
<1>1. decode = NoDecode /\ decode.task = NoTask /\ NoTask \notin Tasks /\ decode.phase = "none"
  BY SMTT(40), TasksAssumption DEF WindowAgrees, NoDecode
<1>2. codec.cmd \in {"none", "prepare", "decode"}
  BY Zenon, CommandFacts
<1>3. codec.reply \in {"none", "prepared", "refused", "decoded", "broken"}
  BY Zenon DEF QueueTypeOK
<1>4. codec.cmd = "none" /\ codec.reply = "none"
  BY ZenonT(40), <1>1, <1>2, <1>3 DEF CodecAgrees
<1>5. CarryingEncoded(slots) = {}
  BY Zenon, <1>1 DEF CarryingEncoded, WindowAgrees, IsEncoded, Busy
<1>6. \A u \in Tasks : job[u].queued = 0 /\ ~job[u].decoding
  BY SMTT(40), <1>1, TypeFacts DEF WindowAgrees
<1> QED BY ZenonT(40), <1>1, <1>4, <1>5, <1>6

\* What submitting leaves of the turn and of the books.
LEMMA SubmitTurn ==
  ASSUME QueueInvariant, NEW i \in DOMAIN jobs, Rotate(i), UNCHANGED submitStays, reset' \in BOOLEAN
  PROVE  /\ TurnTypeOK' /\ SameJobs
         /\ UNCHANGED <<scope, answer, lease, permits, inbox, arena, scratch, moved, restored>>
<1>1. SameJobs /\ burst' \in Nat /\ ix' \in Slots /\ at' \in {at, "admit"}
  BY Zenon, RotateFacts
<1>2. TurnTypeOK'
  BY Zenon, <1>1 DEF TurnTypeOK, QueueInvariant, QueueTypeOK, submitStays, callers, sender
<1> QED BY Zenon, <1>1, <1>2 DEF submitStays, callers, sender, history

\* One job changes.
LEMMA OneJob ==
  ASSUME QueueInvariant, NEW t \in Tasks, In(jobs, t), NEW n \in Job, job' = [job EXCEPT ![t] = n]
  PROVE  /\ job' \in [Tasks -> Job] /\ job'[t] = n /\ \A u \in Tasks \ {t} : job'[u] = job[u]
         /\ \A u \in Tasks : ~In(jobs, u) => job'[u] = job[u]
<1>1. job \in [Tasks -> Job]
  BY Zenon DEF QueueInvariant, QueueTypeOK
<1> QED BY Zenon, <1>1

\* Decode::begin fails: its job fails, and the codec thread may have been started.
LEMMA BeginFails ==
  ASSUME CountingFacts, QueueInvariant, NEW i \in DOMAIN jobs, CanSubmit(i), ~HasWork(job[jobs[i]]),
         Rotate(i), UNCHANGED <<submitStays, reset, slots, decode>>,
         NEW started \in BOOLEAN, codec' = [codec EXCEPT !.st = IF @ = "none" /\ started THEN "up" ELSE @],
         job' = [job EXCEPT ![jobs[i]] = Fail(Prepared(jobs[i]))]
  PROVE  QueueInvariant'
<1> USE DEF QueueInvariant, Rest
<1> DEFINE t == jobs[i]
<1>1. t \in Tasks /\ In(jobs, t) /\ job[t] \in Job
  BY Zenon, SelectedFacts
<1>2. /\ TurnTypeOK' /\ SameJobs
      /\ UNCHANGED <<scope, answer, lease, permits, inbox, arena, scratch, moved, restored>>
  <2>1. reset' \in BOOLEAN
    BY Zenon DEF QueueTypeOK
  <2> QED BY ZenonT(40), <2>1, SubmitTurn
<1> HIDE DEF t
<1>3. Fail(Prepared(t)) \in Job /\ Weaker(job[t], Fail(Prepared(t)))
  <2>1. Prepared(t) \in Job /\ SamePlan(job[t], Prepared(t))
    BY Zenon, <1>1, PreparedFacts
  <2>2. Fail(Prepared(t)) \in Job /\ Weaker(Prepared(t), Fail(Prepared(t)))
    BY Zenon, <2>1, StoppedFacts DEF Fail
  <2>3. Weaker(job[t], Prepared(t))
    BY Zenon, <2>1 DEF SamePlan, Weaker
  <2> QED BY Zenon, <2>2, <2>3, WeakerTwice
<1>4. /\ job' \in [Tasks -> Job] /\ job'[t] = Fail(Prepared(t)) /\ \A u \in Tasks \ {t} : job'[u] = job[u]
      /\ \A u \in Tasks : ~In(jobs, u) => job'[u] = job[u]
  <2> DEFINE n == Fail(Prepared(t))
  <2>1. job' = [job EXCEPT ![t] = n]
    BY Zenon DEF t
  <2> HIDE DEF n
  <2>2. n \in Job
    BY Zenon, <1>3 DEF n
  <2>3. /\ job' \in [Tasks -> Job] /\ job'[t] = n /\ \A u \in Tasks \ {t} : job'[u] = job[u]
        /\ \A u \in Tasks : ~In(jobs, u) => job'[u] = job[u]
    BY <1>1, <2>1, <2>2, OneJob, ZenonT(40)
  <2> QED BY Zenon, <2>3 DEF n
<1>5. \A u \in Tasks : Weaker(job[u], job'[u])
  <2>1. \A u \in Tasks : Weaker(job[u], job[u])
    BY Zenon DEF Weaker
  <2> QED BY Zenon, <1>3, <1>4, <2>1
<1>6. /\ codec' \in CodecRecord /\ codec'.cmd = codec.cmd /\ codec'.reply = codec.reply
      /\ codec'.bytes = codec.bytes /\ codec'.budget = codec.budget /\ codec.budget \in Nat
      /\ codec'.st = codec.st \/ (codec.st = "none" /\ codec'.st = "up")
  <2>1. codec \in CodecRecord
    BY Zenon, TypesSplit DEF BooksTypeOK
  <2> DEFINE st == IF codec.st = "none" /\ started THEN "up" ELSE codec.st
  <2>2. st \in Stages /\ (st = codec.st \/ (codec.st = "none" /\ st = "up"))
    BY Zenon, <2>1 DEF CodecRecord, Stages
  <2>3. codec' = [codec EXCEPT !.st = st]
    OBVIOUS
  <2> HIDE DEF st
  <2>4. codec' \in CodecRecord
    BY <2>1, <2>2, <2>3, CodecSt, ZenonT(40)
  <2> QED BY ZenonT(40), <2>1, <2>2, <2>3, <2>4 DEF CodecRecord
<1>7. CodecAgrees' /\ CodecInBudget'
  <2>1. decode' = decode /\ arena' = arena /\ scratch' = scratch
    BY Zenon, <1>2
  <2>2. codec.st = "none" => arena = 0 /\ scratch = 0
    BY Zenon DEF CodecAgrees
  <2>3. CodecAgrees'
    BY Zenon, <1>6, <2>1 DEF CodecAgrees
  <2>4. CodecInBudget'
    BY SMTT(40), <1>6, <2>1, <2>2 DEF CodecInBudget
  <2> QED BY Zenon, <2>3, <2>4
<1>8. Rest'
  <2>1. UNCHANGED <<scope, answer, lease, permits, inbox, slots, decode, history>>
    BY Zenon, <1>2 DEF history
  <2> QED BY <1>2, <1>4, <1>5, <1>7, <2>1, JobsFrame, ZenonT(40)
<1>9. QueueTypeOK'
  <2>1. BooksTypeOK
    BY Zenon, TypesSplit
  <2>2. BooksTypeOK'
    BY Zenon, <1>2, <1>4, <1>6, <2>1 DEF BooksTypeOK, SameJobs
  <2> QED BY Zenon, <1>2, <2>2, TypesSplitNext
<1> QED BY Zenon, <1>8, <1>9

\* A job gives the first of its reads to its window.
GivesReads(j, m, reads) ==
  /\ m.inflight = j.inflight /\ m.remaining = j.remaining /\ m.raw = j.raw /\ m.error = j.error
  /\ m.decoding = TRUE /\ m.queued = 0
  /\ Len(m.encoded) \in Nat /\ Len(reads) \in Nat /\ Len(m.encoded) + Len(reads) = Len(j.encoded)

\* A window is opened for a job, and the codec thread asked to prepare it.
LEMMA WindowOpens ==
  ASSUME QueueInvariant, ~Decoding, NEW t \in Tasks, In(jobs, t), TurnTypeOK', SameJobs,
         UNCHANGED <<scope, answer, lease, permits, inbox, arena, scratch, moved, restored, slots>>,
         job' \in [Tasks -> Job], GivesReads(job[t], job'[t], decode'.reads),
         \A u \in Tasks \ {t} : job'[u] = job[u],
         decode' \in DecodeRecord, decode'.task = t, decode'.phase = "preparing",
         \A k \in DOMAIN decode'.reads : decode'.reads[k].source = decode'.reads[1].source,
         codec' \in CodecRecord, codec'.cmd = "prepare", codec'.reply = "none", codec'.st = "up",
         0 < codec'.bytes, codec'.bytes < codec'.budget
  PROVE  QueueInvariant'
<1> USE DEF QueueInvariant, Rest
<1>1. /\ decode.task = NoTask /\ NoTask \notin Tasks /\ CarryingEncoded(slots) = {}
      /\ \A u \in Tasks : job[u].queued = 0 /\ ~job[u].decoding
  BY Zenon, IdleWindow
<1>2. \A u \in Tasks : Keeps(job[u], job'[u])
  BY ZenonT(40) DEF Keeps, GivesReads
<1>3. WindowAgrees'
  <2>1. \A u \in Tasks : job'[u].decoding <=> u = t
    BY ZenonT(40), <1>1 DEF GivesReads
  <2>2. \A u \in Tasks : job'[u].queued = 0
    BY SMTT(40), <1>1 DEF GivesReads
  <2>3. \A s \in Slots : ~(slots[s].st # "idle" /\ slots[s].batch = 0)
    BY Zenon, <1>1 DEF CarryingEncoded
  <2>4. t # NoTask
    BY Zenon, <1>1
  <2> QED BY SMTT(40), <2>1, <2>2, <2>3, <2>4 DEF WindowAgrees, Decoding, DecodeTask, IsEncoded, Busy
<1>4. ReadsAgree'
  <2> SUFFICES ASSUME NEW u \in Tasks, In(jobs, u), job'[u].error = "none"
               PROVE  restored[u] + (IF t = u THEN Len(decode'.reads) ELSE 0) + Len(job'[u].encoded)
                        = Len(plan[u].encoded)
    <3>1. plan' = plan /\ restored' = restored /\ \A u \in Tasks : In(jobs', u) <=> In(jobs, u)
      BY Zenon DEF plan, SameJobs
    <3> QED BY Zenon, <3>1 DEF ReadsAgree, Live, InJobs
  <2>1. restored[u] \in Nat /\ Len(job[u].encoded) \in Nat
    <3>1. restored[u] \in Nat /\ job[u].encoded \in Seq(ReadRecord)
      BY Zenon, TypeFacts
    <3> QED BY SMTT(40), <3>1
  <2>2. job[u].error = "none"
    BY Zenon DEF GivesReads
  <2>3. restored[u] + 0 + Len(job[u].encoded) = Len(plan[u].encoded)
    BY Zenon, <1>1, <2>2 DEF ReadsAgree, Live, InJobs
  <2>4. CASE u = t
    <3> DEFINE a == Len(decode'.reads)
               c == Len(job'[t].encoded)
               l == Len(job[t].encoded)
               r == restored[t]
    <3>1. c \in Nat /\ a \in Nat /\ c + a = l
      BY Zenon DEF GivesReads
    <3>2. r \in Nat /\ r + 0 + l = Len(plan[t].encoded)
      BY ZenonT(40), <2>1, <2>3, <2>4
    <3> HIDE DEF a, c, l, r
    <3>3. r + a + c = Len(plan[t].encoded)
      BY SMTT(40), <3>1, <3>2
    <3>4. restored[t] + Len(decode'.reads) + Len(job'[t].encoded) = Len(plan[t].encoded)
      BY Zenon, <3>3 DEF a, c, r
    <3> QED BY Zenon, <2>4, <3>4
  <2>5. CASE u # t
    BY Zenon, <2>3, <2>5
  <2> QED BY Zenon, <2>4, <2>5
<1>5. CodecAgrees' /\ CodecInBudget'
  BY Zenon DEF CodecAgrees, CodecInBudget
<1>6. \A u \in Tasks : ~In(jobs, u) => job'[u] = job[u] /\ restored'[u] = restored[u]
  OBVIOUS
<1>7. Rest'
  BY ZenonT(40), <1>2, <1>3, <1>4, <1>5, <1>6, WorkFrame
<1>8. BooksTypeOK
  BY Zenon, TypesSplit
<1>9. BooksTypeOK'
  BY Zenon, <1>8 DEF BooksTypeOK, SameJobs
<1> QED BY Zenon, <1>7, <1>9, TypesSplitNext

\* A command to prepare a window.
Asked(c, bytes, budget) == [c EXCEPT !.cmd = "prepare", !.budget = budget, !.bytes = bytes]

\* What Decode::begin does to the job, the window and the codec thread.
Begins(t, n, ready) ==
  /\ job' = [job EXCEPT ![t] = [Prepared(t) EXCEPT
                                  !.decoding = TRUE, !.encoded = SubSeq(@, n + 1, Len(@))]]
  /\ decode' = [task |-> t, reads |-> SubSeq(job[t].encoded, 1, n), left |-> 0, phase |-> "preparing"]
  /\ codec' = Asked(ready, EndOf(job[t].encoded, n), plan[t].budget)

\* The command leaves the thread and its last reply as they were.
LEMMA AskedFacts ==
  ASSUME NEW c \in CodecRecord, NEW bytes \in Int, NEW budget \in Nat
  PROVE  /\ Asked(c, bytes, budget) \in CodecRecord /\ Asked(c, bytes, budget).cmd = "prepare"
         /\ Asked(c, bytes, budget).reply = c.reply /\ Asked(c, bytes, budget).st = c.st
         /\ Asked(c, bytes, budget).bytes = bytes /\ Asked(c, bytes, budget).budget = budget
<1>1. "prepare" \in Commands
  BY Zenon DEF Commands
<1>2. Asked(c, bytes, budget) \in CodecRecord
  BY <1>1, CodecCmd, CodecBudget, CodecBytes, ZenonT(40) DEF Asked
<1> QED BY Zenon, <1>2 DEF CodecRecord, Asked

\* Decode::begin: the window takes the first reads of its job.
LEMMA BeginSucceeds ==
  ASSUME CountingFacts, QueueInvariant, NEW i \in DOMAIN jobs, CanSubmit(i), ~HasWork(job[jobs[i]]),
         Rotate(i), UNCHANGED <<submitStays, reset, slots>>,
         NEW n \in Nat, n = Window(job[jobs[i]].encoded, plan[jobs[i]].budget), n # 0,
         NEW ready \in CodecRecord, ready.st = "up", ready.reply = codec.reply,
         Begins(jobs[i], n, ready)
  PROVE  QueueInvariant'
<1> USE DEF QueueInvariant, Rest
<1> DEFINE t == jobs[i]
           reads == job[t].encoded
           rest == SubSeq(reads, n + 1, Len(reads))
           first == SubSeq(reads, 1, n)
           j1 == [Prepared(t) EXCEPT !.decoding = TRUE]
           j2 == [j1 EXCEPT !.encoded = rest]
<1>1. t \in Tasks /\ In(jobs, t) /\ job[t] \in Job /\ ~Decoding /\ reads \in Seq(ReadRecord)
  BY Zenon, SelectedFacts, TypeFacts
<1>2. /\ TurnTypeOK' /\ SameJobs
      /\ UNCHANGED <<scope, answer, lease, permits, inbox, arena, scratch, moved, restored, slots>>
  <2>1. reset' \in BOOLEAN
    BY Zenon DEF QueueTypeOK
  <2> QED BY Zenon, <2>1, SubmitTurn
<1>3. /\ decode = NoDecode /\ decode.task = NoTask /\ NoTask \notin Tasks
      /\ codec.cmd = "none" /\ codec.reply = "none" /\ CarryingEncoded(slots) = {}
      /\ \A u \in Tasks : job[u].queued = 0 /\ ~job[u].decoding
  BY Zenon, <1>1, IdleWindow
<1>4. plan[t].budget \in Nat
  BY ZenonT(40), <1>1, PlanFacts DEF QueueTypeOK
<1>5. Prepared(t) \in Job /\ SamePlan(job[t], Prepared(t))
  BY ZenonT(40), <1>1, PreparedFacts
<1> HIDE DEF t, reads
<1>6. /\ n \in 1 .. Len(reads) /\ \A k \in 1 .. n : reads[k].source = reads[1].source
      /\ EndOf(reads, n) \in Int /\ 0 < EndOf(reads, n) /\ EndOf(reads, n) < plan[t].budget
  <2>1. n = Window(reads, plan[t].budget)
    BY Zenon DEF t, reads
  <2>2. /\ n \in 0 .. Len(reads) /\ \A k \in 1 .. n : reads[k].source = reads[1].source
        /\ EndOf(reads, n) \in Int /\ 0 < EndOf(reads, n) /\ EndOf(reads, n) < plan[t].budget
    BY ZenonT(40), <1>1, <1>4, <2>1, WindowChoice
  <2> QED BY SMTT(40), <1>1, <2>2
<1>7. /\ first \in Seq(ReadRecord) /\ rest \in Seq(ReadRecord)
      /\ Len(first) = n /\ Len(rest) = Len(reads) - n /\ DOMAIN first = 1 .. n
      /\ \A k \in 1 .. n : first[k] = reads[k]
  BY SMTT(40), <1>1, <1>6
<1>8. job' = [job EXCEPT ![t] = j2] /\ decode' = [task |-> t, reads |-> first, left |-> 0, phase |-> "preparing"]
  <2>1. Prepared(t).encoded = reads
    BY Zenon, <1>5 DEF SamePlan, reads
  <2>2. [Prepared(t) EXCEPT !.decoding = TRUE, !.encoded = SubSeq(@, n + 1, Len(@))]
          = [j1 EXCEPT !.encoded = SubSeq(Prepared(t).encoded, n + 1, Len(Prepared(t).encoded))]
    BY Zenon, <1>5 DEF Job
  <2> QED BY Zenon, <2>1, <2>2 DEF t, reads, Begins
<1> HIDE DEF first, rest
<1>9. j2 \in Job
  <2>1. TRUE \in BOOLEAN
    OBVIOUS
  <2>2. j1 \in Job
    BY <1>5, <2>1, JobDecoding, ZenonT(40)
  <2> HIDE DEF j1
  <2> QED BY <1>7, <2>2, JobEncoded, ZenonT(40)
<1>10. /\ j2.inflight = job[t].inflight /\ j2.remaining = job[t].remaining /\ j2.raw = job[t].raw
       /\ j2.error = job[t].error /\ j2.decoding = TRUE /\ j2.queued = 0 /\ j2.encoded = rest
  <2>1. /\ j2.inflight = Prepared(t).inflight /\ j2.remaining = Prepared(t).remaining
        /\ j2.raw = Prepared(t).raw /\ j2.error = Prepared(t).error /\ j2.decoding = TRUE
        /\ j2.queued = Prepared(t).queued /\ j2.encoded = rest
    BY Zenon, <1>5 DEF Job
  <2> QED BY ZenonT(40), <1>1, <1>3, <1>5, <2>1 DEF SamePlan
<1> HIDE DEF j2
<1>11. /\ job' \in [Tasks -> Job] /\ job'[t] = j2 /\ \A u \in Tasks \ {t} : job'[u] = job[u]
       /\ \A u \in Tasks : ~In(jobs, u) => job'[u] = job[u]
  BY <1>1, <1>8, <1>9, OneJob, ZenonT(40)
<1>12. /\ decode' \in DecodeRecord /\ decode'.task = t /\ decode'.reads = first /\ decode'.phase = "preparing"
  <2>1. 0 \in Int
    BY SMTT(40)
  <2>2. t \in Tasks /\ first \in Seq(ReadRecord)
    BY Zenon, <1>1, <1>7
  <2> QED BY ZenonT(40), <1>8, <2>1, <2>2 DEF DecodeRecord
<1>13. /\ codec' \in CodecRecord /\ codec'.cmd = "prepare" /\ codec'.reply = "none" /\ codec'.st = "up"
       /\ codec'.bytes = EndOf(reads, n) /\ codec'.budget = plan[t].budget
  <2>1. codec' = Asked(ready, EndOf(reads, n), plan[t].budget)
    BY ZenonT(40) DEF t, reads, Begins
  <2>2. EndOf(reads, n) \in Int /\ ready.reply = "none"
    BY ZenonT(40), <1>3, <1>6
  <2> DEFINE a == Asked(ready, EndOf(reads, n), plan[t].budget)
  <2>3. /\ a \in CodecRecord /\ a.cmd = "prepare" /\ a.reply = ready.reply /\ a.st = ready.st
        /\ a.bytes = EndOf(reads, n) /\ a.budget = plan[t].budget
    <3> HIDE DEF QueueInvariant, Rest
    <3>1. \A e \in Int, k \in Nat :
            /\ Asked(ready, e, k) \in CodecRecord /\ Asked(ready, e, k).cmd = "prepare"
            /\ Asked(ready, e, k).reply = ready.reply /\ Asked(ready, e, k).st = ready.st
            /\ Asked(ready, e, k).bytes = e /\ Asked(ready, e, k).budget = k
      BY ZenonT(40), AskedFacts
    <3> QED BY ZenonT(40), <1>4, <2>2, <3>1
  <2>4. codec' = a
    BY Zenon, <2>1
  <2> HIDE DEF a
  <2> QED BY ZenonT(40), <2>2, <2>3, <2>4
<1>14. Len(first) \in Nat /\ Len(rest) \in Nat /\ Len(rest) + Len(first) = Len(reads)
  BY SMTT(40), <1>1, <1>6, <1>7
<1>15. GivesReads(job[t], job'[t], decode'.reads)
  BY ZenonT(40), <1>10, <1>11, <1>12, <1>14 DEF GivesReads, reads
<1>16. \A k \in DOMAIN decode'.reads : decode'.reads[k].source = decode'.reads[1].source
  BY SMTT(40), <1>6, <1>7, <1>12
<1>17. 0 < codec'.bytes /\ codec'.bytes < codec'.budget
  BY ZenonT(40), <1>6, <1>13
<1> QED BY <1>1, <1>2, <1>11, <1>12, <1>13, <1>15, <1>16, <1>17, WindowOpens, ZenonT(40)

\* Decode::begin, whether it fails or not.
LEMMA BeginDecodeStep ==
  ASSUME CountingFacts, QueueInvariant, NEW i \in DOMAIN jobs, NEW started \in BOOLEAN, BeginDecode(i, started)
  PROVE  QueueInvariant'
<1> DEFINE t == jobs[i]
           n == Window(job[t].encoded, plan[t].budget)
           st == IF codec.st = "none" /\ started THEN "up" ELSE codec.st
           ready == [codec EXCEPT !.st = st]
<1>1. CanSubmit(i) /\ ~HasWork(job[t]) /\ Rotate(i) /\ UNCHANGED <<submitStays, reset, slots>>
  BY Zenon DEF BeginDecode
<1>2. /\ ready \in CodecRecord /\ ready.cmd = codec.cmd /\ ready.reply = codec.reply /\ ready.st = st
  <2>1. codec \in CodecRecord
    BY Zenon, TypesSplit DEF QueueInvariant, BooksTypeOK
  <2>2. st \in Stages
    BY Zenon, <2>1 DEF CodecRecord, Stages
  <2> HIDE DEF st
  <2>3. ready \in CodecRecord
    BY <2>1, <2>2, CodecSt, Zenon
  <2> QED BY Zenon, <2>1, <2>3 DEF CodecRecord
<1>3. CASE ready.st # "up" \/ ready.cmd # "none" \/ n = 0
  <2>1. /\ job' = [job EXCEPT ![t] = Fail(Prepared(t))]
        /\ codec' = [codec EXCEPT !.st = IF @ = "none" /\ started THEN "up" ELSE @]
        /\ decode' = decode
    BY Zenon, <1>3 DEF BeginDecode
  <2>2. UNCHANGED <<submitStays, reset, slots, decode>>
    BY Zenon, <1>1, <2>1
  <2> QED BY <1>1, <2>1, <2>2, BeginFails, Zenon
<1>4. CASE ~(ready.st # "up" \/ ready.cmd # "none" \/ n = 0)
  <2>1. Begins(t, n, ready)
    BY Zenon, <1>4 DEF BeginDecode, Begins, Asked
  <2>2. n \in Nat
    <3>1. t \in Tasks /\ job[t].encoded \in Seq(ReadRecord) /\ plan[t].budget \in Nat
      BY ZenonT(40), <1>1, SelectedFacts, TypeFacts, PlanFacts DEF QueueInvariant, QueueTypeOK
    <3>2. Window(job[t].encoded, plan[t].budget) \in 0 .. Len(job[t].encoded)
      BY <3>1, WindowChoice, Zenon
    <3>3. Len(job[t].encoded) \in Nat
      BY SMTT(40), <3>1
    <3> HIDE DEF t
    <3> QED BY SMTT(40), <3>2, <3>3
  <2>3. ready.st = "up" /\ n # 0
    BY Zenon, <1>4
  <2> HIDE DEF ready, n
  <2>4. n = Window(job[jobs[i]].encoded, plan[jobs[i]].budget)
    BY Zenon DEF n
  <2> QED BY <1>1, <1>2, <2>1, <2>2, <2>3, <2>4, BeginSucceeds, ZenonT(40)
<1> QED BY Zenon, <1>3, <1>4

-----------------------------------------------------------------------------
(* Filling a slot.                                                         *)

\* A job gives up its front batch: a raw one, or one of its window.
Gives(j, n, b) ==
  /\ n.remaining = j.remaining /\ n.decoding = j.decoding /\ n.encoded = j.encoded /\ n.error = j.error
  /\ \/ b \in j.raw /\ n.raw = j.raw \ {b} /\ n.queued = j.queued
     \/ b = 0 /\ n.raw = j.raw /\ j.queued > 0 /\ n.queued = j.queued - 1

\* The front batch of a job with work.
LEMMA PoppedFacts ==
  ASSUME CountingFacts, NEW j \in Job, HasWork(j), 0 \notin j.raw
  PROVE  /\ Popped(j) \in Job /\ Popped(j).inflight = j.inflight /\ Gives(j, Popped(j), FrontBatch(j))
         /\ FrontBatch(j) \in Nat
<1>1. j.raw \in SUBSET Nat /\ j.queued \in Int
  BY Zenon DEF Job
<1>2. CASE j.raw = {}
  <2> DEFINE q == j.queued - 1
             n == [j EXCEPT !.queued = q]
  <2>1. q \in Int /\ j.queued > 0
    BY SMTT(40), <1>1, <1>2 DEF HasWork
  <2>2. Popped(j) = n /\ FrontBatch(j) = 0
    BY Zenon, <1>2 DEF Popped, FrontBatch
  <2>3. n.inflight = j.inflight /\ Gives(j, n, 0)
    BY Zenon, <2>1 DEF Job, Gives
  <2>4. n \in Job
    <3> HIDE DEF q
    <3> QED BY <2>1, JobQueued, Zenon
  <2> HIDE DEF n
  <2> QED BY SMTT(40), <2>2, <2>3, <2>4
<1>3. CASE j.raw # {}
  <2> DEFINE b == FrontBatch(j)
             r == j.raw \ {b}
             n == [j EXCEPT !.raw = r]
  <2>1. b \in j.raw /\ b \in Nat
    <3>1. \E x \in j.raw : \A c \in j.raw : x <= c
      BY Zenon, <1>1, <1>3, LeastOfNats
    <3>2. b = CHOOSE x \in j.raw : \A c \in j.raw : x <= c
      BY Zenon, <1>3 DEF FrontBatch
    <3>3. b \in j.raw
      BY <3>1, <3>2, Zenon
    <3> QED BY Zenon, <1>1, <3>3
  <2>2. Popped(j) = n
    BY Zenon, <1>3 DEF Popped
  <2> HIDE DEF b
  <2>3. r \in SUBSET Nat
    BY Zenon, <1>1
  <2>4. n.inflight = j.inflight /\ Gives(j, n, b)
    BY Zenon, <2>1 DEF Job, Gives
  <2>5. n \in Job
    <3> HIDE DEF r
    <3> QED BY <2>3, JobRaw, Zenon
  <2> HIDE DEF n
  <2> QED BY Zenon, <2>1, <2>2, <2>4, <2>5 DEF b
<1> QED BY Zenon, <1>2, <1>3

\* The front batch of the job a slot is filled from.
LEMMA FrontFacts ==
  ASSUME CountingFacts, QueueInvariant, NEW t \in Tasks, HasWork(job[t])
  PROVE  /\ Popped(Prepared(t)) \in Job /\ Popped(Prepared(t)).inflight = job[t].inflight
         /\ Gives(job[t], Popped(Prepared(t)), FrontBatch(job[t])) /\ FrontBatch(job[t]) \in Nat
<1>1. job[t] \in Job /\ scope \in Scopes
  BY Zenon, TypeFacts DEF QueueInvariant, QueueTypeOK
<1>2. 0 \notin job[t].raw
  <2>1. BatchIds(plan[t]) \in SUBSET (Nat \ {0})
    BY Zenon, <1>1, PlanFacts
  <2>2. job[t].raw \subseteq BatchIds(plan[t]) \ moved[t]
    BY Zenon DEF QueueInvariant, Rest, BatchesAgree
  <2> QED BY Zenon, <2>1, <2>2
<1> DEFINE j == Prepared(t)
<1>3. j \in Job /\ SamePlan(job[t], j)
  BY Zenon, <1>1, PreparedFacts
<1> HIDE DEF j
<1>4. HasWork(j) /\ 0 \notin j.raw /\ FrontBatch(j) = FrontBatch(job[t])
  BY SMTT(40), <1>2, <1>3 DEF SamePlan, HasWork, FrontBatch
<1>5. /\ Popped(j) \in Job /\ Popped(j).inflight = j.inflight /\ Gives(j, Popped(j), FrontBatch(j))
      /\ FrontBatch(j) \in Nat
  BY Zenon, <1>3, <1>4, PoppedFacts
<1>6. Gives(job[t], Popped(j), FrontBatch(j))
  BY Zenon, <1>3, <1>5 DEF Gives, SamePlan
<1> QED BY Zenon, <1>3, <1>4, <1>5, <1>6 DEF j, SamePlan

\* GpuSlot::submit fails: nothing of the batch remains, and its job fails.
LEMMA SubmitFails ==
  ASSUME CountingFacts, QueueInvariant, NEW i \in DOMAIN jobs, CanSubmit(i), HasWork(job[jobs[i]]),
         Rotate(i), UNCHANGED <<submitStays, slots, decode, codec>>, reset' = TRUE,
         job' = [job EXCEPT ![jobs[i]] = Fail(Popped(Prepared(jobs[i])))]
  PROVE  QueueInvariant'
<1> DEFINE t == jobs[i]
           p == Popped(Prepared(t))
           n == Fail(p)
<1>1. t \in Tasks /\ In(jobs, t) /\ job[t] \in Job
  BY Zenon, SelectedFacts
<1>2. /\ TurnTypeOK' /\ SameJobs
      /\ UNCHANGED <<scope, answer, lease, permits, inbox, arena, scratch, moved, restored>>
  <2>1. reset' \in BOOLEAN
    OBVIOUS
  <2> QED BY Zenon, <2>1, SubmitTurn
<1>3. p \in Job /\ p.inflight = job[t].inflight /\ Gives(job[t], p, FrontBatch(job[t]))
  BY Zenon, <1>1, FrontFacts
<1>4. job' = [job EXCEPT ![t] = n]
  OBVIOUS
<1> HIDE DEF t, p
<1>5. n \in Job /\ n.error # "none"
  BY Zenon, <1>3, StoppedFacts DEF Fail
<1>6. /\ n.inflight = p.inflight /\ n.remaining = p.remaining /\ n.decoding = p.decoding
      /\ n.raw = {} /\ n.queued = 0 /\ n.encoded = <<>>
  BY Zenon, <1>3 DEF Fail, Stopped, Job
<1> HIDE DEF n
<1>7. Weaker(job[t], n)
  BY Zenon, <1>3, <1>5, <1>6 DEF Weaker, Gives
<1>8. /\ job' \in [Tasks -> Job] /\ job'[t] = n /\ \A u \in Tasks \ {t} : job'[u] = job[u]
      /\ \A u \in Tasks : ~In(jobs, u) => job'[u] = job[u]
  BY <1>1, <1>4, <1>5, OneJob, Zenon
<1>9. \A u \in Tasks : Weaker(job[u], job'[u])
  <2>1. \A u \in Tasks : Weaker(job[u], job[u])
    BY Zenon DEF Weaker
  <2> QED BY Zenon, <1>7, <1>8, <2>1
<1>10. UNCHANGED <<scope, answer, lease, permits, inbox, slots, decode, codecs, history>>
  BY ZenonT(40), <1>2 DEF codecs, history
<1> QED BY <1>2, <1>8, <1>9, <1>10, JobsStep, Zenon

\* A slot takes a batch of a job.
Fills(old, new, s, t, b) ==
  Emptied(new, old, s) /\ new[s].st = "io" /\ new[s].task = t /\ new[s].batch = b

\* Of the batches of a task, what is in a slot is no longer left to submit.
LEMMA BatchFills ==
  ASSUME CountingFacts, QueueInvariant, NEW t \in Tasks, In(jobs, t), NEW s \in Slots, NEW b \in Nat, SameJobs,
         Fills(slots, slots', s, t, b), Gives(job[t], job'[t], b),
         \A u \in Tasks \ {t} : job'[u] = job[u], UNCHANGED <<scope, moved>>
  PROVE  BatchesAgree'
<1> USE DEF QueueInvariant, Rest, InJobs
<1>1. plan' = plan /\ moved' = moved /\ \A u \in Tasks : In(jobs', u) <=> In(jobs, u)
  BY ZenonT(40) DEF plan, SameJobs
<1>2. /\ slots'[s].st = "io" /\ slots'[s].task = t /\ slots'[s].batch = b
      /\ slots[s].st = "idle" /\ slots[s].task = NoTask /\ NoTask \notin Tasks
      /\ \A r \in Slots \ {s} : slots'[r] = slots[r]
  BY SMTT(40), TasksAssumption DEF Fills, Emptied, Empty
<1>3. b # 0 => b \in job[t].raw
  BY Zenon DEF Gives
<1>4. \A u \in Tasks : job'[u].raw \subseteq job[u].raw /\ job'[u].error = job[u].error
  BY ZenonT(40) DEF Gives
<1>5. \A r \in Slots : slots'[r].st # "idle" /\ slots'[r].batch # 0 =>
        slots'[r].batch \in BatchIds(plan[slots'[r].task]) \ moved[slots'[r].task]
  <2> SUFFICES ASSUME NEW r \in Slots, slots'[r].st # "idle", slots'[r].batch # 0
               PROVE  slots'[r].batch \in BatchIds(plan[slots'[r].task]) \ moved[slots'[r].task]
    BY Zenon
  <2>1. CASE r = s
    <3>1. b \in job[t].raw /\ job[t].raw \subseteq BatchIds(plan[t]) \ moved[t]
      BY ZenonT(40), <1>2, <1>3, <2>1 DEF BatchesAgree
    <3>2. slots'[r].task = t /\ slots'[r].batch = b
      BY Zenon, <1>2, <2>1
    <3> QED BY Zenon, <3>1, <3>2
  <2>2. CASE r # s
    <3>1. slots'[r] = slots[r]
      BY Zenon, <1>2, <2>2
    <3>2. slots[r].batch \in BatchIds(plan[slots[r].task]) \ moved[slots[r].task]
      BY Zenon, <3>1 DEF BatchesAgree, Busy
    <3> QED BY Zenon, <3>1, <3>2
  <2> QED BY Zenon, <2>1, <2>2
<1>6. ASSUME NEW r \in Slots \ {s}, slots'[r].task = t
      PROVE  slots'[r].batch \notin job[t].raw
  <2>1. slots'[r] = slots[r] /\ slots[r].task = t
    BY ZenonT(40), <1>2, <1>6
  <2>2. slots[r].batch \notin job[t].raw
    BY Zenon, <2>1 DEF BatchesAgree
  <2> QED BY Zenon, <2>1, <2>2
<1>7. ASSUME NEW r \in Slots, NEW q \in Slots, slots'[r].st # "idle", slots'[r].batch # 0,
             slots'[r].task = slots'[q].task, slots'[r].batch = slots'[q].batch
      PROVE  r = q
  <2>1. CASE r = s
    BY ZenonT(40), <1>2, <1>3, <1>6, <1>7, <2>1
  <2>2. CASE q = s
    BY ZenonT(40), <1>2, <1>3, <1>6, <1>7, <2>2
  <2>3. CASE r # s /\ q # s
    <3>1. slots'[r] = slots[r] /\ slots'[q] = slots[q]
      BY Zenon, <1>2, <2>3
    <3>2. /\ Busy(r) /\ slots[r].batch # 0
          /\ slots[r].task = slots[q].task /\ slots[r].batch = slots[q].batch
      BY Zenon, <1>7, <3>1 DEF Busy
    <3> QED BY Zenon, <3>2 DEF BatchesAgree
  <2> QED BY Zenon, <2>1, <2>2, <2>3
<1>8. \A u \in Tasks : moved[u] \subseteq BatchIds(plan[u]) /\ job'[u].raw \subseteq BatchIds(plan[u]) \ moved[u]
  BY Zenon, <1>4 DEF BatchesAgree
<1>9. ASSUME NEW u \in Tasks, NEW r \in Slots, slots'[r].task = u
      PROVE  slots'[r].batch \notin job'[u].raw
  <2>1. CASE r = s
    <3>1. u = t /\ slots'[r].batch = b
      BY ZenonT(40), <1>2, <1>9, <2>1
    <3>2. 0 \notin job[t].raw
      <4>1. scope \in Scopes
        BY Zenon DEF QueueTypeOK
      <4>2. BatchIds(plan[t]) \in SUBSET (Nat \ {0})
        BY ZenonT(40), <4>1, PlanFacts
      <4> QED BY ZenonT(40), <4>2 DEF BatchesAgree
    <3> QED BY Zenon, <3>1, <3>2 DEF Gives
  <2>2. CASE r # s
    <3>1. slots'[r] = slots[r] /\ slots[r].task = u
      BY Zenon, <1>2, <1>9, <2>2
    <3>2. slots[r].batch \notin job[u].raw
      BY Zenon, <3>1 DEF BatchesAgree
    <3> QED BY Zenon, <1>4, <3>1, <3>2
  <2> QED BY Zenon, <2>1, <2>2
<1>10. ASSUME NEW u \in Tasks, In(jobs, u), job'[u].error = "none", NEW c \in BatchIds(plan[u]) \ moved[u],
              c \notin job'[u].raw
       PROVE  \E r \in Slots : slots'[r].task = u /\ slots'[r].batch = c
  <2>1. job[u].error = "none"
    BY ZenonT(40), <1>4, <1>10
  <2>2. c \in job[u].raw \/ \E r \in Slots : slots[r].task = u /\ slots[r].batch = c
    <3>1. Live(u)
      BY Zenon, <1>10, <2>1 DEF Live
    <3> QED BY ZenonT(40), <1>10, <3>1 DEF BatchesAgree
  <2>3. CASE c \in job[u].raw
    <3>1. u = t /\ c = b
      BY Zenon, <1>10, <2>3 DEF Gives
    <3> QED BY Zenon, <1>2, <3>1
  <2>4. ASSUME NEW r \in Slots, slots[r].task = u, slots[r].batch = c
        PROVE  slots'[r].task = u /\ slots'[r].batch = c
    BY ZenonT(40), <1>2, <2>4
  <2> QED BY ZenonT(40), <2>2, <2>3, <2>4
<1>11. /\ \A r \in Slots : Busy(r)' => slots'[r].st # "idle"
       /\ \A u \in Tasks : Live(u)' => In(jobs, u) /\ job'[u].error = "none"
  BY Zenon, <1>1 DEF Busy, Live
<1> HIDE DEF QueueInvariant, Rest, InJobs
<1>12. \A r \in Slots : Busy(r)' /\ slots'[r].batch # 0 =>
         slots'[r].batch \in BatchIds(plan'[slots'[r].task]) \ moved'[slots'[r].task]
  BY Zenon, <1>1, <1>5, <1>11
<1>13. \A r, q \in Slots :
         Busy(r)' /\ slots'[r].batch # 0 /\ slots'[r].task = slots'[q].task /\ slots'[r].batch = slots'[q].batch
           => r = q
  BY Zenon, <1>7, <1>11
<1>14. ASSUME NEW u \in Tasks, Live(u)', NEW c \in BatchIds(plan'[u]) \ moved'[u]
       PROVE  c \in job'[u].raw \/ \E r \in Slots : slots'[r].task = u /\ slots'[r].batch = c
  <2>1. In(jobs, u) /\ job'[u].error = "none" /\ c \in BatchIds(plan[u]) \ moved[u]
    BY ZenonT(40), <1>1, <1>11, <1>14
  <2> QED BY ZenonT(40), <1>10, <2>1
<1>15. \A u \in Tasks : moved'[u] \subseteq BatchIds(plan'[u]) /\ job'[u].raw \subseteq BatchIds(plan'[u]) \ moved'[u]
  BY Zenon, <1>1, <1>8
<1> QED BY ZenonT(40), <1>9, <1>12, <1>13, <1>14, <1>15 DEF BatchesAgree

\* A read of the window moves from its queue into a slot, and is still counted.
LEMMA WindowFills ==
  ASSUME CountingFacts, QueueInvariant, NEW t \in Tasks, NEW s \in Slots, NEW b \in Nat,
         Fills(slots, slots', s, t, b), Gives(job[t], job'[t], b),
         \A u \in Tasks \ {t} : job'[u] = job[u], UNCHANGED <<scope, decode>>
  PROVE  WindowAgrees'
<1> USE DEF QueueInvariant, Rest
<1>1. /\ slots'[s].st = "io" /\ slots'[s].task = t /\ slots'[s].batch = b
      /\ \A r \in Slots \ {s} : slots'[r] = slots[r]
  BY Zenon DEF Fills, Emptied
<1>2. 0 \notin job[t].raw
  <2>1. scope \in Scopes
    BY Zenon DEF QueueTypeOK
  <2>2. BatchIds(plan[t]) \in SUBSET (Nat \ {0})
    BY Zenon, <2>1, PlanFacts
  <2> QED BY Zenon, <2>2 DEF BatchesAgree
<1>3. \/ b # 0 /\ job'[t].queued = job[t].queued
      \/ b = 0 /\ job[t].queued > 0 /\ job'[t].queued = job[t].queued - 1
  BY Zenon, <1>2 DEF Gives
<1>4. \A u \in Tasks : job[u].queued \in Int
  BY Zenon, TypeFacts
<1>5. \A u \in Tasks : job'[u].decoding = job[u].decoding /\ job'[u].error = job[u].error
  BY Zenon DEF Gives
<1>6. /\ Cardinality(CarryingEncoded(slots)) \in Nat
      /\ b = 0 => Cardinality(CarryingEncoded(slots')) = Cardinality(CarryingEncoded(slots)) + 1
      /\ b # 0 => CarryingEncoded(slots') = CarryingEncoded(slots)
  <2>1. Emptied(slots', slots, s) /\ slots'[s].st # "idle" /\ slots'[s].task \in Tasks /\ slots'[s].batch = b
    BY Zenon, <1>1 DEF Fills
  <2>2. /\ Cardinality(CarryingEncoded(slots)) \in Nat
        /\ slots'[s].batch = 0 => Cardinality(CarryingEncoded(slots')) = Cardinality(CarryingEncoded(slots)) + 1
        /\ slots'[s].batch # 0 => CarryingEncoded(slots) = CarryingEncoded(slots')
    BY <2>1, EmptiedFacts, ZenonT(40)
  <2> QED BY Zenon, <2>1, <2>2
<1>7. \A u \in Tasks : job'[u].queued >= 0 /\ (job'[u].queued > 0 => job[u].queued > 0)
  <2> SUFFICES ASSUME NEW u \in Tasks
               PROVE  job'[u].queued >= 0 /\ (job'[u].queued > 0 => job[u].queued > 0)
    BY Zenon
  <2>1. job[u].queued >= 0 /\ job[u].queued \in Int
    BY Zenon, <1>4 DEF WindowAgrees
  <2>2. CASE job'[u].queued = job[u].queued
    BY Zenon, <2>1, <2>2
  <2>3. CASE job[u].queued > 0 /\ job'[u].queued = job[u].queued - 1
    <3> HIDE DEF QueueInvariant, Rest
    <3> QED BY SMTT(40), <2>1, <2>3
  <2> QED BY Zenon, <1>3, <2>2, <2>3
<1>8. \A u \in Tasks : job'[u].decoding <=> decode.task = u
  BY Zenon, <1>5 DEF WindowAgrees
<1>9. \A u \in Tasks : job'[u].queued > 0 =>
        decode.task = u /\ decode.phase = "reading" /\ job'[u].error = "none"
  BY ZenonT(40), <1>5, <1>7 DEF WindowAgrees
<1>10. b = 0 => decode.task = t /\ decode.phase = "reading"
  BY Zenon, <1>3 DEF WindowAgrees
<1>11. \A r \in Slots : slots'[r].st # "idle" /\ slots'[r].batch = 0 =>
         slots'[r].task = decode.task /\ decode.phase = "reading"
  BY ZenonT(40), <1>1, <1>10 DEF WindowAgrees, IsEncoded, Busy
<1>12. ASSUME decode.phase = "reading"
       PROVE  Cardinality(CarryingEncoded(slots')) + job'[decode.task].queued <= decode.left
  <2>1. decode.task \in Tasks /\ decode.left \in Int
    BY Zenon, <1>12, WindowTask, TypeFacts
  <2>2. Cardinality(CarryingEncoded(slots)) + job[decode.task].queued <= decode.left
    BY ZenonT(40), <1>12 DEF WindowAgrees, EncodedSlots, DecodeTask
  <2>3. CASE b = 0
    <3> DEFINE c == Cardinality(CarryingEncoded(slots))
    <3>1. job'[decode.task].queued = job[decode.task].queued - 1
      BY Zenon, <1>3, <1>10, <2>3
    <3>2. Cardinality(CarryingEncoded(slots')) = c + 1 /\ c \in Nat /\ c + job[decode.task].queued <= decode.left
      BY ZenonT(40), <1>6, <2>2, <2>3
    <3> HIDE DEF c
    <3> QED BY SMTT(40), <1>4, <2>1, <3>1, <3>2
  <2>4. CASE b # 0
    <3>1. job'[decode.task].queued = job[decode.task].queued
      BY ZenonT(40), <1>3, <2>1, <2>4
    <3> QED BY ZenonT(40), <1>6, <2>2, <2>4, <3>1
  <2> QED BY Zenon, <2>3, <2>4
<1>13. decode' = decode
  OBVIOUS
<1>14. /\ ~Decoding => decode = NoDecode
       /\ Decoding => decode.phase # "none"
       /\ \A k \in DOMAIN decode.reads : decode.reads[k].source = decode.reads[1].source
  BY Zenon DEF WindowAgrees
<1> HIDE DEF QueueInvariant, Rest
<1>15. /\ \A r \in Slots : IsEncoded(r)' => slots'[r].st # "idle" /\ slots'[r].batch = 0
       /\ EncodedSlots' = CarryingEncoded(slots') /\ DecodeTask' = decode.task
       /\ Decoding' <=> Decoding
  BY Zenon, <1>13 DEF IsEncoded, Busy, EncodedSlots, DecodeTask, Decoding
<1> QED BY ZenonT(120), <1>7, <1>8, <1>9, <1>11, <1>12, <1>13, <1>14, <1>15 DEF WindowAgrees

\* A slot takes a batch of a job, which counts it.
LEMMA SlotFillsStep ==
  ASSUME CountingFacts, QueueInvariant, NEW t \in Tasks, In(jobs, t), NEW s \in Slots, NEW b \in Nat,
         TurnTypeOK', SameJobs,
         Fills(slots, slots', s, t, b), slots' \in [Slots -> Slot],
         job' \in [Tasks -> Job], Gives(job[t], job'[t], b), job'[t].inflight = job[t].inflight + 1,
         \A u \in Tasks \ {t} : job'[u] = job[u],
         IsWrite(t) => \A r \in Slots : ~(Busy(r) /\ IsWrite(slots[r].task)),
         UNCHANGED <<scope, answer, lease, permits, inbox, arena, scratch, moved, restored, decode, codec>>
  PROVE  QueueInvariant'
<1> USE DEF QueueInvariant, Rest, InJobs
<1>1. /\ slots'[s].st = "io" /\ slots'[s].task = t /\ slots'[s].batch = b
      /\ slots[s].st = "idle" /\ slots[s].task = NoTask
      /\ \A r \in Slots \ {s} : slots'[r] = slots[r]
  BY SMTT(40) DEF Fills, Emptied, Empty
<1>2. plan' = plan /\ \A u \in Tasks : In(jobs', u) <=> In(jobs, u)
  BY Zenon DEF plan, SameJobs
<1>3. QueuesAgree'
  <2>1. \A i \in DOMAIN inbox : inbox[i] # Drain => inbox[i] \in Tasks
    BY Zenon, TypeFacts
  <2> QED BY Zenon, <2>1 DEF QueuesAgree, Waiting, SameJobs
<1>4. OutsideIsFresh'
  BY Zenon, <1>2 DEF OutsideIsFresh
<1>5. SlotsAgree'
  <2>1. Emptied(slots', slots, s) /\ slots'[s].st # "idle" /\ slots'[s].task \in Tasks /\ slots'[s].task = t
    BY Zenon, <1>1 DEF Fills
  <2>2. /\ Cardinality(Carrying(slots', t)) = Cardinality(Carrying(slots, t)) + 1
        /\ \A u \in Tasks : u # t => Carrying(slots, u) = Carrying(slots', u)
    <3> DEFINE new == slots'
    <3>0. Emptied(new, slots, s) /\ new[s].st # "idle" /\ new[s].task \in Tasks
      BY ZenonT(40), <2>1
    <3> HIDE DEF new
    <3>1. /\ Cardinality(Carrying(new, new[s].task)) = Cardinality(Carrying(slots, new[s].task)) + 1
          /\ \A u \in Tasks : u # new[s].task => Carrying(slots, u) = Carrying(new, u)
      BY SMTT(40), <3>0, EmptiedFacts
    <3>2. new[s].task = t /\ new = slots'
      BY Zenon, <2>1 DEF new
    <3> QED BY <3>1, <3>2, Zenon
  <2>3. \A u \in Tasks : job'[u].inflight = Cardinality(Carrying(slots', u))
    BY Zenon, <2>2 DEF SlotsAgree, SlotsOf
  <2>4. \A r \in Slots : slots'[r].st # "idle" => slots'[r].task \in Tasks /\ In(jobs', slots'[r].task)
    BY ZenonT(40), <1>1, <1>2 DEF SlotsAgree, Busy
  <2>5. \A r \in Slots : slots'[r].st = "idle" => slots'[r] = Empty
    BY Zenon, <1>1 DEF SlotsAgree, Busy
  <2> QED BY ZenonT(40), <2>3, <2>4, <2>5 DEF SlotsAgree, Busy, SlotsOf
<1>6. BatchesAgree'
  BY Zenon, BatchFills
<1>7. WindowAgrees'
  BY Zenon, WindowFills
<1>8. \A u \in Tasks : /\ job'[u].error = job[u].error /\ job'[u].remaining = job[u].remaining
                       /\ job'[u].encoded = job[u].encoded
  BY Zenon DEF Gives
<1>9. ExtentsAgree'
  <2> SUFFICES ASSUME NEW u \in Tasks, NEW e \in Extents PROVE ExtentAgrees(u, e)'
    BY Zenon DEF ExtentsAgree
  <2>1. ExtentAgrees(u, e)
    BY Zenon DEF ExtentsAgree
  <2> QED BY ZenonT(40), <1>2, <1>8, <2>1 DEF ExtentAgrees, Live, Waiting
<1>10. ReadsAgree'
  BY Zenon, <1>2, <1>8 DEF ReadsAgree, Live
<1>11. CodecAgrees' /\ CodecInBudget'
  BY Zenon DEF CodecAgrees, CodecInBudget
<1>12. OneWrite'
  <2> SUFFICES ASSUME NEW q \in Slots, NEW r \in Slots, slots'[q].st # "idle", slots'[r].st # "idle",
                      plan[slots'[q].task].write, plan[slots'[r].task].write
               PROVE  q = r
    BY Zenon, <1>2 DEF OneWrite, Busy, IsWrite
  <2>1. CASE q = s \/ r = s
    BY ZenonT(40), <1>1, <2>1 DEF Busy, IsWrite
  <2>2. CASE q # s /\ r # s
    BY SMTT(40), <1>1, <2>2 DEF OneWrite, Busy, IsWrite
  <2> QED BY Zenon, <2>1, <2>2
<1>13. CommitsAreWhole' BY Zenon, <1>2 DEF CommitsAreWhole, Waiting
<1>14. SuccessIsComplete' BY Zenon, <1>2 DEF SuccessIsComplete
<1>15. PermitsReturn' BY Zenon, <1>2 DEF PermitsReturn, Waiting, IsWrite
<1>16. QueueTypeOK'
  <2>1. BooksTypeOK
    BY Zenon, TypesSplit
  <2>2. BooksTypeOK'
    BY Zenon, <2>1 DEF BooksTypeOK, SameJobs
  <2> QED BY Zenon, <2>2, TypesSplitNext
<1> QED BY ZenonT(40), <1>3, <1>4, <1>5, <1>6, <1>7, <1>9, <1>10, <1>11, <1>12, <1>13, <1>14, <1>15, <1>16

\* GpuSlot::submit, whether it fails or not.
LEMMA SubmitBatchStep ==
  ASSUME CountingFacts, QueueInvariant, NEW i \in DOMAIN jobs, NEW ok \in BOOLEAN, SubmitBatch(i, ok)
  PROVE  QueueInvariant'
<1> DEFINE t == jobs[i]
           b == FrontBatch(job[t])
           p == Popped(Prepared(t))
           n == [p EXCEPT !.inflight = p.inflight + 1]
           x == [st |-> "io", task |-> t, batch |-> b, fired |-> FALSE]
<1>1. CanSubmit(i) /\ HasWork(job[t]) /\ Rotate(i) /\ UNCHANGED <<submitStays, decode, codec>>
  BY Zenon DEF SubmitBatch
<1>2. CASE ~ok
  <2>1. job' = [job EXCEPT ![jobs[i]] = Fail(Popped(Prepared(jobs[i])))] /\ reset' = TRUE /\ slots' = slots
    BY Zenon, <1>2 DEF SubmitBatch
  <2>2. UNCHANGED <<submitStays, slots, decode, codec>>
    BY Zenon, <1>1, <2>1
  <2> QED BY <1>1, <2>1, <2>2, SubmitFails, ZenonT(40)
<1>3. CASE ok
  <2>1. job' = [job EXCEPT ![t] = n] /\ slots' = [slots EXCEPT ![ix] = x] /\ reset' = reset
    BY Zenon, <1>3 DEF SubmitBatch
  <2>2. /\ t \in Tasks /\ In(jobs, t) /\ job[t] \in Job /\ ix \in Slots /\ slots[ix] = Empty
        /\ IsWrite(t) => \A r \in Slots : ~(Busy(r) /\ IsWrite(slots[r].task))
    BY Zenon, <1>1, SelectedFacts
  <2>3. /\ TurnTypeOK' /\ SameJobs
        /\ UNCHANGED <<scope, answer, lease, permits, inbox, arena, scratch, moved, restored>>
    <3>1. reset' \in BOOLEAN /\ UNCHANGED submitStays
      BY ZenonT(40), <1>1, <2>1 DEF QueueInvariant, QueueTypeOK
    <3> QED BY Zenon, <1>1, <3>1, SubmitTurn
  <2>4. p \in Job /\ p.inflight = job[t].inflight /\ Gives(job[t], p, b) /\ b \in Nat
    BY ZenonT(40), <1>1, <2>2, FrontFacts
  <2> HIDE DEF t, b, p
  <2>5. p.inflight + 1 \in Int
    BY SMTT(40), <2>4 DEF Job
  <2>6. /\ n.inflight = p.inflight + 1 /\ n.remaining = p.remaining /\ n.decoding = p.decoding
        /\ n.encoded = p.encoded /\ n.error = p.error /\ n.raw = p.raw /\ n.queued = p.queued
    BY Zenon, <2>4 DEF Job
  <2>7. n \in Job
    BY <2>4, <2>5, JobInflight, Zenon
  <2>8. x \in Slot /\ x.st = "io" /\ x.task = t /\ x.batch = b
    BY Zenon, <2>2, <2>4 DEF Slot
  <2> HIDE DEF n, x
  <2>9. Gives(job[t], n, b) /\ n.inflight = job[t].inflight + 1
    BY ZenonT(40), <2>4, <2>6 DEF Gives
  <2>10. /\ job' \in [Tasks -> Job] /\ job'[t] = n /\ \A u \in Tasks \ {t} : job'[u] = job[u]
         /\ \A u \in Tasks : ~In(jobs, u) => job'[u] = job[u]
    BY <2>1, <2>2, <2>7, OneJob, ZenonT(40)
  <2>11. slots \in [Slots -> Slot]
    BY Zenon DEF QueueInvariant, QueueTypeOK
  <2>12. slots' \in [Slots -> Slot] /\ slots'[ix] = x /\ \A r \in Slots \ {ix} : slots'[r] = slots[r]
    BY ZenonT(40), <2>1, <2>2, <2>8, <2>11
  <2>13. Fills(slots, slots', ix, t, b)
    BY Zenon, <2>2, <2>8, <2>12 DEF Fills, Emptied
  <2>14. UNCHANGED <<scope, answer, lease, permits, inbox, arena, scratch, moved, restored, decode, codec>>
    BY Zenon, <1>1, <2>3
  <2>15. Gives(job[t], job'[t], b) /\ job'[t].inflight = job[t].inflight + 1
    BY Zenon, <2>9, <2>10
  <2> QED BY <2>2, <2>3, <2>4, <2>10, <2>12, <2>13, <2>14, <2>15, SlotFillsStep, ZenonT(40)
<1> QED BY Zenon, <1>2, <1>3

-----------------------------------------------------------------------------
(* The invariant of the lane.                                              *)

\* Before the first command nothing is held.
LEMMA QueueInitOK ==
  ASSUME CountingFacts, QueueInit
  PROVE  QueueInvariant
<1> USE DEF QueueInit
<1>1. \A t \in Tasks : ~In(jobs, t)
  BY SMTT(40) DEF In
<1>2. DOMAIN inbox = {} /\ DOMAIN jobs = {} /\ DOMAIN decode.reads = {}
  BY SMTT(40) DEF NoDecode
<1>3. \A s \in Slots : slots[s] = Empty /\ slots[s].st = "idle" /\ slots[s].task = NoTask /\ slots[s].batch = 0
  BY Zenon DEF Empty
<1>4. Cardinality({}) = 0
  BY Zenon, NoneCounted
<1>5. QueueTypeOK
  <2>1. NoJob \in Job
    BY SMTT(40) DEF NoJob, Job, Counters
  <2>2. TurnTypeOK
    <3>1. ix \in Slots
      BY SMTT(40), RoomAssumption DEF Slots
    <3>2. gone \in SUBSET Tasks /\ taken \in Nat /\ burst \in Nat
      OBVIOUS
    <3>3. /\ pool \in {"open", "closed", "dropped"} /\ drained \in {"no", "asked", "done"}
          /\ at \in {"admit", "poll", "slots", "decode", "reap", "submit", "exited", "parked"}
      OBVIOUS
    <3>4. closed \in BOOLEAN /\ reset \in BOOLEAN /\ made \in BOOLEAN
      BY Zenon
    <3> QED BY <3>1, <3>2, <3>3, <3>4, ZenonT(40) DEF TurnTypeOK
  <2>3. NoDecode \in DecodeRecord
    BY Zenon, NoDecodeType
  <2>4. Empty \in Slot
    BY Zenon DEF Empty, Slot
  <2>5. NoCodec \in CodecRecord
    BY SMTT(40) DEF NoCodec, CodecRecord
  <2>6. answer \in [Tasks -> Answers] /\ lease \in [Tasks -> Leases] /\ permits \in Permits
    BY SMTT(40), RoomAssumption DEF Answers, Leases, Permits
  <2>7. BooksTypeOK
    BY SMTT(40), <2>1, <2>3, <2>4, <2>5, <2>6 DEF BooksTypeOK
  <2> QED BY ZenonT(40), <2>2, <2>7, TypesSplit
<1>6. QueuesAgree /\ OutsideIsFresh
  BY Zenon, <1>1, <1>2 DEF QueuesAgree, OutsideIsFresh, Distinct, InJobs
<1>7. SlotsAgree
  <2>1. \A t \in Tasks : Carrying(slots, t) = {}
    BY Zenon, <1>3, TasksAssumption DEF Carrying
  <2>2. \A t \in Tasks : job[t].inflight = 0
    BY Zenon DEF NoJob
  <2>3. \A t \in Tasks : job[t].inflight = Cardinality(Carrying(slots, t))
    BY <1>4, <2>1, <2>2, ZenonT(40)
  <2> QED BY <1>3, <2>3, Zenon DEF SlotsAgree, Busy, SlotsOf
<1>8. BatchesAgree
  <2>1. \A t \in Tasks : job[t].raw = {} /\ moved[t] = {}
    BY Zenon DEF NoJob
  <2> QED BY Zenon, <1>1, <1>3, <2>1 DEF BatchesAgree, Busy, Live, InJobs
<1>9. ExtentsAgree /\ ReadsAgree
  <2>1. \A t \in Tasks : answer[t] = "new" /\ \A e \in Extents : lease[t][e] = "none"
    OBVIOUS
  <2>2. ExtentsAgree
    BY Zenon, <1>1, <2>1 DEF ExtentsAgree, ExtentAgrees, Live, InJobs, Waiting
  <2>3. ReadsAgree
    BY ZenonT(40), <1>1 DEF ReadsAgree, Live, InJobs
  <2> QED BY Zenon, <2>2, <2>3
<1>10. WindowAgrees
  <2>1. \A t \in Tasks : job[t].queued = 0 /\ job[t].decoding = FALSE
    BY Zenon DEF NoJob
  <2>2. decode = NoDecode /\ decode.task = NoTask /\ decode.phase = "none"
    BY Zenon DEF NoDecode
  <2> QED BY SMTT(40), <1>2, <1>3, <2>1, <2>2, TasksAssumption DEF WindowAgrees, Decoding, IsEncoded, Busy
<1>11. CodecAgrees /\ CodecInBudget
  BY SMTT(40) DEF CodecAgrees, CodecInBudget, NoCodec
<1>12. OneWrite
  BY Zenon, <1>3 DEF OneWrite, Busy
<1>13. CommitsAreWhole /\ SuccessIsComplete
  BY Zenon DEF CommitsAreWhole, SuccessIsComplete
<1>14. PermitsReturn
  <2>1. {t \in Tasks : Waiting(t) /\ ~IsWrite(t)} = {} /\ {t \in Tasks : Waiting(t) /\ IsWrite(t)} = {}
    BY Zenon DEF Waiting
  <2>2. permits.load = LoadRoom - 0 /\ permits.save = SaveRoom - 0
    BY SMTT(40), RoomAssumption
  <2> QED BY <1>4, <2>1, <2>2, ZenonT(40) DEF PermitsReturn
<1> QED BY ZenonT(40), <1>5, <1>6, <1>7, <1>8, <1>9, <1>10, <1>11, <1>12, <1>13, <1>14 DEF QueueInvariant, Rest

\* Every step of the pool, the two threads and the device keeps the invariant.
LEMMA QueueNextOK ==
  ASSUME CountingFacts, QueueInvariant, [QueueNext]_queueVars
  PROVE  QueueInvariant'
<1>1. CASE UNCHANGED queueVars
  <2>1. UNCHANGED booked /\ UNCHANGED <<gone, pool, drained, at, ix, taken, closed, burst, reset, made>>
    BY Zenon, <1>1 DEF queueVars, booked, callers, sender, turn, codecs, history
  <2>2. Rest'
    BY ZenonT(40), <2>1, TurnFrame DEF QueueInvariant
  <2>3. QueueTypeOK'
    BY SMTT(40), <2>1 DEF QueueInvariant, QueueTypeOK, booked, codecs, history
  <2> QED BY ZenonT(40), <2>2, <2>3 DEF QueueInvariant
<1>2. ASSUME NEW t \in Tasks, SubmitTask(t) \/ CloseConsumer(t) \/ HostFires(t) PROVE QueueInvariant'
  BY ZenonT(40), <1>2, SubmitTaskStep, QuietStep, HostFiresStep DEF Quiet
<1>3. CASE DrainPool \/ DropPool
  BY Zenon, <1>3, DrainPoolStep, QuietStep DEF Quiet
<1>4. CASE CodecStep \/ CodecDies \/ CodecParks
  BY Zenon, <1>4, CodecSteps
<1>5. CASE SlotScatters \/ \E s \in Slots : SlotFires(s)
  BY Zenon, <1>5, SlotMovesStep
<1>6. CASE QueueParks
  BY Zenon, <1>6, QuietStep DEF Quiet
<1>7. CASE TurnStep
  <2>1. CASE Admit
    BY Zenon, <2>1, AdmitDrain, AdmitTask
  <2>2. CASE Disconnect \/ EndAdmit \/ SlotWaits \/ PollNothing \/ SubmitNothing
    BY Zenon, <2>2, QuietStep DEF Quiet
  <2>3. CASE PollJobs
    BY Zenon, <2>3, PollJobsStep
  <2>4. ASSUME NEW ok \in BOOLEAN, SlotEnds(ok) PROVE QueueInvariant'
    BY Zenon, <2>4, SlotEndsStep
  <2>5. ASSUME NEW n \in 0 .. MaxBatches, PollPrepared(n) PROVE QueueInvariant'
    BY Zenon, <2>5, PollPreparedStep
  <2>6. CASE PollCompleted \/ PollDisconnected \/ PollReading
    BY Zenon, <2>6, PollCompletedStep, PollDisconnectedStep, PollReadingStep
  <2>7. CASE EndReapIdle
    BY ZenonT(40), <2>7, EndReapIdleStep
  <2>8. ASSUME NEW created \in BOOLEAN, EndReap(created) PROVE QueueInvariant'
    BY Zenon, <2>8, EndReapStep
  <2>9. ASSUME NEW i \in DOMAIN jobs, FinishJob(i) \/ PrepareFails(i) PROVE QueueInvariant'
    BY Zenon, <2>9, FinishJobStep, PrepareFailsStep
  <2>10. ASSUME NEW i \in DOMAIN jobs, NEW ok \in BOOLEAN, BeginDecode(i, ok) \/ SubmitBatch(i, ok)
         PROVE QueueInvariant'
    BY ZenonT(40), <2>10, BeginDecodeStep, SubmitBatchStep
  <2> QED BY ZenonT(40), <1>5, <1>7, <2>1, <2>2, <2>3, <2>4, <2>5, <2>6, <2>7, <2>8, <2>9, <2>10 DEF TurnStep
<1> QED BY ZenonT(40), <1>1, <1>2, <1>3, <1>4, <1>5, <1>6, <1>7 DEF QueueNext

\* What the invariant says of the device, the arena and the codec thread.
LEMMA QueueIsSafe == ASSUME CountingFacts, QueueInvariant PROVE LaneIsSafe
<1> USE DEF QueueInvariant, Rest
<1>1. PagesHeld
  <2>1. \A s \in Slots : Busy(s) => InJobs(slots[s].task) /\ Waiting(slots[s].task)
    BY ZenonT(30) DEF SlotsAgree, QueuesAgree
  <2>2. \A t \in Tasks : job[t].host # "none" \/ job[t].decoding => InJobs(t) /\ Waiting(t)
    BY SMTT(40) DEF OutsideIsFresh, QueuesAgree, NoJob
  <2>3. \A t \in Tasks : job[t].inflight = Cardinality(SlotsOf(t))
    BY Zenon DEF SlotsAgree
  <2>4. Decoding => job[DecodeTask].decoding
    BY ZenonT(30), TypeFacts DEF Decoding, DecodeTask, WindowAgrees
  <2> QED BY ZenonT(30), <2>1, <2>2, <2>3, <2>4 DEF PagesHeld
<1>2. ArenaIsStable
  <2>1. codec.cmd \in {"none", "prepare", "decode"} /\ codec.reply \in {"none", "prepared", "refused", "decoded", "broken"}
    BY ZenonT(30), CommandFacts DEF QueueTypeOK
  <2>2. codec.cmd # "none" \/ codec.reply # "none" => decode.phase \in {"preparing", "decoding"}
    BY ZenonT(40), <2>1 DEF CodecAgrees
  <2>3. decode.phase # "none" => Decoding
    BY SMTT(40) DEF WindowAgrees, NoDecode
  <2>4. ASSUME EncodedSlots # {}
        PROVE  /\ decode.phase = "reading"
               /\ \A s \in EncodedSlots : slots[s].task = DecodeTask
               /\ Cardinality(EncodedSlots) <= decode.left
    <3>1. \A s \in EncodedSlots : s \in Slots /\ slots[s].task = decode.task /\ decode.phase = "reading"
      BY ZenonT(30) DEF EncodedSlots, CarryingEncoded, WindowAgrees, IsEncoded, Busy
    <3>2. decode.phase = "reading"
      BY ZenonT(30), <2>4, <3>1
    <3>3. /\ Cardinality(EncodedSlots) + job[decode.task].queued <= decode.left
          /\ decode.task \in Tasks
      BY ZenonT(40), <3>2, WindowTask DEF WindowAgrees, DecodeTask
    <3>4. /\ job[decode.task].queued >= 0 /\ job[decode.task].queued \in Int /\ decode.left \in Int
      BY ZenonT(30), <3>3, TypeFacts DEF WindowAgrees
    <3>5. Cardinality(EncodedSlots) \in Nat
      BY ZenonT(30), SlotSets DEF EncodedSlots, CarryingEncoded
    <3> QED BY SMTT(40), <3>1, <3>2, <3>3, <3>4, <3>5 DEF DecodeTask
  <2>5. \A k \in DOMAIN decode.reads : decode.reads[k].source = decode.reads[1].source
    BY Zenon DEF WindowAgrees
  <2> QED BY ZenonT(40), <2>2, <2>3, <2>4, <2>5 DEF ArenaIsStable, Answering
<1> QED BY ZenonT(30), <1>1, <1>2 DEF LaneIsSafe
-----------------------------------------------------------------------------
(* The theorems.                                                           *)

Counting == INSTANCE OperatorTheorems

\* The facts on finite sets and sums that the steps assume.
LEMMA CountingHolds == CountingFacts
<1>1. \A S : Counting!IsFiniteSet(S) <=> IsFiniteSet(S)
  BY Zenon DEF IsFiniteSet, Counting!IsFiniteSet
<1>2. \A S : Counting!Cardinality(S) = Cardinality(S)
  BY Zenon DEF Cardinality, Counting!Cardinality
<1>3. \A r, n : Counting!Partial(r, n) = Partial(r, n)
  BY Zenon DEF Partial, Counting!Partial
<1> USE Counting!CountingHolds DEF Counting!CountingFacts, Counting!FiniteFacts
<1>4. \A n \in Int : IsFiniteSet(1 .. n)
  BY ZenonT(40), <1>1
<1>5. \A S : IsFiniteSet(S) => \A T \in SUBSET S : IsFiniteSet(T)
  BY ZenonT(40), <1>1
<1>6. IsFiniteSet({}) /\ Cardinality({}) = 0
  BY ZenonT(40), <1>1, <1>2
<1>7. \A S : IsFiniteSet(S) => Cardinality(S) \in Nat /\ (Cardinality(S) = 0 <=> S = {})
  BY ZenonT(40), <1>1, <1>2
<1>8. \A S : \A x : IsFiniteSet(S) /\ x \notin S =>
                      IsFiniteSet(S \cup {x}) /\ Cardinality(S \cup {x}) = Cardinality(S) + 1
  BY ZenonT(40), <1>1, <1>2
<1>9. \A T \in SUBSET Nat : T # {} => \E x \in T : \A y \in T : x <= y
  BY Zenon
<1>10. ASSUME NEW n \in Nat, NEW r, \A i \in 1 .. n : r[i] \in Nat
       PROVE  /\ Partial(r, n) \in [0 .. n -> Nat]
              /\ Partial(r, n)[0] = 0
              /\ \A i \in 1 .. n : Partial(r, n)[i] = Partial(r, n)[i - 1] + r[i]
  <2>1. /\ Counting!Partial(r, n) \in [0 .. n -> Nat]
        /\ Counting!Partial(r, n)[0] = 0
        /\ \A i \in 1 .. n : Counting!Partial(r, n)[i] = Counting!Partial(r, n)[i - 1] + r[i]
    BY ZenonT(40), <1>10
  <2>2. Counting!Partial(r, n) = Partial(r, n)
    BY ZenonT(40), <1>3
  <2> HIDE Counting!CountingHolds DEF Counting!CountingFacts, Counting!FiniteFacts
  <2> QED BY ZenonT(40), <2>1, <2>2
<1> QED BY ZenonT(40), <1>4, <1>5, <1>6, <1>7, <1>8, <1>9, <1>10 DEF CountingFacts, FiniteFacts

\* The invariant holds of every behaviour of the lane.
THEOREM QueueInvariantHolds == QueueSpec => []QueueInvariant
<1>1. QueueInit => QueueInvariant
  BY ZenonT(40), QueueInitOK, CountingHolds
<1>2. QueueInvariant /\ [QueueNext]_queueVars => QueueInvariant'
  BY ZenonT(40), QueueNextOK, CountingHolds
<1> QED BY <1>1, <1>2, PTL DEF QueueSpec

\* Whatever the interleaving of the queue thread, the codec thread, the device and the callers,
\* and whichever calls fail: what the device touches belongs to a job the queue holds, the arena
\* is stable while batches scatter into it, at most one write is in flight and the codec thread
\* stays inside its budget (run, GpuSlot::submit, decode::run).
THEOREM LaneStaysSafe == QueueSpec => []LaneIsSafe
<1>1. QueueInvariant => LaneIsSafe
  BY ZenonT(40), QueueIsSafe, CountingHolds
<1> QED BY <1>1, QueueInvariantHolds, PTL

\* A caller that is told its task succeeded has every batch moved, every encoded read decoded and
\* every extent published; no extent is published early, and a permit is out exactly for every
\* task not yet answered (Job::complete, Job::finish).
THEOREM AnswersStayTrue == QueueSpec => []AnswersAreTrue
<1>1. QueueInvariant => AnswersAreTrue
  BY SMTT(40) DEF QueueInvariant, Rest, AnswersAreTrue
<1> QED BY <1>1, QueueInvariantHolds, PTL
=============================================================================
