--------------------------- MODULE SsdQueueSteps ----------------------------
(***************************************************************************)
(* The decode window of the GPU-direct SSD lane, from its preparation to   *)
(* its end, and the batches that end in a staging slot.                    *)
(***************************************************************************)
EXTENDS SsdQueueProofs

-----------------------------------------------------------------------------
(* The window.                                                             *)

\* The job of the window is in the deque; encoded slots are counted.
LEMMA WindowFacts ==
  ASSUME CountingFacts, QueueInvariant, Decoding
  PROVE  /\ decode.task \in Tasks /\ In(jobs, decode.task) /\ job[decode.task].decoding
         /\ job[decode.task] \in Job /\ decode.phase # "none"
         /\ Cardinality(CarryingEncoded(slots)) \in Nat
         /\ Cardinality(CarryingEncoded(slots)) = 0 => CarryingEncoded(slots) = {}
         /\ decode.phase # "reading" => CarryingEncoded(slots) = {} /\ job[decode.task].queued = 0
<1> USE DEF QueueInvariant, Rest
<1>1. decode.task \in Tasks /\ job[decode.task].decoding /\ decode.phase # "none"
  BY Zenon, TypeFacts DEF Decoding, WindowAgrees
<1>2. In(jobs, decode.task)
  <2>1. NoJob.decoding = FALSE
    BY Zenon DEF NoJob
  <2> QED BY Zenon, <1>1, <2>1 DEF OutsideIsFresh, InJobs
<1>3. CarryingEncoded(slots) \in SUBSET Slots
  BY Zenon DEF CarryingEncoded
<1>4. /\ Cardinality(CarryingEncoded(slots)) \in Nat
      /\ Cardinality(CarryingEncoded(slots)) = 0 => CarryingEncoded(slots) = {}
  BY Zenon, <1>3, SlotSets, NoneCounted
<1>5. decode.phase # "reading" => CarryingEncoded(slots) = {}
  BY Zenon DEF CarryingEncoded, WindowAgrees, IsEncoded, Busy
<1>6. job[decode.task].queued \in Int /\ job[decode.task] \in Job
  BY Zenon, <1>1, TypeFacts
<1>7. decode.phase # "reading" => job[decode.task].queued = 0
  BY SMTT(40), <1>1, <1>6 DEF WindowAgrees
<1> QED BY Zenon, <1>1, <1>2, <1>4, <1>5, <1>6, <1>7

\* No window is a window record.
LEMMA NoDecodeType == NoDecode \in DecodeRecord
<1>1. \A r \in Seq(ReadRecord) : [task |-> NoTask, reads |-> r, left |-> 0, phase |-> "none"] \in DecodeRecord
  BY SMTT(40) DEF DecodeRecord
<1>2. <<>> \in Seq(ReadRecord)
  OBVIOUS
<1> QED BY <1>1, <1>2, Zenon DEF NoDecode

\* A window that is given up or done leaves no read behind.
LEMMA WindowCloses ==
  ASSUME CountingFacts, QueueInvariant, Decoding, NEW j \in Job, Weaker(job[decode.task], j), EndDecode(j),
         j.queued = 0, CarryingEncoded(slots) = {}, TurnTypeOK',
         codec' \in CodecRecord, codec'.cmd = "none", codec'.reply = "none",
         codec'.st = codec.st, codec'.budget = codec.budget, codec.cmd = "none",
         restored' \in [Tasks -> Nat], \A u \in Tasks : u # decode.task => restored'[u] = restored[u],
         j.error = "none" =>
           j.encoded = job[decode.task].encoded /\ restored'[decode.task] = restored[decode.task] + Len(decode.reads),
         UNCHANGED <<scope, answer, lease, permits, inbox, jobs, slots, arena, scratch, moved>>
  PROVE  QueueInvariant'
<1> USE DEF QueueInvariant, Rest
<1> DEFINE d == decode.task
           n == [j EXCEPT !.decoding = FALSE]
<1>1. /\ d \in Tasks /\ In(jobs, d) /\ job[d].decoding /\ job \in [Tasks -> Job] /\ job[d] \in Job
  BY Zenon, WindowFacts DEF QueueTypeOK
<1>2. job' = [job EXCEPT ![d] = n] /\ decode' = NoDecode
  BY Zenon DEF EndDecode, DecodeTask
<1>3. n \in Job
  <2>1. FALSE \in BOOLEAN
    OBVIOUS
  <2> QED BY <2>1, JobDecoding, Zenon
<1>4. /\ n.inflight = j.inflight /\ n.remaining = j.remaining /\ n.raw = j.raw /\ n.error = j.error
      /\ n.queued = j.queued /\ n.encoded = j.encoded /\ n.decoding = FALSE
  BY Zenon DEF Job
<1> HIDE DEF n, d
<1>5. job' \in [Tasks -> Job] /\ job'[d] = n /\ \A u \in Tasks \ {d} : job'[u] = job[u]
  BY Zenon, <1>1, <1>2, <1>3
<1>6. decode'.task = NoTask /\ decode'.phase = "none" /\ decode'.reads = <<>>
  BY Zenon, <1>2 DEF NoDecode
<1>7. \A u \in Tasks : Keeps(job[u], job'[u])
  BY SMTT(40), <1>4, <1>5 DEF Keeps, Weaker, d
<1>8. \A u \in Tasks : ~In(jobs, u) => job'[u] = job[u] /\ restored'[u] = restored[u]
  BY Zenon, <1>1, <1>5 DEF d
<1>9. SameJobs
  BY Zenon DEF SameJobs, QueueTypeOK, QueuesAgree
<1>10. WindowAgrees'
  <2>1. \A u \in Tasks : ~job'[u].decoding
    BY SMTT(40), <1>4, <1>5 DEF WindowAgrees, d
  <2>2. \A u \in Tasks : job'[u].queued = 0
    BY SMTT(40), <1>4, <1>5, TypeFacts DEF WindowAgrees, d
  <2>3. \A s \in Slots : ~(slots[s].st # "idle" /\ slots[s].batch = 0)
    BY Zenon DEF CarryingEncoded
  <2>4. NoTask \notin Tasks /\ DOMAIN decode'.reads = {}
    BY SMTT(40), <1>6, TasksAssumption
  <2> QED BY SMTT(40), <1>2, <1>6, <2>1, <2>2, <2>3, <2>4 DEF WindowAgrees, Decoding, DecodeTask, IsEncoded, Busy
<1>11. ReadsAgree'
  <2> SUFFICES ASSUME NEW u \in Tasks, In(jobs, u), job'[u].error = "none"
               PROVE  restored'[u] + 0 + Len(job'[u].encoded) = Len(plan[u].encoded)
    BY Zenon, <1>6, TasksAssumption DEF ReadsAgree, Live, InJobs, plan
  <2>1. CASE u = d
    <3>1. job[d].error = "none" /\ n.encoded = job[d].encoded /\ restored'[d] = restored[d] + Len(decode.reads)
      BY Zenon, <1>4, <1>5, <2>1 DEF Weaker, d
    <3>2. restored[d] + Len(decode.reads) + Len(job[d].encoded) = Len(plan[d].encoded)
      BY Zenon, <1>1, <3>1 DEF ReadsAgree, Live, InJobs, d
    <3>3. restored[d] \in Nat /\ Len(decode.reads) \in Nat /\ Len(job[d].encoded) \in Nat
      BY SMTT(40), <1>1, TypeFacts
    <3> QED BY SMTT(40), <1>5, <2>1, <3>1, <3>2, <3>3
  <2>2. CASE u # d
    <3>1. restored[u] + 0 + Len(job[u].encoded) = Len(plan[u].encoded)
      BY Zenon, <1>5, <2>2 DEF ReadsAgree, Live, InJobs, d
    <3> QED BY Zenon, <1>5, <2>2, <3>1 DEF d
  <2> QED BY Zenon, <2>1, <2>2
<1>12. CodecAgrees'
  BY Zenon, <1>6 DEF CodecAgrees
<1>13. CodecInBudget'
  BY Zenon DEF CodecInBudget
<1>14. Rest'
  BY Zenon, <1>7, <1>8, <1>9, <1>10, <1>11, <1>12, <1>13, WorkFrame
<1>15. QueueTypeOK'
  <2>1. NoDecode \in DecodeRecord
    BY Zenon, NoDecodeType
  <2>2. BooksTypeOK
    BY Zenon, TypesSplit
  <2>3. BooksTypeOK'
    BY Zenon, <1>2, <1>5, <2>1, <2>2 DEF BooksTypeOK
  <2> QED BY Zenon, <2>3, TypesSplitNext
<1> QED BY Zenon, <1>14, <1>15

\* What polling the codec thread leaves of the turn.
LEMMA PollTurn ==
  ASSUME QueueInvariant, at' = "reap", UNCHANGED decodeStays
  PROVE  /\ TurnTypeOK'
         /\ UNCHANGED <<scope, answer, lease, permits, inbox, jobs, slots, arena, scratch, moved>>
BY Zenon DEF QueueInvariant, QueueTypeOK, TurnTypeOK, decodeStays, callers, sender

\* A reply that was taken.
LEMMA TakenFacts ==
  ASSUME codec \in CodecRecord, codec' = [codec EXCEPT !.reply = "none"]
  PROVE  /\ codec' \in CodecRecord /\ codec'.reply = "none" /\ codec'.cmd = codec.cmd
         /\ codec'.st = codec.st /\ codec'.budget = codec.budget /\ codec'.bytes = codec.bytes
<1>1. "none" \in Replies
  BY Zenon DEF Replies
<1>2. codec' \in CodecRecord
  BY <1>1, CodecReply, Zenon
<1> QED BY Zenon, <1>2 DEF CodecRecord

\* A window gives up before its reads are known, after its decode failed, or without a thread.
LEMMA GivingUp ==
  ASSUME CountingFacts, QueueInvariant, Decoding, at' = "reap", UNCHANGED <<decodeStays, restored>>,
         NEW j \in {job[decode.task], Fail(job[decode.task])}, j.error # "none", EndDecode(j),
         CarryingEncoded(slots) = {}, codec' \in CodecRecord,
         codec'.cmd = "none", codec'.reply = "none", codec'.st = codec.st,
         codec'.budget = codec.budget, codec.cmd = "none"
  PROVE  QueueInvariant'
<1>1. decode.task \in Tasks /\ job[decode.task] \in Job /\ job[decode.task].queued \in Int
  BY Zenon, WindowFacts, TypeFacts DEF QueueInvariant
<1>2. j \in Job /\ Weaker(job[decode.task], j)
  BY SMTT(40), <1>1, StoppedFacts DEF Fail, Weaker
<1>3. j.queued = 0
  <2>1. job[decode.task].error # "none" => job[decode.task].queued = 0
    BY SMTT(40), <1>1 DEF QueueInvariant, Rest, WindowAgrees
  <2> QED BY Zenon, <1>2, <2>1 DEF Weaker
<1>4. restored' \in [Tasks -> Nat] /\ \A u \in Tasks : restored'[u] = restored[u]
  BY Zenon DEF QueueInvariant, QueueTypeOK
<1>5. /\ TurnTypeOK'
      /\ UNCHANGED <<scope, answer, lease, permits, inbox, jobs, slots, arena, scratch, moved>>
  BY Zenon, PollTurn
<1> QED BY Zenon, <1>2, <1>3, <1>4, <1>5, WindowCloses

\* A window keeps going: the codec thread is asked, or its batches are queued.
LEMMA WindowGoesOn ==
  ASSUME CountingFacts, QueueInvariant, Decoding, at' = "reap", UNCHANGED <<decodeStays, restored>>,
         job' \in [Tasks -> Job], \A u \in Tasks : Keeps(job[u], job'[u]),
         \A u \in Tasks : job'[u].encoded = job[u].encoded /\ job'[u].decoding = job[u].decoding,
         \A u \in Tasks \ {decode.task} : job'[u] = job[u],
         job'[decode.task].queued >= 0,
         job'[decode.task].queued > 0 => decode'.phase = "reading" /\ job'[decode.task].error = "none",
         decode' \in DecodeRecord, decode'.task = decode.task, decode'.reads = decode.reads,
         decode'.phase # "none", CarryingEncoded(slots) # {} => decode'.phase = "reading",
         decode'.phase = "reading" =>
           Cardinality(CarryingEncoded(slots)) + job'[decode.task].queued <= decode'.left,
         codec' \in CodecRecord, CodecAgrees', CodecInBudget'
  PROVE  QueueInvariant'
<1> USE DEF QueueInvariant, Rest
<1>1. decode.task \in Tasks /\ In(jobs, decode.task)
  BY Zenon, WindowFacts
<1>2. /\ TurnTypeOK'
      /\ UNCHANGED <<scope, answer, lease, permits, inbox, jobs, slots, arena, scratch, moved>>
  BY Zenon, PollTurn
<1>3. WindowAgrees'
  <2>1. \A u \in Tasks : job'[u].decoding <=> decode'.task = u
    BY Zenon DEF WindowAgrees
  <2>2. \A u \in Tasks : job'[u].queued >= 0
    BY Zenon DEF WindowAgrees
  <2>3. \A u \in Tasks : job'[u].queued > 0 =>
          decode'.task = u /\ decode'.phase = "reading" /\ job'[u].error = "none"
    BY Zenon DEF WindowAgrees
  <2>4. \A s \in Slots : slots[s].st # "idle" /\ slots[s].batch = 0 =>
          slots[s].task = decode'.task /\ decode'.phase = "reading"
    BY Zenon DEF WindowAgrees, IsEncoded, Busy, CarryingEncoded
  <2>5. \A k \in DOMAIN decode'.reads : decode'.reads[k].source = decode'.reads[1].source
    BY SMTT(40) DEF WindowAgrees
  <2> QED BY ZenonT(40), <1>2, <2>1, <2>2, <2>3, <2>4, <2>5
          DEF WindowAgrees, Decoding, DecodeTask, IsEncoded, Busy, EncodedSlots
<1>4. ReadsAgree'
  BY Zenon, <1>2 DEF ReadsAgree, Live, InJobs, plan, Keeps
<1>5. SameJobs
  BY Zenon, <1>2 DEF SameJobs, QueueTypeOK, QueuesAgree
<1>6. Rest'
  BY Zenon, <1>1, <1>2, <1>3, <1>4, <1>5, WorkFrame
<1>7. BooksTypeOK'
  <2>1. BooksTypeOK
    BY Zenon, TypesSplit
  <2> QED BY Zenon, <1>2, <2>1 DEF BooksTypeOK
<1> QED BY Zenon, <1>2, <1>6, <1>7, TypesSplitNext

\* The command of the codec thread is one of three, as the type invariant has it.
LEMMA CommandFacts == QueueTypeOK => codec.cmd \in {"none", "prepare", "decode"}
BY Zenon DEF QueueTypeOK

\* One field of the window at a time.
LEMMA DecodeLeft == ASSUME NEW c \in DecodeRecord, NEW x \in Int PROVE [c EXCEPT !.left = x] \in DecodeRecord
BY Zenon DEF DecodeRecord

\* A window may be in any phase.
LEMMA DecodePhase ==
  ASSUME NEW c \in DecodeRecord, NEW x \in {"none", "preparing", "reading", "decoding"}
  PROVE  [c EXCEPT !.phase = x] \in DecodeRecord
BY Zenon DEF DecodeRecord

\* The codec thread has answered: its arena is ready or refused.
LEMMA PollPreparedStep ==
  ASSUME CountingFacts, QueueInvariant, NEW n \in 0 .. MaxBatches, PollPrepared(n)
  PROVE  QueueInvariant'
<1> USE DEF QueueInvariant, Rest
<1> DEFINE d == decode.task
<1>1. /\ at' = "reap" /\ Decoding /\ UNCHANGED <<decodeStays, restored>>
      /\ codec' = [codec EXCEPT !.reply = "none"] /\ codec.reply \in {"prepared", "refused"}
  BY Zenon DEF PollPrepared
<1>2. /\ decode.phase = "preparing" /\ codec.cmd = "none"
  BY Zenon, <1>1, CommandFacts DEF CodecAgrees
<1>3. /\ codec \in CodecRecord /\ codec' \in CodecRecord /\ codec'.reply = "none" /\ codec'.cmd = "none"
      /\ codec'.st = codec.st /\ codec'.budget = codec.budget /\ codec'.bytes = codec.bytes
  <2>1. codec \in CodecRecord
    BY Zenon, TypesSplit DEF BooksTypeOK
  <2> QED BY Zenon, <1>1, <1>2, <2>1, TakenFacts
<1>4. /\ d \in Tasks /\ job[d] \in Job /\ job[d].queued = 0 /\ CarryingEncoded(slots) = {}
  BY Zenon, <1>1, <1>2, WindowFacts
<1>5. Fail(job[d]).error # "none"
  BY Zenon, <1>4, StoppedFacts DEF Fail
<1>6. CASE EndDecode(Fail(job[d])) \/ (EndDecode(job[d]) /\ job[d].error # "none")
  <2>1. PICK j \in {job[d], Fail(job[d])} : EndDecode(j) /\ j.error # "none"
    BY Zenon, <1>5, <1>6
  <2> QED BY Zenon, <1>1, <1>2, <1>3, <1>4, <2>1, GivingUp
<1>7. CASE /\ n # 0 /\ job[d].error = "none"
           /\ decode' = [decode EXCEPT !.left = n, !.phase = "reading"]
           /\ job' = [job EXCEPT ![d].queued = @ + n]
  <2>1. n \in Nat /\ n > 0
    BY SMTT(40), <1>7, RoomAssumption
  <2> DEFINE m == [job[d] EXCEPT !.queued = @ + n]
  <2>2. job' = [job EXCEPT ![d] = m] /\ job \in [Tasks -> Job]
    BY Zenon, <1>7 DEF QueueTypeOK
  <2>3. m \in Job
    <3>1. job[d].queued + n \in Int
      BY SMTT(40), <1>4, <2>1
    <3> QED BY <1>4, <3>1, JobQueued, Zenon
  <2>4. /\ m.inflight = job[d].inflight /\ m.remaining = job[d].remaining /\ m.raw = job[d].raw
        /\ m.error = job[d].error /\ m.encoded = job[d].encoded /\ m.decoding = job[d].decoding
        /\ m.queued = n
    BY SMTT(40), <1>4, <2>1 DEF Job
  <2> HIDE DEF m, d
  <2>5. job' \in [Tasks -> Job] /\ job'[d] = m /\ \A u \in Tasks \ {d} : job'[u] = job[u]
    BY Zenon, <1>4, <2>2, <2>3
  <2>6. \A u \in Tasks : Keeps(job[u], job'[u])
    BY Zenon, <2>4, <2>5 DEF Keeps
  <2>7. \A u \in Tasks : job'[u].encoded = job[u].encoded /\ job'[u].decoding = job[u].decoding
    BY Zenon, <2>4, <2>5
  <2>8. decode' \in DecodeRecord
    <3>1. decode \in DecodeRecord
      BY Zenon, TypesSplit DEF BooksTypeOK
    <3>3. n \in Int /\ "reading" \in {"none", "preparing", "reading", "decoding"}
      BY SMTT(40), <2>1
    <3> QED BY <1>7, <3>1, <3>3, DecodeLeft, DecodePhase, Zenon
  <2>9. /\ decode'.task = decode.task /\ decode'.reads = decode.reads
        /\ decode'.phase = "reading" /\ decode'.left = n
    BY Zenon, <1>7 DEF QueueTypeOK
  <2>10. Cardinality(CarryingEncoded(slots)) = 0
    BY Zenon, <1>4, NoneCounted
  <2>11. CodecAgrees' /\ CodecInBudget'
    <3>1. UNCHANGED <<arena, scratch>>
      BY Zenon, <1>1, PollTurn
    <3> QED BY Zenon, <1>2, <1>3, <2>9, <3>1 DEF CodecAgrees, CodecInBudget
  <2>12. at' = "reap" /\ Decoding /\ UNCHANGED <<decodeStays, restored>>
    BY Zenon, <1>1
  <2>13. /\ job'[decode.task].queued >= 0 /\ job'[decode.task].error = "none"
         /\ Cardinality(CarryingEncoded(slots)) + job'[decode.task].queued <= decode'.left
    <3>1. job[d].error = "none"
      BY Zenon, <1>7
    <3>2. job'[d].queued = n /\ job'[d].error = "none"
      BY Zenon, <2>4, <2>5, <3>1
    <3> QED BY SMTT(40), <2>1, <2>9, <2>10, <3>2 DEF d
  <2>14. \A u \in Tasks \ {decode.task} : job'[u] = job[u]
    BY Zenon, <2>5 DEF d
  <2>15. codec' \in CodecRecord /\ job' \in [Tasks -> Job] /\ decode'.phase # "none"
    BY Zenon, <1>3, <2>5, <2>9
  <2> QED BY ZenonT(40), <2>6, <2>7, <2>8, <2>9, <2>11, <2>12, <2>13, <2>14, <2>15, WindowGoesOn
<1>8. CASE codec.reply = "refused"
  BY Zenon, <1>6, <1>8 DEF PollPrepared, DecodeTask
<1>9. CASE codec.reply = "prepared" /\ job[d].error # "none"
  BY Zenon, <1>6, <1>9 DEF PollPrepared, DecodeTask
<1>10. CASE codec.reply = "prepared" /\ job[d].error = "none" /\ n = 0
  BY Zenon, <1>6, <1>10 DEF PollPrepared, DecodeTask
<1>11. CASE codec.reply = "prepared" /\ job[d].error = "none" /\ n # 0
  BY Zenon, <1>7, <1>11 DEF PollPrepared, DecodeTask
<1> QED BY Zenon, <1>1, <1>8, <1>9, <1>10, <1>11

\* The codec thread decoded the window or failed to (poll_decode).
LEMMA PollCompletedStep ==
  ASSUME CountingFacts, QueueInvariant, PollCompleted
  PROVE  QueueInvariant'
<1> USE DEF QueueInvariant, Rest
<1> DEFINE d == decode.task
<1>1. /\ at' = "reap" /\ Decoding /\ UNCHANGED decodeStays
      /\ codec' = [codec EXCEPT !.reply = "none"] /\ codec.reply \in {"decoded", "broken"}
  BY Zenon DEF PollCompleted
<1>2. /\ decode.phase = "decoding" /\ codec.cmd = "none"
  BY Zenon, <1>1, CommandFacts DEF CodecAgrees
<1>3. /\ codec' \in CodecRecord /\ codec'.reply = "none" /\ codec'.cmd = "none"
      /\ codec'.st = codec.st /\ codec'.budget = codec.budget
  <2>1. codec \in CodecRecord
    BY Zenon, TypesSplit DEF BooksTypeOK
  <2> QED BY Zenon, <1>1, <1>2, <2>1, TakenFacts
<1>4. /\ d \in Tasks /\ job[d] \in Job /\ job[d].queued = 0 /\ CarryingEncoded(slots) = {}
  BY Zenon, <1>1, <1>2, WindowFacts
<1>5. CASE codec.reply = "broken"
  <2>1. EndDecode(Fail(job[d])) /\ restored' = restored
    BY Zenon, <1>5 DEF PollCompleted, DecodeTask
  <2>2. Fail(job[d]).error # "none"
    BY Zenon, <1>4, StoppedFacts DEF Fail
  <2> QED BY ZenonT(40), <1>1, <1>2, <1>3, <1>4, <2>1, <2>2, GivingUp
<1>6. CASE codec.reply = "decoded"
  <2>1. EndDecode(job[d]) /\ restored' = [restored EXCEPT ![d] = @ + Len(decode.reads)]
    BY Zenon, <1>6 DEF PollCompleted, DecodeTask
  <2>2. Weaker(job[d], job[d])
    BY Zenon DEF Weaker
  <2>3. /\ restored' \in [Tasks -> Nat] /\ restored'[d] = restored[d] + Len(decode.reads)
        /\ \A u \in Tasks : u # d => restored'[u] = restored[u]
    <3>1. restored \in [Tasks -> Nat]
      BY Zenon DEF QueueTypeOK
    <3>2. Len(decode.reads) \in Nat
      BY SMTT(40), TypeFacts
    <3> QED BY SMTT(40), <1>4, <2>1, <3>1, <3>2
  <2>4. /\ TurnTypeOK'
        /\ UNCHANGED <<scope, answer, lease, permits, inbox, jobs, slots, arena, scratch, moved>>
    BY Zenon, <1>1, PollTurn
  <2> QED BY ZenonT(40), <1>1, <1>2, <1>3, <1>4, <2>1, <2>2, <2>3, <2>4, WindowCloses
<1> QED BY Zenon, <1>1, <1>5, <1>6

\* The codec thread ended without a reply (poll_decode).
LEMMA PollDisconnectedStep ==
  ASSUME CountingFacts, QueueInvariant, PollDisconnected
  PROVE  QueueInvariant'
<1> USE DEF QueueInvariant, Rest
<1> DEFINE d == decode.task
<1>1. /\ at' = "reap" /\ Decoding /\ UNCHANGED <<decodeStays, restored>> /\ codec' = codec
      /\ codec.reply = "none" /\ codec.st = "dead" /\ decode.phase \in {"preparing", "decoding"}
      /\ EndDecode(Fail(job[d]))
  BY Zenon DEF PollDisconnected, Answering, DecodeTask
<1>2. codec.cmd = "none" /\ codec \in CodecRecord
  <2>1. codec \in CodecRecord
    BY Zenon, TypesSplit DEF BooksTypeOK
  <2> QED BY Zenon, <1>1, <2>1 DEF CodecAgrees
<1>3. /\ d \in Tasks /\ job[d] \in Job /\ job[d].queued = 0 /\ CarryingEncoded(slots) = {}
  BY Zenon, <1>1, WindowFacts
<1>4. Fail(job[d]).error # "none"
  BY Zenon, <1>3, StoppedFacts DEF Fail
<1> QED BY Zenon, <1>1, <1>2, <1>3, <1>4, GivingUp

\* Once every batch of the window has landed it is decoded, or given up (poll_decode).
LEMMA PollReadingStep ==
  ASSUME CountingFacts, QueueInvariant, PollReading
  PROVE  QueueInvariant'
<1> USE DEF QueueInvariant, Rest
<1> DEFINE d == decode.task
<1>1. /\ at' = "reap" /\ Decoding /\ UNCHANGED <<decodeStays, restored>> /\ decode.phase = "reading"
  BY Zenon DEF PollReading
<1>2. /\ d \in Tasks /\ job[d] \in Job /\ Cardinality(CarryingEncoded(slots)) \in Nat
      /\ Cardinality(CarryingEncoded(slots)) = 0 => CarryingEncoded(slots) = {}
      /\ job[d].queued \in Int /\ decode.left \in Int /\ job[d].queued >= 0
  BY Zenon, <1>1, WindowFacts, TypeFacts DEF WindowAgrees
<1>3. codec.cmd = "none" /\ codec.reply = "none" /\ codec \in CodecRecord
  <2>1. codec.cmd \in {"none", "prepare", "decode"}
    BY Zenon, CommandFacts
  <2>2. codec.reply \in {"none", "prepared", "refused", "decoded", "broken"}
    BY Zenon DEF QueueTypeOK
  <2>3. codec \in CodecRecord
    BY Zenon, TypesSplit DEF BooksTypeOK
  <2> QED BY Zenon, <1>1, <2>1, <2>2, <2>3 DEF CodecAgrees
<1>4. Cardinality(CarryingEncoded(slots)) + job[d].queued <= decode.left
  BY Zenon, <1>1 DEF WindowAgrees, DecodeTask, EncodedSlots
<1>5. Fail(job[d]).error # "none"
  BY Zenon, <1>2, StoppedFacts DEF Fail
<1>6. CASE GivesUp(job[d])
  <2>1. EndDecode(job[d]) /\ codec' = codec /\ job[d].error # "none" /\ job[d].inflight = 0
    BY Zenon, <1>6 DEF PollReading, DecodeTask, GivesUp
  <2>2. CarryingEncoded(slots) = {}
    <3>1. Carrying(slots, d) \in SUBSET Slots /\ Cardinality(Carrying(slots, d)) = 0
      BY Zenon, <1>2, <2>1 DEF SlotsAgree, SlotsOf, Carrying
    <3>2. Carrying(slots, d) = {}
      BY Zenon, <3>1, SlotSets, NoneCounted
    <3>3. \A s \in Slots : slots[s].st # "idle" /\ slots[s].batch = 0 => slots[s].task = d
      BY Zenon DEF WindowAgrees, IsEncoded, Busy
    <3> QED BY Zenon, <3>2, <3>3 DEF CarryingEncoded, Carrying
  <2> QED BY Zenon, <1>1, <1>3, <2>1, <2>2, GivingUp
<1>7. CASE ~GivesUp(job[d]) /\ job[d].error = "none" /\ decode.left = 0
  <2>1. CarryingEncoded(slots) = {} /\ job[d].queued = 0
    BY SMTT(40), <1>2, <1>4, <1>7
  <2>2. CASE CanSend
    <3>1. /\ codec' = [codec EXCEPT !.cmd = "decode", !.bytes = codec.bytes, !.budget = codec.budget]
          /\ decode' = [decode EXCEPT !.phase = "decoding"] /\ job' = job
      BY Zenon, <1>7, <2>2 DEF PollReading, DecodeTask, SendCommand
    <3>2. codec' \in CodecRecord
      <4>1. "decode" \in Commands /\ codec.bytes \in Int /\ codec.budget \in Nat
        BY Zenon, <1>3 DEF Commands, CodecRecord
      <4> QED BY <1>3, <3>1, <4>1, CodecCmd, CodecBytes, CodecBudget, Zenon
    <3>3. /\ codec'.cmd = "decode" /\ codec'.reply = codec.reply /\ codec'.st = codec.st
          /\ codec'.budget = codec.budget
      BY Zenon, <1>3, <3>1 DEF CodecRecord
    <3>4. decode \in DecodeRecord
      BY Zenon, TypesSplit DEF BooksTypeOK
    <3>5. decode' \in DecodeRecord
      <4>1. "decoding" \in {"none", "preparing", "reading", "decoding"}
        OBVIOUS
      <4> QED BY <3>1, <3>4, <4>1, DecodePhase, Zenon
    <3>6. decode'.task = decode.task /\ decode'.reads = decode.reads /\ decode'.phase = "decoding"
      BY Zenon, <3>1, <3>4 DEF DecodeRecord
    <3>7. CodecAgrees' /\ CodecInBudget'
      <4>1. UNCHANGED <<arena, scratch>> /\ codec.st = "up"
        BY Zenon, <1>1, <2>2, PollTurn DEF CanSend
      <4> QED BY Zenon, <1>3, <3>3, <3>6, <4>1 DEF CodecAgrees, CodecInBudget
    <3>8. /\ job' \in [Tasks -> Job] /\ \A u \in Tasks : Keeps(job[u], job'[u]) /\ job'[u] = job[u]
          /\ job'[decode.task].queued >= 0 /\ ~(job'[decode.task].queued > 0)
      BY SMTT(40), <2>1, <3>1 DEF Keeps, QueueTypeOK
    <3> QED BY ZenonT(40), <1>1, <2>1, <3>2, <3>5, <3>6, <3>7, <3>8, WindowGoesOn
  <2>3. CASE ~CanSend
    <3>1. EndDecode(Fail(job[d])) /\ codec' = codec
      BY Zenon, <1>7, <2>3 DEF PollReading, DecodeTask
    <3> QED BY Zenon, <1>1, <1>3, <1>5, <2>1, <3>1, GivingUp
  <2> QED BY Zenon, <2>2, <2>3
<1>8. CASE ~GivesUp(job[d]) /\ ~(job[d].error = "none" /\ decode.left = 0)
  <2>1. UNCHANGED <<job, decode, codec>>
    BY Zenon, <1>8 DEF PollReading, DecodeTask
  <2>2. /\ TurnTypeOK'
        /\ UNCHANGED <<scope, answer, lease, permits, inbox, jobs, slots, arena, scratch, moved>>
    BY Zenon, <1>1, PollTurn
  <2>3. Rest'
    BY Zenon, <1>1, <2>1, <2>2, TurnFrame DEF booked, codecs, history
  <2>4. BooksTypeOK'
    <3>1. BooksTypeOK
      BY Zenon, TypesSplit
    <3> QED BY Zenon, <1>1, <2>1, <2>2, <3>1 DEF BooksTypeOK
  <2> QED BY Zenon, <2>2, <2>3, <2>4, TypesSplitNext
<1> QED BY Zenon, <1>6, <1>7, <1>8

-----------------------------------------------------------------------------
(* The end of a batch.                                                     *)

\* What another batch that landed means to an extent.
Landed(p, x, b, done, next) ==
  /\ p.batches[b] # x =>
       BatchesOf(p, x) \ next = BatchesOf(p, x) \ done /\ Due(p, x, next) = Due(p, x, done)
  /\ p.batches[b] = x =>
       /\ Cardinality(BatchesOf(p, x) \ done) = Cardinality(BatchesOf(p, x) \ next) + 1
       /\ Cardinality(BatchesOf(p, x) \ next) \in Nat
       /\ Due(p, x, done) = Granted(p, x)
       /\ Cardinality(BatchesOf(p, x) \ done) = 1 =>
            BatchesOf(p, x) \subseteq next /\ Due(p, x, next) = "committed"
       /\ Cardinality(BatchesOf(p, x) \ done) # 1 => Due(p, x, next) = Granted(p, x)

\* A batch that landed is one fewer of its extent, and the last one completes it.
LEMMA LandedFacts ==
  ASSUME CountingFacts, scope \in Scopes, NEW t \in Tasks, NEW x \in Extents, NEW done,
         NEW b \in BatchIds(plan[t]), b \notin done, NEW next, next = done \cup {b}
  PROVE  Landed(plan[t], x, b, done, next)
<1> DEFINE p == plan[t]
           all == BatchesOf(p, x)
<1>1. IsFiniteSet(all) /\ b \in BatchIds(p)
  BY Zenon, PlanFacts
<1>2. p.batches[b] = x <=> b \in all
  BY Zenon, <1>1 DEF BatchesOf
<1> HIDE DEF p, all
<1>3. b \notin all => all \ next = all \ done
  OBVIOUS
<1>4. b \notin all => Due(p, x, next) = Due(p, x, done)
  <2>1. b \notin all => (all \subseteq next <=> all \subseteq done)
    OBVIOUS
  <2> QED BY Zenon, <2>1 DEF Due, all
<1>5. ASSUME b \in all
      PROVE  /\ Cardinality(all \ done) = Cardinality(all \ next) + 1
             /\ Cardinality(all \ next) \in Nat /\ IsFiniteSet(all \ next)
  <2>1. all \ done = (all \ next) \cup {b} /\ b \notin all \ next
    BY Zenon, <1>5
  <2>2. IsFiniteSet(all \ next)
    BY <1>1, SubsetFinite, Zenon
  <2> QED BY <2>1, <2>2, OneMoreCounted, Zenon
<1>6. ASSUME b \in all PROVE Due(p, x, done) = Granted(p, x)
  BY Zenon, <1>6 DEF Due, all
<1>7. ASSUME b \in all, Cardinality(all \ done) = 1
      PROVE  all \subseteq next /\ Due(p, x, next) = "committed"
  <2>1. all \ next = {}
    BY SMTT(40), <1>5, <1>7, NoneCounted
  <2>2. all \subseteq next
    BY Zenon, <2>1
  <2> QED BY Zenon, <1>7, <2>2 DEF Due, all
<1>8. ASSUME b \in all, Cardinality(all \ done) # 1 PROVE Due(p, x, next) = Granted(p, x)
  <2>1. Cardinality(all \ next) # 0
    BY SMTT(40), <1>5, <1>8
  <2>2. all \ next # {}
    BY Zenon, <2>1, NoneCounted
  <2> QED BY Zenon, <2>2 DEF Due, all
<1> QED BY Zenon, <1>2, <1>3, <1>4, <1>5, <1>6, <1>7, <1>8 DEF p, all, Landed

\* What the end of a batch leaves of its job.
Ended(j, n, e, ok) ==
  /\ n.inflight = j.inflight - 1 /\ n.decoding = j.decoding
  /\ \A x \in Extents : n.remaining[x] = IF x = e THEN j.remaining[x] - 1 ELSE j.remaining[x]
  /\ \/ ok /\ n.raw = j.raw /\ n.queued = j.queued /\ n.encoded = j.encoded /\ n.error = j.error
     \/ ~ok /\ n.raw = {} /\ n.queued = 0 /\ n.encoded = <<>> /\ n.error # "none"

\* Job::complete keeps what the job has left, or fails it.
LEMMA CompletedFacts ==
  ASSUME NEW t \in Tasks, job[t] \in Job, NEW e \in Extents \cup {NoExtent}, NEW ok \in BOOLEAN
  PROVE  Completed(t, e, ok) \in Job /\ Ended(job[t], Completed(t, e, ok), e, ok)
<1> DEFINE i == job[t].inflight - 1
           r == CountedDown(job[t].remaining, e)
           j1 == [job[t] EXCEPT !.inflight = i]
           j2 == [j1 EXCEPT !.remaining = r]
<1>1. i \in Int /\ job[t].remaining \in [Extents -> Int]
  BY SMTT(40) DEF Job, Counters
<1>2. r \in Counters /\ \A x \in Extents : r[x] = IF x = e THEN job[t].remaining[x] - 1 ELSE job[t].remaining[x]
  BY SMTT(40), <1>1, ExtentsAssumption DEF Counters, CountedDown
<1>3. Completed(t, e, ok) = IF ok THEN j2 ELSE Fail(j2)
  BY Zenon DEF Completed
<1> HIDE DEF i, r
<1>4. j1 \in Job
  BY <1>1, JobInflight, Zenon
<1>5. j2 \in Job
  <2> HIDE DEF j1
  <2> QED BY <1>2, <1>4, JobRemaining, Zenon
<1>6. /\ j2.inflight = i /\ j2.remaining = r /\ j2.raw = job[t].raw /\ j2.queued = job[t].queued
      /\ j2.encoded = job[t].encoded /\ j2.error = job[t].error /\ j2.decoding = job[t].decoding
  BY Zenon DEF Job
<1> HIDE DEF j2
<1>7. Fail(j2) \in Job /\ Weaker(j2, Fail(j2)) /\ Fail(j2).error # "none"
  BY Zenon, <1>5, StoppedFacts DEF Fail
<1>8. Fail(j2).raw = {} /\ Fail(j2).queued = 0 /\ Fail(j2).encoded = <<>>
  BY Zenon, <1>5 DEF Fail, Stopped, Job
<1>9. CASE ok
  BY ZenonT(40), <1>2, <1>3, <1>5, <1>6, <1>9 DEF Ended, i
<1>10. CASE ~ok
  BY SMTT(40), <1>2, <1>3, <1>6, <1>7, <1>8, <1>10 DEF Ended, Weaker, i
<1> QED BY Zenon, <1>9, <1>10

\* A slot is emptied.
Emptied(old, new, s) == new[s] = Empty /\ \A r \in Slots \ {s} : new[r] = old[r]

\* A slot that is emptied is one fewer of its task, and of the encoded ones if it was one.
LEMMA EmptiedFacts ==
  ASSUME CountingFacts, NEW old, NEW new, NEW s \in Slots, Emptied(old, new, s), old[s].st # "idle",
         old[s].task \in Tasks
  PROVE  /\ Cardinality(Carrying(old, old[s].task)) = Cardinality(Carrying(new, old[s].task)) + 1
         /\ Cardinality(Carrying(new, old[s].task)) \in Nat
         /\ \A u \in Tasks : u # old[s].task => Carrying(new, u) = Carrying(old, u)
         /\ Cardinality(CarryingEncoded(new)) \in Nat
         /\ old[s].batch = 0 => Cardinality(CarryingEncoded(old)) = Cardinality(CarryingEncoded(new)) + 1
         /\ old[s].batch # 0 => CarryingEncoded(new) = CarryingEncoded(old)
<1> DEFINE t == old[s].task
<1>0. new[s].st = "idle" /\ new[s].task = NoTask /\ NoTask \notin Tasks
  BY SMTT(40), TasksAssumption DEF Emptied, Empty
<1>1. Carrying(old, t) = Carrying(new, t) \cup {s} /\ s \notin Carrying(new, t)
  BY Zenon, <1>0 DEF Emptied, Carrying
<1>2. \A u \in Tasks : u # t => Carrying(new, u) = Carrying(old, u)
  BY Zenon, <1>0 DEF Emptied, Carrying
<1>3. CarryingEncoded(new) \in SUBSET Slots /\ Carrying(new, t) \in SUBSET Slots
  BY Zenon DEF CarryingEncoded, Carrying
<1>4. /\ IsFiniteSet(CarryingEncoded(new)) /\ IsFiniteSet(Carrying(new, t))
      /\ Cardinality(CarryingEncoded(new)) \in Nat /\ Cardinality(Carrying(new, t)) \in Nat
  BY Zenon, <1>3, SlotSets
<1>5. ASSUME old[s].batch = 0
      PROVE  Cardinality(CarryingEncoded(old)) = Cardinality(CarryingEncoded(new)) + 1
  <2>1. CarryingEncoded(old) = CarryingEncoded(new) \cup {s} /\ s \notin CarryingEncoded(new)
    BY SMTT(40), <1>0, <1>5 DEF Emptied, CarryingEncoded
  <2> QED BY <1>4, <2>1, OneMoreCounted, Zenon
<1>6. old[s].batch # 0 => CarryingEncoded(new) = CarryingEncoded(old)
  BY Zenon, <1>0 DEF Emptied, CarryingEncoded
<1>7. Cardinality(Carrying(old, t)) = Cardinality(Carrying(new, t)) + 1
  BY <1>1, <1>4, OneMoreCounted, Zenon
<1> QED BY ZenonT(40), <1>2, <1>4, <1>5, <1>6, <1>7

\* A batch ended, well or not: its slot is free, its job counts one fewer and its extent may be
\* published.
LEMMA SlotEndsStep ==
  ASSUME CountingFacts, QueueInvariant, NEW ok \in BOOLEAN, SlotEnds(ok)
  PROVE  QueueInvariant'
<1> USE DEF QueueInvariant, Rest
<1> DEFINE t == slots[ix].task
           b == slots[ix].batch
           e == ExtentOf(ix)
           n == Completed(t, e, ok)
<1>1. ix \in Slots /\ slots \in [Slots -> Slot] /\ slots[ix].st # "idle" /\ scope \in Scopes
  BY Zenon DEF SlotEnds, SlotResult, Busy, QueueTypeOK
<1>2. t \in Tasks /\ In(jobs, t) /\ answer[t] = "waiting" /\ b \in Nat /\ job[t] \in Job
  BY Zenon, <1>1, TypeFacts DEF SlotsAgree, QueuesAgree, Waiting, Busy, InJobs
<1>3. b # 0 => b \in BatchIds(plan[t]) /\ b \notin moved[t]
  BY Zenon, <1>1 DEF BatchesAgree, Busy
<1> HIDE DEF t, b
<1>4. /\ e \in Extents \cup {NoExtent} /\ (b = 0 => e = NoExtent) /\ (b # 0 => e = plan[t].batches[b])
      /\ 0 \notin Extents /\ 0 \notin BatchIds(plan[t])
  <2>1. plan[t].batches \in Seq(Extents \cup {NoExtent}) /\ 0 \notin BatchIds(plan[t])
    BY Zenon, <1>1, <1>2, PlanFacts
  <2>2. b # 0 => plan[t].batches[b] \in Extents \cup {NoExtent}
    BY SMTT(40), <1>3, <2>1 DEF BatchIds
  <2> QED BY Zenon, <2>1, <2>2, ExtentsAssumption DEF ExtentOf, NoExtent, t, b
<1>5. n \in Job /\ Ended(job[t], n, e, ok)
  BY Zenon, <1>2, <1>4, CompletedFacts
<1>6. /\ job' = [job EXCEPT ![t] = n]
      /\ lease' = IF Commits(t, e, ok) THEN [lease EXCEPT ![t][e] = "committed"] ELSE lease
      /\ moved' = IF ok /\ b # 0 THEN [moved EXCEPT ![t] = @ \cup {b}] ELSE moved
      /\ decode' = IF b = 0 THEN [decode EXCEPT !.left = @ - 1] ELSE decode
      /\ slots' = [slots EXCEPT ![ix] = Empty]
  BY Zenon, <1>1 DEF SlotEnds, IsEncoded, Busy, t, b
<1>7. /\ NextSlot("decode") /\ reset' \in BOOLEAN
      /\ UNCHANGED <<scope, gone, answer, permits, pool, inbox, drained, taken, closed, burst, made,
                     jobs, codec, arena, scratch, restored>>
  BY Zenon DEF SlotEnds, sender, codecs
<1> DEFINE commits == Commits(t, e, ok)
<1>8. commits => e \in Extents /\ b # 0 /\ job[t].remaining[e] = 1 /\ ok /\ job[t].error = "none"
  BY Zenon, <1>4 DEF Commits
<1> HIDE DEF n, e, commits
<1>9. /\ job \in [Tasks -> Job] /\ job' \in [Tasks -> Job]
      /\ job'[t] = n /\ \A u \in Tasks \ {t} : job'[u] = job[u]
  <2>1. job \in [Tasks -> Job]
    BY Zenon DEF QueueTypeOK
  <2> QED BY Zenon, <1>2, <1>5, <1>6, <2>1
<1>10. Emptied(slots, slots', ix) /\ slots' \in [Slots -> Slot]
  <2>1. Empty \in Slot
    BY Zenon DEF Empty, Slot
  <2> QED BY Zenon, <1>1, <1>6, <2>1 DEF Emptied
<1>11. /\ \A u \in Tasks \ {t} : lease'[u] = lease[u]
       /\ \A x \in Extents : lease'[t][x] = IF commits /\ x = e THEN "committed" ELSE lease[t][x]
       /\ lease' \in [Tasks -> Leases]
  <2>1. lease \in [Tasks -> Leases] /\ lease[t] \in Leases
    BY Zenon, <1>2, TypesSplit DEF BooksTypeOK
  <2>2. CASE ~commits
    BY Zenon, <1>6, <2>1, <2>2 DEF commits
  <2>3. CASE commits
    <3> DEFINE l == [lease[t] EXCEPT ![e] = "committed"]
    <3>1. lease' = [lease EXCEPT ![t] = l]
      BY Zenon, <1>6, <2>3 DEF commits
    <3>2. l \in Leases /\ \A x \in Extents : l[x] = IF x = e THEN "committed" ELSE lease[t][x]
      BY Zenon, <1>8, <2>1, <2>3 DEF Leases
    <3> HIDE DEF l
    <3> QED BY Zenon, <1>2, <2>1, <2>3, <3>1, <3>2
  <2> QED BY Zenon, <2>2, <2>3
<1>12. /\ \A u \in Tasks \ {t} : moved'[u] = moved[u]
       /\ moved'[t] = IF ok /\ b # 0 THEN moved[t] \cup {b} ELSE moved[t]
       /\ moved' \in [Tasks -> SUBSET Nat]
  <2>1. moved \in [Tasks -> SUBSET Nat]
    BY Zenon DEF QueueTypeOK
  <2> QED BY Zenon, <1>2, <1>6, <2>1
<1>13. /\ decode' \in DecodeRecord /\ decode'.task = decode.task /\ decode'.reads = decode.reads
       /\ decode'.phase = decode.phase /\ decode'.left = IF b = 0 THEN decode.left - 1 ELSE decode.left
       /\ (~Decoding => decode' = decode)
  <2>1. decode \in DecodeRecord /\ decode.left \in Int
    BY Zenon, TypesSplit, TypeFacts DEF BooksTypeOK
  <2>2. b = 0 => Decoding
    BY Zenon, <1>1, <1>2, TasksAssumption DEF WindowAgrees, IsEncoded, Busy, Decoding, t, b
  <2>3. CASE b # 0
    BY Zenon, <1>6, <2>1, <2>3
  <2>4. CASE b = 0
    <3>1. decode' = [decode EXCEPT !.left = decode.left - 1] /\ decode.left - 1 \in Int
      BY SMTT(40), <1>6, <2>1, <2>4
    <3>2. decode' \in DecodeRecord
      BY <2>1, <3>1, DecodeLeft, Zenon
    <3> QED BY Zenon, <2>1, <2>2, <2>4, <3>1, <3>2 DEF DecodeRecord
  <2> QED BY Zenon, <2>3, <2>4
<1>14. /\ plan' = plan /\ \A s \in Slots : slots'[s].st # "idle" => s # ix
       /\ \A s \in Slots : slots'[s].task \in Tasks => s # ix
       /\ \A s \in Slots : s # ix => slots'[s] = slots[s]
  BY SMTT(40), <1>7, <1>10, TasksAssumption DEF plan, Emptied, Empty
<1>15. QueuesAgree' BY Zenon, <1>7 DEF QueuesAgree, Waiting, InJobs
<1>16. OutsideIsFresh'
  BY Zenon, <1>2, <1>7, <1>9, <1>12 DEF OutsideIsFresh, InJobs
<1>17. /\ Cardinality(Carrying(slots, t)) = Cardinality(Carrying(slots', t)) + 1
       /\ Cardinality(Carrying(slots', t)) \in Nat
       /\ \A u \in Tasks : u # t => Carrying(slots', u) = Carrying(slots, u)
       /\ Cardinality(CarryingEncoded(slots')) \in Nat
       /\ b = 0 => Cardinality(CarryingEncoded(slots)) = Cardinality(CarryingEncoded(slots')) + 1
       /\ b # 0 => CarryingEncoded(slots') = CarryingEncoded(slots)
  BY Zenon, <1>1, <1>2, <1>10, EmptiedFacts DEF t, b
<1>18. SlotsAgree'
  <2>1. n.inflight = Cardinality(Carrying(slots', t))
    <3>1. job[t].inflight = Cardinality(Carrying(slots, t)) /\ n.inflight = job[t].inflight - 1
      BY Zenon, <1>2, <1>5 DEF SlotsAgree, SlotsOf, Ended
    <3> QED BY SMTT(40), <1>17, <3>1
  <2>2. \A u \in Tasks : job'[u].inflight = Cardinality(Carrying(slots', u))
    BY Zenon, <1>9, <1>17, <2>1 DEF SlotsAgree, SlotsOf
  <2>3. \A s \in Slots : slots'[s].st = "idle" => slots'[s] = Empty
    BY Zenon, <1>10 DEF SlotsAgree, Busy, Emptied
  <2>4. \A s \in Slots : slots'[s].st # "idle" => slots'[s].task \in Tasks /\ In(jobs, slots'[s].task)
    BY Zenon, <1>14 DEF SlotsAgree, Busy, InJobs
  <2> QED BY ZenonT(40), <1>7, <2>2, <2>3, <2>4 DEF SlotsAgree, SlotsOf, Busy, InJobs
<1>19. \A u \in Tasks : In(jobs, u) /\ job'[u].error = "none" => Live(u) /\ (u = t => ok /\ n.raw = job[t].raw /\ n.encoded = job[t].encoded)
  BY Zenon, <1>5, <1>9 DEF Live, InJobs, Ended

<1>20. BatchesAgree'
  <2>1. \A s \in Slots : slots'[s].st # "idle" /\ slots'[s].batch # 0 =>
          slots'[s].batch \in BatchIds(plan[slots'[s].task]) \ moved'[slots'[s].task]
    <3> SUFFICES ASSUME NEW s \in Slots, slots'[s].st # "idle", slots'[s].batch # 0
                 PROVE  slots'[s].batch \in BatchIds(plan[slots'[s].task]) \ moved'[slots'[s].task]
      OBVIOUS
    <3>1. s # ix /\ slots'[s] = slots[s] /\ slots[s].task \in Tasks
      BY Zenon, <1>14 DEF SlotsAgree, Busy
    <3>2. slots[s].batch \in BatchIds(plan[slots[s].task]) \ moved[slots[s].task]
      BY ZenonT(40), <3>1 DEF BatchesAgree, Busy
    <3>3. slots[s].task = t => slots[s].batch # b
      BY SMTT(40), <1>1, <3>1 DEF BatchesAgree, Busy, t, b
    <3> QED BY Zenon, <1>12, <3>1, <3>2, <3>3
  <2>2. \A r, s \in Slots :
          slots'[r].st # "idle" /\ slots'[r].batch # 0 /\ slots'[r].task = slots'[s].task
            /\ slots'[r].batch = slots'[s].batch => r = s
    BY SMTT(40), <1>14 DEF BatchesAgree, Busy, SlotsAgree
  <2>3. \A u \in Tasks : moved'[u] \subseteq BatchIds(plan[u])
    BY SMTT(40), <1>3, <1>12 DEF BatchesAgree
  <2>4. \A u \in Tasks : job'[u].raw \subseteq BatchIds(plan[u]) \ moved'[u]
    <3>1. n.raw \subseteq job[t].raw
      BY Zenon, <1>5 DEF Ended
    <3>2. b \notin job[t].raw
      BY ZenonT(40), <1>1, <1>2 DEF BatchesAgree, t, b
    <3>3. n.raw \subseteq BatchIds(plan[t]) \ moved'[t]
      BY SMTT(40), <1>2, <1>12, <3>1, <3>2 DEF BatchesAgree
    <3> QED BY ZenonT(40), <1>9, <1>12, <3>3 DEF BatchesAgree
  <2>5. \A u \in Tasks, s \in Slots : slots'[s].task = u => slots'[s].batch \notin job'[u].raw
    <3>1. n.raw \subseteq job[t].raw
      BY Zenon, <1>5 DEF Ended
    <3> QED BY SMTT(40), <1>9, <1>14, <3>1 DEF BatchesAgree
  <2>6. \A u \in Tasks : In(jobs, u) /\ job'[u].error = "none" => \A c \in BatchIds(plan[u]) \ moved'[u] :
          c \in job'[u].raw \/ \E s \in Slots : slots'[s].task = u /\ slots'[s].batch = c
    <3> SUFFICES ASSUME NEW u \in Tasks, In(jobs, u), job'[u].error = "none", NEW c \in BatchIds(plan[u]) \ moved'[u]
                 PROVE  c \in job'[u].raw \/ \E s \in Slots : slots'[s].task = u /\ slots'[s].batch = c
      OBVIOUS
    <3>1. Live(u) /\ c \notin moved[u] /\ (u = t => c # b) /\ job'[u].raw = job[u].raw
      BY ZenonT(40), <1>4, <1>9, <1>12, <1>19
    <3>2. c \in job[u].raw \/ \E s \in Slots : slots[s].task = u /\ slots[s].batch = c
      BY SMTT(40), <3>1 DEF BatchesAgree
    <3>3. \A s \in Slots : slots[s].task = u /\ slots[s].batch = c => s # ix /\ slots'[s] = slots[s]
      BY Zenon, <1>14, <3>1 DEF t, b
    <3> QED BY Zenon, <3>1, <3>2, <3>3
  <2> QED BY ZenonT(40), <1>7, <1>14, <2>1, <2>2, <2>3, <2>4, <2>5, <2>6 DEF BatchesAgree, Busy, Live, InJobs
<1>21. ExtentsAgree'
  <2> SUFFICES ASSUME NEW u \in Tasks, NEW x \in Extents PROVE ExtentAgrees(u, x)'
    BY Zenon DEF ExtentsAgree
  <2>1. ExtentAgrees(u, x)
    BY Zenon DEF ExtentsAgree
  <2>2. CASE u # t
    <3>1. /\ job'[u] = job[u] /\ lease'[u] = lease[u] /\ moved'[u] = moved[u]
          /\ answer' = answer /\ jobs' = jobs /\ plan' = plan
      BY Zenon, <1>7, <1>9, <1>11, <1>12, <1>14, <2>2
    <3> QED BY Zenon, <2>1, <3>1 DEF ExtentAgrees, Live, InJobs, Waiting
  <2>3. CASE u = t
    <3>1. ASSUME n.error = "none"
          PROVE  n.remaining[x] = Cardinality(BatchesOf(plan[t], x) \ moved'[t]) /\ lease'[t][x] = Due(plan[t], x, moved'[t])
      <4>1. /\ job[t].remaining[x] = Cardinality(BatchesOf(plan[t], x) \ moved[t])
            /\ lease[t][x] = Due(plan[t], x, moved[t]) /\ ok /\ job[t].error = "none"
        BY Zenon, <1>2, <1>9, <1>19, <2>1, <2>3, <3>1 DEF ExtentAgrees, Live
      <4>2. n.remaining[x] = IF x = e THEN job[t].remaining[x] - 1 ELSE job[t].remaining[x]
        BY Zenon, <1>5 DEF Ended
      <4>3. CASE b = 0
        <5>1. x # e /\ moved'[t] = moved[t] /\ lease'[t][x] = lease[t][x]
          BY Zenon, <1>4, <1>11, <1>12, <4>3 DEF NoExtent
        <5> QED BY Zenon, <4>1, <4>2, <5>1
      <4>4. CASE b # 0
        <5>1. moved'[t] = moved[t] \cup {b} /\ e = plan[t].batches[b]
          BY Zenon, <1>4, <1>12, <4>1, <4>4
        <5>2. Landed(plan[t], x, b, moved[t], moved'[t])
          <6>1. b \in BatchIds(plan[t]) /\ b \notin moved[t] /\ moved'[t] = moved[t] \cup {b}
            BY Zenon, <1>3, <4>4, <5>1
          <6> QED BY Zenon, <1>1, <1>2, <6>1, LandedFacts
        <5>3. CASE x # e
          <6>1. lease'[t][x] = lease[t][x]
            BY Zenon, <1>11, <5>3
          <6>2. plan[t].batches[b] # x
            BY Zenon, <5>1, <5>3
          <6>3. /\ BatchesOf(plan[t], x) \ moved'[t] = BatchesOf(plan[t], x) \ moved[t]
                /\ Due(plan[t], x, moved'[t]) = Due(plan[t], x, moved[t])
            BY Zenon, <5>2, <6>2 DEF Landed
          <6> QED BY Zenon, <4>1, <4>2, <5>3, <6>1, <6>3
        <5>4. CASE x = e
          <6>1. commits <=> Cardinality(BatchesOf(plan[t], x) \ moved[t]) = 1
            BY Zenon, <4>1, <5>4, ExtentsAssumption DEF commits, Commits
          <6>2. lease'[t][x] = IF commits THEN "committed" ELSE lease[t][x]
            BY Zenon, <1>11, <5>4
          <6>3. lease'[t][x] = Due(plan[t], x, moved'[t])
            BY ZenonT(40), <4>1, <5>1, <5>2, <5>4, <6>1, <6>2 DEF Landed
          <6>4. n.remaining[x] = Cardinality(BatchesOf(plan[t], x) \ moved'[t])
            BY SMTT(40), <4>1, <4>2, <5>1, <5>2, <5>4 DEF Landed
          <6> QED BY Zenon, <6>3, <6>4
        <5> QED BY Zenon, <5>3, <5>4
      <4> QED BY Zenon, <4>3, <4>4
    <3> QED BY Zenon, <1>2, <1>7, <1>9, <1>14, <2>3, <3>1 DEF ExtentAgrees, Live, InJobs, Waiting
  <2> QED BY Zenon, <2>2, <2>3
<1>22. WindowAgrees'
  <2>1. \A u \in Tasks : job'[u].decoding <=> decode.task = u
    BY SMTT(40), <1>5, <1>9 DEF WindowAgrees, Ended
  <2>2. job[t].queued \in Int /\ n.queued \in Int /\ 0 <= n.queued /\ n.queued <= job[t].queued
        /\ (n.queued > 0 => job[t].queued > 0 /\ n.error = job[t].error)
    BY SMTT(40), <1>2, <1>5, TypeFacts DEF WindowAgrees, Ended
  <2>3. \A u \in Tasks : job'[u].queued >= 0 /\ (job'[u].queued > 0 => job[u].queued > 0 /\ job'[u].error = job[u].error)
    BY Zenon, <1>9, <2>2 DEF WindowAgrees
  <2>4. \A s \in Slots : slots'[s].st # "idle" /\ slots'[s].batch = 0 => slots'[s].task = decode.task /\ decode.phase = "reading"
    BY Zenon, <1>14 DEF WindowAgrees, IsEncoded, Busy
  <2>5. ASSUME decode.phase = "reading" PROVE Cardinality(CarryingEncoded(slots')) + job'[decode.task].queued <= decode'.left
    <3>1. /\ decode.task \in Tasks /\ decode.left \in Int /\ job[decode.task].queued \in Int
          /\ Cardinality(CarryingEncoded(slots)) + job[decode.task].queued <= decode.left
      BY Zenon, <2>5, WindowTask, TypeFacts DEF WindowAgrees, DecodeTask, EncodedSlots
    <3>2. job'[decode.task].queued \in Int /\ job'[decode.task].queued <= job[decode.task].queued
      BY SMTT(40), <1>9, <2>2, <3>1
    <3>3. CASE b = 0
      BY SMTT(40), <1>13, <1>17, <3>1, <3>2, <3>3
    <3>4. CASE b # 0
      BY SMTT(40), <1>13, <1>17, <3>1, <3>2, <3>4
    <3> QED BY Zenon, <3>3, <3>4
  <2>6. /\ decode.task = NoTask => decode' = NoDecode
        /\ decode.task # NoTask => decode.phase # "none"
        /\ \A k \in DOMAIN decode'.reads : decode'.reads[k].source = decode'.reads[1].source
    BY Zenon, <1>13 DEF WindowAgrees, Decoding
  <2>7. \A u \in Tasks : job'[u].queued > 0 => decode.task = u /\ decode.phase = "reading" /\ job'[u].error = "none"
    BY Zenon, <2>3 DEF WindowAgrees
  <2> QED BY ZenonT(40), <1>13, <2>1, <2>3, <2>4, <2>5, <2>6, <2>7 DEF WindowAgrees, Decoding, DecodeTask, IsEncoded, EncodedSlots, Busy
<1>23. ReadsAgree'
  <2>1. \A u \in Tasks : In(jobs, u) /\ job'[u].error = "none" => Live(u) /\ job'[u].encoded = job[u].encoded
    BY Zenon, <1>9, <1>19
  <2>2. /\ decode'.task = decode.task /\ decode'.reads = decode.reads
        /\ restored' = restored /\ jobs' = jobs /\ plan' = plan
    BY Zenon, <1>7, <1>13, <1>14
  <2> QED BY Zenon, <2>1, <2>2 DEF ReadsAgree, Live, InJobs
<1>24. CodecAgrees' /\ CodecInBudget' BY Zenon, <1>7, <1>13 DEF CodecAgrees, CodecInBudget
<1>25. OneWrite'
  <2>1. \A s \in Slots : slots'[s].st # "idle" => s # ix /\ slots'[s] = slots[s]
    BY Zenon, <1>14
  <2> QED BY ZenonT(40), <1>14, <2>1 DEF OneWrite, Busy, IsWrite
<1>26. CommitsAreWhole'
  <2> SUFFICES ASSUME NEW u \in Tasks, NEW x \in Extents
               PROVE  /\ lease'[u][x] = "committed" => BatchesOf(plan[u], x) \subseteq moved'[u]
                      /\ lease'[u][x] = "held" => answer[u] = "waiting"
    BY Zenon, <1>7, <1>14 DEF CommitsAreWhole, Waiting
  <2>1. moved[u] \subseteq moved'[u]
    BY Zenon, <1>12
  <2>2. ASSUME u = t, x = e, commits PROVE BatchesOf(plan[u], x) \subseteq moved'[u]
    <3>1. ok /\ b # 0 /\ job[t].error = "none" /\ job[t].remaining[x] = 1
      BY Zenon, <1>8, <2>2
    <3>2. ExtentAgrees(t, x) /\ Live(t)
      BY Zenon, <1>2, <3>1 DEF ExtentsAgree, Live, InJobs
    <3>3. Cardinality(BatchesOf(plan[t], x) \ moved[t]) = 1
      BY Zenon, <3>1, <3>2 DEF ExtentAgrees
    <3>4. plan[t].batches[b] = x /\ b \in BatchIds(plan[t]) /\ b \notin moved[t]
      BY Zenon, <1>3, <1>4, <2>2, <3>1
    <3>5. moved'[t] = moved[t] \cup {b}
      BY Zenon, <1>12, <3>1
    <3>6. Landed(plan[t], x, b, moved[t], moved'[t])
      BY Zenon, <1>1, <1>2, <3>4, <3>5, LandedFacts
    <3> QED BY Zenon, <2>2, <3>3, <3>4, <3>6 DEF Landed
  <2>3. lease'[u][x] # lease[u][x] => u = t /\ x = e /\ commits /\ lease'[u][x] = "committed"
    BY Zenon, <1>11
  <2> QED BY Zenon, <2>1, <2>2, <2>3 DEF CommitsAreWhole, Waiting
<1>27. SuccessIsComplete'
  <2>1. \A u \in Tasks : answer[u] = "ok" => u # t
    BY Zenon, <1>2
  <2>2. \A u \in Tasks : u # t => lease'[u] = lease[u] /\ moved'[u] = moved[u]
    BY Zenon, <1>11, <1>12
  <2>3. answer' = answer /\ restored' = restored /\ plan' = plan
    BY Zenon, <1>7, <1>14
  <2> QED BY Zenon, <2>1, <2>2, <2>3 DEF SuccessIsComplete
<1>28. PermitsReturn' BY Zenon, <1>7, <1>14 DEF PermitsReturn, Waiting, IsWrite
<1>29. QueueTypeOK'
  <2>1. ix' \in Slots /\ at' \in {at, "decode"}
    BY Zenon, <1>1, <1>7, SlotIndex
  <2>2. TurnTypeOK'
    BY Zenon, <1>7, <2>1 DEF TurnTypeOK, QueueTypeOK
  <2>3. BooksTypeOK
    BY Zenon, TypesSplit
  <2>4. BooksTypeOK'
    BY Zenon, <1>7, <1>9, <1>10, <1>11, <1>12, <1>13, <2>3 DEF BooksTypeOK
  <2> QED BY Zenon, <2>2, <2>4, TypesSplitNext
<1> QED BY ZenonT(40), <1>15, <1>16, <1>18, <1>20, <1>21, <1>22, <1>23, <1>24, <1>25, <1>26, <1>27, <1>28, <1>29

=============================================================================
