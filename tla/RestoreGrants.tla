--------------------------- MODULE RestoreGrants ---------------------------
(***************************************************************************)
(* A Restore of leased blocks into the GPU pages of an inference engine.   *)
(* The Manager prepares the operation and keeps the DRAM sources; the      *)
(* engine process runs the copies itself.  The two processes share only a  *)
(* memory file of completion records (RestoreCompletions), one word of     *)
(* which is moved by compare-and-swap from both sides, a bank of plan      *)
(* words and a set of dirty bits.                                          *)
(*                                                                         *)
(* Four threads of control meet here: the engine's caller (start_restore), *)
(* the engine's executor thread (LocalRestoreWorker), the Manager's        *)
(* dispatcher (dispatch_restore) and the Manager's reaper task             *)
(* (reap_sources); a fifth, publish, follows each Manager-run restore.     *)
(***************************************************************************)
EXTENDS Naturals, FiniteSets, FiniteSetsExt, Sequences

CONSTANTS
  Slots,        \* completion records of a session (RESTORE_COMPLETION_SLOTS)
  MaxOps,       \* bound: operation ids issued by the session
  MaxParts,     \* bound: plan parts of each operation
  Managing,     \* operations with SSD or encoded sources, run by the Manager
  PlanRoom,     \* words of the plan bank (RESTORE_PLAN_BYTES)
  MaxPending,   \* operations the executor accepts (MAX_PENDING)
  Scopes        \* bounds of a behaviour: [first .. last: operations, meta: plan words the
                \* metadata budget of a session admits, faults, live: scheduled fairly]

ASSUME GrantBounds ==
  /\ Slots \in Nat \ {0} /\ MaxOps \in Nat /\ Managing \subseteq 1 .. MaxOps
  /\ MaxParts \in [1 .. MaxOps -> Nat \ {0}]
  /\ Scopes \subseteq [first : 1 .. MaxOps, last : 1 .. MaxOps, meta : Nat, live : BOOLEAN,
                       faults : SUBSET {"engine", "drop", "manager", "reaper", "outcome"}]
  /\ PlanRoom \in Nat /\ MaxPending \in Nat

Ops == 1 .. MaxOps
SlotIds == 0 .. Slots - 1
Words == 1 .. PlanRoom
NoWord == <<0, 0>>

GrantStates == {"Free", "Reserved", "Preparing", "CancelRequested", "Granted",
                "GrantedMore", "Active", "ActiveMore", "PartDrained", "Drained",
                "Revoked", "Managed", "Reaped", "Acknowledged"}
Granting == {"Granted", "GrantedMore"}
Running == {"Active", "ActiveMore"}
Admitting == {"Preparing", "CancelRequested"}

VARIABLES
  \* shared memory
  rec,        \* the records: tag (id, st), result ok, plan words, copied
  nextId,     \* NEXT_OPERATION_OFFSET
  bank,       \* the plan bank: which part of which operation each word holds
  dirty,      \* the dirty bits
  \* engine process
  closed,     \* the session is poisoned or its socket closed
  gone,       \* the engine process has exited
  calling,    \* the operation start_restore is submitting, 0 for none
  jobs,       \* operations the executor thread owns
  retire,     \* drained operations it still has to acknowledge
  pending,    \* the reservation counter
  exec,       \* what the executor thread is doing
  worker,     \* "running", "stopping" or "released" (tensors dropped)
  result,     \* what the caller learnt of each operation
  \* request channel
  wire, acks,
  \* Manager process
  alive,
  session,    \* the dispatcher holds the session and its LocalGrants
  disp,       \* the operation dispatch_restore is preparing, 0 for none
  src,        \* who owns the sources of an operation
  part,       \* plan part next to publish, and how many there are
  mng,        \* the Manager-run restore of an operation
  plans,      \* the Manager's map of live plan ranges
  incoming, pendq, bits, connected, rp,   \* the reaper task
  ran,        \* history: parts whose copies completed
  scope       \* the bounds of this behaviour

shared == <<rec, nextId, bank, dirty>>
engine == <<closed, gone, calling, jobs, retire, pending, exec, worker, result>>
channel == <<wire, acks>>
reaper == <<incoming, pendq, bits, connected, rp>>
manager == <<alive, session, disp, src, part, mng, plans, reaper>>
vars == <<shared, engine, channel, manager, ran, scope>>

SlotOf(id) == id % Slots
RecOf(id) == rec[SlotOf(id)]

\* state(): an id whose record was given to a later operation is stale.
St(id) == IF RecOf(id).id = id THEN RecOf(id).st ELSE "Stale"

\* transition(): the tag moves only for the operation that owns the record.
Move(r, id, st) == [r EXCEPT ![SlotOf(id)].st = st]

\* write_result() then the transition that publishes it.
Settle(r, id, st, ok) == [r EXCEPT ![SlotOf(id)].st = st, ![SlotOf(id)].ok = ok]

IdleExec == [op |-> 0, at |-> "idle", st |-> "Free", plan |-> {}]

Init ==
  /\ rec = [s \in SlotIds |-> [id |-> 0, st |-> "Free", ok |-> FALSE,
                               words |-> {}, copied |-> FALSE]]
  /\ scope \in Scopes
  /\ nextId = scope.first /\ bank = [w \in Words |-> NoWord] /\ dirty = {}
  /\ closed = FALSE /\ gone = FALSE /\ calling = 0 /\ jobs = {} /\ retire = {}
  /\ pending = 0 /\ exec = IdleExec /\ worker = "running"
  /\ result = [id \in Ops |-> "none"]
  /\ wire = {} /\ acks = {}
  /\ alive = TRUE /\ session = TRUE /\ disp = 0
  /\ src = [id \in Ops |-> "none"] /\ part = [id \in Ops |-> <<0, 0>>]
  /\ mng = [id \in Ops |-> "none"] /\ plans = [id \in Ops |-> {}]
  /\ incoming = <<>> /\ pendq = <<>> /\ bits = {} /\ connected = TRUE
  /\ rp = "select"
  /\ ran = [id \in Ops |-> 0]

-----------------------------------------------------------------------------
(* The engine's caller. *)

\* reserve() of the executor: a place among its accepted operations.
HasPlace == worker = "running" /\ calling = 0 /\ pending < MaxPending

\* Mutant: a reaped record is taken before anyone has read its result.
ReusableReaped(id) ==
  RecOf(id).st \in {"Free", "Acknowledged", "Reaped"} /\ id > RecOf(id).id

\* A record is reused only once its operation was acknowledged.
Reusable(id) == RecOf(id).st \in {"Free", "Acknowledged"} /\ id > RecOf(id).id

\* start_restore: a place with the executor, then a record, then the request.
\* The ids reserve() skips because their record is still in use are consumed.
StartRestore ==
  /\ HasPlace
  /\ \E id \in nextId .. scope.last :
       /\ id < nextId + Slots
       /\ Reusable(id) /\ \A k \in nextId .. id - 1 : ~Reusable(k)
       /\ nextId' = id + 1
       /\ rec' = [rec EXCEPT ![SlotOf(id)].id = id, ![SlotOf(id)].st = "Reserved"]
       /\ calling' = id
       /\ wire' = IF closed THEN wire ELSE wire \cup {id}
  /\ pending' = pending + 1
  /\ UNCHANGED <<bank, dirty, closed, gone, jobs, retire, exec, worker, result,
                 acks, manager, ran, scope>>

\* No record is free: reserve() has used up Slots ids, the place is returned.
StartFull ==
  /\ HasPlace /\ nextId <= scope.last
  /\ \A id \in nextId .. nextId + Slots - 1 : ~Reusable(id)
  /\ nextId' = nextId + Slots
  /\ UNCHANGED <<rec, bank, dirty, engine, channel, manager, ran, scope>>

\* The response proves the Manager consumed the request: submit() hands the
\* operation to the executor thread, whatever its outcome.
CallReturns ==
  /\ calling \in acks
  /\ jobs' = jobs \cup {calling} /\ calling' = 0
  /\ acks' = acks \ {calling}
  /\ UNCHANGED <<shared, closed, gone, retire, pending, exec, worker, result,
                 wire, manager, ran, scope>>

\* cancel(): only an unadmitted request provably never runs.
CancelProves(st) == st = "Reserved"

\* No usable response (timeout, dead peer, poisoned session): the session is
\* closed and cancel() decides whether the operation can still run.
CallFails ==
  /\ calling # 0 /\ closed' = TRUE /\ calling' = 0
  /\ LET id == calling IN
       CASE CancelProves(St(id)) ->
              /\ rec' = Move(rec, id, "Acknowledged")
              /\ result' = [result EXCEPT ![id] = "refused"]
              /\ pending' = pending - 1 /\ UNCHANGED jobs
         [] ~CancelProves(St(id)) /\ St(id) = "Preparing" ->
              /\ rec' = Move(rec, id, "CancelRequested")
              /\ jobs' = jobs \cup {id} /\ UNCHANGED <<result, pending, scope>>
         [] OTHER ->
              /\ jobs' = jobs \cup {id} /\ UNCHANGED <<rec, result, pending, scope>>
  /\ UNCHANGED <<nextId, bank, dirty, gone, retire, exec, worker, channel,
                 manager, ran, scope>>

\* close() and unregister_context(): wait_drained, then stop the executor;
\* only close() also ends the session.
Shutdown ==
  /\ worker = "running" /\ calling = 0 /\ pending = 0
  /\ worker' = "stopping" /\ closed' \in {closed, TRUE}
  /\ UNCHANGED <<shared, gone, calling, jobs, retire, pending, exec, result,
                 channel, manager, ran, scope>>

\* Dropping the Python object only signals; accepted operations stay owned.
DropWorker ==
  /\ "drop" \in scope.faults
  /\ worker = "running" /\ calling = 0
  /\ worker' = "stopping"
  /\ UNCHANGED <<shared, closed, gone, calling, jobs, retire, pending, exec,
                 result, channel, manager, ran, scope>>

\* The engine process dies: its threads end, its records stay as they are.
EngineExits ==
  /\ "engine" \in scope.faults /\ ~gone /\ gone' = TRUE /\ closed' = TRUE /\ worker' = "released"
  /\ calling' = 0 /\ jobs' = {} /\ retire' = {} /\ exec' = IdleExec
  /\ UNCHANGED <<shared, pending, result, channel, manager, ran, scope>>

-----------------------------------------------------------------------------
(* The engine's executor thread. *)

PeerGone == ~alive

\* claim_local() has read a claimable state and not yet swapped it.
ExecSee(id) ==
  /\ exec.at = "idle" /\ id \in jobs /\ St(id) \in Granting
  /\ exec' = [op |-> id, at |-> "seen", st |-> St(id), plan |-> {}]
  /\ UNCHANGED <<shared, closed, gone, calling, jobs, retire, pending, worker,
                 result, channel, manager, ran, scope>>

\* The swap fails if the grant was revoked meanwhile: the job stays pending.
ExecClaim ==
  /\ exec.at = "seen"
  /\ IF St(exec.op) = exec.st
       THEN /\ rec' = Move(rec, exec.op,
                           IF exec.st = "Granted" THEN "Active" ELSE "ActiveMore")
            /\ exec' = [exec EXCEPT !.at = "claimed"]
       ELSE exec' = IdleExec /\ UNCHANGED rec
  /\ UNCHANGED <<nextId, bank, dirty, closed, gone, calling, jobs, retire,
                 pending, worker, result, channel, manager, ran, scope>>

\* The plan is copied out of the bank before copied is set and the reaper told.
ExecCopyPlan ==
  /\ exec.at = "claimed"
  /\ exec' = [exec EXCEPT !.at = "dma",
                          !.plan = {bank[w] : w \in RecOf(exec.op).words}]
  /\ rec' = [rec EXCEPT ![SlotOf(exec.op)].copied = TRUE]
  /\ dirty' = dirty \cup {SlotOf(exec.op)}
  /\ UNCHANGED <<nextId, bank, closed, gone, calling, jobs, retire, pending,
                 worker, result, channel, manager, ran, scope>>

\* Mutant: the drain of any part ends the operation.
LastPartAlways(ok) == TRUE

LastPart(ok) == ~ok \/ exec.st = "Granted"

\* drained(): the result, then the transition; the dirty bit follows.
ExecDrain(ok) ==
  /\ exec.at = "dma"
  /\ LET id == exec.op
         last == LastPart(ok)
     IN  /\ rec' = Settle(rec, id, IF last THEN "Drained" ELSE "PartDrained", ok)
         /\ exec' = [exec EXCEPT !.at = IF last THEN "ended" ELSE "parted",
                                 !.st = IF ok THEN "Drained" ELSE "Revoked"]
         /\ ran' = [ran EXCEPT ![id] = @ + IF ok THEN 1 ELSE 0]
  /\ UNCHANGED <<nextId, bank, dirty, closed, gone, calling, jobs, retire,
                 pending, worker, result, channel, manager, scope>>

\* A terminal drain answers the caller before the Manager has reaped.
ExecSignal ==
  /\ exec.at \in {"ended", "parted"}
  /\ dirty' = dirty \cup {SlotOf(exec.op)}
  /\ exec' = IdleExec
  /\ IF exec.at = "parted"
       THEN UNCHANGED <<jobs, retire, pending, result, scope>>
       ELSE /\ jobs' = jobs \ {exec.op} /\ retire' = retire \cup {exec.op}
            /\ pending' = pending - 1
            /\ result' = [result EXCEPT ![exec.op] =
                            IF exec.st = "Drained" THEN "ok" ELSE "failed"]
  /\ UNCHANGED <<rec, nextId, bank, closed, gone, calling, worker, channel,
                 manager, ran, scope>>

\* poll(): a reaped record is acknowledged and its result taken.  After a
\* Manager-run restore publishing the layer events may itself fail.
ExecPoll(id, eventsOk) ==
  /\ exec.at = "idle" /\ id \in jobs /\ St(id) = "Reaped"
  /\ rec' = Move(rec, id, "Acknowledged")
  /\ jobs' = jobs \ {id} /\ pending' = pending - 1
  /\ result' = [result EXCEPT ![id] =
                  IF RecOf(id).ok /\ eventsOk THEN "ok" ELSE "failed"]
  /\ UNCHANGED <<nextId, bank, dirty, closed, gone, calling, retire, exec,
                 worker, channel, manager, ran, scope>>

\* reap() of the executor: acknowledge, or give up once the peer is gone.
ExecRetire(id) ==
  /\ exec.at = "idle" /\ id \in retire
  /\ \/ St(id) = "Reaped" /\ rec' = Move(rec, id, "Acknowledged")
     \/ /\ PeerGone /\ St(id) \notin Running \cup {"Managed", "Reaped"}
        /\ UNCHANGED rec
  /\ retire' = retire \ {id}
  /\ UNCHANGED <<nextId, bank, dirty, closed, gone, calling, jobs, pending,
                 exec, worker, result, channel, manager, ran, scope>>

WorkerIdle == exec.at = "idle" /\ jobs = {}

\* Tensors and CUDA mappings go once the thread is told to stop and owns no job.
WorkerReleases ==
  /\ worker = "stopping" /\ WorkerIdle
  /\ worker' = "released"
  /\ UNCHANGED <<shared, closed, gone, calling, jobs, retire, pending, exec,
                 result, channel, manager, ran, scope>>

-----------------------------------------------------------------------------
(* The Manager's dispatcher. *)

\* claim(): admission of the request, once, before any lease is consumed.
DispatchClaim(id) ==
  /\ alive /\ disp = 0 /\ id \in wire
  /\ wire' = wire \ {id}
  /\ IF session /\ St(id) = "Reserved"
       THEN rec' = Move(rec, id, "Preparing") /\ disp' = id
       ELSE UNCHANGED <<rec, disp, scope>>
  /\ UNCHANGED <<nextId, bank, dirty, engine, acks, alive, session, src, part,
                 mng, plans, reaper, ran, scope>>

Reject(r, id) == Settle(r, id, "Reaped", FALSE)

\* A plan part of index p takes p words of the bank.
PlanSize(p) == p
PlanBytes(id) == (part[id][2] * (part[id][2] + 1)) \div 2
Owned == {id \in Ops : src[id] \in {"queued", "held", "quarantined"}}
MetaUsed == FoldSet(LAMBDA id, n : n + PlanBytes(id), 0, Owned)

MetaFits(n) == MetaUsed + (n * (n + 1)) \div 2 <= scope.meta

\* install(): the metadata permit, then the reaper's queue; either may refuse.
Install(id, n) ==
  /\ part' = [part EXCEPT ![id] = <<1, n>>]
  /\ IF MetaFits(n) /\ rp # "dead"
       THEN /\ src' = [src EXCEPT ![id] = "queued"]
            /\ incoming' = Append(incoming, id) /\ UNCHANGED rec
       ELSE /\ src' = [src EXCEPT ![id] = "released"]
            /\ rec' = Reject(rec, id) /\ UNCHANGED incoming

\* execute_restore: an engine-local grant, a Manager-run task, or an error.
DispatchPrepare ==
  /\ alive /\ disp # 0
  /\ disp' = 0 /\ acks' = acks \cup {disp}
  /\ \/ /\ disp \notin Managing /\ UNCHANGED mng
        /\ \E n \in 1 .. MaxParts[disp] : Install(disp, n)
     \/ /\ disp \in Managing
        /\ mng' = [mng EXCEPT ![disp] = "submitted"]
        /\ UNCHANGED <<rec, src, part, incoming, scope>>
     \/ /\ rec' = Reject(rec, disp)
        /\ UNCHANGED <<src, part, incoming, mng, scope>>
  /\ UNCHANGED <<nextId, bank, dirty, engine, wire, alive, session, plans,
                 pendq, bits, connected, rp, ran, scope>>

\* The liveness poll drops the session, and with it the reaper's sender.
DropSession ==
  /\ alive /\ disp = 0 /\ session /\ closed
  /\ session' = FALSE
  /\ UNCHANGED <<shared, engine, channel, alive, disp, src, part, mng, plans,
                 reaper, ran, scope>>

\* publish(): the record belongs to the Manager's worker from here on.
ManagedStarts(id) ==
  /\ alive /\ mng[id] = "submitted" /\ St(id) \in Admitting
  /\ rec' = Move(rec, id, "Managed") /\ mng' = [mng EXCEPT ![id] = "awaiting"]
  /\ UNCHANGED <<nextId, bank, dirty, engine, channel, alive, session, disp,
                 src, part, plans, reaper, ran, scope>>

ManagedEnds(id, ok) ==
  /\ alive /\ mng[id] = "awaiting" /\ St(id) = "Managed"
  /\ rec' = Settle(rec, id, "Reaped", ok)
  /\ mng' = [mng EXCEPT ![id] = IF ok THEN "completed" ELSE "failed"]
  /\ UNCHANGED <<nextId, bank, dirty, engine, channel, alive, session, disp,
                 src, part, plans, reaper, ran, scope>>

\* Mutant: a lost outcome is published as a failure.
ManagedLostFails(id) ==
  /\ "outcome" \in scope.faults /\ alive /\ mng[id] = "awaiting"
  /\ mng' = [mng EXCEPT ![id] = "lost"] /\ rec' = Reject(rec, id)
  /\ UNCHANGED <<nextId, bank, dirty, engine, channel, alive, session, disp,
                 src, part, plans, reaper, ran, scope>>

\* A lost outcome proves nothing about the GPU pages: the record stays.
ManagedLost(id) ==
  /\ "outcome" \in scope.faults /\ alive /\ mng[id] = "awaiting"
  /\ mng' = [mng EXCEPT ![id] = "lost"]
  /\ UNCHANGED <<shared, engine, channel, alive, session, disp, src, part,
                 plans, reaper, ran, scope>>

ManagerExits ==
  /\ "manager" \in scope.faults /\ alive /\ alive' = FALSE
  /\ UNCHANGED <<shared, engine, channel, session, disp, src, part, mng, plans,
                 reaper, ran, scope>>

-----------------------------------------------------------------------------
(* The Manager's reaper task: one pass of its loop is a wake-up, the dirty   *)
(* records, then the pending plans.                                          *)

Held == {id \in Ops : src[id] = "held"}

\* revoke(): an unclaimed grant, or a drained part, can no longer be claimed.
Revocable(id) == St(id) \in Granting \cup {"PartDrained"}
RevokeAll(ids) ==
  [s \in SlotIds |-> IF \E id \in ids : SlotOf(id) = s /\ Revocable(id)
                       THEN [rec[s] EXCEPT !.st = "Revoked"] ELSE rec[s]]
RevokedSlots(ids) == {SlotOf(id) : id \in {k \in ids : Revocable(k)}}

\* Drop of a SourceGrant: sources an engine may still be reading are forgotten.
DropVerdict(id) ==
  IF St(id) \in Running \cup {"Stale"} THEN "quarantined" ELSE "released"

\* manager_updates() swaps the dirty bits before it looks at any record.
TakeBits(d) == bits' = d /\ dirty' = {} /\ rp' = "update"

ReapReceive ==
  /\ alive /\ rp = "select" /\ connected /\ incoming # <<>>
  /\ src' = [src EXCEPT ![Head(incoming)] = "held"]
  /\ incoming' = Tail(incoming) /\ pendq' = Append(pendq, Head(incoming))
  /\ TakeBits(dirty)
  /\ UNCHANGED <<rec, nextId, bank, engine, channel, alive, session, disp,
                 part, mng, plans, connected, ran, scope>>

Queued == {pendq[i] : i \in 1 .. Len(pendq)}

\* Grants whose plan is not yet published.
Unpublished == Queued

\* recv() returned None: unpublished grants are rejected, the rest revoked.
ReapDisconnect ==
  /\ alive /\ rp = "select" /\ connected /\ incoming = <<>> /\ ~session
  /\ connected' = FALSE /\ pendq' = <<>>
  /\ LET waiting == Unpublished
         rest == Held \ waiting
     IN  /\ src' = [id \in Ops |-> IF id \in waiting THEN DropVerdict(id) ELSE src[id]]
         /\ rec' = [s \in SlotIds |->
                      IF \E id \in waiting : SlotOf(id) = s
                        THEN [rec[s] EXCEPT !.st = "Reaped", !.ok = FALSE]
                        ELSE RevokeAll(rest)[s]]
         /\ TakeBits(dirty \cup RevokedSlots(rest))
  /\ UNCHANGED <<nextId, bank, engine, channel, alive, session, disp, part, mng,
                 plans, incoming, ran, scope>>

\* The eventfd, or the maintenance tick while any grant is held.
ReapWake ==
  /\ alive /\ rp = "select" /\ (dirty # {} \/ Held # {})
  /\ TakeBits(dirty)
  /\ UNCHANGED <<rec, nextId, bank, engine, channel, alive, session, disp, src,
                 part, mng, plans, incoming, pendq, connected, ran, scope>>

\* release_plan(): a running part gives its words back once copied.
PlanReturns(r) ==
  \/ r.st \in {"PartDrained", "Drained", "Revoked"}
  \/ r.st \in Running /\ r.copied

\* A drained part: only the winner of continue_local() advances the plan.
UpdatePart(id) ==
  IF ~connected
    THEN /\ rec' = Move(rec, id, "Revoked") /\ dirty' = dirty \cup {SlotOf(id)}
         /\ UNCHANGED <<part, pendq, src, scope>>
    ELSE /\ UNCHANGED dirty
         /\ IF id \in Held /\ part[id][1] < part[id][2]
              THEN /\ rec' = Move(rec, id, "Preparing")
                   /\ part' = [part EXCEPT ![id][1] = @ + 1]
                   /\ pendq' = Append(pendq, id) /\ UNCHANGED src
              ELSE /\ rec' = Reject(rec, id)
                   /\ src' = [src EXCEPT ![id] = IF @ = "held" THEN "released" ELSE @]
                   /\ UNCHANGED <<part, pendq, scope>>

\* A drained or revoked grant: sources first, then the record.
UpdateEnd(id) ==
  /\ IF id \in Held
       THEN /\ src' = [src EXCEPT ![id] = "released"]
            /\ rec' = Settle(rec, id, "Reaped", St(id) = "Drained" /\ RecOf(id).ok)
       ELSE UNCHANGED <<src, rec, scope>>
  /\ UNCHANGED <<part, pendq, dirty, scope>>

ReapUpdate ==
  /\ alive /\ rp = "update" /\ bits # {}
  /\ LET s == CHOOSE b \in bits : \A c \in bits : b <= c
         id == rec[s].id
     IN  /\ bits' = bits \ {s}
         /\ plans' = IF PlanReturns(rec[s]) THEN [plans EXCEPT ![id] = {}] ELSE plans
         /\ CASE rec[s].st = "PartDrained" -> UpdatePart(id)
              [] rec[s].st \in {"Drained", "Revoked"} -> UpdateEnd(id)
              [] OTHER -> UNCHANGED <<rec, src, part, pendq, dirty, scope>>
  /\ UNCHANGED <<nextId, bank, engine, channel, alive, session, disp, mng,
                 incoming, connected, rp, ran, scope>>

ReapUpdated ==
  /\ alive /\ rp = "update" /\ bits = {} /\ rp' = "publish"
  /\ UNCHANGED <<shared, engine, channel, alive, session, disp, src, part, mng,
                 plans, incoming, pendq, bits, connected, ran, scope>>

\* publish_local() places a plan first-fit among the live ranges.
TakenWords == UNION {plans[id] : id \in Ops}
Starts(n) == {w \in Words : w + n - 1 <= PlanRoom
                            /\ (w .. w + n - 1) \cap TakenWords = {}}
FirstFit(n) == LET w == CHOOSE a \in Starts(n) : \A b \in Starts(n) : a <= b
               IN  w .. w + n - 1

\* The words, the record's fields, the private map, and last the transition.
PublishLocal(id) ==
  LET words == FirstFit(PlanSize(part[id][1]))
  IN  /\ bank' = [w \in Words |-> IF w \in words THEN <<id, part[id][1]>> ELSE bank[w]]
      /\ plans' = [plans EXCEPT ![id] = words]
      /\ rec' = [rec EXCEPT ![SlotOf(id)].words = words,
                            ![SlotOf(id)].copied = FALSE,
                            ![SlotOf(id)].st = IF part[id][1] < part[id][2]
                                                 THEN "GrantedMore" ELSE "Granted"]

Fits(id) == Starts(PlanSize(part[id][1])) # {}

ReapPublish ==
  /\ alive /\ rp = "publish" /\ pendq # <<>>
  /\ LET id == Head(pendq) IN
       /\ id \in Held /\ St(id) = "Preparing" => Fits(id)
       /\ CASE id \notin Held -> UNCHANGED <<rec, bank, plans, src, scope>>
            [] id \in Held /\ St(id) = "Preparing" ->
                 PublishLocal(id) /\ UNCHANGED src
            [] OTHER ->
                 /\ rec' = Reject(rec, id)
                 /\ src' = [src EXCEPT ![id] = DropVerdict(id)]
                 /\ UNCHANGED <<bank, plans, scope>>
  /\ pendq' = Tail(pendq)
  /\ UNCHANGED <<nextId, dirty, engine, channel, alive, session, disp, part, mng,
                 incoming, bits, connected, rp, ran, scope>>

\* Mutant: a disconnected task ends with grants in its map.
PassesDoneEarly == ~connected

PassesDone == ~connected /\ Held = {}

\* Nothing left to publish, or no room (PlanFull): back to the wait, or out.
ReapPassEnds ==
  /\ alive /\ rp = "publish"
  /\ pendq # <<>> => LET id == Head(pendq) IN
                       id \in Held /\ St(id) = "Preparing" /\ ~Fits(id)
  /\ rp' = IF PassesDone THEN "exited" ELSE "select"
  /\ UNCHANGED <<shared, engine, channel, alive, session, disp, src, part, mng,
                 plans, incoming, pendq, bits, connected, ran, scope>>

\* The notification failed: the task returns and drops every grant it owns.
ReaperFails ==
  /\ "reaper" \in scope.faults /\ alive /\ rp = "select" /\ rp' = "dead"
  /\ LET owned == {id \in Ops : src[id] \in {"queued", "held"}}
         free == {id \in owned : St(id) \in Granting}
     IN  /\ src' = [id \in Ops |-> IF id \in owned THEN DropVerdict(id) ELSE src[id]]
         /\ rec' = RevokeAll(free) /\ dirty' = dirty \cup RevokedSlots(free)
  /\ incoming' = <<>> /\ pendq' = <<>>
  /\ UNCHANGED <<nextId, bank, engine, channel, alive, session, disp, part, mng,
                 plans, bits, connected, ran, scope>>

-----------------------------------------------------------------------------
CallStep == CallReturns \/ CallFails

ExecStep ==
  \/ ExecClaim \/ ExecCopyPlan \/ ExecSignal \/ WorkerReleases
  \/ \E ok \in BOOLEAN : ExecDrain(ok)
  \/ \E id \in Ops : \/ ExecSee(id) \/ ExecRetire(id)
                     \/ \E e \in BOOLEAN : ExecPoll(id, e)

DispatchStep == DispatchPrepare \/ DropSession \/ \E id \in Ops : DispatchClaim(id)

ManagedStep ==
  \E id \in Ops : \/ ManagedStarts(id) \/ ManagedLost(id)
                  \/ \E ok \in BOOLEAN : ManagedEnds(id, ok)

ReaperStep ==
  \/ ReapReceive \/ ReapDisconnect \/ ReapWake \/ ReapUpdate \/ ReapUpdated
  \/ ReapPublish \/ ReapPassEnds

Next ==
  \/ StartRestore \/ StartFull \/ Shutdown \/ DropWorker
  \/ CallStep \/ ExecStep \/ DispatchStep \/ ManagedStep \/ ReaperStep
  \/ EngineExits \/ ReaperFails \/ ManagerExits

Spec == Init /\ [][Next]_vars

\* Every thread and task is scheduled: start_restore's call is bounded by its
\* timeout, the dispatcher, the executor thread and the reaper loop, and select! draws its ready branch at random,
\* so a queued grant is not passed over forever.  Faults and new requests need never happen.
Fairness ==
  /\ WF_vars(scope.live /\ CallStep) /\ WF_vars(scope.live /\ ExecStep)
  /\ WF_vars(scope.live /\ DispatchStep) /\ WF_vars(scope.live /\ ManagedStep)
  /\ WF_vars(scope.live /\ ReaperStep)
  /\ SF_vars(scope.live /\ (ReapReceive \/ ReapDisconnect))

FairSpec == Spec /\ Fairness

-----------------------------------------------------------------------------
(* Properties. *)

TypeOK ==
  /\ rec \in [SlotIds -> [id : 0 .. MaxOps, st : GrantStates, ok : BOOLEAN,
                          words : SUBSET Words, copied : BOOLEAN]]
  /\ nextId \in 1 .. MaxOps + Slots /\ dirty \subseteq SlotIds /\ bits \subseteq SlotIds
  /\ jobs \subseteq Ops /\ retire \subseteq Ops /\ pending \in 0 .. MaxPending
  /\ calling \in 0 .. MaxOps /\ disp \in 0 .. MaxOps
  /\ worker \in {"running", "stopping", "released"}
  /\ result \in [Ops -> {"none", "refused", "ok", "failed"}]
  /\ src \in [Ops -> {"none", "queued", "held", "quarantined", "released"}]
  /\ rp \in {"select", "update", "publish", "exited", "dead"}
  /\ MetaUsed <= scope.meta

\* Sources the engine may be reading are never freed: from the claim to the
\* drain of a part (claim_local to drained) the reaper holds the grant, or it
\* has been quarantined by Drop, whatever session, task or caller ended.
SourceOutlivesCopy ==
  alive => \A id \in Ops :
             St(id) \in Running => src[id] \in {"held", "quarantined"}

\* The copies an executor runs are those of its own operation and of the part
\* just granted: release_plan and publish_local never recycle words of the
\* bank that a claimer has still to read.
PlanCopyIsOwn ==
  exec.at = "dma" => exec.plan = {<<exec.op, part[exec.op][1]>>}

\* A success the caller sees means every part of the plan was copied, or that
\* the Manager's worker completed: no earlier part's result, and no earlier
\* tenant's result of the same record, is ever taken for it.
SuccessIsWhole ==
  \A id \in Ops :
    result[id] = "ok" => \/ mng[id] = "completed"
                         \/ ran[id] = part[id][2] /\ ran[id] > 0

\* Once a caller is told any outcome nothing writes its pages: neither the
\* executor nor a Manager worker, also not one whose outcome was lost.
ReportedIsQuiet ==
  \A id \in Ops : result[id] # "none" =>
    /\ ~(exec.op = id /\ exec.at \in {"claimed", "dma"})
    /\ mng[id] \notin {"submitted", "awaiting", "lost"}

\* "Only cancellation before admission proves the operation never ran":
\* an operation start_restore refuses has consumed no lease.
RefusedNeverRan ==
  \A id \in Ops :
    result[id] = "refused" => src[id] = "none" /\ mng[id] = "none" /\ disp # id

\* A record is settled only after its sources were returned (reap, reject):
\* a caller that acknowledges cannot leave a pinned source behind.
SettledIsReleased ==
  \A id \in Ops :
    St(id) \in {"Reaped", "Acknowledged"} => src[id] \in {"none", "released"}

\* Losing the session alone quarantines nothing; only a failed reaper task
\* leaves sources behind that no drain can return.
QuarantineNeedsFailure ==
  (\E id \in Ops : src[id] = "quarantined") => rp = "dead"

\* Tensors and CUDA mappings are dropped only when no accepted operation, of
\* this executor or run by the Manager for it, can still write them.
TensorsLast ==
  worker = "released" /\ ~gone =>
    /\ jobs = {} /\ exec.at = "idle"
    /\ \A id \in Ops : mng[id] \notin {"submitted", "awaiting", "lost"}

\* wait_drained() may trust the reservation counter.
PendingIsExact ==
  ~gone => pending = Cardinality(jobs) + IF calling = 0 THEN 0 ELSE 1

\* A record changes hands only when nobody of its last operation is left: no
\* job, no retirement, no dispatcher, no source (reserve after Acknowledged).
SlotReuseIsSafe ==
  [][\A s \in SlotIds :
       LET old == rec[s].id IN
         rec'[s].id # old /\ old # 0 =>
           /\ old \notin jobs \cup retire /\ old # disp /\ old # exec.op
           /\ src[old] \in {"none", "released"}]_vars

\* Every accepted operation ends for its caller, connected or not, unless the
\* Manager exits, its reaper fails or the outcome of a Manager-run copy is lost
\* (ids are never used twice, so the jobs left in the end were never reported).
JobsEnd ==
  scope.live => <>[](\A id \in jobs : ~alive \/ rp = "dead" \/ mng[id] = "lost")

\* Every source is returned or quarantined: no dirty bit and no pending plan is
\* forgotten by the reaper.  The exception is an engine that died after its
\* claim, or between the drain transition and the dirty bit that follows it.
SourcesReturn ==
  scope.live => <>[](\A id \in Ops : src[id] \in {"queued", "held"} =>
    ~alive \/ (gone /\ St(id) \in Running \cup {"Drained", "PartDrained"}))

-----------------------------------------------------------------------------
(* What is checked                                                           *)

\* Sources, plan words, target pages and tensors all outlive the copies that use them, whichever
\* process, session or task ends first (completion.rs, endpoint/restore.rs, local_restore.rs).
CopiesAreSafe ==
  /\ SourceOutlivesCopy
  /\ PlanCopyIsOwn
  /\ ReportedIsQuiet
  /\ TensorsLast

\* What is reported of an operation is what happened to it, to the caller, in the record and in the
\* counter of reservations (settle, reap, start_restore).
OutcomesAreTrue ==
  /\ TypeOK
  /\ SuccessIsWhole
  /\ RefusedNeverRan
  /\ SettledIsReleased
  /\ QuarantineNeedsFailure
  /\ PendingIsExact

\* Operations end for their callers and their sources come back (reaper passes, dirty bits).
RestoresEnd ==
  /\ JobsEnd
  /\ SourcesReturn
=============================================================================
