---------------------------- MODULE PublishPath ----------------------------
(***************************************************************************)
(* How an engine process hands GPU pages to the Cache Manager: the Python   *)
(* client's bounded save handles, the publish connection of the channel     *)
(* (bootstrap, one arena slot per session, call lock, chunked descriptors), *)
(* the Manager's dispatcher with its counted publish tasks, the GPU save    *)
(* lane with its admission budget, and the drain at shutdown.               *)
(*                                                                          *)
(* A save's GPU pages may be overwritten by the engine as soon as the call  *)
(* that publishes them returns.  The whole path exists so that this never   *)
(* happens while the Manager may still copy from them: a call whose outcome *)
(* is not proven is parked for ever instead of returning.                   *)
(*                                                                          *)
(* scope.rank is the pipeline rank of a save's registration, scope.layers   *)
(* the number of blocks it saves of each layer.                             *)
(***************************************************************************)
EXTENDS Integers, Sequences, FiniteSets, FiniteSetsExt, Functions, TLC

CONSTANTS
  Clients,      \* engine processes
  Scopes        \* the small instances; one is chosen in Init

ASSUME ScopesAssumption ==
  \A x \in Scopes :
    /\ x.saves \subseteq (Nat \ {0}) /\ IsFiniteSet(x.saves)
    /\ x.owner \in [x.saves -> Clients]
    /\ \A s \in x.saves : x.layers[s] \in Seq(Nat)
    /\ x.slots \in Nat \ {0}

VARIABLES
  scope,   \* the chosen instance
  sv,      \* saves: handle and publishing thread
  ch,      \* per client: publisher channel, CacheClient and PyO3 state
  arena,   \* the shared slots: generation word and payload
  queue,   \* saves whose request waits in the service
  reply,   \* per save: the response on its way
  sess,    \* the dispatcher's sessions, by token
  tasks,   \* the Manager's publish tasks
  srv,     \* dispatcher, ActiveTasks, drain, device pool
  alive,   \* engine processes that run
  late,    \* a closed channel's writer touched a slot it no longer owned
  ran      \* outcomes of executed chunks (history)

vars == <<scope, sv, ch, arena, queue, reply, sess, tasks, srv, alive, late, ran>>

Saves == scope.saves
Owner(s) == scope.owner[s]
Slots == 1..scope.slots
Fault(f) == f \in scope.faults

MaxChunks == 4

NoPay == [kind |-> "none", s |-> 0, k |-> 0]
Req(s, k) == [kind |-> "request", s |-> s, k |-> k]
Resp(s, k) == [kind |-> "response", s |-> s, k |-> k]
NoReply == [status |-> "none", consumed |-> FALSE]

(***************************************************************************)
(* The Python client: PendingSave handles, SAVE_USAGE, close.               *)
(***************************************************************************)

NewSave == [pc |-> "idle", chunk |-> 0, gen |-> 0, members |-> {}, out |-> "none",
            parts |-> <<>>, res |-> "none", hold |-> {}, prep |-> FALSE, charged |-> FALSE]

Mine(c) == {s \in Saves : Owner(s) = c}

\* PendingSave::complete: the first result stays.
Complete(v, r) == [v EXCEPT !.res = IF @ = "none" THEN r ELSE @]

\* One holder of the Arc lets go; Drop gives the charge back with the last.
Release(v, who) ==
  LET rest == v.hold \ who
  IN  [v EXCEPT !.hold = rest, !.charged = @ /\ rest # {}]

\* The charges given back when the saves become new.
Returned(c, new) ==
  Cardinality({s \in Mine(c) : sv[s].charged /\ ~new[s].charged})

\* Finished entries leave the client's map.
Sweep(c) ==
  [s \in Saves |-> IF s \in Mine(c) /\ sv[s].res # "none"
                   THEN Release(sv[s], {"map"}) ELSE sv[s]]

\* prepare_save: refused when the process has its limit of pending saves.
PrepareSave(s) ==
  LET c == Owner(s)
      swept == Sweep(c)
      used == ch[c].usage - Returned(c, swept)
  IN  /\ alive[c] /\ sv[s].pc = "idle" /\ scope.mode[s] = "handle"
      /\ ch[c].py = "open"
      /\ IF used >= scope.pending
         THEN /\ sv' = swept
              /\ ch' = [ch EXCEPT ![c].usage = used]
         ELSE /\ sv' = [swept EXCEPT ![s] = [@ EXCEPT !.pc = "held", !.prep = TRUE,
                          !.charged = TRUE, !.hold = {"map", "handle"}]]
              /\ ch' = [ch EXCEPT ![c].usage = used + 1]
      /\ UNCHANGED <<scope, arena, queue, reply, sess, tasks, srv, alive, late, ran>>

\* A prepared save that ends without a thread.
NotSubmitted(v) == [Complete(v, "err") EXCEPT !.prep = FALSE, !.pc = "done"]

\* cancel_save, by the owner of the handle.
CancelSave(s) ==
  /\ alive[Owner(s)] /\ sv[s].prep /\ "handle" \in sv[s].hold
  /\ sv' = [sv EXCEPT ![s] = NotSubmitted(@)]
  /\ UNCHANGED <<scope, ch, arena, queue, reply, sess, tasks, srv, alive, late, ran>>

\* wait_pending_saves takes what nobody submitted.
RetireSave(s) ==
  /\ alive[Owner(s)] /\ ch[Owner(s)].py = "closing" /\ sv[s].prep
  /\ sv' = [sv EXCEPT ![s] = NotSubmitted(@)]
  /\ UNCHANGED <<scope, ch, arena, queue, reply, sess, tasks, srv, alive, late, ran>>

\* submit_saves: all or none; one thread publishes the merged request.
SubmitSaves(G) ==
  LET leader == Min(G)
      mixed == \E s, t \in G : scope.rank[s] # scope.rank[t]
  IN  /\ \A s \in G : /\ sv[s].prep /\ "handle" \in sv[s].hold
                      /\ Owner(s) = Owner(leader) /\ alive[Owner(s)]
      /\ \/ /\ mixed \/ Fault("spawn")
            /\ sv' = [s \in Saves |-> IF s \in G THEN NotSubmitted(sv[s]) ELSE sv[s]]
         \/ /\ ~mixed
            /\ sv' = [s \in Saves |->
                 IF s \notin G THEN sv[s]
                 ELSE [sv[s] EXCEPT !.prep = FALSE, !.hold = @ \cup {"thread"},
                         !.pc = IF s = leader THEN "connect" ELSE "member",
                         !.members = IF s = leader THEN G ELSE {}]]
      /\ UNCHANGED <<scope, ch, arena, queue, reply, sess, tasks, srv, alive, late, ran>>

\* save: the blocking form publishes in the caller's thread, with no handle.
SaveNow(s) ==
  /\ alive[Owner(s)] /\ sv[s].pc = "idle" /\ scope.mode[s] = "blocking"
  /\ ch[Owner(s)].py = "open"
  /\ sv' = [sv EXCEPT ![s] = [@ EXCEPT !.pc = "connect", !.members = {s}, !.hold = {"thread"}]]
  /\ UNCHANGED <<scope, ch, arena, queue, reply, sess, tasks, srv, alive, late, ran>>

\* Python lets the handle go.
DropHandle(s) ==
  LET c == Owner(s)
      new == [sv EXCEPT ![s] = Release(@, {"handle"})]
  IN  /\ alive[c] /\ "handle" \in sv[s].hold
      /\ sv' = new
      /\ ch' = [ch EXCEPT ![c].usage = @ - Returned(c, new)]
      /\ UNCHANGED <<scope, arena, queue, reply, sess, tasks, srv, alive, late, ran>>

\* The publishing thread drops its owners, then completes every member.
ReportSave(s) ==
  LET c == Owner(s)
      new == [t \in Saves |->
                IF t \notin sv[s].members THEN sv[t]
                ELSE [Release(Complete(sv[t], sv[s].out), {"thread"}) EXCEPT !.pc = "done"]]
  IN  /\ alive[c] /\ sv[s].pc = "report"
      /\ sv' = new
      /\ ch' = [ch EXCEPT ![c].usage = @ - Returned(c, new)]
      /\ UNCHANGED <<scope, arena, queue, reply, sess, tasks, srv, alive, late, ran>>

\* close holds `local`: no save is prepared any more.
CloseBegins(c) ==
  /\ Fault("close") /\ alive[c] /\ ch[c].py = "open"
  /\ ch' = [ch EXCEPT ![c].py = "closing"]
  /\ UNCHANGED <<scope, sv, arena, queue, reply, sess, tasks, srv, alive, late, ran>>

\* Every pending handle has its result; CacheClient::close then refuses new
\* publishes.
CloseMarks(c) ==
  /\ alive[c] /\ ch[c].py = "closing"
  /\ \A s \in Mine(c) : "map" \in sv[s].hold => sv[s].res # "none"
  /\ ch' = [ch EXCEPT ![c].py = "marked", ![c].closed = TRUE]
  /\ UNCHANGED <<scope, sv, arena, queue, reply, sess, tasks, srv, alive, late, ran>>

\* ChannelClient::close: the flag and the socket, without the call lock.
Shut(x) == [x EXCEPT !.poisoned = TRUE, !.up = FALSE]

\* CacheClient::close reaches the publisher once its mutex is free.
CloseEnds(c) ==
  /\ alive[c] /\ ch[c].py = "marked" /\ ch[c].st \in {"none", "open"}
  /\ ch' = [ch EXCEPT ![c] = [(IF @.st = "open" THEN Shut(@) ELSE @) EXCEPT !.py = "closed"]]
  /\ UNCHANGED <<scope, sv, arena, queue, reply, sess, tasks, srv, alive, late, ran>>

(***************************************************************************)
(* The publish connection: bootstrap, the arena slot, one call at a time.   *)
(***************************************************************************)

NewChannel == [st |-> "none", token |-> 0, slot |-> 1, gen |-> 0, poisoned |-> FALSE,
               up |-> FALSE, lock |-> 0, broken |-> FALSE, active |-> 0, retained |-> 0,
               closed |-> FALSE, usage |-> 0, py |-> "open", dialer |-> 0]

\* The call ended without an answer that proves anything was submitted.
Failed(v) == [v EXCEPT !.pc = "leave", !.out = "err"]

\* publish_inner, holding the publisher mutex.
GetPublisher(s) ==
  LET c == Owner(s)
  IN  /\ alive[c] /\ sv[s].pc = "connect" /\ ch[c].st \in {"none", "open"}
      /\ \/ /\ ch[c].closed
            /\ sv' = [sv EXCEPT ![s].pc = "report", ![s].out = "err"]
            /\ UNCHANGED ch
         \/ /\ ~ch[c].closed /\ ch[c].st = "open"
            /\ sv' = [sv EXCEPT ![s].pc = "enter"]
            /\ UNCHANGED ch
         \/ /\ ~ch[c].closed /\ ch[c].st = "none"
            /\ sv' = [sv EXCEPT ![s].pc = "dial"]
            /\ ch' = [ch EXCEPT ![c].st = "dialing", ![c].dialer = s]
      /\ UNCHANGED <<scope, arena, queue, reply, sess, tasks, srv, alive, late, ran>>

\* BootstrapClient::connect has the mapping and its first generation.
ConnectEnds(s) ==
  LET c == Owner(s)
  IN  /\ alive[c] /\ sv[s].pc = "dial" /\ ch[c].st = "offered"
      /\ sv' = [sv EXCEPT ![s].pc = "enter"]
      /\ ch' = [ch EXCEPT ![c].st = "open", ![c].dialer = 0]
      /\ UNCHANGED <<scope, arena, queue, reply, sess, tasks, srv, alive, late, ran>>

\* The connection is refused, lost, or never accepted by a closing Manager.
ConnectFails(s) ==
  LET c == Owner(s)
  IN  /\ alive[c] /\ sv[s].pc = "dial"
      /\ Fault("connect") \/ ch[c].st = "refused" \/ ~srv.up \/ (srv.closed /\ ch[c].st = "dialing")
      /\ sv' = [sv EXCEPT ![s].pc = "report", ![s].out = "err"]
      /\ ch' = [ch EXCEPT ![c].st = "none", ![c].dialer = 0, ![c].up = FALSE]
      /\ UNCHANGED <<scope, arena, queue, reply, sess, tasks, srv, alive, late, ran>>

\* The layers of merged saves; a layer keeps one list of blocks.
Merged(G) == [l \in 1..Len(scope.layers[Min(G)]) |-> MapThenSumSet(LAMBDA s : scope.layers[s][l], G)]

\* encoded_len of blocks a..b-1: a header, and per layer that has any of them
\* a name and the blocks.
EncodedLen(m, a, b) ==
  LET in == {l \in 1..Len(m) : a < m[l]}
  IN  1 + MapThenSumSet(LAMBDA l : 1 + (IF b < m[l] THEN b ELSE m[l]) - a, in)

\* block_payload_len: what block e adds to the layers that reach it.
BlockLen(m, e) == Cardinality({l \in 1..Len(m) : e < m[l]})

\* publish_payloads: the ends of the greedy chunks, empty when one block
\* alone does not fit.
PublishPayloads(m, capacity) ==
  LET count == Max({m[l] : l \in 1..Len(m)})
      grow[e \in 1..count, len \in 0..capacity] ==
        IF e = count \/ BlockLen(m, e) > capacity - len THEN e
        ELSE grow[e + 1, len + BlockLen(m, e)]
      cut[a \in 0..count] ==
        IF a = count THEN <<>>
        ELSE LET len == EncodedLen(m, a, a + 1)
             IN  IF len > capacity THEN <<0>>
                 ELSE LET e == grow[a + 1, len] IN <<e>> \o cut[e]
  IN  IF EncodedLen(m, 0, count) <= capacity THEN <<count>>
      ELSE IF 0 \in Range(cut[0]) THEN <<>> ELSE cut[0]

\* publish: bounded number of callers, counted until each one leaves.
EnterPublish(s) ==
  LET c == Owner(s)
      parts == PublishPayloads(Merged(sv[s].members), scope.capacity)
  IN  /\ alive[c] /\ sv[s].pc = "enter"
      /\ IF parts = <<>> \/ ch[c].active >= scope.callers
         THEN /\ sv' = [sv EXCEPT ![s].pc = "report", ![s].out = "err"]
              /\ UNCHANGED ch
         ELSE /\ sv' = [sv EXCEPT ![s] = [@ EXCEPT !.pc = "call", !.chunk = 1, !.parts = parts]]
              /\ ch' = [ch EXCEPT ![c].active = @ + 1]
      /\ UNCHANGED <<scope, arena, queue, reply, sess, tasks, srv, alive, late, ran>>

LeavePublish(s) ==
  LET c == Owner(s)
  IN  /\ alive[c] /\ sv[s].pc = "leave"
      /\ sv' = [sv EXCEPT ![s].pc = "report"]
      /\ ch' = [ch EXCEPT ![c].active = @ - 1]
      /\ UNCHANGED <<scope, arena, queue, reply, sess, tasks, srv, alive, late, ran>>

\* call_descriptor takes the call lock; a poisoned session submits nothing.
TakeCallLock(s) ==
  LET c == Owner(s)
  IN  /\ alive[c] /\ sv[s].pc = "call" /\ ch[c].lock = 0
      /\ IF ch[c].broken \/ ch[c].poisoned
         THEN sv' = [sv EXCEPT ![s] = Failed(@)] /\ UNCHANGED ch
         ELSE /\ sv' = [sv EXCEPT ![s].pc = "clear", ![s].gen = ch[c].gen]
              /\ ch' = [ch EXCEPT ![c].lock = s]
      /\ UNCHANGED <<scope, arena, queue, reply, sess, tasks, srv, alive, late, ran>>

\* The channel's session is still the one its slot was given to.
OwnsSlot(c) == ch[c].token \in DOMAIN sess

\* DescriptorArena::write_at: the generation word is zero while bytes change.
WriteStep(s, from, to, word) ==
  LET c == Owner(s)
  IN  /\ alive[c] /\ sv[s].pc = from
      /\ sv' = [sv EXCEPT ![s].pc = to]
      /\ arena' = [arena EXCEPT ![ch[c].slot] = word]
      /\ late' = (late \/ ~OwnsSlot(c))
      /\ UNCHANGED <<scope, ch, queue, reply, sess, tasks, srv, alive, ran>>

Here(s) == arena[ch[Owner(s)].slot]
ClearSlot(s) == WriteStep(s, "clear", "fill", [Here(s) EXCEPT !.gen = 0])
FillSlot(s) == WriteStep(s, "fill", "seal", [Here(s) EXCEPT !.pay = Req(s, sv[s].chunk)])
SealSlot(s) == WriteStep(s, "seal", "send", [Here(s) EXCEPT !.gen = sv[s].gen])

\* The transport enqueues the command; the wake-up is only a hint.
SendRequest(s) ==
  /\ alive[Owner(s)] /\ sv[s].pc = "send" /\ srv.up
  /\ sv' = [sv EXCEPT ![s].pc = "wait"]
  /\ queue' = queue \cup {s}
  /\ UNCHANGED <<scope, ch, arena, reply, sess, tasks, srv, alive, late, ran>>

Unlock(x) == [x EXCEPT !.lock = 0]

\* request_not_submitted: nothing was enqueued, so nothing is retained.
SendFails(s) ==
  /\ alive[Owner(s)] /\ sv[s].pc = "send" /\ (Fault("send") \/ ~srv.up)
  /\ sv' = [sv EXCEPT ![s] = Failed(@)]
  /\ ch' = [ch EXCEPT ![Owner(s)] = Unlock(Shut(@))]
  /\ UNCHANGED <<scope, arena, queue, reply, sess, tasks, srv, alive, late, ran>>

\* mark_publish_retained, then the caller parks for ever.
Retain(s, x) ==
  /\ sv' = [sv EXCEPT ![s].pc = "retained"]
  /\ ch' = [ch EXCEPT ![Owner(s)] = [Unlock(x) EXCEPT !.retained = @ + 1]]

\* Generation g answered: the next request uses g + 2.
CompleteRequest(x) == [Unlock(x) EXCEPT !.gen = @ + 2]

\* read_response: the slot holds generation g + 1 and the reply to it.
ResponseThere(s) == Here(s).gen = sv[s].gen + 1 /\ Here(s).pay.kind = "response"

\* What a caller does with the response to its chunk.
ReceiveReply(s) ==
  LET c == Owner(s)
      r == reply[s]
  IN  /\ alive[c] /\ sv[s].pc = "wait" /\ r.status # "none"
      /\ reply' = [reply EXCEPT ![s] = NoReply]
      /\ \/ /\ r.status = "ok" /\ r.consumed /\ ResponseThere(s)
            /\ sv' = [sv EXCEPT ![s] = IF @.chunk < Len(@.parts)
                        THEN [@ EXCEPT !.pc = "call", !.chunk = @ + 1]
                        ELSE [@ EXCEPT !.pc = "leave", !.out = "ok"]]
            /\ ch' = [ch EXCEPT ![c] = CompleteRequest(@)]
         \/ /\ r.status = "ok" /\ ~(r.consumed /\ ResponseThere(s))
            /\ Retain(s, Shut(ch[c]))
         \/ /\ r.status # "ok" /\ r.consumed
            /\ sv' = [sv EXCEPT ![s] = Failed(@)]
            /\ ch' = [ch EXCEPT ![c] = CompleteRequest(@)]
         \/ /\ r.status = "stale_session" /\ ~r.consumed
            /\ sv' = [sv EXCEPT ![s] = Failed(@)]
            /\ ch' = [ch EXCEPT ![c] = Unlock(Shut(@))]
         \/ /\ r.status = "stale_generation" /\ ~r.consumed
            /\ Retain(s, Shut(ch[c]))
      /\ UNCHANGED <<scope, arena, queue, sess, tasks, srv, alive, late, ran>>

\* The pidfd reports the Manager gone and the last poll found no response.
PeerExited(s) ==
  LET c == Owner(s)
  IN  /\ alive[c] /\ sv[s].pc = "wait" /\ ~srv.up /\ reply[s].status = "none"
      /\ Retain(s, Shut(ch[c]))
      /\ UNCHANGED <<scope, arena, queue, reply, sess, tasks, srv, alive, late, ran>>

CallUnwinds(s) ==
  /\ alive[Owner(s)] /\ Fault("unwind") /\ sv[s].pc \in {"clear", "send", "wait"}
  /\ sv' = [sv EXCEPT ![s] = Failed(@)]
  /\ ch' = [ch EXCEPT ![Owner(s)] = [Unlock(@) EXCEPT !.broken = TRUE]]
  /\ UNCHANGED <<scope, arena, queue, reply, sess, tasks, srv, alive, late, ran>>

\* A panic inside the call is caught; the lock it held is poisoned.
CallPanics(s) ==
  LET c == Owner(s)
  IN  /\ alive[c] /\ Fault("unwind") /\ sv[s].pc \in {"clear", "send", "wait"}
      /\ Retain(s, [ch[c] EXCEPT !.broken = TRUE])
      /\ UNCHANGED <<scope, arena, queue, reply, sess, tasks, srv, alive, late, ran>>

EngineExits(c) ==
  /\ Fault("engine") /\ alive[c]
  /\ alive' = [alive EXCEPT ![c] = FALSE]
  /\ ch' = [ch EXCEPT ![c].up = FALSE]
  /\ UNCHANGED <<scope, sv, arena, queue, reply, sess, tasks, srv, late, ran>>

(***************************************************************************)
(* The Manager's dispatcher: sessions, slots, admission of publish tasks.   *)
(***************************************************************************)

NewServer == [up |-> TRUE, disp |-> "top", next |-> 2, closed |-> FALSE, count |-> 0,
              permit |-> FALSE, drain |-> "no", pool |-> "open", ops |-> 0, kept |-> 0]

\* The loop looks at the admission flag before each pass.
LoopTop ==
  /\ srv.up /\ srv.disp = "top" /\ ~srv.closed
  /\ srv' = [srv EXCEPT !.disp = "body"]
  /\ UNCHANGED <<scope, sv, ch, arena, queue, reply, sess, tasks, alive, late, ran>>

InPass == srv.up /\ srv.disp = "body"

FreeSlots == {i \in Slots : \A t \in DOMAIN sess : sess[t].slot # i}

\* allocate_slot: the first request generation is odd and above every
\* generation the slot has seen.
FirstGeneration(g) == IF g % 2 = 0 THEN g + 1 ELSE g + 2

\* reset_slot
ResetSlot(g) == [gen |-> g, pay |-> NoPay]

\* BootstrapServer::accept: token, slot and first generation for the client.
Offer(x, i, g) == [x EXCEPT !.st = "offered", !.token = srv.next, !.slot = i, !.gen = g, !.up = TRUE]

\* accept_pending_sessions, for one waiting client.
AcceptSession(c) ==
  /\ InPass /\ ch[c].st = "dialing" /\ alive[c]
  /\ srv' = [srv EXCEPT !.disp = "top", !.next = IF FreeSlots = {} THEN @ ELSE @ + 2]
  /\ IF FreeSlots = {}
     THEN /\ ch' = [ch EXCEPT ![c].st = "refused"]
          /\ UNCHANGED <<arena, sess>>
     ELSE LET i == Min(FreeSlots)
              g == FirstGeneration(arena[i].gen)
          IN  /\ arena' = [arena EXCEPT ![i] = ResetSlot(g)]
              /\ sess' = sess @@ (srv.next :> [slot |-> i, gen |-> g])
              /\ ch' = [ch EXCEPT ![c] = Offer(@, i, g)]
  /\ UNCHANGED <<scope, sv, queue, reply, tasks, alive, late, ran>>

\* BootstrapSession::is_alive, by its socket.
IsAlive(t) == \E c \in Clients : ch[c].token = t /\ ch[c].up

\* The liveness poll drops dead sessions; Drop frees their slots.
LivenessPoll ==
  /\ InPass /\ \E t \in DOMAIN sess : ~IsAlive(t)
  /\ sess' = Restrict(sess, {t \in DOMAIN sess : IsAlive(t)})
  /\ srv' = [srv EXCEPT !.disp = "top"]
  /\ UNCHANGED <<scope, sv, ch, arena, queue, reply, tasks, alive, late, ran>>

\* BootstrapSession::validate_request
ValidGeneration(s) == sess[ch[Owner(s)].token].gen = sv[s].gen

\* DescriptorArena::read: the generation word matches before and after.
Readable(s) == arena[ch[Owner(s)].slot].gen = sv[s].gen

\* consume_descriptor: "ok" or the status of the first check that fails.
DescriptorStatus(s) ==
  IF ch[Owner(s)].token \notin DOMAIN sess THEN "stale_session"
  ELSE IF ValidGeneration(s) /\ Readable(s) THEN "ok" ELSE "stale_generation"

\* BootstrapSession::complete_request
Advance(x) == [x EXCEPT !.gen = @ + 2]

\* write_response, under the generation after the request's.
ResponseSlot(s) == [gen |-> sv[s].gen + 1, pay |-> Resp(s, sv[s].chunk)]

Refuse(s, status) == reply' = [reply EXCEPT ![s] = [status |-> status, consumed |-> FALSE]]

\* try_admit, consume, reply slot written, then the task is spawned.
DispatchPublish(s) ==
  LET t == ch[Owner(s)].token
      i == ch[Owner(s)].slot
  IN  /\ InPass /\ s \in queue
      /\ queue' = queue \ {s}
      /\ \/ /\ srv.closed
            /\ Refuse(s, "stale_session")
            /\ srv' = [srv EXCEPT !.disp = "top"]
            /\ UNCHANGED <<arena, sess, tasks>>
         \/ /\ ~srv.closed /\ DescriptorStatus(s) # "ok"
            /\ Refuse(s, DescriptorStatus(s))
            /\ srv' = [srv EXCEPT !.disp = "top"]
            /\ UNCHANGED <<arena, sess, tasks>>
         \/ /\ ~srv.closed /\ DescriptorStatus(s) = "ok"
            /\ sess' = [sess EXCEPT ![t] = Advance(@)]
            /\ arena' = [arena EXCEPT ![i] = ResponseSlot(s)]
            /\ tasks' = tasks \cup {[to |-> s, pay |-> arena[i].pay, st |-> "run", ok |-> FALSE]}
            /\ srv' = [srv EXCEPT !.disp = "top", !.count = @ + 1]
            /\ UNCHANGED reply
      /\ UNCHANGED <<scope, sv, ch, alive, late, ran>>

(***************************************************************************)
(* A publish task and the device's save lane.                               *)
(***************************************************************************)

Become(t, st, ok) == tasks' = (tasks \ {t}) \cup {[t EXCEPT !.st = st, !.ok = ok]}

\* The engine refuses the request, or finds every block already cached.
PublishWithoutCopy(t) ==
  /\ srv.up /\ t.st = "run"
  /\ \E ok \in (IF Fault("exec") THEN BOOLEAN ELSE {TRUE}) : Become(t, "answer", ok)
  /\ UNCHANGED <<scope, sv, ch, arena, queue, reply, sess, srv, alive, late, ran>>

\* SaveAdmission::reserve.
ReserveSave(t) ==
  /\ srv.up /\ t.st = "run"
  /\ IF srv.ops < scope.ops
     THEN Become(t, "reserved", FALSE) /\ srv' = [srv EXCEPT !.ops = @ + 1]
     ELSE Become(t, "answer", FALSE) /\ UNCHANGED srv
  /\ UNCHANGED <<scope, sv, ch, arena, queue, reply, sess, alive, late, ran>>

SubmitSaveKeepsBudget(t) ==
  /\ srv.up /\ t.st = "reserved"
  /\ Become(t, IF srv.pool = "open" THEN "queued" ELSE "answer", FALSE)
  /\ UNCHANGED <<scope, sv, ch, arena, queue, reply, sess, srv, alive, late, ran>>

\* GpuWorkerPool::submit; a closed pool gives the budget back.
SubmitSave(t) ==
  /\ srv.up /\ t.st = "reserved"
  /\ IF srv.pool = "open"
     THEN Become(t, "queued", FALSE) /\ UNCHANGED srv
     ELSE Become(t, "answer", FALSE) /\ srv' = [srv EXCEPT !.ops = @ - 1]
  /\ UNCHANGED <<scope, sv, ch, arena, queue, reply, sess, alive, late, ran>>

\* The lane is one thread: it takes the next task when nothing else copies.
StartCopy(t) ==
  /\ srv.up /\ t.st = "queued" /\ \A u \in tasks : u.st \notin {"copying", "parked"}
  /\ Become(t, "copying", FALSE)
  /\ UNCHANGED <<scope, sv, ch, arena, queue, reply, sess, srv, alive, late, ran>>

\* The stream drained; the admission completes before the task is told.
EndCopy(t) ==
  /\ srv.up /\ t.st = "copying"
  /\ \E ok \in (IF Fault("copy") THEN BOOLEAN ELSE {TRUE}) : Become(t, "answer", ok)
  /\ srv' = [srv EXCEPT !.ops = @ - 1]
  /\ UNCHANGED <<scope, sv, ch, arena, queue, reply, sess, alive, late, ran>>

\* No completion proof: the lane's thread retains the owners and parks.
CopyUnproven(t) ==
  /\ srv.up /\ Fault("unproven") /\ t.st = "copying"
  /\ Become(t, "parked", FALSE)
  /\ UNCHANGED <<scope, sv, ch, arena, queue, reply, sess, srv, alive, late, ran>>

\* The lane drops a queued command: the admission stays charged, the task waits.
ReplyLost(t) ==
  /\ srv.up /\ Fault("lost") /\ t.st = "queued"
  /\ Become(t, "lost", FALSE)
  /\ srv' = [srv EXCEPT !.kept = @ + 1]
  /\ UNCHANGED <<scope, sv, ch, arena, queue, reply, sess, alive, late, ran>>

AnswerAlwaysOk(t) ==
  /\ srv.up /\ t.st = "answer"
  /\ reply' = [reply EXCEPT ![t.to] = [status |-> "ok", consumed |-> TRUE]]
  /\ ran' = [ran EXCEPT ![t.pay.s][t.pay.k] = IF t.ok /\ @ = "no" THEN "ok" ELSE "other"]
  /\ Become(t, "ending", t.ok)
  /\ UNCHANGED <<scope, sv, ch, arena, queue, sess, srv, alive, late>>

\* The reply is sent before the task's count is released.
AnswerPublish(t) ==
  /\ srv.up /\ t.st = "answer"
  /\ reply' = [reply EXCEPT ![t.to] = [status |-> IF t.ok THEN "ok" ELSE "failed",
                                       consumed |-> TRUE]]
  /\ ran' = [ran EXCEPT ![t.pay.s][t.pay.k] = IF t.ok /\ @ = "no" THEN "ok" ELSE "other"]
  /\ Become(t, "ending", t.ok)
  /\ UNCHANGED <<scope, sv, ch, arena, queue, sess, srv, alive, late>>

EndTaskWakesTooLate(t) ==
  /\ srv.up /\ t.st = "ending"
  /\ tasks' = tasks \ {t}
  /\ srv' = [srv EXCEPT !.count = @ - 1, !.permit = @ \/ srv.count = 0]
  /\ UNCHANGED <<scope, sv, ch, arena, queue, reply, sess, alive, late, ran>>

\* ActiveTask::drop: the last task leaves a wake-up.
EndTask(t) ==
  /\ srv.up /\ t.st = "ending"
  /\ tasks' = tasks \ {t}
  /\ srv' = [srv EXCEPT !.count = @ - 1, !.permit = @ \/ srv.count = 1]
  /\ UNCHANGED <<scope, sv, ch, arena, queue, reply, sess, alive, late, ran>>

(***************************************************************************)
(* Shutdown: close admission, drain the tasks, drain the devices, exit.     *)
(***************************************************************************)

StopAdmission ==
  /\ Fault("stop") /\ srv.up /\ ~srv.closed
  /\ srv' = [srv EXCEPT !.closed = TRUE, !.drain = "check"]
  /\ UNCHANGED <<scope, sv, ch, arena, queue, reply, sess, tasks, alive, late, ran>>

\* drain: look, listen, look again, then wait for the wake-up.
DrainLooks ==
  /\ srv.up /\ srv.drain \in {"check", "listen"}
  /\ srv' = [srv EXCEPT !.drain = IF srv.count = 0 THEN "drained"
                                  ELSE IF @ = "check" THEN "listen" ELSE "await"]
  /\ UNCHANGED <<scope, sv, ch, arena, queue, reply, sess, tasks, alive, late, ran>>

DrainWakes ==
  /\ srv.up /\ srv.drain = "await" /\ srv.permit
  /\ srv' = [srv EXCEPT !.drain = "check", !.permit = FALSE]
  /\ UNCHANGED <<scope, sv, ch, arena, queue, reply, sess, tasks, alive, late, ran>>

\* The pool closes at shutdown, or when its context is unregistered.
ClosePool ==
  /\ srv.up /\ srv.pool = "open" /\ (srv.drain = "drained" \/ Fault("unregister"))
  /\ srv' = [srv EXCEPT !.pool = "draining"]
  /\ UNCHANGED <<scope, sv, ch, arena, queue, reply, sess, tasks, alive, late, ran>>

\* The lane reached the drain command: what was queued before it is done.
PoolDrains ==
  /\ srv.up /\ srv.pool = "draining"
  /\ \A t \in tasks : t.st \notin {"queued", "copying", "parked"}
  /\ srv' = [srv EXCEPT !.pool = "closed"]
  /\ UNCHANGED <<scope, sv, ch, arena, queue, reply, sess, tasks, alive, late, ran>>

\* The process ends: after its shutdown, or by a crash.
ManagerExits ==
  /\ srv.up /\ (Fault("manager") \/ (srv.drain = "drained" /\ srv.pool = "closed"))
  /\ srv' = [srv EXCEPT !.up = FALSE]
  /\ tasks' = {} /\ queue' = {}
  /\ UNCHANGED <<scope, sv, ch, arena, reply, sess, alive, late, ran>>

Init ==
  /\ scope \in Scopes
  /\ sv = [s \in scope.saves |-> NewSave]
  /\ ch = [c \in Clients |-> NewChannel]
  /\ arena = [i \in 1..scope.slots |-> [gen |-> 0, pay |-> NoPay]]
  /\ queue = {} /\ tasks = {} /\ late = FALSE
  /\ reply = [s \in scope.saves |-> NoReply]
  /\ sess = <<>>
  /\ srv = NewServer
  /\ alive = [c \in Clients |-> TRUE]
  /\ ran = [s \in scope.saves |-> [k \in 1..MaxChunks |-> "no"]]

SaveStep(s) ==
  \/ GetPublisher(s) \/ ConnectEnds(s) \/ ConnectFails(s) \/ EnterPublish(s)
  \/ LeavePublish(s) \/ TakeCallLock(s) \/ ClearSlot(s) \/ FillSlot(s) \/ SealSlot(s)
  \/ SendRequest(s) \/ SendFails(s) \/ ReceiveReply(s) \/ PeerExited(s) \/ ReportSave(s)
HandleStep(s) ==
  \/ PrepareSave(s) \/ CancelSave(s) \/ SaveNow(s) \/ DropHandle(s) \/ CallPanics(s)
TaskStep(t) ==
  \/ PublishWithoutCopy(t) \/ ReserveSave(t) \/ SubmitSave(t) \/ StartCopy(t)
  \/ EndCopy(t) \/ AnswerPublish(t) \/ EndTask(t)
CloseStep(c) == CloseMarks(c) \/ CloseEnds(c) \/ (\E s \in Mine(c) : RetireSave(s))
Dispatch == LoopTop \/ LivenessPoll \/ (\E c \in Clients : AcceptSession(c))
Drain == DrainLooks \/ DrainWakes \/ ClosePool \/ PoolDrains

Next ==
  \/ \E s \in Saves : HandleStep(s) \/ SaveStep(s) \/ DispatchPublish(s)
  \/ \E G \in SUBSET Saves : G # {} /\ SubmitSaves(G)
  \/ \E c \in Clients : CloseBegins(c) \/ CloseStep(c) \/ EngineExits(c)
  \/ \E t \in tasks : TaskStep(t) \/ CopyUnproven(t) \/ ReplyLost(t)
  \/ Dispatch \/ Drain \/ StopAdmission \/ ManagerExits

Spec == Init /\ [][Next]_vars

\* In a live scope: publishing threads run; a closing client goes on; the
\* dispatcher serves every queued request; tasks, the lane and shutdown run.
Fairness ==
  /\ \A s \in 1..2 : WF_vars(scope.live /\ s \in Saves /\ SaveStep(s))
  /\ WF_vars(scope.live /\ \E t \in tasks : TaskStep(t))
  /\ WF_vars(scope.live /\ \E c \in Clients : CloseStep(c))
  /\ SF_vars(scope.live /\ \E s \in Saves : DispatchPublish(s))
  /\ WF_vars(scope.live /\ Dispatch)
  /\ WF_vars(scope.live /\ (Drain \/ (srv.drain = "drained" /\ ManagerExits)))

FairSpec == Spec /\ Fairness

(***************************************************************************)
(* Properties                                                               *)
(***************************************************************************)

Publishing == {"connect", "dial", "enter", "call", "clear", "fill", "seal", "send",
               "wait", "leave", "report"}
InPublish == Publishing \ {"connect", "dial", "enter", "report"}
Locked == {"clear", "fill", "seal", "send", "wait"}

\* The variables keep their shapes.
TypeOK ==
  /\ \A s \in Saves :
       /\ sv[s].pc \in Publishing \cup {"idle", "held", "member", "retained", "done"}
       /\ sv[s].hold \subseteq {"map", "handle", "thread"}
       /\ sv[s].res \in {"none", "ok", "err"}
       /\ sv[s].prep \in BOOLEAN /\ sv[s].charged \in BOOLEAN
  /\ \A c \in Clients : ch[c].slot \in Slots /\ ch[c].usage \in Nat /\ ch[c].active \in Nat
  /\ \A t \in tasks : t.st \in {"run", "reserved", "queued", "copying", "parked", "lost",
                                "answer", "ending"}
  /\ queue \subseteq Saves /\ srv.count \in Nat /\ srv.ops \in Nat

\* A task may still read the pages of the chunk in its request.
MayRead(t) == t.st \notin {"answer", "ending"}

\* Source ownership: while a task may read a chunk's pages, the call that
\* published the chunk has not returned and no handle of the save has a
\* result, unless the engine process is gone (client.rs: "Every chunk retains
\* the source pages until its D2H completes").
PagesStable ==
  \A t \in tasks : (MayRead(t) /\ ~late) =>
    LET s == t.pay.s
    IN  /\ t.pay.kind = "request"
        /\ \/ ~alive[Owner(s)]
           \/ /\ sv[s].pc \in {"wait", "retained"} /\ sv[s].chunk = t.pay.k
              /\ \A m \in sv[s].members : sv[m].res = "none"

\* A publish that reports success was executed as a whole: each of its
\* chunks ran exactly once and succeeded.
SuccessIsWhole ==
  \A s \in Saves : (sv[s].out = "ok" /\ ~late) =>
    \A k \in 1..Len(sv[s].parts) : ran[s][k] = "ok"

\* The chunks of a publish are consecutive, none is empty or larger than the
\* slot, and together they carry every block of every merged layer.
ChunksCover ==
  \A s \in Saves : sv[s].pc = "call" =>
    LET m == Merged(sv[s].members)
        ends == <<0>> \o sv[s].parts
    IN  /\ ends[Len(ends)] = Max(Range(m))
        /\ \A k \in 1..(Len(ends) - 1) :
             /\ ends[k] < ends[k + 1]
             /\ EncodedLen(m, ends[k], ends[k + 1]) <= scope.capacity

\* What a task executes is what its caller sent: slots handed to a new
\* session never show it an older session's descriptor, and the other way
\* round, as long as no closed channel writes late.
RequestsIntact ==
  ~late => \A t \in tasks : MayRead(t) => t.pay.s = t.to

\* No call is retained and no request is refused as stale for a generation
\* mismatch while sessions live: generations of both sides advance together.
GenerationsAgree ==
  \A c \in Clients : (ch[c].st = "open" /\ ~ch[c].poisoned /\ ch[c].token \in DOMAIN sess /\ ~late) =>
    \/ ch[c].broken
    \/ sess[ch[c].token].gen = ch[c].gen
    \/ /\ sess[ch[c].token].gen = ch[c].gen + 2
       /\ \E s \in Mine(c) : ch[c].lock = s /\ sv[s].pc = "wait" /\ s \notin queue

\* The process-wide save budget equals the handles that still hold a charge,
\* and a charge lives exactly as long as somebody holds the save.
UsageExact ==
  \A c \in Clients :
    /\ ch[c].usage = Cardinality({s \in Mine(c) : sv[s].charged})
    /\ ch[c].usage <= scope.pending
    /\ \A s \in Mine(c) : sv[s].charged <=> (scope.mode[s] = "handle" /\ sv[s].hold # {})

\* publish_progress reports the truth: active callers are those inside
\* publish, retained ones those parked for ever; one caller holds the lock.
ActivityExact ==
  \A c \in Clients :
    /\ ch[c].active = Cardinality({s \in Mine(c) : sv[s].pc \in InPublish \cup {"retained"}})
    /\ ch[c].retained = Cardinality({s \in Mine(c) : sv[s].pc = "retained"})
    /\ \A s \in Mine(c) : sv[s].pc \in Locked <=> ch[c].lock = s

\* The device budget counts exactly the saves a lane may still copy, those
\* whose outcome was lost included.
BudgetExact ==
  srv.up =>
    /\ srv.ops = Cardinality({t \in tasks : t.st \in {"reserved", "queued", "copying", "parked", "lost"}})
    /\ srv.kept = Cardinality({t \in tasks : t.st = "lost"})
    /\ srv.ops <= scope.ops

\* Once the endpoint's drain returned no publish task exists or starts, and a
\* drained pool has no copy left that would touch its unmapped pages.
DrainedIsQuiet ==
  srv.up =>
    /\ srv.drain = "drained" => tasks = {}
    /\ srv.pool = "closed" => \A t \in tasks : t.st \notin {"queued", "copying", "parked"}

\* A handle's result is final: submission, cancellation and retirement race
\* for one prepared save and exactly one of them decides it.
ResultsAreFinal ==
  [][\A s \in Saves :
       /\ sv[s].res # "none" => sv'[s].res = sv[s].res
       /\ sv'[s].prep => sv'[s].res = "none"
       /\ (sv[s].res # "none" /\ sv[s].pc = "done") => sv'[s].pc = "done"]_vars

Stuck(t) == t.st \in {"parked", "lost"}

\* Every started publish ends: it returns or is retained; it waits for ever
\* only behind a device copy without completion proof.
PublishesEnd ==
  scope.live => <>[](\A s \in Saves : alive[Owner(s)] /\ sv[s].pc \in Publishing =>
                       srv.up /\ \E t \in tasks : Stuck(t))

\* close returns unless a save of the process is parked without proof.
CloseReturns ==
  scope.live => <>[](\A c \in Clients : alive[c] /\ ch[c].py \in {"closing", "marked"} =>
                       \/ \E s \in Mine(c) : sv[s].pc = "retained"
                       \/ \E t \in tasks : Stuck(t))

\* A shutdown that was started finishes: the drain misses no wake-up.
ShutdownEnds ==
  scope.live => <>[](srv.closed => ~srv.up \/ \E t \in tasks : Stuck(t))

-----------------------------------------------------------------------------
(* What is checked                                                           *)

\* Slots and caller pages are never reused under a request that may still be read or copied
\* (bootstrap.rs, arena.rs, client.rs).
RequestsAreOwn ==
  /\ RequestsIntact
  /\ PagesStable
  /\ GenerationsAgree

\* A publish succeeds only with all its chunks, and the chunks carry all its blocks, whatever part
\* of it fails (publish, encode of cache_protocol.rs).
PublishesAreWhole ==
  /\ SuccessIsWhole
  /\ ChunksCover

\* The counters of saves, tasks and device bytes are what is really outstanding, so that limits and
\* the drain may trust them (PendingSave, ActiveTasks, GPU save budget).
ChargesExact ==
  /\ TypeOK
  /\ UsageExact
  /\ ActivityExact
  /\ BudgetExact
  /\ DrainedIsQuiet

\* Publishes, close and shutdown all return, and a result once given is final (cancel_save, timed
\* waits of transport.rs, drain of endpoint/mod.rs).
PublishingEnds ==
  /\ ResultsAreFinal
  /\ PublishesEnd
  /\ CloseReturns
  /\ ShutdownEnds
=============================================================================
