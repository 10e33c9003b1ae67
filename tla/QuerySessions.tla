--------------------------- MODULE QuerySessions ---------------------------
(***************************************************************************)
(* Cache queries of one Manager: who may hold query bytes, and for how     *)
(* long.  An engine's CacheClient (session 1) and remote coordinators      *)
(* (interests, even session tokens) submit versioned queries to the same   *)
(* PendingQueries; a query that reads runs in a task that is never         *)
(* cancelled, only orphaned; its result is a lease over blocks, charged to *)
(* a byte budget until the last GPU consumer is done.                      *)
(*                                                                         *)
(* A handler that runs under the queries lock is one action: the           *)
(* dispatcher holds it from the request to the response, the control       *)
(* service from admission to the retained reply.  Reading tasks, the       *)
(* reaper, registration, GPU restores and time run between them.           *)
(***************************************************************************)
EXTENDS Integers, FiniteSets, FiniteSetsExt, Functions, TLC

CONSTANTS
  Requests, Instances,
  InstanceOf,       \* the engine instance of each request
  MaxOps, MaxRev,   \* bound: operations of the client, revisions of one
  RemoteOps, RemoteRevs, \* bound: operations of an interest, revisions of one
  MaxInterests,     \* bound: interests opened
  MaxGen,           \* bound: registrations of an instance
  Global, PerInstance,              \* query byte limits
  WorldSize,                        \* GPU ranks that consume a lease
  BatchBlocks, MaxBatches,          \* read_batch_bytes, read_max_batches
  Limits,           \* the count limits, see QueryBounds
  Scopes            \* bound: what a behaviour explores, see QueryBounds

ASSUME QueryBounds ==
  /\ InstanceOf \in [Requests -> Instances]
  /\ PerInstance \in 1 .. Global
  /\ \A x \in Scopes :
       /\ x.lens \subseteq Nat \ {0} /\ x.ops \in 0 .. MaxOps
       /\ x.intents \subseteq {"lookup", "wait", "recovery", "candidates"}
       /\ x.interests \in 0 .. MaxInterests
       /\ x.faults \subseteq {"session", "response", "deadline", "expiry", "lease",
                              "interest", "unregister", "stop"}
  /\ {MaxOps, MaxRev, RemoteOps, RemoteRevs, MaxInterests, MaxGen} \subseteq Nat
  /\ {WorldSize, BatchBlocks, MaxBatches} \subseteq Nat \ {0}
  /\ Limits \in [{"session", "active", "sessionWarming", "warming",
                  "preparations", "operations"} -> Nat \ {0}]

VARIABLES
  client,   \* the engine's CacheClient
  book,     \* ControlBook: interests of remote coordinators
  mgr,      \* PendingQueries, the query tasks and the leases
  budget,   \* QueryBudget and the live reservations
  reg,      \* registration of each instance: current generation, last one
  gpu,      \* GPU restores in flight, per lease owner
  phase,    \* shutdown: running, closing, draining, drained
  scope     \* the block counts, intents, operations and faults of a behaviour

vars == <<client, book, mgr, budget, reg, gpu, phase, scope>>

Faults == scope.faults

Local == 1
Tokens == {2 * k : k \in 1 .. MaxInterests}
Sessions == {Local} \union Tokens
Ops == 1 .. (IF MaxOps > RemoteOps THEN MaxOps ELSE RemoteOps)
Owners == Sessions \X Ops \X (1 .. MaxRev)
Empty == [o \in {} |-> 0]
None == [op |-> 0]

Preparing == {"prepare", "preparerecovery"}
Unbounded == {"wait", "discover"}
KindOf(intent) ==
  CASE intent = "lookup" -> "demand" [] intent = "wait" -> "wait"
    [] intent = "recovery" -> "recovery" [] intent = "candidates" -> "discover"
PrepareKind(intent) == IF intent = "recovery" THEN "preparerecovery" ELSE "prepare"
Claimed(kind) == IF kind = "preparerecovery" THEN "recovery" ELSE "demand"

Key(o) == <<o[1], o[2]>>
Without(f, S) == Restrict(f, DOMAIN f \ S)

-----------------------------------------------------------------------------
(* The byte budget.                                                          *)

Speculative == {"warming", "preloading", "prepared"}

Mode(kind) == IF kind \in Preparing THEN "prepare"
              ELSE IF kind = "warmup" THEN "warmup" ELSE "demand"

ReleaseSpeculative(u, i, b) ==
  [u EXCEPT !.warming = @ - b, !.winst[i] = @ - b]

ReleaseBytes(u, i, b, ph) ==
  LET v == IF ph \in Speculative THEN ReleaseSpeculative(u, i, b) ELSE u
  IN [v EXCEPT !.total = @ - b, !.inst[i] = @ - b]

Admission(u, i, b, mode) ==
  LET warming == mode # "demand"
      limit == IF warming THEN PerInstance \div 4 ELSE PerInstance
  IN IF b > limit THEN "toolarge"
     ELSE IF \/ mode = "warmup" /\ u.total > u.warming
             \/ b > Global - u.total
             \/ b > PerInstance - u.inst[i]
             \/ warming /\ (\/ b > Global \div 4 - u.warming
                            \/ b > PerInstance \div 4 - u.winst[i])
     THEN "busy" ELSE "admitted"

Reserve(b, o, i, n, mode) ==
  LET warm == IF mode = "demand" THEN 0 ELSE n
      ph == CASE mode = "prepare" -> "preloading" [] mode = "warmup" -> "warming"
              [] OTHER -> "preparing"
  IN [use |-> [total |-> b.use.total + n, inst |-> [b.use.inst EXCEPT ![i] = @ + n],
               warming |-> b.use.warming + warm,
               winst |-> [b.use.winst EXCEPT ![i] = @ + warm]],
      res |-> b.res @@ (o :> [inst |-> i, bytes |-> n, phase |-> ph])]

\* A finished query keeps only the bytes of the blocks it found.
ReadyBytes(b, o, hit) ==
  LET r == b.res[o]
      ph == IF r.phase = "preloading" THEN "prepared" ELSE "ready"
  IN [use |-> ReleaseBytes(b.use, r.inst, r.bytes - hit, r.phase),
      res |-> [b.res EXCEPT ![o] = [inst |-> r.inst, bytes |-> hit, phase |-> ph]]]

ClaimBytesAgain(b, o) ==
  IF o \in DOMAIN b.res /\ b.res[o].phase = "prepared"
  THEN [use |-> ReleaseSpeculative(b.use, b.res[o].inst, b.res[o].bytes), res |-> b.res]
  ELSE b
ClaimBytes(b, o) ==
  IF o \in DOMAIN b.res /\ b.res[o].phase = "prepared"
  THEN [use |-> ReleaseSpeculative(b.use, b.res[o].inst, b.res[o].bytes),
        res |-> [b.res EXCEPT ![o].phase = "ready"]]
  ELSE b

\* The reservations nobody refers to any more give their bytes back.
Held(m, g, o) == \/ o \in DOMAIN m.task /\ m.task[o].st = "reading"
                 \/ o \in DOMAIN m.lease
                 \/ g[o] > 0
DropReservations(b, m, g) ==
  LET gone == {o \in DOMAIN b.res : ~Held(m, g, o)}
  IN [use |-> FoldSet(LAMBDA o, u : ReleaseBytes(u, b.res[o].inst, b.res[o].bytes,
                                                 b.res[o].phase), b.use, gone),
      res |-> Without(b.res, gone)]

-----------------------------------------------------------------------------
(* Replies, leases, and removal of pending queries.                          *)

DropRepliesKeepsLease(m, O) == [m EXCEPT !.task = Without(@, O)]

\* Dropping a reply that was not delivered releases the lease it carries.
DropReplies(m, O) ==
  [m EXCEPT !.task = Without(@, O),
            !.lease = Without(@, {o \in O : ~m.task[o].delivered})]

ReleaseOwners(m, O) == [m EXCEPT !.lease = Without(@, O)]

SweepExpired(m) == ReleaseOwners(m, {o \in DOMAIN m.lease : m.lease[o].old})

TasksOf(m, K) == {o \in DOMAIN m.task : /\ Key(o) \in K /\ o[3] = m.pend[Key(o)].rev
                                        /\ m.task[o].st # "hand"}

\* Losing the receiver stops the next submission of the task, and drops the
\* reply that already waits in the channel.
Detach(m, K) ==
  LET O == TasksOf(m, K)
      m1 == [m EXCEPT !.task = [o \in DOMAIN @ |->
                                  IF o \in O THEN [@[o] EXCEPT !.cancelled = TRUE] ELSE @[o]]]
  IN DropReplies(m1, {o \in O : m.task[o].st = "queued"})

RemovePending(m, K) ==
  [Detach(m, K) EXCEPT !.pend = Without(@, K)]

Cancel(m, s, op, rev) ==
  LET k == <<s, op>>
      m1 == IF k \in DOMAIN m.pend /\ m.pend[k].rev = rev
            THEN RemovePending(m, {k}) ELSE m
  IN ReleaseOwners(m1, {<<s, op, rev>>})

CloseSessions(m, S) ==
  LET m1 == RemovePending(m, {k \in DOMAIN m.pend : k[1] \in S})
  IN ReleaseOwners([m1 EXCEPT !.sess = Without(@, S)], {o \in DOMAIN m1.lease : o[1] \in S})

\* The dispatcher's maintenance pass.
RetainSessions(m, live) ==
  LET Answered(k) == \E o \in TasksOf(m, {k}) : m.task[o].st = "queued"
      Drops(k) == LET p == m.pend[k] IN
        \/ p.kind \in Preparing /\ p.expired
        \/ p.kind = "warmup" /\ (p.expired \/ Answered(k))
        \/ k[1] \notin live
      drop == {k \in DOMAIN m.pend : Drops(k)}
      stale == {k \in DOMAIN m.pend : m.pend[k].expired} \ drop
      m1 == Detach(m, stale)
      m2 == [m1 EXCEPT !.pend = [k \in DOMAIN @ |->
               IF k \in stale THEN [@[k] EXCEPT !.rx = FALSE] ELSE @[k]]]
  IN CloseSessions(RemovePending(m2, drop), DOMAIN m.sess \ live)

-----------------------------------------------------------------------------
(* A query task: batches of reads, then one lease.                           *)

CanSubmit(m, o, batch) ==
  /\ ~m.task[o].cancelled
  /\ Key(o) \in DOMAIN m.pend /\ m.pend[Key(o)].rev = o[3] => ~m.pend[Key(o)].late
  /\ batch < MaxBatches

BatchSize(kind, n) == IF kind = "wait" THEN n ELSE BatchBlocks

Leases(t, hit, complete) ==
  /\ t.kind \notin {"warmup", "discover"} /\ hit > 0
  /\ t.kind \in {"recovery", "preparerecovery"} => complete /\ hit = t.n

\* finish_query refuses a reservation of an earlier registration.
Registered(t) == reg[t.inst].cur = t.gen

\* Every rank of the instance consumes a share of the lease.
NewLease(t) == [inst |-> t.inst, gen |-> t.gen, left |-> WorldSize, old |-> FALSE]

\* The end of execute_query; the reservation survives only inside the lease.
Finish(m, b, o, hit, complete, st) ==
  LET t == m.task[o]
      leases == Leases(t, hit, complete)
      leased == leases /\ Registered(t)
      out == IF t.kind = "discover" THEN "candidates"
             ELSE IF leases /\ ~leased THEN "error" ELSE "ready"
      m1 == [m EXCEPT !.task[o] = [@ EXCEPT !.st = st, !.out = out, !.leased = leased]]
  IN IF leased
     THEN [m |-> [SweepExpired(m1) EXCEPT !.lease = @ @@
                    (o :> NewLease(t))],
           b |-> ReadyBytes(b, o, hit)]
     ELSE [m |-> m1, b |-> b]

\* What a first poll that never waits may find.
InlineReads(kind, n) ==
  IF kind = "wait" THEN {<<h, TRUE>> : h \in 0 .. n}
  ELSE LET room == MaxBatches * BatchBlocks
       IN {<<h, TRUE>> : h \in {x \in 0 .. n : x < room \/ n <= room}}
            \union (IF n > room THEN {<<room, FALSE>>} ELSE {})

StartQuery(m, b, o) ==
  LET k == Key(o)
      p == m.pend[k]
      t == [st |-> "reading", kind |-> p.kind, inst |-> p.inst, gen |-> reg[p.inst].cur,
            n |-> p.n, hit |-> 0, batch |-> 0, out |-> "none", leased |-> FALSE,
            cancelled |-> FALSE, delivered |-> FALSE]
      m1 == [m EXCEPT !.task = @ @@ (o :> t), !.pend[k].rx = TRUE]
      Inline(r) ==
        IF p.kind \in Preparing
        THEN LET f == Finish(m1, b, o, r[1], r[2], "queued")
             IN [m |-> f.m, b |-> f.b, out |-> "loading", o |-> o]
        ELSE LET f == Finish(m1, b, o, r[1], r[2], "hand")
             IN [m |-> RemovePending(f.m, {k}), b |-> f.b, out |-> "reply", o |-> o]
  IN {[m |-> m1, b |-> b, out |-> "loading", o |-> o]}
       \union {Inline(r) : r \in InlineReads(p.kind, p.n)}

-----------------------------------------------------------------------------
(* PendingQueries::execute.  A command is [type, op, rev, kind, n, inst].    *)

Answer(m, b, out, o) == [m |-> m, b |-> b, out |-> out, o |-> o]

\* Tasks hold a permit of every semaphore they took until the reply is dropped.
Permits(m, kinds, S) ==
  Cardinality({o \in DOMAIN m.task : m.task[o].kind \in kinds /\ o[1] \in S})
AllKinds == {"demand", "wait", "recovery", "discover", "warmup"} \union Preparing
PermitsFor(m, s, kind) ==
  LET spec == Preparing \union {"warmup"}
  IN /\ Permits(m, AllKinds, {s}) < Limits.session
     /\ Permits(m, AllKinds, Sessions) < Limits.active
     /\ kind \in spec => /\ Permits(m, spec, {s}) < Limits.sessionWarming
                        /\ Permits(m, spec, Sessions) < Limits.warming
     /\ kind \in Preparing => Permits(m, Preparing, {s}) < Limits.preparations

ReserveQuery(u, p) == IF reg[p.inst].cur = 0 THEN "missing"
                      ELSE Admission(u, p.inst, p.n, Mode(p.kind))

\* Take the permits and the bytes, then start; a foreground query waits for
\* both, a speculative one gives up.
Begin(m, b, o) ==
  LET k == Key(o)
      p == m.pend[k]
      spec == p.kind \in Preparing \union {"warmup"}
      adm == ReserveQuery(b.use, p)
      gone == RemovePending(m, {k})
  IN IF ~PermitsFor(m, o[1], p.kind) \/ (p.kind # "discover" /\ adm = "busy")
     THEN IF spec THEN {Answer(gone, b, "busy", o)} ELSE {Answer(m, b, "loading", o)}
     ELSE IF p.kind = "discover" THEN StartQuery(m, b, o)
     ELSE IF adm = "missing" THEN {Answer(gone, b, "error", o)}
     ELSE IF adm = "toolarge"
     THEN {Answer(gone, b, IF spec THEN "busy" ELSE "ready0", o)}
     ELSE StartQuery(m, Reserve(b, o, p.inst, p.n, Mode(p.kind)), o)

Resume(m, b, o) ==
  LET k == Key(o)
      p == m.pend[k]
      gone == RemovePending(m, {k})
      inHand == [m EXCEPT !.task[o].st = "hand"]
  IN IF k \notin DOMAIN m.pend THEN {Answer(m, b, "error", o)}
     ELSE IF p.rev # o[3] THEN {Answer(m, b, "error", o)}
     ELSE IF p.expired THEN {Answer(gone, b, "error", o)}
     ELSE IF p.kind \notin Unbounded /\ p.late THEN {Answer(gone, b, "ready0", o)}
     ELSE IF ~p.rx THEN Begin(m, b, o)
     ELSE IF m.task[o].st = "queued"
     THEN {Answer(RemovePending(inHand, {k}), b, "reply", o)}
     ELSE {Answer(m, b, "loading", o)}

Insert(m, s, c) ==
  [m EXCEPT !.pend = (<<s, c.op>> :> [rev |-> c.rev, kind |-> c.kind, n |-> c.n,
                        inst |-> c.inst, rx |-> FALSE, expired |-> FALSE, late |-> FALSE]) @@ @]

Newest(m, s) == IF s \in DOMAIN m.sess THEN m.sess[s] ELSE 0

Submit(m, b, s, c) ==
  LET k == <<s, c.op>>
      o == <<s, c.op, c.rev>>
      p == m.pend[k]
      opened == [m EXCEPT !.sess = (s :> Newest(m, s)) @@ @]
      mine == {x \in DOMAIN m.pend : x[1] = s}
  IN IF k \in DOMAIN m.pend
     THEN IF c.rev < p.rev THEN {Answer(m, b, "error", o)}
          ELSE IF c.rev = p.rev
          THEN IF <<c.kind, c.n, c.inst>> # <<p.kind, p.n, p.inst>>
               THEN {Answer(m, b, "error", o)} ELSE Resume(m, b, o)
          ELSE IF c.inst # p.inst THEN {Answer(m, b, "error", o)}
          ELSE Resume(Insert(Cancel(m, s, c.op, p.rev), s, c), b, o)
     ELSE IF c.op <= Newest(m, s) THEN {Answer(opened, b, "error", o)}
     ELSE IF Cardinality(mine) >= Limits.session \/ Cardinality(DOMAIN m.pend) >= Limits.active
     THEN {Answer(opened, b, "busy", o)}
     ELSE Resume(Insert([opened EXCEPT !.sess[s] = c.op], s, c), b, o)

\* A claim turns a preparation into the query that was prepared for.
Claim(m, b, o) ==
  LET k == Key(o)
      m1 == IF k \in DOMAIN m.pend /\ m.pend[k].expired THEN RemovePending(m, {k}) ELSE m
  IN IF k \notin DOMAIN m1.pend THEN {Answer(m1, b, "busy", o)}
     ELSE IF m1.pend[k].rev # o[3] \/ m1.pend[k].kind \notin Preparing
     THEN {Answer(m1, b, "error", o)}
     ELSE Resume([m1 EXCEPT !.pend[k].kind = Claimed(@)], b, o)

Execute(m, b, s, c) ==
  LET o == <<s, c.op, c.rev>>
  IN IF m.stopping THEN {Answer(m, b, "error", o)}
     ELSE CASE c.type = "poll" -> Resume(m, b, o)
            [] c.type = "claim" -> Claim(m, b, o)
            [] c.type = "submit" -> Submit(m, b, s, c)

\* The caller has the reply: its lease becomes a foreground lease.
Deliver(m, b, o) ==
  LET ready == m.task[o].out = "ready" /\ o \in DOMAIN m.lease
  IN [m |-> [m EXCEPT !.task[o].delivered = TRUE],
      b |-> IF ready THEN ClaimBytes(b, o) ELSE b]

-----------------------------------------------------------------------------
(* The engine's CacheClient: one call at a time, under its queries lock.     *)

\* What the client still tracks: the pending ticket of a request.
Ticket(op, rev, n, intent, prepared) ==
  [op |-> op, rev |-> rev, n |-> n, intent |-> intent, prepared |-> prepared, old |-> FALSE]
Tracked(r) == client.pending[r] # None

DeadClient == [alive |-> FALSE, next |-> 0, held |-> {},
               pending |-> [r \in Requests |-> None], warm |-> [r \in Requests |-> 0]]

Commit(m, b, g) == /\ mgr' = m
                   /\ budget' = DropReservations(b, m, g)

\* The dispatcher encodes the answer; when the response slot takes it the
\* reply is delivered, otherwise dropping it releases the lease.
DispatchQuery(a) ==
  IF a.out # "reply" THEN {[m |-> a.m, b |-> a.b, out |-> a.out, leased |-> FALSE]}
  ELSE LET t == a.m.task[a.o]
           d == Deliver(a.m, a.b, a.o)
           lost == [m |-> DropReplies(a.m, {a.o}), b |-> a.b, out |-> "error", leased |-> FALSE]
       IN IF t.out = "error" THEN {lost}
          ELSE {[m |-> DropReplies(d.m, {a.o}), b |-> d.b, out |-> t.out, leased |-> t.leased]}
               \union (IF "response" \in Faults THEN {lost} ELSE {})

Call(m, c) == UNION {DispatchQuery(a) : a \in Execute(m, budget, Local, c)}

Cmd(type, r, op, rev, kind, n) ==
  [type |-> type, op |-> op, rev |-> rev, kind |-> kind, n |-> n, inst |-> InstanceOf[r]]

\* Queries::prepare: claim what was prepared for this very query, poll it when
\* it is pending, and otherwise submit the next revision or a new operation.
NextTicket(p, n, intent) ==
  IF p = None THEN Ticket(client.next + 1, 1, n, intent, FALSE)
  ELSE IF p.n = n /\ p.intent = intent THEN [p EXCEPT !.prepared = FALSE]
  ELSE Ticket(p.op, p.rev + 1, n, intent, FALSE)

CommandType(p, q) == IF p = None \/ p.rev # q.rev THEN "submit"
                     ELSE IF p.prepared THEN "claim" ELSE "poll"

\* A request drops its warm-up, and a preparation that has run out.
BeforeQuery(m, r) ==
  LET m1 == IF client.warm[r] # 0 THEN Cancel(m, Local, client.warm[r], 1) ELSE m
      p == client.pending[r]
  IN IF p # None /\ p.old THEN Cancel(m1, Local, p.op, p.rev) ELSE m1
Current(r) == IF client.pending[r].op # 0 /\ client.pending[r].old THEN None
              ELSE client.pending[r]

\* A failed call may have left the previous revision or the new one alive.
AfterFailure(m, p, q) ==
  LET m1 == Cancel(m, Local, q.op, q.rev)
  IN IF p # None /\ p.rev # q.rev THEN Cancel(m1, Local, p.op, p.rev) ELSE m1

Query(r, n, intent) ==
  LET p == Current(r)
      q == NextTicket(p, n, intent)
      c == Cmd(CommandType(p, q), r, q.op, q.rev, KindOf(intent), n)
      Learn(a) ==
        [client EXCEPT !.next = IF q.op > @ THEN q.op ELSE @,
                       !.warm[r] = 0,
                       !.pending[r] = IF a.out = "loading" THEN q ELSE None,
                       !.held = IF a.leased THEN @ \union {<<Local, q.op, q.rev>>} ELSE @]
  IN /\ client.alive /\ q.op <= scope.ops /\ q.rev <= MaxRev
     /\ \E a \in Call(BeforeQuery(mgr, r), c) :
          \/ /\ Commit(IF a.out = "error" THEN AfterFailure(a.m, p, q) ELSE a.m, a.b, gpu)
             /\ client' = Learn(a)
          \/ /\ "response" \in Faults       \* answered, but the session is lost
             /\ Commit(a.m, a.b, gpu)
             /\ client' = DeadClient
     /\ UNCHANGED <<book, reg, gpu, phase, scope>>

\* Speculation ahead of a request: a preparation, or a warm-up.
PrepareQuery(r, n, intent) ==
  LET old == {x \in Requests : Tracked(x) /\ client.pending[x].old}
      m == FoldSet(LAMBDA x, acc : Cancel(acc, Local, client.pending[x].op,
                                          client.pending[x].rev), mgr, old)
      kept == [x \in Requests |-> IF x \in old THEN None ELSE client.pending[x]]
      op == client.next + 1
      prepared == {x \in Requests : kept[x] # None /\ kept[x].prepared}
      c == Cmd("submit", r, op, 1, PrepareKind(intent), n)
  IN /\ client.alive /\ op <= scope.ops /\ intent \in {"lookup", "recovery"}
     /\ kept[r] = None /\ Cardinality(prepared) < Limits.preparations
     /\ \E a \in Call(m, c) :
          /\ Commit(IF a.out = "error" THEN Cancel(a.m, Local, op, 1) ELSE a.m, a.b, gpu)
          /\ client' = IF a.out \in {"ready", "ready0", "candidates"} THEN DeadClient
                       ELSE [client EXCEPT !.next = op, !.pending = [kept EXCEPT ![r] =
                               IF a.out = "loading" THEN Ticket(op, 1, n, intent, TRUE)
                               ELSE None]]
     /\ UNCHANGED <<book, reg, gpu, phase, scope>>

WarmPrefix(r, n) ==
  LET op == client.next + 1
      warm == {x \in Requests : client.warm[x] # 0}
  IN /\ client.alive /\ op <= scope.ops
     /\ client.warm[r] = 0 /\ ~Tracked(r) /\ Cardinality(warm) < Limits.sessionWarming
     /\ \E a \in Call(mgr, Cmd("submit", r, op, 1, "warmup", n)) :
          /\ Commit(a.m, a.b, gpu)
          /\ client' = [client EXCEPT !.next = op,
                                      !.warm[r] = IF a.out = "loading" THEN op ELSE 0]
     /\ UNCHANGED <<book, reg, gpu, phase, scope>>

\* warm_prefix also forgets the warm-ups that have run out.
WarmupRunsOut(r) ==
  /\ client.alive /\ client.warm[r] # 0 /\ "expiry" \in Faults
  /\ Commit(Cancel(mgr, Local, client.warm[r], 1), budget, gpu)
  /\ client' = [client EXCEPT !.warm[r] = 0]
  /\ UNCHANGED <<book, reg, gpu, phase, scope>>

CancelQuery(r) ==
  LET p == client.pending[r]
      m1 == IF client.warm[r] # 0 THEN Cancel(mgr, Local, client.warm[r], 1) ELSE mgr
      m2 == IF p # None THEN Cancel(m1, Local, p.op, p.rev) ELSE m1
  IN /\ client.alive /\ (Tracked(r) \/ client.warm[r] # 0)
     /\ Commit(m2, budget, gpu)
     /\ client' = [client EXCEPT !.warm[r] = 0, !.pending[r] = None]
     /\ UNCHANGED <<book, reg, gpu, phase, scope>>

ReleaseLease(o) ==
  /\ client.alive /\ o \in client.held
  /\ Commit(ReleaseOwners(SweepExpired(mgr), {o}), budget, gpu)
  /\ client' = [client EXCEPT !.held = @ \ {o}]
  /\ UNCHANGED <<book, reg, gpu, phase, scope>>

\* The engine exits, or its channel fails and closes the session.
LoseSession ==
  /\ client.alive /\ "session" \in Faults
  /\ client' = DeadClient
  /\ UNCHANGED <<book, mgr, budget, reg, gpu, phase, scope>>

LiveTokens == Tokens \union (IF client.alive THEN {Local} ELSE {})
Maintain ==
  /\ Commit(RetainSessions(mgr, LiveTokens), budget, gpu)
  /\ UNCHANGED <<client, book, reg, gpu, phase, scope>>

-----------------------------------------------------------------------------
(* Remote coordinators.  Requests cross a network that delays and repeats    *)
(* them: any command of an operation may arrive at any time.                 *)

Matches(i) == reg[i.inst].cur = i.gen

DropInterestsOnly(m, T) == CloseSessions(m, T)

\* Dropping an interest closes its session and drops its retained replies.
DropInterests(m, T) ==
  LET m1 == CloseSessions(m, T)
  IN DropReplies(m1, {o \in DOMAIN m1.task : o[1] \in T /\ m1.task[o].st = "retained"})

CancelTicket(m, tok, k) ==
  LET o == <<tok, k[1], k[2]>>
      m1 == IF o \in DOMAIN m.task /\ m.task[o].st = "retained"
            THEN DropReplies(m, {o}) ELSE m
  IN Cancel(m1, tok, k[1], k[2])

Retire(m, bk) ==
  LET dead == {t \in DOMAIN bk.int : bk.closed \/ bk.int[t].old \/ ~Matches(bk.int[t])}
      live == DOMAIN bk.int \ dead
      Stale(t) == {k \in DOMAIN bk.int[t].rep : bk.int[t].rep[k].old}
      stale == {<<t, k>> \in UNION {{t} \X DOMAIN bk.int[t].rep : t \in live} : k \in Stale(t)}
      Canceled(t) == [bk.int[t] EXCEPT !.rep = Without(@, Stale(t)),
                        !.sub = [k \in Stale(t) |-> "canceled"] @@ @]
  IN [m |-> FoldSet(LAMBDA x, acc : CancelTicket(acc, x[1], x[2]), DropInterests(m, dead), stale),
      bk |-> [bk EXCEPT !.int = [t \in live |-> Canceled(t)]]]

OpenInterest(i) ==
  LET r == Retire(mgr, book)
      t == book.next + 2
  IN /\ ~book.closed /\ t \in Tokens /\ t <= 2 * scope.interests /\ reg[i].cur # 0
     /\ Commit(r.m, budget, gpu)
     /\ book' = [r.bk EXCEPT !.next = t, !.int = @ @@ (t :>
          [inst |-> i, gen |-> reg[i].cur, old |-> FALSE, sub |-> Empty, rep |-> Empty])]
     /\ UNCHANGED <<client, reg, gpu, phase, scope>>

Reaper ==
  LET r == Retire(mgr, book)
  IN /\ Commit(r.m, budget, gpu) /\ book' = r.bk
     /\ UNCHANGED <<client, reg, gpu, phase, scope>>

\* interest(): any request for a retired interest removes it.
Usable(t) == ~book.closed /\ ~book.int[t].old /\ Matches(book.int[t])
RefuseInterest(t) ==
  /\ t \in DOMAIN book.int /\ ~Usable(t)
  /\ Commit(DropInterests(mgr, {t}), budget, gpu)
  /\ book' = [book EXCEPT !.int = Without(@, {t})]
  /\ UNCHANGED <<client, reg, gpu, phase, scope>>

AdmitsUnlessAnswered(i, k) ==
  k \notin DOMAIN i.sub => \A x \in DOMAIN i.rep : x[1] # k[1]

\* Interest::admit refuses a canceled ticket, and a new revision of an
\* operation that was canceled or has a reply.
Admits(i, k) ==
  /\ k \in DOMAIN i.sub => i.sub[k] # "canceled"
  /\ k \notin DOMAIN i.sub =>
       /\ \A x \in DOMAIN i.sub : x[1] = k[1] => i.sub[x] # "canceled"
       /\ Cardinality(DOMAIN i.sub) < Limits.operations
       /\ \A x \in DOMAIN i.rep : x[1] # k[1]

RetainReply(i, k, a) ==
  IF a.out \in {"loading", "error"} THEN i
  ELSE [i EXCEPT !.rep = @ @@ (k :> [old |-> FALSE,
          leased |-> a.out = "reply" /\ a.m.task[a.o].leased])]

\* A finished query stays with the interest: sending it is not delivery.
Retained(a) ==
  IF a.out # "reply" THEN [m |-> a.m, out |-> a.out]
  ELSE IF a.m.task[a.o].out = "error" THEN [m |-> DropReplies(a.m, {a.o}), out |-> "error"]
  ELSE [m |-> [a.m EXCEPT !.task[a.o].st = "retained"], out |-> "reply"]

RemoteExecute(t, k, n, type) ==
  LET i == book.int[t]
      i1 == IF type = "submit" THEN [i EXCEPT !.sub = @ @@ (k :> "active")] ELSE i
      c == [type |-> type, op |-> k[1], rev |-> k[2], kind |-> "demand", n |-> n, inst |-> i.inst]
  IN /\ t \in DOMAIN book.int /\ Usable(t)
     /\ IF type = "submit" THEN Admits(i, k) ELSE k \in DOMAIN i.sub /\ i.sub[k] = "active"
     /\ k \notin DOMAIN i.rep
     /\ \E a \in Execute(mgr, budget, t, c) :
          LET r == Retained(a) IN
            /\ Commit(r.m, a.b, gpu)
            /\ book' = [book EXCEPT !.int[t] = RetainReply(i1, k, [a EXCEPT !.out = r.out])]
     /\ UNCHANGED <<client, reg, gpu, phase, scope>>

\* A reply that has waited too long is canceled by the request that meets it.
RemoteExpired(t, k) ==
  LET i == book.int[t] IN
  /\ t \in DOMAIN book.int /\ Usable(t) /\ k \in DOMAIN i.rep /\ i.rep[k].old
  /\ Commit(CancelTicket(mgr, t, k), budget, gpu)
  /\ book' = [book EXCEPT !.int[t] = [i EXCEPT !.rep = Without(@, {k}),
                                               !.sub = (k :> "canceled") @@ @]]
  /\ UNCHANGED <<client, reg, gpu, phase, scope>>

RemoteClaim(t, k) ==
  LET o == <<t, k[1], k[2]>>
      d == Deliver(mgr, budget, o)
  IN /\ t \in DOMAIN book.int /\ Usable(t) /\ k \in DOMAIN book.int[t].rep
     /\ ~book.int[t].rep[k].old /\ book.int[t].rep[k].leased
     /\ Commit(d.m, d.b, gpu)
     /\ UNCHANGED <<client, book, reg, gpu, phase, scope>>

\* A cancel is remembered even when the submission has not arrived yet.
RemoteCancel(t, k) ==
  LET i == book.int[t] IN
  /\ t \in DOMAIN book.int /\ Usable(t)
  /\ k \in DOMAIN i.sub \/ Cardinality(DOMAIN i.sub) < Limits.operations
  /\ Commit(CancelTicket(mgr, t, k), budget, gpu)
  /\ book' = [book EXCEPT !.int[t] = [i EXCEPT !.rep = Without(@, {k}),
                                               !.sub = (k :> "canceled") @@ @]]
  /\ UNCHANGED <<client, reg, gpu, phase, scope>>

RemoteClose(t) ==
  /\ t \in DOMAIN book.int
  /\ Commit(DropInterests(mgr, {t}), budget, gpu)
  /\ book' = [book EXCEPT !.int = Without(@, {t})]
  /\ UNCHANGED <<client, reg, gpu, phase, scope>>

-----------------------------------------------------------------------------
(* Query tasks, GPU restores, registration, time and shutdown.               *)

\* One awaited batch, or the end of the loop over batches.
ReadBatch(o) ==
  LET t == mgr.task[o]
      size == BatchSize(t.kind, t.n)
      left == t.n - t.batch * size
      want == IF left < size THEN left ELSE size
      End(hit, complete) == LET f == Finish(mgr, budget, o, hit, complete, "made")
                            IN Commit(f.m, f.b, gpu)
  IN /\ o \in DOMAIN mgr.task /\ t.st = "reading"
     /\ \/ /\ t.kind # "discover" /\ ~CanSubmit(mgr, o, t.batch)
           /\ End(t.hit, FALSE)
        \/ /\ t.kind # "discover" /\ CanSubmit(mgr, o, t.batch)
           /\ \E h \in 0 .. want :
                IF h = want /\ left > want
                THEN Commit([mgr EXCEPT !.task[o].hit = @ + h, !.task[o].batch = @ + 1],
                            budget, gpu)
                ELSE End(t.hit + h, TRUE)
        \/ t.kind = "discover" /\ End(0, TRUE)
     /\ UNCHANGED <<client, book, reg, gpu, phase, scope>>

\* The task sends its reply; without a receiver the reply is dropped.
SendReply(o) ==
  /\ o \in DOMAIN mgr.task /\ mgr.task[o].st = "made"
  /\ LET k == Key(o)
         heard == k \in DOMAIN mgr.pend /\ mgr.pend[k].rev = o[3] /\ mgr.pend[k].rx
     IN Commit(IF heard THEN [mgr EXCEPT !.task[o].st = "queued"] ELSE DropReplies(mgr, {o}),
               budget, gpu)
  /\ UNCHANGED <<client, book, reg, gpu, phase, scope>>

LeaseIsCurrent(l) == reg[l.inst].cur = l.gen
ConsumeShare(m, o) == IF m.lease[o].left > 1 THEN [m EXCEPT !.lease[o].left = @ - 1]
                      ELSE ReleaseOwners(m, {o})

\* A rank's restore consumes its share of the lease; the last one removes it.
Restore(o) ==
  LET l == mgr.lease[o]
      mine == \/ o \in client.held
              \/ o \in DOMAIN mgr.task /\ mgr.task[o].delivered
      g == [gpu EXCEPT ![o] = @ + 1]
      b == IF budget.res[o].phase = "ready"
           THEN [budget EXCEPT !.res[o].phase = "restoring"] ELSE budget
  IN /\ o \in DOMAIN mgr.lease /\ mine /\ ~l.old /\ LeaseIsCurrent(l)
     /\ gpu' = g
     /\ Commit(ConsumeShare(mgr, o), b, g)
     /\ UNCHANGED <<client, book, reg, phase, scope>>

RestoreDone(o) ==
  LET g == [gpu EXCEPT ![o] = @ - 1] IN
  /\ gpu[o] > 0 /\ gpu' = g
  /\ Commit(mgr, budget, g)
  /\ UNCHANGED <<client, book, reg, phase, scope>>

Register(i) ==
  /\ reg[i].cur = 0 /\ reg[i].last < MaxGen
  /\ reg' = [reg EXCEPT ![i] = [cur |-> @.last + 1, last |-> @.last + 1]]
  /\ UNCHANGED <<client, book, mgr, budget, gpu, phase, scope>>

\* Removal and the release of the leases happen under the instances lock.
InstanceLeases(i) == {o \in DOMAIN mgr.lease : mgr.lease[o].inst = i}
Unregister(i) ==
  /\ reg[i].cur # 0 /\ "unregister" \in Faults
  /\ reg' = [reg EXCEPT ![i].cur = 0]
  /\ Commit(ReleaseOwners(mgr, InstanceLeases(i)), budget, gpu)
  /\ UNCHANGED <<client, book, gpu, phase, scope>>

\* Clocks.  The read deadline is never after the expiry of the query.
QueryLate(k) ==
  /\ k \in DOMAIN mgr.pend /\ ~mgr.pend[k].late /\ "deadline" \in Faults
  /\ mgr' = [mgr EXCEPT !.pend[k].late = TRUE]
  /\ UNCHANGED <<client, book, budget, reg, gpu, phase, scope>>
QueryExpires(k) ==
  /\ k \in DOMAIN mgr.pend /\ ~mgr.pend[k].expired /\ "expiry" \in Faults
  /\ mgr' = [mgr EXCEPT !.pend[k] = [@ EXCEPT !.expired = TRUE, !.late = TRUE]]
  /\ UNCHANGED <<client, book, budget, reg, gpu, phase, scope>>
PreparationEnds(r) ==
  /\ Tracked(r) /\ client.pending[r].prepared /\ ~client.pending[r].old /\ "expiry" \in Faults
  /\ client' = [client EXCEPT !.pending[r].old = TRUE]
  /\ UNCHANGED <<book, mgr, budget, reg, gpu, phase, scope>>
LeaseExpires(o) ==
  /\ o \in DOMAIN mgr.lease /\ ~mgr.lease[o].old /\ "lease" \in Faults
  /\ mgr' = [mgr EXCEPT !.lease[o].old = TRUE]
  /\ UNCHANGED <<client, book, budget, reg, gpu, phase, scope>>
Sweep ==
  /\ Commit(SweepExpired(mgr), budget, gpu)
  /\ UNCHANGED <<client, book, reg, gpu, phase, scope>>
InterestExpires(t) ==
  /\ t \in DOMAIN book.int /\ ~book.int[t].old /\ "interest" \in Faults
  /\ book' = [book EXCEPT !.int[t].old = TRUE]
  /\ UNCHANGED <<client, mgr, budget, reg, gpu, phase, scope>>
ReplyExpires(t, k) ==
  /\ t \in DOMAIN book.int /\ k \in DOMAIN book.int[t].rep
  /\ ~book.int[t].rep[k].old /\ "interest" \in Faults
  /\ book' = [book EXCEPT !.int[t].rep[k].old = TRUE]
  /\ UNCHANGED <<client, mgr, budget, reg, gpu, phase, scope>>

\* Shutdown closes the control service, then the queries, then waits for every
\* permit of the reading tasks.
StopControl ==
  /\ phase = "running" /\ "stop" \in Faults
  /\ LET r == Retire(mgr, [book EXCEPT !.closed = TRUE])
     IN Commit(r.m, budget, gpu) /\ book' = r.bk
  /\ phase' = "closing"
  /\ UNCHANGED <<client, reg, gpu, scope>>
StopQueries ==
  /\ phase = "closing" /\ phase' = "draining"
  /\ Commit([CloseSessions(RemovePending(mgr, DOMAIN mgr.pend), DOMAIN mgr.sess)
               EXCEPT !.stopping = TRUE], budget, gpu)
  /\ UNCHANGED <<client, book, reg, gpu, scope>>
AllPermits(m) == Permits(m, AllKinds, Sessions) = 0
Drained ==
  /\ phase = "draining" /\ AllPermits(mgr)
  /\ phase' = "drained"
  /\ UNCHANGED <<client, book, mgr, budget, reg, gpu, scope>>

Zero == [i \in Instances |-> 0]
Init ==
  /\ client = [DeadClient EXCEPT !.alive = TRUE]
  /\ book = [closed |-> FALSE, next |-> 0, int |-> Empty]
  /\ mgr = [pend |-> Empty, sess |-> Empty, task |-> Empty, lease |-> Empty, stopping |-> FALSE]
  /\ budget = [use |-> [total |-> 0, inst |-> Zero, warming |-> 0, winst |-> Zero], res |-> Empty]
  /\ reg = [i \in Instances |-> [cur |-> 1, last |-> 1]]
  /\ gpu = [o \in Owners |-> 0]
  /\ phase = "running" /\ scope \in Scopes

Tickets == (1 .. RemoteOps) \X (1 .. RemoteRevs)
ClientStep ==
  \/ \E r \in Requests, n \in scope.lens : \/ \E intent \in scope.intents : Query(r, n, intent)
                                     \/ \E intent \in scope.intents : PrepareQuery(r, n, intent)
                                     \/ WarmPrefix(r, n)
  \/ \E r \in Requests : CancelQuery(r) \/ WarmupRunsOut(r)
  \/ \E o \in client.held : ReleaseLease(o)
  \/ LoseSession
RemoteStep ==
  \/ \E i \in Instances : OpenInterest(i)
  \/ \E t \in Tokens : \/ RemoteClose(t) \/ RefuseInterest(t)
                       \/ \E k \in Tickets : \/ RemoteExecute(t, k, 1, "submit")
                                             \/ RemoteExecute(t, k, 1, "poll")
                                             \/ RemoteExpired(t, k) \/ RemoteClaim(t, k)
                                             \/ RemoteCancel(t, k)
TaskStep == \E o \in Owners : ReadBatch(o) \/ SendReply(o)
GpuStep == \E o \in Owners : RestoreDone(o)
ExpiryStep == \E k \in Sessions \X Ops : QueryExpires(k)
ClockStep ==
  \/ ExpiryStep
  \/ \E k \in Sessions \X Ops : QueryLate(k)
  \/ \E r \in Requests : PreparationEnds(r)
  \/ \E o \in Owners : LeaseExpires(o)
  \/ \E t \in Tokens : InterestExpires(t) \/ \E k \in Tickets : ReplyExpires(t, k)
Next ==
  \/ ClientStep \/ RemoteStep \/ TaskStep \/ GpuStep \/ ClockStep
  \/ \E o \in Owners : Restore(o)
  \/ \E i \in Instances : Register(i) \/ Unregister(i)
  \/ Maintain \/ Reaper \/ Sweep
  \/ StopControl \/ StopQueries \/ Drained
Spec == Init /\ [][Next]_vars

\* Spawned reads complete and the runtime polls them; the dispatcher and the
\* reaper run on timers; GPU copies end; time passes; shutdown goes on.  Every
\* step below is enabled exactly while its condition is due, and falsifies it
\* after finitely many repetitions (the operations are bounded), so that weak
\* fairness of the step is the same as the condition being false infinitely
\* often; TLC evaluates the second form on a state.
TaskDue == \E o \in DOMAIN mgr.task : mgr.task[o].st \in {"reading", "made"}
GpuDue == \E o \in Owners : gpu[o] > 0
MaintainDue == RetainSessions(mgr, LiveTokens) # mgr
ReaperDue == Retire(mgr, book).bk # book
ExpiryDue == "expiry" \in Faults /\ \E k \in DOMAIN mgr.pend : ~mgr.pend[k].expired
StopDue == \/ phase = "closing"
           \/ phase = "draining" /\ AllPermits(mgr)
FairSpec ==
  /\ Spec
  /\ []<>~TaskDue /\ []<>~GpuDue /\ []<>~MaintainDue /\ []<>~ReaperDue
  /\ []<>~ExpiryDue /\ []<>~StopDue

-----------------------------------------------------------------------------
(* Properties.                                                               *)

Bytes(O) == FoldSet(LAMBDA o, a : a + budget.res[o].bytes, 0, O)
Charged(ph, i) == {o \in DOMAIN budget.res : budget.res[o].phase \in ph /\ budget.res[o].inst = i}
AllPhases == Speculative \union {"preparing", "ready", "restoring"}

\* The shapes of the books; every lease and task belongs to a known owner.
TypeOK ==
  /\ DOMAIN mgr.task \subseteq Owners /\ DOMAIN mgr.lease \subseteq Owners
  /\ DOMAIN mgr.pend \subseteq Sessions \X Ops /\ DOMAIN mgr.sess \subseteq Sessions
  /\ \A o \in DOMAIN mgr.lease : mgr.lease[o].left \in 1 .. WorldSize
  /\ \A o \in DOMAIN mgr.task : mgr.task[o].st \in {"reading", "made", "queued", "retained"}
  /\ \A o \in DOMAIN budget.res : budget.res[o].bytes \in Nat

\* QueryBudget: the counters are the sum of the live reservations, the
\* speculative part separately, and stay within both limits; no admission,
\* shrink, claim or drop counts a byte twice.
BudgetExact ==
  LET u == budget.use IN
  /\ \A i \in Instances : /\ u.inst[i] = Bytes(Charged(AllPhases, i))
                          /\ u.winst[i] = Bytes(Charged(Speculative, i))
                          /\ u.inst[i] <= PerInstance /\ u.winst[i] <= PerInstance \div 4
  /\ u.total = Bytes(DOMAIN budget.res) /\ u.total <= Global
  /\ u.warming <= Global \div 4

\* Whatever the order of a session's end and its last read, a lease belongs to
\* a session the Manager still knows, or to a task about to drop it.
NoOrphanLease ==
  \A o \in DOMAIN mgr.lease :
    \/ o[1] \in DOMAIN mgr.sess
    \/ o \in DOMAIN mgr.task /\ mgr.task[o].st = "made"

\* No lease outlives the registration it was read for: the generation check
\* and the release at unregistration share the instances lock.
LeasesAreCurrent ==
  \A o \in DOMAIN mgr.lease : reg[mgr.lease[o].inst].cur = mgr.lease[o].gen

\* The engine can reach every lease charged to its session: it holds it or
\* still tracks the ticket; revisions, cancels, preparations that run out and
\* failed calls leave none behind.
ClientKnows ==
  client.alive => \A o \in DOMAIN mgr.lease : o[1] = Local =>
    \/ o \in client.held
    \/ \E r \in Requests : Tracked(r) /\ o[2] = client.pending[r].op /\ o[3] = client.pending[r].rev
    \/ o \in DOMAIN mgr.task /\ mgr.task[o].st = "made"
    \/ phase \in {"draining", "drained"}

\* A ticket canceled by its coordinator, even before its submission arrived,
\* has no lease and no reply, except the lease a running task is to drop.
CanceledStaysCanceled ==
  \A t \in DOMAIN book.int : \A k \in DOMAIN book.int[t].sub :
    book.int[t].sub[k] = "canceled" =>
      LET o == <<t, k[1], k[2]>> IN
        /\ k \notin DOMAIN book.int[t].rep
        /\ o \in DOMAIN mgr.lease => o \in DOMAIN mgr.task /\ mgr.task[o].st = "made"

\* After the drain nothing reads and no lease is left; only bytes under a GPU
\* restore remain charged.
DrainedIsQuiet ==
  phase = "drained" => /\ mgr.task = Empty /\ mgr.lease = Empty
                       /\ \A o \in DOMAIN budget.res : gpu[o] > 0

\* The bytes of a dead engine's queries come back: reads in flight, replies
\* waiting in a channel, delivered leases and restores on the GPU.  (A dead
\* engine stays dead.)
DeadSessionEnds == []<>(client.alive \/ \A o \in DOMAIN budget.res : o[1] # Local)

\* A shutdown never waits for a permit nobody will return: neither a retained
\* reply nor an orphaned read blocks stop_and_drain, and closing ends drained.
StopEnds == []<>(phase \notin {"closing", "draining"})

\* Bytes reserved ahead of a request come back, or are claimed by it, even
\* when the client never calls again.
SpeculationEnds ==
  []<>("expiry" \in scope.faults => budget.use.warming = 0)

-----------------------------------------------------------------------------
(* What is checked                                                           *)

\* Every lease has a session, a current registration and an engine that knows it, a canceled ticket
\* keeps none, and none is left after the drain (pending.rs, query_control.rs, query/lease.rs).
LeasesOwned ==
  /\ TypeOK
  /\ NoOrphanLease
  /\ LeasesAreCurrent
  /\ ClientKnows
  /\ CanceledStaysCanceled
  /\ DrainedIsQuiet

\* Budget bytes come back after a session's death, a shutdown or an unused preparation
\* (retain_sessions, stop_and_drain, expiry).
QueriesEnd ==
  /\ DeadSessionEnds
  /\ StopEnds
  /\ SpeculationEnds
=============================================================================
