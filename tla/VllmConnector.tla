--------------------------- MODULE VllmConnector ---------------------------
(***************************************************************************)
(* The vLLM connector: the scheduler adapter (recovery queries, leases, the *)
(* restore gate, save planning, pinned boundary jobs, held requests) and    *)
(* the worker adapters (restore in the forward, save tasks on a thread of   *)
(* their own, completion reports), driven by vLLM's engine step.  vLLM, its *)
(* block pool and the native client are external.                           *)
(*                                                                          *)
(* What can go wrong is ownership.  A save reads GPU blocks long after the  *)
(* step that wrote them, while the engine preempts, finishes and reuses     *)
(* them; a lease or query opened for a request must be closed on every way  *)
(* a request can leave.                                                     *)
(*                                                                          *)
(* A block holds BlockSize tokens.  Its contents are written as             *)
(* <<kind, request, index>>: the KV of a whole block, or a recurrent state. *)
(* scope.kind: "dense", "striped" (page-first MLA), "control" (native shard *)
(* queries), "hybrid" (a recurrent group), "window" (a sliding group, whose *)
(* table is the one written down: full attention pages never retire).       *)
(***************************************************************************)
EXTENDS Integers, Sequences, FiniteSets, FiniteSetsExt, Functions, TLC

CONSTANT Scopes

BlockSize == 2

ASSUME VllmScopes ==
  \A x \in Scopes : x.blocks \in Nat /\ x.workers \in Nat \ {0} /\ IsFiniteSet(x.reqs)

VARIABLES
  scope,
  rq,        \* vLLM: requests and their block tables
  eng,       \* vLLM: the engine step
  sch,       \* SchedulerAdapter
  meta,      \* OrbitKVConnectorMetadata of the running step
  wk,        \* WorkerAdapters
  content,   \* GPU memory, per worker and block
  ledger,    \* leases outstanding at the Manager
  interest,  \* queries open at the Manager, <<request, group>>
  reg        \* the instance's GPU registration at the Manager, and its copies

vars == <<scope, rq, eng, sch, meta, wk, content, ledger, interest, reg>>

Reqs == scope.reqs
Workers == 1..scope.workers
Blocks == 1..scope.blocks
Fault(f) == f \in scope.faults
Hybrid == scope.kind = "hybrid"
Grouped == scope.kind \in {"hybrid", "window"}
Groups == IF Grouped THEN {0, 1} ELSE {0}

Nothing == <<"none", 0, 0>>
KV(r, i) == <<"kv", r, i>>
State(r, i) == <<"state", r, i>>
CeilDiv(a, b) == (a + b - 1) \div b
Low(a, b) == IF a < b THEN a ELSE b
High(a, b) == IF a < b THEN b ELSE a

(***************************************************************************)
(* vLLM's requests and block pool (external)                                *)
(***************************************************************************)

NewRequest == [st |-> "new", comp |-> 0, toks |-> 0, table |-> <<>>, rec |-> 0]
InUse == UNION {(Range(rq[r].table) \cup {rq[r].rec}) : r \in Reqs}
Pinned == UNION {sch.jobs[j].blocks : j \in DOMAIN sch.jobs}
FreeBlocks == Blocks \ (InUse \cup Pinned)

\* A running request has its tokens of this step, or none left to compute.
Settled(r) == r \in DOMAIN eng.plan \/ rq[r].comp = rq[r].toks

\* The request's own leading blocks that survive, unused, in the pool.
Survives(r, i) == \E b \in FreeBlocks : \A w \in Workers : content[w][b] = KV(r, i)
LocalHit(r) ==
  IF Grouped THEN 0
  ELSE Max({n \in 0..((rq[r].toks - 1) \div BlockSize) : \A i \in 1..n : Survives(r, i)})
LocalBlocks(r, n) ==
  [i \in 1..n |-> CHOOSE b \in FreeBlocks : \A w \in Workers : content[w][b] = KV(r, i)]

\* A sequence of n different blocks of S.
Pick(S, n) == LET f[k \in 0..n] ==
                    IF k = 0 THEN <<>>
                    ELSE Append(f[k - 1], Min(S \ Range(f[k - 1])))
              IN  f[n]

\* _native_block_hashes: one hash per whole block of the request's tokens.
HashCount(r) == rq[r].toks \div BlockSize

(***************************************************************************)
(* Scheduler side: recovery queries                                         *)
(***************************************************************************)

NoProbe == [st |-> "none", comp |-> 0, hit |-> 0, leases |-> {}, hold |-> {},
            cands |-> {}, got |-> {}, bound |-> 0, control |-> FALSE]
Probe(c) == [NoProbe EXCEPT !.st = "loading", !.comp = c]
ProbeLeases(p) == p.leases \cup p.hold \cup p.got

\* _release_query_probe: leases go back, pending groups are withdrawn.
ReleaseProbe(s, r) == [s EXCEPT !.probe[r] = NoProbe, !.prefetch = @ \ {r}]
Withdraw(I, s, r) ==
  {x \in I : ~(x[1] = r /\ (Grouped \/ r \in s.prefetch))}

\* _cleanup_request, after the probe's release
CancelQuery(I, r) == I \ {<<r, 0>>}

\* on_new_request: optional warm-up of the queued prefix.
OnNewRequest(r) ==
  /\ eng.phase = "idle" /\ rq[r].st = "new"
  /\ rq' = [rq EXCEPT ![r] = [@ EXCEPT !.st = "waiting", !.toks = scope.prompt[r]]]
  /\ sch' = [sch EXCEPT !.queued = @ \cup {r}]
  /\ interest' = IF Fault("prepare_prefix") THEN interest \cup {<<r, 0>>} ELSE interest
  /\ UNCHANGED <<scope, eng, meta, wk, content, ledger, reg>>

\* What the query of one lookup answers: [p: probe, new: leases, open: queries]
\* of the request; p.st is "loading" or "ready".
Answer(p, new, open) == [p |-> p, new |-> new, open |-> open]

\* A single group: query_prefetch, or query_shards with its control identity.
DenseAnswers(r, p, n) ==
  {Answer(p, {}, {<<r, 0>>})} \cup
  {LET id == IF h = 0 THEN {} ELSE {<<r, 0>>}
   IN  Answer([p EXCEPT !.st = "ready", !.hit = h, !.leases = id,
                        !.control = scope.kind = "control" /\ h > 0], id, {}) : h \in 0..n}

\* A hybrid miss keeps what is leased or open until the probe is released.
Miss(p, new, open) == Answer([p EXCEPT !.st = "ready", !.hit = 0], new, open)
Open(r) == {x \in interest : x[1] = r}

\* First stage of _query_hybrid: candidates of every group, no lease.
CandidateAnswers(r, p) ==
  {Answer([p EXCEPT !.cands = Groups \ L], {}, {<<r, g>> : g \in L}) :
     L \in SUBSET (Groups \ p.cands) \ {{}}}

\* Second stage: read_recovery group by group; an empty group ends in a miss,
\* groups before it being leased or left loading, those after it as they were.
ReadAnswers(r, p) ==
  LET left == {g \in Groups : <<r, g>> \notin p.got}
      take(G) == {<<r, g>> : g \in G}
      before(g) == {h \in left : h < g}
  IN  {Answer([p EXCEPT !.got = @ \cup take(left \ L)], take(left \ L), take(L)) :
         L \in SUBSET left \ {{}}}
      \cup UNION {{Miss([p EXCEPT !.got = @ \cup take(before(g) \ L)], take(before(g) \ L),
                        {x \in Open(r) : x[2] > g} \cup take(L)) :
                     L \in SUBSET before(g)} : g \in left}
      \cup {Answer([p EXCEPT !.st = "ready", !.got = {}, !.hit = p.bound - p.comp,
                             !.leases = {<<r, 0>>}, !.hold = take(Groups \ {0})],
                   take(left), {})}

\* select_boundary: within the final-token budget; 0 is a miss.
Boundaries(r, p, n) == {h \in 0..n : h = 0 \/ (p.comp + h) * BlockSize <= rq[r].toks - 1}

HybridAnswers(r, p, n) ==
  (IF p.bound # 0 THEN ReadAnswers(r, p)
   ELSE CandidateAnswers(r, p)
        \cup UNION {LET q == [p EXCEPT !.cands = Groups, !.bound = p.comp + h]
                    IN  IF h = 0 THEN {Miss(q, {}, {})} ELSE ReadAnswers(r, q)
                    : h \in Boundaries(r, p, n)})
  \cup (IF Fault("expire") THEN {Miss(p, {}, Open(r))} ELSE {})

\* _finish_cache_lookup: one token is always left to compute.
HitTokens(r, p) == Low(p.hit * BlockSize, High(0, rq[r].toks - p.comp * BlockSize - 1))

\* One restore at a time is admitted ahead of its forward.
Gated(s) == s.await # {}

\* _complete_cache_lookup with the gate, then what vLLM is told.
Told(r, s, p, l, i) ==
  LET t == HitTokens(r, p)
      drift == p.hold # {} /\ t # p.hit * BlockSize
      known == [s EXCEPT !.probe[r] = p,
                         !.matched[r] = IF drift THEN @ ELSE p.comp + CeilDiv(t, BlockSize)]
  IN  IF Gated(s)
      THEN /\ sch' = [s EXCEPT !.probe[r] = p] /\ ledger' = l /\ interest' = i
           /\ eng' = [eng EXCEPT !.asked = @ \cup {r}]
      ELSE IF drift \/ t = 0
      THEN /\ sch' = ReleaseProbe(known, r)
           /\ ledger' = l \ ProbeLeases(p)
           /\ interest' = Withdraw(i, s, r)
           /\ eng' = [eng EXCEPT !.asked = @ \cup {r}, !.cur = r, !.hit = 0, !.local = p.comp]
      ELSE /\ sch' = known /\ ledger' = l /\ interest' = i
           /\ eng' = [eng EXCEPT !.asked = @ \cup {r}, !.cur = r, !.hit = t, !.local = p.comp]

\* vLLM asks a waiting request once per pass, and none after a preemption or
\* a failed allocation (external).
Asking(r) ==
  /\ eng.phase = "schedule" /\ eng.cur = 0 /\ ~eng.full /\ eng.pre = {}
  /\ rq[r].st = "waiting" /\ r \notin eng.asked
  /\ \A q \in Range(eng.running) : Settled(q)

\* get_num_new_matched_tokens
Lookup(r) ==
  LET c == LocalHit(r)
      n == HashCount(r) - c
      stale == sch.probe[r].st # "none" /\ (n = 0 \/ sch.probe[r].comp # c)
      s0 == IF stale THEN ReleaseProbe(sch, r) ELSE sch
      l0 == IF stale THEN ledger \ ProbeLeases(sch.probe[r]) ELSE ledger
      i0 == IF stale THEN Withdraw(interest, sch, r) ELSE interest
      p0 == IF s0.probe[r].st = "none" THEN Probe(c) ELSE s0.probe[r]
  IN  /\ Asking(r)
      /\ \/ /\ n = 0
            /\ sch' = [s0 EXCEPT !.matched[r] = c]
            /\ ledger' = l0 /\ interest' = CancelQuery(i0, r)
            /\ eng' = [eng EXCEPT !.asked = @ \cup {r}, !.hit = 0, !.local = c,
                                  !.cur = IF Gated(sch) THEN 0 ELSE r]
         \/ /\ n # 0 /\ p0.st = "ready"
            /\ Told(r, s0, p0, l0, i0)
         \/ /\ n # 0 /\ p0.st = "loading"
            /\ \E a \in (IF Grouped THEN HybridAnswers(r, p0, n) ELSE DenseAnswers(r, p0, n)) :
                 LET l1 == l0 \cup a.new
                     i1 == {x \in i0 : x[1] # r} \cup a.open
                 IN  IF a.p.st = "loading"
                     THEN /\ sch' = [s0 EXCEPT !.probe[r] = a.p, !.prefetch = @ \cup {r}]
                          /\ ledger' = l1 /\ interest' = i1
                          /\ eng' = [eng EXCEPT !.asked = @ \cup {r}]
                     ELSE Told(r, [s0 EXCEPT !.prefetch = @ \ {r}], a.p, l1, i1)
      /\ UNCHANGED <<scope, rq, meta, wk, content, reg>>

\* _query_recovery raises out of vLLM's scheduler; the probe is given up first.
LookupFails(r) ==
  /\ Fault("query") /\ Asking(r) /\ sch.probe[r].st = "loading"
  /\ sch' = ReleaseProbe(sch, r)
  /\ ledger' = ledger \ ProbeLeases(sch.probe[r]) /\ interest' = Withdraw(interest, sch, r)
  /\ eng' = [eng EXCEPT !.phase = "dead"]
  /\ UNCHANGED <<scope, rq, meta, wk, content, reg>>

(***************************************************************************)
(* Scheduler side: allocation and the step's metadata                       *)
(***************************************************************************)

\* One request's share of the step: tokens [from, from + n), of which x more
\* before them come from a lease; new is what the table gained.
Share(from, n, x, new, offers) == [from |-> from, n |-> n, x |-> x, new |-> new, offers |-> offers]
Upto(r) == eng.plan[r].from + eng.plan[r].n

\* vLLM hands a recurrent block off at a block boundary, and again every
\* boundary of a loaded prefix.
Offers(rec, loaded, end) ==
  IF ~Hybrid THEN {}
  ELSE {<<rec, i>> : i \in {j \in 1..loaded : TRUE} \cup
                           (IF end % BlockSize = 0 THEN {end \div BlockSize} ELSE {})}

\* _load_block_ids_by_group: the pages after the local prefix.
LoadBlockIds(t, comp, x) == SubSeq(t, comp + 1, comp + CeilDiv(x, BlockSize))

\* update_state_after_alloc: the lease moves from the probe to a load intent.
\* Its checks that vLLM allocated what the lookup of this pass offered raise
\* only if vLLM does not, and are left out.
AfterAllocKeepsProbe(r, x, t) ==
  [sch EXCEPT !.known = @ \cup {r}, !.await = @ \cup {r},
              !.intents = @ @@ (r :> [leases |-> sch.probe[r].leases, control |-> FALSE,
                                      dest |-> LoadBlockIds(t, sch.probe[r].comp, x)])]
AfterAlloc(r, x, t) ==
  LET p == sch.probe[r]
      base == IF x = 0 /\ p.st # "none" THEN p.comp ELSE sch.matched[r]
      first == [sch EXCEPT !.matched[r] = base, !.known = @ \cup {r},
                           !.offset[r] = IF r \in sch.known THEN @ ELSE base,
                           !.next[r] = IF r \in sch.known THEN @ ELSE base]
  IN  IF x = 0 THEN ReleaseProbe(first, r)
      ELSE [first EXCEPT !.probe[r] = NoProbe, !.await = @ \cup {r},
                         !.intents = @ @@ (r :> [leases |-> p.leases \cup p.hold,
                                                 dest |-> LoadBlockIds(t, p.comp, x), control |-> p.control]),
                         !.controls = IF p.control THEN @ @@ (r :> {}) ELSE @]

\* vLLM admits the request it just asked about (external); with "multi",
\* another connector may have been given the pages.
Admit(r, x, n) ==
  LET from == eng.local * BlockSize + x
      need == CeilDiv(from + n, BlockSize) - eng.local
      kept == LocalBlocks(r, eng.local)
      S == FreeBlocks \ Range(kept)
      new == Pick(S, need)
      rec == IF Hybrid THEN Min(S \ Range(new)) ELSE 0
  IN  /\ eng.phase = "schedule" /\ eng.cur = r
      /\ x \in {eng.hit} \cup (IF Fault("multi") THEN {0} ELSE {})
      /\ n \in {1, rq[r].toks - from} /\ n >= 1
      /\ Cardinality(S) >= need + (IF Hybrid THEN 1 ELSE 0)
      /\ rq' = [rq EXCEPT ![r] = [@ EXCEPT !.st = "running", !.table = kept \o new, !.rec = rec]]
      /\ eng' = [eng EXCEPT !.cur = 0, !.running = Append(@, r), !.fresh = @ \cup {r},
                            !.plan = @ @@ (r :> Share(from, n, x, kept \o new,
                                                      Offers(rec, from \div BlockSize, from + n)))]
      /\ sch' = AfterAlloc(r, x, kept \o new)
      /\ ledger' = IF x = 0 THEN ledger \ ProbeLeases(sch.probe[r]) ELSE ledger
      /\ interest' = IF x = 0 /\ sch.probe[r].st # "none" THEN Withdraw(interest, sch, r) ELSE interest
      /\ UNCHANGED <<scope, meta, wk, content, reg>>

\* The pool cannot hold the request now: vLLM stops admitting (external).
AdmitFails ==
  /\ eng.phase = "schedule" /\ eng.cur # 0
  /\ CeilDiv(rq[eng.cur].toks, BlockSize) - eng.local + (IF Hybrid THEN 1 ELSE 0)
       > Cardinality(FreeBlocks) - eng.local
  /\ eng' = [eng EXCEPT !.cur = 0, !.full = TRUE]
  /\ UNCHANGED <<scope, rq, sch, meta, wk, content, ledger, interest, reg>>

\* vLLM gives a running request n more tokens; a new boundary state takes a
\* new block, pages behind the window leave the table (external).
Turn(r) == /\ eng.phase = "schedule" /\ r \in Range(eng.running) /\ ~Settled(r)
           /\ \A i, j \in DOMAIN eng.running :
                i < j /\ eng.running[j] = r => Settled(eng.running[i])
Retired(t, comp) ==
  [i \in DOMAIN t |-> IF scope.kind = "window" /\ i < comp \div BlockSize THEN 0 ELSE t[i]]
FreeFor(r) ==
  FreeBlocks \cup (Range(rq[r].table) \ (Range(Retired(rq[r].table, rq[r].comp)) \cup Pinned))
Demand(r, n) == CeilDiv(rq[r].comp + n, BlockSize) - Len(rq[r].table)
Rotates(r) == Hybrid /\ rq[r].comp % BlockSize = 0
CanContinue(r, n) == Cardinality(FreeFor(r)) >= Demand(r, n) + (IF Rotates(r) THEN 1 ELSE 0)
Continue(r, n) ==
  LET new == Pick(FreeFor(r), Demand(r, n))
      rec == IF Rotates(r) THEN Min(FreeFor(r) \ Range(new)) ELSE rq[r].rec
  IN  /\ Turn(r) /\ n \in {1, rq[r].toks - rq[r].comp} /\ CanContinue(r, n)
      /\ rq' = [rq EXCEPT ![r] = [@ EXCEPT !.table = Retired(@, rq[r].comp) \o new, !.rec = rec]]
      /\ eng' = [eng EXCEPT !.plan = @ @@ (r :> Share(rq[r].comp, n, 0, new,
                                                      Offers(rec, 0, rq[r].comp + n)))]
      /\ UNCHANGED <<scope, sch, meta, wk, content, ledger, interest, reg>>

\* No block for the next token: vLLM preempts its last running request and
\* frees the blocks at once (external).
Preempt(r) ==
  LET q == eng.running[Len(eng.running)]
  IN  /\ Turn(r) /\ ~CanContinue(r, 1)
      /\ rq' = [rq EXCEPT ![q] = [@ EXCEPT !.st = "waiting", !.comp = 0, !.table = <<>>, !.rec = 0]]
      /\ eng' = [eng EXCEPT !.pre = @ \cup {q}, !.running = SubSeq(@, 1, Len(@) - 1)]
      /\ UNCHANGED <<scope, sch, meta, wk, content, ledger, interest, reg>>

\* The mirror of the request's table after this step's allocation.
Table(r) == IF r \in eng.fresh THEN eng.plan[r].new ELSE sch.alloc[r] \o eng.plan[r].new

\* _rebase_resumed_request: coordinates follow the latest lookup, saved blocks
\* stay saved.
Rebased(r) == IF r \in eng.fresh
              THEN [offset |-> sch.matched[r], next |-> High(sch.next[r], sch.matched[r])]
              ELSE [offset |-> sch.offset[r], next |-> sch.next[r]]

\* _consume_full_block_saves
Saveable(r) ==
  LET base == Rebased(r).offset
      scheduled == High(0, Upto(r) - base * BlockSize)
  IN  Low(HashCount(r), Low(Len(Table(r)), base + scheduled \div BlockSize))
FullBlockSaves(r) == {<<Table(r)[i], KV(r, i)>> : i \in (Rebased(r).next + 1)..Saveable(r)}

\* _consume_boundary_state_offloads
BoundaryRows(r) ==
  {<<o[1], State(r, o[2])>> : o \in {x \in eng.plan[r].offers :
     /\ x[2] - 1 >= sch.matched[r] /\ x[2] - 1 < HashCount(r)
     /\ x[2] \notin sch.saved[r]}}

\* _pin_save_intent: one job, its blocks, and the workers still to report.
PinSaveIntent(ents) == [blocks |-> {e[1] : e \in ents} \ {0}, left |-> scope.workers]

\* A restore has its forward once the request is scheduled.
StillAwaited(P) == sch.await
Awaited(P) == sch.await \ P

EmptyMeta == [loads |-> <<>>, saves |-> <<>>, jobs |-> <<>>, pre |-> {}, fin |-> {}]

\* build_connector_meta, once vLLM has asked and allocated for every request.
BuildConnectorMeta ==
  LET P == DOMAIN eng.plan
      savers == {r \in P : FullBlockSaves(r) # {}}
      window == scope.kind = "window"
      jobbers == IF window THEN savers ELSE {r \in P : BoundaryRows(r) # {}}
      ents(r) == IF window THEN FullBlockSaves(r) ELSE BoundaryRows(r)
      id(r) == sch.jobseq + Cardinality({q \in jobbers : q <= r})
      owner(j) == CHOOSE r \in jobbers : id(r) = j
      ids == {id(r) : r \in jobbers}
      positional == IF window THEN {} ELSE savers
  IN  /\ eng.phase = "schedule" /\ eng.cur = 0
      /\ \A r \in Range(eng.running) : Settled(r)
      /\ eng.full \/ eng.pre # {} \/ \A r \in Reqs : rq[r].st = "waiting" => r \in eng.asked
      /\ meta' = [loads |-> sch.intents, pre |-> eng.pre, fin |-> eng.fin,
                  saves |-> [r \in positional |-> FullBlockSaves(r)],
                  jobs |-> [j \in ids |-> ents(owner(j))]]
      /\ sch' = [sch EXCEPT
           !.queued = @ \ P, !.await = Awaited(P), !.intents = <<>>,
           !.alloc = [r \in Reqs |-> IF r \in P THEN Table(r) ELSE @[r]],
           !.offset = [r \in Reqs |-> IF r \in P THEN Rebased(r).offset ELSE @[r]],
           !.next = [r \in Reqs |-> IF r \notin P THEN @[r]
                                    ELSE High(Rebased(r).next, Saveable(r))],
           !.saved = [r \in Reqs |-> IF r \in P THEN @[r] \cup {e[2][3] : e \in BoundaryRows(r)} ELSE @[r]],
           !.saves = @ \cup positional,
           !.jobs = @ @@ [j \in ids |-> PinSaveIntent(ents(owner(j)))],
           !.jobseq = @ + Cardinality(ids)]
      /\ eng' = [eng EXCEPT !.phase = "run", !.fin = {}, !.pre = {}]
      /\ wk' = [w \in Workers |-> [wk[w] EXCEPT !.pc = "begin"]]
      /\ UNCHANGED <<scope, rq, content, ledger, interest, reg>>

(***************************************************************************)
(* Worker side                                                              *)
(***************************************************************************)

Task(R, J, E) == [reqs |-> R, jobs |-> J, ents |-> E, ok |-> FALSE]
Dies == eng' = [eng EXCEPT !.phase = "dead"]

\* _block_shard: page-first pages are striped over the workers.
BlockShard(w, b) == scope.kind # "striped" \/ b % scope.workers = w - 1

\* _layer_saves: null blocks are skipped.
LayerSaves(w, E) == {e \in E : e[1] # 0 /\ BlockShard(w, e[1])}

\* _make_save_task: one more pending task for each of its requests.
MakeSaveTask(k, R) ==
  [k EXCEPT !.completed = @ \ {r \in R : k.pend[r] = 0},
            !.pend = [r \in Reqs |-> IF r \in R THEN @[r] + 1 ELSE @[r]]]

\* _complete_save_requests: the last task of a request completes it.
CompleteSaves(k, ts) ==
  LET left(r) == k.pend[r] - Cardinality({i \in DOMAIN ts : r \in ts[i].reqs})
      R == UNION {ts[i].reqs : i \in DOMAIN ts}
  IN  [k EXCEPT !.pend = [r \in Reqs |-> left(r)],
                !.completed = @ \cup {r \in R : left(r) = 0},
                !.jobsDone = @ \cup UNION {ts[i].jobs : i \in DOMAIN ts}]

\* _enqueue_save with the outcome of prepare_save.
EnqueueSave(k, t, how) ==
  IF t.ents = {} \/ how = "rejected" THEN CompleteSaves(k, <<t>>)
  ELSE IF how = "unknown" THEN [k EXCEPT !.retained = Append(@, t)]
  ELSE [k EXCEPT !.queue = Append(@, t)]

\* handle_preemptions waits for the saves of preempted requests; then
\* start_load_kv starts the restore of the forward.
HandlePreemptionsAtOnce(w) == TRUE
HandlePreemptions(w) == \A r \in meta.pre : wk[w].pend[r] = 0
StartLoadKv(w) ==
  /\ eng.phase = "run" /\ wk[w].pc = "begin"
  /\ HandlePreemptions(w)
  /\ \/ wk' = [wk EXCEPT ![w].pc = "forward", ![w].restore = DOMAIN meta.loads] /\ UNCHANGED eng
     \/ Fault("restore") /\ meta.loads # <<>> /\ Dies /\ UNCHANGED wk
  /\ UNCHANGED <<scope, rq, sch, meta, content, ledger, interest, reg>>

\* The forward, behind the restore's layer events, writes the blocks of its
\* requests (external).
Written(r, i) == i * BlockSize > eng.plan[r].from
Restored(b) == {x \in UNION {{r} \X DOMAIN meta.loads[r].dest : r \in DOMAIN meta.loads} :
                  meta.loads[x[1]].dest[x[2]] = b}
After(r, i) == IF i * BlockSize <= Upto(r) THEN KV(r, i) ELSE Nothing
Boundary(r) == IF Upto(r) % BlockSize = 0 THEN State(r, Upto(r) \div BlockSize) ELSE Nothing
Forward(w) ==
  LET P == DOMAIN eng.plan
      at(b) == {x \in UNION {{r} \X DOMAIN rq[r].table : r \in P} :
                  rq[x[1]].table[x[2]] = b /\ Written(x[1], x[2])}
      state(b) == {r \in P : rq[r].rec = b}
      value(b) == IF at(b) # {} THEN LET x == CHOOSE y \in at(b) : TRUE IN After(x[1], x[2])
                  ELSE IF Restored(b) # {}
                  THEN LET x == CHOOSE y \in Restored(b) : TRUE
                       IN  KV(x[1], (eng.plan[x[1]].from - eng.plan[x[1]].x) \div BlockSize + x[2])
                  ELSE IF state(b) # {} THEN Boundary(CHOOSE r \in state(b) : TRUE)
                  ELSE content[w][b]
  IN  /\ eng.phase = "run" /\ wk[w].pc = "forward"
      /\ content' = [content EXCEPT ![w] = [b \in Blocks |-> value(b)]]
      /\ wk' = [wk EXCEPT ![w].pc = "save"]
      /\ UNCHANGED <<scope, rq, eng, sch, meta, ledger, interest, reg>>

\* get_transfer_results: requests vLLM finished whose saves are complete.
TransferResults(k, fin) ==
  LET f == k.finished \cup {r \in fin : k.pend[r] > 0}
      done == k.completed \cap (f \cup fin)
  IN  [k EXCEPT !.completed = @ \ done, !.finished = f \ done, !.sent = done, !.pc = "done"]

\* wait_for_save: the restore is proven, then the step's saves are queued; an
\* unknown outcome ends the engine with its pages held.
PrepareOutcomes == {"queued"} \cup (IF Fault("reject") THEN {"rejected"} ELSE {})
                   \cup (IF Fault("unknown") THEN {"unknown"} ELSE {})
WaitForSave(w) ==
  LET k == wk[w]
      saves == Task(DOMAIN meta.saves, {},
                    LayerSaves(w, UNION {meta.saves[r] : r \in DOMAIN meta.saves}))
      bound == Task({}, DOMAIN meta.jobs,
                    LayerSaves(w, UNION {meta.jobs[j] : j \in DOMAIN meta.jobs}))
      restored == [k EXCEPT !.restore = {}, !.controls = @ \cup {r \in k.restore : meta.loads[r].control}]
  IN  /\ eng.phase = "run" /\ k.pc = "save"
      /\ \/ /\ eng.plan # <<>>
            /\ k.retained # <<>> \/ (Fault("restore") /\ k.restore # {})
            /\ Dies /\ UNCHANGED wk
         \/ /\ eng.plan = <<>> \/ k.retained = <<>>
            /\ \E h1 \in IF saves.reqs = {} THEN {"none"} ELSE PrepareOutcomes,
                  h2 \in IF bound.jobs = {} THEN {"none"} ELSE PrepareOutcomes :
                 LET k1 == IF h1 = "none" THEN restored
                           ELSE EnqueueSave(MakeSaveTask(restored, saves.reqs), saves, h1)
                     dead == k1.retained # <<>> /\ k.retained = <<>>
                     k2 == IF h2 = "none" THEN k1
                           ELSE EnqueueSave(k1, bound, IF dead THEN "unknown" ELSE h2)
                 IN  IF k2.retained # k.retained
                     THEN Dies /\ wk' = [wk EXCEPT ![w] = k2]
                     ELSE UNCHANGED eng /\ wk' = [wk EXCEPT ![w] = TransferResults(k2, meta.fin)]
      /\ UNCHANGED <<scope, rq, sch, meta, content, ledger, interest, reg>>

\* _save_worker takes what is queued as one batch.
TakeBatch(w) ==
  /\ wk[w].queue # <<>> /\ wk[w].batch = <<>>
  /\ wk' = [wk EXCEPT ![w].batch = wk[w].queue, ![w].queue = <<>>, ![w].native = FALSE]
  /\ UNCHANGED <<scope, rq, eng, sch, meta, content, ledger, interest, reg>>

\* _process_save_batch: the whole batch completes, or the whole batch is kept.
BatchEnd(k, ok) ==
  LET done == [i \in DOMAIN k.batch |-> [k.batch[i] EXCEPT !.ok = i \in ok]]
      base == [k EXCEPT !.batch = <<>>, !.native = FALSE]
  IN  IF ok = DOMAIN k.batch THEN CompleteSaves(base, k.batch)
      ELSE [base EXCEPT !.retained = @ \o done]

\* _save_batch up to submit_saves: the producer's event, the previous batch's
\* completion, then the submission.
SubmitBatch(w) ==
  LET k == wk[w]
      ends(ok) == wk' = [wk EXCEPT ![w] = BatchEnd(k, ok)] /\ UNCHANGED reg
  IN  /\ k.batch # <<>> /\ ~k.native
      /\ \/ Fault("sync") /\ \E C \in SUBSET DOMAIN k.batch : ends(C)
         \/ k.retained # <<>> /\ ends({})
         \/ k.retained = <<>> /\ Fault("reject") /\ ends(DOMAIN k.batch)
         \/ /\ k.retained = <<>>
            /\ wk' = [wk EXCEPT ![w].native = TRUE]
            /\ reg' = IF w \in reg.open THEN [reg EXCEPT !.copying = @ \cup {w}] ELSE reg
      /\ UNCHANGED <<scope, rq, eng, sch, meta, content, ledger, interest>>

\* The Manager's copy of a worker's batch ends (external).
CopyEnds(w) ==
  /\ w \in reg.copying
  /\ reg' = [reg EXCEPT !.copying = @ \ {w}]
  /\ UNCHANGED <<scope, rq, eng, sch, meta, wk, content, ledger, interest>>

\* wait_save of each task, done once the copy is, or never begun; a lost
\* outcome stops at its task, whatever the copy does.
BatchEnds(w) ==
  LET k == wk[w]
  IN  /\ k.batch # <<>> /\ k.native
      /\ \E n \in (IF Fault("unknown") THEN 0..(Len(k.batch) - 1) ELSE {})
                  \cup (IF w \in reg.copying THEN {} ELSE {Len(k.batch)}) :
           wk' = [wk EXCEPT ![w] = BatchEnd(k, 1..n)]
      /\ UNCHANGED <<scope, rq, eng, sch, meta, content, ledger, interest, reg>>

(***************************************************************************)
(* Scheduler side: the step's output, and the end of requests               *)
(***************************************************************************)

\* _cleanup_request
CleanupRequest(s, r) ==
  [ReleaseProbe(s, r) EXCEPT !.queued = @ \ {r}, !.known = @ \ {r}, !.matched[r] = 0,
     !.offset[r] = 0, !.alloc[r] = <<>>, !.next[r] = 0, !.saved[r] = {}, !.saves = @ \ {r}]
CleanupInterest(s, r) ==
  CancelQuery(IF s.probe[r].st = "none" THEN interest ELSE Withdraw(interest, s, r), r)
Freed(q) == [q EXCEPT !.st = "gone", !.table = <<>>, !.rec = 0]

\* _release_boundary_jobs with the workers' reports summed.
ReleaseBoundaryJobs(jobs) ==
  LET left(j) == jobs[j].left - Cardinality({w \in Workers : j \in wk[w].jobsDone})
  IN  [j \in {i \in DOMAIN jobs : left(i) # 0} |-> [jobs[j] EXCEPT !.left = left(j)]]

\* update_connector_output on the summed worker outputs, and vLLM's own
\* bookkeeping of the step.
UpdateConnectorOutput ==
  LET sent == [r \in Reqs |-> eng.sent[r] \cup {w \in Workers : r \in wk[w].sent}]
      over == {r \in Reqs : sent[r] = Workers}
      s1 == [sch EXCEPT !.saves = @ \ over, !.held = @ \ over]
      s2 == [r \in Reqs |-> IF r \in over \cap sch.held THEN CleanupRequest(s1, r) ELSE s1]
      ranks(r) == sch.controls[r] \cup {w \in Workers : r \in wk[w].controls}
      ended == {r \in DOMAIN sch.controls : ranks(r) = Workers}
      clean == over \cap sch.held
      grown(r) == IF Upto(r) = rq[r].toks /\ rq[r].toks < scope.total[r] THEN 1 ELSE 0
  IN  /\ eng.phase = "run" /\ \A w \in Workers : wk[w].pc = "done"
      /\ sch' = [s1 EXCEPT
           !.queued = @ \ clean, !.known = @ \ clean,
           !.probe = [r \in Reqs |-> s2[r].probe[r]], !.prefetch = @ \ clean,
           !.matched = [r \in Reqs |-> s2[r].matched[r]], !.offset = [r \in Reqs |-> s2[r].offset[r]],
           !.alloc = [r \in Reqs |-> s2[r].alloc[r]], !.next = [r \in Reqs |-> s2[r].next[r]],
           !.saved = [r \in Reqs |-> s2[r].saved[r]],
           !.jobs = ReleaseBoundaryJobs(@),
           !.controls = [r \in DOMAIN sch.controls \ ended |-> ranks(r)]]
      /\ rq' = [r \in Reqs |->
           IF r \in over THEN Freed(rq[r])
           ELSE IF r \in DOMAIN eng.plan
           THEN [rq[r] EXCEPT !.comp = Upto(r), !.toks = @ + grown(r)]
           ELSE rq[r]]
      /\ ledger' = ledger \ ({<<r, 0>> : r \in ended}
                             \cup UNION {ProbeLeases(sch.probe[r]) : r \in clean}
                             \cup UNION {meta.loads[r].leases : r \in {q \in DOMAIN meta.loads : ~meta.loads[q].control}})
      /\ interest' = {x \in interest : x[1] \in clean => x \in CleanupInterest(sch, x[1])}
      /\ eng' = [eng EXCEPT !.phase = "idle", !.plan = <<>>, !.fresh = {}, !.asked = {}, !.full = FALSE,
                            !.sent = [r \in Reqs |-> IF r \in over THEN {} ELSE sent[r]]]
      /\ wk' = [w \in Workers |-> [wk[w] EXCEPT !.pc = "idle", !.sent = {}, !.jobsDone = {}, !.controls = {}]]
      /\ meta' = EmptyMeta
      /\ UNCHANGED <<scope, content, reg>>

\* request_finished: blocks with saves in flight stay with the connector.
RequestFinished(r) ==
  /\ eng.phase = "idle"
  /\ \/ rq[r].st = "running" /\ rq[r].comp = scope.total[r]
     \/ Fault("abort") /\ rq[r].st \in {"waiting", "running"}
  /\ IF r \in sch.saves
     THEN /\ sch' = [sch EXCEPT !.await = @ \ {r}, !.held = @ \cup {r}]
          /\ rq' = [rq EXCEPT ![r].st = "done"]
          /\ UNCHANGED <<ledger, interest>>
     ELSE /\ sch' = CleanupRequest([sch EXCEPT !.await = @ \ {r}], r)
          /\ rq' = [rq EXCEPT ![r] = Freed(@)]
          /\ ledger' = ledger \ ProbeLeases(sch.probe[r])
          /\ interest' = CleanupInterest(sch, r)
  /\ eng' = [eng EXCEPT !.fin = @ \cup {r}, !.running = SelectSeq(@, LAMBDA q : q # r)]
  /\ UNCHANGED <<scope, meta, wk, content, reg>>

\* has_pending_push_work keeps an otherwise idle engine stepping.
HasPendingPushWork == sch.jobs # <<>>
StartStep ==
  /\ eng.phase = "idle"
  /\ \A r \in Reqs : ~(rq[r].st = "running" /\ rq[r].comp = scope.total[r])
  /\ HasPendingPushWork \/ eng.fin # {} \/ \E r \in Reqs : rq[r].st \in {"waiting", "running"}
  /\ eng' = [eng EXCEPT !.phase = "schedule"]
  /\ UNCHANGED <<scope, rq, sch, meta, wk, content, ledger, interest, reg>>

\* reset_cache: refused while any request, query, load or save is owned.
QuietButJobs(s) == /\ s.known = {} /\ s.saves = {} /\ s.queued = {}
Quiet(s) == /\ s.known = {} /\ s.await = {} /\ s.intents = <<>>
            /\ s.saves = {} /\ s.held = {} /\ s.jobs = <<>> /\ s.controls = <<>>
            /\ s.queued = {} /\ \A r \in Reqs : s.probe[r].st = "none"
ResetCache ==
  /\ eng.phase = "idle" /\ sch.gen = 0
  /\ Quiet(sch)
  /\ sch' = [sch EXCEPT !.gen = 1]
  /\ UNCHANGED <<scope, rq, eng, meta, wk, content, ledger, interest, reg>>

\* SchedulerAdapter.shutdown: probes and queued queries are given back.
Shutdown ==
  LET open == {r \in Reqs : sch.probe[r].st # "none"}
  IN  /\ Fault("shutdown") /\ eng.phase = "idle"
      /\ eng' = [eng EXCEPT !.phase = "off"]
      /\ sch' = [sch EXCEPT !.probe = [r \in Reqs |-> NoProbe], !.prefetch = {}, !.queued = {}]
      /\ ledger' = ledger \ UNION {ProbeLeases(sch.probe[r]) : r \in open}
      /\ interest' = {x \in interest :
           /\ x[1] \in open => x \in Withdraw(interest, sch, x[1])
           /\ x[1] \in sch.queued => x[2] # 0}
      /\ UNCHANGED <<scope, rq, meta, wk, content, reg>>

\* WorkerAdapter.shutdown joins the drained save thread; unregister_context
\* raises while a save of its own has no known outcome.  The first local rank
\* unregisters the instance for all of them, the others forget their layers.
UnregisterContext(w) ==
  \/ w # 1 /\ wk' = [wk EXCEPT ![w].pc = "off"] /\ UNCHANGED reg
  \/ w = 1 /\ wk' = [wk EXCEPT ![w].pc = "unregister"] /\ reg' = [reg EXCEPT !.st = "draining"]
  \/ w = 1 /\ Fault("refuse") /\ wk' = [wk EXCEPT ![w].pc = "held"] /\ UNCHANGED reg
ShutdownWorker(w) ==
  /\ eng.phase = "off" /\ wk[w].pc = "idle" /\ wk[w].queue = <<>> /\ wk[w].batch = <<>>
  /\ IF wk[w].retained # <<>> THEN wk' = [wk EXCEPT ![w].pc = "held"] /\ UNCHANGED reg
     ELSE UnregisterContext(w)
  /\ UNCHANGED <<scope, rq, eng, sch, meta, content, ledger, interest>>

\* unregister_instance_and_wait at the Manager.  drain_workers closes one
\* rank's pool after another, each once the pool before it has no copy left;
\* until then a pool takes what its rank submits.
DrainWorkers(w) ==
  /\ reg.st = "draining" /\ w \in reg.open /\ reg.copying \subseteq reg.open
  /\ reg' = [reg EXCEPT !.open = @ \ {w}]
  /\ UNCHANGED <<scope, rq, eng, sch, meta, wk, content, ledger, interest>>
UnregisterInstance ==
  /\ reg.st = "draining" /\ reg.open = {} /\ reg.copying \subseteq reg.open
  /\ reg' = [reg EXCEPT !.st = "gone"]
  /\ UNCHANGED <<scope, rq, eng, sch, meta, wk, content, ledger, interest>>

\* The answer reaches the first rank; a refusal leaves its layers registered.
UnregisterReturns(w) ==
  /\ wk[w].pc = "unregister"
  /\ \/ reg.st = "gone" /\ wk' = [wk EXCEPT ![w].pc = "off"]
     \/ Fault("refuse") /\ wk' = [wk EXCEPT ![w].pc = "held"]
  /\ UNCHANGED <<scope, rq, eng, sch, meta, content, ledger, interest, reg>>

(***************************************************************************)
(* The specification                                                        *)
(***************************************************************************)

Init ==
  /\ scope \in Scopes
  /\ rq = [r \in Reqs |-> NewRequest]
  /\ eng = [phase |-> "idle", cur |-> 0, hit |-> 0, local |-> 0, asked |-> {}, full |-> FALSE,
            pre |-> {}, running |-> <<>>, fresh |-> {}, plan |-> <<>>, fin |-> {},
            sent |-> [r \in Reqs |-> {}]]
  /\ sch = [probe |-> [r \in Reqs |-> NoProbe], prefetch |-> {}, queued |-> {}, known |-> {},
            matched |-> [r \in Reqs |-> 0], offset |-> [r \in Reqs |-> 0],
            alloc |-> [r \in Reqs |-> <<>>], next |-> [r \in Reqs |-> 0],
            saved |-> [r \in Reqs |-> {}], saves |-> {}, held |-> {}, await |-> {},
            intents |-> <<>>, controls |-> <<>>, jobs |-> <<>>, jobseq |-> 0, gen |-> 0]
  /\ meta = EmptyMeta
  /\ wk = [w \in Workers |-> [pc |-> "idle", restore |-> {}, queue |-> <<>>, batch |-> <<>>,
             native |-> FALSE, pend |-> [r \in Reqs |-> 0], completed |-> {}, finished |-> {},
             sent |-> {}, jobsDone |-> {}, controls |-> {}, retained |-> <<>>]]
  /\ content = [w \in Workers |-> [b \in Blocks |-> Nothing]]
  /\ ledger = {} /\ interest = {} /\ reg = [st |-> "held", open |-> Workers, copying |-> {}]

Schedules ==
  \/ StartStep
  \/ \E r \in Reqs : \/ Lookup(r) \/ LookupFails(r) \/ Preempt(r)
                     \/ \E n \in 1..rq[r].toks : Continue(r, n)
                     \/ \E n \in 1..rq[r].toks, x \in 0..rq[r].toks : Admit(r, x, n)
  \/ AdmitFails
  \/ BuildConnectorMeta
Runs(w) == StartLoadKv(w) \/ Forward(w) \/ WaitForSave(w)
Saves(w) == TakeBatch(w) \/ SubmitBatch(w) \/ CopyEnds(w) \/ BatchEnds(w)

Next ==
  \/ \E r \in Reqs : OnNewRequest(r) \/ RequestFinished(r)
  \/ Schedules
  \/ \E w \in Workers : Runs(w) \/ Saves(w)
  \/ UpdateConnectorOutput
  \/ ResetCache
  \/ Shutdown
  \/ \E w \in Workers : ShutdownWorker(w) \/ DrainWorkers(w) \/ UnregisterReturns(w)
  \/ UnregisterInstance

Spec == Init /\ [][Next]_vars

\* vLLM's busy loop, its workers and the save threads run; a query that is
\* asked again and again is answered; vLLM serves its running requests.
FairSpec ==
  /\ Spec
  /\ WF_vars(scope.live /\ Schedules)
  /\ WF_vars(scope.live /\ UpdateConnectorOutput)
  /\ WF_vars(scope.live /\ \E r \in Reqs : RequestFinished(r))
  /\ \A w \in 1..2 : WF_vars(scope.live /\ w \in Workers /\ Runs(w))
  /\ \A w \in 1..2 : WF_vars(scope.live /\ w \in Workers /\ Saves(w))
  /\ \A r \in 1..2 : SF_vars(scope.live /\ r \in Reqs /\ Lookup(r) /\ sch'.probe[r].st # "loading")

(***************************************************************************)
(* Properties                                                               *)
(***************************************************************************)

\* Types of the adapters' state.
TypeOK ==
  /\ eng.phase \in {"idle", "schedule", "run", "dead", "off"}
  /\ DOMAIN eng.plan \subseteq Reqs /\ Range(eng.running) \subseteq Reqs
  /\ \A r \in Reqs : rq[r].st \in {"new", "waiting", "running", "done", "gone"}
  /\ \A r \in Reqs : sch.probe[r].st \in {"none", "loading", "ready"}
  /\ ledger \subseteq Reqs \X Groups /\ interest \subseteq Reqs \X Groups
  /\ \A w \in Workers : wk[w].pc \in {"idle", "begin", "forward", "save", "done", "unregister", "held", "off"}
  /\ \A w \in Workers : \A r \in Reqs : wk[w].pend[r] \in Nat
  /\ reg.st \in {"held", "draining", "gone"} /\ reg.open \cup reg.copying \subseteq Workers

\* Until a worker's native save is proven complete, every GPU block it reads
\* holds exactly the block its hash names: finished requests are held,
\* preempted ones waited for, boundary blocks pinned (_consume_full_block_saves,
\* request_finished, handle_preemptions, _pin_save_intent).
Unproven(w) == {t \in Range(wk[w].queue \o wk[w].batch \o wk[w].retained) : ~t.ok}
ReadsOwnContent ==
  \A w \in Workers : \A t \in Unproven(w) : \A e \in t.ents : content[w][e[1]] = e[2]

\* Teardown never takes memory from under a copy.  Every copy the Manager runs
\* belongs to a task its worker still holds as unproven, so the pages it reads
\* are covered above even when its outcome was lost; the instance's
\* registration, dropped by one rank for all, goes after the last of them; and
\* a rank forgets its layers only when its own saves are proven (_save_batch,
\* unregister_context).
CopiesOutlived ==
  /\ \A w \in reg.copying : Unproven(w) # {}
  /\ reg.st = "gone" => reg.copying = {}
  /\ \A w \in Workers : wk[w].pc = "off" => Unproven(w) = {}

\* A lease outstanding at the Manager has exactly one owner in the connector:
\* a probe, a load intent, the running forward or a query control; none is
\* lost, none released while it is still to be loaded (_release_query_probe,
\* update_state_after_alloc).
Owners == [probe |-> UNION {ProbeLeases(sch.probe[r]) : r \in Reqs},
           intent |-> UNION {sch.intents[r].leases : r \in DOMAIN sch.intents},
           load |-> UNION {meta.loads[r].leases : r \in {q \in DOMAIN meta.loads : ~meta.loads[q].control}},
           control |-> {<<r, 0>> : r \in DOMAIN sch.controls \ DOMAIN sch.intents}]
LeasesAccounted ==
  /\ ledger = UNION Range(Owners)
  /\ \A x, y \in DOMAIN Owners : x # y => Owners[x] \cap Owners[y] = {}

\* A query left open at the Manager belongs to a request that will ask again:
\* no request leaves its interest behind (_cleanup_request,
\* _cancel_prefetch_tracking).
InterestsOwned ==
  \A x \in interest : \/ sch.probe[x[1]].st # "none"
                      \/ rq[x[1]].st = "waiting" /\ x[1] \in sch.queued

\* A job stays pinned exactly as long as some worker has not reported it
\* (_release_boundary_jobs).
Reporting(w, j) == \/ wk[w].pc \in {"begin", "forward", "save"} /\ j \in DOMAIN meta.jobs
                   \/ \E t \in Range(wk[w].queue \o wk[w].batch \o wk[w].retained) : j \in t.jobs
                   \/ j \in wk[w].jobsDone
PinsExact ==
  eng.phase # "dead" =>
    \A j \in 1..sch.jobseq :
      Cardinality({w \in Workers : Reporting(w, j)}) =
        IF j \in DOMAIN sch.jobs THEN sch.jobs[j].left ELSE 0

\* A forward's restore fills blocks that its lease covers, past the local
\* prefix, and one restore runs at a time; the blocks belong to the request
\* (update_state_after_alloc, _complete_cache_lookup).
RestoresFit ==
  LET loads == IF eng.phase = "run" THEN meta.loads ELSE sch.intents
  IN  /\ Cardinality(DOMAIN loads) <= 1
      /\ \A r \in DOMAIN loads :
           /\ r \in DOMAIN eng.plan
           /\ Len(loads[r].dest) = CeilDiv(eng.plan[r].x, BlockSize)
           /\ \A i \in DOMAIN loads[r].dest :
                loads[r].dest[i] = rq[r].table[(eng.plan[r].from - eng.plan[r].x) \div BlockSize + i]

\* Workers of a page-first cache publish each page once between them
\* (_block_shard).
StripesPartition ==
  scope.kind = "striped" =>
    \A r \in DOMAIN meta.saves : \A e \in meta.saves[r] :
      Cardinality({w \in Workers : e \in LayerSaves(w, meta.saves[r])}) = 1

\* A held request's blocks come back only when every worker has reported, and
\* a request no worker has to report is never held (request_finished,
\* get_transfer_results).
HeldAreReported ==
  eng.phase # "dead" =>
    \A r \in sch.held : \A w \in Workers :
      \/ w \in eng.sent[r] \/ r \in wk[w].sent
      \/ r \in wk[w].completed /\ (r \in eng.fin \/ r \in meta.fin)
      \/ wk[w].pend[r] > 0 /\ (r \in eng.fin \cup meta.fin \/ r \in wk[w].finished)
      \/ r \in wk[w].completed /\ r \in wk[w].finished

\* The cache generation changes only when nothing of the old one is in
\* flight: no save, lease or query (reset_cache).
ResetIsQuiet ==
  [][sch'.gen # sch.gen =>
       /\ \A w \in Workers : Unproven(w) = {} /\ wk[w].restore = {}
       /\ ledger = {} /\ interest = {}]_vars

\* Pinned jobs are all released, although no request arrives any more
\* (has_pending_push_work).
JobsReturn == scope.live => <>[](sch.jobs = <<>>)

\* Every request is computed: a pending restore, a query or a shared pool
\* never stops admission for good (_complete_cache_lookup).
RequestsComplete ==
  scope.live => \A r \in 1..2 : (r \in Reqs /\ rq[r].st = "waiting")
                                  ~> (r \in Reqs /\ rq[r].st \in {"done", "gone"})

-----------------------------------------------------------------------------
(* What is checked                                                           *)

\* Saves and restores touch only the blocks of their own request, through preemption, resumption,
\* finish, reset and teardown (scheduler.py, worker.py).
BlocksAreOwn ==
  /\ ReadsOwnContent
  /\ RestoresFit
  /\ StripesPartition
  /\ CopiesOutlived

\* Every lease, open query, pinned block and held request has exactly one owner that will let go of
\* it (scheduler.py, worker.py).
OwnershipExact ==
  /\ TypeOK
  /\ LeasesAccounted
  /\ InterestsOwned
  /\ PinsExact
  /\ HeldAreReported

\* Pinned blocks come back and requests complete (_release_boundary_jobs, restore gate).
WorkEnds ==
  /\ JobsReturn
  /\ RequestsComplete
=============================================================================
