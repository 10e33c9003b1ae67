-------------------------- MODULE GpuRegistration --------------------------
(***************************************************************************)
(* How the GPU memory of inference processes comes to be mapped, used and  *)
(* released by the Cache Manager.                                          *)
(*                                                                         *)
(* A client process exports the storage of every layer as a CUDA IPC       *)
(* credit: a shared counter that stands at one until somebody gives the    *)
(* credit back, the importer when it unmaps or the exporter when it knows  *)
(* that nobody imported.  It sends Register over its lifecycle connection; *)
(* the connection's task in the Manager takes the instance lock, imports   *)
(* the tensors (registry thread), attaches them to the engine's instance   *)
(* and answers with the disposition of the credits.  Unregister, the end   *)
(* of a session's connection and shutdown drain the GPU workers, remove    *)
(* the instance and unmap its tensors under the same lock.                 *)
(*                                                                         *)
(* A credit is <<client, attempt, layer>>.  A registered context is        *)
(* <<instance, tp rank, pp rank, device>>.  A request is                   *)
(* [inst, ns, tpSize, world, pf, tp, pp, dev, kv, bad], kv as in           *)
(* LayerTopology, bad naming what the Manager will object to.  Abstracted: *)
(* handles, tensor shapes and dtypes (bad = "version" and "format" stand   *)
(* for the checks before and after the import), message texts, and the     *)
(* process-wide limits on attempts and retained bytes.                     *)
(***************************************************************************)
EXTENDS SavePlan

CONSTANTS
  Clients,       \* inference processes, one lifecycle connection each
  Instances,     \* instance ids
  MaxTokens,     \* sessions opened in all
  MaxAttempts,   \* registrations one client may start
  MaxJobs,       \* GPU transfers in flight per device
  Align,         \* host alignment of a segment
  NumaOf,        \* device -> node
  Scopes         \* name -> what a behaviour may contain: [reqs, ops, faults]

ASSUME GpuRegistrationAssumption ==
  /\ MaxAttempts \in Nat \ {0} /\ MaxJobs \in Nat /\ Align \in Nat \ {0}
  /\ \A s \in DOMAIN Scopes : DOMAIN Scopes[s].reqs = Clients

VARIABLES
  scope,    \* the behaviour's scope
  cl,       \* clients: [pc, conn, att, local, inst, sent, cmd]
  counter,  \* credit -> value of its shared counter
  srv,      \* connection tasks and the shutdown task
  owner,    \* client -> instance -> session token of its connection (0: none)
  sess,     \* instance -> [tok, topo], the current session
  tokens,   \* last session token handed out
  lock,     \* instance -> task holding the lifecycle lock
  eng,      \* instance -> registered state of the engine
  reg,      \* contexts -> credits mapped by the registry
  limbo,    \* credits of dropped tensors the garbage collector still holds
  jobs,     \* GPU transfers in flight
  phase     \* shutdown: run, closing, cleaning, done, failed

clientVars == <<cl, counter>>
engineVars == <<eng, reg, limbo, jobs>>
sessionVars == <<owner, sess, tokens>>
vars == <<scope, cl, counter, srv, owner, sess, tokens, lock, eng, reg, limbo, jobs, phase>>

Boss == "shutdown"
Tasks == Clients \union {Boss}
None == "none"
Missing == [ns |-> None]
Unsealed == [tp |-> 0]
\* The loop of serve looks at the shutdown flag before it waits for a call.
Idle == [pc |-> "idle", q |-> None, a |-> 0, disp |-> None, ok |-> FALSE]
Answered == IF phase = "run" THEN Idle ELSE [Idle EXCEPT !.pc = "stop"]
NoSession == [tok |-> 0, topo |-> <<>>]
Fault(f) == f \in Scopes[scope].faults
Op(o) == o \in Scopes[scope].ops
Layers(q) == DOMAIN q.kv
\* What the Manager finds wrong with a request before and after the import.
BadRequest(q) == q.bad = "version"
BadFormat(q) == q.bad = "format"
Key(q) == <<q.inst, q.tp, q.pp, q.dev>>
Credits(c, a, S) == {<<c, a, l>> : l \in S}
Live(c) == {a \in DOMAIN cl[c].att : cl[c].att[a].live}

Init ==
  /\ scope \in DOMAIN Scopes
  /\ cl = [c \in Clients |-> [pc |-> "idle", conn |-> "up", att |-> <<>>, local |-> {},
                              inst |-> None, sent |-> None, cmd |-> None]]
  /\ counter = [x \in {} |-> 0]
  /\ srv = [t \in Tasks |-> Idle]
  /\ owner = [c \in Clients |-> [i \in Instances |-> 0]]
  /\ sess = [i \in Instances |-> NoSession]
  /\ tokens = 0
  /\ lock = [i \in Instances |-> None]
  /\ eng = [i \in Instances |-> Missing]
  /\ reg = [k \in {} |-> {}]
  /\ limbo = {}
  /\ jobs = {}
  /\ phase = "run"

-----------------------------------------------------------------------------
(* The exporting client: AttemptOwner and register_context_batch             *)

Latest(c) == Len(cl[c].att)
Cur(c) == cl[c].att[Latest(c)]
SetCl(c, r) == cl' = [cl EXCEPT ![c] = r]

\* reserve: one pending attempt and one local worker per context.
ReserveRefuses(c, q) ==
  \/ \E a \in Live(c) : Key(cl[c].att[a].q) = Key(q)
  \/ \E a \in cl[c].local : Key(cl[c].att[a].q) = Key(q)

StartRegister(c) ==
  /\ cl[c].pc = "idle" /\ cl[c].conn = "up" /\ Latest(c) < MaxAttempts
  /\ \E q \in Scopes[scope].reqs[c] :
       /\ ~ReserveRefuses(c, q)
       /\ SetCl(c, [cl[c] EXCEPT !.pc = "export", !.att =
            Append(@, [q |-> q, live |-> TRUE, exporting |-> FALSE,
                       st |-> [l \in Layers(q) |-> "none"]])])
  /\ UNCHANGED <<scope, counter, srv, sessionVars, lock, engineVars, phase>>

\* The next layer in request order.
NextLayer(c) == Min({l \in DOMAIN Cur(c).st : Cur(c).st[l] = "none"})
AllExported(c) == \A l \in DOMAIN Cur(c).st : Cur(c).st[l] # "none"

\* rollback: repay what was surely never imported, if its counter is untouched.
Repayable(c, a) == {l \in DOMAIN a.st : a.st[l] = "never" /\ counter[<<c, Latest(c), l>>] = 1}
Disturbed(c, a) == {l \in DOMAIN a.st : a.st[l] = "never"} \ Repayable(c, a)
RolledBackHalf(c, a) ==
  LET st == [l \in DOMAIN a.st |-> IF l \in Repayable(c, a) THEN "repaid" ELSE a.st[l]]
  IN [a EXCEPT !.st = st, !.live = \E l \in DOMAIN st : st[l] \notin {"none", "repaid"}]

RolledBack(c, a) ==
  LET st == [l \in DOMAIN a.st |->
               IF l \in Repayable(c, a) THEN "repaid"
               ELSE IF l \in Disturbed(c, a) THEN "unknown" ELSE a.st[l]]
  IN [a EXCEPT !.st = st,
               !.live = a.exporting \/ \E l \in DOMAIN st : st[l] \notin {"none", "repaid"}]

Repaid(c, a) ==
  [x \in DOMAIN counter |->
     IF x \in Credits(c, Latest(c), Repayable(c, a)) THEN 0 ELSE counter[x]]

Export(c) ==
  /\ cl[c].pc = "export" /\ ~AllExported(c)
  /\ LET l == NextLayer(c) IN
     /\ counter' = counter @@ (<<c, Latest(c), l>> :> 1)
     /\ SetCl(c, [cl[c] EXCEPT !.att[Latest(c)].st[l] = "never"])
  /\ UNCHANGED <<scope, srv, sessionVars, lock, engineVars, phase>>

\* The storage changed under a check (FALSE), or the export itself failed
\* half way (TRUE: the attempt may have a credit nobody can account for).
ExportFails(c) ==
  /\ Fault("export") /\ cl[c].pc = "export"
  /\ \E half, made \in BOOLEAN :
       /\ half => ~AllExported(c)
       /\ made => half
       /\ LET a == [Cur(c) EXCEPT !.exporting = half]
              new == IF made THEN <<c, Latest(c), NextLayer(c)>> :> 1 ELSE <<>>
          IN
          /\ counter' = new @@ Repaid(c, a)
          /\ SetCl(c, [cl[c] EXCEPT !.pc = "idle", !.att[Latest(c)] = RolledBack(c, a)])
  /\ UNCHANGED <<scope, srv, sessionVars, lock, engineVars, phase>>

\* submitted: from here on only a receipt can tell who owns the credits.
Submit(c) ==
  /\ cl[c].pc = "export" /\ AllExported(c)
  /\ IF cl[c].conn = "up"
     THEN SetCl(c, [cl[c] EXCEPT !.pc = "register", !.cmd = "register", !.sent = Cur(c).q,
               !.att[Latest(c)].st = [l \in DOMAIN @ |-> "unknown"]])
     ELSE SetCl(c, [cl[c] EXCEPT !.pc = "idle",
               !.att[Latest(c)].st = [l \in DOMAIN @ |-> "unknown"]])
  /\ UNCHANGED <<scope, counter, srv, sessionVars, lock, engineVars, phase>>

\* A failed lifecycle call closes the session; the attempt stays retained.
CallFails(c) ==
  /\ cl[c].pc \in {"register", "unregister", "session"}
  /\ srv[c].pc = "gone" \/ Fault("timeout")
  /\ SetCl(c, [cl[c] EXCEPT !.pc = "idle", !.conn = "closed"])
  /\ UNCHANGED <<scope, counter, srv, sessionVars, lock, engineVars, phase>>

\* resolve the receipt; then attach the local worker, or close the session.
ReceiveReceipt(c) ==
  /\ cl[c].pc = "register" /\ srv[c].pc = "reply"
  /\ LET a == [Cur(c) EXCEPT !.st = [l \in DOMAIN @ |-> srv[c].disp]] IN
     IF ~srv[c].ok
     THEN /\ counter' = Repaid(c, a)
          /\ SetCl(c, [cl[c] EXCEPT !.pc = "idle", !.att[Latest(c)] = RolledBack(c, a)])
     ELSE /\ UNCHANGED counter
          /\ \/ SetCl(c, [cl[c] EXCEPT !.pc = "idle", !.local = @ \union {Latest(c)},
                                       !.att[Latest(c)] = [a EXCEPT !.live = FALSE]])
             \/ /\ Fault("worker")
                /\ SetCl(c, [cl[c] EXCEPT !.pc = "idle", !.conn = "closed", !.local = {},
                                          !.att[Latest(c)] = a])
  /\ srv' = [srv EXCEPT ![c] = Answered]
  /\ UNCHANGED <<scope, sessionVars, lock, engineVars, phase>>

ReceiveReply(c) ==
  /\ cl[c].pc \in {"unregister", "session"} /\ srv[c].pc = "reply"
  /\ SetCl(c, [cl[c] EXCEPT !.pc = "idle",
       !.local = IF cl[c].pc = "unregister" /\ srv[c].ok
                 THEN {a \in @ : cl[c].att[a].q.inst # cl[c].inst} ELSE @])
  /\ srv' = [srv EXCEPT ![c] = Answered]
  /\ UNCHANGED <<scope, counter, sessionVars, lock, engineVars, phase>>

Asks(c, i) == CHOOSE r \in Scopes[scope].reqs[c] : r.inst = i

\* Refused while an attempt for the instance is pending or retained.
StartUnregister(c) ==
  /\ Op("unregister") /\ cl[c].pc = "idle" /\ cl[c].conn = "up"
  /\ \E i \in {q.inst : q \in Scopes[scope].reqs[c]} :
       /\ \A a \in Live(c) : cl[c].att[a].q.inst # i
       /\ eng[i] # Missing
       /\ SetCl(c, [cl[c] EXCEPT !.pc = "unregister", !.cmd = "unregister", !.inst = i, !.sent = Asks(c, i)])
  /\ UNCHANGED <<scope, counter, srv, sessionVars, lock, engineVars, phase>>

StartSession(c) ==
  /\ Op("session") /\ cl[c].pc = "idle" /\ cl[c].conn = "up"
  /\ tokens + Cardinality({k \in Clients : "session" \in {cl[k].cmd, srv[k].pc}}) < MaxTokens
  /\ \E i \in {q.inst : q \in Scopes[scope].reqs[c]} :
       /\ \A k \in Instances : owner[c][k] # 0 => k = i
       /\ SetCl(c, [cl[c] EXCEPT !.pc = "session", !.cmd = "session", !.inst = i, !.sent = Asks(c, i)])
  /\ UNCHANGED <<scope, counter, srv, sessionVars, lock, engineVars, phase>>

Close(c) ==
  /\ Op("close") /\ cl[c].pc = "idle" /\ cl[c].conn = "up"
  /\ SetCl(c, [cl[c] EXCEPT !.conn = "closed", !.local = {}])
  /\ UNCHANGED <<scope, counter, srv, sessionVars, lock, engineVars, phase>>

Die(c) ==
  /\ Fault("death") /\ cl[c].conn = "up"
  /\ SetCl(c, [cl[c] EXCEPT !.pc = "dead", !.conn = "dead"])
  /\ UNCHANGED <<scope, counter, srv, sessionVars, lock, engineVars, phase>>

-----------------------------------------------------------------------------
(* A connection's task: session::serve and the lifecycle service             *)

SetSrv(t, r) == srv' = [srv EXCEPT ![t] = r]
Reply(c, disp, ok) == SetSrv(c, [srv[c] EXCEPT !.pc = "reply", !.disp = disp, !.ok = ok])
Unlock(i) == lock' = [lock EXCEPT ![i] = None]
Take(t, i) == lock[i] = None /\ lock' = [lock EXCEPT ![i] = t]

\* A call waits in the socket until the task reads it, the client gone or not.
Called(c) == cl[c].cmd # None

ReadCall(c) ==
  /\ srv[c].pc = "idle" /\ Called(c)
  /\ SetSrv(c, [Idle EXCEPT !.pc = cl[c].cmd, !.q = cl[c].sent, !.a = Latest(c), !.disp = "never"])
  /\ SetCl(c, [cl[c] EXCEPT !.cmd = None])
  /\ UNCHANGED <<scope, counter, sessionVars, lock, engineVars, phase>>

SessionAgrees(q) ==
  sess[q.inst].tok = 0 \/ sess[q.inst].topo = <<q.ns, q.tpSize, q.world>>

\* Up to the instance lock: arenas, the request's own validity.
RegisterRefused(c) ==
  /\ srv[c].pc = "register"
  /\ \/ Fault("arenas") /\ Reply(c, "unknown", FALSE)
     \/ BadRequest(srv[c].q) /\ Reply(c, "never", FALSE)
     \/ lock[srv[c].q.inst] = None /\ ~SessionAgrees(srv[c].q) /\ Reply(c, "never", FALSE)
  /\ UNCHANGED <<scope, clientVars, sessionVars, lock, engineVars, phase>>

RegisterLock(c) ==
  /\ srv[c].pc = "register" /\ ~BadRequest(srv[c].q) /\ SessionAgrees(srv[c].q)
  /\ Take(c, srv[c].q.inst)
  /\ SetSrv(c, [srv[c] EXCEPT !.pc = "import"])
  /\ UNCHANGED <<scope, clientVars, sessionVars, engineVars, phase>>

\* What the receipt will say when materialize fails after some imports.
PartialDisposition == "unknown"

\* The tensors opened when a layer cannot be materialized: the first k, the
\* failing one among them if it was opened and then differed.
Materialized(q, k) == {l \in Layers(q) : l <= k}

\* The registry thread: register_layers.
RegisterImport(c) ==
  /\ srv[c].pc = "import"
  /\ LET q == srv[c].q
         mine == Credits(c, srv[c].a, Layers(q))
     IN IF Key(q) \in DOMAIN reg
        THEN /\ Reply(c, "unknown", FALSE) /\ Unlock(q.inst) /\ UNCHANGED <<reg, limbo>>
        ELSE \/ /\ reg' = reg @@ (Key(q) :> mine)
                /\ SetSrv(c, [srv[c] EXCEPT !.pc = "attach", !.disp = "owned"])
                /\ UNCHANGED <<lock, limbo>>
             \/ /\ Fault("device") /\ Reply(c, "never", FALSE) /\ Unlock(q.inst)
                /\ UNCHANGED <<reg, limbo>>
             \/ /\ Fault("import") /\ Unlock(q.inst) /\ UNCHANGED reg
                /\ \E k \in 0..Len(q.kv) :
                     limbo' = limbo \union Credits(c, srv[c].a, Materialized(q, k))
                /\ Reply(c, PartialDisposition, FALSE)
  /\ UNCHANGED <<scope, clientVars, sessionVars, eng, jobs, phase>>

\* An unmapped tensor gives its credit back.
Release(S) == counter' = [x \in DOMAIN counter |-> IF x \in S THEN counter[x] - 1 ELSE counter[x]]

Collect ==
  /\ \E x \in limbo : Release({x}) /\ limbo' = limbo \ {x}
  /\ UNCHANGED <<scope, cl, srv, sessionVars, lock, eng, reg, jobs, phase>>

-----------------------------------------------------------------------------
(* OrbitKVEngine::register_context_layer_batch and InstanceContext           *)

Gpu(q, credits) == [tp |-> q.tp, pp |-> q.pp, kv |-> q.kv, numa |-> NumaOf[q.dev],
                    pool |-> "open", key |-> Key(q), credits |-> credits]
Bare(g) == [tp |-> g.tp, pp |-> g.pp, kv |-> g.kv, numa |-> g.numa]
Identity(q) == [ns |-> q.ns, tpSize |-> q.tpSize, world |-> q.world, pf |-> q.pf]
Fresh(q) == Identity(q) @@ [gpus |-> [d \in {} |-> None], topo |-> Unsealed]
IdentityOf(e) == [ns |-> e.ns, tpSize |-> e.tpSize, world |-> e.world, pf |-> e.pf]

GetOrCreate(q) == IF eng[q.inst] = Missing THEN Fresh(q) ELSE eng[q.inst]

\* The instance after the attempt, which may outlive a refused device.
Registered(q, credits) ==
  LET e == GetOrCreate(q)
      gpus == (q.dev :> Gpu(q, credits)) @@ e.gpus
      gs == {Bare(gpus[d]) : d \in DOMAIN gpus}
      full == Cardinality(DOMAIN gpus) = e.world
  IN IF \/ \E l \in Layers(q) : ~GeometryOk(q.kv[l].geo)
        \/ IdentityOf(e) # Identity(q)
     THEN [ok |-> FALSE, e |-> eng[q.inst]]
     ELSE IF \/ q.dev \in DOMAIN e.gpus \/ e.topo # Unsealed
             \/ full /\ ~Sealable(gs, e.tpSize, e.pf, Align)
          THEN [ok |-> FALSE, e |-> e]
          ELSE [ok |-> TRUE, e |-> [e EXCEPT !.gpus = gpus,
                  !.topo = IF full THEN SealTopology(gs, e.ns, e.tpSize, e.pf, Align) ELSE @]]

RegisterAttach(c) ==
  /\ srv[c].pc = "attach"
  /\ LET q == srv[c].q
         out == IF BadFormat(q) THEN [ok |-> FALSE, e |-> eng[q.inst]]
                ELSE Registered(q, reg[Key(q)])
     IN \/ /\ eng' = [eng EXCEPT ![q.inst] = out.e]
           /\ IF out.ok THEN Reply(c, "owned", TRUE) /\ Unlock(q.inst)
                        ELSE SetSrv(c, [srv[c] EXCEPT !.pc = "undo"]) /\ UNCHANGED lock
        \/ \* the device's NUMA node is unknown
           /\ Fault("numa") /\ out.ok
           /\ eng' = [eng EXCEPT ![q.inst] = GetOrCreate(q)]
           /\ SetSrv(c, [srv[c] EXCEPT !.pc = "undo"]) /\ UNCHANGED lock
  /\ UNCHANGED <<scope, clientVars, sessionVars, reg, limbo, jobs, phase>>

\* release_contexts: unmap, then collect garbage when anything was mapped.
Mapped == UNION {reg[k] : k \in DOMAIN reg}
DropContexts(K) ==
  LET gone == UNION {reg[k] : k \in K \intersect DOMAIN reg} IN
  /\ reg' = [k \in DOMAIN reg \ K |-> reg[k]]
  /\ limbo' = IF gone = {} THEN limbo ELSE {}
  /\ Release(gone \union (limbo \ limbo'))

RegisterUndo(c) ==
  /\ srv[c].pc = "undo"
  /\ DropContexts({Key(srv[c].q)})
  /\ Unlock(srv[c].q.inst)
  /\ Reply(c, "owned", FALSE)
  /\ UNCHANGED <<scope, cl, sessionVars, eng, jobs, phase>>

-----------------------------------------------------------------------------
(* Sessions                                                                  *)

OpenSession(c) ==
  /\ srv[c].pc = "session"
  /\ LET q == srv[c].q IN
     /\ lock[q.inst] = None
     /\ IF /\ SessionAgrees(q)
           /\ eng[q.inst] = Missing \/ (/\ eng[q.inst].ns = q.ns
                                        /\ eng[q.inst].tpSize = q.tpSize
                                        /\ eng[q.inst].world = q.world)
        THEN /\ tokens' = tokens + 1
             /\ sess' = [sess EXCEPT ![q.inst] =
                           [tok |-> tokens + 1, topo |-> <<q.ns, q.tpSize, q.world>>]]
             /\ owner' = [owner EXCEPT ![c][q.inst] = tokens + 1]
             /\ Reply(c, None, TRUE)
        ELSE Reply(c, None, FALSE) /\ UNCHANGED sessionVars
  /\ UNCHANGED <<scope, clientVars, lock, engineVars, phase>>

HangupForgets(c) ==
  /\ \/ srv[c].pc = "idle" /\ ~Called(c) /\ cl[c].conn # "up"
     \/ srv[c].pc = "reply" /\ cl[c].conn # "up"
     \/ srv[c].pc = "idle" /\ phase # "run"
     \/ srv[c].pc = "stop"
  /\ SetSrv(c, [Idle EXCEPT !.pc = IF /\ srv[c].pc = "idle"
                                      /\ \E i \in Instances : owner[c][i] # 0
                                   THEN "close" ELSE "gone"])
  /\ UNCHANGED <<scope, clientVars, sessionVars, lock, engineVars, phase>>

\* The connection ends: its client is gone, a reply cannot be delivered, or
\* the Manager is stopping.
Hangup(c) ==
  /\ \/ srv[c].pc = "idle" /\ ~Called(c) /\ cl[c].conn # "up"
     \/ srv[c].pc = "reply" /\ cl[c].conn # "up"
     \/ srv[c].pc = "idle" /\ phase # "run"
     \/ srv[c].pc = "stop"
  /\ SetSrv(c, [Idle EXCEPT !.pc = IF \E i \in Instances : owner[c][i] # 0
                                   THEN "close" ELSE "gone"])
  /\ UNCHANGED <<scope, clientVars, sessionVars, lock, engineVars, phase>>

\* Compare-and-remove the session: only its current token cleans up.
TakesSession(i, tok) == sess[i].tok = tok

CloseSession(c) ==
  /\ srv[c].pc = "close"
  /\ \E i \in Instances :
       /\ owner[c][i] # 0
       /\ IF TakesSession(i, owner[c][i])
          THEN /\ Take(c, i)
               /\ sess' = [sess EXCEPT ![i] = NoSession]
               /\ SetSrv(c, [srv[c] EXCEPT !.pc = "drain", !.q = i, !.disp = "gone"])
          ELSE /\ lock[i] = None /\ UNCHANGED <<lock, sess>>
               /\ SetSrv(c, [srv[c] EXCEPT !.pc = "gone"])
  /\ UNCHANGED <<scope, clientVars, owner, tokens, engineVars, phase>>

-----------------------------------------------------------------------------
(* cleanup_locked: drain the workers, remove the instance, unmap its tensors *)

\* srv[t].q is the instance, srv[t].disp where the task goes on afterwards.
UnregisterLock(c) ==
  /\ srv[c].pc = "unregister"
  /\ Take(c, srv[c].q.inst)
  /\ SetSrv(c, [srv[c] EXCEPT !.pc = "drain", !.q = @.inst, !.disp = "reply"])
  /\ UNCHANGED <<scope, clientVars, sessionVars, engineVars, phase>>

Pools(i) == IF eng[i] = Missing THEN {} ELSE DOMAIN eng[i].gpus
JobsOn(i, d) == {j \in jobs : j.inst = i /\ j.dev = d}

\* One pool after the other: refuse new work, then wait for the old.
DrainClose(t) ==
  /\ srv[t].pc = "drain"
  /\ LET i == srv[t].q IN
     /\ \A d \in Pools(i) : eng[i].gpus[d].pool # "closing"
     /\ \E d \in Pools(i) :
          /\ eng[i].gpus[d].pool = "open"
          /\ eng' = [eng EXCEPT ![i].gpus[d].pool = "closing"]
  /\ UNCHANGED <<scope, clientVars, srv, sessionVars, lock, reg, limbo, jobs, phase>>

PoolAnyhow(i, d) == TRUE
PoolIdle(i, d) == JobsOn(i, d) = {}

DrainDone(t) ==
  /\ srv[t].pc = "drain"
  /\ LET i == srv[t].q IN
     \E d \in Pools(i) :
       /\ eng[i].gpus[d].pool = "closing" /\ PoolIdle(i, d)
       /\ \E r \in {"drained"} \union (IF Fault("drain") THEN {"failed"} ELSE {}) :
            eng' = [eng EXCEPT ![i].gpus[d].pool = r]
  /\ UNCHANGED <<scope, clientVars, srv, sessionVars, lock, reg, limbo, jobs, phase>>

CleanupKeepsLock(t) ==
  /\ srv[t].pc = "drain"
  /\ \E d \in Pools(srv[t].q) : eng[srv[t].q].gpus[d].pool = "failed"
  /\ SetSrv(t, [srv[t] EXCEPT !.pc = IF t = Boss THEN "failed" ELSE srv[t].disp, !.ok = FALSE])
  /\ UNCHANGED <<scope, clientVars, sessionVars, lock, engineVars, phase>>

\* A failed drain is remembered by its pool: the tensors stay mapped.
CleanupFails(t) ==
  /\ srv[t].pc = "drain"
  /\ LET i == srv[t].q IN
     /\ \E d \in Pools(i) : eng[i].gpus[d].pool = "failed"
     /\ Unlock(i)
  /\ SetSrv(t, [srv[t] EXCEPT !.pc = IF t = Boss THEN "failed" ELSE srv[t].disp, !.ok = FALSE])
  /\ UNCHANGED <<scope, clientVars, sessionVars, engineVars, phase>>

RemoveInstance(t) ==
  /\ srv[t].pc = "drain"
  /\ LET i == srv[t].q IN
     /\ \A d \in Pools(i) : eng[i].gpus[d].pool = "drained"
     /\ eng' = [eng EXCEPT ![i] = Missing]
  /\ SetSrv(t, [srv[t] EXCEPT !.pc = "drop"])
  /\ UNCHANGED <<scope, clientVars, sessionVars, lock, reg, limbo, jobs, phase>>

DropInstance(t) ==
  /\ srv[t].pc = "drop"
  /\ LET i == srv[t].q IN
     /\ DropContexts({k \in DOMAIN reg : k[1] = i})
     /\ Unlock(i)
  /\ SetSrv(t, [srv[t] EXCEPT !.pc = srv[t].disp, !.ok = TRUE])
  /\ UNCHANGED <<scope, cl, sessionVars, eng, jobs, phase>>

-----------------------------------------------------------------------------
(* GPU transfers, and the Manager's shutdown                                 *)

StartJob ==
  /\ \E i \in Instances : \E d \in Pools(i), n \in 1 .. MaxJobs :
       /\ Op("jobs") /\ eng[i].topo # Unsealed
       /\ eng[i].gpus[d].pool = "open"
       /\ \A j \in JobsOn(i, d) : j.n # n
       /\ jobs' = jobs \union {[inst |-> i, dev |-> d, n |-> n, credits |-> eng[i].gpus[d].credits]}
  /\ UNCHANGED <<scope, clientVars, srv, sessionVars, lock, eng, reg, limbo, phase>>

EndJob ==
  /\ \E j \in jobs : jobs' = jobs \ {j}
  /\ UNCHANGED <<scope, clientVars, srv, sessionVars, lock, eng, reg, limbo, phase>>

StopConnections ==
  /\ Op("stop") /\ phase = "run" /\ phase' = "closing"
  /\ UNCHANGED <<scope, clientVars, srv, sessionVars, lock, engineVars>>

ConnectionsDrained == \A c \in Clients : srv[c].pc = "gone"

\* The snapshot of instances is taken once every connection has ended.
StartCleaning ==
  /\ phase = "closing" /\ ConnectionsDrained
  /\ phase' = "cleaning"
  /\ SetSrv(Boss, [srv[Boss] EXCEPT !.pc = "next", !.q = {i \in Instances : eng[i] # Missing}])
  /\ UNCHANGED <<scope, clientVars, sessionVars, lock, engineVars>>

CleanNext ==
  /\ srv[Boss].pc = "next"
  /\ IF srv[Boss].q = {}
     THEN phase' = "done" /\ SetSrv(Boss, [srv[Boss] EXCEPT !.pc = "gone"]) /\ UNCHANGED lock
     ELSE \E i \in srv[Boss].q :
            /\ Take(Boss, i)
            /\ SetSrv(Boss, [srv[Boss] EXCEPT !.pc = "drain", !.q = i, !.a = srv[Boss].q \ {i},
                                              !.disp = "cleaned"])
            /\ UNCHANGED phase
  /\ UNCHANGED <<scope, clientVars, sessionVars, engineVars>>

Cleaned ==
  /\ srv[Boss].pc \in {"cleaned", "failed"}
  /\ IF srv[Boss].pc = "failed"
     THEN phase' = "failed" /\ SetSrv(Boss, [srv[Boss] EXCEPT !.pc = "gone"])
     ELSE SetSrv(Boss, [srv[Boss] EXCEPT !.pc = "next", !.q = srv[Boss].a]) /\ UNCHANGED phase
  /\ UNCHANGED <<scope, clientVars, sessionVars, lock, engineVars>>

-----------------------------------------------------------------------------
ClientStep(c) ==
  \/ StartRegister(c) \/ Export(c) \/ ExportFails(c) \/ Submit(c) \/ CallFails(c)
  \/ ReceiveReceipt(c) \/ ReceiveReply(c) \/ StartUnregister(c) \/ StartSession(c)
  \/ Close(c) \/ Die(c)

ConnectionStep(c) ==
  \/ ReadCall(c) \/ RegisterRefused(c) \/ RegisterLock(c) \/ RegisterImport(c)
  \/ RegisterAttach(c) \/ RegisterUndo(c) \/ OpenSession(c) \/ Hangup(c)
  \/ CloseSession(c) \/ UnregisterLock(c)

CleanupStep(t) ==
  \/ DrainClose(t) \/ DrainDone(t) \/ CleanupFails(t) \/ RemoveInstance(t) \/ DropInstance(t)

Next ==
  \/ \E c \in Clients : ClientStep(c) \/ ConnectionStep(c)
  \/ \E t \in Tasks : CleanupStep(t)
  \/ Collect \/ StartJob \/ EndJob
  \/ StopConnections \/ StartCleaning \/ CleanNext \/ Cleaned

Spec == Init /\ [][Next]_vars

(* Fairness: the runtime polls every task that can move, and the per-        *)
(* instance mutex is fair.  A step that is due is taken: each predicate      *)
(* below holds exactly while the task has a step; a client that waits for a  *)
(* reply reads it; and a transfer that a closing pool waits for ends.        *)
Free(t) == lock[srv[t].q.inst] = None
ConnectionDue(c) ==
  \/ srv[c].pc = "idle" /\ (Called(c) \/ cl[c].conn # "up" \/ phase # "run")
  \/ srv[c].pc \in {"import", "attach", "undo", "stop"}
  \/ srv[c].pc = "register" /\ (BadRequest(srv[c].q) \/ Fault("arenas") \/ Free(c))
  \/ srv[c].pc \in {"session", "unregister"} /\ Free(c)
  \/ srv[c].pc = "close" /\ \E i \in Instances : owner[c][i] # 0 /\ lock[i] = None
  \/ srv[c].pc = "reply"
JobDue(i, d) == eng[i].gpus[d].pool = "closing" /\ JobsOn(i, d) # {}
CleanupDue(t) ==
  \/ srv[t].pc = "drop"
  \/ srv[t].pc = "drain" /\ \A d \in Pools(srv[t].q) : ~JobDue(srv[t].q, d)
ShutdownDue ==
  \/ phase = "closing" /\ ConnectionsDrained
  \/ srv[Boss].pc = "next" /\ (srv[Boss].q = {} \/ \E i \in srv[Boss].q : lock[i] = None)
  \/ srv[Boss].pc \in {"cleaned", "failed"}

Fairness ==
  /\ \A c \in Clients : []<>~ConnectionDue(c)
  /\ \A t \in Tasks : []<>~CleanupDue(t)
  /\ \A i \in Instances : []<>~(\E d \in Pools(i) : JobDue(i, d))
  /\ []<>~ShutdownDue

FairSpec == Spec /\ Fairness

-----------------------------------------------------------------------------
(* Properties                                                                *)

\* Every task is at a known step, and one that works on an instance holds its lock.
TypeOK ==
  /\ \A c \in Clients :
       /\ cl[c].pc \in {"idle", "export", "register", "unregister", "session", "dead"}
       /\ cl[c].conn \in {"up", "closed", "dead"} /\ Latest(c) <= MaxAttempts
       /\ cl[c].local \subseteq 1 .. Latest(c)
       /\ srv[c].pc \in {"idle", "register", "import", "attach", "undo", "session",
                         "unregister", "drain", "drop", "reply", "stop", "close", "gone"}
  /\ srv[Boss].pc \in {"idle", "next", "drain", "drop", "cleaned", "failed", "gone"}
  /\ \A i \in Instances : lock[i] \in Tasks \union {None} /\ sess[i].tok \in 0 .. MaxTokens
  /\ \A t \in Tasks :
       /\ srv[t].pc \in {"import", "attach", "undo"} => lock[srv[t].q.inst] = t
       /\ srv[t].pc \in {"drain", "drop"} => lock[srv[t].q] = t
  /\ Mapped \union limbo \subseteq DOMAIN counter
  /\ phase \in {"run", "closing", "cleaning", "done", "failed"}

\* A CUDA IPC credit is given back at most once, by its exporter or by the
\* importer and never by both: registration.rs rollback acts on the disposition
\* the registry reports, also when the import failed half way.
CreditsExact ==
  /\ \A x \in DOMAIN counter : counter[x] \in {0, 1}
  /\ \A x \in Mapped \union limbo : counter[x] = 1

\* An outstanding credit of a connected client is owned by somebody who can
\* still act on it: the Manager's mapping, its garbage, or a retained attempt.
CreditsAccounted ==
  \A x \in DOMAIN counter :
    counter[x] = 1 /\ cl[x[1]].conn = "up"
      => x \in Mapped \union limbo \/ x[2] \in Live(x[1])

\* GPU memory the Manager maps is kept alive by its connected exporter: by a
\* local worker or by an attempt it retains (client.rs exporter_owners).
MappedIsRetained ==
  \A x \in Mapped : cl[x[1]].conn = "up" => x[2] \in cl[x[1]].local \union Live(x[1])

\* Whenever the instance lock is free, the tensors the registry maps for the
\* instance are exactly those its engine contexts copy from and to.
RegistryMatchesEngine ==
  \A i \in Instances : lock[i] = None =>
    /\ {k \in DOMAIN reg : k[1] = i} = {eng[i].gpus[d].key : d \in Pools(i)}
    /\ \A d \in Pools(i) : eng[i].gpus[d].credits = reg[eng[i].gpus[d].key]

\* No GPU transfer is in flight over memory that was unmapped.
JobsAreMapped == \A j \in jobs : j.credits \subseteq Mapped

\* The layouts that registration meets are told apart exactly (transfer/layout.rs).
GeometryExact ==
  \A c \in Clients : srv[c].pc = "attach" =>
    \A l \in Layers(srv[c].q) : LayoutExact(srv[c].q.kv[l].geo)

\* Bounded restores into a layer: two leased blocks in one or two loads, with
\* a skipped, a repeated and a foreign destination; host slots of one or two
\* segments, side by side in one allocation or in their own, and behind another
\* layer of a page.
RestoreLoads(n) ==
  LET D == {Skip, 0, 1, n - 1, n}
  IN  {<<[count |-> 2, targets |-> <<a, b>>]>> : a, b \in D}
      \cup {<<[count |-> 1, targets |-> <<a>>], [count |-> 1, targets |-> <<b>>]>> : a, b \in D}
      \cup {<<[count |-> 2, targets |-> <<0>>]>>}
HostSlots(geo) ==
  LET whole == BlockBytes(geo)
      part(a, o, z) == [alloc |-> a, off |-> o, size |-> z]
  IN  {[host |-> 0, slot |-> [i \in 1..2 |-> <<part(1, (i - 1) * whole, whole)>>]],
       [host |-> 0, slot |-> [i \in 1..2 |-> <<part(i, (i - 1) * whole, whole)>>]],
       [host |-> whole, slot |-> [i \in 1..2 |-> <<part(1, (i - 1) * 2 * whole, 2 * whole)>>]]}
      \cup (IF IsSplit(geo)
            THEN {[host |-> 0, slot |-> [i \in 1..2 |-> <<part(1, (i - 1) * geo.seg, geo.seg),
                                                        part(2, (i - 1) * geo.seg, geo.seg)>>]]}
            ELSE {})
\* The byte at offset j of a leased block's layer: its place in the slot, and
\* its place in GPU memory.
HostByte(h, i, j, geo) ==
  IF Len(h.slot[i]) = 2 THEN LET x == h.slot[i][j \div geo.seg + 1] IN <<x.alloc, x.off + (j % geo.seg)>>
  ELSE <<h.slot[i][1].alloc, h.slot[i][1].off + h.host + j>>
GpuByte(geo, b, j) ==
  b * Stride(geo) + (IF IsSplit(geo) THEN (j \div geo.seg) * geo.kv + (j % geo.seg) ELSE j)
Moved(copies) ==
  UNION {{<<copies[i].dst + j, <<copies[i].src.alloc, copies[i].src.off + j>>>> :
            j \in 0 .. copies[i].src.size - 1} : i \in DOMAIN copies}
\* A restore that is accepted moves every byte of every leased block to its
\* place, no other and none twice, whether planned with coalesced runs for the
\* engine or block by block in the Manager; it is refused exactly when two
\* blocks claim one destination (raw_plan, append_copy_descs).
RestoreCopiesExact ==
  \A c \in Clients : srv[c].pc = "attach" =>
    \A l \in Layers(srv[c].q) :
      LET geo == srv[c].q.kv[l].geo IN
      GeometryOk(geo) /\ geo.segs \in {1, 2} =>
        \A loads \in RestoreLoads(geo.n), h \in HostSlots(geo) :
          CountsMatch(loads) /\ InCapacity(loads, geo.n) =>
            LET T == GroupTargets(loads)
                plan == RawPlan(geo, h.host, T, h.slot)
                ref == {<<GpuByte(geo, T[i][1], j), HostByte(h, T[i][2], j, geo)>> :
                          i \in DOMAIN T, j \in 0 .. BlockBytes(geo) - 1}
            IN  IF \E i, k \in DOMAIN T : i # k /\ T[i][1] = T[k][1] THEN plan = Refused
                ELSE /\ plan # Refused
                     /\ Moved(plan) = ref
                     /\ MapThenSumSet(LAMBDA i : plan[i].src.size, DOMAIN plan) = Cardinality(ref)
                     /\ Moved(BuildCopyDescs(geo, h.host, T, h.slot)) = ref

\* A sealed instance has its whole world; in every group the slots are dense and
\* every slot has a device behind it; outside page-first no two (layer, rank)
\* share one; the layers of a page tile it without overlap.
SealedLayout ==
  \A i \in Instances : eng[i] # Missing => (eng[i].topo # Unsealed =>
    LET topo == eng[i].topo
        In(x) == {l \in DOMAIN topo.layer : topo.layer[l].group = x}
        Cells(x) == In(x) \X (0 .. topo.tp - 1)
        At(l) == topo.layer[l].page.at .. topo.layer[l].page.at + topo.layer[l].page.bytes - 1
    IN /\ Cardinality(DOMAIN eng[i].gpus) = eng[i].world
       /\ \A x \in DOMAIN topo.count :
            /\ {SlotIndex(topo, y[1], y[2]) : y \in Cells(x)} = 0 .. GroupTotalSlots(topo, x) - 1
            /\ topo.pageFirst \/ Cardinality(Cells(x)) = GroupTotalSlots(topo, x)
            /\ \A s \in DOMAIN topo.numa[x] : \E d \in Pools(i) : NumaOf[d] = topo.numa[x][s]
       /\ topo.pageFirst => \A s \in 0 .. topo.shards - 1 :
            LET page == {l \in DOMAIN topo.layer : topo.layer[l].page.shard = s} IN
            /\ \A k, l \in page : k # l => At(k) \intersect At(l) = {}
            /\ UNION {At(l) : l \in page}
                 = 0 .. MapThenSumSet(LAMBDA l : topo.layer[l].page.bytes, page) - 1)

\* Bounded saves of a device: some of its layers, two blocks, and one layer that
\* saves only one of them.  A sealed topology never changes, so the plans are
\* evaluated in the scopes that only register.
Registers(i) == Scopes[scope].ops = {} /\ Scopes[scope].faults = {} /\ eng[i] # Missing
SaveContexts(i, d, L, odd) ==
  LET g == eng[i].gpus[d] IN
  {[l |-> l, geo |-> g.kv[l].geo, slot |-> SlotIndex(eng[i].topo, l, g.tp), group |-> g.kv[l].group,
    blocks |-> IF l = odd THEN <<<<0, "q">>>> ELSE <<<<0, "p">>, <<g.kv[l].geo.n - 1, "q">>>>] : l \in L}
SealedSaves(i) ==
  UNION {{SaveContexts(i, d, L, odd) : L \in SUBSET DOMAIN eng[i].gpus[d].kv \ {{}}, odd \in {0, 1}} :
           d \in Pools(i)}
\* An accepted page-first save fills its page: every byte once, the layers'
\* blocks and zeros behind them (alloc_page_first_targets).
PagesWhole ==
  \A i \in Instances : Registers(i) => (eng[i].topo # Unsealed /\ eng[i].topo.pageFirst =>
    \A ctxs \in SealedSaves(i) : PageFirstOk(eng[i].topo, ctxs) =>
      LET W == {w \in PageWrites(eng[i].topo, ctxs) : w[2] > 0}
          page == PageSize(eng[i].topo, (CHOOSE c \in ctxs : TRUE).slot)
      IN  /\ UNION {w[1] .. w[1] + w[2] - 1 : w \in W} = 0 .. page - 1
          /\ MapThenSumSet(LAMBDA w : w[2], W) = page)

\* The file after the batches of a write plan, as <<place, layer, GPU byte>>, and
\* what the batches of a read plan bring back.
Carried(plan) ==
  UNION {UNION {{<<c.at + j, c.l, c.dev + j>> : j \in 0 .. c.size - 1} : c \in plan[k].copies} :
           k \in DOMAIN plan}
BatchesOk(plan, align, staging) ==
  \A k \in DOMAIN plan :
    /\ plan[k].at % align = 0 /\ plan[k].size % align = 0 /\ plan[k].size \in 1 .. staging
    /\ \A c \in plan[k].copies : plan[k].at <= c.at /\ c.at + c.size <= plan[k].at + plan[k].size
\* One object at place `at' of the file: its image on the way out and back.
RoundTrip(topo, ctxs, x, hash, at, align, staging) ==
  LET C == Covering(ctxs, x, hash)
      len == ((ObjectBytes(topo, C, align[1]) + align[2] - 1) \div align[2]) * align[2]
      of(s) == CHOOSE c \in C : c.slot = s
      entry == [at |-> at, len |-> len,
                slots |-> [s \in 1 .. GroupTotalSlots(topo, x) |-> SegmentSizes(topo, of(s - 1), align[1])]]
      writes == PlanWrites(at, len, {[c EXCEPT !.at = @ + at] : c \in GpuWrites(topo, ctxs, x, hash, align[1])},
                           align[2], staging)
      from(c) == c.blocks[CHOOSE j \in DOMAIN c.blocks : c.blocks[j][2] = hash][1]
      off(c) == IF topo.pageFirst THEN topo.layer[c.l].page.at ELSE 0
      read(c, b) == RawCopies(entry.slots[c.slot + 1], SourceSlot(entry, c.slot), off(c), c.geo, c.l, b)
      place(c, j) == at + SlotBase(topo, C, c.slot, align[1]) + off(c)
                       + (IF IsSplit(c.geo) /\ j >= c.geo.seg
                          THEN entry.slots[c.slot + 1][1] + j - c.geo.seg ELSE j)
      image(block(_)) == UNION {{<<place(c, j), c.l, GpuByte(c.geo, block(c), j)>> :
                                   j \in 0 .. BlockBytes(c.geo) - 1} : c \in C}
      seq == SetToSeq(C)
  IN  /\ BatchesOk(writes, align[2], staging)
      /\ UNION {writes[k].at .. writes[k].at + writes[k].size - 1 : k \in DOMAIN writes} = at .. at + len - 1
      /\ Carried(writes) = image(from)
      /\ \A c \in C : SourceSlot(entry, c.slot) >= 0
      /\ \A b \in 0 .. Smaller(1, (CHOOSE c \in C : TRUE).geo.n - 1) :
           LET copies == FlattenSeq([k \in DOMAIN seq |-> read(seq[k], b)])
               reads == PlanReads(copies, align[2], staging)
           IN  /\ \A k \in DOMAIN copies : copies[k] # NoCopy
               /\ BatchesOk(reads, align[2], staging)
               /\ Carried(reads) = image(LAMBDA c : b)
\* A state group written from GPU pages to the SSD and read back into any block
\* brings every byte of every layer to its place: prepare_gpu_writes, plan_writes,
\* source_slot, raw_copies and plan_reads agree on the image, although the slots
\* are not aligned as the I/O is and both sides cut it into staging batches.
DirectIoExact ==
  \A i \in Instances : Registers(i) => (eng[i].topo # Unsealed =>
    \A ctxs \in SealedSaves(i) : (eng[i].topo.pageFirst => PageFirstOk(eng[i].topo, ctxs)) =>
      \A x \in DOMAIN eng[i].topo.count, hash \in {"p", "q"} : WholeGroup(eng[i].topo, ctxs, x, hash) =>
        \A io \in {Align, 4 * Align}, more \in 1 .. 2 :
          RoundTrip(eng[i].topo, ctxs, x, hash, io, <<Align, io>>, io * more))

\* Two sealed instances with the same storage namespace store a block the same
\* way, so that either can restore what the other saved.  (Page-first instances
\* whose devices split the layers of one rank and stage are left out: the
\* namespace does not name the split.)
SplitsStage(i) ==
  \E d, f \in Pools(i) :
    /\ eng[i].gpus[d].tp = eng[i].gpus[f].tp /\ eng[i].gpus[d].pp = eng[i].gpus[f].pp
    /\ DOMAIN eng[i].gpus[d].kv # DOMAIN eng[i].gpus[f].kv
Sealed == {i \in Instances : eng[i] # Missing /\ Pools(i) # {}}
SameLayout(i, j) ==
  /\ eng[i].topo.layer = eng[j].topo.layer /\ eng[i].topo.count = eng[j].topo.count
  /\ eng[i].topo.shards = eng[j].topo.shards /\ eng[i].topo.bytes = eng[j].topo.bytes
SameNamespaceSameLayout ==
  \A i, j \in {k \in Sealed : eng[k].topo # Unsealed} :
    /\ eng[i].topo.cache = eng[j].topo.cache
    /\ ~(eng[i].pf /\ (SplitsStage(i) \/ SplitsStage(j)))
    => SameLayout(i, j)

\* A session ends only by a newer session of its instance or by the end of its
\* own connection: a stale connection's cleanup takes nobody else's state.
SessionEndsByOwner ==
  [][\A i \in Instances : sess[i].tok # 0 /\ sess'[i].tok # sess[i].tok =>
       \/ sess'[i].tok > sess[i].tok
       \/ \E c \in Clients : owner[c][i] = sess[i].tok /\ srv[c].pc = "close"]_vars

\* A shutdown that reports success left no instance, no mapped tensor and no
\* transfer behind.
DoneIsEmpty ==
  phase = "done" => Mapped = {} /\ jobs = {} /\ \A i \in Instances : eng[i] = Missing

\* When the connection of an instance's current session ends, the instance's
\* GPU memory is released, unless a worker failed to drain or a newer session
\* took the instance over.
SessionEndReleases ==
  \A c \in Clients, i \in Instances, n \in 1 .. MaxTokens :
    (cl[c].conn # "up" /\ owner[c][i] = n /\ sess[i].tok = n)
      ~> \/ eng[i] = Missing /\ \A k \in DOMAIN reg : k[1] # i
         \/ \E d \in Pools(i) : eng[i].gpus[d].pool = "failed"
         \/ sess[i].tok > n

\* Shutdown ends: every connection task ends and every instance is drained, or
\* a drain failure is reported: "closing" ends in "done" or "failed".
ShutdownCompletes == []<>(phase \notin {"closing", "cleaning"})

-----------------------------------------------------------------------------
(* What is checked                                                           *)

\* The exporter's credits stand for what the Manager maps or may still map, through failed imports,
\* rollbacks and timeouts (registration.rs, registry.rs).
CreditsBalance ==
  /\ TypeOK
  /\ CreditsExact
  /\ CreditsAccounted

\* Mapped memory is alive at its exporter, is what the engine's contexts use, and stays mapped
\* under every transfer; a shutdown that reports success leaves none (registry.rs, worker drain).
MappingsHeld ==
  /\ MappedIsRetained
  /\ RegistryMatchesEngine
  /\ JobsAreMapped
  /\ DoneIsEmpty

\* Registration accepts exactly the geometries whose blocks are disjoint and in bounds, seals a
\* layout that is dense, whole and the same for all instances of a namespace, and every plan made
\* for it moves exactly the bytes it should: restores, page-first saves, and direct writes to the
\* SSD read back into any block (registration.rs, seal_topology, storage_namespace, the planners).
PlansExact ==
  /\ GeometryExact
  /\ SealedLayout
  /\ SameNamespaceSameLayout
  /\ RestoreCopiesExact
  /\ PagesWhole
  /\ DirectIoExact

\* A session is ended by its own connection or a successor, and its end releases the instance
\* (cache/session.rs, cleanup of endpoint/session.rs).
SessionsEnd ==
  /\ SessionEndsByOwner
  /\ SessionEndReleases
=============================================================================
