---------------------------- MODULE PeerTransfer ----------------------------
(***************************************************************************)
(* The control protocol of one peer source and the Cache Managers that     *)
(* READ from it (orbitkv-core/src/peer/export.rs and completion.rs,        *)
(* orbitkv-server/src/peer.rs).                                            *)
(*                                                                         *)
(* A requester opens a transfer window at the source, takes a slot of it   *)
(* under a fresh generation, asks the source to authorize that ticket,     *)
(* READs the pinned memory and releases the ticket until the source        *)
(* acknowledges.  Requests and replies may be delayed, reordered or lost,  *)
(* and a release may be delivered any number of times; the source may be   *)
(* fenced and a requester may die at any moment.                           *)
(*                                                                         *)
(* Abstracted data: a granted block list is its byte footprint, a window   *)
(* UUID is a number never handed out twice, and the residency evidence of  *)
(* a request either still matches or does not (a free choice).             *)
(***************************************************************************)
EXTENDS Integers, Sequences, FiniteSets, FiniteSums

CONSTANTS
    Requesters,      \* Cache Managers that read from this source
    NumSlots,        \* TRANSFER_WINDOW_SLOTS
    MaxGen,          \* u64::MAX, the last generation of a slot
    WindowIds,       \* bound: windows the source opens in its life
    MaxWindows,      \* MAX_TRANSFER_WINDOWS
    MaxSessions,     \* MAX_TRANSFER_SESSIONS
    Budget,          \* budget_bytes of the source
    Footprints,      \* bytes one grant may pin
    MaxCompletions   \* MAX_COMPLETIONS permits of a requester

NoOwner == "none"

ASSUME SlotsAssumption == NumSlots \in Nat \ {0} /\ MaxGen \in Nat \ {0}
ASSUME WindowsAssumption == WindowIds \in Nat \ {0} /\ MaxWindows \in Nat \ {0}
ASSUME BudgetAssumption ==
    MaxSessions \in Nat /\ Budget \in Nat /\ Footprints \subseteq Nat /\ MaxCompletions \in Nat
ASSUME RequestersAssumption == NoOwner \notin Requesters

Slots == 1..NumSlots
Windows == 1..WindowIds
NoWindow == 0
Tickets == [win : Windows, slot : Slots, gen : 1..MaxGen]

VARIABLES
    slot,      \* requester: PeerState.slots with the phase of the guard owning each
    window,    \* requester: the window cell of the peer, NoWindow while unset
    permits,   \* requester: completion permits left
    dead,      \* requesters that have crashed
    order,     \* source: open windows, least recently used first
    nextWin,   \* source: the next fresh window UUID
    owner,     \* source: TransferWindow.requester of every window opened so far
    sess,      \* source: generation and transfer of every slot of every window
    active,    \* source: Transfers.active
    reserved,  \* source: Transfers.reserved_bytes
    jobs,      \* source: authorizations between reserve and their reply
    fenced,    \* source: membership no longer permits this incarnation
    msgs       \* RPC requests and replies in flight; a lost one is never delivered

requesterVars == <<slot, window, permits>>
sourceVars == <<order, nextWin, owner, sess, active, reserved>>
vars == <<requesterVars, dead, sourceVars, jobs, fenced, msgs>>

Phases == {"free", "setup", "auth", "granted", "reading", "leaked", "releasing"}
SessionStates == {"none", "staging", "released", "ready"}
Reasons == {"ok", "precondition", "notFound", "exhausted", "unavailable"}

Attempt == [phase : Phases, gen : 0..MaxGen, win : Windows \cup {NoWindow}]
Session == [gen : 0..MaxGen, st : SessionStates, bytes : Nat, expired : BOOLEAN]
Message ==
    [kind : {"authorize", "reply", "release", "ack"}, r : Requesters, tk : Tickets, why : Reasons]
Job ==
    [r : Requesters, tk : Tickets, stage : {"validated", "staging", "prepared", "aborting"},
     why : Reasons]

Msg(kind, r, tk, why) == [kind |-> kind, r |-> r, tk |-> tk, why |-> why]
NewSession == [gen |-> 0, st |-> "none", bytes |-> 0, expired |-> FALSE]
NewSlot == [phase |-> "free", gen |-> 0, win |-> NoWindow]

Init ==
    /\ slot = [r \in Requesters |-> [s \in Slots |-> NewSlot]]
    /\ window = [r \in Requesters |-> NoWindow]
    /\ permits = [r \in Requesters |-> MaxCompletions]
    /\ dead = {}
    /\ order = <<>>
    /\ nextWin = 1
    /\ owner = [w \in Windows |-> NoOwner]
    /\ sess = [w \in Windows |-> [s \in Slots |-> NewSession]]
    /\ active = 0
    /\ reserved = 0
    /\ jobs = {}
    /\ fenced = FALSE
    /\ msgs = {}

-----------------------------------------------------------------------------
(* Helpers.                                                                *)

Ticket(r, s) == [win |-> slot[r][s].win, slot |-> s, gen |-> slot[r][s].gen]
Live(r) == r \notin dead

\* The RPC of ticket tk is still outstanding at its requester, in this phase.
Awaits(r, tk, phase) ==
    /\ Live(r)
    /\ slot[r][tk.slot] = [phase |-> phase, gen |-> tk.gen, win |-> tk.win]

\* An abandoned RPC has nobody left to read its reply.
ReplyTo(r, tk, why) == IF Awaits(r, tk, "auth") THEN {Msg("reply", r, tk, why)} ELSE {}
AckTo(r, tk) == IF Awaits(r, tk, "releasing") THEN {Msg("ack", r, tk, "ok")} ELSE {}
RepliesOf(r, s) == {m \in msgs : m.kind = "reply" /\ m.r = r /\ m.tk = Ticket(r, s)}
AcksOf(r, s) == {m \in msgs : m.kind = "ack" /\ m.r = r /\ m.tk = Ticket(r, s)}

IsOpen(w) == \E i \in DOMAIN order : order[i] = w
Without(q, i) == [k \in 1..(Len(q) - 1) |-> IF k < i THEN q[k] ELSE q[k + 1]]
ToBack(w) == Append(Without(order, CHOOSE i \in DOMAIN order : order[i] = w), w)

\* Only a window without transfers may be evicted.  Mutant: staging transfers are overlooked.
NothingReady(w) == \A s \in Slots : sess[w][s].st # "ready"
Evictable(w) == \A s \in Slots : sess[w][s].st = "none"

SessionOf(tk) == sess[tk.win][tk.slot]
SetSession(tk, ses) == [sess EXCEPT ![tk.win][tk.slot] = ses]
Empty(ses) == [ses EXCEPT !.st = "none", !.bytes = 0, !.expired = FALSE]

SetSlot(r, s, phase) == [slot EXCEPT ![r][s].phase = phase]
FreeSlot(r, s) == [slot EXCEPT ![r][s] = [phase |-> "free", gen |-> slot[r][s].gen, win |-> NoWindow]]

-----------------------------------------------------------------------------
(* Requester: completion.rs                                                *)

\* reserve: the first free slot whose generation is not exhausted, under a permit.
Reserve(r, s) ==
    /\ Live(r) /\ permits[r] > 0
    /\ slot[r][s].phase = "free" /\ slot[r][s].gen # MaxGen
    /\ \A t \in Slots : t < s => slot[r][t].phase # "free" \/ slot[r][t].gen = MaxGen
    /\ slot' = [slot EXCEPT ![r][s] =
                   [phase |-> "setup", gen |-> slot[r][s].gen + 1, win |-> window[r]]]
    /\ permits' = [permits EXCEPT ![r] = @ - 1]
    /\ UNCHANGED <<window, dead, sourceVars, jobs, fenced, msgs>>

\* open at the source: a full table evicts its least recently used idle window.
OpenWindow(r) ==
    /\ ~fenced /\ nextWin \in Windows
    /\ nextWin' = nextWin + 1
    /\ owner' = [owner EXCEPT ![nextWin] = r]
    /\ UNCHANGED <<sess, active, reserved>>
    /\ IF Len(order) < MaxWindows
       THEN order' = Append(order, nextWin)
       ELSE \E i \in DOMAIN order :
              /\ Evictable(order[i])
              /\ \A j \in DOMAIN order : j < i => ~Evictable(order[j])
              /\ order' = Append(Without(order, i), nextWin)

\* Window setup is single flight: every attempt that holds the cell sees its value.
SetupWindow(r) ==
    /\ Live(r) /\ window[r] = NoWindow
    /\ \E s \in Slots : slot[r][s].phase = "setup" /\ slot[r][s].win = NoWindow
    /\ OpenWindow(r)
    /\ \/ /\ window' = [window EXCEPT ![r] = nextWin]
          /\ slot' = [slot EXCEPT ![r] = [s \in Slots |->
                         IF slot[r][s].phase = "setup" /\ slot[r][s].win = NoWindow
                         THEN [slot[r][s] EXCEPT !.win = nextWin] ELSE slot[r][s]]]
       \/ UNCHANGED <<window, slot>>    \* the reply is lost
    /\ UNCHANGED <<permits, dead, jobs, fenced, msgs>>

\* authorize_once: the ticket is known, the request goes out.
Authorize(r, s) ==
    /\ Live(r) /\ slot[r][s].phase = "setup" /\ slot[r][s].win # NoWindow
    /\ slot' = SetSlot(r, s, "auth")
    /\ msgs' = msgs \cup {Msg("authorize", r, Ticket(r, s), "ok")}
    /\ UNCHANGED <<window, permits, dead, sourceVars, jobs, fenced>>

\* Drop of TransferLockGuard: without a window there is nothing to close.
DropGuard(r, s) ==
    IF slot[r][s].win = NoWindow
    THEN /\ slot' = FreeSlot(r, s)
         /\ permits' = [permits EXCEPT ![r] = @ + 1]
    ELSE /\ slot' = SetSlot(r, s, "releasing")
         /\ UNCHANGED permits

\* A timeout, a transport error, an invalid reply or a cancelled caller.
Abandon(r, s) ==
    /\ Live(r) /\ slot[r][s].phase \in {"setup", "auth", "granted"}
    /\ DropGuard(r, s)
    /\ msgs' = msgs \ RepliesOf(r, s)
    /\ UNCHANGED <<window, dead, sourceVars, jobs, fenced>>

ReceiveGrant(r, s) ==
    /\ Awaits(r, Ticket(r, s), "auth")
    /\ \E m \in RepliesOf(r, s) : m.why = "ok"
    /\ slot' = SetSlot(r, s, "granted")
    /\ msgs' = msgs \ RepliesOf(r, s)
    /\ UNCHANGED <<window, permits, dead, sourceVars, jobs, fenced>>

\* An unknown window also retires the cell, unless a newer one replaced it.
ReceiveRejection(r, s) ==
    /\ Awaits(r, Ticket(r, s), "auth")
    /\ \E m \in RepliesOf(r, s) :
         /\ m.why # "ok"
         /\ window' = IF m.why = "notFound" /\ window[r] = slot[r][s].win
                      THEN [window EXCEPT ![r] = NoWindow] ELSE window
    /\ DropGuard(r, s)
    /\ msgs' = msgs \ RepliesOf(r, s)
    /\ UNCHANGED <<dead, sourceVars, jobs, fenced>>

\* run_with_buffers: the native READ owns the guard; no cancellation reaches it.
StartRead(r, s) ==
    /\ Live(r) /\ slot[r][s].phase = "granted"
    /\ slot' = SetSlot(r, s, "reading")
    /\ UNCHANGED <<window, permits, dead, sourceVars, jobs, fenced, msgs>>

FinishRead(r, s) ==
    /\ Live(r) /\ slot[r][s].phase = "reading"
    /\ \/ slot' = SetSlot(r, s, "releasing")
       \/ slot' = SetSlot(r, s, "leaked")    \* Unquiesced: guard and buffers are forgotten
    /\ UNCHANGED <<window, permits, dead, sourceVars, jobs, fenced, msgs>>

\* acknowledge: send, and send again, until the source says ok.
SendRelease(r, s) ==
    /\ Live(r) /\ slot[r][s].phase = "releasing"
    /\ msgs' = msgs \cup {Msg("release", r, Ticket(r, s), "ok")}
    /\ UNCHANGED <<requesterVars, dead, sourceVars, jobs, fenced>>

\* Drop of Completion: permit, busy and releasing are given back together.
ReceiveAck(r, s) ==
    /\ Awaits(r, Ticket(r, s), "releasing")
    /\ AcksOf(r, s) # {}
    /\ slot' = FreeSlot(r, s)
    /\ permits' = [permits EXCEPT ![r] = @ + 1]
    /\ msgs' = msgs \ AcksOf(r, s)
    /\ UNCHANGED <<window, dead, sourceVars, jobs, fenced>>

\* peer(): an idle peer falls out of the bounded cache and is later rebuilt from nothing.
ForgetPeer(r) ==
    /\ Live(r) /\ \A s \in Slots : slot[r][s].phase = "free"
    /\ slot' = [slot EXCEPT ![r] = [s \in Slots |-> NewSlot]]
    /\ window' = [window EXCEPT ![r] = NoWindow]
    /\ UNCHANGED <<permits, dead, sourceVars, jobs, fenced, msgs>>

Die(r) ==
    /\ Live(r)
    /\ dead' = dead \cup {r}
    /\ UNCHANGED <<requesterVars, sourceVars, jobs, fenced, msgs>>

-----------------------------------------------------------------------------
(* Source: export.rs and the gRPC service over it                          *)

\* validate_owner and pin_residencies: a fenced owner or stale evidence consumes nothing.
RefuseReplica(m) ==
    /\ m.kind = "authorize"
    /\ msgs' = (msgs \ {m}) \cup ReplyTo(m.r, m.tk, "precondition")
    /\ UNCHANGED <<requesterVars, dead, sourceVars, jobs, fenced>>

\* The checks passed; nothing is locked until reserve, so the fence may still fall here.
ValidateReplica(m) ==
    /\ m.kind = "authorize" /\ ~fenced
    /\ jobs' = jobs \cup {[r |-> m.r, tk |-> m.tk, stage |-> "validated", why |-> "ok"]}
    /\ msgs' = msgs \ {m}
    /\ UNCHANGED <<requesterVars, dead, sourceVars, fenced>>

\* reserve knows only open windows.
RefuseUnknownWindow(j) ==
    /\ j.stage = "validated" /\ ~IsOpen(j.tk.win)
    /\ jobs' = jobs \ {j}
    /\ msgs' = msgs \cup ReplyTo(j.r, j.tk, "notFound")
    /\ UNCHANGED <<requesterVars, dead, sourceVars, fenced>>

\* reserve refuses a ticket whose generation is spent or whose slot is occupied.
StaleTicket(tk) == tk.gen <= SessionOf(tk).gen \/ SessionOf(tk).st # "none"

RefuseStaleTicket(j) ==
    /\ j.stage = "validated" /\ IsOpen(j.tk.win)
    /\ StaleTicket(j.tk)
    /\ order' = ToBack(j.tk.win)
    /\ jobs' = jobs \ {j}
    /\ msgs' = msgs \cup ReplyTo(j.r, j.tk, "precondition")
    /\ UNCHANGED <<requesterVars, dead, nextWin, owner, sess, active, reserved, fenced>>

\* Mutant: the bytes already reserved are not counted.
OverOwnBudget(bytes) == active >= MaxSessions \/ bytes > Budget
OverBudget(bytes) == active >= MaxSessions \/ bytes > Budget - reserved

\* reserve: the generation is consumed even when admission fails.
AdmitTransfer(j, bytes) ==
    /\ j.stage = "validated" /\ IsOpen(j.tk.win)
    /\ ~StaleTicket(j.tk)
    /\ order' = ToBack(j.tk.win)
    /\ IF OverBudget(bytes)
       THEN /\ sess' = SetSession(j.tk, [SessionOf(j.tk) EXCEPT !.gen = j.tk.gen])
            /\ jobs' = jobs \ {j}
            /\ msgs' = msgs \cup ReplyTo(j.r, j.tk, "exhausted")
            /\ UNCHANGED <<active, reserved>>
       ELSE /\ sess' = SetSession(j.tk, [gen |-> j.tk.gen, st |-> "staging",
                                         bytes |-> bytes, expired |-> FALSE])
            /\ active' = active + 1
            /\ reserved' = reserved + bytes
            /\ jobs' = (jobs \ {j}) \cup {[j EXCEPT !.stage = "staging"]}
            /\ UNCHANGED msgs
    /\ UNCHANGED <<requesterVars, dead, nextWin, owner, fenced>>

\* The staging read failed: the reservation is about to be rolled back.
FailStaging(j) ==
    /\ j.stage = "staging"
    /\ jobs' = (jobs \ {j}) \cup {[j EXCEPT !.stage = "aborting", !.why = "unavailable"]}
    /\ UNCHANGED <<requesterVars, dead, sourceVars, fenced, msgs>>

\* A reservation commits only while it is staging and unreleased.  Mutant: a release that
\* overtook the staging is forgotten.
CommittableAfterRelease(tk) ==
    SessionOf(tk).gen = tk.gen /\ SessionOf(tk).st \in {"staging", "released"}
Committable(tk) == SessionOf(tk).gen = tk.gen /\ SessionOf(tk).st = "staging"

\* commit_staging: a release that overtook the staging, or growth beyond the budget, aborts
\* it. (Its window is open: SessionWindowsStayOpen.)
CommitStaging(j, bytes) ==
    LET ses == SessionOf(j.tk)
        others == reserved - ses.bytes
        abort(why) == (jobs \ {j}) \cup {[j EXCEPT !.stage = "aborting", !.why = why]}
    IN /\ j.stage = "staging" /\ IsOpen(j.tk.win)
       /\ order' = ToBack(j.tk.win)
       /\ CASE ~Committable(j.tk) ->
                 jobs' = abort("precondition") /\ UNCHANGED <<sess, reserved>>
            [] Committable(j.tk) /\ bytes > Budget - others ->
                 jobs' = abort("exhausted") /\ UNCHANGED <<sess, reserved>>
            [] OTHER ->
                 /\ jobs' = (jobs \ {j}) \cup {[j EXCEPT !.stage = "prepared"]}
                 /\ sess' = SetSession(j.tk, [ses EXCEPT !.st = "ready", !.bytes = bytes])
                 /\ reserved' = others + bytes
       /\ UNCHANGED <<requesterVars, dead, nextWin, owner, active, fenced, msgs>>

\* rollback takes the session only if it is still this generation, in the expected state.
\* Mutant: a released staging session is skipped.
OwnsUnreleased(tk, ready) ==
    SessionOf(tk).gen = tk.gen /\ SessionOf(tk).st = IF ready THEN "ready" ELSE "staging"
OwnsSession(tk, ready) ==
    /\ IsOpen(tk.win) /\ SessionOf(tk).gen = tk.gen
    /\ SessionOf(tk).st # "none" /\ (SessionOf(tk).st = "ready") = ready

Rollback(tk, ready) ==
    IF OwnsSession(tk, ready)
    THEN /\ sess' = SetSession(tk, Empty(SessionOf(tk)))
         /\ active' = active - 1
         /\ reserved' = reserved - SessionOf(tk).bytes
    ELSE UNCHANGED <<sess, active, reserved>>

\* Drop of StagingReservation, then the error goes back to the requester.
AbortStaging(j) ==
    /\ j.stage = "aborting"
    /\ Rollback(j.tk, FALSE)
    /\ jobs' = jobs \ {j}
    /\ msgs' = msgs \cup ReplyTo(j.r, j.tk, j.why)
    /\ UNCHANGED <<requesterVars, dead, order, nextWin, owner, fenced>>

\* publish, and the grant goes back; a missing source epoch turns it into an error.
Publish(j) ==
    /\ j.stage = "prepared"
    /\ jobs' = jobs \ {j}
    /\ \E why \in {"ok", "precondition"} : msgs' = msgs \cup ReplyTo(j.r, j.tk, why)
    /\ UNCHANGED <<requesterVars, dead, sourceVars, fenced>>

\* Drop of PreparedTransfer: the authorization owner went away before the handoff.
LoseHandoff(j) ==
    /\ j.stage = "prepared"
    /\ Rollback(j.tk, TRUE)
    /\ jobs' = jobs \ {j}
    /\ UNCHANGED <<requesterVars, dead, order, nextWin, owner, fenced, msgs>>

\* What release leaves in a slot: a stale ticket changes nothing, an empty slot closes the
\* generation, a staging transfer is only marked, a ready one is taken.
Released(ses, gen) ==
    CASE gen < ses.gen \/ (gen > ses.gen /\ ses.st # "none") -> ses
      [] gen >= ses.gen /\ ses.st = "none" -> [ses EXCEPT !.gen = gen]
      [] gen = ses.gen /\ ses.st = "ready" -> Empty(ses)
      [] OTHER -> [ses EXCEPT !.st = "released"]

Release(tk) ==
    LET ses == SessionOf(tk)
        freed == ses.st # "none" /\ Released(ses, tk.gen).st = "none"
    IN IF ~IsOpen(tk.win)
       THEN UNCHANGED sourceVars
       ELSE /\ order' = ToBack(tk.win)
            /\ sess' = SetSession(tk, Released(ses, tk.gen))
            /\ active' = IF freed THEN active - 1 ELSE active
            /\ reserved' = IF freed THEN reserved - ses.bytes ELSE reserved
            /\ UNCHANGED <<nextWin, owner>>

\* A newer generation cannot close a slot an older transfer still occupies.
ReleaseAccepted(tk) ==
    IsOpen(tk.win) => ~(tk.gen > SessionOf(tk).gen /\ SessionOf(tk).st # "none")

\* authorize found other blocks than it asked for and closes its own ticket.
RejectMaterialized(j) ==
    /\ j.stage = "prepared"
    /\ Release(j.tk)
    /\ jobs' = jobs \ {j}
    /\ msgs' = msgs \cup ReplyTo(j.r, j.tk, "precondition")
    /\ UNCHANGED <<requesterVars, dead, fenced>>

\* release_transfer_lock.  The request stays in flight: retries may have sent more copies.
HandleRelease(m) ==
    /\ m.kind = "release"
    /\ Release(m.tk)
    /\ msgs' = msgs \cup IF ReleaseAccepted(m.tk) THEN AckTo(m.r, m.tk) ELSE {}
    /\ UNCHANGED <<requesterVars, dead, jobs, fenced>>

\* Mutant: an overdue session is reclaimed.
ExpireReclaims(w, s) ==
    /\ IsOpen(w) /\ sess[w][s].st = "ready"
    /\ sess' = [sess EXCEPT ![w][s] = Empty(@)]
    /\ active' = active - 1 /\ reserved' = reserved - sess[w][s].bytes
    /\ UNCHANGED <<requesterVars, dead, order, nextWin, owner, jobs, fenced, msgs>>

\* expire only marks overdue sessions.
Expire(w, s) ==
    /\ IsOpen(w) /\ sess[w][s].st # "none" /\ ~sess[w][s].expired
    /\ sess' = [sess EXCEPT ![w][s].expired = TRUE]
    /\ UNCHANGED <<requesterVars, dead, order, nextWin, owner, active, reserved, jobs, fenced, msgs>>

\* The membership lease of the source ran out; it is never restored.
Fence ==
    /\ ~fenced /\ fenced' = TRUE
    /\ UNCHANGED <<requesterVars, dead, sourceVars, jobs, msgs>>

-----------------------------------------------------------------------------
RequesterStep(r) ==
    \/ SetupWindow(r) \/ ForgetPeer(r) \/ Die(r)
    \/ \E s \in Slots :
         \/ Reserve(r, s) \/ Authorize(r, s) \/ Abandon(r, s)
         \/ ReceiveGrant(r, s) \/ ReceiveRejection(r, s)
         \/ StartRead(r, s) \/ FinishRead(r, s)
         \/ SendRelease(r, s) \/ ReceiveAck(r, s)

MessageStep(m) ==
    RefuseReplica(m) \/ ValidateReplica(m) \/ HandleRelease(m)

JobStep(j) ==
    \/ RefuseUnknownWindow(j) \/ RefuseStaleTicket(j)
    \/ \E bytes \in Footprints : AdmitTransfer(j, bytes)
    \/ FailStaging(j) \/ AbortStaging(j) \/ Publish(j) \/ LoseHandoff(j) \/ RejectMaterialized(j)
    \/ \E bytes \in Footprints : CommitStaging(j, bytes)

Next ==
    \/ \E r \in Requesters : RequesterStep(r)
    \/ \E m \in msgs : MessageStep(m)
    \/ \E j \in jobs : JobStep(j)
    \/ \E w \in Windows, s \in Slots : Expire(w, s)
    \/ Fence

Spec == Init /\ [][Next]_vars

\* RPC timeouts, retries and native transfer deadlines are what the code guarantees: every
\* wait of a requester ends, every authorization the source started ends, and a request that
\* is retried for ever is delivered, and answered, at last.
Fairness ==
    /\ \A r \in Requesters, s \in Slots :
         /\ WF_vars(Abandon(r, s))
         /\ WF_vars(FinishRead(r, s))
         /\ WF_vars(SendRelease(r, s))
         /\ WF_vars(ReceiveAck(r, s))
         /\ WF_vars(\E m \in msgs : m.r = r /\ m.tk = Ticket(r, s) /\ HandleRelease(m))
    /\ \A r \in Requesters, w \in Windows, s \in Slots, g \in 1..MaxGen :
         WF_vars(\E j \in jobs : /\ j.r = r /\ j.tk = [win |-> w, slot |-> s, gen |-> g]
                                  /\ JobStep(j))

FairSpec == Spec /\ Fairness

-----------------------------------------------------------------------------
(* Properties.                                                             *)

TypeOK ==
    /\ slot \in [Requesters -> [Slots -> Attempt]]
    /\ window \in [Requesters -> Windows \cup {NoWindow}]
    /\ permits \in [Requesters -> Nat]
    /\ dead \subseteq Requesters
    /\ order \in Seq(Windows)
    /\ nextWin \in 1..(WindowIds + 1)
    /\ owner \in [Windows -> Requesters \cup {NoOwner}]
    /\ sess \in [Windows -> [Slots -> Session]]
    /\ active \in Int
    /\ reserved \in Int
    /\ jobs \subseteq Job
    /\ fenced \in BOOLEAN
    /\ msgs \subseteq Message

\* The slot of requester r stands at ticket tk; it has asked the source about it.
At(r, tk) == slot[r][tk.slot].win = tk.win /\ slot[r][tk.slot].gen = tk.gen
OnTicket(r, tk) == At(r, tk) /\ slot[r][tk.slot].phase \notin {"free", "setup"}

\* While a requester holds a grant, its native READ is running or the READ never quiesced,
\* the source keeps the blocks of exactly that ticket pinned: no release, rollback, eviction,
\* expiry or newer ticket takes them away (TransferLockManager, TransferLockGuard).
SourceHeldWhileReading ==
    \A r \in Requesters, s \in Slots :
        slot[r][s].phase \in {"granted", "reading", "leaked"} =>
            /\ slot[r][s].win \in Windows
            /\ sess[slot[r][s].win][s].st = "ready"
            /\ sess[slot[r][s].win][s].gen = slot[r][s].gen

\* "A completion arriving before authorization closes its generation, so delayed
\* authorization cannot resurrect a hold": pinned or staging memory always has a requester
\* slot that still owes its release, so nothing stays pinned after an acknowledged release.
NoOrphanedGrant ==
    \A w \in Windows, s \in Slots :
        sess[w][s].st \in {"staging", "ready"} =>
            /\ owner[w] \in Requesters
            /\ OnTicket(owner[w], [win |-> w, slot |-> s, gen |-> sess[w][s].gen])

\* open evicts only idle windows: the window of a transfer stays open, so that a release
\* never falls into the "unknown window" branch, which would leave the memory pinned.
SessionWindowsStayOpen ==
    \A w \in Windows, s \in Slots : sess[w][s].st # "none" => IsOpen(w)

Places == Windows \X Slots
OccupiedIn(table) == {ws \in Places : table[ws[1]][ws[2]].st # "none"}
BytesIn(table) == [ws \in Places |-> table[ws[1]][ws[2]].bytes]
Occupied == OccupiedIn(sess)

\* The counters release_accounting decrements without a check equal what the slots hold, and
\* neither the session nor the byte budget is ever exceeded, not even by a commit that found
\* more bytes than were reserved.
AccountingExact ==
    /\ active = Cardinality(Occupied)
    /\ reserved = SumOf(BytesIn(sess), Occupied)
    /\ active <= MaxSessions
    /\ reserved <= Budget

\* A requester's permits are exactly the slots nobody occupies: setup, READ, retained
\* (unquiesced) and unacknowledged tickets all keep theirs.
PermitsExact ==
    \A r \in Requesters :
        permits[r] = MaxCompletions - Cardinality({s \in Slots : slot[r][s].phase # "free"})

\* "A ticket is single use": blocks become pinned only under the generation their slot
\* carries, a generation never goes back, and a new transfer never starts under an old one.
TicketsAreSingleUse ==
    [][\A w \in Windows, s \in Slots :
          /\ sess'[w][s].gen >= sess[w][s].gen
          /\ sess'[w][s].st = "staging" /\ sess[w][s].st # "staging"
                => sess'[w][s].gen > sess[w][s].gen
          /\ sess'[w][s].st = "ready" /\ sess[w][s].st # "ready"
                => sess[w][s].st = "staging"]_vars

LostTicket(w, s) ==
    \E r \in Requesters :
        /\ owner[w] = r
        /\ r \in dead \/ slot[r][s].phase = "leaked"

\* Source memory does not stay pinned for ever, fenced or not, unless its requester died or
\* its READ could not be quiesced: "terminal completion must still drain".
SourceDrains ==
    \A w \in Windows, s \in Slots :
        (sess[w][s].st # "none") ~> (sess[w][s].st = "none" \/ LostTicket(w, s))

\* Every attempt of a live requester gives its slot and permit back, however many messages
\* are lost, even when an older staging transfer refuses the newer release for a while.
CompletionsReturn ==
    \A r \in Requesters, s \in Slots :
        (slot[r][s].phase # "free") ~>
            (slot[r][s].phase \in {"free", "leaked"} \/ r \in dead)

-----------------------------------------------------------------------------
(* The source implements SourceHold.                                       *)

HeldTickets == {tk \in Tickets : SessionOf(tk).st = "ready" /\ SessionOf(tk).gen = tk.gen}
ReadingTickets ==
    {tk \in Tickets : \E r \in Requesters :
        tk = Ticket(r, tk.slot) /\ slot[r][tk.slot].phase \in {"granted", "reading", "leaked"}}
SpentTickets ==
    {tk \in Tickets : \/ tk.gen < SessionOf(tk).gen
                      \/ tk.gen = SessionOf(tk).gen /\ SessionOf(tk).st # "staging"}

Hold == INSTANCE SourceHold
            WITH held <- HeldTickets, reading <- ReadingTickets, spent <- SpentTickets

\* The lock manager, its windows and generations, the retried releases and the requesters'
\* guards together keep the promise of SourceHold: no ticket is granted twice and no pinned
\* block is let go under a READ.
HoldsPromise == Hold!Spec

-----------------------------------------------------------------------------
(* What is checked                                                           *)

\* The counters of both sides, moved by increments on every path of a transfer, equal a recount
\* and stay inside their limits (release_accounting, TransferCompletions).
BooksBalance ==
  /\ TypeOK
  /\ AccountingExact
  /\ PermitsExact

\* Slots and generations are reused without one ticket ever being taken for another, and the
\* source keeps the promise of SourceHold (authorize, commit, release).
TicketsHold ==
  /\ TicketsAreSingleUse
  /\ HoldsPromise

\* A transfer ends on both sides: pinned memory drains and the requester's slot returns
\* (release retries of TransferLockGuard).
TransfersEnd ==
  /\ SourceDrains
  /\ CompletionsReturn
=============================================================================
