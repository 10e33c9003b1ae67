------------------------ MODULE PeerTransferTheorems ------------------------
(* The invariant of the transfer protocol and what it implies.             *)
EXTENDS PeerTransferProofs

\* The empty system satisfies the invariant.
LEMMA InitHolds == Init => TransferInvariant
<1> USE SlotsAssumption, WindowsAssumption, BudgetAssumption DEF NoWindow
<1> SUFFICES ASSUME Init PROVE TransferInvariant
    BY Zenon
<1>1. TypeOK
  <2>1. NewSlot \in Attempt /\ NewSession \in Session
      BY SMTT(40) DEF NewSlot, Attempt, Phases, NewSession, Session, SessionStates
  <2>2. /\ slot \in [Requesters -> [Slots -> Attempt]]
        /\ window \in [Requesters -> Windows \cup {NoWindow}]
        /\ permits \in [Requesters -> Nat]
      BY <2>1, Zenon DEF Init
  <2>3. order \in Seq(Windows) /\ nextWin \in 1..WindowIds + 1
      BY SMTT(40) DEF Init
  <2>4. /\ owner \in [Windows -> Requesters \cup {NoOwner}]
        /\ sess \in [Windows -> [Slots -> Session]]
      BY <2>1, Zenon DEF Init
  <2>5. fenced \in BOOLEAN
      BY Zenon DEF Init
  <2>6. /\ dead \subseteq Requesters /\ jobs \subseteq Job /\ msgs \subseteq Message
        /\ active \in Int /\ reserved \in Int
      BY SMTT(40) DEF Init
  <2>7. QED
      BY <2>2, <2>3, <2>4, <2>5, <2>6, Zenon DEF TypeOK
<1>2. \A r \in Requesters, s \in Slots : slot[r][s].phase = "free" /\ slot[r][s].win = NoWindow
    BY Zenon DEF Init, NewSlot
<1>3. \A w \in Windows, s \in Slots : sess[w][s].st = "none"
    BY Zenon DEF Init, NewSession
<1>4. msgs = {} /\ jobs = {} /\ order = <<>>
    BY Zenon DEF Init
<1>5. WindowsOwned
    BY SMTT(40), <1>2, <1>4 DEF Init, WindowsOwned
<1>6. QED
    BY <1>1, <1>2, <1>3, <1>4, <1>5, ZenonT(40)
    DEF TransferInvariant, SlotShape, GenerationsLead, PhasesAgree, OneAuthorization,
        GrantsAreReal, PassedIsClosed, SourceHeldWhileReading, NoOrphanedGrant,
        SessionWindowsStayOpen

\* Every action keeps the invariant.
LEMMA NextStep ==
    ASSUME TransferInvariant, Next
    PROVE  TransferInvariant'
<1>1. CASE \E r \in Requesters : RequesterStep(r)
  <2>1. PICK r \in Requesters : RequesterStep(r)
      BY Zenon, <1>1
  <2>2. CASE SetupWindow(r) \/ ForgetPeer(r) \/ Die(r)
      BY <2>2, SetupWindowStep, ForgetPeerStep, DieStep, Zenon
  <2>3. ASSUME NEW s \in Slots,
               \/ Reserve(r, s) \/ Authorize(r, s) \/ Abandon(r, s)
               \/ ReceiveGrant(r, s) \/ ReceiveRejection(r, s)
               \/ StartRead(r, s) \/ FinishRead(r, s)
               \/ SendRelease(r, s) \/ ReceiveAck(r, s)
        PROVE  TransferInvariant'
      BY <2>3, ReserveStep, AuthorizeStep, AbandonStep, ReceiveGrantStep, ReceiveRejectionStep, ZenonT(40),
         StartReadStep, FinishReadStep, SendReleaseStep, ReceiveAckStep
  <2>4. QED
      BY <2>1, <2>2, <2>3, Zenon DEF RequesterStep
<1>2. CASE \E m \in msgs : MessageStep(m)
    BY <1>2, RefuseReplicaStep, ValidateReplicaStep, HandleReleaseStep, Zenon DEF MessageStep
<1>3. CASE \E j \in jobs : JobStep(j)
  <2>1. PICK j \in jobs : JobStep(j)
      BY <1>3, Zenon
  <2>2. CASE \E bytes \in Footprints : AdmitTransfer(j, bytes)
      BY <2>2, AdmitTransferStep, Zenon
  <2>3. CASE \E bytes \in Footprints : CommitStaging(j, bytes)
      BY <2>3, CommitStagingStep, Zenon
  <2>4. CASE RefuseUnknownWindow(j) \/ RefuseStaleTicket(j) \/ FailStaging(j) \/ AbortStaging(j)
      BY <2>4, RefuseUnknownWindowStep, RefuseStaleTicketStep, FailStagingStep, AbortStagingStep, Zenon
  <2>5. CASE Publish(j) \/ LoseHandoff(j) \/ RejectMaterialized(j)
      BY <2>5, PublishStep, LoseHandoffStep, RejectMaterializedStep, Zenon
  <2>6. QED
      BY <2>1, <2>2, <2>3, <2>4, <2>5, Zenon DEF JobStep
<1>4. CASE \E w \in Windows, s \in Slots : Expire(w, s)
    BY <1>4, ExpireStep, Zenon
<1>5. CASE Fence
    BY <1>5, FenceStep, Zenon
<1>6. QED
    BY <1>1, <1>2, <1>3, <1>4, <1>5, Zenon DEF Next

\* Whatever the numbers of requesters, slots, windows, generations and sessions, messages, jobs,
\* slots and sessions of the transfer protocol (TransferLockManager, TransferCompletions) always
\* agree on who may still pin source memory and who still owes its release.
THEOREM InvariantHolds == Spec => []TransferInvariant
<1>1. Init => TransferInvariant
    BY InitHolds, Zenon
<1>2. TransferInvariant /\ [Next]_vars => TransferInvariant'
    BY NextStep, QuietStep, Zenon DEF vars, requesterVars, sourceVars, TransferInvariant, TypeOK
<1>3. QED
    BY <1>1, <1>2, PTL DEF Spec

\* The variables of the protocol keep their types.
THEOREM TypeCorrect == Spec => []TypeOK
<1>1. TransferInvariant => TypeOK
    BY Zenon DEF TransferInvariant
<1>2. QED
    BY <1>1, InvariantHolds, PTL

\* No release, rollback, eviction, expiry, fence or crash ever takes source memory away from a
\* requester that holds a grant or runs a READ (TransferLockGuard, TransferLockManager).
THEOREM NoReadOutlivesItsPin == Spec => []SourceHeldWhileReading
<1>1. TransferInvariant => SourceHeldWhileReading
    BY Zenon DEF TransferInvariant
<1>2. QED
    BY <1>1, InvariantHolds, PTL

\* A delayed authorization never pins memory after its ticket was closed: whatever is pinned or
\* being staged has a requester slot that still owes the release (reserve, release).
THEOREM DelayedAuthorizationIsHarmless == Spec => []NoOrphanedGrant
<1>1. TransferInvariant => NoOrphanedGrant
    BY Zenon DEF TransferInvariant
<1>2. QED
    BY <1>1, InvariantHolds, PTL

\* The window of a transfer is never evicted, so its release always finds it (open, release).
THEOREM EvictionSparesTransfers == Spec => []SessionWindowsStayOpen
<1>1. TransferInvariant => SessionWindowsStayOpen
    BY Zenon DEF TransferInvariant
<1>2. QED
    BY <1>1, InvariantHolds, PTL

-----------------------------------------------------------------------------
(* How a step may change a session, the counters and the permits.          *)

\* What one step may do to one session: mark it overdue or released, close generations of an empty
\* slot, admit a transfer, commit it, or free it.
Marks(old, new) ==
    /\ new.gen = old.gen /\ new.bytes = old.bytes
    /\ new.st = old.st \/ (old.st = "staging" /\ new.st = "released")
Closes(old, new) == old.st = "none" /\ new.st = "none" /\ old.gen <= new.gen
Admits(old, new) == old.st = "none" /\ new.st = "staging" /\ old.gen < new.gen
Commits(old, new) == old.st = "staging" /\ new.st = "ready" /\ new.gen = old.gen
Frees(old, new) == old.st # "none" /\ new.st = "none" /\ new.gen = old.gen

\* The counters follow.
Booked(tk, old, new) ==
    \/ (Marks(old, new) \/ Closes(old, new)) /\ active' = active /\ reserved' = reserved
    \/ /\ Admits(old, new) /\ active < MaxSessions /\ new.bytes <= Budget - reserved
       /\ active' = active + 1 /\ reserved' = reserved + new.bytes
    \/ /\ Commits(old, new) /\ old.gen = tk.gen /\ active' = active
       /\ reserved' = reserved - old.bytes + new.bytes /\ reserved' <= Budget
    \/ /\ Frees(old, new) /\ active' = active - 1 /\ reserved' = reserved - old.bytes
       /\ old.st = "ready" => old.gen = tk.gen /\ tk \notin ReadingTickets

SessionChange(tk) ==
    /\ sess' \in [Windows -> [Slots -> Session]]
    /\ \A q \in Places \ {<<tk.win, tk.slot>>} : sess'[q[1]][q[2]] = sess[q[1]][q[2]]
    /\ Booked(tk, sess[tk.win][tk.slot], sess'[tk.win][tk.slot])

\* The sessions as the type invariant has them.
LEMMA SessionTypes ==
    ASSUME TypeOK, NEW w \in Windows, NEW s \in Slots
    PROVE  /\ sess[w][s] \in Session /\ sess[w][s].gen \in Nat /\ sess[w][s].bytes \in Nat
           /\ sess[w][s].st \in SessionStates /\ active \in Int /\ reserved \in Int
<1>1. sess[w][s] \in Session /\ active \in Int /\ reserved \in Int
    BY Zenon DEF TypeOK
<1> QED BY SMTT(40), <1>1, SlotsAssumption DEF Session

\* Replacing the session of a ticket leaves every other place alone.
LEMMA Placed ==
    ASSUME TypeOK, NEW tk \in Tickets, NEW ses \in Session, sess' = SetSession(tk, ses),
           Booked(tk, sess[tk.win][tk.slot], ses)
    PROVE  SessionChange(tk)
<1>1. tk.win \in Windows /\ tk.slot \in Slots
    BY Zenon DEF Tickets
<1>2. /\ sess' \in [Windows -> [Slots -> Session]]
      /\ \A w \in Windows, s \in Slots :
           sess'[w][s] = IF w = tk.win /\ s = tk.slot THEN ses ELSE sess[w][s]
    BY SMTT(40), SetSessionFacts
<1>3. sess'[tk.win][tk.slot] = ses
    BY Zenon, <1>1, <1>2
<1>4. \A q \in Places \ {<<tk.win, tk.slot>>} : sess'[q[1]][q[2]] = sess[q[1]][q[2]]
  <2> SUFFICES ASSUME NEW q \in Places, q # <<tk.win, tk.slot>> PROVE sess'[q[1]][q[2]] = sess[q[1]][q[2]]
      OBVIOUS
  <2>1. q[1] \in Windows /\ q[2] \in Slots /\ q = <<q[1], q[2]>>
      BY SMTT(40) DEF Places
  <2>2. ~(q[1] = tk.win /\ q[2] = tk.slot)
      BY Zenon, <2>1
  <2> QED BY Zenon, <1>2, <2>1, <2>2
<1>5. Booked(tk, sess[tk.win][tk.slot], sess'[tk.win][tk.slot])
    BY <1>3, Zenon
<1> QED BY <1>2, <1>4, <1>5, Zenon DEF SessionChange

\* A ticket its requester is not holding is not being read under.
LEMMA NotReading ==
    ASSUME TransferInvariant, NEW q, NEW tk \in Tickets, Owns(q, tk), At(q, tk) => PhaseOf(q, tk) \notin Holding
    PROVE  tk \notin ReadingTickets
<1> SUFFICES ASSUME NEW r \in Requesters, tk = Ticket(r, tk.slot),
                    slot[r][tk.slot].phase \in {"granted", "reading", "leaked"}
             PROVE  FALSE
    BY Zenon DEF ReadingTickets
<1>1. tk.win \in Windows /\ tk.slot \in Slots /\ tk.win # NoWindow
    BY SMTT(40), WindowsAssumption DEF Tickets, Windows, NoWindow
<1>2. slot[r][tk.slot].win = tk.win /\ slot[r][tk.slot].gen = tk.gen
    BY SMTT(40) DEF Ticket
<1>3. owner[tk.win] = r
    BY ZenonT(40), <1>1, <1>2 DEF TransferInvariant, WindowsOwned
<1> QED BY Zenon, <1>2, <1>3 DEF Owns, At, PhaseOf, Holding

\* expire marks one session.
LEMMA ExpireChanges ==
    ASSUME TransferInvariant, NEW w \in Windows, NEW s \in Slots, Expire(w, s)
    PROVE  \E tk \in Tickets : SessionChange(tk)
<1> DEFINE tk == [win |-> w, slot |-> s, gen |-> 1]
           ses == [sess[w][s] EXCEPT !.expired = TRUE]
<1>1. TypeOK /\ tk \in Tickets
    BY SMTT(40), SlotsAssumption DEF TransferInvariant, Tickets
<1>2. sess[w][s] \in Session
    BY Zenon, <1>1, SessionTypes
<1>3. ses \in Session /\ Marks(sess[w][s], ses)
  <2>1. TRUE \in BOOLEAN
      OBVIOUS
  <2>2. ses \in Session
      BY <1>2, <2>1, Zenon DEF Session
  <2> QED BY Zenon, <1>2, <2>2 DEF Session, Marks
<1>4. sess' = SetSession(tk, ses) /\ active' = active /\ reserved' = reserved
    BY Zenon DEF Expire, SetSession
<1> HIDE DEF ses
<1>5. Booked(tk, sess[tk.win][tk.slot], ses)
    BY Zenon, <1>3, <1>4 DEF Booked
<1> HIDE DEF tk
<1> QED BY ZenonT(40), <1>1, <1>3, <1>4, <1>5, Placed

\* Nothing of the source moved, or one session did.
SourceChange == (\E tk \in Tickets : SessionChange(tk)) \/ UNCHANGED <<sess, active, reserved>>

\* A request or job of the source is not one its requester reads under.
LEMMA TrackedNotReading ==
    ASSUME TransferInvariant, NEW q, NEW tk, Tracked(q, tk)
    PROVE  tk \in Tickets /\ tk \notin ReadingTickets
<1>1. tk \in Tickets /\ Owns(q, tk) /\ (At(q, tk) => PhaseOf(q, tk) \notin Holding)
    BY Zenon DEF Tracked, Holding
<1> QED BY Zenon, <1>1, NotReading

\* What emptying a session, opening it to a new ticket or marking it makes of it.
LEMMA EmptySession ==
    ASSUME NEW ses \in Session
    PROVE  Empty(ses) \in Session /\ Empty(ses).gen = ses.gen /\ Empty(ses).st = "none"
    BY Zenon DEF Session, Empty, SessionStates

\* rollback frees one session or none.
LEMMA RollbackChanges ==
    ASSUME TransferInvariant, NEW q, NEW tk, Tracked(q, tk), NEW ready, Rollback(tk, ready)
    PROVE  SourceChange
<1>1. TypeOK /\ tk \in Tickets /\ tk \notin ReadingTickets
    BY Zenon, TrackedNotReading DEF TransferInvariant
<1>2. CASE OwnsSession(tk, ready)
  <2> DEFINE ses == SessionOf(tk)
             new == Empty(ses)
  <2>1. sess' = SetSession(tk, new) /\ active' = active - 1 /\ reserved' = reserved - ses.bytes
      BY <1>2, Zenon DEF Rollback
  <2>2. ses.gen = tk.gen /\ ses.st # "none"
      BY <1>2, Zenon DEF OwnsSession
  <2>3. ses = sess[tk.win][tk.slot] /\ ses \in Session
    <3>1. tk.win \in Windows /\ tk.slot \in Slots
        BY <1>1, Zenon DEF Tickets
    <3> QED BY Zenon, <1>1, <3>1, SessionTypes DEF SessionOf
  <2>4. new \in Session /\ new.gen = ses.gen /\ new.st = "none"
      BY <2>3, EmptySession, Zenon
  <2> HIDE DEF ses, new
  <2>5. Booked(tk, ses, new)
      BY <1>1, <2>1, <2>2, <2>4, Zenon DEF Booked, Frees
  <2>6. SessionChange(tk)
      BY ZenonT(40), <1>1, <2>1, <2>3, <2>4, <2>5, Placed
  <2> QED BY <1>1, <2>6, Zenon DEF SourceChange
<1>3. CASE ~OwnsSession(tk, ready)
    BY <1>3, Zenon DEF Rollback, SourceChange
<1> QED BY Zenon, <1>2, <1>3

\* What release leaves in a session, by cases.
LEMMA ReleasedSession ==
    ASSUME NEW ses \in Session, NEW gen \in 1..MaxGen
    PROVE  /\ Released(ses, gen) \in Session
           /\ \/ Marks(ses, Released(ses, gen))
              \/ Closes(ses, Released(ses, gen))
              \/ ses.st = "ready" /\ ses.gen = gen /\ Released(ses, gen) = Empty(ses)
<1>1. ses.gen \in Nat /\ gen \in Nat /\ ses.st \in SessionStates /\ gen \in 0..MaxGen
    BY SMTT(40), SlotsAssumption DEF Session
<1>2. CASE gen < ses.gen \/ (gen > ses.gen /\ ses.st # "none")
  <2>1. Released(ses, gen) = ses
      BY SMTT(40), <1>1, <1>2 DEF Released
  <2> QED BY <2>1, Zenon DEF Marks
<1>3. CASE gen >= ses.gen /\ ses.st = "none"
  <2> DEFINE new == [ses EXCEPT !.gen = gen]
  <2>1. Released(ses, gen) = new
      BY SMTT(40), <1>1, <1>3 DEF Released
  <2>2. new \in Session /\ new.gen = gen /\ new.st = ses.st
      BY <1>1, Zenon DEF Session
  <2> HIDE DEF new
  <2> QED BY Zenon, <1>1, <1>3, <2>1, <2>2 DEF Closes
<1>4. CASE gen = ses.gen /\ ses.st = "ready"
  <2>1. Released(ses, gen) = Empty(ses)
      BY SMTT(40), <1>1, <1>4 DEF Released
  <2> QED BY Zenon, <1>4, <2>1, EmptySession
<1>5. CASE gen = ses.gen /\ ses.st \in {"staging", "released"}
  <2> DEFINE new == [ses EXCEPT !.st = "released"]
  <2>1. Released(ses, gen) = new
      BY SMTT(40), <1>1, <1>5 DEF Released
  <2>2. new \in Session /\ new.gen = ses.gen /\ new.st = "released" /\ new.bytes = ses.bytes
      BY Zenon DEF Session, SessionStates
  <2> HIDE DEF new
  <2> QED BY <1>5, <2>1, <2>2, Zenon DEF Marks
<1> QED BY SMTT(40), <1>1, <1>2, <1>3, <1>4, <1>5 DEF SessionStates

\* release marks, closes or frees one session, or none.
LEMMA ReleaseChanges ==
    ASSUME TransferInvariant, NEW q, NEW tk, Tracked(q, tk), Release(tk)
    PROVE  SourceChange
<1>1. TypeOK /\ tk \in Tickets /\ tk \notin ReadingTickets /\ tk.gen \in 1..MaxGen
    BY Zenon, TrackedNotReading DEF TransferInvariant, Tickets
<1>2. CASE IsOpen(tk.win)
  <2> DEFINE ses == SessionOf(tk)
             new == Released(ses, tk.gen)
             freed == ses.st # "none" /\ new.st = "none"
  <2>1. /\ sess' = SetSession(tk, new)
        /\ active' = IF freed THEN active - 1 ELSE active
        /\ reserved' = IF freed THEN reserved - ses.bytes ELSE reserved
      BY <1>2, Zenon DEF Release
  <2>2. ses = sess[tk.win][tk.slot] /\ ses \in Session
    <3>1. tk.win \in Windows /\ tk.slot \in Slots
        BY <1>1, Zenon DEF Tickets
    <3> QED BY Zenon, <1>1, <3>1, SessionTypes DEF SessionOf
  <2>3. new \in Session /\ \/ Marks(ses, new)
                           \/ Closes(ses, new)
                           \/ ses.st = "ready" /\ ses.gen = tk.gen /\ new = Empty(ses)
      BY <1>1, <2>2, ReleasedSession, Zenon
  <2>4. Empty(ses).gen = ses.gen /\ Empty(ses).st = "none"
      BY <2>2, EmptySession, Zenon
  <2> HIDE DEF ses, new
  <2>5. Booked(tk, ses, new)
    <3>1. CASE Marks(ses, new) \/ Closes(ses, new)
      <4>1. ~freed
          BY <3>1, Zenon DEF Marks, Closes
      <4> QED BY <2>1, <3>1, <4>1, Zenon DEF Booked
    <3>2. CASE ses.st = "ready" /\ ses.gen = tk.gen /\ new = Empty(ses)
      <4>1. freed /\ new.gen = ses.gen
          BY Zenon, <2>4, <3>2
      <4>2. active' = active - 1 /\ reserved' = reserved - ses.bytes
          BY Zenon, <2>1, <4>1
      <4> QED BY <1>1, <3>2, <4>1, <4>2, Zenon DEF Booked, Frees
    <3> QED BY Zenon, <2>3, <3>1, <3>2
  <2>6. SessionChange(tk)
      BY ZenonT(40), <1>1, <2>1, <2>2, <2>3, <2>5, Placed
  <2> QED BY <1>1, <2>6, Zenon DEF SourceChange
<1>3. CASE ~IsOpen(tk.win)
    BY <1>3, Zenon DEF Release, SourceChange, sourceVars
<1> QED BY Zenon, <1>2, <1>3

\* reserve admits a transfer or closes its generation.
LEMMA AdmitChanges ==
    ASSUME TransferInvariant, NEW j \in jobs, NEW bytes \in Footprints, AdmitTransfer(j, bytes)
    PROVE  SourceChange
<1>1. j.stage = "validated" /\ IsOpen(j.tk.win) /\ ~StaleTicket(j.tk)
    BY Zenon DEF AdmitTransfer
<1>2. /\ j.tk.gen \in 0..MaxGen /\ SessionOf(j.tk).gen \in Nat /\ SessionOf(j.tk) \in Session
      /\ SessionOf(j.tk).gen < j.tk.gen /\ SessionOf(j.tk).st = "none"
    BY <1>1, FreshTicket, Zenon
<1>3. TypeOK /\ j.tk \in Tickets /\ active \in Int /\ reserved \in Int
    BY AllTracked, Zenon DEF Tracked, TransferInvariant, TypeOK
<1> DEFINE tk == j.tk
           ses == SessionOf(tk)
<1>4. ses = sess[tk.win][tk.slot]
    BY Zenon DEF SessionOf
<1>5. CASE OverBudget(bytes)
  <2> DEFINE new == [ses EXCEPT !.gen = tk.gen]
  <2>1. sess' = SetSession(tk, new) /\ active' = active /\ reserved' = reserved
      BY <1>5, Zenon DEF AdmitTransfer
  <2>2. new \in Session /\ new.gen = tk.gen /\ new.st = ses.st
      BY <1>2, Zenon DEF Session
  <2> HIDE DEF new
  <2>3. Closes(ses, new)
      BY SMTT(40), <1>2, <2>2 DEF Closes
  <2> HIDE DEF ses, tk
  <2>4. Booked(tk, ses, new)
      BY <2>1, <2>3, Zenon DEF Booked
  <2>5. tk \in Tickets
      BY Zenon, <1>3 DEF tk
  <2>6. SessionChange(tk)
      BY ZenonT(40), <1>3, <1>4, <2>1, <2>2, <2>4, <2>5, Placed
  <2> QED BY <2>5, <2>6, Zenon DEF SourceChange
<1>6. CASE ~OverBudget(bytes)
  <2> DEFINE new == [gen |-> tk.gen, st |-> "staging", bytes |-> bytes, expired |-> FALSE]
  <2>1. sess' = SetSession(tk, new) /\ active' = active + 1 /\ reserved' = reserved + bytes
      BY <1>6, Zenon DEF AdmitTransfer
  <2>2. bytes \in Nat
      BY Zenon, BudgetAssumption
  <2>3. new \in Session /\ new.gen = tk.gen /\ new.st = "staging" /\ new.bytes = bytes
      BY <1>2, <2>2, Zenon DEF Session, SessionStates
  <2>4. active < MaxSessions /\ bytes <= Budget - reserved
      BY SMTT(40), <1>3, <1>6, <2>2, BudgetAssumption DEF OverBudget
  <2> HIDE DEF new
  <2>5. Admits(ses, new)
      BY Zenon, <1>2, <2>3 DEF Admits
  <2>6. tk \in Tickets
      BY Zenon, <1>3
  <2> HIDE DEF ses, tk
  <2>7. Booked(tk, ses, new)
      BY <2>1, <2>3, <2>4, <2>5, Zenon DEF Booked
  <2>8. SessionChange(tk)
      BY ZenonT(40), <1>3, <1>4, <2>1, <2>3, <2>6, <2>7, Placed
  <2> QED BY <2>6, <2>8, Zenon DEF SourceChange
<1> QED BY Zenon, <1>5, <1>6

\* commit_staging commits one session or none.
LEMMA CommitChanges ==
    ASSUME TransferInvariant, NEW j \in jobs, NEW bytes \in Footprints, CommitStaging(j, bytes)
    PROVE  SourceChange
<1> DEFINE tk == j.tk
           ses == SessionOf(tk)
           new == [ses EXCEPT !.st = "ready", !.bytes = bytes]
<1>1. TypeOK /\ tk \in Tickets /\ bytes \in Nat
    BY Zenon, AllTracked, BudgetAssumption DEF Tracked, TransferInvariant
<1>2. ses = sess[tk.win][tk.slot] /\ ses \in Session /\ ses.bytes \in Nat /\ reserved \in Int
  <2>1. tk.win \in Windows /\ tk.slot \in Slots
      BY <1>1, Zenon DEF Tickets
  <2> QED BY Zenon, <1>1, <2>1, SessionTypes DEF SessionOf
<1>3. CASE Committable(tk) /\ ~(bytes > Budget - (reserved - ses.bytes))
  <2>1. sess' = SetSession(tk, new) /\ active' = active /\ reserved' = (reserved - ses.bytes) + bytes
      BY Zenon, <1>3 DEF CommitStaging
  <2>2. new \in Session /\ new.gen = ses.gen /\ new.st = "ready" /\ new.bytes = bytes
      BY <1>1, <1>2, Zenon DEF Session, SessionStates
  <2>3. Commits(ses, new) /\ ses.gen = tk.gen
      BY <1>3, <2>2, Zenon DEF Commits, Committable
  <2> HIDE DEF new, ses, tk
  <2>4. reserved' = reserved - ses.bytes + new.bytes /\ reserved' <= Budget
      BY SMTT(40), <1>1, <1>2, <1>3, <2>1, <2>2, BudgetAssumption
  <2>5. Booked(tk, ses, new)
      BY <2>1, <2>3, <2>4, Zenon DEF Booked
  <2>6. SessionChange(tk)
      BY ZenonT(40), <1>1, <1>2, <2>1, <2>2, <2>5, Placed
  <2> QED BY <1>1, <2>6, Zenon DEF SourceChange
<1>4. CASE ~(Committable(tk) /\ ~(bytes > Budget - (reserved - ses.bytes)))
  <2>1. UNCHANGED <<sess, active, reserved>>
      BY Zenon, <1>4 DEF CommitStaging
  <2> QED BY <2>1, Zenon DEF SourceChange
<1> QED BY Zenon, <1>3, <1>4

\* No step changes more than one session, and each one changes it in one of the ways above.
LEMMA NextChanges ==
    ASSUME TransferInvariant, Next
    PROVE  SourceChange
<1>1. ASSUME NEW r \in Requesters, RequesterStep(r) PROVE UNCHANGED <<sess, active, reserved>>
  <2>1. CASE SetupWindow(r)
      BY <2>1, Zenon DEF SetupWindow, OpenWindow
  <2>2. CASE ForgetPeer(r) \/ Die(r)
      BY <2>2, Zenon DEF ForgetPeer, Die, sourceVars
  <2>3. ASSUME NEW s \in Slots,
               \/ Reserve(r, s) \/ Authorize(r, s) \/ Abandon(r, s)
               \/ ReceiveGrant(r, s) \/ ReceiveRejection(r, s)
               \/ StartRead(r, s) \/ FinishRead(r, s)
               \/ SendRelease(r, s) \/ ReceiveAck(r, s)
        PROVE  UNCHANGED <<sess, active, reserved>>
      BY <2>3, Zenon DEF Reserve, Authorize, Abandon, ReceiveGrant, ReceiveRejection, StartRead, FinishRead,
                         SendRelease, ReceiveAck, sourceVars
  <2> QED BY <1>1, <2>1, <2>2, <2>3, Zenon DEF RequesterStep
<1>2. ASSUME NEW m \in msgs, MessageStep(m) PROVE SourceChange
  <2>1. CASE RefuseReplica(m) \/ ValidateReplica(m)
      BY <2>1, Zenon DEF RefuseReplica, ValidateReplica, SourceChange, sourceVars
  <2>2. CASE HandleRelease(m)
    <3>1. Tracked(m.r, m.tk) /\ Release(m.tk)
        BY <2>2, AllTracked, Zenon DEF HandleRelease
    <3> QED BY <3>1, ReleaseChanges, Zenon
  <2> QED BY <1>2, <2>1, <2>2, Zenon DEF MessageStep
<1>3. ASSUME NEW j \in jobs, JobStep(j) PROVE SourceChange
  <2>0. Tracked(j.r, j.tk)
      BY AllTracked, Zenon
  <2>1. CASE RefuseUnknownWindow(j) \/ RefuseStaleTicket(j) \/ FailStaging(j) \/ Publish(j)
      BY <2>1, Zenon DEF RefuseUnknownWindow, RefuseStaleTicket, FailStaging, Publish, SourceChange, sourceVars
  <2>2. CASE \E bytes \in Footprints : AdmitTransfer(j, bytes)
      BY <2>2, AdmitChanges, Zenon
  <2>3. CASE \E bytes \in Footprints : CommitStaging(j, bytes)
      BY <2>3, CommitChanges, Zenon
  <2>4. CASE AbortStaging(j) \/ LoseHandoff(j)
      BY <2>0, <2>4, RollbackChanges, Zenon DEF AbortStaging, LoseHandoff
  <2>5. CASE RejectMaterialized(j)
      BY <2>0, <2>5, ReleaseChanges, Zenon DEF RejectMaterialized
  <2> QED BY <1>3, <2>1, <2>2, <2>3, <2>4, <2>5, ZenonT(40) DEF JobStep
<1>4. ASSUME NEW w \in Windows, NEW s \in Slots, Expire(w, s) PROVE SourceChange
    BY <1>4, ExpireChanges, Zenon DEF SourceChange
<1>5. CASE Fence
    BY <1>5, Zenon DEF Fence, SourceChange, sourceVars
<1> QED BY <1>1, <1>2, <1>3, <1>4, <1>5, Zenon DEF Next, SourceChange

\* A requester's slots in use; how one step of one slot moves them and the permits.
Busy(table, r) == {s \in Slots : table[r][s].phase # "free"}
SameBusy(r) == Busy(slot', r) = Busy(slot, r) /\ permits'[r] = permits[r]
Takes(r) ==
    \E s \in Slots \ Busy(slot, r) :
        Busy(slot', r) = Busy(slot, r) \cup {s} /\ permits'[r] = permits[r] - 1
GivesBack(r) ==
    \E s \in Busy(slot, r) :
        Busy(slot', r) = Busy(slot, r) \ {s} /\ permits'[r] = permits[r] + 1

\* A step that frees no slot and takes none.
LEMMA SameSlots ==
    ASSUME NEW r, permits'[r] = permits[r],
           \A s \in Slots : slot'[r][s].phase = "free" <=> slot[r][s].phase = "free"
    PROVE  SameBusy(r)
    BY Zenon DEF SameBusy, Busy

\* A slot that moves on within its attempt keeps its permit.
LEMMA MovesOn ==
    ASSUME TypeOK, NEW r \in Requesters, NEW s \in Slots, NEW p \in Phases \ {"free"},
           slot' = SetSlot(r, s, p), slot[r][s].phase # "free", permits' = permits
    PROVE  \A q \in Requesters : SameBusy(q)
<1> TAKE q \in Requesters
<1>1. \A u \in Slots : slot'[q][u].phase = IF q = r /\ u = s THEN p ELSE slot[q][u].phase
    BY SMTT(40), SetSlotFacts
<1>2. \A u \in Slots : slot'[q][u].phase = "free" <=> slot[q][u].phase = "free"
    BY <1>1, Zenon
<1> QED BY <1>2, SameSlots, Zenon

\* A freed slot gives its permit back.
LEMMA FreedReturns ==
    ASSUME TypeOK, NEW r \in Requesters, NEW s \in Slots, slot[r][s].phase # "free",
           slot' = FreeSlot(r, s), permits' = [permits EXCEPT ![r] = @ + 1]
    PROVE  \A q \in Requesters : SameBusy(q) \/ GivesBack(q)
<1> TAKE q \in Requesters
<1>1. \A u \in Slots : slot'[q][u].phase = IF q = r /\ u = s THEN "free" ELSE slot[q][u].phase
    BY SMTT(40), FreeSlotFacts
<1>2. permits'[q] = IF q = r THEN permits[r] + 1 ELSE permits[q]
    BY Zenon DEF TypeOK
<1>3. CASE q # r
  <2>1. \A u \in Slots : slot'[q][u].phase = "free" <=> slot[q][u].phase = "free"
      BY <1>1, <1>3, Zenon
  <2> QED BY Zenon, <1>2, <1>3, <2>1, SameSlots
<1>4. CASE q = r
  <2>1. Busy(slot', q) = Busy(slot, q) \ {s} /\ s \in Busy(slot, q)
      BY <1>1, <1>4, Zenon DEF Busy
  <2> QED BY Zenon, <1>2, <1>4, <2>1 DEF GivesBack
<1> QED BY Zenon, <1>3, <1>4

\* Dropping a guard frees its slot or moves it on.
LEMMA DropGuardReturns ==
    ASSUME TypeOK, NEW r \in Requesters, NEW s \in Slots, slot[r][s].phase # "free", DropGuard(r, s)
    PROVE  \A q \in Requesters : SameBusy(q) \/ GivesBack(q)
<1>1. CASE slot[r][s].win = NoWindow
    BY <1>1, FreedReturns, Zenon DEF DropGuard
<1>2. CASE slot[r][s].win # NoWindow
  <2>1. slot' = SetSlot(r, s, "releasing") /\ permits' = permits
      BY <1>2, Zenon DEF DropGuard
  <2>2. "releasing" \in Phases \ {"free"}
      BY Zenon DEF Phases
  <2> QED BY Zenon, <2>1, <2>2, MovesOn
<1> QED BY Zenon, <1>1, <1>2

\* Every step of a requester keeps the permits in step with its slots.
LEMMA RequesterPermits ==
    ASSUME TransferInvariant, NEW r \in Requesters, RequesterStep(r)
    PROVE  \A q \in Requesters : SameBusy(q) \/ Takes(q) \/ GivesBack(q)
<1>0. TypeOK /\ slot \in [Requesters -> [Slots -> Attempt]]
    BY Zenon DEF TransferInvariant, TypeOK
<1>1. CASE SetupWindow(r)
  <2>1. permits' = permits /\ \A q \in Requesters, s \in Slots : slot'[q][s].phase = slot[q][s].phase
    <3>1. permits' = permits
        BY <1>1, Zenon DEF SetupWindow
    <3>2. CASE slot' = slot
        BY <3>1, <3>2, Zenon
    <3>3. CASE slot' = [slot EXCEPT ![r] = [s \in Slots |->
                          IF slot[r][s].phase = "setup" /\ slot[r][s].win = NoWindow
                          THEN [slot[r][s] EXCEPT !.win = nextWin] ELSE slot[r][s]]]
      <4>1. ASSUME NEW q \in Requesters, NEW s \in Slots PROVE slot'[q][s].phase = slot[q][s].phase
        <5>1. CASE q # r
            BY <1>0, <3>3, <5>1, Zenon
        <5>2. CASE q = r
          <6>1. slot'[q][s] = IF slot[r][s].phase = "setup" /\ slot[r][s].win = NoWindow
                              THEN [slot[r][s] EXCEPT !.win = nextWin] ELSE slot[r][s]
              BY <1>0, <3>3, <5>2, Zenon
          <6>2. slot[r][s] \in Attempt
              BY Zenon, <1>0
          <6>3. [slot[r][s] EXCEPT !.win = nextWin].phase = slot[r][s].phase
              BY <6>2, Zenon DEF Attempt
          <6> QED BY <5>2, <6>1, <6>3, Zenon
        <5> QED BY Zenon, <5>1, <5>2
      <4> QED BY Zenon, <3>1, <4>1
    <3> QED BY <1>1, <3>2, <3>3, Zenon DEF SetupWindow
  <2> QED BY <2>1, SameSlots, Zenon
<1>2. CASE ForgetPeer(r)
  <2>1. permits' = permits /\ (\A s \in Slots : slot[r][s].phase = "free")
        /\ slot' = [slot EXCEPT ![r] = [s \in Slots |-> NewSlot]]
      BY <1>2, Zenon DEF ForgetPeer
  <2>2. \A q \in Requesters, s \in Slots : slot'[q][s] = IF q = r THEN NewSlot ELSE slot[q][s]
      BY Zenon, <1>0, <2>1
  <2>3. \A q \in Requesters, s \in Slots : slot'[q][s].phase = slot[q][s].phase
    <3>1. NewSlot.phase = "free"
        BY Zenon DEF NewSlot
    <3> QED BY SMTT(40), <2>1, <2>2, <3>1
  <2> QED BY <2>1, <2>3, SameSlots, Zenon
<1>3. CASE Die(r) \/ \E s \in Slots : SendRelease(r, s)
  <2>1. permits' = permits /\ slot' = slot
      BY <1>3, Zenon DEF Die, SendRelease, requesterVars
  <2> QED BY <2>1, SameSlots, Zenon
<1>4. ASSUME NEW s \in Slots, Reserve(r, s) PROVE \A q \in Requesters : SameBusy(q) \/ Takes(q)
  <2> TAKE q \in Requesters
  <2> DEFINE new == [phase |-> "setup", gen |-> slot[r][s].gen + 1, win |-> window[r]]
  <2>1. /\ slot' = [slot EXCEPT ![r][s] = new] /\ permits' = [permits EXCEPT ![r] = @ - 1]
        /\ slot[r][s].phase = "free" /\ new.phase = "setup"
      BY <1>4, Zenon DEF Reserve
  <2> HIDE DEF new
  <2>2. \A u \in Slots : slot'[q][u] = IF q = r /\ u = s THEN new ELSE slot[q][u]
      BY <1>0, <2>1, Zenon
  <2>3. permits'[q] = IF q = r THEN permits[r] - 1 ELSE permits[q]
      BY Zenon, <1>0, <2>1 DEF TypeOK
  <2>4. CASE q # r
    <3>1. \A u \in Slots : slot'[q][u] = slot[q][u]
        BY <2>2, <2>4, Zenon
    <3> QED BY Zenon, <2>3, <2>4, <3>1, SameSlots
  <2>5. CASE q = r
    <3>1. Busy(slot', q) = Busy(slot, q) \cup {s} /\ s \in Slots \ Busy(slot, q)
      <4>1. \A u \in Slots : slot'[q][u].phase # "free" <=> (slot[q][u].phase # "free" \/ u = s)
          BY Zenon, <2>1, <2>2, <2>5
      <4> QED BY <2>1, <2>5, <4>1, Zenon DEF Busy
    <3> QED BY Zenon, <2>3, <2>5, <3>1 DEF Takes
  <2> QED BY Zenon, <2>4, <2>5
<1>5. ASSUME NEW s \in Slots, Authorize(r, s) \/ ReceiveGrant(r, s) \/ StartRead(r, s) \/ FinishRead(r, s)
      PROVE  \A q \in Requesters : SameBusy(q)
  <2>1. \E p \in Phases \ {"free"} : slot' = SetSlot(r, s, p)
    <3>1. {"auth", "granted", "reading", "releasing", "leaked"} \subseteq Phases \ {"free"}
        BY Zenon DEF Phases
    <3> QED BY <1>5, <3>1, Zenon DEF Authorize, ReceiveGrant, StartRead, FinishRead
  <2>2. permits' = permits
      BY <1>5, Zenon DEF Authorize, ReceiveGrant, StartRead, FinishRead
  <2>3. slot[r][s].phase # "free"
    <3>1. Ticket(r, s).slot = s
        BY Zenon DEF Ticket
    <3> QED BY SMTT(40), <1>5, <3>1 DEF Authorize, ReceiveGrant, StartRead, FinishRead, Awaits
  <2> QED BY <1>0, <2>1, <2>2, <2>3, MovesOn, ZenonT(40)
<1>6. ASSUME NEW s \in Slots, Abandon(r, s) \/ ReceiveRejection(r, s)
      PROVE  \A q \in Requesters : SameBusy(q) \/ GivesBack(q)
  <2>1. DropGuard(r, s)
      BY <1>6, Zenon DEF Abandon, ReceiveRejection
  <2>2. slot[r][s].phase # "free"
    <3>1. Ticket(r, s).slot = s
        BY Zenon DEF Ticket
    <3> QED BY SMTT(40), <1>6, <3>1 DEF Abandon, ReceiveRejection, Awaits
  <2> QED BY <1>0, <2>1, <2>2, DropGuardReturns, Zenon
<1>7. ASSUME NEW s \in Slots, ReceiveAck(r, s)
      PROVE  \A q \in Requesters : SameBusy(q) \/ GivesBack(q)
  <2>1. slot[r][s].phase # "free"
    <3>1. Ticket(r, s).slot = s
        BY Zenon DEF Ticket
    <3> QED BY SMTT(40), <1>7, <3>1 DEF ReceiveAck, Awaits
  <2>2. slot' = FreeSlot(r, s) /\ permits' = [permits EXCEPT ![r] = @ + 1]
      BY <1>7, Zenon DEF ReceiveAck
  <2> QED BY <1>0, <2>1, <2>2, FreedReturns, ZenonT(40)
<1> QED BY <1>1, <1>2, <1>3, <1>4, <1>5, <1>6, <1>7, ZenonT(40) DEF RequesterStep

\* The steps of the source leave the slots and permits of the requesters alone.
LEMMA SourceKeepsSlots ==
    ASSUME \/ \E m \in msgs : MessageStep(m)
           \/ \E j \in jobs : JobStep(j)
           \/ \E w \in Windows, s \in Slots : Expire(w, s)
           \/ Fence
    PROVE  slot' = slot /\ permits' = permits
<1>1. ASSUME NEW m \in msgs, MessageStep(m) PROVE UNCHANGED requesterVars
    BY <1>1, Zenon DEF MessageStep, RefuseReplica, ValidateReplica, HandleRelease
<1>2. ASSUME NEW j \in jobs, JobStep(j) PROVE UNCHANGED requesterVars
    BY <1>2, Zenon DEF JobStep, RefuseUnknownWindow, RefuseStaleTicket, FailStaging, Publish, AdmitTransfer,
                       CommitStaging, AbortStaging, LoseHandoff, RejectMaterialized
<1>3. ASSUME NEW w \in Windows, NEW s \in Slots, Expire(w, s) PROVE UNCHANGED requesterVars
    BY <1>3, Zenon DEF Expire
<1>4. CASE Fence
    BY <1>4, Zenon DEF Fence, requesterVars
<1> QED BY <1>1, <1>2, <1>3, <1>4, Zenon DEF requesterVars

-----------------------------------------------------------------------------
(* Tickets and the promise of SourceHold.                                  *)

\* What TicketsAreSingleUse says of one session and one step.
UsedOnce(old, new) ==
    /\ new.gen >= old.gen
    /\ new.st = "staging" /\ old.st # "staging" => new.gen > old.gen
    /\ new.st = "ready" /\ old.st # "ready" => old.st = "staging"

\* Every change of a session respects its generation.
LEMMA SessionsUsedOnce ==
    ASSUME TypeOK, SourceChange, NEW w \in Windows, NEW s \in Slots
    PROVE  UsedOnce(sess[w][s], sess'[w][s])
<1>0. sess[w][s].gen \in Nat
    BY Zenon, SessionTypes
<1>1. CASE sess'[w][s] = sess[w][s]
    BY SMTT(40), <1>0, <1>1 DEF UsedOnce
<1>2. ASSUME NEW tk \in Tickets, SessionChange(tk), sess'[w][s] # sess[w][s]
      PROVE  UsedOnce(sess[w][s], sess'[w][s])
  <2>1. <<w, s>> \in Places /\ <<w, s>>[1] = w /\ <<w, s>>[2] = s
      BY Zenon DEF Places
  <2>2. w = tk.win /\ s = tk.slot
      BY Zenon, <1>2, <2>1 DEF SessionChange
  <2>3. Booked(tk, sess[w][s], sess'[w][s])
      BY <1>2, <2>2, Zenon DEF SessionChange
  <2>4. sess'[w][s].gen \in Nat
    <3>1. sess'[w][s] \in Session
        BY Zenon, <1>2 DEF SessionChange
    <3> QED BY SMTT(40), <3>1 DEF Session
  <2> DEFINE old == sess[w][s]
             new == sess'[w][s]
  <2>5. old.gen \in Nat /\ new.gen \in Nat /\ Booked(tk, old, new)
      BY Zenon, <1>0, <2>3, <2>4
  <2> HIDE DEF old, new
  <2>6. UsedOnce(old, new)
      BY SMTT(40), <2>5 DEF Booked, Marks, Closes, Admits, Commits, Frees, UsedOnce
  <2> QED BY Zenon, <2>6 DEF old, new
<1> QED BY Zenon, <1>1, <1>2 DEF SourceChange

\* "A ticket is single use": generations never go back, a transfer starts only under a newer one, and
\* blocks are pinned only by committing the transfer of their own generation (reserve, commit_staging).
THEOREM SingleUse == Spec => TicketsAreSingleUse
<1>1. TransferInvariant /\ [Next]_vars =>
        [\A w \in Windows, s \in Slots :
            /\ sess'[w][s].gen >= sess[w][s].gen
            /\ sess'[w][s].st = "staging" /\ sess[w][s].st # "staging" => sess'[w][s].gen > sess[w][s].gen
            /\ sess'[w][s].st = "ready" /\ sess[w][s].st # "ready" => sess[w][s].st = "staging"]_vars
  <2> SUFFICES ASSUME TransferInvariant, Next
               PROVE  \A w \in Windows, s \in Slots : UsedOnce(sess[w][s], sess'[w][s])
      BY Zenon DEF UsedOnce
  <2>1. TypeOK /\ SourceChange
      BY NextChanges, Zenon DEF TransferInvariant
  <2> QED BY Zenon, <2>1, SessionsUsedOnce
<1>2. Spec => []TransferInvariant
    BY Zenon, InvariantHolds
<1> QED BY <1>1, <1>2, PTL DEF Spec, TicketsAreSingleUse

\* Held, spent and read tickets of given sessions and slots.
HeldAt(ses, gen) == ses.st = "ready" /\ ses.gen = gen
SpentAt(ses, gen) == gen < ses.gen \/ (gen = ses.gen /\ ses.st # "staging")
ReadsUnder(attempt, k) == attempt.phase \in Holding /\ attempt.win = k.win /\ attempt.gen = k.gen

\* Membership in the three sets of the refinement, before and after a step.
LEMMA Membership ==
    ASSUME NEW k \in Tickets
    PROVE  /\ k \in HeldTickets <=> HeldAt(sess[k.win][k.slot], k.gen)
           /\ k \in HeldTickets' <=> HeldAt(sess'[k.win][k.slot], k.gen)
           /\ k \in SpentTickets <=> SpentAt(sess[k.win][k.slot], k.gen)
           /\ k \in SpentTickets' <=> SpentAt(sess'[k.win][k.slot], k.gen)
           /\ k \in ReadingTickets <=> \E q \in Requesters : ReadsUnder(slot[q][k.slot], k)
           /\ k \in ReadingTickets' <=> \E q \in Requesters : ReadsUnder(slot'[q][k.slot], k)
<1>1. /\ k \in HeldTickets <=> HeldAt(sess[k.win][k.slot], k.gen)
      /\ k \in HeldTickets' <=> HeldAt(sess'[k.win][k.slot], k.gen)
    BY Zenon DEF HeldTickets, HeldAt, SessionOf
<1>2. /\ k \in SpentTickets <=> SpentAt(sess[k.win][k.slot], k.gen)
      /\ k \in SpentTickets' <=> SpentAt(sess'[k.win][k.slot], k.gen)
    BY Zenon DEF SpentTickets, SpentAt, SessionOf
<1>3. \A win, gen : k = [win |-> win, slot |-> k.slot, gen |-> gen] <=> win = k.win /\ gen = k.gen
    BY SMTT(40) DEF Tickets
<1>4. /\ k \in ReadingTickets <=> \E q \in Requesters : ReadsUnder(slot[q][k.slot], k)
      /\ k \in ReadingTickets' <=> \E q \in Requesters : ReadsUnder(slot'[q][k.slot], k)
    BY <1>3, Zenon DEF ReadingTickets, ReadsUnder, Ticket, Holding
<1> QED BY <1>1, <1>2, <1>4, Zenon

\* The three sets hold tickets only.
LEMMA TicketSets ==
    /\ HeldTickets \subseteq Tickets /\ SpentTickets \subseteq Tickets /\ ReadingTickets \subseteq Tickets
    /\ HeldTickets' \subseteq Tickets /\ SpentTickets' \subseteq Tickets /\ ReadingTickets' \subseteq Tickets
    BY Zenon DEF HeldTickets, SpentTickets, ReadingTickets

\* Steps of SourceHold, from membership.  Tickets may close without having been granted.
LEMMA HoldCloses ==
    ASSUME \A k \in Tickets : /\ k \in HeldTickets' <=> k \in HeldTickets
                              /\ k \in SpentTickets => k \in SpentTickets'
                              /\ k \in ReadingTickets' <=> k \in ReadingTickets
    PROVE  Hold!Next
<1>1. HeldTickets' = HeldTickets /\ ReadingTickets' = ReadingTickets /\ SpentTickets \subseteq SpentTickets'
    BY TicketSets, Zenon
<1>2. Hold!Close
    BY <1>1, TicketSets, ZenonT(40) DEF Hold!Close
<1> QED BY <1>2, Zenon DEF Hold!Next

\* A ticket is granted once.
LEMMA HoldGrants ==
    ASSUME NEW t \in Tickets, t \notin SpentTickets,
           \A k \in Tickets : /\ k \in HeldTickets' <=> k \in HeldTickets \/ k = t
                              /\ k \in SpentTickets' <=> k \in SpentTickets \/ k = t
                              /\ k \in ReadingTickets' <=> k \in ReadingTickets
    PROVE  Hold!Next
<1>1. HeldTickets' = HeldTickets \cup {t} /\ SpentTickets' = SpentTickets \cup {t} /\ ReadingTickets' = ReadingTickets
    BY TicketSets, Zenon
<1>2. Hold!Grant(t)
    BY <1>1, Zenon DEF Hold!Grant
<1> QED BY <1>2, Zenon DEF Hold!Next

\* A held ticket that nobody reads under is dropped.
LEMMA HoldDrops ==
    ASSUME NEW t \in Tickets, t \in HeldTickets, t \notin ReadingTickets,
           \A k \in Tickets : /\ k \in HeldTickets' <=> k \in HeldTickets /\ k # t
                              /\ k \in SpentTickets' <=> k \in SpentTickets
                              /\ k \in ReadingTickets' <=> k \in ReadingTickets
    PROVE  Hold!Next
<1>1. HeldTickets' = HeldTickets \ {t} /\ SpentTickets' = SpentTickets /\ ReadingTickets' = ReadingTickets
    BY TicketSets, Zenon
<1>2. Hold!Drop(t)
    BY <1>1, Zenon DEF Hold!Drop
<1> QED BY <1>2, Zenon DEF Hold!Next

\* A read begins under a held ticket.
LEMMA HoldBegins ==
    ASSUME NEW t \in Tickets, t \in HeldTickets, HeldTickets' = HeldTickets, SpentTickets' = SpentTickets,
           \A k \in Tickets : k \in ReadingTickets' <=> k \in ReadingTickets \/ k = t
    PROVE  Hold!Next
<1>1. ReadingTickets' = ReadingTickets \cup {t}
    BY TicketSets, Zenon
<1>2. Hold!Begin(t)
    BY <1>1, Zenon DEF Hold!Begin
<1> QED BY <1>2, Zenon DEF Hold!Next

\* A read ends.
LEMMA HoldEnds ==
    ASSUME NEW t \in Tickets, t \in ReadingTickets, HeldTickets' = HeldTickets, SpentTickets' = SpentTickets,
           \A k \in Tickets : k \in ReadingTickets' <=> k \in ReadingTickets /\ k # t
    PROVE  Hold!Next
<1>1. ReadingTickets' = ReadingTickets \ {t}
    BY TicketSets, Zenon
<1>2. Hold!End(t)
    BY <1>1, Zenon DEF Hold!End
<1> QED BY <1>2, Zenon DEF Hold!Next

\* A change of one session is a step of SourceHold.
LEMMA SessionPromise ==
    ASSUME TypeOK, NEW tk \in Tickets, SessionChange(tk), slot' = slot
    PROVE  Hold!Next
<1> DEFINE old == sess[tk.win][tk.slot]
           new == sess'[tk.win][tk.slot]
           Here(k) == k.win = tk.win /\ k.slot = tk.slot
<1>1. Booked(tk, old, new)
    BY Zenon DEF SessionChange
<1>2. old.gen \in Nat /\ new.gen \in Nat /\ tk.gen \in Nat /\ old.st \in SessionStates
  <2>1. tk.win \in Windows /\ tk.slot \in Slots /\ tk.gen \in Nat
      BY SMTT(40), SlotsAssumption DEF Tickets
  <2>2. new \in Session
      BY Zenon, <2>1 DEF SessionChange
  <2> QED BY SMTT(40), <2>1, <2>2, SessionTypes DEF Session
<1>3. \A k \in Tickets : k \in ReadingTickets' <=> k \in ReadingTickets
    BY Membership, Zenon
<1>4. \A k \in Tickets : ~Here(k) => /\ k \in HeldTickets' <=> k \in HeldTickets
                                     /\ k \in SpentTickets' <=> k \in SpentTickets
  <2> SUFFICES ASSUME NEW k \in Tickets, ~Here(k) PROVE sess'[k.win][k.slot] = sess[k.win][k.slot]
      BY Membership, Zenon
  <2>1. <<k.win, k.slot>> \in Places \ {<<tk.win, tk.slot>>}
      BY Zenon DEF Places, Tickets
  <2>2. <<k.win, k.slot>>[1] = k.win /\ <<k.win, k.slot>>[2] = k.slot
      OBVIOUS
  <2> QED BY Zenon, <2>1, <2>2 DEF SessionChange
<1>5. \A k \in Tickets : Here(k) => /\ k \in HeldTickets <=> HeldAt(old, k.gen)
                                    /\ k \in HeldTickets' <=> HeldAt(new, k.gen)
                                    /\ k \in SpentTickets <=> SpentAt(old, k.gen)
                                    /\ k \in SpentTickets' <=> SpentAt(new, k.gen)
    BY Membership, Zenon
<1>6. \A k \in Tickets : k.gen \in Nat /\ (Here(k) /\ k.gen = tk.gen <=> k = tk)
  <2> TAKE k \in Tickets
  <2>1. k.gen \in Nat
      BY SMTT(40), SlotsAssumption DEF Tickets
  <2>2. k = [win |-> k.win, slot |-> k.slot, gen |-> k.gen] /\ tk = [win |-> tk.win, slot |-> tk.slot, gen |-> tk.gen]
      BY Zenon DEF Tickets
  <2> QED BY Zenon, <2>1, <2>2
<1> HIDE DEF old, new, Here
<1>7. ASSUME \/ Marks(old, new) \/ Closes(old, new) \/ Admits(old, new)
             \/ Frees(old, new) /\ old.st # "ready"
      PROVE  Hold!Next
  <2>1. \A k \in Tickets : Here(k) => /\ HeldAt(old, k.gen) <=> HeldAt(new, k.gen)
                                      /\ SpentAt(old, k.gen) => SpentAt(new, k.gen)
      BY SMTT(40), <1>2, <1>6, <1>7 DEF Marks, Closes, Admits, Frees, HeldAt, SpentAt
  <2> QED BY <1>3, <1>4, <1>5, <2>1, HoldCloses, ZenonT(40)
<1>8. ASSUME Commits(old, new), old.gen = tk.gen
      PROVE  Hold!Next
  <2>1. \A k \in Tickets : Here(k) => /\ HeldAt(new, k.gen) <=> HeldAt(old, k.gen) \/ k.gen = tk.gen
                                      /\ SpentAt(new, k.gen) <=> SpentAt(old, k.gen) \/ k.gen = tk.gen
                                      /\ k.gen = tk.gen => ~SpentAt(old, k.gen)
      BY SMTT(40), <1>2, <1>6, <1>8 DEF Commits, HeldAt, SpentAt
  <2>2. tk \notin SpentTickets
      BY <1>5, <1>6, <2>1, Zenon
  <2>3. \A k \in Tickets : /\ k \in HeldTickets' <=> k \in HeldTickets \/ k = tk
                           /\ k \in SpentTickets' <=> k \in SpentTickets \/ k = tk
      BY <1>4, <1>5, <1>6, <2>1, Zenon
  <2> QED BY <1>3, <2>2, <2>3, HoldGrants, ZenonT(40)
<1>9. ASSUME Frees(old, new), old.st = "ready", old.gen = tk.gen, tk \notin ReadingTickets
      PROVE  Hold!Next
  <2>1. \A k \in Tickets : Here(k) => /\ HeldAt(new, k.gen) <=> HeldAt(old, k.gen) /\ k.gen # tk.gen
                                      /\ SpentAt(new, k.gen) <=> SpentAt(old, k.gen)
                                      /\ k.gen = tk.gen => HeldAt(old, k.gen)
      BY Zenon, <1>2, <1>6, <1>9 DEF Frees, HeldAt, SpentAt
  <2>2. tk \in HeldTickets
      BY <1>5, <1>6, <2>1, Zenon
  <2>3. \A k \in Tickets : /\ k \in HeldTickets' <=> k \in HeldTickets /\ k # tk
                           /\ k \in SpentTickets' <=> k \in SpentTickets
      BY <1>4, <1>5, <1>6, <2>1, ZenonT(40)
  <2> QED BY <1>3, <1>9, <2>2, <2>3, HoldDrops, ZenonT(40)
<1> QED BY <1>1, <1>7, <1>8, <1>9, ZenonT(40) DEF Booked

\* One slot moves; what it reads under decides what the promise sees.
SlotMove(r, s) ==
    /\ UNCHANGED sess
    /\ \A q \in Requesters, u \in Slots : ~(q = r /\ u = s) => slot'[q][u] = slot[q][u]

\* A move that leaves the sessions alone leaves the held and spent tickets alone.
LEMMA SessionsKept ==
    ASSUME UNCHANGED sess
    PROVE  HeldTickets' = HeldTickets /\ SpentTickets' = SpentTickets
<1>1. \A k \in Tickets : (k \in HeldTickets' <=> k \in HeldTickets) /\ (k \in SpentTickets' <=> k \in SpentTickets)
    BY Membership, Zenon
<1> QED BY <1>1, TicketSets, Zenon

\* What no slot's move touches is still read under.
LEMMA ReadElsewhere ==
    ASSUME NEW r \in Requesters, NEW s \in Slots, SlotMove(r, s), NEW k \in Tickets
    PROVE  /\ k.slot # s => (k \in ReadingTickets' <=> k \in ReadingTickets)
           /\ ReadsUnder(slot'[r][s], k) /\ k.slot = s => k \in ReadingTickets'
           /\ ReadsUnder(slot[r][s], k) /\ k.slot = s => k \in ReadingTickets
           /\ ~ReadsUnder(slot'[r][s], k) /\ k \in ReadingTickets' => k \in ReadingTickets
           /\ ~ReadsUnder(slot[r][s], k) /\ k \in ReadingTickets => k \in ReadingTickets'
<1>1. k.slot \in Slots
    BY Zenon DEF Tickets
<1> QED BY <1>1, Membership, Zenon DEF SlotMove

\* A slot that reads under the same ticket, or none, before and after.
LEMMA SamePromise ==
    ASSUME NEW r \in Requesters, NEW s \in Slots, SlotMove(r, s),
           \A k \in Tickets : ReadsUnder(slot'[r][s], k) <=> ReadsUnder(slot[r][s], k)
    PROVE  Hold!Next
<1>1. \A k \in Tickets : k \in ReadingTickets' <=> k \in ReadingTickets
    BY ReadElsewhere, Zenon
<1>2. HeldTickets' = HeldTickets /\ SpentTickets' = SpentTickets
    BY SessionsKept, Zenon DEF SlotMove
<1> QED BY <1>1, <1>2, HoldCloses, Zenon

\* Of a ticket in use there is one reader: its window has one owner.
LEMMA OneReader ==
    ASSUME TransferInvariant, NEW r \in Requesters, NEW s \in Slots, NEW q \in Requesters,
           NEW k \in Tickets, k.slot = s, ReadsUnder(slot[r][s], k), ReadsUnder(slot[q][s], k)
    PROVE  q = r
<1>1. k.win # NoWindow /\ slot[r][s].win = k.win /\ slot[q][s].win = k.win
    BY SMTT(40), WindowsAssumption DEF Tickets, Windows, NoWindow, ReadsUnder
<1>2. \A p \in Requesters, u \in Slots : slot[p][u].win # NoWindow => owner[slot[p][u].win] = p
    BY Zenon DEF TransferInvariant, WindowsOwned
<1>3. owner[slot[r][s].win] = r /\ owner[slot[q][s].win] = q
    BY Zenon, <1>1, <1>2
<1> QED BY Zenon, <1>1, <1>3

\* A slot that stops reading ends the read of its ticket.
LEMMA StopsReading ==
    ASSUME TransferInvariant, NEW r \in Requesters, NEW s \in Slots, SlotMove(r, s),
           slot[r][s].phase \in Holding, slot'[r][s].phase \notin Holding
    PROVE  Hold!Next
<1> DEFINE t == Ticket(r, s)
<1>1. t \in Tickets
  <2>1. slot[r][s].win # NoWindow /\ slot[r][s].phase # "free"
      BY Zenon DEF TransferInvariant, SlotShape, Holding
  <2> QED BY <2>1, OwnTicket, Zenon
<1>2. t.slot = s /\ t.win = slot[r][s].win /\ t.gen = slot[r][s].gen
    BY Zenon DEF Ticket
<1>3. \A k \in Tickets : k.slot = s /\ k.win = slot[r][s].win /\ k.gen = slot[r][s].gen <=> k = t
    BY SMTT(40) DEF Tickets, Ticket
<1> HIDE DEF t
<1>4. ReadsUnder(slot[r][s], t) /\ \A k : ~ReadsUnder(slot'[r][s], k)
    BY <1>2, Zenon DEF ReadsUnder
<1>5. t \in ReadingTickets
    BY <1>1, <1>2, <1>4, Membership, Zenon
<1>6. t \notin ReadingTickets'
  <2> SUFFICES ASSUME NEW q \in Requesters, ReadsUnder(slot'[q][s], t) PROVE FALSE
      BY <1>1, <1>2, Membership, Zenon
  <2>1. q # r
      BY <1>4, Zenon
  <2>2. ReadsUnder(slot[q][s], t)
      BY <2>1, Zenon DEF SlotMove
  <2> QED BY <1>1, <1>2, <1>4, <2>1, <2>2, OneReader, ZenonT(40)
<1>7. \A k \in Tickets : k # t => (k \in ReadingTickets' <=> k \in ReadingTickets)
  <2> SUFFICES ASSUME NEW k \in Tickets, k # t PROVE k \in ReadingTickets' <=> k \in ReadingTickets
      OBVIOUS
  <2>1. k.slot = s => ~ReadsUnder(slot[r][s], k)
      BY <1>3, Zenon DEF ReadsUnder
  <2> QED BY <1>4, <2>1, ReadElsewhere, Zenon
<1>8. HeldTickets' = HeldTickets /\ SpentTickets' = SpentTickets
    BY SessionsKept, Zenon DEF SlotMove
<1> QED BY <1>1, <1>5, <1>6, <1>7, <1>8, HoldEnds, ZenonT(40)

\* A slot that starts to hold a grant begins a read of a held ticket.
LEMMA StartsReading ==
    ASSUME TransferInvariant, NEW r \in Requesters, NEW s \in Slots, SlotMove(r, s),
           Ticket(r, s) \in Tickets, Ticket(r, s) \in HeldTickets, slot[r][s].phase \notin Holding,
           slot'[r][s].phase \in Holding, slot'[r][s].win = slot[r][s].win, slot'[r][s].gen = slot[r][s].gen
    PROVE  Hold!Next
<1> DEFINE t == Ticket(r, s)
<1>1. t \in Tickets /\ t \in HeldTickets
    OBVIOUS
<1>2. t.slot = s /\ t.win = slot[r][s].win /\ t.gen = slot[r][s].gen
    BY Zenon DEF Ticket
<1>3. \A k \in Tickets : k.slot = s /\ k.win = slot[r][s].win /\ k.gen = slot[r][s].gen <=> k = t
    BY SMTT(40) DEF Tickets, Ticket
<1> HIDE DEF t
<1>4. ReadsUnder(slot'[r][s], t) /\ \A k : ~ReadsUnder(slot[r][s], k)
    BY <1>2, Zenon DEF ReadsUnder
<1>5. t \in ReadingTickets'
    BY <1>1, <1>2, <1>4, ReadElsewhere, ZenonT(40)
<1>6. \A k \in Tickets : k # t => (k \in ReadingTickets' <=> k \in ReadingTickets)
  <2> SUFFICES ASSUME NEW k \in Tickets, k # t PROVE k \in ReadingTickets' <=> k \in ReadingTickets
      OBVIOUS
  <2>1. k.slot = s => ~ReadsUnder(slot'[r][s], k)
      BY <1>3, Zenon DEF ReadsUnder
  <2> QED BY <1>4, <2>1, ReadElsewhere, ZenonT(40)
<1>7. HeldTickets' = HeldTickets /\ SpentTickets' = SpentTickets
    BY SessionsKept, Zenon DEF SlotMove
<1> QED BY <1>1, <1>5, <1>6, <1>7, HoldBegins, ZenonT(40)

\* A step of a requester is a step of SourceHold: it begins or ends a read of its own ticket, or the
\* source's promise does not see it.
LEMMA RequesterPromise ==
    ASSUME TransferInvariant, NEW r \in Requesters, RequesterStep(r)
    PROVE  Hold!Next
<1>0. TypeOK /\ slot \in [Requesters -> [Slots -> Attempt]]
    BY Zenon DEF TransferInvariant, TypeOK
<1>1. UNCHANGED sess
  <2>1. CASE SetupWindow(r)
      BY <2>1, Zenon DEF SetupWindow, OpenWindow
  <2>2. CASE ForgetPeer(r) \/ Die(r)
      BY <2>2, Zenon DEF ForgetPeer, Die, sourceVars
  <2>3. CASE \E s \in Slots :
               \/ Reserve(r, s) \/ Authorize(r, s) \/ Abandon(r, s)
               \/ ReceiveGrant(r, s) \/ ReceiveRejection(r, s)
               \/ StartRead(r, s) \/ FinishRead(r, s)
               \/ SendRelease(r, s) \/ ReceiveAck(r, s)
      BY <2>3, Zenon DEF Reserve, Authorize, Abandon, ReceiveGrant, ReceiveRejection, StartRead, FinishRead,
                         SendRelease, ReceiveAck, sourceVars
  <2> QED BY <2>1, <2>2, <2>3, ZenonT(40) DEF RequesterStep
<1>a. ASSUME \A q \in Requesters, s \in Slots :
               \/ slot'[q][s] = slot[q][s]
               \/ slot'[q][s].phase \notin Holding /\ slot[q][s].phase \notin Holding
      PROVE  Hold!Next
  <2>1. \A q \in Requesters, s \in Slots, k \in Tickets : ReadsUnder(slot'[q][s], k) <=> ReadsUnder(slot[q][s], k)
      BY <1>a, Zenon DEF ReadsUnder
  <2>2. \A k \in Tickets : k.slot \in Slots
      BY Zenon DEF Tickets
  <2>3. \A k \in Tickets : k \in ReadingTickets' <=> k \in ReadingTickets
      BY <2>1, <2>2, Membership, ZenonT(40)
  <2> QED BY <1>1, <2>3, SessionsKept, HoldCloses, ZenonT(40)
<1>b. ASSUME NEW s \in Slots, NEW p \in Phases, slot' = SetSlot(r, s, p)
      PROVE  /\ SlotMove(r, s) /\ slot'[r][s].phase = p
             /\ slot'[r][s].win = slot[r][s].win /\ slot'[r][s].gen = slot[r][s].gen
             /\ \A q \in Requesters, u \in Slots : slot'[q][u] = slot[q][u] \/ (q = r /\ u = s)
    BY SMTT(40), <1>0, <1>1, <1>b, SetSlotFacts DEF SlotMove
<1>c. {"auth", "granted", "reading", "releasing", "leaked"} \subseteq Phases
    BY Zenon DEF Phases
<1>d. /\ "auth" \notin Holding /\ "setup" \notin Holding /\ "free" \notin Holding /\ "releasing" \notin Holding
      /\ {"granted", "reading", "leaked"} \subseteq Holding
    BY Zenon DEF Holding
<1>e. ASSUME NEW s \in Slots PROVE Ticket(r, s).slot = s
    BY Zenon DEF Ticket
<1>2. CASE SetupWindow(r)
  <2>1. CASE slot' = slot
      BY <1>a, <2>1, Zenon
  <2>2. CASE slot' = [slot EXCEPT ![r] = [s \in Slots |->
                        IF slot[r][s].phase = "setup" /\ slot[r][s].win = NoWindow
                        THEN [slot[r][s] EXCEPT !.win = nextWin] ELSE slot[r][s]]]
    <3>1. ASSUME NEW q \in Requesters, NEW s \in Slots
          PROVE  \/ slot'[q][s] = slot[q][s]
                 \/ slot'[q][s].phase \notin Holding /\ slot[q][s].phase \notin Holding
      <4>1. CASE q # r
          BY <1>0, <2>2, <4>1, ZenonT(40)
      <4>2. CASE q = r
        <5>1. slot'[q][s] = IF slot[r][s].phase = "setup" /\ slot[r][s].win = NoWindow
                            THEN [slot[r][s] EXCEPT !.win = nextWin] ELSE slot[r][s]
            BY <1>0, <2>2, <4>2, Zenon
        <5>2. slot[r][s] \in Attempt
            BY Zenon, <1>0
        <5>3. [slot[r][s] EXCEPT !.win = nextWin].phase = slot[r][s].phase
            BY <5>2, Zenon DEF Attempt
        <5> QED BY <1>d, <4>2, <5>1, <5>3, ZenonT(40)
      <4> QED BY Zenon, <4>1, <4>2
    <3> QED BY <1>a, <3>1, Zenon
  <2> QED BY <1>2, <2>1, <2>2, ZenonT(40) DEF SetupWindow
<1>3. CASE ForgetPeer(r)
  <2>1. /\ \A s \in Slots : slot[r][s].phase = "free"
        /\ slot' = [slot EXCEPT ![r] = [s \in Slots |-> NewSlot]]
      BY <1>3, Zenon DEF ForgetPeer
  <2>2. \A q \in Requesters, s \in Slots : slot'[q][s] = IF q = r THEN NewSlot ELSE slot[q][s]
      BY ZenonT(40), <1>0, <2>1
  <2>3. NewSlot.phase = "free"
      BY Zenon DEF NewSlot
  <2>4. \A q \in Requesters, u \in Slots :
           \/ slot'[q][u] = slot[q][u]
           \/ slot'[q][u].phase \notin Holding /\ slot[q][u].phase \notin Holding
      BY SMTT(40), <1>d, <2>1, <2>2, <2>3
  <2> QED BY <1>a, <2>4, Zenon
<1>4. CASE Die(r) \/ \E s \in Slots : SendRelease(r, s)
  <2>1. slot' = slot
      BY <1>4, Zenon DEF Die, SendRelease, requesterVars
  <2> QED BY <1>a, <2>1, Zenon
<1>5. ASSUME NEW s \in Slots, Reserve(r, s) PROVE Hold!Next
  <2> DEFINE new == [phase |-> "setup", gen |-> slot[r][s].gen + 1, win |-> window[r]]
  <2>1. slot' = [slot EXCEPT ![r][s] = new] /\ slot[r][s].phase = "free" /\ new.phase = "setup"
      BY <1>5, Zenon DEF Reserve
  <2> HIDE DEF new
  <2>2. \A q \in Requesters, u \in Slots : slot'[q][u] = IF q = r /\ u = s THEN new ELSE slot[q][u]
      BY <1>0, <2>1, ZenonT(40)
  <2>3. \A q \in Requesters, u \in Slots :
           \/ slot'[q][u] = slot[q][u]
           \/ slot'[q][u].phase \notin Holding /\ slot[q][u].phase \notin Holding
      BY SMTT(40), <1>d, <2>1, <2>2
  <2> QED BY <1>a, <2>3, Zenon
<1>6. ASSUME NEW s \in Slots, Authorize(r, s) PROVE Hold!Next
  <2>1. slot' = SetSlot(r, s, "auth") /\ slot[r][s].phase = "setup"
      BY <1>6, Zenon DEF Authorize
  <2> QED BY SMTT(40), <1>a, <1>b, <1>c, <1>d, <2>1
<1>7. ASSUME NEW s \in Slots, DropGuard(r, s), slot[r][s].phase # "free" PROVE Hold!Next
  <2>1. CASE slot[r][s].win = NoWindow
    <3>1. slot' = FreeSlot(r, s) /\ slot[r][s].phase \notin Holding
        BY <1>7, <2>1, ZenonT(40) DEF DropGuard, TransferInvariant, SlotShape, Holding
    <3>2. \A q \in Requesters, u \in Slots :
             slot'[q][u] = slot[q][u] \/ (q = r /\ u = s /\ slot'[q][u].phase = "free")
        BY SMTT(40), <1>0, <3>1, FreeSlotFacts
    <3> QED BY <1>a, <1>d, <3>1, <3>2, ZenonT(40)
  <2>2. CASE slot[r][s].win # NoWindow
    <3>1. slot' = SetSlot(r, s, "releasing")
        BY <1>7, <2>2, Zenon DEF DropGuard
    <3>2. /\ SlotMove(r, s) /\ slot'[r][s].phase = "releasing"
          /\ \A q \in Requesters, u \in Slots : slot'[q][u] = slot[q][u] \/ (q = r /\ u = s)
        BY ZenonT(40), <1>b, <1>c, <3>1
    <3>3. CASE slot[r][s].phase \in Holding
        BY <1>d, <3>2, <3>3, StopsReading, ZenonT(40)
    <3>4. CASE slot[r][s].phase \notin Holding
        BY <1>a, <1>d, <3>2, <3>4, ZenonT(40)
    <3> QED BY Zenon, <3>3, <3>4
  <2> QED BY Zenon, <2>1, <2>2
<1>8. ASSUME NEW s \in Slots, Abandon(r, s) \/ ReceiveRejection(r, s) PROVE Hold!Next
  <2>1. DropGuard(r, s)
      BY <1>8, Zenon DEF Abandon, ReceiveRejection
  <2>2. slot[r][s].phase # "free"
      BY SMTT(40), <1>8, <1>e DEF Abandon, ReceiveRejection, Awaits
  <2> QED BY <1>7, <2>1, <2>2, ZenonT(40)
<1>9. ASSUME NEW s \in Slots, ReceiveGrant(r, s) PROVE Hold!Next
  <2> DEFINE t == Ticket(r, s)
  <2>1. slot' = SetSlot(r, s, "granted") /\ slot[r][s].phase = "auth"
    <3>1. Awaits(r, t, "auth") /\ slot' = SetSlot(r, s, "granted")
        BY <1>9, Zenon DEF ReceiveGrant
    <3> QED BY SMTT(40), <1>e, <3>1 DEF Awaits
  <2>2. PICK m \in RepliesOf(r, s) : m.why = "ok"
      BY <1>9, Zenon DEF ReceiveGrant
  <2>3. m \in msgs /\ m.kind = "reply" /\ m.tk = t
      BY <2>2, Zenon DEF RepliesOf
  <2>4. Pinned(t)
      BY <2>2, <2>3, ZenonT(40) DEF TransferInvariant, GrantsAreReal
  <2>5. t \in Tickets
    <3>1. slot[r][s].win # NoWindow /\ slot[r][s].phase # "free"
        BY <2>1, Zenon DEF TransferInvariant, SlotShape
    <3> QED BY <3>1, OwnTicket, Zenon
  <2>6. t \in HeldTickets
      BY <2>4, <2>5, Zenon DEF HeldTickets, Pinned
  <2>7. /\ SlotMove(r, s) /\ slot'[r][s].phase = "granted"
        /\ slot'[r][s].win = slot[r][s].win /\ slot'[r][s].gen = slot[r][s].gen
      BY Zenon, <1>b, <1>c, <2>1
  <2> HIDE DEF Holding
  <2> QED BY ZenonT(40), <1>d, <2>1, <2>5, <2>6, <2>7, StartsReading
<1>10. ASSUME NEW s \in Slots, StartRead(r, s) \/ (FinishRead(r, s) /\ slot' = SetSlot(r, s, "leaked")) PROVE Hold!Next
  <2>1. PICK p \in Holding : p \in Phases /\ slot' = SetSlot(r, s, p)
      BY <1>10, <1>c, <1>d, Zenon DEF StartRead
  <2>2. slot[r][s].phase \in Holding
      BY <1>10, <1>d, Zenon DEF StartRead, FinishRead
  <2>3. /\ SlotMove(r, s) /\ slot'[r][s].phase = p
        /\ slot'[r][s].win = slot[r][s].win /\ slot'[r][s].gen = slot[r][s].gen
      BY Zenon, <1>b, <2>1
  <2>4. \A k \in Tickets : ReadsUnder(slot'[r][s], k) <=> ReadsUnder(slot[r][s], k)
      BY <2>1, <2>2, <2>3, Zenon DEF ReadsUnder
  <2> QED BY <2>3, <2>4, SamePromise, Zenon
<1>11. ASSUME NEW s \in Slots, FinishRead(r, s), slot' = SetSlot(r, s, "releasing") PROVE Hold!Next
  <2>1. slot[r][s].phase \in Holding
      BY <1>11, <1>d, Zenon DEF FinishRead
  <2>2. SlotMove(r, s) /\ slot'[r][s].phase = "releasing"
      BY ZenonT(40), <1>11, <1>b, <1>c
  <2> QED BY <1>d, <2>1, <2>2, StopsReading, ZenonT(40)
<1>12. ASSUME NEW s \in Slots, ReceiveAck(r, s) PROVE Hold!Next
  <2>1. slot' = FreeSlot(r, s) /\ slot[r][s].phase = "releasing"
    <3>1. Awaits(r, Ticket(r, s), "releasing") /\ slot' = FreeSlot(r, s)
        BY <1>12, Zenon DEF ReceiveAck
    <3> QED BY SMTT(40), <1>e, <3>1 DEF Awaits
  <2>2. \A q \in Requesters, u \in Slots :
           slot'[q][u] = slot[q][u] \/ (q = r /\ u = s /\ slot'[q][u].phase = "free")
      BY SMTT(40), <1>0, <2>1, FreeSlotFacts
  <2> QED BY <1>a, <1>d, <2>1, <2>2, ZenonT(40)
<1>13. ASSUME NEW s \in Slots, FinishRead(r, s) PROVE Hold!Next
    BY <1>10, <1>11, <1>13, Zenon DEF FinishRead
<1> QED BY <1>2, <1>3, <1>4, <1>5, <1>6, <1>8, <1>9, <1>10, <1>12, <1>13, ZenonT(40) DEF RequesterStep

\* The lock manager, its generations and the requesters' guards implement SourceHold: no ticket is
\* granted twice, and no pinned block is let go under a READ (TransferLockManager, TransferLockGuard).
THEOREM PromiseKept == Spec => HoldsPromise
<1>1. Init => Hold!Init
  <2> SUFFICES ASSUME Init PROVE Hold!Init
      OBVIOUS
  <2>1. \A w \in Windows, s \in Slots : sess[w][s].st = "none" /\ sess[w][s].gen = 0
      BY Zenon DEF Init, NewSession
  <2>2. \A q \in Requesters, s \in Slots : slot[q][s].phase = "free"
      BY Zenon DEF Init, NewSlot
  <2>3. \A k \in Tickets : k.win \in Windows /\ k.slot \in Slots /\ k.gen \in Nat /\ k.gen > 0
      BY SMTT(40), SlotsAssumption DEF Tickets
  <2>4. HeldTickets = {} /\ SpentTickets = {}
      BY SMTT(40), <2>1, <2>3 DEF HeldTickets, SpentTickets, SessionOf
  <2>5. ReadingTickets = {}
      BY Zenon, <2>2, <2>3 DEF ReadingTickets
  <2> QED BY <2>4, <2>5, Zenon DEF Hold!Init
<1>2. TransferInvariant /\ [Next]_vars => [Hold!Next]_<<HeldTickets, ReadingTickets, SpentTickets>>
  <2> SUFFICES ASSUME TransferInvariant, [Next]_vars
               PROVE  [Hold!Next]_<<HeldTickets, ReadingTickets, SpentTickets>>
      OBVIOUS
  <2>0. TypeOK
      BY Zenon DEF TransferInvariant
  <2>1. CASE UNCHANGED vars
      BY <2>1, Zenon DEF vars, requesterVars, sourceVars, HeldTickets, ReadingTickets, SpentTickets, SessionOf, Ticket
  <2>2. CASE \E r \in Requesters : RequesterStep(r)
      BY <2>2, RequesterPromise, Zenon
  <2>3. CASE Next /\ ~(\E r \in Requesters : RequesterStep(r))
    <3>1. slot' = slot
        BY <2>3, SourceKeepsSlots, Zenon DEF Next
    <3>2. CASE \E tk \in Tickets : SessionChange(tk)
        BY <2>0, <3>1, <3>2, SessionPromise, ZenonT(40)
    <3>3. CASE UNCHANGED <<sess, active, reserved>>
      <4>1. HeldTickets' = HeldTickets /\ SpentTickets' = SpentTickets
          BY <3>3, SessionsKept, Zenon
      <4>2. ReadingTickets' = ReadingTickets
          BY <3>1, ZenonT(40) DEF ReadingTickets, Ticket
      <4> QED BY Zenon, <4>1, <4>2
    <3> QED BY <2>3, <3>2, <3>3, NextChanges, ZenonT(40) DEF SourceChange
  <2> QED BY Zenon, <2>1, <2>2, <2>3
<1>3. Spec => []TransferInvariant
    BY Zenon, InvariantHolds
<1> QED BY <1>1, <1>2, <1>3, PTL DEF Spec, HoldsPromise, Hold!Spec

\* What the runs check as TicketsHold, for every number of requesters, windows, slots and generations.
THEOREM TicketsAlwaysHold == Spec => TicketsHold
    BY Zenon, SingleUse, PromiseKept DEF TicketsHold
=============================================================================
