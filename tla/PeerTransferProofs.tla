------------------------- MODULE PeerTransferProofs -------------------------
(***************************************************************************)
(* The inductive invariant of PeerTransfer and its proof: for any number   *)
(* of requesters, slots, windows and generations, the source keeps memory  *)
(* pinned exactly as long as some requester's ticket stands for it.        *)
(***************************************************************************)
EXTENDS PeerTransfer, TLAPS

\* No authorization of this ticket can pin anything any more.
Closed(tk) ==
    \/ ~IsOpen(tk.win)
    \/ tk.gen < SessionOf(tk).gen
    \/ tk.gen = SessionOf(tk).gen /\ SessionOf(tk).st \in {"none", "released"}

\* Phases in which the requester may read, and those before its first request.
Holding == {"granted", "reading", "leaked"}
Unasked == {"free", "setup"}

\* A free slot has no window; an attempt has a generation, and a window once it asked.
SlotShape ==
    \A r \in Requesters, s \in Slots :
        /\ slot[r][s].phase = "free" => slot[r][s].win = NoWindow
        /\ slot[r][s].phase # "free" => slot[r][s].gen > 0
        /\ slot[r][s].phase \notin {"free", "setup"} => slot[r][s].win # NoWindow

PhaseOf(r, tk) == slot[r][tk.slot].phase
Owns(r, tk) == owner[tk.win] = r

\* Windows are never shared or handed out twice.
WindowsOwned ==
    /\ \A w \in Windows : w >= nextWin => owner[w] = NoOwner
    /\ \A i \in DOMAIN order : order[i] < nextWin
    /\ \A r \in Requesters : window[r] # NoWindow => owner[window[r]] = r
    /\ \A r \in Requesters, s \in Slots :
         slot[r][s].win # NoWindow => owner[slot[r][s].win] = r
    /\ \A m \in msgs : Owns(m.r, m.tk)
    /\ \A j \in jobs : Owns(j.r, j.tk)

\* Generations run ahead of everything in flight for the windows in use.
Leads(r, tk) ==
    tk.win = window[r] \/ tk.win = slot[r][tk.slot].win => tk.gen <= slot[r][tk.slot].gen
GenerationsLead ==
    /\ \A m \in msgs : Leads(m.r, m.tk)
    /\ \A j \in jobs : Leads(j.r, j.tk)

\* Where the slot of a message or a job may be while it stands at its ticket.
PhasesAgree ==
    /\ \A m \in msgs :
         /\ m.kind = "authorize" /\ At(m.r, m.tk)
              => PhaseOf(m.r, m.tk) \in {"auth", "releasing"}
         /\ m.kind = "reply" => At(m.r, m.tk) /\ PhaseOf(m.r, m.tk) = "auth"
         /\ m.kind \in {"release", "ack"} /\ At(m.r, m.tk)
              => PhaseOf(m.r, m.tk) = "releasing"
    /\ \A j \in jobs : At(j.r, j.tk) => PhaseOf(j.r, j.tk) \in {"auth", "releasing"}

\* A ticket has one authorization: its request, then one job, then one outcome.
OneAuthorization ==
    /\ \A m \in msgs : m.kind = "authorize" => m.why = "ok"
    /\ \A m \in msgs, j \in jobs : m.kind \in {"authorize", "reply"} => m.tk # j.tk
    /\ \A m, n \in msgs : m.kind = "authorize" /\ n.kind = "reply" => m.tk # n.tk
    /\ \A j, k \in jobs : j.tk = k.tk => j = k
    /\ \A j \in jobs : j.stage = "aborting" => j.why # "ok"

\* A grant on its way to its requester stands for pinned memory.
Pinned(tk) == SessionOf(tk).st = "ready" /\ SessionOf(tk).gen = tk.gen
GrantsAreReal ==
    /\ \A m \in msgs : m.kind = "reply" /\ m.why = "ok" => Pinned(m.tk)
    /\ \A j \in jobs :
         j.stage = "prepared" /\ At(j.r, j.tk) /\ PhaseOf(j.r, j.tk) = "auth"
             => Pinned(j.tk)

\* An authorization its requester has moved past finds its ticket closed.
PassedIsClosed ==
    /\ \A m \in msgs : m.kind = "authorize" => At(m.r, m.tk) \/ Closed(m.tk)
    /\ \A j \in jobs : j.stage = "validated" => At(j.r, j.tk) \/ Closed(j.tk)
    /\ \A m \in msgs : m.kind = "ack" => Closed(m.tk)

\* Every message, job, slot and session of the protocol agrees on who may still pin and who
\* may still release: the invariant that makes the three safety properties inductive
\* (TransferLockManager with TransferCompletions).
TransferInvariant ==
    /\ TypeOK
    /\ SlotShape
    /\ WindowsOwned
    /\ GenerationsLead
    /\ PhasesAgree
    /\ OneAuthorization
    /\ GrantsAreReal
    /\ PassedIsClosed
    /\ SourceHeldWhileReading
    /\ NoOrphanedGrant
    /\ SessionWindowsStayOpen

-----------------------------------------------------------------------------
(* The recency order of the windows.                                       *)

\* Removing position i of the recency order shifts the later positions down by one.
LEMMA WithoutFacts ==
    ASSUME NEW S, NEW q \in Seq(S), NEW i \in DOMAIN q
    PROVE  /\ Without(q, i) \in Seq(S)
           /\ Len(Without(q, i)) = Len(q) - 1
           /\ \A k \in 1..(Len(q) - 1) : Without(q, i)[k] = IF k < i THEN q[k] ELSE q[k + 1]
<1>1. i \in 1..Len(q) /\ Len(q) \in Nat /\ Len(q) - 1 \in Nat
    OBVIOUS
<1>2. \A k \in 1..(Len(q) - 1) : (IF k < i THEN q[k] ELSE q[k + 1]) \in S
    BY SMTT(40), <1>1
<1>3. QED
    BY SMTT(40), <1>1, <1>2 DEF Without

\* Touching a window (to_back) neither opens nor closes any window.
LEMMA ToBackFacts ==
    ASSUME order \in Seq(Windows), NEW w \in Windows, IsOpen(w)
    PROVE  /\ ToBack(w) \in Seq(Windows)
           /\ \A x : (\E k \in DOMAIN ToBack(w) : ToBack(w)[k] = x) <=> IsOpen(x)
<1> DEFINE i == CHOOSE n \in DOMAIN order : order[n] = w
           q == Without(order, i)
<1>1. i \in DOMAIN order /\ order[i] = w
    BY Zenon DEF IsOpen
<1>2. /\ q \in Seq(Windows)
      /\ Len(q) = Len(order) - 1
      /\ \A k \in 1..(Len(order) - 1) : q[k] = IF k < i THEN order[k] ELSE order[k + 1]
    BY <1>1, WithoutFacts, Zenon
<1>a. ToBack(w) = Append(q, w)
    BY Zenon DEF ToBack
<1> HIDE DEF i, q
<1>3. /\ ToBack(w) \in Seq(Windows)
      /\ Len(ToBack(w)) = Len(order)
      /\ \A k \in 1..Len(order) : ToBack(w)[k] = IF k < Len(order) THEN q[k] ELSE w
    BY SMTT(40), <1>1, <1>2, <1>a
<1>4. \A k \in 1..Len(order) :
         ToBack(w)[k] = IF k < i THEN order[k] ELSE IF k < Len(order) THEN order[k + 1] ELSE w
    BY SMTT(40), <1>1, <1>2, <1>3
<1>5. ASSUME NEW x, NEW k \in DOMAIN ToBack(w), ToBack(w)[k] = x
      PROVE  IsOpen(x)
  <2>1. k \in 1..Len(order) /\ DOMAIN order = 1..Len(order) /\ Len(order) \in Nat
      BY SMTT(40), <1>3, <1>5
  <2>2. CASE k < i
      BY <1>1, <1>4, <1>5, <2>1, <2>2, Zenon DEF IsOpen
  <2>3. CASE k >= i /\ k < Len(order)
    <3>1. x = order[k + 1] /\ k + 1 \in DOMAIN order
        BY SMTT(40), <1>1, <1>4, <1>5, <2>1, <2>3
    <3>2. QED
        BY <3>1, Zenon DEF IsOpen
  <2>4. CASE k >= i /\ k = Len(order)
      BY SMTT(40), <1>1, <1>4, <1>5, <2>1, <2>4 DEF IsOpen
  <2>5. QED
      BY SMTT(40), <1>1, <2>1, <2>2, <2>3, <2>4
<1>6. ASSUME NEW x, IsOpen(x)
      PROVE  \E k \in DOMAIN ToBack(w) : ToBack(w)[k] = x
  <2>1. PICK n \in DOMAIN order : order[n] = x
      BY <1>6, Zenon DEF IsOpen
  <2>2. CASE n < i
      BY SMTT(40), <1>1, <1>3, <1>4, <2>1, <2>2
  <2>3. CASE n = i
    <3>1. ToBack(w)[Len(order)] = x /\ Len(order) \in DOMAIN ToBack(w)
        BY SMTT(40), <1>1, <1>3, <1>4, <2>1, <2>3
    <3>2. QED
        BY <3>1, Zenon
  <2>4. CASE n > i
    <3>1. ToBack(w)[n - 1] = x /\ n - 1 \in DOMAIN ToBack(w)
        BY SMTT(40), <1>1, <1>3, <1>4, <2>1, <2>4
    <3>2. QED
        BY <3>1, Zenon
  <2>5. QED
      BY SMTT(40), <1>1, <2>1, <2>2, <2>3, <2>4
<1>7. QED
    BY <1>3, <1>5, <1>6, Zenon

-----------------------------------------------------------------------------
(* Facts about the helpers, pointwise.                                     *)

\* The members of msgs and jobs carry tickets of requesters.
Typed ==
    /\ \A m \in msgs : /\ m \in Message /\ m.r \in Requesters /\ m.tk \in Tickets
                      /\ m.kind \in {"authorize", "reply", "release", "ack"}
    /\ \A j \in jobs : j \in Job /\ j.r \in Requesters /\ j.tk \in Tickets

\* TypeOK, for the members of msgs and jobs.
LEMMA TypedElements == TypeOK => Typed
    BY Zenon DEF TypeOK, Typed, Message, Job

\* SetSlot changes the phase of one slot.
LEMMA SetSlotFacts ==
    ASSUME TypeOK, NEW r \in Requesters, NEW s \in Slots, NEW p \in Phases
    PROVE  /\ SetSlot(r, s, p) \in [Requesters -> [Slots -> Attempt]]
           /\ \A q \in Requesters, u \in Slots :
                /\ SetSlot(r, s, p)[q][u].phase = IF q = r /\ u = s THEN p ELSE slot[q][u].phase
                /\ SetSlot(r, s, p)[q][u].gen = slot[q][u].gen
                /\ SetSlot(r, s, p)[q][u].win = slot[q][u].win
                /\ ~(q = r /\ u = s) => SetSlot(r, s, p)[q][u] = slot[q][u]
<1>1. slot \in [Requesters -> [Slots -> Attempt]]
    BY Zenon DEF TypeOK
<1>2. \A q \in Requesters, u \in Slots :
         SetSlot(r, s, p)[q][u] =
             IF q = r /\ u = s THEN [slot[r][s] EXCEPT !.phase = p] ELSE slot[q][u]
    BY <1>1, Zenon DEF SetSlot
<1>3. [slot[r][s] EXCEPT !.phase = p] \in Attempt
    BY SMTT(40), <1>1 DEF Attempt
<1>4. QED
    BY SMTT(40), <1>1, <1>2, <1>3 DEF Attempt, SetSlot

\* FreeSlot also forgets the window.
LEMMA FreeSlotFacts ==
    ASSUME TypeOK, NEW r \in Requesters, NEW s \in Slots
    PROVE  /\ FreeSlot(r, s) \in [Requesters -> [Slots -> Attempt]]
           /\ \A q \in Requesters, u \in Slots :
                /\ FreeSlot(r, s)[q][u].phase = IF q = r /\ u = s THEN "free" ELSE slot[q][u].phase
                /\ FreeSlot(r, s)[q][u].gen = slot[q][u].gen
                /\ FreeSlot(r, s)[q][u].win = IF q = r /\ u = s THEN NoWindow ELSE slot[q][u].win
                /\ ~(q = r /\ u = s) => FreeSlot(r, s)[q][u] = slot[q][u]
<1> DEFINE freed == [phase |-> "free", gen |-> slot[r][s].gen, win |-> NoWindow]
<1>1. slot \in [Requesters -> [Slots -> Attempt]]
    BY Zenon DEF TypeOK
<1>2. \A q \in Requesters, u \in Slots :
         FreeSlot(r, s)[q][u] = IF q = r /\ u = s THEN freed ELSE slot[q][u]
    BY <1>1, Zenon DEF FreeSlot
<1>3. freed \in Attempt
    BY <1>1, Zenon DEF Attempt, Phases
<1>4. QED
    BY SMTT(40), <1>1, <1>2, <1>3 DEF Attempt, FreeSlot

\* SetSession replaces one session.
LEMMA SetSessionFacts ==
    ASSUME TypeOK, NEW tk \in Tickets, NEW ses \in Session
    PROVE  /\ SetSession(tk, ses) \in [Windows -> [Slots -> Session]]
           /\ \A w \in Windows, s \in Slots :
                SetSession(tk, ses)[w][s] = IF w = tk.win /\ s = tk.slot THEN ses ELSE sess[w][s]
<1>1. sess \in [Windows -> [Slots -> Session]] /\ tk.win \in Windows /\ tk.slot \in Slots
    BY Zenon DEF TypeOK, Tickets
<1>2. \A w \in Windows, s \in Slots :
         SetSession(tk, ses)[w][s] = IF w = tk.win /\ s = tk.slot THEN ses ELSE sess[w][s]
    BY <1>1, Zenon DEF SetSession
<1>3. QED
    BY <1>1, <1>2, Zenon DEF SetSession

\* What a step that leaves the requesters' slots and windows alone cannot change.
LEMMA RequesterFrame ==
    ASSUME UNCHANGED <<slot, window>>, NEW r, NEW tk
    PROVE  /\ At(r, tk)' <=> At(r, tk)
           /\ PhaseOf(r, tk)' = PhaseOf(r, tk)
           /\ Leads(r, tk)' <=> Leads(r, tk)
    BY Zenon DEF At, PhaseOf, Leads

\* What a step that leaves the source's windows and sessions alone cannot change.
LEMMA SourceFrame ==
    ASSUME UNCHANGED <<order, sess>>, NEW tk
    PROVE  /\ Closed(tk)' <=> Closed(tk)
           /\ Pinned(tk)' <=> Pinned(tk)
    BY Zenon DEF Closed, Pinned, IsOpen, SessionOf

\* A ticket a slot stands at is that slot's ticket.
LEMMA TicketAt ==
    ASSUME NEW r, NEW tk \in Tickets, At(r, tk)
    PROVE  tk = Ticket(r, tk.slot)
    BY Zenon DEF At, Ticket, Tickets

\* Dropping a guard moves the slot on, without leaving its ticket.
LEMMA DropGuardFacts ==
    ASSUME TypeOK, NEW r \in Requesters, NEW s \in Slots, DropGuard(r, s)
    PROVE  /\ slot' \in [Requesters -> [Slots -> Attempt]]
           /\ permits' \in [Requesters -> Nat]
           /\ \A q \in Requesters, u \in Slots :
                /\ slot'[q][u].phase =
                      IF q = r /\ u = s THEN IF slot[q][u].win = NoWindow THEN "free" ELSE "releasing"
                                       ELSE slot[q][u].phase
                /\ slot'[q][u].gen = slot[q][u].gen
                /\ slot'[q][u].win = slot[q][u].win
                /\ ~(q = r /\ u = s) => slot'[q][u] = slot[q][u]
<1>1. CASE slot[r][s].win = NoWindow
  <2>1. slot' = FreeSlot(r, s) /\ permits' = [permits EXCEPT ![r] = @ + 1]
      BY <1>1, Zenon DEF DropGuard
  <2>2. permits' \in [Requesters -> Nat]
      BY SMTT(40), <2>1 DEF TypeOK
  <2>3. QED
      BY SMTT(40), <1>1, <2>1, <2>2, FreeSlotFacts
<1>2. CASE slot[r][s].win # NoWindow
  <2>1. slot' = SetSlot(r, s, "releasing") /\ permits' = permits
      BY <1>2, Zenon DEF DropGuard
  <2>2. permits' \in [Requesters -> Nat]
      BY <2>1, Zenon DEF TypeOK
  <2>3. "releasing" \in Phases
      BY Zenon DEF Phases
  <2>4. QED
      BY SMTT(40), <1>2, <2>1, <2>2, <2>3, SetSlotFacts
<1>3. QED
    BY <1>1, <1>2, Zenon

\* A ticket has at most one authorization request in flight.
LEMMA AuthorizeUnique ==
    ASSUME TransferInvariant, NEW m \in msgs, NEW n \in msgs,
           m.kind = "authorize", n.kind = "authorize", m.tk = n.tk
    PROVE  m = n
<1>1. m \in Message /\ n \in Message
    BY Zenon DEF TransferInvariant, TypeOK
<1>2. m.r = n.r
    BY Zenon DEF TransferInvariant, WindowsOwned, Owns
<1>3. m.why = n.why
    BY Zenon DEF TransferInvariant, OneAuthorization
<1>4. QED
    BY SMTT(40), <1>1, <1>2, <1>3 DEF Message

\* An answer goes only to a requester that still waits for it.
LEMMA ReplyFacts ==
    ASSUME TypeOK, NEW q \in Requesters, NEW tk \in Tickets, NEW why \in Reasons,
           NEW n \in ReplyTo(q, tk, why)
    PROVE  /\ n \in Message /\ n.kind = "reply" /\ n.r = q /\ n.tk = tk /\ n.why = why
           /\ At(q, tk) /\ PhaseOf(q, tk) = "auth" /\ Leads(q, tk)
<1>1. Awaits(q, tk, "auth") /\ n = Msg("reply", q, tk, why)
    BY Zenon DEF ReplyTo
<1>2. slot[q][tk.slot] = [phase |-> "auth", gen |-> tk.gen, win |-> tk.win]
    BY <1>1, Zenon DEF Awaits
<1>3. At(q, tk) /\ PhaseOf(q, tk) = "auth"
    BY SMTT(40), <1>2 DEF At, PhaseOf
<1>4. Leads(q, tk)
    BY SMTT(40), <1>2 DEF Leads, Tickets
<1>5. QED
    BY <1>1, <1>3, <1>4, Zenon DEF Msg, Message

\* So does an acknowledgement.
LEMMA AckFacts ==
    ASSUME TypeOK, NEW q \in Requesters, NEW tk \in Tickets, NEW n \in AckTo(q, tk)
    PROVE  /\ n \in Message /\ n.kind = "ack" /\ n.r = q /\ n.tk = tk
           /\ At(q, tk) /\ PhaseOf(q, tk) = "releasing" /\ Leads(q, tk)
<1>1. Awaits(q, tk, "releasing") /\ n = Msg("ack", q, tk, "ok")
    BY Zenon DEF AckTo
<1>2. slot[q][tk.slot] = [phase |-> "releasing", gen |-> tk.gen, win |-> tk.win]
    BY <1>1, Zenon DEF Awaits
<1>3. At(q, tk) /\ PhaseOf(q, tk) = "releasing"
    BY SMTT(40), <1>2 DEF At, PhaseOf
<1>4. Leads(q, tk)
    BY SMTT(40), <1>2 DEF Leads, Tickets
<1>5. QED
    BY <1>1, <1>3, <1>4, Zenon DEF Msg, Message, Reasons

\* The source step of opening a window: nothing but an idle window is closed.
LEMMA OpenWindowFacts ==
    ASSUME TypeOK, NEW r \in Requesters, OpenWindow(r), \A i \in DOMAIN order : order[i] < nextWin
    PROVE  /\ order' \in Seq(Windows)
           /\ \A i \in DOMAIN order' : order'[i] < nextWin + 1
           /\ \A x : x # nextWin /\ IsOpen(x)' => IsOpen(x)
           /\ \A x : IsOpen(x) => IsOpen(x)' \/ Evictable(x)
<1>1. order \in Seq(Windows) /\ nextWin \in Windows /\ Windows \subseteq Int
    BY SMTT(40) DEF TypeOK, OpenWindow, Windows
<1>a. DOMAIN order = 1..Len(order) /\ \A n \in 1..Len(order) : order[n] \in Windows
    BY SMTT(40), <1>1
<1>b. \A n \in DOMAIN order : order[n] \in Int /\ order[n] < nextWin
    BY <1>1, <1>a, Zenon
<1>2. CASE order' = Append(order, nextWin)
  <2>1. /\ order' \in Seq(Windows)
        /\ Len(order') = Len(order) + 1
        /\ \A k \in 1..(Len(order) + 1) : order'[k] = IF k <= Len(order) THEN order[k] ELSE nextWin
      BY SMTT(40), <1>1, <1>2
  <2>2. DOMAIN order = 1..Len(order) /\ DOMAIN order' = 1..(Len(order) + 1) /\ Len(order) \in Nat
      BY SMTT(40), <1>1, <2>1
  <2>3. ASSUME NEW i \in DOMAIN order' PROVE order'[i] < nextWin + 1
    <3>1. CASE i \in DOMAIN order
      <4>1. order'[i] = order[i] /\ order[i] < nextWin /\ order[i] \in Int /\ nextWin \in Int
          BY SMTT(40), <1>1, <1>b, <2>1, <2>2, <3>1
      <4>2. QED
          BY SMTT(40), <4>1
    <3>2. CASE i = Len(order) + 1
      <4>1. order'[i] = nextWin /\ nextWin \in Int
          BY SMTT(40), <1>1, <2>1, <2>2, <3>2
      <4>2. QED
          BY SMTT(40), <4>1
    <3>3. QED
        BY SMTT(40), <2>2, <2>3, <3>1, <3>2
  <2>4. QED
      BY SMTT(40), <1>1, <2>1, <2>2, <2>3 DEF IsOpen
<1>3. CASE \E i \in DOMAIN order : Evictable(order[i]) /\ order' = Append(Without(order, i), nextWin)
  <2>1. PICK i \in DOMAIN order : Evictable(order[i]) /\ order' = Append(Without(order, i), nextWin)
      BY <1>3, Zenon
  <2>2. /\ Without(order, i) \in Seq(Windows)
        /\ Len(Without(order, i)) = Len(order) - 1
        /\ \A k \in 1..(Len(order) - 1) :
             Without(order, i)[k] = IF k < i THEN order[k] ELSE order[k + 1]
      BY <1>1, WithoutFacts, ZenonT(40)
  <2>3. /\ order' \in Seq(Windows)
        /\ Len(order') = Len(order)
        /\ \A k \in 1..Len(order) :
             order'[k] = IF k = Len(order) THEN nextWin
                         ELSE IF k < i THEN order[k] ELSE order[k + 1]
      BY SMTT(40), <1>1, <2>1, <2>2
  <2>4. DOMAIN order = 1..Len(order) /\ DOMAIN order' = 1..Len(order) /\ Len(order) \in Nat
      BY SMTT(40), <1>1, <2>3
  <2>5. ASSUME NEW k \in DOMAIN order'
        PROVE  order'[k] = nextWin \/ \E n \in DOMAIN order : order[n] = order'[k]
    <3>1. CASE k < i
        BY <2>1, <2>3, <2>4, <3>1, Zenon
    <3>2. CASE k >= i /\ k < Len(order)
      <4>1. k + 1 \in DOMAIN order /\ order'[k] = order[k + 1]
          BY SMTT(40), <2>1, <2>3, <2>4, <3>2
      <4>2. QED
          BY <4>1, Zenon
    <3>3. CASE k = Len(order)
        BY <2>3, <2>4, <3>3, Zenon
    <3>a. k \in 1..Len(order) /\ i \in 1..Len(order) /\ Len(order) \in Nat
        BY <2>1, <2>4, <2>5, Zenon
    <3>4. k < i \/ (k >= i /\ k < Len(order)) \/ k = Len(order)
        BY SMTT(40), <3>a
    <3>5. QED
        BY <3>1, <3>2, <3>3, <3>4, Zenon
  <2>6. ASSUME NEW k \in DOMAIN order' PROVE order'[k] < nextWin + 1
    <3>1. nextWin \in Int
        BY <1>1, Zenon
    <3>2. CASE order'[k] = nextWin
        BY SMTT(40), <3>1, <3>2
    <3>3. CASE \E n \in DOMAIN order : order[n] = order'[k]
      <4>1. PICK n \in DOMAIN order : order[n] = order'[k]
          BY <3>3, Zenon
      <4>2. order[n] < nextWin /\ order[n] \in Int
          BY <1>b, Zenon
      <4>3. QED
          BY SMTT(40), <3>1, <4>1, <4>2
    <3>4. QED
        BY <2>5, <3>2, <3>3, Zenon
  <2>7. ASSUME NEW n \in DOMAIN order, n # i
        PROVE  \E k \in DOMAIN order' : order'[k] = order[n]
    <3>1. CASE n < i
        BY SMTT(40), <2>1, <2>3, <2>4, <3>1
    <3>2. CASE n > i
      <4>1. n - 1 \in DOMAIN order' /\ order'[n - 1] = order[n]
          BY SMTT(40), <2>1, <2>3, <2>4, <3>2
      <4>2. QED
          BY <4>1, Zenon
    <3>3. QED
        BY SMTT(40), <2>4, <2>7, <3>1, <3>2
  <2>8. \A x : IsOpen(x) => IsOpen(x)' \/ Evictable(x)
      BY <2>1, <2>7, Zenon DEF IsOpen
  <2>9. \A x : x # nextWin /\ IsOpen(x)' => IsOpen(x)
      BY <2>5, Zenon DEF IsOpen
  <2>10. QED
      BY <2>3, <2>6, <2>8, <2>9, Zenon
<1>4. QED
    BY <1>2, <1>3, Zenon DEF OpenWindow

\* Touching a window keeps the set of open windows.
LEMMA TouchFacts ==
    ASSUME TypeOK, NEW w \in Windows, IsOpen(w), order' = ToBack(w)
    PROVE  /\ order' \in Seq(Windows)
           /\ \A x : IsOpen(x)' <=> IsOpen(x)
<1>1. order \in Seq(Windows)
    BY Zenon DEF TypeOK
<1>2. QED
    BY <1>1, ToBackFacts, ZenonT(40) DEF IsOpen

\* What a step that closes at most ticket tk may do to the sessions.
RetiresOnly(tk) ==
    /\ sess' \in [Windows -> [Slots -> Session]]
    /\ \A w \in Windows, s \in Slots :
         /\ sess[w][s].gen <= sess'[w][s].gen
         /\ sess'[w][s].st # "none" => sess[w][s].st # "none"
         /\ sess'[w][s].st \in {"staging", "ready"}
              => sess'[w][s].st = sess[w][s].st /\ sess'[w][s].gen = sess[w][s].gen
         /\ sess[w][s].st \in {"none", "released"} => sess'[w][s].st \in {"none", "released"}
         /\ sess[w][s].st = "ready" /\ ~(w = tk.win /\ s = tk.slot /\ sess[w][s].gen = tk.gen)
              => sess'[w][s] = sess[w][s]

\* Rolling a transfer back retires its ticket only.
LEMMA RollbackFacts ==
    ASSUME TypeOK, NEW tk \in Tickets, NEW ready \in BOOLEAN, Rollback(tk, ready)
    PROVE  /\ RetiresOnly(tk)
           /\ active' \in Int /\ reserved' \in Int
           /\ ~ready => \A w \in Windows, s \in Slots : sess[w][s].st = "ready" => sess'[w][s] = sess[w][s]
<1>1. /\ sess \in [Windows -> [Slots -> Session]] /\ tk.win \in Windows /\ tk.slot \in Slots
      /\ active \in Int /\ reserved \in Int /\ SessionOf(tk) \in Session /\ SessionOf(tk).bytes \in Int
    BY SMTT(40) DEF TypeOK, Tickets, SessionOf, Session
<1>0. \A w \in Windows, s \in Slots : sess[w][s] \in Session /\ sess[w][s].gen \in Nat
    BY SMTT(40), <1>1 DEF Session
<1>2. CASE OwnsSession(tk, ready)
  <2> DEFINE ses == SessionOf(tk)
             new == Empty(ses)
  <2>1. sess' = SetSession(tk, new) /\ active' = active - 1 /\ reserved' = reserved - ses.bytes
      BY <1>2, Zenon DEF Rollback
  <2>2. new \in Session /\ new.st = "none" /\ new.gen = ses.gen
      BY <1>1, Zenon DEF Empty, Session, SessionStates
  <2>3. ses.gen = tk.gen /\ ses.st # "none" /\ (ses.st = "ready") = ready /\ ses.gen \in Nat
      BY <1>0, <1>1, <1>2, Zenon DEF OwnsSession, SessionOf
  <2>4. ses = sess[tk.win][tk.slot]
      BY Zenon DEF SessionOf
  <2> HIDE DEF ses, new
  <2>5. /\ sess' \in [Windows -> [Slots -> Session]]
        /\ \A w \in Windows, s \in Slots :
             sess'[w][s] = IF w = tk.win /\ s = tk.slot THEN new ELSE sess[w][s]
      BY SMTT(40), <2>1, <2>2, SetSessionFacts
  <2>6. RetiresOnly(tk)
      BY SMTT(40), <1>0, <1>1, <2>2, <2>3, <2>4, <2>5 DEF RetiresOnly
  <2>7. ~ready => \A w \in Windows, s \in Slots : sess[w][s].st = "ready" => sess'[w][s] = sess[w][s]
      BY <2>3, <2>4, <2>5, Zenon
  <2>8. active' \in Int /\ reserved' \in Int
      BY SMTT(40), <1>1, <2>1, <2>4 DEF SessionOf
  <2>9. QED
      BY <2>6, <2>7, <2>8, Zenon
<1>3. CASE ~OwnsSession(tk, ready)
  <2>1. UNCHANGED <<sess, active, reserved>>
      BY <1>3, Zenon DEF Rollback
  <2>2. QED
      BY SMTT(40), <1>0, <1>1, <2>1 DEF RetiresOnly
<1>4. QED
    BY <1>2, <1>3, Zenon

\* Releasing a ticket retires that ticket only, and an accepted release closes it.
LEMMA ReleaseFacts ==
    ASSUME TypeOK, NEW tk \in Tickets, Release(tk)
    PROVE  /\ RetiresOnly(tk)
           /\ order' \in Seq(Windows) /\ (\A x : IsOpen(x)' <=> IsOpen(x))
           /\ active' \in Int /\ reserved' \in Int /\ UNCHANGED <<nextWin, owner>>
           /\ ReleaseAccepted(tk) => Closed(tk)'
<1>1. /\ sess \in [Windows -> [Slots -> Session]] /\ tk.win \in Windows /\ tk.slot \in Slots
      /\ active \in Int /\ reserved \in Int /\ tk.gen \in 1..MaxGen /\ tk.gen \in Nat
    BY SMTT(40), SlotsAssumption DEF TypeOK, Tickets
<1>0. /\ \A w \in Windows, s \in Slots : sess[w][s] \in Session /\ sess[w][s].gen \in Nat
      /\ order \in Seq(Windows)
    BY SMTT(40), <1>1 DEF Session, TypeOK
<1>2. CASE ~IsOpen(tk.win)
  <2>1. UNCHANGED sourceVars
      BY <1>2, Zenon DEF Release
  <2>2. UNCHANGED order /\ UNCHANGED nextWin /\ UNCHANGED owner /\ UNCHANGED sess /\ UNCHANGED active /\ UNCHANGED reserved
      BY <2>1, Zenon DEF sourceVars
  <2>3. RetiresOnly(tk)
      BY SMTT(40), <1>0, <1>1, <2>2 DEF RetiresOnly
  <2>4. Closed(tk)'
      BY <1>2, <2>2, Zenon DEF Closed, IsOpen
  <2>5. QED
      BY <1>0, <1>1, <2>2, <2>3, <2>4, Zenon DEF IsOpen
<1>3. CASE IsOpen(tk.win)
  <2> DEFINE ses == SessionOf(tk)
             new == Released(ses, tk.gen)
  <2>1. /\ order' = ToBack(tk.win) /\ sess' = SetSession(tk, new) /\ UNCHANGED <<nextWin, owner>>
        /\ active' \in {active, active - 1} /\ reserved' \in {reserved, reserved - ses.bytes}
      BY <1>3, Zenon DEF Release
  <2>2. ses \in Session /\ ses.gen \in Nat /\ ses.bytes \in Int /\ ses.st \in SessionStates
      BY SMTT(40), <1>0, <1>1 DEF SessionOf, Session
  <2>3. /\ new \in Session
        /\ tk.gen < ses.gen \/ (tk.gen > ses.gen /\ ses.st # "none") => new = ses
        /\ tk.gen >= ses.gen /\ ses.st = "none" => new.gen = tk.gen /\ new.st = "none"
        /\ tk.gen = ses.gen /\ ses.st = "ready" => new.gen = tk.gen /\ new.st = "none"
        /\ tk.gen = ses.gen /\ ses.st \in {"staging", "released"} => new.gen = tk.gen /\ new.st = "released"
    <3>1. CASE tk.gen < ses.gen \/ (tk.gen > ses.gen /\ ses.st # "none")
      <4>1. new = ses
          BY SMTT(40), <1>1, <2>2, <3>1 DEF Released
      <4>2. QED
          BY SMTT(40), <1>1, <2>2, <3>1, <4>1
    <3>2. CASE tk.gen >= ses.gen /\ ses.st = "none"
      <4>1. new = [ses EXCEPT !.gen = tk.gen]
          BY SMTT(40), <1>1, <2>2, <3>2 DEF Released
      <4>2. new \in Session /\ new.gen = tk.gen /\ new.st = "none"
        <5>1. tk.gen \in 0..MaxGen
            BY SMTT(40), <1>1, SlotsAssumption
        <5>2. QED
            BY <2>2, <3>2, <4>1, <5>1, Zenon DEF Session
      <4>3. QED
          BY SMTT(40), <1>1, <2>2, <3>2, <4>2
    <3>3. CASE tk.gen = ses.gen /\ ses.st = "ready"
      <4>1. new = Empty(ses)
          BY SMTT(40), <1>1, <2>2, <3>3 DEF Released
      <4>2. Empty(ses) \in Session /\ Empty(ses).gen = ses.gen /\ Empty(ses).st = "none"
          BY <2>2, Zenon DEF Session, Empty, SessionStates
      <4>3. QED
          BY SMTT(40), <1>1, <2>2, <3>3, <4>1, <4>2
    <3>4. CASE tk.gen = ses.gen /\ ses.st \in {"staging", "released"}
      <4>1. new = [ses EXCEPT !.st = "released"]
          BY SMTT(40), <1>1, <2>2, <3>4 DEF Released
      <4>2. new \in Session /\ new.gen = tk.gen /\ new.st = "released"
          BY <1>1, <2>2, <3>4, <4>1, Zenon DEF Session, SessionStates
      <4>3. QED
          BY SMTT(40), <1>1, <2>2, <3>4, <4>2
    <3>5. QED
        BY SMTT(40), <1>1, <2>2, <3>1, <3>2, <3>3, <3>4 DEF SessionStates
  <2>4. ses = sess[tk.win][tk.slot]
      BY Zenon DEF SessionOf
  <2>a. ReleaseAccepted(tk) => ~(tk.gen > ses.gen /\ ses.st # "none")
      BY <1>3, Zenon DEF ReleaseAccepted
  <2> HIDE DEF ses, new
  <2>5. /\ sess' \in [Windows -> [Slots -> Session]]
        /\ \A w \in Windows, s \in Slots :
             sess'[w][s] = IF w = tk.win /\ s = tk.slot THEN new ELSE sess[w][s]
      BY SMTT(40), <2>1, <2>3, SetSessionFacts
  <2>b. /\ ses.gen <= new.gen
        /\ new.st # "none" => ses.st # "none"
        /\ new.st \in {"staging", "ready"} => new.st = ses.st /\ new.gen = ses.gen
        /\ ses.st \in {"none", "released"} => new.st \in {"none", "released"}
        /\ ses.st = "ready" /\ ses.gen # tk.gen => new = ses
      BY SMTT(40), <1>1, <2>2, <2>3 DEF SessionStates
  <2>6. RetiresOnly(tk)
      BY SMTT(40), <1>0, <1>1, <2>4, <2>5, <2>b DEF RetiresOnly
  <2>7. order' \in Seq(Windows) /\ \A x : IsOpen(x)' <=> IsOpen(x)
      BY <1>1, <1>3, <2>1, TouchFacts, Zenon
  <2>8. ReleaseAccepted(tk) => tk.gen < new.gen \/ (tk.gen = new.gen /\ new.st \in {"none", "released"})
      BY SMTT(40), <1>1, <2>2, <2>3, <2>a DEF SessionStates
  <2>9. SessionOf(tk)' = new
      BY <1>1, <2>5, Zenon DEF SessionOf
  <2>10. ReleaseAccepted(tk) => Closed(tk)'
      BY <2>8, <2>9, Zenon DEF Closed
  <2>11. active' \in Int /\ reserved' \in Int
      BY SMTT(40), <1>1, <2>1, <2>2
  <2>12. QED
      BY <2>1, <2>6, <2>7, <2>10, <2>11, Zenon
<1>4. QED
    BY <1>2, <1>3, Zenon

\* Retiring one ticket never reopens a closed one and unpins no other.
LEMMA RetireFacts ==
    ASSUME TypeOK, NEW tk \in Tickets, RetiresOnly(tk), \A x : IsOpen(x)' <=> IsOpen(x)
    PROVE  \A k \in Tickets : /\ Closed(k) => Closed(k)'
                              /\ Pinned(k) /\ k # tk => Pinned(k)'
<1> SUFFICES ASSUME NEW k \in Tickets
             PROVE  (Closed(k) => Closed(k)') /\ (Pinned(k) /\ k # tk => Pinned(k)')
    BY Zenon
<1>1. k.win \in Windows /\ k.slot \in Slots /\ k.gen \in Nat
    BY SMTT(40), SlotsAssumption DEF Tickets
<1>2. sess[k.win][k.slot].gen \in Nat /\ sess'[k.win][k.slot].gen \in Nat
    BY SMTT(40), <1>1 DEF TypeOK, RetiresOnly, Session
<1>0. /\ sess[k.win][k.slot].gen <= sess'[k.win][k.slot].gen
      /\ sess[k.win][k.slot].st \in {"none", "released"}
           => sess'[k.win][k.slot].st \in {"none", "released"}
    BY <1>1, Zenon DEF RetiresOnly
<1>3. Closed(k) => Closed(k)'
  <2>1. CASE ~IsOpen(k.win)
      BY <2>1, ZenonT(40) DEF Closed
  <2>2. CASE k.gen < sess[k.win][k.slot].gen
    <3>1. k.gen < sess'[k.win][k.slot].gen
        BY SMTT(40), <1>0, <1>1, <1>2, <2>2
    <3>2. QED
        BY <3>1, ZenonT(40) DEF Closed, SessionOf
  <2>3. CASE k.gen = sess[k.win][k.slot].gen /\ sess[k.win][k.slot].st \in {"none", "released"}
      BY SMTT(40), <1>0, <1>1, <1>2, <2>3 DEF Closed, SessionOf
  <2>4. QED
      BY <2>1, <2>2, <2>3, Zenon DEF Closed, SessionOf
<1>4. Pinned(k) /\ k # tk => Pinned(k)'
  <2>1. k # tk => ~(k.win = tk.win /\ k.slot = tk.slot /\ k.gen = tk.gen)
      BY SMTT(40) DEF Tickets
  <2>2. QED
      BY <1>1, <2>1, Zenon DEF Pinned, SessionOf, RetiresOnly
<1>5. QED
    BY <1>3, <1>4, Zenon

\* Death and the fence change nothing the invariant speaks of.
LEMMA QuietStep ==
    ASSUME TransferInvariant, dead' \subseteq Requesters, fenced' \in BOOLEAN,
           UNCHANGED <<slot, window, permits, order, nextWin, owner, sess, active, reserved, jobs, msgs>>
    PROVE  TransferInvariant'
<1>1. TypeOK'
    BY Zenon DEF TransferInvariant, TypeOK
<1>2. SlotShape' /\ WindowsOwned' /\ SourceHeldWhileReading' /\ SessionWindowsStayOpen'
    BY ZenonT(40) DEF TransferInvariant, SlotShape, WindowsOwned, Owns, SourceHeldWhileReading,
                SessionWindowsStayOpen, IsOpen
<1>3. NoOrphanedGrant'
    BY SMTT(40) DEF TransferInvariant, NoOrphanedGrant, OnTicket, At
<1>4. /\ \A r, tk : /\ At(r, tk)' <=> At(r, tk)
                    /\ PhaseOf(r, tk)' = PhaseOf(r, tk)
                    /\ Leads(r, tk)' <=> Leads(r, tk)
      /\ \A tk : (Closed(tk)' <=> Closed(tk)) /\ (Pinned(tk)' <=> Pinned(tk))
    BY RequesterFrame, SourceFrame, Zenon
<1>5. GenerationsLead' /\ PhasesAgree' /\ OneAuthorization' /\ GrantsAreReal' /\ PassedIsClosed'
    BY <1>4, Zenon DEF TransferInvariant, GenerationsLead, PhasesAgree, OneAuthorization,
                      GrantsAreReal, PassedIsClosed
<1>6. QED
    BY <1>1, <1>2, <1>3, <1>5, Zenon DEF TransferInvariant

\* Nothing new competes for a ticket when messages only disappear or end its transfer.
LEMMA FewerAuthorizations ==
    ASSUME TransferInvariant, jobs' = jobs, \A m \in msgs' : m \in msgs \/ m.kind \in {"release", "ack"}
    PROVE  OneAuthorization'
    BY Zenon DEF TransferInvariant, OneAuthorization

-----------------------------------------------------------------------------
(* The steps of the requesting hosts that move one slot of one requester   *)
(* on preserve TransferInvariant.  What such a move preserves is stated    *)
(* once, in terms of the slot it leaves behind.                            *)

\* Slot s of requester r moves on; the source does nothing.
Moves(r, s) ==
    /\ UNCHANGED <<order, nextWin, owner, sess, active, reserved, jobs, fenced>>
    /\ slot' \in [Requesters -> [Slots -> Attempt]]
    /\ window' \in [Requesters -> Windows \cup {NoWindow}]
    /\ permits' \in [Requesters -> Nat]
    /\ dead' \subseteq Requesters
    /\ msgs' \subseteq Message
    /\ \A q \in Requesters, u \in Slots : ~(q = r /\ u = s) => slot'[q][u] = slot[q][u]
    /\ \A q \in Requesters : window'[q] \in {window[q], NoWindow}

\* The slot may stay where it is, take the window of its peer, or lose its window.
LEMMA MovesShape ==
    ASSUME TransferInvariant, NEW r \in Requesters, NEW s \in Slots, Moves(r, s),
           slot'[r][s].phase = "free" => slot'[r][s].win = NoWindow,
           slot'[r][s].phase # "free" => slot'[r][s].gen > 0,
           slot'[r][s].phase \notin Unasked => slot'[r][s].win # NoWindow
    PROVE  TypeOK' /\ SlotShape' /\ SessionWindowsStayOpen'
<1>1. TypeOK'
    BY Zenon DEF Moves, TransferInvariant, TypeOK
<1>2. SlotShape'
  <2> SUFFICES ASSUME NEW q \in Requesters, NEW u \in Slots
               PROVE  /\ slot'[q][u].phase = "free" => slot'[q][u].win = NoWindow
                      /\ slot'[q][u].phase # "free" => slot'[q][u].gen > 0
                      /\ slot'[q][u].phase \notin {"free", "setup"} => slot'[q][u].win # NoWindow
      BY Zenon DEF SlotShape
  <2>1. CASE q = r /\ u = s
      BY <2>1, Zenon DEF Unasked
  <2>2. CASE ~(q = r /\ u = s)
      BY SMTT(40), <2>2 DEF Moves, TransferInvariant, SlotShape
  <2>3. QED
      BY <2>1, <2>2, Zenon
<1>3. SessionWindowsStayOpen'
    BY Zenon DEF Moves, TransferInvariant, SessionWindowsStayOpen, IsOpen
<1>4. QED
    BY <1>1, <1>2, <1>3, Zenon

\* Windows stay with their owners.
LEMMA MovesOwned ==
    ASSUME TransferInvariant, NEW r \in Requesters, NEW s \in Slots, Moves(r, s),
           slot'[r][s].win \in {slot[r][s].win, window[r], NoWindow},
           \A m \in msgs' : m \in msgs \/ (m.r = r /\ m.tk = Ticket(r, s) /\ m.tk \in Tickets)
    PROVE  WindowsOwned'
<1>1. UNCHANGED <<order, nextWin, owner, jobs>>
    BY Zenon DEF Moves
<1>2. \A q \in Requesters : window'[q] # NoWindow => owner'[window'[q]] = q
    BY <1>1, Zenon DEF Moves, TransferInvariant, WindowsOwned
<1>3. \A q \in Requesters, u \in Slots : slot'[q][u].win # NoWindow => owner'[slot'[q][u].win] = q
  <2> SUFFICES ASSUME NEW q \in Requesters, NEW u \in Slots, slot'[q][u].win # NoWindow
               PROVE  owner[slot'[q][u].win] = q
      BY <1>1, Zenon
  <2>1. CASE q = r /\ u = s
      BY <2>1, Zenon DEF TransferInvariant, WindowsOwned
  <2>2. CASE ~(q = r /\ u = s)
      BY SMTT(40), <2>2 DEF Moves, TransferInvariant, WindowsOwned
  <2>3. QED
      BY <2>1, <2>2, Zenon
<1>4. ASSUME NEW m \in msgs' PROVE Owns(m.r, m.tk)'
  <2>1. CASE m \in msgs
      BY <1>1, <2>1, Zenon DEF TransferInvariant, WindowsOwned, Owns
  <2>2. CASE m.r = r /\ m.tk = Ticket(r, s) /\ m.tk \in Tickets
    <3>1. m.tk.win = slot[r][s].win /\ m.tk.win # NoWindow
        BY SMTT(40), <2>2 DEF Ticket, Tickets, Windows, NoWindow
    <3>2. QED
        BY <1>1, <2>2, <3>1, Zenon DEF TransferInvariant, WindowsOwned, Owns
  <2>3. QED
      BY <2>1, <2>2, Zenon
<1>5. QED
    BY <1>1, <1>2, <1>3, <1>4, Zenon DEF TransferInvariant, WindowsOwned, Owns

\* What the slot holds stays pinned, and what is pinned stays owed.
LEMMA MovesGrants ==
    ASSUME TransferInvariant, NEW r \in Requesters, NEW s \in Slots, Moves(r, s),
           slot'[r][s].phase \in Holding =>
               /\ slot'[r][s].win \in Windows /\ sess[slot'[r][s].win][s].st = "ready"
               /\ sess[slot'[r][s].win][s].gen = slot'[r][s].gen,
           \A w \in Windows :
               /\ sess[w][s].st \in {"staging", "ready"} /\ slot[r][s].win = w
               /\ slot[r][s].gen = sess[w][s].gen /\ slot[r][s].phase \notin Unasked
               => /\ slot'[r][s].win = w /\ slot'[r][s].gen = slot[r][s].gen
                  /\ slot'[r][s].phase \notin Unasked
    PROVE  SourceHeldWhileReading' /\ NoOrphanedGrant'
<1>1. UNCHANGED <<order, nextWin, owner, sess>>
    BY Zenon DEF Moves
<1>2. SourceHeldWhileReading'
  <2> SUFFICES ASSUME NEW q \in Requesters, NEW u \in Slots, slot'[q][u].phase \in Holding
               PROVE  /\ slot'[q][u].win \in Windows
                      /\ sess[slot'[q][u].win][u].st = "ready"
                      /\ sess[slot'[q][u].win][u].gen = slot'[q][u].gen
      BY <1>1, ZenonT(40) DEF SourceHeldWhileReading, Holding
  <2>1. CASE q = r /\ u = s
      BY <2>1, Zenon
  <2>2. CASE ~(q = r /\ u = s)
    <3>1. slot'[q][u] = slot[q][u]
        BY <2>2, ZenonT(40) DEF Moves
    <3>2. QED
        BY <3>1, ZenonT(40) DEF Holding, TransferInvariant, SourceHeldWhileReading
  <2>3. QED
      BY <2>1, <2>2, Zenon
<1>3. NoOrphanedGrant'
  <2> SUFFICES ASSUME NEW w \in Windows, NEW u \in Slots, sess[w][u].st \in {"staging", "ready"}
               PROVE  /\ owner[w] \in Requesters
                      /\ slot'[owner[w]][u].win = w
                      /\ slot'[owner[w]][u].gen = sess[w][u].gen
                      /\ slot'[owner[w]][u].phase \notin Unasked
      BY SMTT(40), <1>1 DEF NoOrphanedGrant, OnTicket, At, Unasked
  <2>1. /\ owner[w] \in Requesters
        /\ slot[owner[w]][u].win = w
        /\ slot[owner[w]][u].gen = sess[w][u].gen
        /\ slot[owner[w]][u].phase \notin Unasked
      BY ZenonT(40) DEF TransferInvariant, NoOrphanedGrant, OnTicket, At, Unasked
  <2>2. CASE owner[w] = r /\ u = s
      BY <2>1, <2>2, Zenon
  <2>3. CASE ~(owner[w] = r /\ u = s)
      BY <2>1, <2>3, Zenon DEF Moves
  <2>4. QED
      BY <2>2, <2>3, Zenon
<1>4. QED
    BY <1>2, <1>3, Zenon

\* Tickets of other slots do not notice.
LEMMA MovesFrame ==
    ASSUME TransferInvariant, NEW r \in Requesters, NEW s \in Slots, Moves(r, s)
    PROVE  /\ \A q \in Requesters, tk \in Tickets : ~(q = r /\ tk.slot = s) =>
                /\ At(q, tk)' <=> At(q, tk)
                /\ PhaseOf(q, tk)' = PhaseOf(q, tk)
                /\ Leads(q, tk) => Leads(q, tk)'
           /\ \A tk : (Closed(tk)' <=> Closed(tk)) /\ (Pinned(tk)' <=> Pinned(tk))
<1>1. \A tk : (Closed(tk)' <=> Closed(tk)) /\ (Pinned(tk)' <=> Pinned(tk))
    BY SourceFrame, Zenon DEF Moves
<1>2. ASSUME NEW q \in Requesters, NEW tk \in Tickets, ~(q = r /\ tk.slot = s)
      PROVE  /\ At(q, tk)' <=> At(q, tk)
             /\ PhaseOf(q, tk)' = PhaseOf(q, tk)
             /\ Leads(q, tk) => Leads(q, tk)'
  <2>1. tk.slot \in Slots /\ tk.win \in Windows /\ tk.win # NoWindow
      BY SMTT(40) DEF Tickets, Windows, NoWindow
  <2>2. slot'[q][tk.slot] = slot[q][tk.slot] /\ window'[q] \in {window[q], NoWindow}
      BY <1>2, <2>1, Zenon DEF Moves
  <2>3. QED
      BY <2>1, <2>2, Zenon DEF At, PhaseOf, Leads
<1>3. QED
    BY <1>1, <1>2, Zenon

-----------------------------------------------------------------------------
(* Moves that keep the ticket of the slot.                                 *)

Stays(r, s, p) ==
    /\ Moves(r, s)
    /\ slot'[r][s].phase = p /\ slot'[r][s].gen = slot[r][s].gen /\ slot'[r][s].win = slot[r][s].win

\* Which messages and jobs a slot may have at its ticket in phase p.
Fits(r, s, p) ==
    /\ \A m \in msgs' : m.r = r /\ m.tk = Ticket(r, s) =>
         /\ m.kind = "authorize" => p \in {"auth", "releasing"}
         /\ m.kind = "reply" => p = "auth"
         /\ m.kind \in {"release", "ack"} => p = "releasing"
    /\ \A j \in jobs : j.r = r /\ j.tk = Ticket(r, s) =>
         p \in {"auth", "releasing"} /\ (p = "auth" => slot[r][s].phase = "auth")

\* Messages only disappear, except for one that carries the slot's own ticket.
Sends(r, s) ==
    \A m \in msgs' :
        \/ m \in msgs
        \/ m.r = r /\ m.tk = Ticket(r, s) /\ m.tk \in Tickets /\ m.kind \in {"authorize", "release"}

\* A slot that keeps its ticket keeps every message and job in step with it.
LEMMA StaysItems ==
    ASSUME TransferInvariant, NEW r \in Requesters, NEW s \in Slots, NEW p,
           Stays(r, s, p), Fits(r, s, p), Sends(r, s)
    PROVE  GenerationsLead' /\ PhasesAgree' /\ GrantsAreReal' /\ PassedIsClosed'
<1>1. Typed /\ Moves(r, s) /\ jobs' = jobs
    BY TypedElements, Zenon DEF TransferInvariant, Stays, Moves
<1>2. /\ \A q \in Requesters, tk \in Tickets : (At(q, tk)' <=> At(q, tk)) /\ (Leads(q, tk) => Leads(q, tk)')
      /\ \A q \in Requesters, tk \in Tickets :
           ~(q = r /\ tk.slot = s) => PhaseOf(q, tk)' = PhaseOf(q, tk)
      /\ \A tk \in Tickets : tk.slot = s => PhaseOf(r, tk)' = p
      /\ \A tk : (Closed(tk)' <=> Closed(tk)) /\ (Pinned(tk)' <=> Pinned(tk))
  <2>1. ASSUME NEW tk \in Tickets, tk.slot = s
        PROVE  (At(r, tk)' <=> At(r, tk)) /\ (Leads(r, tk) => Leads(r, tk)') /\ PhaseOf(r, tk)' = p
    <3>1. tk.win # NoWindow /\ window'[r] \in {window[r], NoWindow}
        BY SMTT(40), <1>1 DEF Tickets, Windows, NoWindow, Moves
    <3>2. QED
        BY <2>1, <3>1, Zenon DEF Stays, At, Leads, PhaseOf
  <2>2. QED
      BY <1>1, <2>1, MovesFrame, ZenonT(40)
<1>3. \A tk \in Tickets : tk.slot = s /\ At(r, tk) => tk = Ticket(r, s)
    BY TicketAt, Zenon
<1>4. ASSUME NEW m \in msgs'
      PROVE  /\ m.r \in Requesters /\ m.tk \in Tickets
             /\ Leads(m.r, m.tk)'
             /\ m \notin msgs => At(m.r, m.tk) /\ m.kind \in {"authorize", "release"}
             /\ m \in msgs \/ (m.r = r /\ m.tk = Ticket(r, s) /\ m.tk.slot = s)
  <2>1. CASE m \in msgs
      BY <1>1, <1>2, <2>1, Zenon DEF Typed, TransferInvariant, GenerationsLead
  <2>2. CASE m.r = r /\ m.tk = Ticket(r, s) /\ m.tk \in Tickets /\ m.kind \in {"authorize", "release"}
    <3>1. m.tk.slot = s /\ At(r, m.tk) /\ slot[r][s].gen \in Nat
        BY SMTT(40), <2>2 DEF Ticket, At, TransferInvariant, TypeOK, Attempt
    <3>2. Leads(r, m.tk)
        BY SMTT(40), <2>2, <3>1 DEF Leads, At
    <3>3. QED
        BY <1>2, <2>2, <3>1, <3>2, ZenonT(40)
  <2>3. QED
      BY <2>1, <2>2, Zenon DEF Sends
<1>5. GenerationsLead'
    BY <1>1, <1>2, <1>4, Zenon DEF TransferInvariant, GenerationsLead, Typed
<1>6. PhasesAgree'
  <2>1. ASSUME NEW m \in msgs'
        PROVE  /\ m.kind = "authorize" /\ At(m.r, m.tk)' => PhaseOf(m.r, m.tk)' \in {"auth", "releasing"}
               /\ m.kind = "reply" => At(m.r, m.tk)' /\ PhaseOf(m.r, m.tk)' = "auth"
               /\ m.kind \in {"release", "ack"} /\ At(m.r, m.tk)' => PhaseOf(m.r, m.tk)' = "releasing"
    <3>1. CASE m.r = r /\ m.tk.slot = s
      <4>1. m.kind = "reply" => At(m.r, m.tk)
          BY <1>4, Zenon DEF TransferInvariant, PhasesAgree
      <4>2. QED
          BY <1>2, <1>3, <1>4, <3>1, <4>1, Zenon DEF Fits
    <3>2. CASE ~(m.r = r /\ m.tk.slot = s)
        BY <1>2, <1>4, <3>2, Zenon DEF TransferInvariant, PhasesAgree
    <3>3. QED
        BY <3>1, <3>2, Zenon
  <2>2. ASSUME NEW j \in jobs, At(j.r, j.tk)' PROVE PhaseOf(j.r, j.tk)' \in {"auth", "releasing"}
    <3>1. j.r \in Requesters /\ j.tk \in Tickets
        BY <1>1, Zenon DEF Typed
    <3>2. CASE j.r = r /\ j.tk.slot = s
        BY <1>2, <1>3, <2>2, <3>1, <3>2, Zenon DEF Fits
    <3>3. CASE ~(j.r = r /\ j.tk.slot = s)
        BY <1>2, <2>2, <3>1, <3>3, Zenon DEF TransferInvariant, PhasesAgree
    <3>4. QED
        BY <3>2, <3>3, Zenon
  <2>3. QED
      BY <1>1, <2>1, <2>2, Zenon DEF PhasesAgree
<1>7. GrantsAreReal'
  <2>1. \A m \in msgs' : m.kind = "reply" /\ m.why = "ok" => Pinned(m.tk)'
      BY <1>2, <1>4, Zenon DEF TransferInvariant, GrantsAreReal
  <2>2. ASSUME NEW j \in jobs, j.stage = "prepared", At(j.r, j.tk)', PhaseOf(j.r, j.tk)' = "auth"
        PROVE  Pinned(j.tk)'
    <3>1. j.r \in Requesters /\ j.tk \in Tickets /\ At(j.r, j.tk)
        BY <1>1, <1>2, <2>2, Zenon DEF Typed
    <3>2. PhaseOf(j.r, j.tk) = "auth"
      <4>1. CASE j.r = r /\ j.tk.slot = s
        <5>1. p = "auth" /\ j.tk = Ticket(r, s)
            BY <1>2, <1>3, <2>2, <3>1, <4>1, Zenon
        <5>2. QED
            BY <4>1, <5>1, Zenon DEF Fits, PhaseOf
      <4>2. CASE ~(j.r = r /\ j.tk.slot = s)
          BY <1>2, <2>2, <3>1, <4>2, Zenon
      <4>3. QED
          BY <4>1, <4>2, Zenon
    <3>3. QED
        BY <1>2, <2>2, <3>1, <3>2, Zenon DEF TransferInvariant, GrantsAreReal
  <2>3. QED
      BY <1>1, <2>1, <2>2, Zenon DEF GrantsAreReal
<1>8. PassedIsClosed'
    BY <1>1, <1>2, <1>4, Zenon DEF TransferInvariant, PassedIsClosed, Typed
<1>9. QED
    BY <1>5, <1>6, <1>7, <1>8, Zenon

\* A slot that keeps its ticket keeps the invariant.
LEMMA StaysKeeps ==
    ASSUME TransferInvariant, NEW r \in Requesters, NEW s \in Slots, NEW p,
           Stays(r, s, p), Fits(r, s, p), Sends(r, s), OneAuthorization',
           \/ p = slot[r][s].phase
           \/ slot[r][s].win # NoWindow /\ slot[r][s].phase # "free" /\ p \notin Unasked
           \/ slot[r][s].win = NoWindow /\ p = "free",
           p \in Holding => Ticket(r, s) \in Tickets /\ Pinned(Ticket(r, s))
    PROVE  TransferInvariant'
<1>1. Moves(r, s) /\ slot'[r][s].phase = p /\ slot'[r][s].gen = slot[r][s].gen /\ slot'[r][s].win = slot[r][s].win
    BY Zenon DEF Stays
<1>2. TypeOK' /\ SlotShape' /\ SessionWindowsStayOpen'
  <2>1. /\ slot[r][s].phase = "free" => slot[r][s].win = NoWindow
        /\ slot[r][s].phase # "free" => slot[r][s].gen > 0
        /\ slot[r][s].phase \notin Unasked => slot[r][s].win # NoWindow
      BY Zenon DEF TransferInvariant, SlotShape, Unasked
  <2>2. QED
      BY <1>1, <2>1, MovesShape, Zenon DEF Unasked
<1>3. WindowsOwned'
    BY <1>1, MovesOwned, Zenon DEF Sends
<1>4. SourceHeldWhileReading' /\ NoOrphanedGrant'
  <2>1. p \in Holding => /\ slot'[r][s].win \in Windows /\ sess[slot'[r][s].win][s].st = "ready"
                         /\ sess[slot'[r][s].win][s].gen = slot'[r][s].gen
      BY <1>1, Zenon DEF Ticket, Tickets, Pinned, SessionOf
  <2>2. \A w \in Windows : w # NoWindow
      BY SMTT(40) DEF Windows, NoWindow
  <2>3. ASSUME NEW w \in Windows, slot[r][s].win = w, slot[r][s].phase \notin Unasked
        PROVE  slot'[r][s].phase \notin Unasked
      BY <1>1, <2>2, <2>3, Zenon
  <2>4. QED
      BY <1>1, <2>1, <2>3, MovesGrants, ZenonT(40)
<1>5. GenerationsLead' /\ PhasesAgree' /\ GrantsAreReal' /\ PassedIsClosed'
    BY StaysItems, Zenon
<1>6. QED
    BY <1>2, <1>3, <1>4, <1>5, Zenon DEF TransferInvariant

\* What the messages and jobs of a slot say about its phase.
LEMMA OwnItems ==
    ASSUME TransferInvariant, NEW r \in Requesters, NEW s \in Slots
    PROVE  /\ \A m \in msgs : m.r = r /\ m.tk = Ticket(r, s) =>
                /\ m.kind = "authorize" => slot[r][s].phase \in {"auth", "releasing"}
                /\ m.kind = "reply" => slot[r][s].phase = "auth"
                /\ m.kind \in {"release", "ack"} => slot[r][s].phase = "releasing"
           /\ \A j \in jobs : j.r = r /\ j.tk = Ticket(r, s) => slot[r][s].phase \in {"auth", "releasing"}
<1>1. At(r, Ticket(r, s)) /\ PhaseOf(r, Ticket(r, s)) = slot[r][s].phase
    BY Zenon DEF At, Ticket, PhaseOf
<1>2. QED
    BY <1>1, Zenon DEF TransferInvariant, PhasesAgree

\* An attempt with a window has a ticket, and its window is the requester's own.
LEMMA OwnTicket ==
    ASSUME TransferInvariant, NEW r \in Requesters, NEW s \in Slots,
           slot[r][s].win # NoWindow, slot[r][s].phase # "free"
    PROVE  Ticket(r, s) \in Tickets /\ owner[slot[r][s].win] = r
<1>1. slot[r][s] \in Attempt /\ slot[r][s].gen > 0
    BY Zenon DEF TransferInvariant, TypeOK, SlotShape
<1>2. slot[r][s].win \in Windows /\ slot[r][s].gen \in 1..MaxGen
    BY SMTT(40), <1>1, SlotsAssumption DEF Attempt
<1>3. QED
    BY <1>2, Zenon DEF Ticket, Tickets, TransferInvariant, WindowsOwned

\* SetSlot moves one slot and keeps its ticket.
LEMMA SetSlotStays ==
    ASSUME TransferInvariant, NEW r \in Requesters, NEW s \in Slots, NEW p \in Phases,
           slot' = SetSlot(r, s, p), msgs' \subseteq Message,
           UNCHANGED <<window, permits, dead, sourceVars, jobs, fenced>>
    PROVE  Stays(r, s, p)
<1>1. TypeOK /\ UNCHANGED <<order, nextWin, owner, sess, active, reserved>>
    BY Zenon DEF TransferInvariant, sourceVars
<1>2. QED
    BY SMTT(40), <1>1, SetSlotFacts DEF Stays, Moves, TypeOK

\* A dropped guard moves one slot and keeps its ticket.
LEMMA DropGuardStays ==
    ASSUME TransferInvariant, NEW r \in Requesters, NEW s \in Slots,
           DropGuard(r, s), msgs' \subseteq msgs, UNCHANGED <<dead, sourceVars, jobs, fenced>>,
           window' \in [Requesters -> Windows \cup {NoWindow}],
           \A q \in Requesters : window'[q] \in {window[q], NoWindow}
    PROVE  Stays(r, s, IF slot[r][s].win = NoWindow THEN "free" ELSE "releasing")
<1>1. TypeOK /\ UNCHANGED <<order, nextWin, owner, sess, active, reserved>>
    BY Zenon DEF TransferInvariant, sourceVars
<1>2. QED
    BY SMTT(40), <1>1, DropGuardFacts DEF Stays, Moves, TypeOK

-----------------------------------------------------------------------------
(* Moves that leave the ticket of the slot behind.                         *)

\* A slot may leave its ticket once no authorization of it can pin anything any more.
LEMMA LeavesItems ==
    ASSUME TransferInvariant, NEW r \in Requesters, NEW s \in Slots, Moves(r, s), msgs' \subseteq msgs,
           slot[r][s].phase # "auth",
           \A tk \in Tickets : tk.slot = s /\ Leads(r, tk) => ~At(r, tk)' /\ Leads(r, tk)',
           \A tk \in Tickets : tk.slot = s /\ At(r, tk) => Closed(tk)
    PROVE  GenerationsLead' /\ PhasesAgree' /\ OneAuthorization' /\ GrantsAreReal' /\ PassedIsClosed'
<1>1. Typed /\ jobs' = jobs
    BY TypedElements, Zenon DEF TransferInvariant, Moves
<1>2. /\ \A q \in Requesters, tk \in Tickets : ~(q = r /\ tk.slot = s) =>
           /\ At(q, tk)' <=> At(q, tk)
           /\ PhaseOf(q, tk)' = PhaseOf(q, tk)
           /\ Leads(q, tk) => Leads(q, tk)'
      /\ \A tk : (Closed(tk)' <=> Closed(tk)) /\ (Pinned(tk)' <=> Pinned(tk))
    BY MovesFrame, Zenon
<1>3. \A m \in msgs : m.kind = "reply" => ~(m.r = r /\ m.tk.slot = s)
    BY Zenon DEF TransferInvariant, PhasesAgree, PhaseOf
<1>4. GenerationsLead'
    BY <1>1, <1>2, Zenon DEF TransferInvariant, GenerationsLead, Typed
<1>5. PhasesAgree'
  <2>1. ASSUME NEW m \in msgs'
        PROVE  /\ m.kind = "authorize" /\ At(m.r, m.tk)' => PhaseOf(m.r, m.tk)' \in {"auth", "releasing"}
               /\ m.kind = "reply" => At(m.r, m.tk)' /\ PhaseOf(m.r, m.tk)' = "auth"
               /\ m.kind \in {"release", "ack"} /\ At(m.r, m.tk)' => PhaseOf(m.r, m.tk)' = "releasing"
    <3>1. m \in msgs /\ m.r \in Requesters /\ m.tk \in Tickets /\ Leads(m.r, m.tk)
        BY <1>1, Zenon DEF Typed, TransferInvariant, GenerationsLead
    <3>2. QED
        BY <1>2, <1>3, <3>1, Zenon DEF TransferInvariant, PhasesAgree
  <2>2. ASSUME NEW j \in jobs, At(j.r, j.tk)' PROVE PhaseOf(j.r, j.tk)' \in {"auth", "releasing"}
    <3>1. j.r \in Requesters /\ j.tk \in Tickets /\ Leads(j.r, j.tk)
        BY <1>1, Zenon DEF Typed, TransferInvariant, GenerationsLead
    <3>2. QED
        BY <1>2, <2>2, <3>1, Zenon DEF TransferInvariant, PhasesAgree
  <2>3. QED
      BY <1>1, <2>1, <2>2, Zenon DEF PhasesAgree
<1>6. OneAuthorization'
    BY <1>1, FewerAuthorizations, ZenonT(40)
<1>7. GrantsAreReal'
    BY ZenonT(40), <1>1, <1>2 DEF TransferInvariant, GrantsAreReal, GenerationsLead, Typed
<1>8. PassedIsClosed'
    BY <1>1, <1>2, Zenon DEF TransferInvariant, PassedIsClosed, Typed
<1>9. QED
    BY <1>4, <1>5, <1>6, <1>7, <1>8, Zenon

-----------------------------------------------------------------------------
(* The steps.                                                              *)

\* authorize_once keeps the invariant.
LEMMA AuthorizeStep ==
    ASSUME TransferInvariant, NEW r \in Requesters, NEW s \in Slots, Authorize(r, s)
    PROVE  TransferInvariant'
<1> DEFINE new == Msg("authorize", r, Ticket(r, s), "ok")
<1>1. /\ slot[r][s].phase = "setup" /\ slot[r][s].win # NoWindow /\ slot' = SetSlot(r, s, "auth")
      /\ msgs' = msgs \cup {new}
      /\ UNCHANGED <<window, permits, dead, sourceVars, jobs, fenced>>
    BY Zenon DEF Authorize
<1>2. Ticket(r, s) \in Tickets /\ owner[slot[r][s].win] = r
    BY <1>1, OwnTicket, Zenon
<1>3. /\ new \in Message /\ new.r = r /\ new.tk = Ticket(r, s) /\ new.kind = "authorize"
      /\ new.why = "ok"
    BY <1>2, Zenon DEF Msg, Message, Reasons
<1> HIDE DEF new
<1>4. Stays(r, s, "auth")
  <2>1. msgs' \subseteq Message /\ "auth" \in Phases
      BY <1>1, <1>3, Zenon DEF TransferInvariant, TypeOK, Phases
  <2>2. QED
      BY <1>1, <2>1, SetSlotStays, Zenon
<1>5. /\ \A m \in msgs : m.kind \in {"authorize", "reply"} => m.tk # Ticket(r, s)
      /\ \A j \in jobs : j.tk # Ticket(r, s)
  <2>1. Ticket(r, s).win = slot[r][s].win
      BY Zenon DEF Ticket
  <2>2. \A m \in msgs : m.tk = Ticket(r, s) => m.r = r
      BY <1>2, <2>1, Zenon DEF TransferInvariant, WindowsOwned, Owns
  <2>3. \A j \in jobs : j.tk = Ticket(r, s) => j.r = r
      BY <1>2, <2>1, ZenonT(40) DEF TransferInvariant, WindowsOwned, Owns
  <2>4. QED
      BY <1>1, <2>2, <2>3, OwnItems, Zenon
<1>6. OneAuthorization'
    BY SMTT(40), <1>1, <1>3, <1>5 DEF TransferInvariant, OneAuthorization
<1>7. Fits(r, s, "auth") /\ Sends(r, s)
    BY <1>1, <1>2, <1>3, <1>5, OwnItems, Zenon DEF Fits, Sends
<1>8. QED
    BY <1>1, <1>4, <1>6, <1>7, StaysKeeps, Zenon DEF Holding, Unasked

\* A timeout or a cancelled caller (Drop of TransferLockGuard) keeps the invariant.
LEMMA AbandonStep ==
    ASSUME TransferInvariant, NEW r \in Requesters, NEW s \in Slots, Abandon(r, s)
    PROVE  TransferInvariant'
<1> DEFINE p == IF slot[r][s].win = NoWindow THEN "free" ELSE "releasing"
<1>1. /\ slot[r][s].phase # "free" /\ DropGuard(r, s) /\ msgs' = msgs \ RepliesOf(r, s)
      /\ UNCHANGED <<window, dead, sourceVars, jobs, fenced>>
    BY Zenon DEF Abandon
<1>2. Stays(r, s, p)
    BY <1>1, DropGuardStays, Zenon DEF TransferInvariant, TypeOK
<1>3. Fits(r, s, p)
  <2>1. CASE slot[r][s].win = NoWindow
    <3>1. Ticket(r, s) \notin Tickets
        BY SMTT(40), <2>1 DEF Ticket, Tickets, Windows, NoWindow
    <3>2. (\A m \in msgs' : m.tk \in Tickets) /\ \A j \in jobs : j.tk \in Tickets
        BY <1>1, TypedElements, Zenon DEF TransferInvariant, Typed
    <3>3. QED
        BY <3>1, <3>2, Zenon DEF Fits
  <2>2. CASE slot[r][s].win # NoWindow
    <3>1. \A m \in msgs' : m.r = r /\ m.tk = Ticket(r, s) => m.kind # "reply"
        BY <1>1, Zenon DEF RepliesOf
    <3>2. QED
        BY <2>2, <3>1, Zenon DEF Fits
  <2>3. QED
      BY <2>1, <2>2, Zenon
<1>4. OneAuthorization' /\ Sends(r, s)
    BY <1>1, FewerAuthorizations, Zenon DEF Sends
<1>5. QED
    BY <1>1, <1>2, <1>3, <1>4, StaysKeeps, Zenon DEF Holding, Unasked

\* A granted reply keeps the invariant: it stands for pinned memory.
LEMMA ReceiveGrantStep ==
    ASSUME TransferInvariant, NEW r \in Requesters, NEW s \in Slots, ReceiveGrant(r, s)
    PROVE  TransferInvariant'
<1>1. /\ slot' = SetSlot(r, s, "granted") /\ msgs' = msgs \ RepliesOf(r, s)
      /\ UNCHANGED <<window, permits, dead, sourceVars, jobs, fenced>>
    BY Zenon DEF ReceiveGrant
<1>2. PICK m \in msgs : m.kind = "reply" /\ m.why = "ok" /\ m.r = r /\ m.tk = Ticket(r, s)
    BY ZenonT(40) DEF ReceiveGrant, RepliesOf
<1>3. slot[r][s].phase = "auth" /\ slot[r][s].win # NoWindow
    BY SMTT(40), <1>2, OwnItems DEF TransferInvariant, SlotShape
<1>4. Stays(r, s, "granted")
  <2>1. msgs' \subseteq Message /\ "granted" \in Phases
      BY <1>1, Zenon DEF TransferInvariant, TypeOK, Phases
  <2>2. QED
      BY <1>1, <2>1, SetSlotStays, Zenon
<1>5. /\ \A n \in msgs : n.kind = "authorize" => n.tk # Ticket(r, s)
      /\ \A j \in jobs : j.tk # Ticket(r, s)
    BY <1>2, Zenon DEF TransferInvariant, OneAuthorization
<1>6. Fits(r, s, "granted")
    BY <1>1, <1>3, <1>5, OwnItems, Zenon DEF Fits, RepliesOf
<1>7. OneAuthorization' /\ Sends(r, s)
    BY <1>1, FewerAuthorizations, Zenon DEF Sends
<1>8. Ticket(r, s) \in Tickets /\ Pinned(Ticket(r, s))
    BY <1>2, <1>3, OwnTicket, Zenon DEF TransferInvariant, GrantsAreReal
<1>9. QED
    BY <1>3, <1>4, <1>6, <1>7, <1>8, StaysKeeps, Zenon DEF Unasked

\* A rejection, which may retire the cached window, keeps the invariant.
LEMMA ReceiveRejectionStep ==
    ASSUME TransferInvariant, NEW r \in Requesters, NEW s \in Slots, ReceiveRejection(r, s)
    PROVE  TransferInvariant'
<1>1. /\ DropGuard(r, s) /\ msgs' = msgs \ RepliesOf(r, s) /\ UNCHANGED <<dead, sourceVars, jobs, fenced>>
      /\ window' = window \/ window' = [window EXCEPT ![r] = NoWindow]
    BY ZenonT(40) DEF ReceiveRejection
<1>2. slot[r][s].phase = "auth" /\ slot[r][s].win # NoWindow
  <2>1. \E m \in msgs : m.kind = "reply" /\ m.r = r /\ m.tk = Ticket(r, s)
      BY Zenon DEF ReceiveRejection, RepliesOf
  <2>2. QED
      BY SMTT(40), <2>1, OwnItems DEF TransferInvariant, SlotShape
<1>3. Stays(r, s, "releasing")
  <2>1. /\ window' \in [Requesters -> Windows \cup {NoWindow}]
        /\ \A q \in Requesters : window'[q] \in {window[q], NoWindow}
      BY <1>1, Zenon DEF TransferInvariant, TypeOK
  <2>2. QED
      BY <1>1, <1>2, <2>1, DropGuardStays, Zenon
<1>4. Fits(r, s, "releasing")
    BY <1>1, Zenon DEF Fits, RepliesOf
<1>5. OneAuthorization' /\ Sends(r, s)
    BY <1>1, FewerAuthorizations, Zenon DEF Sends
<1>6. QED
    BY <1>2, <1>3, <1>4, <1>5, StaysKeeps, Zenon DEF Holding, Unasked

\* A slot that holds a grant has no message or job at its ticket.
LEMMA HeldSlot ==
    ASSUME TransferInvariant, NEW r \in Requesters, NEW s \in Slots, NEW p \in Phases,
           slot[r][s].phase \in {"granted", "reading"}, p \notin Unasked,
           slot' = SetSlot(r, s, p), UNCHANGED <<window, permits, dead, sourceVars, jobs, fenced, msgs>>
    PROVE  TransferInvariant'
<1>1. slot[r][s].win # NoWindow /\ slot[r][s].phase # "free"
    BY Zenon DEF TransferInvariant, SlotShape
<1>2. Stays(r, s, p)
    BY SetSlotStays, Zenon DEF TransferInvariant, TypeOK
<1>3. Fits(r, s, p)
    BY SMTT(40), OwnItems, TypedElements DEF Fits, TransferInvariant, TypeOK, Message
<1>4. OneAuthorization' /\ Sends(r, s)
    BY FewerAuthorizations, Zenon DEF Sends
<1>5. Ticket(r, s) \in Tickets /\ Pinned(Ticket(r, s))
  <2>1. sess[slot[r][s].win][s].st = "ready" /\ sess[slot[r][s].win][s].gen = slot[r][s].gen
      BY Zenon DEF TransferInvariant, SourceHeldWhileReading
  <2>2. QED
      BY <1>1, <2>1, OwnTicket, Zenon DEF Pinned, SessionOf, Ticket
<1>6. \/ p = slot[r][s].phase
      \/ slot[r][s].win # NoWindow /\ slot[r][s].phase # "free" /\ p \notin Unasked
      \/ slot[r][s].win = NoWindow /\ p = "free"
    BY <1>1, Zenon
<1>7. QED
    BY <1>2, <1>3, <1>4, <1>5, <1>6, StaysKeeps, Zenon

\* Starting the native READ keeps the invariant.
LEMMA StartReadStep ==
    ASSUME TransferInvariant, NEW r \in Requesters, NEW s \in Slots, StartRead(r, s)
    PROVE  TransferInvariant'
    BY HeldSlot, Zenon DEF StartRead, Phases, Unasked

\* A READ that ended, or never quiesced, keeps the invariant.
LEMMA FinishReadStep ==
    ASSUME TransferInvariant, NEW r \in Requesters, NEW s \in Slots, FinishRead(r, s)
    PROVE  TransferInvariant'
    BY HeldSlot, Zenon DEF FinishRead, Phases, Unasked

\* Another release request keeps the invariant.
LEMMA SendReleaseStep ==
    ASSUME TransferInvariant, NEW r \in Requesters, NEW s \in Slots, SendRelease(r, s)
    PROVE  TransferInvariant'
<1> DEFINE new == Msg("release", r, Ticket(r, s), "ok")
<1>1. /\ slot[r][s].phase = "releasing" /\ msgs' = msgs \cup {new}
      /\ UNCHANGED <<slot, window, permits, dead, sourceVars, jobs, fenced>>
    BY Zenon DEF SendRelease, requesterVars
<1>2. Ticket(r, s) \in Tickets
    BY <1>1, OwnTicket, Zenon DEF TransferInvariant, SlotShape
<1>3. new \in Message /\ new.r = r /\ new.tk = Ticket(r, s) /\ new.kind = "release"
    BY <1>2, Zenon DEF Msg, Message, Reasons
<1> HIDE DEF new
<1>4. Stays(r, s, "releasing")
  <2>1. msgs' \subseteq Message
      BY <1>1, <1>3, Zenon DEF TransferInvariant, TypeOK
  <2>2. QED
      BY <1>1, <2>1, Zenon DEF Stays, Moves, TransferInvariant, TypeOK, sourceVars
<1>5. Fits(r, s, "releasing") /\ Sends(r, s)
    BY <1>1, <1>2, <1>3, OwnItems, Zenon DEF Fits, Sends
<1>6. OneAuthorization'
    BY <1>1, <1>3, FewerAuthorizations, Zenon
<1>7. QED
    BY <1>1, <1>4, <1>5, <1>6, StaysKeeps, Zenon DEF Holding

\* The death of a requester keeps the invariant.
LEMMA DieStep ==
    ASSUME TransferInvariant, NEW r \in Requesters, Die(r)
    PROVE  TransferInvariant'
    BY QuietStep, Zenon DEF Die, requesterVars, sourceVars, TransferInvariant, TypeOK

\* An acknowledged release keeps the invariant: the ticket was closed before the ack was sent.
LEMMA ReceiveAckStep ==
    ASSUME TransferInvariant, NEW r \in Requesters, NEW s \in Slots, ReceiveAck(r, s)
    PROVE  TransferInvariant'
<1>1. /\ slot' = FreeSlot(r, s) /\ permits' = [permits EXCEPT ![r] = @ + 1]
      /\ msgs' = msgs \ AcksOf(r, s)
      /\ UNCHANGED <<window, dead, order, nextWin, owner, sess, active, reserved, jobs, fenced>>
    BY Zenon DEF ReceiveAck, sourceVars
<1>2. TypeOK /\ \A w \in Windows : w # NoWindow
    BY SMTT(40) DEF TransferInvariant, Windows, NoWindow
<1>3. slot[r][s].phase = "releasing" /\ Closed(Ticket(r, s)) /\ slot[r][s].win # NoWindow
  <2>1. \E m \in msgs : m.kind = "ack" /\ m.r = r /\ m.tk = Ticket(r, s)
      BY Zenon DEF ReceiveAck, AcksOf
  <2>2. QED
      BY <2>1, OwnItems, ZenonT(40) DEF TransferInvariant, PassedIsClosed, SlotShape
<1>4. /\ Moves(r, s) /\ slot'[r][s].phase = "free" /\ slot'[r][s].win = NoWindow
      /\ slot'[r][s].gen = slot[r][s].gen
  <2>1. permits' \in [Requesters -> Nat]
      BY SMTT(40), <1>1, <1>2 DEF TypeOK
  <2>2. QED
      BY SMTT(40), <1>1, <1>2, <2>1, FreeSlotFacts DEF Moves, TypeOK
<1>5. ASSUME NEW tk \in Tickets, tk.slot = s, Leads(r, tk) PROVE ~At(r, tk)' /\ Leads(r, tk)'
    BY <1>1, <1>2, <1>4, <1>5, ZenonT(40) DEF At, Leads, Tickets
<1>6. GenerationsLead' /\ PhasesAgree' /\ OneAuthorization' /\ GrantsAreReal' /\ PassedIsClosed'
    BY SMTT(40), <1>1, <1>3, <1>4, <1>5, TicketAt, LeavesItems
<1>7. SourceHeldWhileReading' /\ NoOrphanedGrant'
  <2>1. \A w \in Windows : /\ sess[w][s].st \in {"staging", "ready"} /\ slot[r][s].win = w
                           => slot[r][s].gen # sess[w][s].gen
    <3> SUFFICES ASSUME NEW w \in Windows, sess[w][s].st \in {"staging", "ready"}, slot[r][s].win = w,
                        slot[r][s].gen = sess[w][s].gen
                 PROVE  FALSE
        BY Zenon
    <3>1. IsOpen(w) /\ sess[w][s] \in Session
        BY <1>2, Zenon DEF TransferInvariant, SessionWindowsStayOpen, TypeOK
    <3>2. QED
        BY SMTT(40), <1>3, <3>1 DEF Closed, SessionOf, Ticket, Session
  <2>2. QED
      BY <1>4, <2>1, MovesGrants, ZenonT(40) DEF Holding
<1>8. WindowsOwned'
    BY <1>1, <1>4, MovesOwned, ZenonT(40)
<1>9. QED
    BY <1>4, <1>6, <1>7, <1>8, MovesShape, Zenon DEF TransferInvariant, Unasked

\* A new attempt (reserve) keeps the invariant: its generation is ahead of all the older ones.
LEMMA ReserveStep ==
    ASSUME TransferInvariant, NEW r \in Requesters, NEW s \in Slots, Reserve(r, s)
    PROVE  TransferInvariant'
<1> DEFINE new == [phase |-> "setup", gen |-> slot[r][s].gen + 1, win |-> window[r]]
<1>1. /\ slot[r][s].phase = "free" /\ slot[r][s].gen # MaxGen /\ permits[r] > 0
      /\ slot' = [slot EXCEPT ![r][s] = new] /\ permits' = [permits EXCEPT ![r] = @ - 1]
      /\ UNCHANGED <<window, dead, order, nextWin, owner, sess, active, reserved, jobs, fenced, msgs>>
    BY Zenon DEF Reserve, sourceVars
<1>2. TypeOK /\ slot[r][s].win = NoWindow /\ \A w \in Windows : w # NoWindow
  <2>1. \A w \in Windows : w # NoWindow
      BY SMTT(40) DEF Windows, NoWindow
  <2>2. QED
      BY <1>1, <2>1, ZenonT(40) DEF TransferInvariant, SlotShape
<1>3. /\ new \in Attempt /\ new.phase = "setup" /\ new.gen = slot[r][s].gen + 1 /\ new.win = window[r]
      /\ slot[r][s].gen \in Nat
  <2>1. slot[r][s] \in Attempt /\ window[r] \in Windows \cup {NoWindow}
      BY SMTT(40), <1>2 DEF TypeOK
  <2>2. slot[r][s].gen \in 0..MaxGen
      BY <2>1, Zenon DEF Attempt
  <2>3. slot[r][s].gen + 1 \in 0..MaxGen
      BY SMTT(40), <1>1, <2>2, SlotsAssumption
  <2>4. QED
      BY SMTT(40), <2>1, <2>2, <2>3 DEF Attempt, Phases
<1> HIDE DEF new
<1>4. Moves(r, s) /\ slot'[r][s] = new
  <2>1. permits' \in [Requesters -> Nat]
      BY SMTT(40), <1>1, <1>2 DEF TypeOK
  <2>2. QED
      BY <1>1, <1>2, <1>3, <2>1, Zenon DEF Moves, TypeOK
<1>5. ASSUME NEW tk \in Tickets, tk.slot = s, Leads(r, tk) PROVE ~At(r, tk)' /\ Leads(r, tk)'
  <2>1. tk.win \in Windows /\ tk.gen \in Nat
      BY SMTT(40), SlotsAssumption DEF Tickets
  <2>2. QED
      BY SMTT(40), <1>1, <1>2, <1>3, <1>4, <1>5, <2>1 DEF At, Leads
<1>6. \A tk \in Tickets : tk.slot = s => ~At(r, tk)
    BY <1>2, Zenon DEF At, Tickets
<1>7. GenerationsLead' /\ PhasesAgree' /\ OneAuthorization' /\ GrantsAreReal' /\ PassedIsClosed'
    BY <1>1, <1>4, <1>5, <1>6, LeavesItems, Zenon
<1>8. SourceHeldWhileReading' /\ NoOrphanedGrant' /\ WindowsOwned'
    BY <1>1, <1>3, <1>4, MovesGrants, MovesOwned, Zenon DEF Holding, Unasked
<1>9. QED
    BY SMTT(40), <1>3, <1>4, <1>7, <1>8, MovesShape DEF TransferInvariant, Unasked

-----------------------------------------------------------------------------
(* The steps that change the window of a requester preserve                *)
(* TransferInvariant: setting one up, and forgetting an idle peer.         *)

\* Forgetting an idle peer keeps the invariant: nothing in flight stands at any of its slots.
LEMMA ForgetPeerStep ==
    ASSUME TransferInvariant, NEW r \in Requesters, ForgetPeer(r)
    PROVE  TransferInvariant'
<1>1. /\ slot' = [slot EXCEPT ![r] = [s \in Slots |-> NewSlot]] /\ window' = [window EXCEPT ![r] = NoWindow]
      /\ \A s \in Slots : slot[r][s].phase = "free"
      /\ UNCHANGED <<permits, dead, order, nextWin, owner, sess, active, reserved, jobs, fenced, msgs>>
    BY Zenon DEF ForgetPeer, sourceVars
<1>2. TypeOK /\ Typed /\ \A w \in Windows : w # NoWindow
    BY SMTT(40), TypedElements DEF TransferInvariant, Windows, NoWindow
<1>3. /\ slot' \in [Requesters -> [Slots -> Attempt]] /\ window' \in [Requesters -> Windows \cup {NoWindow}]
      /\ \A q \in Requesters, u \in Slots : slot'[q][u] = IF q = r THEN NewSlot ELSE slot[q][u]
      /\ \A q \in Requesters : window'[q] = IF q = r THEN NoWindow ELSE window[q]
      /\ NewSlot.phase = "free" /\ NewSlot.win = NoWindow
  <2>1. NewSlot \in Attempt /\ NewSlot.phase = "free" /\ NewSlot.win = NoWindow
      BY SMTT(40), SlotsAssumption DEF NewSlot, Attempt, Phases
  <2>2. QED
      BY <1>1, <1>2, <2>1, Zenon DEF TypeOK
<1>4. \A s \in Slots : slot[r][s].win = NoWindow
    BY <1>1, Zenon DEF TransferInvariant, SlotShape
<1>5. ASSUME NEW q \in Requesters, NEW tk \in Tickets
      PROVE  /\ At(q, tk)' <=> At(q, tk)
             /\ At(q, tk) => PhaseOf(q, tk)' = PhaseOf(q, tk)
             /\ Leads(q, tk) => Leads(q, tk)'
  <2>1. tk.win # NoWindow /\ tk.slot \in Slots
      BY <1>2, Zenon DEF Tickets
  <2>2. QED
      BY SMTT(40), <1>3, <1>4, <2>1 DEF At, PhaseOf, Leads
<1>6. TypeOK' /\ SlotShape' /\ WindowsOwned' /\ SessionWindowsStayOpen'
  <2>1. TypeOK'
      BY <1>1, <1>2, <1>3, ZenonT(40) DEF TypeOK
  <2>2. SlotShape' /\ SessionWindowsStayOpen'
      BY SMTT(40), <1>1, <1>3 DEF TransferInvariant, SlotShape, SessionWindowsStayOpen, IsOpen
  <2>3. WindowsOwned'
      BY SMTT(40), <1>1, <1>3 DEF TransferInvariant, WindowsOwned, Owns
  <2>4. QED
      BY <2>1, <2>2, <2>3, Zenon
<1>7. SourceHeldWhileReading' /\ NoOrphanedGrant'
  <2>1. SourceHeldWhileReading'
    <3>1. ASSUME NEW q \in Requesters, NEW u \in Slots, slot'[q][u].phase \in {"granted", "reading", "leaked"}
          PROVE  /\ slot'[q][u].win \in Windows
                 /\ sess[slot'[q][u].win][u].st = "ready"
                 /\ sess[slot'[q][u].win][u].gen = slot'[q][u].gen
      <4>1. slot'[q][u].phase # "free"
          BY SMTT(40), <3>1
      <4>2. slot'[q][u] = slot[q][u]
          BY <1>3, <4>1, Zenon
      <4>3. QED
          BY <3>1, <4>2, Zenon DEF TransferInvariant, SourceHeldWhileReading
    <3>2. sess' = sess
        BY <1>1, ZenonT(40)
    <3>3. QED
        BY <3>1, <3>2, Zenon DEF SourceHeldWhileReading
  <2>2. NoOrphanedGrant'
      BY SMTT(40), <1>1, <1>2, <1>3, <1>4 DEF TransferInvariant, NoOrphanedGrant, OnTicket, At
  <2>3. QED
      BY <2>1, <2>2, Zenon
<1>8. GenerationsLead' /\ PhasesAgree' /\ OneAuthorization' /\ GrantsAreReal' /\ PassedIsClosed'
  <2>1. \A tk : (Closed(tk)' <=> Closed(tk)) /\ (Pinned(tk)' <=> Pinned(tk))
      BY <1>1, SourceFrame, Zenon
  <2>2. GenerationsLead' /\ OneAuthorization' /\ PassedIsClosed'
      BY <1>1, <1>2, <1>5, <2>1, FewerAuthorizations, Zenon
      DEF TransferInvariant, GenerationsLead, PassedIsClosed, Typed
  <2>3. PhasesAgree' /\ GrantsAreReal'
      BY <1>1, <1>2, <1>5, <2>1, Zenon DEF TransferInvariant, PhasesAgree, GrantsAreReal, Typed
  <2>4. QED
      BY <2>2, <2>3, Zenon
<1>9. QED
    BY <1>6, <1>7, <1>8, Zenon DEF TransferInvariant

-----------------------------------------------------------------------------
(* Setting up a window.                                                    *)

\* The requester and the source agree on a window that nobody has ever used.
Opens(r) ==
    /\ nextWin \in Windows /\ nextWin' = nextWin + 1
    /\ UNCHANGED <<sess, active, reserved, permits, dead, jobs, fenced, msgs>>
    /\ owner' \in [Windows -> Requesters \cup {NoOwner}]
    /\ \A w \in Windows : owner'[w] = IF w = nextWin THEN r ELSE owner[w]
    /\ order' \in Seq(Windows)
    /\ \A i \in DOMAIN order' : order'[i] < nextWin + 1
    /\ \A x : x # nextWin /\ IsOpen(x)' => IsOpen(x)
    /\ \A x : IsOpen(x) => IsOpen(x)' \/ Evictable(x)
    /\ slot' \in [Requesters -> [Slots -> Attempt]]
    /\ window' \in [Requesters -> Windows \cup {NoWindow}]
    /\ \A q \in Requesters : window'[q] = window[q] \/ (q = r /\ window'[q] = nextWin)
    /\ \A q \in Requesters, u \in Slots :
         /\ slot'[q][u].phase = slot[q][u].phase
         /\ slot'[q][u].gen = slot[q][u].gen
         /\ \/ slot'[q][u].win = slot[q][u].win
            \/ /\ q = r /\ slot[q][u].phase = "setup" /\ slot[q][u].win = NoWindow
               /\ slot'[q][u].win = nextWin

\* Nothing in flight carries the next window id.
LEMMA NextIsUnused ==
    ASSUME TransferInvariant, nextWin \in Windows
    PROVE  /\ owner[nextWin] = NoOwner /\ nextWin # NoWindow
           /\ \A i \in DOMAIN order : order[i] < nextWin
           /\ \A q \in Requesters, tk \in Tickets : Owns(q, tk) => tk.win # nextWin
<1>1. owner[nextWin] = NoOwner /\ nextWin # NoWindow /\ \A i \in DOMAIN order : order[i] < nextWin
    BY SMTT(40) DEF TransferInvariant, WindowsOwned, Windows, NoWindow
<1>2. QED
    BY <1>1, RequestersAssumption, Zenon DEF Owns, Tickets

\* Where SetupWindow leaves the requester.
LEMMA SetupSlots ==
    ASSUME TypeOK, NEW r \in Requesters, nextWin \in Windows,
           window' = [window EXCEPT ![r] = nextWin],
           slot' = [slot EXCEPT ![r] = [s \in Slots |->
                       IF slot[r][s].phase = "setup" /\ slot[r][s].win = NoWindow
                       THEN [slot[r][s] EXCEPT !.win = nextWin] ELSE slot[r][s]]]
    PROVE  /\ slot' \in [Requesters -> [Slots -> Attempt]]
           /\ window' \in [Requesters -> Windows \cup {NoWindow}]
           /\ \A q \in Requesters : window'[q] = window[q] \/ (q = r /\ window'[q] = nextWin)
           /\ \A q \in Requesters, u \in Slots :
                /\ slot'[q][u].phase = slot[q][u].phase
                /\ slot'[q][u].gen = slot[q][u].gen
                /\ \/ slot'[q][u].win = slot[q][u].win
                   \/ /\ q = r /\ slot[q][u].phase = "setup" /\ slot[q][u].win = NoWindow
                      /\ slot'[q][u].win = nextWin
<1> DEFINE Moved(s) == [slot[r][s] EXCEPT !.win = nextWin]
<1>1. /\ slot \in [Requesters -> [Slots -> Attempt]] /\ \A s \in Slots : slot[r][s] \in Attempt
      /\ window \in [Requesters -> Windows \cup {NoWindow}]
    BY Zenon DEF TypeOK
<1>2. \A s \in Slots : /\ Moved(s) \in Attempt /\ Moved(s).win = nextWin
                       /\ Moved(s).phase = slot[r][s].phase /\ Moved(s).gen = slot[r][s].gen
    BY <1>1, Zenon DEF Attempt
<1>3. \A q \in Requesters, u \in Slots :
         slot'[q][u] = IF q = r /\ slot[r][u].phase = "setup" /\ slot[r][u].win = NoWindow
                       THEN Moved(u) ELSE slot[q][u]
    BY <1>1, Zenon
<1>4. slot' = [slot EXCEPT ![r] = [s \in Slots |->
                 IF slot[r][s].phase = "setup" /\ slot[r][s].win = NoWindow
                 THEN Moved(s) ELSE slot[r][s]]]
    BY Zenon
<1> HIDE DEF Moved
<1>5. [s \in Slots |-> IF slot[r][s].phase = "setup" /\ slot[r][s].win = NoWindow
                       THEN Moved(s) ELSE slot[r][s]] \in [Slots -> Attempt]
    BY <1>1, <1>2, Zenon
<1>6. slot' \in [Requesters -> [Slots -> Attempt]]
    BY <1>1, <1>4, <1>5, Zenon
<1>7. QED
    BY SMTT(40), <1>1, <1>2, <1>3, <1>6

\* SetupWindow opens a window, whether or not its reply arrives.
LEMMA SetupOpens ==
    ASSUME TransferInvariant, NEW r \in Requesters, SetupWindow(r)
    PROVE  Opens(r)
<1>1. /\ TypeOK /\ OpenWindow(r) /\ nextWin \in Windows /\ nextWin' = nextWin + 1
      /\ UNCHANGED <<sess, active, reserved, permits, dead, jobs, fenced, msgs>>
    BY Zenon DEF TransferInvariant, SetupWindow, OpenWindow
<1>2. /\ owner' \in [Windows -> Requesters \cup {NoOwner}]
      /\ \A w \in Windows : owner'[w] = IF w = nextWin THEN r ELSE owner[w]
    BY <1>1, Zenon DEF OpenWindow, TypeOK
<1>3. /\ order' \in Seq(Windows)
      /\ \A i \in DOMAIN order' : order'[i] < nextWin + 1
      /\ \A x : x # nextWin /\ IsOpen(x)' => IsOpen(x)
      /\ \A x : IsOpen(x) => IsOpen(x)' \/ Evictable(x)
    BY <1>1, NextIsUnused, OpenWindowFacts, Zenon
<1>4. CASE UNCHANGED <<window, slot>>
    BY <1>1, <1>2, <1>3, <1>4, Zenon DEF Opens, TypeOK
<1>5. CASE /\ window' = [window EXCEPT ![r] = nextWin]
           /\ slot' = [slot EXCEPT ![r] = [s \in Slots |->
                          IF slot[r][s].phase = "setup" /\ slot[r][s].win = NoWindow
                          THEN [slot[r][s] EXCEPT !.win = nextWin] ELSE slot[r][s]]]
    BY <1>1, <1>2, <1>3, <1>5, SetupSlots, Zenon DEF Opens
<1>6. QED
    BY <1>4, <1>5, Zenon DEF SetupWindow

\* Opening a window hands it to one requester only.
LEMMA OpensOwned ==
    ASSUME TransferInvariant, NEW r \in Requesters, Opens(r)
    PROVE  TypeOK' /\ WindowsOwned'
<1>1. /\ Typed /\ nextWin \in Windows /\ nextWin' = nextWin + 1
      /\ UNCHANGED <<jobs, msgs>>
      /\ \A w \in Windows : owner'[w] = IF w = nextWin THEN r ELSE owner[w]
    BY TypedElements, Zenon DEF Opens, TransferInvariant
<1>2. TypeOK'
    BY SMTT(40), WindowsAssumption DEF Opens, TransferInvariant, TypeOK, Windows
<1>3. (\A w \in Windows : w >= nextWin' => owner'[w] = NoOwner) /\ \A i \in DOMAIN order' : order'[i] < nextWin'
    BY SMTT(40), <1>1 DEF Opens, TransferInvariant, WindowsOwned, Windows
<1>4. \A q \in Requesters : window'[q] # NoWindow => owner'[window'[q]] = q
  <2>1. \A q \in Requesters : window[q] \in Windows \cup {NoWindow}
      BY Zenon DEF TransferInvariant, TypeOK
  <2>2. QED
      BY SMTT(40), <1>1, <2>1, NextIsUnused, RequestersAssumption DEF Opens, TransferInvariant, WindowsOwned
<1>5. ASSUME NEW q \in Requesters, NEW u \in Slots, slot'[q][u].win # NoWindow
      PROVE  owner'[slot'[q][u].win] = q
  <2>1. /\ slot[q][u].win \in Windows \cup {NoWindow}
        /\ slot[q][u].win # NoWindow => owner[slot[q][u].win] = q
      BY SMTT(40) DEF TransferInvariant, TypeOK, Attempt, WindowsOwned
  <2>2. slot'[q][u].win = slot[q][u].win \/ (q = r /\ slot'[q][u].win = nextWin)
      BY Zenon DEF Opens
  <2>3. QED
      BY <1>1, <1>5, <2>1, <2>2, NextIsUnused, RequestersAssumption, ZenonT(40)
<1>6. (\A m \in msgs' : Owns(m.r, m.tk)') /\ \A j \in jobs' : Owns(j.r, j.tk)'
  <2>1. \A q \in Requesters, tk \in Tickets : Owns(q, tk) => Owns(q, tk)'
      BY <1>1, NextIsUnused, Zenon DEF Owns, Tickets
  <2>2. QED
      BY <1>1, <2>1, Zenon DEF TransferInvariant, WindowsOwned, Typed
<1>7. QED
    BY <1>2, <1>3, <1>4, <1>5, <1>6, Zenon DEF WindowsOwned

\* Opening a window disturbs nothing in flight.
LEMMA OpensItems ==
    ASSUME TransferInvariant, NEW r \in Requesters, Opens(r)
    PROVE  GenerationsLead' /\ PhasesAgree' /\ OneAuthorization' /\ GrantsAreReal' /\ PassedIsClosed'
<1>1. /\ Typed /\ UNCHANGED <<jobs, msgs, sess>>
      /\ \A w \in Windows : w # NoWindow
    BY SMTT(40), TypedElements DEF Opens, TransferInvariant, Windows, NoWindow
<1>2. ASSUME NEW q \in Requesters, NEW tk \in Tickets, Owns(q, tk)
      PROVE  /\ At(q, tk)' <=> At(q, tk)
             /\ PhaseOf(q, tk)' = PhaseOf(q, tk)
             /\ Leads(q, tk) => Leads(q, tk)'
             /\ Closed(tk) => Closed(tk)'
             /\ Pinned(tk)' <=> Pinned(tk)
  <2>1. tk.win # nextWin /\ tk.win # NoWindow /\ tk.slot \in Slots
      BY <1>1, <1>2, NextIsUnused, Zenon DEF Opens, Tickets
  <2>2. (At(q, tk)' <=> At(q, tk)) /\ PhaseOf(q, tk)' = PhaseOf(q, tk) /\ (Leads(q, tk) => Leads(q, tk)')
      BY <2>1, Zenon DEF Opens, At, PhaseOf, Leads
  <2>3. (Closed(tk) => Closed(tk)') /\ (Pinned(tk)' <=> Pinned(tk))
      BY <1>1, <2>1, Zenon DEF Opens, Closed, Pinned, SessionOf
  <2>4. QED
      BY <2>2, <2>3, Zenon
<1>3. /\ \A m \in msgs : m.r \in Requesters /\ m.tk \in Tickets /\ Owns(m.r, m.tk)
      /\ \A j \in jobs : j.r \in Requesters /\ j.tk \in Tickets /\ Owns(j.r, j.tk)
    BY <1>1, Zenon DEF Typed, TransferInvariant, WindowsOwned
<1>4. GenerationsLead' /\ OneAuthorization'
    BY <1>1, <1>2, <1>3, FewerAuthorizations, Zenon DEF TransferInvariant, GenerationsLead
<1>5. PhasesAgree'
    BY <1>1, <1>2, <1>3, Zenon DEF TransferInvariant, PhasesAgree
<1>6. GrantsAreReal' /\ PassedIsClosed'
    BY <1>1, <1>2, <1>3, Zenon DEF TransferInvariant, GrantsAreReal, PassedIsClosed
<1>7. QED
    BY <1>4, <1>5, <1>6, ZenonT(40)

\* Setting up a window keeps the invariant; the window it evicts had no transfers.
LEMMA SetupWindowStep ==
    ASSUME TransferInvariant, NEW r \in Requesters, SetupWindow(r)
    PROVE  TransferInvariant'
<1>1. Opens(r) /\ UNCHANGED sess
    BY SetupOpens, Zenon DEF Opens
<1>2. SlotShape' /\ SourceHeldWhileReading'
  <2>1. nextWin # NoWindow /\ \A q \in Requesters, u \in Slots :
           /\ slot'[q][u].phase = slot[q][u].phase
           /\ slot'[q][u].gen = slot[q][u].gen
           /\ \/ slot'[q][u].win = slot[q][u].win
              \/ slot[q][u].phase = "setup" /\ slot'[q][u].win = nextWin
      BY ZenonT(40), <1>1, NextIsUnused DEF Opens
  <2>2. SlotShape'
      BY SMTT(40), <2>1 DEF TransferInvariant, SlotShape
  <2>3. SourceHeldWhileReading'
    <3> SUFFICES ASSUME NEW q \in Requesters, NEW u \in Slots, slot'[q][u].phase \in Holding
                 PROVE  /\ slot'[q][u].win \in Windows
                        /\ sess[slot'[q][u].win][u].st = "ready"
                        /\ sess[slot'[q][u].win][u].gen = slot'[q][u].gen
        BY <1>1, Zenon DEF SourceHeldWhileReading, Holding
    <3>1. slot'[q][u].win = slot[q][u].win /\ slot[q][u].phase \in Holding /\ slot'[q][u].gen = slot[q][u].gen
        BY <2>1, ZenonT(40) DEF Holding
    <3>2. QED
        BY <3>1, Zenon DEF TransferInvariant, SourceHeldWhileReading, Holding
  <2>4. QED
      BY <2>2, <2>3, ZenonT(40)
<1>3. NoOrphanedGrant'
  <2> SUFFICES ASSUME NEW w \in Windows, NEW u \in Slots, sess[w][u].st \in {"staging", "ready"}
               PROVE  /\ owner'[w] \in Requesters
                      /\ slot'[owner'[w]][u].win = w
                      /\ slot'[owner'[w]][u].gen = sess[w][u].gen
                      /\ slot'[owner'[w]][u].phase \notin Unasked
      BY <1>1, Zenon DEF NoOrphanedGrant, OnTicket, At, Unasked
  <2>1. /\ owner[w] \in Requesters
        /\ slot[owner[w]][u].win = w
        /\ slot[owner[w]][u].gen = sess[w][u].gen
        /\ slot[owner[w]][u].phase \notin Unasked
      BY ZenonT(40) DEF TransferInvariant, NoOrphanedGrant, OnTicket, At, Unasked
  <2>2. owner'[w] = owner[w]
    <3>1. nextWin \in Windows /\ owner'[w] = IF w = nextWin THEN r ELSE owner[w]
        BY <1>1, Zenon DEF Opens
    <3>2. owner[nextWin] = NoOwner
        BY <3>1, NextIsUnused, Zenon
    <3>3. w # nextWin
        BY <2>1, <3>2, RequestersAssumption, Zenon
    <3>4. QED
        BY <3>1, <3>3, Zenon
  <2>3. QED
    <3>1. /\ slot'[owner[w]][u].phase = slot[owner[w]][u].phase
          /\ slot'[owner[w]][u].gen = slot[owner[w]][u].gen
          /\ slot'[owner[w]][u].win = slot[owner[w]][u].win \/ slot[owner[w]][u].phase = "setup"
        BY <1>1, <2>1, ZenonT(40) DEF Opens
    <3>2. slot[owner[w]][u].phase # "setup"
        BY <2>1, ZenonT(40) DEF Unasked
    <3>3. QED
        BY <2>1, <2>2, <3>1, <3>2, ZenonT(40)
<1>4. SessionWindowsStayOpen'
  <2>1. \A x : IsOpen(x) => IsOpen(x)' \/ Evictable(x)
      BY <1>1, Zenon DEF Opens
  <2>2. ASSUME NEW w \in Windows, NEW u \in Slots, sess[w][u].st # "none" PROVE IsOpen(w)'
    <3>1. IsOpen(w) /\ ~Evictable(w)
        BY <2>2, Zenon DEF TransferInvariant, SessionWindowsStayOpen, Evictable
    <3>2. QED
        BY <2>1, <3>1, Zenon
  <2>3. sess' = sess
      BY <1>1, Zenon
  <2>4. QED
      BY <2>2, <2>3, Zenon DEF SessionWindowsStayOpen
<1>5. QED
    BY <1>1, <1>2, <1>3, <1>4, OpensOwned, OpensItems, Zenon DEF TransferInvariant

-----------------------------------------------------------------------------
(* The steps of the source preserve TransferInvariant.  Each of them       *)
(* handles one ticket of one requester, so what such a step preserves is   *)
(* stated once, in terms of what it does to that ticket.                   *)

\* A ticket something in flight stands for.
Tracked(q, tk) ==
    /\ q \in Requesters /\ tk \in Tickets
    /\ Owns(q, tk) /\ Leads(q, tk)
    /\ At(q, tk) => PhaseOf(q, tk) \in {"auth", "releasing"}

\* An answer its requester still waits for.
Answers(q, tk, n) ==
    /\ n.r = q /\ n.tk = tk /\ At(q, tk) /\ Leads(q, tk)
    /\ \/ n.kind = "reply" /\ PhaseOf(q, tk) = "auth"
       \/ n.kind = "ack" /\ PhaseOf(q, tk) = "releasing"

\* The source handles ticket tk of requester q.
Handles(q, tk) ==
    /\ UNCHANGED <<slot, window, permits, dead, nextWin, owner, fenced>>
    /\ order' \in Seq(Windows) /\ \A x : IsOpen(x)' <=> IsOpen(x)
    /\ sess' \in [Windows -> [Slots -> Session]] /\ active' \in Int /\ reserved' \in Int
    /\ msgs' \subseteq Message /\ jobs' \subseteq Job
    /\ \A n \in msgs' : n \in msgs \/ Answers(q, tk, n)
    /\ \A j \in jobs' : j \in jobs \/ (j.r = q /\ j.tk = tk)

\* Requests and jobs are tracked.
LEMMA AllTracked ==
    ASSUME TransferInvariant
    PROVE  /\ \A m \in msgs : m.kind \in {"authorize", "release"} => Tracked(m.r, m.tk)
           /\ \A j \in jobs : Tracked(j.r, j.tk)
<1>1. Typed
    BY TypedElements, Zenon DEF TransferInvariant
<1>2. QED
    BY <1>1, Zenon DEF Typed, Tracked, TransferInvariant, WindowsOwned, GenerationsLead, PhasesAgree

\* Handling a ticket leaves the requesters' side as it was.
LEMMA HandlesShape ==
    ASSUME TransferInvariant, NEW q, NEW tk, Tracked(q, tk), Handles(q, tk)
    PROVE  TypeOK' /\ SlotShape' /\ WindowsOwned' /\ GenerationsLead' /\ PhasesAgree'
<1>1. TypeOK'
    BY Zenon DEF Handles, TransferInvariant, TypeOK
<1>2. SlotShape'
    BY Zenon DEF Handles, TransferInvariant, SlotShape
<1>3. \A r, k : /\ (At(r, k)' <=> At(r, k)) /\ PhaseOf(r, k)' = PhaseOf(r, k)
                /\ (Leads(r, k)' <=> Leads(r, k)) /\ (Owns(r, k)' <=> Owns(r, k))
    BY RequesterFrame, Zenon DEF Handles, Owns
<1>4. WindowsOwned'
  <2>1. \A i \in DOMAIN order' : order'[i] < nextWin'
    <3>1. \A x : (\E i \in DOMAIN order' : order'[i] = x) => \E i \in DOMAIN order : order[i] = x
        BY Zenon DEF Handles, IsOpen
    <3>2. ASSUME NEW i \in DOMAIN order' PROVE order'[i] < nextWin
      <4>1. PICK k \in DOMAIN order : order[k] = order'[i]
          BY <3>1, ZenonT(40)
      <4>2. QED
          BY <4>1, Zenon DEF TransferInvariant, WindowsOwned
    <3>3. QED
        BY <3>2, Zenon DEF Handles
  <2>2. (\A n \in msgs' : Owns(n.r, n.tk)') /\ \A j \in jobs' : Owns(j.r, j.tk)'
    <3>1. ASSUME NEW n \in msgs' PROVE Owns(n.r, n.tk)
      <4>1. CASE n \in msgs
          BY <4>1, Zenon DEF TransferInvariant, WindowsOwned
      <4>2. CASE Answers(q, tk, n)
          BY <4>2, Zenon DEF Answers, Tracked
      <4>3. QED
          BY <4>1, <4>2, Zenon DEF Handles
    <3>2. ASSUME NEW j \in jobs' PROVE Owns(j.r, j.tk)
      <4>1. CASE j \in jobs
          BY <4>1, Zenon DEF TransferInvariant, WindowsOwned
      <4>2. CASE j.r = q /\ j.tk = tk
          BY <4>2, Zenon DEF Tracked
      <4>3. QED
          BY <4>1, <4>2, Zenon DEF Handles
    <3>3. QED
        BY <1>3, <3>1, <3>2, Zenon
  <2>3. QED
      BY <2>1, <2>2, Zenon DEF Handles, TransferInvariant, WindowsOwned
<1>5. GenerationsLead'
    BY <1>3, Zenon DEF Handles, Answers, Tracked, TransferInvariant, GenerationsLead
<1>6. PhasesAgree'
  <2>1. ASSUME NEW m \in msgs'
        PROVE  /\ m.kind = "authorize" /\ At(m.r, m.tk) => PhaseOf(m.r, m.tk) \in {"auth", "releasing"}
               /\ m.kind = "reply" => At(m.r, m.tk) /\ PhaseOf(m.r, m.tk) = "auth"
               /\ m.kind \in {"release", "ack"} /\ At(m.r, m.tk) => PhaseOf(m.r, m.tk) = "releasing"
    <3>1. CASE m \in msgs
        BY <3>1, Zenon DEF TransferInvariant, PhasesAgree
    <3>2. CASE Answers(q, tk, m)
        BY <3>2, Zenon DEF Answers
    <3>3. QED
        BY <3>1, <3>2, Zenon DEF Handles
  <2>2. \A j \in jobs' : At(j.r, j.tk) => PhaseOf(j.r, j.tk) \in {"auth", "releasing"}
      BY Zenon DEF Handles, Tracked, TransferInvariant, PhasesAgree
  <2>3. QED
      BY <1>3, <2>1, <2>2, Zenon DEF PhasesAgree
<1>7. QED
    BY <1>1, <1>2, <1>4, <1>5, <1>6, Zenon

\* What handling a ticket may do to the sessions.
Advances(q, tk) ==
    /\ \A k \in Tickets : Closed(k) => Closed(k)'
    /\ \A k \in Tickets : Pinned(k) /\ k # tk => Pinned(k)'
    /\ \A w \in Windows, s \in Slots :
         sess'[w][s].st \in {"staging", "ready"} =>
             \/ sess[w][s].st \in {"staging", "ready"} /\ sess'[w][s].gen = sess[w][s].gen
             \/ w = tk.win /\ s = tk.slot /\ sess'[w][s].gen = tk.gen /\ At(q, tk)
    /\ \A w \in Windows, s \in Slots : sess'[w][s].st # "none" => IsOpen(w)

\* What the messages and jobs it leaves may claim.
Truthful(q, tk) ==
    /\ \A n \in msgs' : n \in msgs \/ /\ n.kind = "reply" /\ n.why = "ok" => Pinned(tk)'
                                      /\ n.kind = "ack" => Closed(tk)'
    /\ \A j \in jobs' : j \in jobs \/ /\ j.stage = "validated" => At(q, tk) \/ Closed(tk)
                                      /\ j.stage = "prepared" => Pinned(tk)'
    /\ Pinned(tk) /\ ~Pinned(tk)' =>
         /\ \A n \in msgs : n.kind = "reply" => n.tk # tk
         /\ \A j \in jobs' : j.tk = tk => ~(At(q, tk) /\ PhaseOf(q, tk) = "auth")

\* Handling a ticket keeps every claim true.
LEMMA HandlesClaims ==
    ASSUME TransferInvariant, NEW q, NEW tk, Tracked(q, tk), Handles(q, tk), Advances(q, tk), Truthful(q, tk)
    PROVE  GrantsAreReal' /\ PassedIsClosed'
<1>1. /\ Typed /\ \A r, k : (At(r, k)' <=> At(r, k)) /\ PhaseOf(r, k)' = PhaseOf(r, k)
    BY TypedElements, RequesterFrame, Zenon DEF Handles, TransferInvariant
<1>2. /\ \A k \in Tickets : Closed(k) => Closed(k)'
      /\ \A k \in Tickets : Pinned(k) /\ k # tk => Pinned(k)'
      /\ tk \in Tickets
    BY Zenon DEF Advances, Tracked
<1>3. ASSUME NEW n \in msgs'
      PROVE  /\ n.kind = "reply" /\ n.why = "ok" => Pinned(n.tk)'
             /\ n.kind = "authorize" => At(n.r, n.tk) \/ Closed(n.tk)'
             /\ n.kind = "ack" => Closed(n.tk)'
  <2>1. CASE n \in msgs
      BY <1>1, <1>2, <2>1, Zenon DEF Typed, Truthful, TransferInvariant, GrantsAreReal, PassedIsClosed
  <2>2. CASE n \notin msgs
    <3>1. Answers(q, tk, n)
        BY <2>2, Zenon DEF Handles
    <3>2. QED
        BY <2>2, <3>1, Zenon DEF Truthful, Answers
  <2>3. QED
      BY <2>1, <2>2, Zenon
<1>4. ASSUME NEW j \in jobs'
      PROVE  /\ j.stage = "validated" => At(j.r, j.tk) \/ Closed(j.tk)'
             /\ j.stage = "prepared" /\ At(j.r, j.tk) /\ PhaseOf(j.r, j.tk) = "auth" => Pinned(j.tk)'
  <2>1. CASE j \in jobs
    <3>1. j.r \in Requesters /\ j.tk \in Tickets /\ (j.tk = tk => j.r = q)
        BY <1>1, <2>1, Zenon DEF Typed, Tracked, Owns, TransferInvariant, WindowsOwned
    <3>2. QED
        BY <1>2, <2>1, <3>1, Zenon DEF Truthful, TransferInvariant, GrantsAreReal, PassedIsClosed
  <2>2. CASE j \notin jobs
      BY <1>2, <2>2, Zenon DEF Truthful, Handles
  <2>3. QED
      BY <2>1, <2>2, Zenon
<1>5. QED
    BY <1>1, <1>3, <1>4, Zenon DEF GrantsAreReal, PassedIsClosed

\* Handling a ticket takes nothing away from a READ and leaves nothing behind.
LEMMA HandlesSafely ==
    ASSUME TransferInvariant, NEW q, NEW tk, Tracked(q, tk), Handles(q, tk), Advances(q, tk)
    PROVE  SourceHeldWhileReading' /\ NoOrphanedGrant' /\ SessionWindowsStayOpen'
<1>1. UNCHANGED <<slot, owner>> /\ q \in Requesters /\ tk \in Tickets /\ owner[tk.win] = q
    BY Zenon DEF Handles, Tracked, Owns
<1>2. SourceHeldWhileReading'
  <2> SUFFICES ASSUME NEW r \in Requesters, NEW s \in Slots,
                      slot[r][s].phase \in {"granted", "reading", "leaked"}
               PROVE  /\ slot[r][s].win \in Windows
                      /\ sess'[slot[r][s].win][s].st = "ready"
                      /\ sess'[slot[r][s].win][s].gen = slot[r][s].gen
      BY <1>1, Zenon DEF SourceHeldWhileReading
  <2>1. /\ slot[r][s].win \in Windows /\ slot[r][s] \in Attempt /\ slot[r][s].gen > 0
        /\ sess[slot[r][s].win][s].st = "ready" /\ sess[slot[r][s].win][s].gen = slot[r][s].gen
      BY ZenonT(40) DEF TransferInvariant, TypeOK, SlotShape, SourceHeldWhileReading
  <2>2. slot[r][s].gen \in 1..MaxGen
      BY SMTT(40), <2>1, SlotsAssumption DEF Attempt
  <2>3. Ticket(r, s) \in Tickets /\ Pinned(Ticket(r, s))
      BY <2>1, <2>2, Zenon DEF Ticket, Tickets, Pinned, SessionOf
  <2>4. Ticket(r, s) # tk
    <3>1. SUFFICES ASSUME Ticket(r, s) = tk PROVE FALSE
        BY Zenon
    <3>2. tk.slot = s /\ tk.win = slot[r][s].win /\ tk.gen = slot[r][s].gen
        BY <3>1, ZenonT(40) DEF Ticket
    <3>3. owner[tk.win] = r
        BY SMTT(40), <2>1, <3>2 DEF TransferInvariant, WindowsOwned, Windows, NoWindow
    <3>4. At(q, tk) /\ PhaseOf(q, tk) = slot[r][s].phase
        BY <1>1, <3>2, <3>3, Zenon DEF At, PhaseOf
    <3>5. QED
        BY <3>4, Zenon DEF Tracked
  <2>5. Pinned(Ticket(r, s))'
    <3>1. \A k \in Tickets : Pinned(k) /\ k # tk => Pinned(k)'
        BY Zenon DEF Advances
    <3>2. Ticket(r, s)' = Ticket(r, s)
        BY <1>1, Zenon DEF Ticket
    <3>3. QED
        BY <2>3, <2>4, <3>1, <3>2, Zenon DEF Pinned, SessionOf
  <2>6. QED
      BY <1>1, <2>1, <2>5, Zenon DEF Pinned, SessionOf, Ticket
<1>3. NoOrphanedGrant'
  <2> SUFFICES ASSUME NEW w \in Windows, NEW s \in Slots, sess'[w][s].st \in {"staging", "ready"}
               PROVE  /\ owner[w] \in Requesters
                      /\ slot[owner[w]][s].win = w
                      /\ slot[owner[w]][s].gen = sess'[w][s].gen
                      /\ slot[owner[w]][s].phase \notin {"free", "setup"}
      BY <1>1, ZenonT(40) DEF NoOrphanedGrant, OnTicket, At
  <2>1. CASE sess[w][s].st \in {"staging", "ready"} /\ sess'[w][s].gen = sess[w][s].gen
      BY SMTT(40), <2>1 DEF TransferInvariant, NoOrphanedGrant, OnTicket, At
  <2>2. CASE w = tk.win /\ s = tk.slot /\ sess'[w][s].gen = tk.gen /\ At(q, tk)
      BY <1>1, <2>2, Zenon DEF At, Tracked, PhaseOf
  <2>3. QED
      BY <2>1, <2>2, Zenon DEF Advances
<1>4. SessionWindowsStayOpen'
    BY Zenon DEF Advances, Handles, SessionWindowsStayOpen
<1>5. QED
    BY <1>2, <1>3, <1>4, Zenon

\* Handling a ticket keeps the invariant.
LEMMA HandlesKeeps ==
    ASSUME TransferInvariant, NEW q, NEW tk, Tracked(q, tk), Handles(q, tk), Advances(q, tk),
           Truthful(q, tk), OneAuthorization'
    PROVE  TransferInvariant'
    BY HandlesShape, HandlesClaims, HandlesSafely, Zenon DEF TransferInvariant

\* Closing at most this ticket is one way to handle it.
LEMMA RetiringAdvances ==
    ASSUME TransferInvariant, NEW q, NEW tk \in Tickets, RetiresOnly(tk), \A x : IsOpen(x)' <=> IsOpen(x)
    PROVE  Advances(q, tk)
<1>1. /\ \A k \in Tickets : Closed(k) => Closed(k)'
      /\ \A k \in Tickets : Pinned(k) /\ k # tk => Pinned(k)'
    BY RetireFacts, Zenon DEF TransferInvariant
<1>2. \A w \in Windows, s \in Slots : sess'[w][s].st # "none" => IsOpen(w)
    BY Zenon DEF RetiresOnly, TransferInvariant, SessionWindowsStayOpen
<1>3. \A w \in Windows, s \in Slots :
         sess'[w][s].st \in {"staging", "ready"} =>
             sess[w][s].st \in {"staging", "ready"} /\ sess'[w][s].gen = sess[w][s].gen
    BY Zenon DEF RetiresOnly
<1>4. QED
    BY <1>1, <1>2, <1>3, Zenon DEF Advances

\* Leaving the sessions alone is another.
LEMMA IdleAdvances ==
    ASSUME TransferInvariant, NEW q, NEW tk, sess' = sess, \A x : IsOpen(x)' <=> IsOpen(x)
    PROVE  Advances(q, tk) /\ (Pinned(tk)' <=> Pinned(tk)) /\ (Closed(tk)' <=> Closed(tk))
<1>1. \A k : (Closed(k)' <=> Closed(k)) /\ (Pinned(k)' <=> Pinned(k))
    BY Zenon DEF Closed, Pinned, SessionOf
<1>2. QED
    BY <1>1, Zenon DEF Advances, TransferInvariant, SessionWindowsStayOpen

-----------------------------------------------------------------------------
(* One authorization per ticket.                                           *)

\* A request the source refuses becomes its answer.
LEMMA RequestConsumed ==
    ASSUME TransferInvariant, NEW m \in msgs, m.kind = "authorize",
           \A n \in msgs' : (n \in msgs /\ n # m) \/ (n.kind = "reply" /\ n.tk = m.tk),
           jobs' = jobs
    PROVE  OneAuthorization'
<1>1. \A n \in msgs' : n.kind = "authorize" => n.tk # m.tk
    BY AuthorizeUnique, Zenon
<1>2. QED
    BY <1>1, ZenonT(40) DEF TransferInvariant, OneAuthorization

\* A request that authorize_slot accepts becomes its job.
LEMMA RequestAccepted ==
    ASSUME TransferInvariant, NEW m \in msgs, m.kind = "authorize", msgs' = msgs \ {m},
           NEW j, j.tk = m.tk, j.stage = "validated", jobs' = jobs \cup {j}
    PROVE  OneAuthorization'
<1>1. \A n \in msgs' : n.kind \in {"authorize", "reply"} => n.tk # m.tk
    BY AuthorizeUnique, Zenon DEF TransferInvariant, OneAuthorization
<1>2. QED
    BY SMTT(40), <1>1 DEF TransferInvariant, OneAuthorization

\* A job that ends becomes its answer.
LEMMA JobConsumed ==
    ASSUME TransferInvariant, NEW j \in jobs, jobs' = jobs \ {j},
           \A n \in msgs' : n \in msgs \/ (n.kind = "reply" /\ n.tk = j.tk)
    PROVE  OneAuthorization'
    BY ZenonT(40) DEF TransferInvariant, OneAuthorization

\* A job that goes on becomes its next stage.
LEMMA JobReplaced ==
    ASSUME TransferInvariant, NEW j \in jobs, NEW k, k.tk = j.tk, k.stage = "aborting" => k.why # "ok",
           jobs' = (jobs \ {j}) \cup {k}, msgs' = msgs
    PROVE  OneAuthorization'
    BY SMTT(40) DEF TransferInvariant, OneAuthorization

-----------------------------------------------------------------------------
(* The steps.                                                              *)

\* Answers are well formed and awaited.
LEMMA ReplyAnswers ==
    ASSUME TransferInvariant, NEW q, NEW tk, Tracked(q, tk), NEW why \in Reasons
    PROVE  /\ ReplyTo(q, tk, why) \subseteq Message
           /\ \A n \in ReplyTo(q, tk, why) : Answers(q, tk, n) /\ n.kind = "reply" /\ n.why = why
<1>1. TypeOK /\ q \in Requesters /\ tk \in Tickets
    BY Zenon DEF TransferInvariant, Tracked
<1>2. QED
    BY SMTT(40), <1>1, ReplyFacts DEF Answers

\* A step that leaves windows and sessions alone and only answers, or moves the job on.
LEMMA IdleStep ==
    ASSUME TransferInvariant, NEW q, NEW tk, Tracked(q, tk), OneAuthorization',
           UNCHANGED <<requesterVars, dead, nextWin, owner, sess, active, reserved, fenced>>,
           order' \in Seq(Windows), \A x : IsOpen(x)' <=> IsOpen(x), jobs' \subseteq Job, msgs' \subseteq Message,
           \A n \in msgs' : n \in msgs \/ (Answers(q, tk, n) /\ n.kind = "reply" /\ (n.why = "ok" => Pinned(tk))),
           \A j \in jobs' : \/ j \in jobs
                            \/ /\ j.r = q /\ j.tk = tk /\ j.stage # "prepared"
                               /\ j.stage = "validated" => At(q, tk) \/ Closed(tk)
    PROVE  TransferInvariant'
<1>1. Handles(q, tk)
    BY Zenon DEF Handles, requesterVars, TransferInvariant, TypeOK
<1>2. Advances(q, tk) /\ (Pinned(tk)' <=> Pinned(tk)) /\ (Closed(tk)' <=> Closed(tk))
    BY IdleAdvances, Zenon
<1>3. Truthful(q, tk)
    BY <1>2, Zenon DEF Truthful
<1>4. QED
    BY <1>1, <1>2, <1>3, HandlesKeeps, Zenon

\* Nothing moved among the windows.
LEMMA WindowsUnmoved ==
    ASSUME TransferInvariant, order' = order
    PROVE  order' \in Seq(Windows) /\ \A x : IsOpen(x)' <=> IsOpen(x)
    BY Zenon DEF TransferInvariant, TypeOK, IsOpen

\* Refusing a replica keeps the invariant.
LEMMA RefuseReplicaStep ==
    ASSUME TransferInvariant, NEW m \in msgs, RefuseReplica(m)
    PROVE  TransferInvariant'
<1>1. /\ m.kind = "authorize" /\ msgs' = (msgs \ {m}) \cup ReplyTo(m.r, m.tk, "precondition")
      /\ UNCHANGED <<requesterVars, dead, order, nextWin, owner, sess, active, reserved, jobs, fenced>>
    BY Zenon DEF RefuseReplica, sourceVars
<1>2. Tracked(m.r, m.tk) /\ "precondition" \in Reasons /\ msgs \subseteq Message /\ jobs \subseteq Job
    BY <1>1, AllTracked, Zenon DEF Reasons, TransferInvariant, TypeOK
<1>3. /\ ReplyTo(m.r, m.tk, "precondition") \subseteq Message
      /\ \A n \in ReplyTo(m.r, m.tk, "precondition") :
           Answers(m.r, m.tk, n) /\ n.kind = "reply" /\ n.why = "precondition"
    BY SMTT(40), <1>2, ReplyAnswers
<1>4. OneAuthorization'
    BY <1>1, <1>3, RequestConsumed, Zenon DEF Answers
<1>5. QED
    BY <1>1, <1>2, <1>3, <1>4, IdleStep, WindowsUnmoved, Zenon

\* Accepting a request for work keeps the invariant.
LEMMA ValidateReplicaStep ==
    ASSUME TransferInvariant, NEW m \in msgs, ValidateReplica(m)
    PROVE  TransferInvariant'
<1> DEFINE j == [r |-> m.r, tk |-> m.tk, stage |-> "validated", why |-> "ok"]
<1>1. /\ m.kind = "authorize" /\ msgs' = msgs \ {m} /\ jobs' = jobs \cup {j}
      /\ UNCHANGED <<requesterVars, dead, order, nextWin, owner, sess, active, reserved, fenced>>
    BY Zenon DEF ValidateReplica, sourceVars
<1>2. Tracked(m.r, m.tk) /\ msgs \subseteq Message /\ jobs \subseteq Job
    BY <1>1, AllTracked, Zenon DEF TransferInvariant, TypeOK
<1>3. j \in Job /\ j.r = m.r /\ j.tk = m.tk /\ j.stage = "validated"
    BY <1>2, Zenon DEF Tracked, Job, Reasons
<1> HIDE DEF j
<1>4. At(m.r, m.tk) \/ Closed(m.tk)
    BY <1>1, Zenon DEF TransferInvariant, PassedIsClosed
<1>5. OneAuthorization'
    BY <1>1, <1>3, RequestAccepted, Zenon
<1>6. QED
    BY <1>1, <1>2, <1>3, <1>4, <1>5, IdleStep, WindowsUnmoved, ZenonT(40)

\* A job that ends with an answer and leaves the sessions alone keeps the invariant.
LEMMA AnsweredStep ==
    ASSUME TransferInvariant, NEW j \in jobs, NEW why \in Reasons, why = "ok" => j.stage = "prepared",
           UNCHANGED <<requesterVars, dead, nextWin, owner, sess, active, reserved, fenced>>,
           order' \in Seq(Windows), \A x : IsOpen(x)' <=> IsOpen(x),
           jobs' = jobs \ {j}, msgs' = msgs \cup ReplyTo(j.r, j.tk, why)
    PROVE  TransferInvariant'
<1>1. Tracked(j.r, j.tk) /\ msgs \subseteq Message /\ jobs \subseteq Job
    BY AllTracked, Zenon DEF TransferInvariant, TypeOK
<1>2. /\ ReplyTo(j.r, j.tk, why) \subseteq Message
      /\ \A n \in ReplyTo(j.r, j.tk, why) : Answers(j.r, j.tk, n) /\ n.kind = "reply" /\ n.why = why
    BY SMTT(40), <1>1, ReplyAnswers
<1>3. \A n \in ReplyTo(j.r, j.tk, why) : n.why = "ok" => Pinned(j.tk)
    BY <1>2, Zenon DEF Answers, TransferInvariant, GrantsAreReal
<1>4. OneAuthorization'
    BY <1>2, JobConsumed, Zenon DEF Answers
<1>5. QED
    BY <1>1, <1>2, <1>3, <1>4, IdleStep, ZenonT(40)

\* Refusing an unknown window keeps the invariant.
LEMMA RefuseUnknownWindowStep ==
    ASSUME TransferInvariant, NEW j \in jobs, RefuseUnknownWindow(j)
    PROVE  TransferInvariant'
    BY AnsweredStep, WindowsUnmoved, Zenon DEF RefuseUnknownWindow, sourceVars, Reasons

\* Refusing a stale ticket keeps the invariant.
LEMMA RefuseStaleTicketStep ==
    ASSUME TransferInvariant, NEW j \in jobs, RefuseStaleTicket(j)
    PROVE  TransferInvariant'
<1>1. j.tk.win \in Windows /\ TypeOK
    BY AllTracked, Zenon DEF Tracked, Tickets, TransferInvariant
<1>2. order' \in Seq(Windows) /\ \A x : IsOpen(x)' <=> IsOpen(x)
    BY <1>1, TouchFacts, Zenon DEF RefuseStaleTicket
<1>3. QED
    BY <1>2, AnsweredStep, Zenon DEF RefuseStaleTicket, Reasons

\* Publishing a grant keeps the invariant: it stands for what is pinned.
LEMMA PublishStep ==
    ASSUME TransferInvariant, NEW j \in jobs, Publish(j)
    PROVE  TransferInvariant'
    BY AnsweredStep, WindowsUnmoved, Zenon DEF Publish, sourceVars, Reasons

\* A job that goes on to its rollback keeps the invariant.
LEMMA AbortingStep ==
    ASSUME TransferInvariant, NEW j \in jobs, NEW why \in Reasons \ {"ok"},
           UNCHANGED <<requesterVars, dead, nextWin, owner, sess, active, reserved, fenced, msgs>>,
           order' \in Seq(Windows), \A x : IsOpen(x)' <=> IsOpen(x),
           jobs' = (jobs \ {j}) \cup {[j EXCEPT !.stage = "aborting", !.why = why]}
    PROVE  TransferInvariant'
<1> DEFINE k == [j EXCEPT !.stage = "aborting", !.why = why]
<1>1. Tracked(j.r, j.tk) /\ msgs \subseteq Message /\ jobs \subseteq Job
    BY AllTracked, Zenon DEF TransferInvariant, TypeOK
<1>2. k \in Job /\ k.r = j.r /\ k.tk = j.tk /\ k.stage = "aborting" /\ k.why = why
    BY <1>1, Zenon DEF Job
<1> HIDE DEF k
<1>3. jobs' = (jobs \ {j}) \cup {k}
    BY Zenon DEF k
<1>4. OneAuthorization'
    BY <1>2, <1>3, JobReplaced, Zenon
<1>5. QED
    BY <1>1, <1>2, <1>3, <1>4, IdleStep, Zenon

\* A failed staging read keeps the invariant.
LEMMA FailStagingStep ==
    ASSUME TransferInvariant, NEW j \in jobs, FailStaging(j)
    PROVE  TransferInvariant'
<1>1. /\ jobs' = (jobs \ {j}) \cup {[j EXCEPT !.stage = "aborting", !.why = "unavailable"]}
      /\ UNCHANGED <<requesterVars, dead, order, nextWin, owner, sess, active, reserved, fenced, msgs>>
    BY Zenon DEF FailStaging, sourceVars
<1>2. "unavailable" \in Reasons \ {"ok"}
    BY Zenon DEF Reasons
<1>3. QED
    BY <1>1, <1>2, AbortingStep, WindowsUnmoved, Zenon

\* The fence keeps the invariant.
LEMMA FenceStep ==
    ASSUME TransferInvariant, Fence
    PROVE  TransferInvariant'
<1>1. fenced' \in BOOLEAN
    BY Zenon DEF Fence
<1>2. dead' \subseteq Requesters
    BY Zenon DEF Fence, TransferInvariant, TypeOK
<1>3. QED
    BY <1>1, <1>2, QuietStep, Zenon DEF Fence, requesterVars, sourceVars

-----------------------------------------------------------------------------
(* Steps that change a session or a window.                                *)

\* Marking an overdue session keeps the invariant.
LEMMA ExpireStep ==
    ASSUME TransferInvariant, NEW w \in Windows, NEW s \in Slots, Expire(w, s)
    PROVE  TransferInvariant'
<1>1. /\ UNCHANGED <<slot, window, permits, dead, order, nextWin, owner, active, reserved, jobs, fenced, msgs>>
      /\ sess' = [sess EXCEPT ![w][s].expired = TRUE] /\ TypeOK
    BY Zenon DEF Expire, requesterVars, TransferInvariant
<1>2. /\ sess' \in [Windows -> [Slots -> Session]]
      /\ \A x \in Windows, u \in Slots : sess'[x][u].st = sess[x][u].st /\ sess'[x][u].gen = sess[x][u].gen
  <2>1. sess \in [Windows -> [Slots -> Session]] /\ sess[w][s] \in Session
      BY <1>1, Zenon DEF TypeOK
  <2>2. [sess[w][s] EXCEPT !.expired = TRUE] \in Session
      BY <2>1, Zenon DEF Session
  <2>3. QED
      BY SMTT(40), <1>1, <2>1, <2>2
<1>3. \A k \in Tickets : (Closed(k)' <=> Closed(k)) /\ (Pinned(k)' <=> Pinned(k))
    BY SMTT(40), <1>1, <1>2 DEF Closed, Pinned, SessionOf, IsOpen, Tickets
<1>4. Typed /\ \A r, k : /\ (At(r, k)' <=> At(r, k)) /\ PhaseOf(r, k)' = PhaseOf(r, k)
                         /\ (Leads(r, k)' <=> Leads(r, k))
    BY <1>1, RequesterFrame, TypedElements, Zenon
<1>5. TypeOK' /\ SlotShape' /\ WindowsOwned'
  <2>1. TypeOK'
      BY <1>1, <1>2, Zenon DEF TypeOK
  <2>2. QED
      BY <1>1, <2>1, Zenon DEF TransferInvariant, SlotShape, WindowsOwned, Owns
<1>6. GenerationsLead' /\ PhasesAgree' /\ OneAuthorization'
    BY <1>1, <1>4, FewerAuthorizations, Zenon DEF TransferInvariant, GenerationsLead, PhasesAgree
<1>7. GrantsAreReal' /\ PassedIsClosed'
    BY <1>1, <1>3, <1>4, ZenonT(40) DEF TransferInvariant, GrantsAreReal, PassedIsClosed, Typed
<1>8. SourceHeldWhileReading' /\ SessionWindowsStayOpen'
    BY SMTT(40), <1>1, <1>2 DEF TransferInvariant, SourceHeldWhileReading, SessionWindowsStayOpen, IsOpen
<1>9. NoOrphanedGrant'
    BY SMTT(40), <1>1, <1>2 DEF TransferInvariant, NoOrphanedGrant, OnTicket, At
<1>10. QED
    BY <1>5, <1>6, <1>7, <1>8, <1>9, Zenon DEF TransferInvariant

\* A step that closes at most its own ticket keeps the invariant, unless a grant of that ticket
\* is still on its way.
LEMMA RetiringStep ==
    ASSUME TransferInvariant, NEW q, NEW tk, Tracked(q, tk), OneAuthorization', RetiresOnly(tk),
           UNCHANGED <<requesterVars, dead, nextWin, owner, fenced>>,
           order' \in Seq(Windows), \A x : IsOpen(x)' <=> IsOpen(x), active' \in Int, reserved' \in Int,
           jobs' \subseteq jobs, msgs' \subseteq Message,
           \A n \in msgs' : n \in msgs \/ /\ Answers(q, tk, n)
                                          /\ n.kind = "reply" => n.why # "ok"
                                          /\ n.kind = "ack" => Closed(tk)',
           Pinned(tk) /\ ~Pinned(tk)' =>
               /\ \A n \in msgs : n.kind = "reply" => n.tk # tk
               /\ \A j \in jobs' : j.tk = tk => ~(At(q, tk) /\ PhaseOf(q, tk) = "auth")
    PROVE  TransferInvariant'
<1>1. Handles(q, tk)
    BY Zenon DEF Handles, requesterVars, TransferInvariant, TypeOK, RetiresOnly
<1>2. Advances(q, tk)
    BY RetiringAdvances, Zenon DEF Tracked
<1>3. Truthful(q, tk)
    BY Zenon DEF Truthful
<1>4. QED
    BY <1>1, <1>2, <1>3, HandlesKeeps, ZenonT(40)

\* A ticket with a job has no reply and no second job.
LEMMA JobIsAlone ==
    ASSUME TransferInvariant, NEW j \in jobs
    PROVE  /\ \A n \in msgs : n.kind = "reply" => n.tk # j.tk
           /\ \A k \in jobs \ {j} : k.tk # j.tk
    BY Zenon DEF TransferInvariant, OneAuthorization

\* Rolling back a staging transfer (Drop of StagingReservation) keeps the invariant.
LEMMA AbortStagingStep ==
    ASSUME TransferInvariant, NEW j \in jobs, AbortStaging(j)
    PROVE  TransferInvariant'
<1>1. /\ j.stage = "aborting" /\ Rollback(j.tk, FALSE) /\ jobs' = jobs \ {j}
      /\ msgs' = msgs \cup ReplyTo(j.r, j.tk, j.why)
      /\ UNCHANGED <<requesterVars, dead, order, nextWin, owner, fenced>>
    BY Zenon DEF AbortStaging
<1>2. /\ Tracked(j.r, j.tk) /\ j.tk \in Tickets /\ msgs \subseteq Message /\ TypeOK
      /\ j.why \in Reasons /\ j.why # "ok"
    BY <1>1, AllTracked, ZenonT(40) DEF Tracked, TransferInvariant, TypeOK, Job, OneAuthorization
<1>3. /\ ReplyTo(j.r, j.tk, j.why) \subseteq Message
      /\ \A n \in ReplyTo(j.r, j.tk, j.why) : Answers(j.r, j.tk, n) /\ n.kind = "reply" /\ n.why = j.why
    BY SMTT(40), <1>2, ReplyAnswers
<1>4. RetiresOnly(j.tk) /\ active' \in Int /\ reserved' \in Int
    BY <1>1, <1>2, RollbackFacts, Zenon
<1>5. OneAuthorization'
    BY <1>1, <1>3, JobConsumed, Zenon DEF Answers
<1>6. QED
    BY <1>1, <1>2, <1>3, <1>4, <1>5, WindowsUnmoved, JobIsAlone, RetiringStep, ZenonT(40)

\* A handoff that was lost (Drop of PreparedTransfer) keeps the invariant.
LEMMA LoseHandoffStep ==
    ASSUME TransferInvariant, NEW j \in jobs, LoseHandoff(j)
    PROVE  TransferInvariant'
<1>1. /\ Rollback(j.tk, TRUE) /\ jobs' = jobs \ {j}
      /\ UNCHANGED <<requesterVars, dead, order, nextWin, owner, fenced, msgs>>
    BY Zenon DEF LoseHandoff
<1>2. Tracked(j.r, j.tk) /\ j.tk \in Tickets /\ msgs \subseteq Message /\ TypeOK
    BY AllTracked, Zenon DEF Tracked, TransferInvariant, TypeOK
<1>3. RetiresOnly(j.tk) /\ active' \in Int /\ reserved' \in Int
    BY <1>1, <1>2, RollbackFacts, Zenon
<1>4. OneAuthorization'
    BY <1>1, JobConsumed, Zenon
<1>5. QED
    BY <1>1, <1>2, <1>3, <1>4, WindowsUnmoved, JobIsAlone, RetiringStep, Zenon

\* Closing one's own ticket after a mismatch keeps the invariant.
LEMMA RejectMaterializedStep ==
    ASSUME TransferInvariant, NEW j \in jobs, RejectMaterialized(j)
    PROVE  TransferInvariant'
<1>1. /\ Release(j.tk) /\ jobs' = jobs \ {j} /\ msgs' = msgs \cup ReplyTo(j.r, j.tk, "precondition")
      /\ UNCHANGED <<requesterVars, dead, fenced>>
    BY Zenon DEF RejectMaterialized
<1>2. /\ Tracked(j.r, j.tk) /\ j.tk \in Tickets /\ msgs \subseteq Message /\ TypeOK
      /\ "precondition" \in Reasons
    BY AllTracked, Zenon DEF Tracked, TransferInvariant, TypeOK, Reasons
<1>3. /\ ReplyTo(j.r, j.tk, "precondition") \subseteq Message
      /\ \A n \in ReplyTo(j.r, j.tk, "precondition") :
           Answers(j.r, j.tk, n) /\ n.kind = "reply" /\ n.why = "precondition"
    BY SMTT(40), <1>2, ReplyAnswers
<1>4. /\ RetiresOnly(j.tk) /\ active' \in Int /\ reserved' \in Int
      /\ order' \in Seq(Windows) /\ (\A x : IsOpen(x)' <=> IsOpen(x)) /\ UNCHANGED <<nextWin, owner>>
    BY <1>1, <1>2, ReleaseFacts, Zenon
<1>5. OneAuthorization'
    BY <1>1, <1>3, JobConsumed, Zenon DEF Answers
<1>6. QED
    BY <1>1, <1>2, <1>3, <1>4, <1>5, JobIsAlone, RetiringStep, ZenonT(40)

\* A release keeps the invariant: the slot that sent it has given its grant up.
LEMMA HandleReleaseStep ==
    ASSUME TransferInvariant, NEW m \in msgs, HandleRelease(m)
    PROVE  TransferInvariant'
<1>1. /\ m.kind = "release" /\ Release(m.tk) /\ UNCHANGED <<requesterVars, dead, jobs, fenced>>
      /\ msgs' = msgs \cup IF ReleaseAccepted(m.tk) THEN AckTo(m.r, m.tk) ELSE {}
    BY Zenon DEF HandleRelease
<1>2. Tracked(m.r, m.tk) /\ m.r \in Requesters /\ m.tk \in Tickets /\ msgs \subseteq Message /\ TypeOK
    BY <1>1, AllTracked, Zenon DEF Tracked, TransferInvariant, TypeOK
<1>3. /\ AckTo(m.r, m.tk) \subseteq Message
      /\ \A n \in AckTo(m.r, m.tk) : Answers(m.r, m.tk, n) /\ n.kind = "ack"
    BY SMTT(40), <1>2, AckFacts DEF Answers
<1>4. /\ RetiresOnly(m.tk) /\ active' \in Int /\ reserved' \in Int
      /\ order' \in Seq(Windows) /\ (\A x : IsOpen(x)' <=> IsOpen(x)) /\ UNCHANGED <<nextWin, owner>>
      /\ ReleaseAccepted(m.tk) => Closed(m.tk)'
    BY <1>1, <1>2, ReleaseFacts, Zenon
<1>5. OneAuthorization'
    BY <1>1, <1>3, FewerAuthorizations, Zenon
<1>6. ~(At(m.r, m.tk) /\ PhaseOf(m.r, m.tk) = "auth")
    BY <1>1, Zenon DEF TransferInvariant, PhasesAgree
<1>7. \A n \in msgs : n.kind = "reply" => n.tk # m.tk
    BY <1>2, <1>6, Zenon DEF TransferInvariant, PhasesAgree, WindowsOwned, Owns, Tracked
<1>8. /\ msgs' \subseteq Message /\ jobs' \subseteq jobs
      /\ \A n \in msgs' : n \in msgs \/ (Answers(m.r, m.tk, n) /\ n.kind = "ack" /\ Closed(m.tk)')
    BY <1>1, <1>2, <1>3, <1>4, ZenonT(40)
<1>9. QED
    BY <1>1, <1>2, <1>4, <1>5, <1>6, <1>7, <1>8, RetiringStep, ZenonT(40)

\* A ticket that is not stale is one its requester still stands at.
LEMMA FreshTicket ==
    ASSUME TransferInvariant, NEW j \in jobs, j.stage = "validated", IsOpen(j.tk.win), ~StaleTicket(j.tk)
    PROVE  /\ j.tk.gen \in 0..MaxGen /\ SessionOf(j.tk).gen \in Nat /\ SessionOf(j.tk) \in Session
           /\ SessionOf(j.tk).gen < j.tk.gen /\ SessionOf(j.tk).st = "none"
           /\ At(j.r, j.tk)
<1>1. j.tk \in Tickets /\ j.tk.gen \in Nat
    BY SMTT(40), AllTracked, SlotsAssumption DEF Tracked, Tickets
<1>2. SessionOf(j.tk) \in Session
    BY <1>1, ZenonT(40) DEF SessionOf, Tickets, TransferInvariant, TypeOK
<1>3. SessionOf(j.tk).gen \in Nat /\ j.tk.gen \in 0..MaxGen
    BY SMTT(40), <1>1, <1>2 DEF Session, Tickets
<1>4. SessionOf(j.tk).gen < j.tk.gen /\ SessionOf(j.tk).st = "none"
    BY SMTT(40), <1>1, <1>3 DEF StaleTicket
<1>5. ~Closed(j.tk)
    BY SMTT(40), <1>1, <1>3, <1>4 DEF Closed
<1>6. QED
    BY <1>2, <1>3, <1>4, <1>5, ZenonT(40) DEF TransferInvariant, PassedIsClosed

\* What a session may become under a fresh ticket.
LEMMA FreshSession ==
    ASSUME TransferInvariant, NEW j \in jobs, j.stage = "validated", IsOpen(j.tk.win), ~StaleTicket(j.tk),
           NEW new \in Session, new.gen = j.tk.gen, new.st \in {"none", "staging"},
           sess' = SetSession(j.tk, new), \A x : IsOpen(x)' <=> IsOpen(x)
    PROVE  /\ sess' \in [Windows -> [Slots -> Session]]
           /\ Advances(j.r, j.tk) /\ ~Pinned(j.tk)
<1>1. /\ TypeOK /\ j.tk \in Tickets
      /\ j.tk.gen \in 0..MaxGen /\ SessionOf(j.tk).gen \in Nat
      /\ SessionOf(j.tk).gen < j.tk.gen /\ SessionOf(j.tk).st = "none"
      /\ At(j.r, j.tk)
    BY AllTracked, FreshTicket, ZenonT(40) DEF Tracked, TransferInvariant
<1>2. /\ sess' \in [Windows -> [Slots -> Session]]
      /\ \A w \in Windows, s \in Slots :
           sess'[w][s] = IF w = j.tk.win /\ s = j.tk.slot THEN new ELSE sess[w][s]
    BY SMTT(40), <1>1, SetSessionFacts
<1>3. ASSUME NEW k \in Tickets PROVE (Closed(k) => Closed(k)') /\ (Pinned(k) => Pinned(k)')
  <2>1. k.win \in Windows /\ k.slot \in Slots /\ k.gen \in Nat
      BY SMTT(40), SlotsAssumption DEF Tickets
  <2>2. CASE k.win = j.tk.win /\ k.slot = j.tk.slot
    <3>1. SessionOf(k) = SessionOf(j.tk) /\ sess'[k.win][k.slot].gen = j.tk.gen
        BY <1>2, <2>1, <2>2, ZenonT(40) DEF SessionOf
    <3>2. Closed(k) => k.gen < j.tk.gen
        BY SMTT(40), <1>1, <2>1, <2>2, <3>1 DEF Closed
    <3>3. QED
        BY <1>1, <3>1, <3>2, Zenon DEF Closed, Pinned, SessionOf
  <2>3. CASE ~(k.win = j.tk.win /\ k.slot = j.tk.slot)
    <3>1. sess'[k.win][k.slot] = sess[k.win][k.slot]
        BY <1>2, <2>1, <2>3, Zenon
    <3>2. QED
        BY <3>1, Zenon DEF Closed, Pinned, SessionOf
  <2>4. QED
      BY <2>2, <2>3, Zenon
<1>4. \A w \in Windows, s \in Slots : sess'[w][s].st # "none" => IsOpen(w)
    BY <1>2, ZenonT(40) DEF TransferInvariant, SessionWindowsStayOpen
<1>5. \A w \in Windows, s \in Slots :
         sess'[w][s].st \in {"staging", "ready"} =>
             \/ sess[w][s].st \in {"staging", "ready"} /\ sess'[w][s].gen = sess[w][s].gen
             \/ w = j.tk.win /\ s = j.tk.slot /\ sess'[w][s].gen = j.tk.gen /\ At(j.r, j.tk)
    BY <1>1, <1>2, ZenonT(40)
<1>6. QED
    BY <1>1, <1>2, <1>3, <1>4, <1>5, Zenon DEF Advances, Pinned

\* Admission starts a transfer only under a ticket its requester still stands at.
LEMMA AdmitTransferStep ==
    ASSUME TransferInvariant, NEW j \in jobs, NEW bytes \in Footprints, AdmitTransfer(j, bytes)
    PROVE  TransferInvariant'
<1>1. /\ j.stage = "validated" /\ IsOpen(j.tk.win) /\ ~StaleTicket(j.tk) /\ order' = ToBack(j.tk.win)
      /\ UNCHANGED <<slot, window, permits, dead, nextWin, owner, fenced>>
    BY Zenon DEF AdmitTransfer, requesterVars
<1>2. /\ TypeOK /\ Tracked(j.r, j.tk) /\ j \in Job /\ j.tk \in Tickets /\ j.tk.win \in Windows
      /\ jobs \subseteq Job /\ msgs \subseteq Message /\ active \in Int /\ reserved \in Int
    BY AllTracked, Zenon DEF Tracked, TransferInvariant, TypeOK, Tickets
<1>3. order' \in Seq(Windows) /\ \A x : IsOpen(x)' <=> IsOpen(x)
    BY <1>1, <1>2, TouchFacts, Zenon
<1>4. CASE OverBudget(bytes)
  <2> DEFINE new == [SessionOf(j.tk) EXCEPT !.gen = j.tk.gen]
  <2>1. /\ sess' = SetSession(j.tk, new) /\ jobs' = jobs \ {j}
        /\ msgs' = msgs \cup ReplyTo(j.r, j.tk, "exhausted") /\ UNCHANGED <<active, reserved>>
      BY <1>4, Zenon DEF AdmitTransfer
  <2>2. new \in Session /\ new.gen = j.tk.gen /\ new.st = "none"
    <3>1. /\ j.tk.gen \in 0..MaxGen /\ SessionOf(j.tk) \in Session /\ SessionOf(j.tk).st = "none"
        BY <1>1, FreshTicket, Zenon
    <3>2. QED
        BY <3>1, Zenon DEF Session
  <2> HIDE DEF new
  <2>3. sess' \in [Windows -> [Slots -> Session]] /\ Advances(j.r, j.tk) /\ ~Pinned(j.tk)
      BY <1>1, <1>3, <2>1, <2>2, FreshSession, ZenonT(40)
  <2>4. /\ ReplyTo(j.r, j.tk, "exhausted") \subseteq Message
        /\ \A n \in ReplyTo(j.r, j.tk, "exhausted") :
             Answers(j.r, j.tk, n) /\ n.kind = "reply" /\ n.why = "exhausted"
      BY <1>2, ReplyAnswers, Zenon DEF Reasons
  <2>5. Handles(j.r, j.tk)
      BY <1>1, <1>2, <1>3, <2>1, <2>3, <2>4, Zenon DEF Handles
  <2>6. Truthful(j.r, j.tk)
      BY <2>1, <2>3, <2>4, Zenon DEF Truthful
  <2>7. OneAuthorization'
      BY <2>1, <2>4, JobConsumed, ZenonT(40) DEF Answers
  <2>8. QED
      BY <1>2, <2>3, <2>5, <2>6, <2>7, HandlesKeeps, Zenon
<1>5. CASE ~OverBudget(bytes)
  <2> DEFINE new == [gen |-> j.tk.gen, st |-> "staging", bytes |-> bytes, expired |-> FALSE]
             k == [j EXCEPT !.stage = "staging"]
  <2>1. /\ sess' = SetSession(j.tk, new) /\ jobs' = (jobs \ {j}) \cup {k}
        /\ msgs' = msgs /\ active' = active + 1 /\ reserved' = reserved + bytes
      BY <1>5, Zenon DEF AdmitTransfer
  <2>2. new \in Session /\ new.gen = j.tk.gen /\ new.st = "staging" /\ bytes \in Nat
    <3>1. j.tk.gen \in 0..MaxGen /\ bytes \in Nat
        BY <1>1, FreshTicket, BudgetAssumption, Zenon
    <3>2. QED
        BY <3>1, Zenon DEF Session, SessionStates
  <2>3. k \in Job /\ k.r = j.r /\ k.tk = j.tk /\ k.stage = "staging"
      BY <1>2, Zenon DEF Job
  <2> HIDE DEF new, k
  <2>4. sess' \in [Windows -> [Slots -> Session]] /\ Advances(j.r, j.tk) /\ ~Pinned(j.tk)
      BY <1>1, <1>3, <2>1, <2>2, FreshSession, ZenonT(40)
  <2>5. Handles(j.r, j.tk)
    <3>1. active' \in Int /\ reserved' \in Int
        BY SMTT(40), <1>2, <2>1, <2>2
    <3>2. jobs' \subseteq Job /\ \A i \in jobs' : i \in jobs \/ (i.r = j.r /\ i.tk = j.tk)
        BY <1>2, <2>1, <2>3, Zenon
    <3>3. msgs' \subseteq Message /\ \A n \in msgs' : n \in msgs
        BY <1>2, <2>1, Zenon
    <3>4. QED
        BY <1>1, <1>3, <2>4, <3>1, <3>2, <3>3, ZenonT(40) DEF Handles
  <2>6. Truthful(j.r, j.tk)
      BY <2>1, <2>3, <2>4, ZenonT(40) DEF Truthful
  <2>7. OneAuthorization'
      BY <2>1, <2>3, JobReplaced, ZenonT(40)
  <2>8. QED
      BY Zenon, <1>2, <2>4, <2>5, <2>6, <2>7, HandlesKeeps
<1>6. QED
    BY <1>4, <1>5, Zenon

\* A committed session is pinned, and no other session moves.
LEMMA CommittedSession ==
    ASSUME TransferInvariant, NEW q, NEW tk \in Tickets, Committable(tk), IsOpen(tk.win),
           NEW new \in Session, new.gen = tk.gen, new.st = "ready",
           sess' = SetSession(tk, new), \A x : IsOpen(x)' <=> IsOpen(x)
    PROVE  sess' \in [Windows -> [Slots -> Session]] /\ Advances(q, tk) /\ Pinned(tk)'
<1>1. /\ sess' \in [Windows -> [Slots -> Session]]
      /\ \A w \in Windows, s \in Slots :
           sess'[w][s] = IF w = tk.win /\ s = tk.slot THEN new ELSE sess[w][s]
    BY SMTT(40), SetSessionFacts DEF TransferInvariant
<1>2. /\ tk.win \in Windows /\ tk.slot \in Slots
      /\ sess[tk.win][tk.slot].st = "staging" /\ sess[tk.win][tk.slot].gen = tk.gen
    BY Zenon DEF Committable, SessionOf, Tickets
<1>3. \A w \in Windows, s \in Slots :
         /\ sess'[w][s].gen = sess[w][s].gen
         /\ \/ sess'[w][s].st = sess[w][s].st
            \/ sess[w][s].st = "staging" /\ sess'[w][s].st = "ready"
    BY <1>1, <1>2, Zenon
<1>4. \A k \in Tickets : (Closed(k) => Closed(k)') /\ (Pinned(k) => Pinned(k)')
    BY <1>3, ZenonT(40) DEF Closed, Pinned, SessionOf, Tickets
<1>5. (\A w \in Windows, s \in Slots : sess'[w][s].st # "none" => IsOpen(w)) /\ Pinned(tk)'
    BY SMTT(40), <1>1, <1>2, <1>3 DEF TransferInvariant, SessionWindowsStayOpen, Pinned, SessionOf
<1>6. QED
    BY <1>1, <1>3, <1>4, <1>5, ZenonT(40) DEF Advances

\* A commit pins exactly the ticket that was staging, and only then is the job prepared.
LEMMA CommitStagingStep ==
    ASSUME TransferInvariant, NEW j \in jobs, NEW bytes \in Footprints, CommitStaging(j, bytes)
    PROVE  TransferInvariant'
<1> DEFINE ses == SessionOf(j.tk)
           others == reserved - ses.bytes
           over == bytes > Budget - others
<1>1. /\ IsOpen(j.tk.win) /\ order' = ToBack(j.tk.win)
      /\ UNCHANGED <<slot, window, permits, dead, nextWin, owner, active, fenced, msgs>>
    BY Zenon DEF CommitStaging, requesterVars
<1>2. /\ TypeOK /\ Tracked(j.r, j.tk) /\ j \in Job /\ j.tk \in Tickets /\ j.tk.win \in Windows
      /\ jobs \subseteq Job /\ msgs \subseteq Message /\ active \in Int /\ reserved \in Int /\ ses \in Session
    BY AllTracked, ZenonT(40) DEF Tracked, TransferInvariant, TypeOK, Tickets, SessionOf
<1>3. order' \in Seq(Windows) /\ \A x : IsOpen(x)' <=> IsOpen(x)
    BY <1>1, <1>2, TouchFacts, Zenon
<1>4. CASE ~Committable(j.tk) \/ over
  <2>1. PICK why \in {"precondition", "exhausted"} :
           jobs' = (jobs \ {j}) \cup {[j EXCEPT !.stage = "aborting", !.why = why]} /\ UNCHANGED <<sess, reserved>>
      BY <1>4, Zenon DEF CommitStaging
  <2>2. why \in Reasons \ {"ok"}
      BY Zenon DEF Reasons
  <2>3. QED
      BY <1>1, <1>3, <2>1, <2>2, AbortingStep, Zenon DEF requesterVars
<1>5. CASE Committable(j.tk) /\ ~over
  <2> DEFINE k == [j EXCEPT !.stage = "prepared"]
             new == [ses EXCEPT !.st = "ready", !.bytes = bytes]
  <2>1. jobs' = (jobs \ {j}) \cup {k} /\ sess' = SetSession(j.tk, new) /\ reserved' = others + bytes
      BY <1>5, Zenon DEF CommitStaging
  <2>2. k \in Job /\ k.r = j.r /\ k.tk = j.tk /\ k.stage = "prepared"
      BY <1>2, Zenon DEF Job
  <2>3. new \in Session /\ new.st = "ready" /\ new.gen = j.tk.gen /\ bytes \in Nat /\ reserved' \in Int
    <3>1. bytes \in Nat /\ ses.gen = j.tk.gen /\ ses.bytes \in Int
        BY SMTT(40), <1>2, <1>5, BudgetAssumption DEF Committable, Session
    <3>2. new \in Session /\ new.st = "ready" /\ new.gen = ses.gen
        BY <1>2, <3>1, Zenon DEF Session, SessionStates
    <3>3. others + bytes \in Int
        BY SMTT(40), <1>2, <3>1
    <3>4. QED
        BY <2>1, <3>1, <3>2, <3>3, ZenonT(40)
  <2> HIDE DEF k, new
  <2>4. sess' \in [Windows -> [Slots -> Session]] /\ Advances(j.r, j.tk) /\ Pinned(j.tk)'
      BY <1>1, <1>2, <1>3, <1>5, <2>1, <2>3, CommittedSession, ZenonT(40)
  <2>5. Handles(j.r, j.tk)
      BY <1>1, <1>2, <1>3, <2>1, <2>2, <2>3, <2>4, ZenonT(40) DEF Handles
  <2>6. Truthful(j.r, j.tk)
      BY <1>1, <2>1, <2>2, <2>4, Zenon DEF Truthful
  <2>7. OneAuthorization'
      BY <1>1, <2>1, <2>2, JobReplaced, Zenon
  <2>8. QED
      BY <1>2, <2>4, <2>5, <2>6, <2>7, HandlesKeeps, ZenonT(40)
<1>6. QED
    BY <1>4, <1>5, Zenon
=============================================================================
