------------------------- MODULE PeerTransferBooks --------------------------
(***************************************************************************)
(* The counters of the source and the permits of the requesters: always    *)
(* equal to a recount of the sessions and slots, and inside their limits.  *)
(***************************************************************************)
EXTENDS PeerTransferTheorems

\* A sum over a finite set.
LEMMA SumFacts ==
    ASSUME SummingFacts, NEW S, IsFiniteSet(S), NEW f, \A x \in S : f[x] \in Nat
    PROVE  SumOf(f, S) \in Nat /\ (S = {} => SumOf(f, S) = 0)
BY Zenon DEF SummingFacts

\* Functions that agree have the same sum.
LEMMA SumSame ==
    ASSUME SummingFacts, NEW S, IsFiniteSet(S), NEW f, \A x \in S : f[x] \in Nat, NEW e, \A x \in S : e[x] = f[x]
    PROVE  SumOf(e, S) = SumOf(f, S)
BY Zenon DEF SummingFacts

\* One element more.
LEMMA SumAdd ==
    ASSUME SummingFacts, NEW S, IsFiniteSet(S), NEW x, x \notin S, NEW f, \A y \in S \cup {x} : f[y] \in Nat
    PROVE  SumOf(f, S \cup {x}) = f[x] + SumOf(f, S)
BY Zenon DEF SummingFacts

\* One element of another size.
LEMMA SumChange ==
    ASSUME SummingFacts, NEW S, IsFiniteSet(S), NEW x \in S, NEW f, \A y \in S : f[y] \in Nat,
           NEW e, \A y \in S : e[y] \in Nat, \A y \in S : y # x => e[y] = f[y]
    PROVE  SumOf(e, S) = SumOf(f, S) - f[x] + e[x]
BY SMTT(40) DEF SummingFacts

\* A finite set with one element more.
LEMMA OneMore ==
    ASSUME FiniteFacts, NEW S, IsFiniteSet(S), NEW x, x \notin S, NEW T, T = S \cup {x}
    PROVE  Cardinality(T) = Cardinality(S) + 1
BY Zenon DEF FiniteFacts

\* The size of a finite set.
LEMMA SizeOf == ASSUME FiniteFacts, NEW S, IsFiniteSet(S) PROVE Cardinality(S) \in Nat
BY Zenon DEF FiniteFacts

\* There are finitely many places for a session.
LEMMA PlacesFinite ==
    ASSUME FiniteFacts, SummingFacts
    PROVE  IsFiniteSet(Slots) /\ IsFiniteSet(Places) /\ \A S \in SUBSET Places : IsFiniteSet(S)
<1>1. WindowIds \in Int /\ NumSlots \in Int
    BY SMTT(40), SlotsAssumption, WindowsAssumption
<1>2. IsFiniteSet(Windows) /\ IsFiniteSet(Slots)
    BY <1>1, Zenon DEF FiniteFacts, Windows, Slots
<1>3. IsFiniteSet(Places)
    BY <1>2, Zenon DEF SummingFacts, Places
<1> QED BY <1>2, <1>3, Zenon DEF FiniteFacts

\* The recounts.
Counted(table) == Cardinality(OccupiedIn(table))
Reserved(table) == SumOf(BytesIn(table), OccupiedIn(table))

\* What one session more, fewer or of another size does to a recount.
LEMMA Recount ==
    ASSUME FiniteFacts, SummingFacts, NEW old, NEW new, NEW p \in Places,
           \A q \in Places \ {p} : new[q[1]][q[2]] = old[q[1]][q[2]],
           \A q \in Places : old[q[1]][q[2]].bytes \in Nat /\ new[q[1]][q[2]].bytes \in Nat
    PROVE  /\ Counted(old) \in Nat /\ Reserved(old) \in Nat /\ Counted(new) \in Nat /\ Reserved(new) \in Nat
           /\ old[p[1]][p[2]].st = "none" /\ new[p[1]][p[2]].st = "none" =>
                Counted(new) = Counted(old) /\ Reserved(new) = Reserved(old)
           /\ old[p[1]][p[2]].st = "none" /\ new[p[1]][p[2]].st # "none" =>
                Counted(new) = Counted(old) + 1 /\ Reserved(new) = new[p[1]][p[2]].bytes + Reserved(old)
           /\ old[p[1]][p[2]].st # "none" /\ new[p[1]][p[2]].st # "none" =>
                /\ Counted(new) = Counted(old)
                /\ Reserved(new) = Reserved(old) - old[p[1]][p[2]].bytes + new[p[1]][p[2]].bytes
           /\ old[p[1]][p[2]].st # "none" /\ new[p[1]][p[2]].st = "none" =>
                Counted(old) = Counted(new) + 1 /\ Reserved(old) = old[p[1]][p[2]].bytes + Reserved(new)
<1> DEFINE S == OccupiedIn(old)
           T == OccupiedIn(new)
           f == BytesIn(old)
           g == BytesIn(new)
<1>1. S \in SUBSET Places /\ T \in SUBSET Places
    BY Zenon DEF OccupiedIn
<1>2. IsFiniteSet(S) /\ IsFiniteSet(T)
    BY ZenonT(40), <1>1, PlacesFinite
<1>3. \A q \in Places : f[q] \in Nat /\ g[q] \in Nat
    BY Zenon DEF BytesIn
<1>4. f[p] = old[p[1]][p[2]].bytes /\ g[p] = new[p[1]][p[2]].bytes /\ \A q \in Places \ {p} : g[q] = f[q]
    BY Zenon DEF BytesIn
<1>5. /\ p \in S <=> old[p[1]][p[2]].st # "none"
      /\ p \in T <=> new[p[1]][p[2]].st # "none"
      /\ \A q \in Places \ {p} : q \in S <=> q \in T
    BY Zenon DEF OccupiedIn
<1>6. /\ Counted(old) = Cardinality(S) /\ Reserved(old) = SumOf(f, S)
      /\ Counted(new) = Cardinality(T) /\ Reserved(new) = SumOf(g, T)
    BY Zenon DEF Counted, Reserved
<1> HIDE DEF S, T, f, g
<1>7. Cardinality(S) \in Nat /\ Cardinality(T) \in Nat /\ SumOf(f, S) \in Nat /\ SumOf(g, T) \in Nat
    BY ZenonT(40), <1>1, <1>2, <1>3, SizeOf, SumFacts
<1>8. ASSUME p \notin S, p \notin T
      PROVE  Cardinality(T) = Cardinality(S) /\ SumOf(g, T) = SumOf(f, S)
  <2>0. \A q \in Places : q \in S <=> q \in T
      BY ZenonT(40), <1>5, <1>8
  <2>1. T = S /\ \A q \in S : g[q] = f[q] /\ f[q] \in Nat
    <3>1. T = S
        BY <1>1, <2>0, ZenonT(40)
    <3>2. \A q \in S : g[q] = f[q] /\ f[q] \in Nat
        BY ZenonT(40), <1>1, <1>3, <1>4, <1>8
    <3> QED BY ZenonT(40), <3>1, <3>2
  <2>2. SumOf(g, S) = SumOf(f, S)
      BY ZenonT(40), <1>2, <2>1, SumSame
  <2> QED BY ZenonT(40), <2>1, <2>2
<1>9. ASSUME p \notin S, p \in T
      PROVE  Cardinality(T) = Cardinality(S) + 1 /\ SumOf(g, T) = g[p] + SumOf(f, S)
  <2>1. T = S \cup {p} /\ \A q \in S : g[q] = f[q] /\ f[q] \in Nat
      BY ZenonT(40), <1>1, <1>3, <1>4, <1>5, <1>9
  <2>2. SumOf(g, S) = SumOf(f, S)
      BY ZenonT(40), <1>2, <2>1, SumSame
  <2>3. \A q \in S \cup {p} : g[q] \in Nat
      BY ZenonT(40), <1>1, <1>3
  <2>4. SumOf(g, S \cup {p}) = g[p] + SumOf(g, S)
      BY <1>2, <1>9, <2>3, SumAdd, ZenonT(40)
  <2>5. Cardinality(T) = Cardinality(S) + 1
      BY <1>2, <1>9, <2>1, OneMore, ZenonT(40)
  <2> QED BY ZenonT(40), <2>1, <2>2, <2>4, <2>5
<1>10. ASSUME p \in S, p \in T
       PROVE  Cardinality(T) = Cardinality(S) /\ SumOf(g, T) = SumOf(f, S) - f[p] + g[p]
  <2>1. T = S
    <3>1. \A q \in Places : q \in S <=> q \in T
        BY ZenonT(40), <1>5, <1>10
    <3> QED BY <1>1, <3>1, ZenonT(40)
  <2>2. /\ \A q \in S : f[q] \in Nat /\ g[q] \in Nat
        /\ \A q \in S : q # p => g[q] = f[q]
      BY ZenonT(40), <1>1, <1>3, <1>4
  <2>3. SumOf(g, S) = SumOf(f, S) - f[p] + g[p]
      BY SMTT(40), <1>2, <1>10, <2>2, SumChange
  <2> QED BY ZenonT(40), <2>1, <2>3
<1>11. ASSUME p \in S, p \notin T
       PROVE  Cardinality(S) = Cardinality(T) + 1 /\ SumOf(f, S) = f[p] + SumOf(g, T)
  <2>1. S = T \cup {p} /\ \A q \in T : f[q] = g[q] /\ g[q] \in Nat
      BY ZenonT(40), <1>1, <1>3, <1>4, <1>5, <1>11
  <2>2. SumOf(f, T) = SumOf(g, T)
      BY ZenonT(40), <1>2, <2>1, SumSame
  <2>3. \A q \in T \cup {p} : f[q] \in Nat
      BY ZenonT(40), <1>1, <1>3
  <2>4. SumOf(f, T \cup {p}) = f[p] + SumOf(f, T)
      BY <1>2, <1>11, <2>3, SumAdd, ZenonT(40)
  <2>5. Cardinality(S) = Cardinality(T) + 1
      BY <1>2, <1>11, <2>1, OneMore, ZenonT(40)
  <2> QED BY ZenonT(40), <2>1, <2>2, <2>4, <2>5
<1> QED BY ZenonT(40), <1>4, <1>5, <1>6, <1>7, <1>8, <1>9, <1>10, <1>11

\* The recount follows every change of a session.
LEMMA AccountingStep ==
    ASSUME FiniteFacts, SummingFacts, TypeOK, AccountingExact, SourceChange
    PROVE  AccountingExact'
<1>1. AccountingExact <=> /\ active = Counted(sess) /\ reserved = Reserved(sess)
                          /\ active <= MaxSessions /\ reserved <= Budget
    BY Zenon DEF AccountingExact, Counted, Reserved, Occupied
<1>2. AccountingExact' <=> /\ active' = Counted(sess') /\ reserved' = Reserved(sess')
                           /\ active' <= MaxSessions /\ reserved' <= Budget
    BY Zenon DEF AccountingExact, Counted, Reserved, Occupied
<1>3. CASE UNCHANGED <<sess, active, reserved>>
    BY <1>1, <1>2, <1>3, ZenonT(40)
<1>4. ASSUME NEW tk \in Tickets, SessionChange(tk) PROVE AccountingExact'
  <2> DEFINE p == <<tk.win, tk.slot>>
             table == sess'
             old == sess[tk.win][tk.slot]
             new == sess'[tk.win][tk.slot]
  <2>1. /\ p \in Places /\ p[1] = tk.win /\ p[2] = tk.slot /\ tk.win \in Windows /\ tk.slot \in Slots
      BY Zenon DEF Places, Tickets
  <2>2. /\ \A q \in Places \ {p} : table[q[1]][q[2]] = sess[q[1]][q[2]]
        /\ \A q \in Places : sess[q[1]][q[2]].bytes \in Nat /\ table[q[1]][q[2]].bytes \in Nat
    <3>1. sess' \in [Windows -> [Slots -> Session]] /\ sess \in [Windows -> [Slots -> Session]]
        BY Zenon, <1>4 DEF SessionChange, TypeOK
    <3>2. \A w \in Windows, s \in Slots : sess[w][s].bytes \in Nat /\ sess'[w][s].bytes \in Nat
        BY Zenon, <3>1 DEF Session
    <3>3. \A q \in Places : q[1] \in Windows /\ q[2] \in Slots
        BY Zenon DEF Places
    <3> QED BY <1>4, <3>2, <3>3, ZenonT(40) DEF SessionChange
  <2>3. Booked(tk, old, new) /\ old.bytes \in Nat /\ new.bytes \in Nat
    <3>1. Booked(tk, old, new)
        BY <1>4, Zenon DEF SessionChange
    <3> QED BY ZenonT(40), <2>1, <2>2, <3>1
  <2>4. /\ old = sess[p[1]][p[2]] /\ new = table[p[1]][p[2]]
      BY Zenon, <2>1
  <2> HIDE DEF p, table, old, new
  <2>5. /\ Counted(sess) \in Nat /\ Reserved(sess) \in Nat /\ Counted(table) \in Nat /\ Reserved(table) \in Nat
        /\ old.st = "none" /\ new.st = "none" =>
             Counted(table) = Counted(sess) /\ Reserved(table) = Reserved(sess)
        /\ old.st = "none" /\ new.st # "none" =>
             Counted(table) = Counted(sess) + 1 /\ Reserved(table) = new.bytes + Reserved(sess)
        /\ old.st # "none" /\ new.st # "none" =>
             Counted(table) = Counted(sess) /\ Reserved(table) = Reserved(sess) - old.bytes + new.bytes
        /\ old.st # "none" /\ new.st = "none" =>
             Counted(sess) = Counted(table) + 1 /\ Reserved(sess) = old.bytes + Reserved(table)
    <3> DEFINE o == sess[p[1]][p[2]]
               n == table[p[1]][p[2]]
    <3>1. /\ Counted(sess) \in Nat /\ Reserved(sess) \in Nat /\ Counted(table) \in Nat /\ Reserved(table) \in Nat
          /\ o.st = "none" /\ n.st = "none" =>
               Counted(table) = Counted(sess) /\ Reserved(table) = Reserved(sess)
          /\ o.st = "none" /\ n.st # "none" =>
               Counted(table) = Counted(sess) + 1 /\ Reserved(table) = n.bytes + Reserved(sess)
          /\ o.st # "none" /\ n.st # "none" =>
               Counted(table) = Counted(sess) /\ Reserved(table) = Reserved(sess) - o.bytes + n.bytes
          /\ o.st # "none" /\ n.st = "none" =>
               Counted(sess) = Counted(table) + 1 /\ Reserved(sess) = o.bytes + Reserved(table)
        BY <2>1, <2>2, Recount, ZenonT(40)
    <3> QED BY ZenonT(40), <2>4, <3>1
  <2>6. /\ active' = Counted(table) /\ reserved' = Reserved(table)
        /\ active' <= MaxSessions /\ reserved' <= Budget
    <3>1. CASE (Marks(old, new) \/ Closes(old, new)) /\ active' = active /\ reserved' = reserved
        BY SMTT(40), <1>1, <2>3, <2>5, <3>1 DEF Marks, Closes
    <3>2. CASE /\ Admits(old, new) /\ active < MaxSessions /\ new.bytes <= Budget - reserved
               /\ active' = active + 1 /\ reserved' = reserved + new.bytes
        BY SMTT(40), <1>1, <2>3, <2>5, <3>2, BudgetAssumption DEF Admits
    <3>3. CASE /\ Commits(old, new) /\ active' = active
               /\ reserved' = reserved - old.bytes + new.bytes /\ reserved' <= Budget
        BY ZenonT(40), <1>1, <2>3, <2>5, <3>3 DEF Commits
    <3>4. CASE Frees(old, new) /\ active' = active - 1 /\ reserved' = reserved - old.bytes
        BY SMTT(40), <1>1, <2>3, <2>5, <3>4, BudgetAssumption DEF Frees
    <3> QED BY ZenonT(40), <2>3, <3>1, <3>2, <3>3, <3>4 DEF Booked
  <2> QED BY ZenonT(40), <1>2, <2>6 DEF table
<1> QED BY ZenonT(40), <1>3, <1>4 DEF SourceChange

\* The permits follow the slots in use.
LEMMA PermitsStep ==
    ASSUME FiniteFacts, SummingFacts, TypeOK, PermitsExact, \A r \in Requesters : SameBusy(r) \/ Takes(r) \/ GivesBack(r)
    PROVE  PermitsExact'
<1> SUFFICES ASSUME NEW r \in Requesters
             PROVE  permits'[r] = MaxCompletions - Cardinality(Busy(slot', r))
    BY Zenon DEF PermitsExact, Busy
<1>1. permits[r] = MaxCompletions - Cardinality(Busy(slot, r)) /\ permits[r] \in Nat
    BY Zenon DEF PermitsExact, Busy, TypeOK
<1>2. IsFiniteSet(Slots)
    BY PlacesFinite, Zenon
<1>3. /\ IsFiniteSet(Busy(slot, r)) /\ IsFiniteSet(Busy(slot', r))
  <2>1. Busy(slot, r) \subseteq Slots /\ Busy(slot', r) \subseteq Slots
      BY Zenon DEF Busy
  <2> QED BY ZenonT(40), <1>2, <2>1 DEF FiniteFacts
<1>4. Cardinality(Busy(slot, r)) \in Nat /\ Cardinality(Busy(slot', r)) \in Nat /\ MaxCompletions \in Int
  <2>1. Cardinality(Busy(slot, r)) \in Nat /\ Cardinality(Busy(slot', r)) \in Nat
      BY <1>3, SizeOf, ZenonT(40)
  <2> QED BY SMTT(40), <2>1, BudgetAssumption
<1>5. CASE SameBusy(r)
    BY <1>1, <1>5, ZenonT(40) DEF SameBusy
<1>6. ASSUME NEW s \in Slots \ Busy(slot, r), Busy(slot', r) = Busy(slot, r) \cup {s}, permits'[r] = permits[r] - 1
      PROVE  permits'[r] = MaxCompletions - Cardinality(Busy(slot', r))
  <2>1. Cardinality(Busy(slot', r)) = Cardinality(Busy(slot, r)) + 1
      BY <1>3, <1>6, OneMore, ZenonT(40)
  <2> QED BY SMTT(40), <1>1, <1>4, <1>6, <2>1
<1>7. ASSUME NEW s \in Busy(slot, r), Busy(slot', r) = Busy(slot, r) \ {s}, permits'[r] = permits[r] + 1
      PROVE  permits'[r] = MaxCompletions - Cardinality(Busy(slot', r))
  <2>1. Busy(slot, r) = Busy(slot', r) \cup {s} /\ s \notin Busy(slot', r)
      BY <1>7, ZenonT(40)
  <2>2. Cardinality(Busy(slot, r)) = Cardinality(Busy(slot', r)) + 1
      BY <1>3, <2>1, OneMore, ZenonT(40)
  <2> QED BY SMTT(40), <1>1, <1>4, <1>7, <2>2
<1> QED BY <1>5, <1>6, <1>7, ZenonT(40) DEF Takes, GivesBack

\* Every step keeps the books of both sides.
LEMMA BooksStep ==
    ASSUME FiniteFacts, SummingFacts, TransferInvariant, AccountingExact, PermitsExact, [Next]_vars
    PROVE  AccountingExact' /\ PermitsExact'
<1>0. TypeOK
    BY Zenon DEF TransferInvariant
<1>1. CASE Next
  <2>1. AccountingExact'
      BY <1>0, <1>1, NextChanges, AccountingStep, ZenonT(40)
  <2>2. \A q \in Requesters : SameBusy(q) \/ Takes(q) \/ GivesBack(q)
    <3>1. CASE \E r \in Requesters : RequesterStep(r)
        BY <3>1, RequesterPermits, ZenonT(40)
    <3>2. CASE ~(\E r \in Requesters : RequesterStep(r))
      <4>1. slot' = slot /\ permits' = permits
          BY <1>1, <3>2, SourceKeepsSlots, ZenonT(40) DEF Next
      <4> QED BY <4>1, SameSlots, ZenonT(40)
    <3> QED BY ZenonT(40), <3>1, <3>2
  <2> QED BY <1>0, <2>1, <2>2, PermitsStep, ZenonT(40)
<1>2. CASE UNCHANGED vars
    BY <1>2, Zenon DEF vars, requesterVars, sourceVars, AccountingExact, PermitsExact, Occupied, OccupiedIn, BytesIn
<1> QED BY ZenonT(40), <1>1, <1>2

\* Before the first transfer nothing is reserved and every permit is free.
LEMMA BooksInit ==
    ASSUME FiniteFacts, SummingFacts, Init
    PROVE  AccountingExact /\ PermitsExact
<1>1. \A w \in Windows, s \in Slots : sess[w][s].st = "none"
    BY Zenon DEF Init, NewSession
<1>2. Occupied = {}
    BY ZenonT(40), <1>1 DEF Occupied, OccupiedIn, Places
<1>3. active = 0 /\ reserved = 0
    BY Zenon DEF Init
<1>4. Cardinality({}) = 0 /\ SumOf(BytesIn(sess), {}) = 0
  <2>1. SumOf(BytesIn(sess), {}) = 0
    <3>1. IsFiniteSet({}) /\ \A x \in {} : BytesIn(sess)[x] \in Nat
        BY Zenon DEF FiniteFacts
    <3> QED BY <3>1, SumFacts, ZenonT(40)
  <2> QED BY Zenon, <2>1 DEF FiniteFacts
<1>5. AccountingExact
    BY SMTT(40), <1>2, <1>3, <1>4, BudgetAssumption DEF AccountingExact
<1>6. ASSUME NEW r \in Requesters
      PROVE  permits[r] = MaxCompletions - Cardinality({s \in Slots : slot[r][s].phase # "free"})
  <2>1. \A s \in Slots : slot[r][s].phase = "free"
      BY Zenon DEF Init, NewSlot
  <2>2. {s \in Slots : slot[r][s].phase # "free"} = {}
      BY ZenonT(40), <2>1
  <2>3. permits[r] = MaxCompletions
      BY Zenon DEF Init
  <2> DEFINE n == Cardinality({s \in Slots : slot[r][s].phase # "free"})
  <2>4. n = 0
      BY <1>4, <2>2, ZenonT(40)
  <2> HIDE DEF n
  <2>5. permits[r] = MaxCompletions - n
      BY SMTT(40), <2>3, <2>4, BudgetAssumption
  <2> QED BY ZenonT(40), <2>5 DEF n
<1> QED BY ZenonT(40), <1>5, <1>6 DEF PermitsExact

-----------------------------------------------------------------------------
Counting == INSTANCE OperatorTheorems

\* The facts on finite sets and sums that the steps assume.
LEMMA SummingHolds == FiniteFacts /\ SummingFacts
<1>1. \A S : Counting!IsFiniteSet(S) <=> IsFiniteSet(S)
  BY Zenon DEF IsFiniteSet, Counting!IsFiniteSet
<1>2. \A S : Counting!Cardinality(S) = Cardinality(S)
  BY Zenon DEF Cardinality, Counting!Cardinality
<1>3. \A f, S : Counting!SumOf(f, S) = SumOf(f, S)
  BY Zenon DEF SumOf, Counting!SumOf, Sums, Counting!Sums, Pick, Counting!Pick
<1>4. FiniteFacts
  <2> USE Counting!CountingHolds DEF Counting!CountingFacts, Counting!FiniteFacts
  <2>1. \A n \in Int : IsFiniteSet(1 .. n)
    BY ZenonT(40), <1>1
  <2>2. \A S : IsFiniteSet(S) => \A T \in SUBSET S : IsFiniteSet(T)
    BY ZenonT(40), <1>1
  <2>3. IsFiniteSet({}) /\ Cardinality({}) = 0
    BY ZenonT(40), <1>1, <1>2
  <2>4. \A S : IsFiniteSet(S) => Cardinality(S) \in Nat /\ (Cardinality(S) = 0 <=> S = {})
    BY ZenonT(40), <1>1, <1>2
  <2>5. \A S : \A x : IsFiniteSet(S) /\ x \notin S =>
                        IsFiniteSet(S \cup {x}) /\ Cardinality(S \cup {x}) = Cardinality(S) + 1
    BY ZenonT(40), <1>1, <1>2
  <2> QED BY ZenonT(40), <2>1, <2>2, <2>3, <2>4, <2>5 DEF FiniteFacts
<1>5. SummingFacts
  <2> USE Counting!SummingHolds DEF Counting!SummingFacts
  <2>1. \A S, T : IsFiniteSet(S) /\ IsFiniteSet(T) => IsFiniteSet(S \X T)
    BY ZenonT(40), <1>1
  <2>2. \A S : \A f : IsFiniteSet(S) /\ (\A x \in S : f[x] \in Nat) =>
                        SumOf(f, S) \in Nat /\ (S = {} => SumOf(f, S) = 0)
    BY ZenonT(40), <1>1, <1>3
  <2>3. \A S : \A f, e : IsFiniteSet(S) /\ (\A x \in S : f[x] \in Nat) /\ (\A x \in S : e[x] = f[x]) =>
                           SumOf(e, S) = SumOf(f, S)
    BY ZenonT(40), <1>1, <1>3
  <2>4. \A S : \A x, f : IsFiniteSet(S) /\ x \notin S /\ (\A y \in S \cup {x} : f[y] \in Nat) =>
                           SumOf(f, S \cup {x}) = f[x] + SumOf(f, S)
    BY ZenonT(120), <1>1, <1>3
  <2>5. ASSUME NEW S, NEW x \in S, NEW f, NEW e, IsFiniteSet(S), \A y \in S : f[y] \in Nat,
               \A y \in S : e[y] \in Nat, \A y \in S : y # x => e[y] = f[y]
        PROVE  SumOf(e, S) = SumOf(f, S) - f[x] + e[x]
    <3>1. Counting!IsFiniteSet(S)
      BY Zenon, <1>1, <2>5
    <3>2. Counting!SumOf(e, S) = Counting!SumOf(f, S) - f[x] + e[x]
      BY SMTT(40), <2>5, <3>1
    <3> QED BY Zenon, <1>3, <3>2
  <2> QED BY ZenonT(40), <2>1, <2>2, <2>3, <2>4, <2>5 DEF SummingFacts
<1> QED BY ZenonT(40), <1>4, <1>5

\* The counters release_accounting and the permits move by increments always equal a recount and stay
\* inside their limits, for every number of windows, slots, requesters and every budget.
THEOREM BooksAlwaysBalance == Spec => []BooksBalance
<1>1. Init => AccountingExact /\ PermitsExact
    BY ZenonT(40), BooksInit, SummingHolds
<1>2. TransferInvariant /\ (AccountingExact /\ PermitsExact) /\ [Next]_vars => (AccountingExact /\ PermitsExact)'
    BY ZenonT(40), BooksStep, SummingHolds
<1>3. TransferInvariant /\ (AccountingExact /\ PermitsExact) => BooksBalance
    BY Zenon DEF BooksBalance, TransferInvariant
<1>4. Spec => []TransferInvariant
    BY Zenon, InvariantHolds
<1> QED BY <1>1, <1>2, <1>3, <1>4, PTL DEF Spec
=============================================================================
