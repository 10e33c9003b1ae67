--------------------------- MODULE SsdStoreProofs ---------------------------
(***************************************************************************)
(* What the SSD ring and the tasks around it keep, for any number of       *)
(* files, keys, readers and GPU workers, any sizes and any order of the    *)
(* device: extents that are read or written are never handed out, and      *)
(* every pending key has exactly one holder.                               *)
(***************************************************************************)
EXTENDS SsdStore, FiniteSums, TLAPS

EntryRecord ==
  [st : {"none", "writing", "committed", "invalid"}, shard : Shards, begin : Nat]
LeaseRecord == [reader : ReadTasks, key : Keys, shard : Shards, begin : Nat]
WriteRecord == [key : Keys, st : {"new", "io", "written", "failed"}]
GpuRecord == [st : {"idle", "io"}, key : Keys \cup {NoKey}, shard : Shards, begin : Nat]
ReaderRecord ==
  [st : {"idle", "candidate", "reading", "done", "last"}, key : Keys \cup {NoKey},
   shard : Shards, begin : Nat]

RingTypeOK ==
  /\ head \in [Shards -> Nat] /\ tail \in [Shards -> Nat] /\ nextShard \in Shards
  /\ entries \in [Keys -> EntryRecord] /\ leases \in SUBSET LeaseRecord

WriterTypeOK ==
  /\ pendingWrites \in SUBSET Keys /\ reuseHistory \in SUBSET Keys
  /\ queue \in Seq(Seq(Keys)) /\ pending \in Seq(Keys) /\ inflight \in Seq(WriteRecord)
  /\ Len(queue) <= QueueDepth /\ Len(inflight) <= WriteInflight
  /\ flushing \in BOOLEAN

ActorsTypeOK ==
  /\ gpuEnabled \in BOOLEAN /\ gpu \in [GpuWorkers -> GpuRecord]
  /\ reader \in [ReadTasks -> ReaderRecord]
  /\ \A w \in GpuWorkers : gpu[w].st = "io" => gpu[w].key \in Keys
  /\ \A r \in ReadTasks : reader[r].st # "idle" => reader[r].key \in Keys
  /\ announcing \in [Actors -> SUBSET [key : Keys, present : BOOLEAN]]
  /\ advertised \in SUBSET Keys

\* A live entry lies between tail and head and does not wrap around the end of its file.
Placed(e, k, h, t) ==
  /\ Size[k] > 0 /\ t[e.shard] <= e.begin /\ e.begin + Size[k] <= h[e.shard]
  /\ (e.begin % Capacity) + Size[k] <= Capacity
Apart(e, i, f, k) ==
  e.shard = f.shard => e.begin + Size[i] <= f.begin \/ f.begin + Size[k] <= e.begin

\* The ring: what is live lies in one turn of the file, extent after extent.
RingSound ==
  /\ \A s \in Shards : tail[s] <= head[s] /\ head[s] <= tail[s] + Capacity /\ head[s] <= MaxHead
  /\ \A k \in Keys : IF Live(k) THEN Placed(entries[k], k, head, tail) ELSE entries[k] = NoEntry
  /\ \A i, k \in Keys : i # k /\ Live(i) /\ Live(k) => Apart(entries[i], i, entries[k], k)

\* The leases are those of the readers at work, and name the generation of their key.
LeasesAgree ==
  /\ \A l \in leases :
       /\ reader[l.reader].st \in {"reading", "done"} /\ l = LeaseOf(l.reader)
       /\ SameGeneration(l, entries[l.key]) /\ entries[l.key].st \in {"committed", "invalid"}
  /\ \A r \in ReadTasks : reader[r].st \in {"reading", "done"} => LeaseOf(r) \in leases

\* A hidden entry has a reader, or somebody on the way to release this very generation.
HiddenHeld ==
  \A k \in Keys : entries[k].st = "invalid" =>
    \/ \E l \in leases : l.key = k
    \/ \E r \in ReadTasks : /\ reader[r].st = "last" /\ reader[r].key = k
                            /\ SameGeneration(reader[r], entries[k])

\* Keys are distinct in a batch.
Distinct(s) == \A i, j \in DOMAIN s : s[i] = s[j] => i = j
IsIn(x, s) == \E i \in DOMAIN s : s[i] = x

\* Where a pending key may be.
InQueue(k) == \E i \in DOMAIN queue : IsIn(k, queue[i])
InPending(k) == IsIn(k, pending)
InFlight(k) == \E i \in DOMAIN inflight : inflight[i].key = k
InGpu(k) == \E w \in GpuWorkers : gpu[w].st = "io" /\ gpu[w].key = k

\* Every pending key has one holder, and is there once.
PendingHeld ==
  \A k \in Keys : k \in pendingWrites <=> InQueue(k) \/ InPending(k) \/ InFlight(k) \/ InGpu(k)
OneHolder ==
  \A k \in Keys :
    /\ InQueue(k) => ~InPending(k) /\ ~InFlight(k) /\ ~InGpu(k)
    /\ InPending(k) => ~InFlight(k) /\ ~InGpu(k)
    /\ InFlight(k) => ~InGpu(k)
QueueDistinct ==
  /\ \A i \in DOMAIN queue : Distinct(queue[i])
  /\ \A i, j \in DOMAIN queue : \A k : IsIn(k, queue[i]) /\ IsIn(k, queue[j]) => i = j
FlightDistinct == \A i, j \in DOMAIN inflight : inflight[i].key = inflight[j].key => i = j
GpuDistinct ==
  \A v, w \in GpuWorkers :
    gpu[v].st = "io" /\ gpu[w].st = "io" /\ gpu[v].key = gpu[w].key => v = w
HeldOnce ==
  PendingHeld /\ OneHolder /\ QueueDistinct /\ Distinct(pending) /\ FlightDistinct /\ GpuDistinct

LeasesOK == LeasesAgree /\ HiddenHeld
RingOK == RingTypeOK /\ RingSound
StoreInvariant ==
  RingOK /\ LeasesOK /\ WriterTypeOK /\ HeldOnce /\ ActorsTypeOK /\ WritesKeepEntries
-----------------------------------------------------------------------------
(* Choosing from a batch.                                                  *)

IsFiltering(g, s, S, n) ==
  g = [i \in 0 .. n |-> IF i = 0 THEN <<>>
                        ELSE IF s[i] \in S THEN Append(g[i - 1], s[i]) ELSE g[i - 1]]

\* The recursive definition of Filtering has a solution.
LEMMA FilteringExists ==
  ASSUME CountingFacts, NEW s, NEW S, NEW n \in Nat
  PROVE  \E g : IsFiltering(g, s, S, n)
<1> DEFINE Bad == {k \in 0 .. n : ~\E g : IsFiltering(g, s, S, k)}
<1>1. SUFFICES ASSUME ~\E g : IsFiltering(g, s, S, n) PROVE FALSE
  OBVIOUS
<1>2. PICK k \in Bad : \A j \in Bad : k <= j
  <2>1. n \in Bad /\ Bad \in SUBSET Nat
    BY SMTT(40), <1>1
  <2> HIDE DEF Bad
  <2> QED BY <2>1, Zenon DEF CountingFacts, FiniteFacts
<1>3. k # 0
  <2> SUFFICES ASSUME k = 0 PROVE FALSE
    OBVIOUS
  <2> DEFINE g == [i \in 0 .. 0 |-> <<>>]
  <2>1. IsFiltering(g, s, S, 0)
    BY SMTT(40) DEF IsFiltering
  <2> QED BY SMTT(40), <2>1
<1>4. k - 1 \in 0 .. n /\ k - 1 \notin Bad
  <2>1. k \in 0 .. n
    BY SMTT(40), <1>2
  <2>2. k - 1 \in 0 .. n /\ ~(k <= k - 1)
    BY SMTT(40), <1>3, <2>1
  <2> HIDE DEF Bad
  <2> QED BY SMTT(40), <1>2, <2>2
<1>5. PICK g : IsFiltering(g, s, S, k - 1)
  BY SMTT(40), <1>4
<1> DEFINE last == IF s[k] \in S THEN Append(g[k - 1], s[k]) ELSE g[k - 1]
           h == [i \in 0 .. k |-> IF i = k THEN last ELSE g[i]]
<1>6. \A i \in 0 .. k : h[i] = IF i = 0 THEN <<>>
                               ELSE IF s[i] \in S THEN Append(h[i - 1], s[i]) ELSE h[i - 1]
  <2>1. k \in Nat
    BY SMTT(40), <1>2
  <2>2. \A i \in 0 .. k - 1 : g[i] = IF i = 0 THEN <<>>
                                    ELSE IF s[i] \in S THEN Append(g[i - 1], s[i]) ELSE g[i - 1]
    BY <1>5, Zenon DEF IsFiltering
  <2>3. h[k] = last /\ h[k - 1] = g[k - 1]
    BY SMTT(40), <1>3, <2>1
  <2>4. \A i \in 0 .. k - 1 : h[i] = g[i] /\ (i # 0 => h[i - 1] = g[i - 1])
    BY SMTT(40), <1>3, <2>1
  <2>5. \A i \in 0 .. k : i = k \/ i \in 0 .. k - 1
    BY SMTT(40), <2>1
  <2> HIDE DEF h
  <2> QED BY <1>3, <2>2, <2>3, <2>4, <2>5, Zenon
<1>7. IsFiltering(h, s, S, k)
  BY <1>6, Zenon DEF IsFiltering
<1> QED BY <1>7, Zenon

\* Filtered keeps what is in S, and keeps it distinct (admission_skip of a batch, the upgrade of its
\* weak references).
LEMMA FilteredFacts ==
  ASSUME CountingFacts, NEW s \in Seq(Keys), NEW S
  PROVE  /\ Filtered(s, S) \in Seq(Keys)
         /\ \A x : IsIn(x, Filtered(s, S)) <=> x \in S /\ IsIn(x, s)
         /\ Distinct(s) => Distinct(Filtered(s, S))
<1> DEFINE h == Filtering(s, S)
           n == Len(s)
           Good(k) == /\ h[k] \in Seq(Keys)
                      /\ \A x : IsIn(x, h[k]) <=> x \in S /\ \E i \in 1 .. k : s[i] = x
                      /\ Distinct(s) => Distinct(h[k])
           Bad == {k \in 0 .. n : ~Good(k)}
<1>1. n \in Nat /\ DOMAIN s = 1 .. n /\ \A i \in 1 .. n : s[i] \in Keys
  OBVIOUS
<1>2. IsFiltering(h, s, S, n)
  <2>1. \E g : IsFiltering(g, s, S, n)
    BY <1>1, FilteringExists, Zenon
  <2> QED BY <2>1, Zenon DEF Filtering, IsFiltering
<1>3. \A i \in 0 .. n : h[i] = IF i = 0 THEN <<>>
                               ELSE IF s[i] \in S THEN Append(h[i - 1], s[i]) ELSE h[i - 1]
  BY <1>2, Zenon DEF IsFiltering
<1>4. Bad = {}
  <2> SUFFICES ASSUME Bad # {} PROVE FALSE
    BY Zenon
  <2>1. PICK k \in Bad : \A j \in Bad : k <= j
    <3>1. Bad \in SUBSET Nat
      BY SMTT(40), <1>1
    <3> HIDE DEF Bad
    <3> QED BY <3>1, Zenon DEF CountingFacts, FiniteFacts
  <2>2. k \in 0 .. n /\ ~Good(k)
    BY SMTT(40), <2>1
  <2>3. k # 0
    <3> SUFFICES ASSUME k = 0 PROVE FALSE
      OBVIOUS
    <3>1. h[0] = <<>>
      BY SMTT(40), <1>1, <1>3
    <3> HIDE DEF h
    <3>2. Good(0)
      BY SMTT(40), <3>1 DEF IsIn, Distinct
    <3> QED BY SMTT(40), <2>2, <3>2
  <2>4. k - 1 \in 0 .. n /\ Good(k - 1)
    <3>1. k - 1 \in 0 .. n /\ ~(k <= k - 1)
      BY SMTT(40), <2>2, <2>3
    <3> HIDE DEF Good
    <3> QED BY SMTT(40), <2>1, <3>1
  <2>5. h[k] = IF s[k] \in S THEN Append(h[k - 1], s[k]) ELSE h[k - 1]
    BY <1>3, <2>2, <2>3, Zenon
  <2>6. k \in 1 .. n /\ s[k] \in Keys /\ \A i \in 1 .. k : i = k \/ i \in 1 .. k - 1
    BY SMTT(40), <1>1, <2>2, <2>3
  <2> DEFINE p == h[k - 1]
             q == h[k]
  <2>7. /\ p \in Seq(Keys)
        /\ \A x : IsIn(x, p) <=> x \in S /\ \E i \in 1 .. k - 1 : s[i] = x
        /\ Distinct(s) => Distinct(p)
    BY <2>4, Zenon
  <2>8. q = IF s[k] \in S THEN Append(p, s[k]) ELSE p
    BY <2>5, Zenon
  <2>9. \A x : (\E i \in 1 .. k : s[i] = x) <=> x = s[k] \/ \E i \in 1 .. k - 1 : s[i] = x
    BY SMTT(40), <2>6
  <2>10. ~(q \in Seq(Keys) /\ (\A x : IsIn(x, q) <=> x \in S /\ \E i \in 1 .. k : s[i] = x)
             /\ (Distinct(s) => Distinct(q)))
    BY <2>2, Zenon
  <2> HIDE DEF p, q
  <2>11. CASE s[k] \notin S
    BY <2>7, <2>8, <2>9, <2>10, <2>11, Zenon
  <2>12. CASE s[k] \in S
    <3>1. /\ q = Append(p, s[k]) /\ q \in Seq(Keys) /\ Len(q) = Len(p) + 1 /\ Len(p) \in Nat
          /\ DOMAIN p = 1 .. Len(p) /\ DOMAIN q = 1 .. (Len(p) + 1)
          /\ q[Len(p) + 1] = s[k] /\ \A i \in DOMAIN p : q[i] = p[i]
      BY SMTT(40), <2>6, <2>7, <2>8, <2>12
    <3>2. \A i \in DOMAIN q : i = Len(p) + 1 \/ i \in DOMAIN p
      BY SMTT(40), <3>1
    <3>3. Len(p) + 1 \in DOMAIN q /\ \A i \in DOMAIN p : i \in DOMAIN q /\ i # Len(p) + 1
      BY SMTT(40), <3>1
    <3>4. \A x : IsIn(x, q) <=> x = s[k] \/ IsIn(x, p)
      BY <3>1, <3>2, <3>3, Zenon DEF IsIn
    <3>5. \A x : IsIn(x, q) <=> x \in S /\ \E i \in 1 .. k : s[i] = x
      BY <2>7, <2>9, <2>12, <3>4, Zenon
    <3>6. ASSUME Distinct(s) PROVE Distinct(q)
      <4>1. ~IsIn(s[k], p)
        <5> SUFFICES ASSUME IsIn(s[k], p) PROVE FALSE
          OBVIOUS
        <5>1. PICK i \in 1 .. k - 1 : s[i] = s[k]
          BY <2>7, Zenon
        <5>2. i \in DOMAIN s /\ k \in DOMAIN s /\ i # k
          BY SMTT(40), <1>1, <2>6, <5>1
        <5> QED BY <3>6, <5>1, <5>2, Zenon DEF Distinct
      <4>2. Distinct(p)
        BY <2>7, <3>6, Zenon
      <4>3. \A i \in DOMAIN p : q[i] # s[k]
        BY <3>1, <4>1, Zenon DEF IsIn
      <4>4. SUFFICES ASSUME NEW i \in DOMAIN q, NEW j \in DOMAIN q, q[i] = q[j] PROVE i = j
        BY Zenon DEF Distinct
      <4>5. CASE i \in DOMAIN p /\ j \in DOMAIN p
        BY <3>1, <4>2, <4>4, <4>5, Zenon DEF Distinct
      <4> QED BY <3>1, <3>2, <4>3, <4>4, <4>5, Zenon
    <3> QED BY <2>10, <3>1, <3>5, <3>6, Zenon
  <2> QED BY <2>11, <2>12, Zenon
<1>5. n \in 0 .. n /\ Good(n)
  <2>1. n \in 0 .. n
    BY SMTT(40), <1>1
  <2> HIDE DEF Good, n
  <2> QED BY <1>4, <2>1, Zenon
<1>6. \A x : (\E i \in 1 .. n : s[i] = x) <=> IsIn(x, s)
  BY <1>1, Zenon DEF IsIn
<1>7. Filtered(s, S) = h[n]
  BY Zenon DEF Filtered
<1> QED BY <1>5, <1>6, <1>7, Zenon
-----------------------------------------------------------------------------
(* The ring.                                                               *)

\* Quotient and remainder by the capacity of a file.
LEMMA Division ==
  ASSUME NEW x \in Nat
  PROVE  /\ x \div Capacity \in Nat /\ x % Capacity \in Nat /\ x % Capacity < Capacity
         /\ x = Capacity * (x \div Capacity) + (x % Capacity)
<1> DEFINE c == Capacity
<1>1. c \in Nat /\ c > 0
  BY SMTT(40), RingAssumption
<1> HIDE DEF c
<1>2. x \div c \in Nat /\ x % c \in Nat /\ x % c < c
  BY SMTT(40), <1>1
<1>3. x = c * (x \div c) + (x % c)
  BY SMTT(40), <1>1
<1> QED BY SMTT(40), <1>2, <1>3 DEF c

\* The start of the next turn of the file lies at its beginning.
LEMMA TurnStart ==
  ASSUME NEW x \in Nat
  PROVE  (x + (Capacity - (x % Capacity))) % Capacity = 0
<1> DEFINE q == x \div Capacity
<1>1. q \in Nat /\ x = Capacity * q + (x % Capacity)
  BY SMTT(40), Division
<1>2. x + (Capacity - (x % Capacity)) = Capacity * (q + 1)
  BY SMTT(40), <1>1, Division, RingAssumption
<1>3. (Capacity * (q + 1)) % Capacity = 0
  <2> HIDE DEF q
  <2> QED BY SMTT(40), <1>1, RingAssumption
<1> QED BY SMTT(40), <1>2, <1>3

\* Two extents of less than a turn that do not wrap share no byte of the file when they share no
\* logical offset.
LEMMA TurnsApart ==
  ASSUME NEW x \in Nat, NEW m \in Nat, NEW y \in Nat, NEW n \in Nat,
         x + m <= y, y + n <= x + Capacity, m > 0, n > 0,
         (x % Capacity) + m <= Capacity, (y % Capacity) + n <= Capacity
  PROVE  (x % Capacity) + m <= y % Capacity \/ (y % Capacity) + n <= x % Capacity
<1> DEFINE p == x \div Capacity
           q == y \div Capacity
           a == x % Capacity
           b == y % Capacity
<1>1. /\ p \in Nat /\ q \in Nat /\ a \in Nat /\ b \in Nat /\ a < Capacity /\ b < Capacity
      /\ x = Capacity * p + a /\ y = Capacity * q + b
  BY Division, Zenon
<1>2. Capacity \in Nat /\ Capacity > 0
  BY SMTT(40), RingAssumption
<1> HIDE DEF p, q, a, b
<1>3. q = p \/ q = p + 1
  <2>1. CASE q < p
    <3>1. Capacity * p >= Capacity * q + Capacity
      BY SMTT(40), <1>1, <1>2, <2>1
    <3>2. Capacity * p \in Nat /\ Capacity * q \in Nat
      BY SMTT(40), <1>1, <1>2
    <3> QED BY SMTT(40), <1>1, <1>2, <3>1, <3>2
  <2>2. CASE q > p + 1
    <3>1. Capacity * q >= Capacity * p + Capacity + Capacity
      BY SMTT(40), <1>1, <1>2, <2>2
    <3>2. Capacity * p \in Nat /\ Capacity * q \in Nat
      BY SMTT(40), <1>1, <1>2
    <3> QED BY SMTT(40), <1>1, <1>2, <3>1, <3>2
  <2> QED BY SMTT(40), <1>1, <2>1, <2>2
<1>4. CASE q = p
  BY SMTT(40), <1>1, <1>2, <1>4 DEF a, b
<1>5. CASE q = p + 1
  <2>1. Capacity * q = Capacity * p + Capacity /\ Capacity * p \in Nat
    BY SMTT(40), <1>1, <1>2, <1>5
  <2> QED BY SMTT(40), <1>1, <1>2, <2>1 DEF a, b
<1> QED BY SMTT(40), <1>3, <1>4, <1>5

\* The fields of an entry and the offsets of its file.
LEMMA EntryFacts ==
  ASSUME RingTypeOK, NEW k \in Keys
  PROVE  /\ entries[k].st \in {"none", "writing", "committed", "invalid"}
         /\ entries[k].shard \in Shards /\ entries[k].begin \in Nat /\ Size[k] \in Nat
         /\ head[entries[k].shard] \in Nat /\ tail[entries[k].shard] \in Nat
<1>1. entries[k] \in EntryRecord
  BY Zenon DEF RingTypeOK
<1>2. entries[k].st \in {"none", "writing", "committed", "invalid"} /\ entries[k].shard \in Shards
      /\ entries[k].begin \in Nat
  BY <1>1, Zenon DEF EntryRecord
<1>3. Size[k] \in Nat
  BY RingAssumption, Zenon
<1> QED BY <1>2, <1>3, Zenon DEF RingTypeOK

\* The entry of a key that has none.
LEMMA NoEntryFacts ==
  NoEntry \in EntryRecord /\ NoEntry.st = "none" /\ 0 \in Shards
<1>1. 0 \in Shards
  BY SMTT(40), RingAssumption DEF Shards
<1> QED BY SMTT(40), <1>1 DEF NoEntry, EntryRecord

\* Where reserve puts an extent, and what it leaves before the tail (allocate_contiguous).
LEMMA ReservePlace ==
  ASSUME RingTypeOK, RingSound, NEW k \in Keys, NEW s \in Shards, Reserve(k, s),
         NEW b, b = BeginAt(s, Size[k]), NEW t, t = Larger(tail[s], NewTail(s, Size[k]))
  PROVE  /\ b \in Nat /\ t \in Nat /\ Size[k] > 0 /\ head[s] <= b /\ tail[s] <= t /\ t <= b
         /\ b + Size[k] <= t + Capacity /\ b + Size[k] <= MaxHead
         /\ (b % Capacity) + Size[k] <= Capacity
         /\ t = tail[s] \/ t = NewTail(s, Size[k])
<1>1. /\ head[s] \in Nat /\ tail[s] \in Nat /\ Size[k] \in Nat /\ tail[s] <= head[s]
      /\ Capacity \in Nat /\ Capacity > 0
  BY SMTT(40), RingAssumption DEF RingTypeOK, RingSound
<1>2. Size[k] > 0 /\ Size[k] <= Capacity /\ b + Size[k] <= MaxHead
  BY Zenon DEF Reserve, Chosen, CanAllocate
<1> DEFINE r == head[s] % Capacity
<1>3. r \in Nat /\ r < Capacity /\ (head[s] + (Capacity - r)) % Capacity = 0
  BY <1>1, Division, TurnStart, Zenon
<1>4. b = IF Size[k] > Capacity - r THEN head[s] + (Capacity - r) ELSE head[s]
  BY Zenon DEF BeginAt
<1>5. b \in Nat /\ head[s] <= b
  <2> HIDE DEF r
  <2> QED BY SMTT(40), <1>1, <1>3, <1>4
<1>6. (b % Capacity) + Size[k] <= Capacity
  <2>1. CASE Size[k] > Capacity - r
    <3>1. b % Capacity = 0
      BY <1>3, <1>4, <2>1, Zenon
    <3> QED BY SMTT(40), <1>1, <1>2, <3>1
  <2>2. CASE ~(Size[k] > Capacity - r)
    <3>1. b % Capacity = r
      BY <1>4, <2>2, Zenon
    <3> HIDE DEF r
    <3> QED BY SMTT(40), <1>1, <1>3, <2>2, <3>1
  <2> QED BY <2>1, <2>2, Zenon
<1>7. NewTail(s, Size[k]) = IF b + Size[k] - Capacity >= 0 THEN b + Size[k] - Capacity ELSE 0
  BY Zenon DEF NewTail, Larger
<1>8. t = IF tail[s] >= NewTail(s, Size[k]) THEN tail[s] ELSE NewTail(s, Size[k])
  BY Zenon DEF Larger
<1>9. t \in Nat /\ tail[s] <= t /\ t <= b /\ b + Size[k] <= t + Capacity
  BY SMTT(40), <1>1, <1>2, <1>5, <1>7, <1>8
<1> QED BY <1>2, <1>5, <1>6, <1>8, <1>9, Zenon

\* reserve keeps the ring sound, and forgets only what nobody writes or reads.
LEMMA ReserveRing ==
  ASSUME RingTypeOK, RingSound, NEW k \in Keys, NEW s \in Shards, Reserve(k, s)
  PROVE  /\ RingTypeOK' /\ RingSound'
         /\ BeginAt(s, Size[k]) \in Nat /\ ~Live(k)
         /\ entries'[k] = Entry("writing", s, BeginAt(s, Size[k]))
         /\ \A i \in Keys \ {k} : entries'[i] = entries[i] \/ (entries'[i] = NoEntry /\ ~Protected(i))
<1> DEFINE b == BeginAt(s, Size[k])
           t == Larger(tail[s], NewTail(s, Size[k]))
           e == Entry("writing", s, b)
<1>1. /\ b \in Nat /\ t \in Nat /\ Size[k] > 0 /\ head[s] <= b /\ tail[s] <= t /\ t <= b
      /\ b + Size[k] <= t + Capacity /\ b + Size[k] <= MaxHead
      /\ (b % Capacity) + Size[k] <= Capacity
      /\ t = tail[s] \/ t = NewTail(s, Size[k])
  BY ReservePlace, Zenon
<1>2. /\ ~Live(k) /\ head' = [head EXCEPT ![s] = b + Size[k]] /\ tail' = [tail EXCEPT ![s] = t]
      /\ nextShard' = (s + 1) % NumShards /\ leases' = leases
      /\ entries' = [i \in Keys |-> IF i = k THEN e
                                   ELSE IF i \in Overrun(s, t) THEN NoEntry ELSE entries[i]]
      /\ \A i \in Overrun(s, NewTail(s, Size[k])) : ~Protected(i)
  BY Zenon DEF Reserve, Chosen, CanAllocate
<1>3. Overrun(s, t) = {i \in Keys : Live(i) /\ entries[i].shard = s /\ entries[i].begin < t}
  BY Zenon DEF Overrun
<1>4. \A i \in Overrun(s, t) : ~Protected(i)
  <2> SUFFICES ASSUME NEW i \in Keys, Live(i), entries[i].shard = s, entries[i].begin < t
               PROVE  i \in Overrun(s, NewTail(s, Size[k]))
    BY <1>2, <1>3, Zenon
  <2>1. tail[s] <= entries[i].begin /\ tail[s] \in Nat /\ entries[i].begin \in Nat
    BY SMTT(40), EntryFacts DEF RingSound, Placed
  <2>2. t = NewTail(s, Size[k])
    BY SMTT(40), <1>1, <2>1
  <2> QED BY <2>2, Zenon DEF Overrun
<1> HIDE DEF t
<1>5. e \in EntryRecord /\ e.st = "writing" /\ e.shard = s /\ e.begin = b
  <2> HIDE DEF b
  <2> QED BY SMTT(40), <1>1 DEF Entry, EntryRecord
<1> HIDE DEF b, e
<1>6. Size[k] \in Nat /\ s \in Shards /\ head[s] \in Nat /\ tail[s] \in Nat /\ Capacity \in Nat
  BY RingAssumption, Zenon DEF RingTypeOK
<1>7. /\ head' \in [Shards -> Nat] /\ tail' \in [Shards -> Nat]
      /\ head'[s] = b + Size[k] /\ tail'[s] = t
      /\ \A u \in Shards : u # s => head'[u] = head[u] /\ tail'[u] = tail[u]
  <2>1. b + Size[k] \in Nat
    BY SMTT(40), <1>1, <1>6
  <2> QED BY <1>1, <1>2, <2>1, Zenon DEF RingTypeOK
<1>8. nextShard' \in Shards
  BY SMTT(40), <1>2, RingAssumption DEF Shards
<1>9. /\ entries'[k] = e
      /\ \A i \in Keys : i # k =>
           \/ entries'[i] = NoEntry /\ ~Protected(i)
           \/ entries'[i] = entries[i] /\ i \notin Overrun(s, t)
  <2>1. entries'[k] = e
    BY <1>2, Zenon
  <2>2. ASSUME NEW i \in Keys, i # k
        PROVE  entries'[i] = IF i \in Overrun(s, t) THEN NoEntry ELSE entries[i]
    BY <1>2, <2>2, Zenon
  <2>3. ASSUME NEW i \in Keys, i # k
        PROVE  \/ entries'[i] = NoEntry /\ ~Protected(i)
               \/ entries'[i] = entries[i] /\ i \notin Overrun(s, t)
    <3>1. CASE i \in Overrun(s, t)
      BY <1>4, <2>2, <2>3, <3>1, Zenon
    <3>2. CASE i \notin Overrun(s, t)
      BY <2>2, <2>3, <3>2, Zenon
    <3> QED BY <3>1, <3>2, Zenon
  <2> QED BY <2>1, <2>3, Zenon
<1>10. entries' \in [Keys -> EntryRecord]
  BY <1>2, <1>5, NoEntryFacts, Zenon DEF RingTypeOK
<1>11. RingTypeOK'
  BY <1>2, <1>7, <1>8, <1>10, Zenon DEF RingTypeOK
<1>12. ASSUME NEW i \in Keys, i # k, Live(i)'
       PROVE  /\ Live(i) /\ entries'[i] = entries[i] /\ Placed(entries[i], i, head, tail)
              /\ Placed(entries[i], i, head', tail')
  <2>1. entries'[i] = entries[i] /\ i \notin Overrun(s, t) /\ Live(i)
    BY <1>9, <1>12, NoEntryFacts, Zenon DEF Live
  <2>2. Placed(entries[i], i, head, tail)
    BY <2>1, Zenon DEF RingSound
  <2>3. Placed(entries[i], i, head', tail')
    <3>1. CASE entries[i].shard = s
      <4>1. ~(entries[i].begin < t)
        BY <1>3, <2>1, <3>1, Zenon
      <4>2. entries[i].begin + Size[i] <= head[s] /\ entries[i].begin \in Nat /\ Size[i] \in Nat
        BY <2>2, <3>1, EntryFacts, Zenon DEF Placed
      <4>3. t <= entries[i].begin /\ entries[i].begin + Size[i] <= b + Size[k]
        BY SMTT(40), <1>1, <1>6, <4>1, <4>2
      <4> QED BY <1>7, <2>2, <3>1, <4>3, Zenon DEF Placed
    <3>2. CASE entries[i].shard # s
      BY <1>7, <2>2, <3>2, EntryFacts, Zenon DEF Placed
    <3> QED BY <3>1, <3>2, Zenon
  <2> QED BY <2>1, <2>2, <2>3, Zenon
<1>13. Placed(e, k, head', tail')
  <2>1. b + Size[k] <= b + Size[k]
    BY SMTT(40), <1>1, <1>6
  <2> QED BY <1>1, <1>5, <1>7, <2>1, Zenon DEF Placed
<1>14. \A u \in Shards : tail'[u] <= head'[u] /\ head'[u] <= tail'[u] + Capacity /\ head'[u] <= MaxHead
  <2>1. t <= b + Size[k]
    BY SMTT(40), <1>1, <1>6
  <2> QED BY <1>1, <1>7, <2>1, Zenon DEF RingSound
<1>15. \A i \in Keys : IF Live(i)' THEN Placed(entries'[i], i, head', tail') ELSE entries'[i] = NoEntry
  <2>1. \A i \in Keys : ~Live(i)' => entries'[i] = NoEntry
    BY <1>5, <1>9, Zenon DEF Live, RingSound
  <2> QED BY <1>9, <1>12, <1>13, <2>1, Zenon
<1>16. ASSUME NEW i \in Keys, i # k, Live(i)'
       PROVE  Apart(entries'[i], i, entries'[k], k) /\ Apart(entries'[k], k, entries'[i], i)
  <2>1. CASE entries[i].shard = s
    <3>1. entries[i].begin + Size[i] <= head[s] /\ entries[i].begin \in Nat /\ Size[i] \in Nat
      BY <1>12, <1>16, <2>1, EntryFacts, Zenon DEF Placed
    <3>2. entries[i].begin + Size[i] <= b
      BY SMTT(40), <1>1, <1>6, <3>1
    <3> QED BY <1>5, <1>9, <1>12, <1>16, <3>2, Zenon DEF Apart
  <2>2. CASE entries[i].shard # s
    BY <1>5, <1>9, <1>12, <1>16, <2>2, Zenon DEF Apart
  <2> QED BY <2>1, <2>2, Zenon
<1>17. \A i, j \in Keys : i # j /\ Live(i)' /\ Live(j)' => Apart(entries'[i], i, entries'[j], j)
  <2> SUFFICES ASSUME NEW i \in Keys, NEW j \in Keys, i # j, Live(i)', Live(j)'
               PROVE  Apart(entries'[i], i, entries'[j], j)
    BY Zenon
  <2>1. CASE i # k /\ j # k
    <3>1. Live(i) /\ Live(j) /\ entries'[i] = entries[i] /\ entries'[j] = entries[j]
      BY <1>12, <2>1, Zenon
    <3> QED BY <3>1, Zenon DEF RingSound
  <2> QED BY <1>16, <2>1, Zenon
<1>18. RingSound'
  BY <1>14, <1>15, <1>17, Zenon DEF RingSound
<1> QED BY <1>1, <1>2, <1>9, <1>11, <1>18, Zenon DEF b, e

\* What only forgets entries or changes their state keeps the ring sound (commit,
\* invalidate_encoded, release_invalid).
LEMMA RingShrinks ==
  ASSUME RingTypeOK, RingSound, UNCHANGED <<head, tail, nextShard, leases>>,
         NEW k \in Keys, NEW e \in EntryRecord, entries' = [entries EXCEPT ![k] = e],
         e = NoEntry \/ (Live(k) /\ e.st # "none" /\ SameGeneration(e, entries[k]))
  PROVE  /\ RingTypeOK' /\ RingSound' /\ entries'[k] = e
         /\ \A i \in Keys : i # k => entries'[i] = entries[i]
<1>1. /\ entries' \in [Keys -> EntryRecord] /\ entries'[k] = e
      /\ \A i \in Keys : i # k => entries'[i] = entries[i]
  BY Zenon DEF RingTypeOK
<1>2. RingTypeOK'
  BY <1>1, Zenon DEF RingTypeOK
<1>3. ASSUME NEW i \in Keys
      PROVE  /\ Live(i)' => Live(i) /\ SameGeneration(entries'[i], entries[i])
             /\ ~Live(i)' => entries'[i] = NoEntry
  <2>1. CASE i = k
    BY <1>1, <2>1, NoEntryFacts, Zenon DEF Live
  <2>2. CASE i # k
    BY <1>1, <2>2, Zenon DEF Live, RingSound, SameGeneration
  <2> QED BY <2>1, <2>2, Zenon
<1>4. \A i \in Keys : IF Live(i)' THEN Placed(entries'[i], i, head', tail') ELSE entries'[i] = NoEntry
  BY <1>3, Zenon DEF RingSound, Placed, SameGeneration
<1>5. \A i, j \in Keys : i # j /\ Live(i)' /\ Live(j)' => Apart(entries'[i], i, entries'[j], j)
  <2> SUFFICES ASSUME NEW i \in Keys, NEW j \in Keys, i # j, Live(i)', Live(j)'
               PROVE  Apart(entries'[i], i, entries'[j], j)
    BY Zenon
  <2>1. Apart(entries[i], i, entries[j], j)
    BY <1>3, Zenon DEF RingSound
  <2> QED BY <1>3, <2>1, Zenon DEF Apart, SameGeneration
<1>6. RingSound'
  BY <1>4, <1>5, Zenon DEF RingSound
<1> QED BY <1>1, <1>2, <1>6, Zenon

\* No two live extents share a byte.
LEMMA SoundExtentsDisjoint ==
  ASSUME RingTypeOK, RingSound
  PROVE  ExtentsDisjoint
<1>1. \A k \in Keys : Live(k) => Placed(entries[k], k, head, tail)
  BY Zenon DEF RingSound
<1>2. ASSUME NEW k \in Keys, Live(k)
      PROVE  Extent(k) \subseteq 0 .. (Capacity - 1)
  <2>1. (entries[k].begin % Capacity) + Size[k] <= Capacity
    BY <1>1, <1>2, Zenon DEF Placed
  <2>2. entries[k].begin % Capacity \in Nat /\ Size[k] \in Nat /\ Capacity \in Nat
    BY EntryFacts, Division, RingAssumption, Zenon
  <2> QED BY SMTT(40), <2>1, <2>2 DEF Extent
<1>3. ASSUME NEW k \in Keys, NEW i \in Keys, Live(k), Live(i), i # k,
             entries[i].shard = entries[k].shard, entries[i].begin + Size[i] <= entries[k].begin
      PROVE  Extent(i) \cap Extent(k) = {}
  <2> DEFINE s == entries[k].shard
             x == entries[i].begin
             y == entries[k].begin
  <2>1. /\ x \in Nat /\ y \in Nat /\ Size[i] \in Nat /\ Size[k] \in Nat
        /\ head[s] \in Nat /\ tail[s] \in Nat /\ s \in Shards /\ Capacity \in Nat
    BY EntryFacts, RingAssumption, Zenon
  <2>2. /\ Size[i] > 0 /\ Size[k] > 0 /\ tail[s] <= x /\ y + Size[k] <= head[s]
        /\ (x % Capacity) + Size[i] <= Capacity /\ (y % Capacity) + Size[k] <= Capacity
        /\ head[s] <= tail[s] + Capacity /\ x + Size[i] <= y
    BY <1>1, <1>3, <2>1, Zenon DEF Placed, RingSound
  <2>3. y + Size[k] <= x + Capacity
    <3> HIDE DEF s, x, y
    <3> QED BY SMTT(40), <2>1, <2>2
  <2>4. (x % Capacity) + Size[i] <= y % Capacity \/ (y % Capacity) + Size[k] <= x % Capacity
    <3> HIDE DEF s, x, y
    <3> QED BY <2>1, <2>2, <2>3, TurnsApart, Zenon
  <2>5. x % Capacity \in Nat /\ y % Capacity \in Nat
    BY <2>1, Division, Zenon
  <2>6. /\ Extent(i) = (x % Capacity) .. ((x % Capacity) + Size[i] - 1)
        /\ Extent(k) = (y % Capacity) .. ((y % Capacity) + Size[k] - 1)
    BY Zenon DEF Extent
  <2> DEFINE a == x % Capacity
             b == y % Capacity
             m == Size[i]
             n == Size[k]
  <2>7. /\ a \in Nat /\ b \in Nat /\ m \in Nat /\ n \in Nat /\ (a + m <= b \/ b + n <= a)
        /\ Extent(i) = a .. (a + m - 1) /\ Extent(k) = b .. (b + n - 1)
    BY <2>1, <2>4, <2>5, <2>6, Zenon
  <2> HIDE DEF a, b, m, n
  <2> QED BY SMTT(40), <2>7
<1>4. ASSUME NEW k \in Keys, NEW i \in Keys, Live(k), Live(i), i # k, entries[i].shard = entries[k].shard
      PROVE  Extent(i) \cap Extent(k) = {}
  <2>1. Apart(entries[i], i, entries[k], k)
    BY <1>4, Zenon DEF RingSound
  <2>2. CASE entries[i].begin + Size[i] <= entries[k].begin
    BY <1>3, <1>4, <2>2, Zenon
  <2>3. CASE entries[k].begin + Size[k] <= entries[i].begin
    <3>1. Extent(k) \cap Extent(i) = {}
      BY <1>3, <1>4, <2>3, Zenon
    <3> QED BY <3>1, Zenon
  <2> QED BY <1>4, <2>1, <2>2, <2>3, Zenon DEF Apart
<1> QED BY <1>2, <1>4, Zenon DEF ExtentsDisjoint

-----------------------------------------------------------------------------
(* Sequences of keys.                                                      *)

\* What Append adds.
LEMMA AppendFacts ==
  ASSUME NEW S, NEW s \in Seq(S), NEW x \in S
  PROVE  /\ Append(s, x) \in Seq(S) /\ Len(s) \in Nat /\ Len(Append(s, x)) = Len(s) + 1
         /\ \A i : i \in DOMAIN Append(s, x) <=> i \in DOMAIN s \/ i = Len(s) + 1
         /\ Len(s) + 1 \notin DOMAIN s
         /\ Append(s, x)[Len(s) + 1] = x /\ \A i \in DOMAIN s : Append(s, x)[i] = s[i]
<1>1. Len(s) \in Nat /\ DOMAIN s = 1 .. Len(s) /\ DOMAIN Append(s, x) = 1 .. (Len(s) + 1)
  OBVIOUS
<1>2. Append(s, x) \in Seq(S) /\ Len(Append(s, x)) = Len(s) + 1
  OBVIOUS
<1>3. Append(s, x)[Len(s) + 1] = x /\ \A i \in DOMAIN s : Append(s, x)[i] = s[i]
  OBVIOUS
<1>4. \A i : i \in DOMAIN Append(s, x) <=> i \in DOMAIN s \/ i = Len(s) + 1
  BY SMTT(40), <1>1
<1>5. Len(s) + 1 \notin DOMAIN s
  BY SMTT(40), <1>1
<1> QED BY <1>1, <1>2, <1>3, <1>4, <1>5, Zenon

\* What Tail leaves.
LEMMA TailFacts ==
  ASSUME NEW S, NEW s \in Seq(S), s # <<>>
  PROVE  /\ Tail(s) \in Seq(S) /\ Len(s) \in Nat /\ Len(Tail(s)) = Len(s) - 1
         /\ 1 \in DOMAIN s /\ Head(s) = s[1] /\ s[1] \in S
         /\ \A i \in DOMAIN Tail(s) : i + 1 \in DOMAIN s /\ i + 1 # 1 /\ Tail(s)[i] = s[i + 1]
         /\ \A i \in DOMAIN s : i # 1 => i - 1 \in DOMAIN Tail(s) /\ Tail(s)[i - 1] = s[i]
         /\ \A i, j \in DOMAIN Tail(s) : i + 1 = j + 1 => i = j
<1>1. Len(s) \in Nat /\ Len(s) >= 1 /\ DOMAIN s = 1 .. Len(s)
  OBVIOUS
<1>2. Tail(s) \in Seq(S) /\ Len(Tail(s)) = Len(s) - 1 /\ DOMAIN Tail(s) = 1 .. (Len(s) - 1)
  BY SMTT(40), <1>1
<1>3. 1 \in DOMAIN s /\ Head(s) = s[1] /\ s[1] \in S
  BY SMTT(40), <1>1
<1>4. \A i \in DOMAIN Tail(s) : Tail(s)[i] = s[i + 1]
  BY SMTT(40), <1>1, <1>2
<1>5. \A i \in DOMAIN Tail(s) : i + 1 \in DOMAIN s /\ i + 1 # 1
  BY SMTT(40), <1>1, <1>2
<1>6. \A i \in DOMAIN s : i # 1 => i - 1 \in DOMAIN Tail(s) /\ (i - 1) + 1 = i
  BY SMTT(40), <1>1, <1>2
<1>7. \A i, j \in DOMAIN Tail(s) : i + 1 = j + 1 => i = j
  BY SMTT(40), <1>2
<1> QED BY <1>1, <1>2, <1>3, <1>4, <1>5, <1>6, <1>7, Zenon

\* The writer takes the oldest batch.
LEMMA TailQueue ==
  ASSUME WriterTypeOK, QueueDistinct, queue # <<>>, queue' = Tail(queue)
  PROVE  /\ QueueDistinct' /\ queue' \in Seq(Seq(Keys)) /\ Len(queue') <= QueueDepth
         /\ Head(queue) \in Seq(Keys) /\ Distinct(Head(queue))
         /\ \A k : InQueue(k) <=> IsIn(k, Head(queue)) \/ InQueue(k)'
         /\ \A k : ~(IsIn(k, Head(queue)) /\ InQueue(k)')
<1>1. queue \in Seq(Seq(Keys)) /\ Len(queue) <= QueueDepth
  BY Zenon DEF WriterTypeOK
<1> DEFINE s == queue
           t == Tail(queue)
<1>2. /\ t \in Seq(Seq(Keys)) /\ Len(s) \in Nat /\ Len(t) = Len(s) - 1
      /\ 1 \in DOMAIN s /\ Head(s) = s[1] /\ s[1] \in Seq(Keys)
      /\ \A i \in DOMAIN t : i + 1 \in DOMAIN s /\ i + 1 # 1 /\ t[i] = s[i + 1]
      /\ \A i \in DOMAIN s : i # 1 => i - 1 \in DOMAIN t /\ t[i - 1] = s[i]
      /\ \A i, j \in DOMAIN t : i + 1 = j + 1 => i = j
  BY <1>1, TailFacts, Zenon
<1>3. Len(queue') <= QueueDepth
  BY SMTT(40), <1>1, <1>2, StoreAssumption
<1> HIDE DEF t
<1>4. QueueDistinct'
  <2>1. \A i \in DOMAIN t : Distinct(t[i])
    BY <1>2, Zenon DEF QueueDistinct
  <2>2. ASSUME NEW i \in DOMAIN t, NEW j \in DOMAIN t, NEW k, IsIn(k, t[i]), IsIn(k, t[j]) PROVE i = j
    <3>1. i + 1 \in DOMAIN s /\ j + 1 \in DOMAIN s /\ IsIn(k, s[i + 1]) /\ IsIn(k, s[j + 1])
      BY <1>2, <2>2, Zenon
    <3>2. i + 1 = j + 1
      BY <3>1, Zenon DEF QueueDistinct
    <3> QED BY <1>2, <3>2, Zenon
  <2> QED BY <2>1, <2>2, ZenonT(40) DEF QueueDistinct, t
<1>5. \A k : InQueue(k)' <=> \E i \in DOMAIN t : IsIn(k, t[i])
  BY Zenon DEF InQueue, t
<1>6. ASSUME NEW k PROVE InQueue(k) <=> IsIn(k, Head(queue)) \/ InQueue(k)'
  <2>1. ASSUME InQueue(k) PROVE IsIn(k, Head(queue)) \/ InQueue(k)'
    <3>1. PICK i \in DOMAIN s : IsIn(k, s[i])
      BY <2>1, Zenon DEF InQueue
    <3>2. CASE i = 1
      BY <1>2, <3>1, <3>2, Zenon
    <3>3. CASE i # 1
      <4>1. i - 1 \in DOMAIN t /\ t[i - 1] = s[i]
        BY <1>2, <3>3, Zenon
      <4> QED BY <1>5, <3>1, <4>1, Zenon
    <3> QED BY <3>2, <3>3, Zenon
  <2>2. ASSUME IsIn(k, Head(queue)) PROVE InQueue(k)
    BY <1>2, <2>2, Zenon DEF InQueue
  <2>3. ASSUME InQueue(k)' PROVE InQueue(k)
    <3>1. PICK i \in DOMAIN t : IsIn(k, t[i])
      BY <1>5, <2>3, Zenon
    <3>2. i + 1 \in DOMAIN s /\ t[i] = s[i + 1]
      BY <1>2, Zenon
    <3> QED BY <3>1, <3>2, Zenon DEF InQueue
  <2> QED BY <2>1, <2>2, <2>3, Zenon
<1>7. ASSUME NEW k, IsIn(k, Head(queue)), InQueue(k)' PROVE FALSE
  <2>1. PICK i \in DOMAIN t : IsIn(k, t[i])
    BY <1>5, <1>7, Zenon
  <2>2. i + 1 \in DOMAIN s /\ i + 1 # 1 /\ IsIn(k, s[i + 1]) /\ IsIn(k, s[1]) /\ 1 \in DOMAIN s
    BY <1>2, <1>7, <2>1, Zenon
  <2> QED BY <2>2, Zenon DEF QueueDistinct
<1>8. Distinct(Head(queue))
  BY <1>2, Zenon DEF QueueDistinct
<1> QED BY <1>2, <1>3, <1>4, <1>6, <1>7, <1>8, Zenon DEF t

\* A batch of distinct keys that are not queued joins the queue.
LEMMA AppendQueue ==
  ASSUME WriterTypeOK, QueueDistinct, Len(queue) < QueueDepth, NEW b \in Seq(Keys), Distinct(b),
         \A k : IsIn(k, b) => ~InQueue(k), queue' = Append(queue, b)
  PROVE  /\ QueueDistinct' /\ queue' \in Seq(Seq(Keys)) /\ Len(queue') <= QueueDepth
         /\ \A k : InQueue(k)' <=> InQueue(k) \/ IsIn(k, b)
<1>1. queue \in Seq(Seq(Keys)) /\ Len(queue) <= QueueDepth
  BY Zenon DEF WriterTypeOK
<1> DEFINE s == queue
           t == Append(queue, b)
           n == Len(queue) + 1
<1>2. /\ t \in Seq(Seq(Keys)) /\ Len(s) \in Nat /\ Len(t) = Len(s) + 1
      /\ \A i : i \in DOMAIN t <=> i \in DOMAIN s \/ i = n
      /\ n \notin DOMAIN s /\ t[n] = b /\ \A i \in DOMAIN s : t[i] = s[i]
  BY <1>1, AppendFacts, Zenon
<1>3. Len(queue') <= QueueDepth
  BY SMTT(40), <1>1, <1>2, StoreAssumption
<1> HIDE DEF t, n
<1>4. QueueDistinct'
  <2>1. \A i \in DOMAIN t : Distinct(t[i])
    BY <1>2, Zenon DEF QueueDistinct
  <2>2. ASSUME NEW i \in DOMAIN t, NEW j \in DOMAIN t, NEW k, IsIn(k, t[i]), IsIn(k, t[j]) PROVE i = j
    <3>1. CASE i \in DOMAIN s /\ j \in DOMAIN s
      BY <1>2, <2>2, <3>1, Zenon DEF QueueDistinct
    <3>2. \A l \in DOMAIN s : ~(IsIn(k, b) /\ IsIn(k, s[l]))
      BY Zenon DEF InQueue
    <3> QED BY <1>2, <2>2, <3>1, <3>2, Zenon
  <2> QED BY <2>1, <2>2, ZenonT(40) DEF QueueDistinct, t
<1>5. \A k : InQueue(k)' <=> \E i \in DOMAIN t : IsIn(k, t[i])
  BY Zenon DEF InQueue, t
<1>6. \A k : InQueue(k)' <=> InQueue(k) \/ IsIn(k, b)
  BY <1>2, <1>5, ZenonT(40) DEF InQueue
<1> QED BY <1>2, <1>3, <1>4, <1>6, Zenon DEF t

\* The next write leaves the writer's own tasks for the window.
LEMMA TailPending ==
  ASSUME WriterTypeOK, Distinct(pending), pending # <<>>, pending' = Tail(pending)
  PROVE  /\ Distinct(pending)' /\ pending' \in Seq(Keys) /\ Head(pending) \in Keys
         /\ \A k : InPending(k) <=> k = Head(pending) \/ InPending(k)'
         /\ \A k : k = Head(pending) => ~InPending(k)'
<1> DEFINE s == pending
           t == Tail(pending)
<1>1. /\ t \in Seq(Keys) /\ 1 \in DOMAIN s /\ Head(s) = s[1] /\ s[1] \in Keys
      /\ \A i \in DOMAIN t : i + 1 \in DOMAIN s /\ i + 1 # 1 /\ t[i] = s[i + 1]
      /\ \A i \in DOMAIN s : i # 1 => i - 1 \in DOMAIN t /\ t[i - 1] = s[i]
      /\ \A i, j \in DOMAIN t : i + 1 = j + 1 => i = j
  BY TailFacts, Zenon DEF WriterTypeOK
<1> HIDE DEF t
<1>2. ASSUME NEW i \in DOMAIN t, NEW j \in DOMAIN t, t[i] = t[j] PROVE i = j
  <2>1. i + 1 \in DOMAIN s /\ j + 1 \in DOMAIN s /\ s[i + 1] = s[j + 1]
    BY <1>1, <1>2, Zenon
  <2>2. i + 1 = j + 1
    BY <2>1, Zenon DEF Distinct
  <2> QED BY <1>1, <2>2, Zenon
<1>3. \A k : InPending(k)' <=> IsIn(k, t)
  BY Zenon DEF InPending, t
<1>4. ASSUME NEW k PROVE InPending(k) <=> k = Head(pending) \/ IsIn(k, t)
  <2>1. ASSUME NEW i \in DOMAIN s, s[i] = k PROVE k = Head(pending) \/ IsIn(k, t)
    <3>1. CASE i = 1
      BY <1>1, <2>1, <3>1, Zenon
    <3>2. CASE i # 1
      BY <1>1, <2>1, <3>2, Zenon DEF IsIn
    <3> QED BY <3>1, <3>2, Zenon
  <2>2. ASSUME NEW i \in DOMAIN t, t[i] = k PROVE InPending(k)
    <3>1. i + 1 \in DOMAIN s /\ s[i + 1] = k
      BY <1>1, <2>2, Zenon
    <3> QED BY <3>1, Zenon DEF IsIn, InPending
  <2>3. k = Head(pending) => InPending(k)
    BY <1>1, Zenon DEF IsIn, InPending
  <2> QED BY <2>1, <2>2, <2>3, Zenon DEF InPending, IsIn
<1>5. ~IsIn(Head(pending), t)
  BY <1>1, ZenonT(120) DEF IsIn, Distinct
<1>6. Distinct(pending)'
  BY <1>2, Zenon DEF Distinct, t
<1> QED BY <1>1, <1>3, <1>4, <1>5, <1>6, Zenon DEF t

\* The oldest write leaves the window.
LEMMA TailFlight ==
  ASSUME WriterTypeOK, FlightDistinct, inflight # <<>>, inflight' = Tail(inflight)
  PROVE  /\ FlightDistinct' /\ inflight' \in Seq(WriteRecord) /\ Len(inflight') <= WriteInflight
         /\ Head(inflight) \in WriteRecord /\ Head(inflight) = inflight[1] /\ 1 \in DOMAIN inflight
         /\ \A i \in DOMAIN inflight' : /\ i + 1 \in DOMAIN inflight /\ inflight'[i] = inflight[i + 1]
                                       /\ inflight'[i].key # Head(inflight).key
         /\ \A k : InFlight(k) <=> k = Head(inflight).key \/ InFlight(k)'
         /\ \A k : k = Head(inflight).key => ~InFlight(k)'
<1> DEFINE s == inflight
           t == Tail(inflight)
<1>1. /\ t \in Seq(WriteRecord) /\ 1 \in DOMAIN s /\ Head(s) = s[1] /\ s[1] \in WriteRecord
      /\ Len(s) \in Nat /\ Len(t) = Len(s) - 1
      /\ \A i \in DOMAIN t : i + 1 \in DOMAIN s /\ i + 1 # 1 /\ t[i] = s[i + 1]
      /\ \A i \in DOMAIN s : i # 1 => i - 1 \in DOMAIN t /\ t[i - 1] = s[i]
      /\ \A i, j \in DOMAIN t : i + 1 = j + 1 => i = j
  BY TailFacts, Zenon DEF WriterTypeOK
<1>2. Len(s) <= WriteInflight
  BY Zenon DEF WriterTypeOK
<1>3. Len(inflight') <= WriteInflight
  BY SMTT(40), <1>1, <1>2, StoreAssumption
<1> HIDE DEF t
<1>4. ASSUME NEW i \in DOMAIN t, NEW j \in DOMAIN t, t[i].key = t[j].key PROVE i = j
  <2>1. i + 1 \in DOMAIN s /\ j + 1 \in DOMAIN s /\ s[i + 1].key = s[j + 1].key
    BY <1>1, <1>4, Zenon
  <2>2. i + 1 = j + 1
    BY <2>1, Zenon DEF FlightDistinct
  <2> QED BY <1>1, <2>2, Zenon
<1>5. \A k : InFlight(k)' <=> \E i \in DOMAIN t : t[i].key = k
  BY Zenon DEF InFlight, t
<1>6. ASSUME NEW k PROVE InFlight(k) <=> k = Head(inflight).key \/ \E i \in DOMAIN t : t[i].key = k
  <2>1. ASSUME NEW i \in DOMAIN s, s[i].key = k
        PROVE  k = Head(inflight).key \/ \E j \in DOMAIN t : t[j].key = k
    <3>1. CASE i = 1
      BY <1>1, <2>1, <3>1, Zenon
    <3>2. CASE i # 1
      BY <1>1, <2>1, <3>2, Zenon
    <3> QED BY <3>1, <3>2, Zenon
  <2>2. ASSUME NEW i \in DOMAIN t, t[i].key = k PROVE InFlight(k)
    <3>1. i + 1 \in DOMAIN s /\ s[i + 1].key = k
      BY <1>1, <2>2, Zenon
    <3> QED BY <3>1, Zenon DEF InFlight
  <2>3. k = Head(inflight).key => InFlight(k)
    BY <1>1, Zenon DEF InFlight
  <2> QED BY <2>1, <2>2, <2>3, Zenon DEF InFlight
<1>7. ASSUME NEW i \in DOMAIN t PROVE t[i].key # Head(inflight).key
  <2>1. i + 1 \in DOMAIN s /\ i + 1 # 1 /\ t[i] = s[i + 1] /\ 1 \in DOMAIN s /\ Head(s) = s[1]
    BY <1>1, <1>7, Zenon
  <2>2. s[i + 1].key # s[1].key
    BY <2>1, Zenon DEF FlightDistinct
  <2> QED BY <2>1, <2>2, Zenon
<1>8. FlightDistinct'
  BY <1>4, Zenon DEF FlightDistinct, t
<1> QED BY <1>1, <1>3, <1>5, <1>6, <1>7, <1>8, Zenon DEF t

\* A new write joins the window.
LEMMA AppendFlight ==
  ASSUME WriterTypeOK, FlightDistinct, Len(inflight) < WriteInflight, NEW e \in WriteRecord,
         ~InFlight(e.key), inflight' = Append(inflight, e)
  PROVE  /\ FlightDistinct' /\ inflight' \in Seq(WriteRecord) /\ Len(inflight') <= WriteInflight
         /\ \A i \in DOMAIN inflight' :
              inflight'[i] = e \/ (i \in DOMAIN inflight /\ inflight'[i] = inflight[i])
         /\ \A k : InFlight(k)' <=> InFlight(k) \/ k = e.key
<1> DEFINE s == inflight
           t == Append(inflight, e)
           n == Len(inflight) + 1
<1>1. /\ t \in Seq(WriteRecord) /\ Len(s) \in Nat /\ Len(t) = Len(s) + 1
      /\ \A i : i \in DOMAIN t <=> i \in DOMAIN s \/ i = n
      /\ n \notin DOMAIN s /\ t[n] = e /\ \A i \in DOMAIN s : t[i] = s[i]
  BY AppendFacts, Zenon DEF WriterTypeOK
<1>2. Len(inflight') <= WriteInflight
  BY SMTT(40), <1>1, StoreAssumption
<1> HIDE DEF t, n
<1>3. \A i \in DOMAIN s : s[i].key # e.key
  BY Zenon DEF InFlight
<1>4. ASSUME NEW i \in DOMAIN t, NEW j \in DOMAIN t, t[i].key = t[j].key PROVE i = j
  <2>1. CASE i \in DOMAIN s /\ j \in DOMAIN s
    BY <1>1, <1>4, <2>1, Zenon DEF FlightDistinct
  <2> QED BY <1>1, <1>3, <1>4, <2>1, Zenon
<1>5. \A k : InFlight(k)' <=> \E i \in DOMAIN t : t[i].key = k
  BY Zenon DEF InFlight, t
<1>6. \A k : (\E i \in DOMAIN t : t[i].key = k) <=> InFlight(k) \/ k = e.key
  BY <1>1, Zenon DEF InFlight
<1>7. FlightDistinct'
  BY <1>4, Zenon DEF FlightDistinct, t
<1>8. \A i \in DOMAIN t : t[i] = e \/ (i \in DOMAIN s /\ t[i] = s[i])
  BY <1>1, Zenon
<1> QED BY <1>1, <1>2, <1>5, <1>6, <1>7, <1>8, Zenon DEF t

-----------------------------------------------------------------------------
(* What a step leaves alone.                                               *)

\* Steps that do not touch the ring.
LEMMA RingFrame ==
  ASSUME RingOK, UNCHANGED ringVars
  PROVE  RingOK'
<1>1. head' = head /\ tail' = tail /\ nextShard' = nextShard /\ entries' = entries /\ leases' = leases
  BY Zenon DEF ringVars
<1>2. RingTypeOK'
  BY <1>1, Zenon DEF RingTypeOK, RingOK
<1>3. RingSound'
  BY SMTT(40), <1>1 DEF RingSound, RingOK, Live
<1> QED BY <1>2, <1>3, Zenon DEF RingOK

\* Steps of writers keep what readers rely on, as long as entries with a lease stay as they are
\* and none becomes hidden.
LEMMA LeasesFrame ==
  ASSUME LeasesOK, RingTypeOK, leases' = leases, reader' = reader,
         \A l \in leases : entries'[l.key] = entries[l.key],
         \A i \in Keys : entries'[i].st = "invalid" => entries'[i] = entries[i]
  PROVE  LeasesOK'
<1>1. \A r : LeaseOf(r)' = LeaseOf(r)
  BY Zenon DEF LeaseOf
<1>2. LeasesAgree'
  <2>1. ASSUME NEW l \in leases'
        PROVE  /\ reader'[l.reader].st \in {"reading", "done"} /\ l = LeaseOf(l.reader)'
               /\ SameGeneration(l, entries'[l.key]) /\ entries'[l.key].st \in {"committed", "invalid"}
    BY <1>1, Zenon DEF LeasesOK, LeasesAgree
  <2>2. \A r \in ReadTasks : reader'[r].st \in {"reading", "done"} => LeaseOf(r)' \in leases'
    BY <1>1, Zenon DEF LeasesOK, LeasesAgree
  <2> QED BY <2>1, <2>2, Zenon DEF LeasesAgree
<1>3. HiddenHeld'
  <2> SUFFICES ASSUME NEW k \in Keys, entries'[k].st = "invalid"
               PROVE  \/ \E l \in leases : l.key = k
                      \/ \E r \in ReadTasks : /\ reader[r].st = "last" /\ reader[r].key = k
                                              /\ SameGeneration(reader[r], entries'[k])
    BY Zenon DEF HiddenHeld
  <2>1. entries'[k] = entries[k] /\ entries[k].st = "invalid"
    BY Zenon
  <2> QED BY <2>1, Zenon DEF LeasesOK, HiddenHeld
<1> QED BY <1>2, <1>3, Zenon DEF LeasesOK

\* Keys whose holders stay where they are.
LEMMA HeldFrame ==
  ASSUME HeldOnce, pendingWrites' = pendingWrites,
         \A k \in Keys : /\ InQueue(k)' = InQueue(k) /\ InPending(k)' = InPending(k)
                         /\ InFlight(k)' = InFlight(k) /\ InGpu(k)' = InGpu(k)
  PROVE  PendingHeld' /\ OneHolder'
<1>1. ASSUME NEW k \in Keys
      PROVE  k \in pendingWrites' <=> InQueue(k)' \/ InPending(k)' \/ InFlight(k)' \/ InGpu(k)'
  BY Zenon DEF HeldOnce, PendingHeld
<1>2. ASSUME NEW k \in Keys
      PROVE  /\ InQueue(k)' => ~InPending(k)' /\ ~InFlight(k)' /\ ~InGpu(k)'
             /\ InPending(k)' => ~InFlight(k)' /\ ~InGpu(k)'
             /\ InFlight(k)' => ~InGpu(k)'
  BY Zenon DEF HeldOnce, OneHolder
<1> QED BY <1>1, <1>2, Zenon DEF PendingHeld, OneHolder

\* Steps that leave the tasks around the ring alone.
LEMMA WriterFrame ==
  ASSUME WriterTypeOK, HeldOnce, UNCHANGED <<writerVars, gpu>>
  PROVE  WriterTypeOK' /\ HeldOnce'
<1>1. /\ pendingWrites' = pendingWrites /\ reuseHistory' = reuseHistory /\ queue' = queue
      /\ pending' = pending /\ inflight' = inflight /\ flushing' = flushing /\ gpu' = gpu
  BY Zenon DEF writerVars
<1>2. WriterTypeOK'
  BY <1>1, Zenon DEF WriterTypeOK
<1>3. ASSUME NEW k \in Keys
      PROVE  /\ InQueue(k)' = InQueue(k) /\ InPending(k)' = InPending(k)
             /\ InFlight(k)' = InFlight(k) /\ InGpu(k)' = InGpu(k)
  <2>1. InQueue(k)' = InQueue(k)
    BY <1>1, Zenon DEF InQueue
  <2>2. InPending(k)' = InPending(k)
    BY <1>1, Zenon DEF InPending
  <2>3. InFlight(k)' = InFlight(k)
    BY <1>1, Zenon DEF InFlight
  <2>4. InGpu(k)' = InGpu(k)
    BY <1>1, Zenon DEF InGpu
  <2> QED BY <2>1, <2>2, <2>3, <2>4, Zenon
<1>4. PendingHeld' /\ OneHolder'
  BY SMTT(40), <1>1, <1>3, HeldFrame
<1>5. QueueDistinct' /\ Distinct(pending)' /\ FlightDistinct' /\ GpuDistinct'
  BY SMTT(40), <1>1 DEF HeldOnce, QueueDistinct, Distinct, FlightDistinct, GpuDistinct
<1> QED BY <1>2, <1>4, <1>5, Zenon DEF HeldOnce

\* The writes of the window.
LEMMA FlightFacts ==
  ASSUME WriterTypeOK, NEW i \in DOMAIN inflight
  PROVE  inflight[i].key \in Keys /\ inflight[i].st \in {"new", "io", "written", "failed"}
<1>1. inflight \in Seq(WriteRecord)
  BY Zenon DEF WriterTypeOK
<1>2. inflight[i] \in WriteRecord
  BY SMTT(40), <1>1
<1> QED BY <1>2, Zenon DEF WriteRecord

\* Steps that change no entry that is being written.
LEMMA WritesFrame ==
  ASSUME WritesKeepEntries, RingTypeOK, WriterTypeOK, ActorsTypeOK, UNCHANGED <<inflight, gpu>>,
         \A i \in Keys : entries[i].st = "writing" => entries'[i] = entries[i]
  PROVE  WritesKeepEntries'
<1>1. \A i \in DOMAIN inflight : inflight[i].key \in Keys
  BY FlightFacts, Zenon
<1>2. \A i \in DOMAIN inflight :
        inflight[i].st \in {"io", "written"} => entries'[inflight[i].key].st = "writing"
  BY <1>1, Zenon DEF WritesKeepEntries
<1>3. \A w \in GpuWorkers : gpu[w].st = "io" =>
        entries'[gpu[w].key].st = "writing" /\ SameGeneration(gpu[w], entries'[gpu[w].key])
  BY Zenon DEF WritesKeepEntries, ActorsTypeOK
<1> QED BY <1>2, <1>3, Zenon DEF WritesKeepEntries

\* The inventory changes an actor leaves for later.
LEMMA OwesType ==
  ASSUME ActorsTypeOK, NEW a \in Actors, NEW K \in SUBSET Keys, NEW present \in BOOLEAN, Owes(a, K, present)
  PROVE  announcing' \in [Actors -> SUBSET [key : Keys, present : BOOLEAN]]
<1>1. {[key |-> k, present |-> present] : k \in K} \in SUBSET [key : Keys, present : BOOLEAN]
  OBVIOUS
<1> QED BY <1>1, Zenon DEF Owes, ActorsTypeOK

\* A write of the window changes its state.
LEMMA FlightState ==
  ASSUME WriterTypeOK, HeldOnce, NEW i \in DOMAIN inflight,
         NEW st \in {"new", "io", "written", "failed"}, inflight' = [inflight EXCEPT ![i].st = st],
         UNCHANGED <<pendingWrites, reuseHistory, queue, pending, flushing, gpu>>
  PROVE  /\ WriterTypeOK' /\ HeldOnce' /\ DOMAIN inflight' = DOMAIN inflight
         /\ \A j \in DOMAIN inflight : j # i => inflight'[j] = inflight[j]
         /\ inflight'[i].key = inflight[i].key /\ inflight'[i].st = st
<1>1. inflight \in Seq(WriteRecord) /\ inflight[i] \in WriteRecord
  <2>1. inflight \in Seq(WriteRecord)
    BY Zenon DEF WriterTypeOK
  <2> QED BY SMTT(40), <2>1
<1> DEFINE e == [inflight[i] EXCEPT !.st = st]
<1>2. e \in WriteRecord /\ e.key = inflight[i].key /\ e.st = st
  BY SMTT(40), <1>1 DEF WriteRecord
<1>3. inflight' = [inflight EXCEPT ![i] = e]
  BY Zenon
<1> HIDE DEF e
<1>4. inflight' \in Seq(WriteRecord) /\ Len(inflight') = Len(inflight) /\ DOMAIN inflight' = DOMAIN inflight
  BY SMTT(40), <1>1, <1>2, <1>3
<1>5. inflight'[i] = e /\ \A j \in DOMAIN inflight : j # i => inflight'[j] = inflight[j]
  BY SMTT(40), <1>1, <1>3
<1>6. \A j \in DOMAIN inflight : inflight'[j].key = inflight[j].key
  BY <1>2, <1>5, Zenon
<1>7. WriterTypeOK'
  BY <1>4, Zenon DEF WriterTypeOK
<1>8. ASSUME NEW k \in Keys
      PROVE  /\ InQueue(k)' = InQueue(k) /\ InPending(k)' = InPending(k)
             /\ InFlight(k)' = InFlight(k) /\ InGpu(k)' = InGpu(k)
  <2>1. InQueue(k)' = InQueue(k)
    BY Zenon DEF InQueue
  <2>2. InPending(k)' = InPending(k)
    BY Zenon DEF InPending
  <2>3. InFlight(k)' <=> InFlight(k)
    BY <1>4, <1>6, Zenon DEF InFlight
  <2>4. InGpu(k)' = InGpu(k)
    BY Zenon DEF InGpu
  <2> QED BY <2>1, <2>2, <2>3, <2>4, Zenon DEF InFlight
<1>9. FlightDistinct'
  <2>1. ASSUME NEW j \in DOMAIN inflight, NEW l \in DOMAIN inflight, inflight'[j].key = inflight'[l].key
        PROVE  j = l
    BY <1>6, <2>1, Zenon DEF HeldOnce, FlightDistinct
  <2> QED BY <1>4, <2>1, Zenon DEF FlightDistinct
<1>10. QueueDistinct' /\ Distinct(pending)' /\ GpuDistinct'
  BY SMTT(40) DEF HeldOnce, QueueDistinct, Distinct, GpuDistinct
<1>11. HeldOnce'
  BY <1>8, <1>9, <1>10, HeldFrame, Zenon DEF HeldOnce
<1> QED BY <1>2, <1>4, <1>5, <1>7, <1>11, Zenon

-----------------------------------------------------------------------------
(* Admission and the writer task.                                          *)

\* An inventory change.
LEMMA AnnounceStep ==
  ASSUME StoreInvariant, NEW a \in Actors, Announce(a)
  PROVE  StoreInvariant'
<1>1. /\ UNCHANGED ringVars /\ UNCHANGED writerVars
      /\ gpuEnabled' = gpuEnabled /\ gpu' = gpu /\ reader' = reader /\ inflight' = inflight
      /\ entries' = entries /\ leases' = leases
  BY Zenon DEF Announce, ringVars, writerVars
<1>2. PICK change \in announcing[a] :
        /\ announcing' = [announcing EXCEPT ![a] = @ \ {change}]
        /\ advertised' = IF change.present THEN advertised \cup {change.key} ELSE advertised \ {change.key}
  BY Zenon DEF Announce
<1>3. /\ announcing \in [Actors -> SUBSET [key : Keys, present : BOOLEAN]] /\ advertised \in SUBSET Keys
      /\ announcing[a] \in SUBSET [key : Keys, present : BOOLEAN]
  BY Zenon DEF StoreInvariant, ActorsTypeOK
<1>4. change.key \in Keys
  BY <1>3, Zenon
<1>5. announcing' \in [Actors -> SUBSET [key : Keys, present : BOOLEAN]] /\ advertised' \in SUBSET Keys
  <2>1. announcing[a] \ {change} \in SUBSET [key : Keys, present : BOOLEAN]
    BY <1>3, Zenon
  <2> QED BY <1>2, <1>3, <1>4, <2>1, Zenon
<1>6. ActorsTypeOK'
  BY <1>1, <1>5, Zenon DEF StoreInvariant, ActorsTypeOK
<1> QED BY <1>1, <1>6, RingFrame, LeasesFrame, WriterFrame, WritesFrame, Zenon DEF StoreInvariant, RingOK

\* Steps of admission and of the writer that touch neither the ring nor the inventory.
LEMMA QuietFrame ==
  ASSUME StoreInvariant, WriterTypeOK', HeldOnce', WritesKeepEntries',
         UNCHANGED <<ringVars, gpuEnabled, gpu, reader, announcing, advertised>>
  PROVE  StoreInvariant'
<1>1. /\ UNCHANGED ringVars /\ gpuEnabled' = gpuEnabled /\ gpu' = gpu /\ reader' = reader
      /\ entries' = entries /\ leases' = leases /\ announcing' = announcing /\ advertised' = advertised
  BY Zenon DEF ringVars
<1>2. ActorsTypeOK'
  BY <1>1, Zenon DEF StoreInvariant, ActorsTypeOK
<1> QED BY <1>1, <1>2, RingFrame, LeasesFrame, Zenon DEF StoreInvariant, RingOK

\* ingest_batch.
LEMMA IngestStep ==
  ASSUME CountingFacts, StoreInvariant, NEW batch \in Batches, NEW reused \in BOOLEAN, Ingest(batch, reused)
  PROVE  StoreInvariant'
<1> DEFINE S == {k \in Keys : Admitted(k, reused)}
           admitted == Filtered(batch, S)
           queued == admitted # <<>> /\ Len(queue) < QueueDepth
<1>1. /\ reuseHistory' = Remembered({batch[i] : i \in DOMAIN batch})
      /\ queue' = IF queued THEN Append(queue, admitted) ELSE queue
      /\ pendingWrites' = IF queued THEN pendingWrites \cup {admitted[i] : i \in DOMAIN admitted}
                          ELSE pendingWrites
      /\ pending' = pending /\ inflight' = inflight /\ flushing' = flushing /\ gpu' = gpu
      /\ UNCHANGED <<ringVars, gpuEnabled, gpu, reader, announcing, advertised>>
  BY Zenon DEF Ingest
<1>2. batch \in Seq(Keys) /\ Distinct(batch)
  <2>1. PICK n \in 1 .. BatchLimit : batch \in [1 .. n -> Keys]
    BY Zenon DEF Batches
  <2>2. batch \in Seq(Keys)
    BY SMTT(40), <2>1, StoreAssumption
  <2> QED BY <2>2, Zenon DEF Batches, Distinct
<1>3. /\ admitted \in Seq(Keys) /\ Distinct(admitted)
      /\ \A x : IsIn(x, admitted) => x \in Keys /\ x \notin pendingWrites
  <2>1. /\ admitted \in Seq(Keys) /\ Distinct(admitted)
        /\ \A x : IsIn(x, admitted) => x \in S
    <3> HIDE DEF S
    <3> QED BY <1>2, FilteredFacts, Zenon
  <2>2. \A x \in S : x \in Keys /\ x \notin pendingWrites
    BY Zenon DEF Admitted
  <2> QED BY <2>1, <2>2, Zenon
<1> HIDE DEF admitted
<1>4. WriterTypeOK /\ HeldOnce
  BY Zenon DEF StoreInvariant
<1>5. reuseHistory' \in SUBSET Keys
  <2>1. reuseHistory \in SUBSET Keys
    BY <1>4, Zenon DEF WriterTypeOK
  <2>2. {batch[i] : i \in DOMAIN batch} \in SUBSET Keys
    BY SMTT(40), <1>2
  <2> QED BY <1>1, <2>1, <2>2, Zenon DEF Remembered
<1>6. CASE ~queued
  <2>1. queue' = queue /\ pendingWrites' = pendingWrites
    BY <1>1, <1>6, Zenon
  <2>2. \A k \in Keys : /\ InQueue(k)' = InQueue(k) /\ InPending(k)' = InPending(k)
                        /\ InFlight(k)' = InFlight(k) /\ InGpu(k)' = InGpu(k)
    BY SMTT(40), <1>1, <2>1 DEF InQueue, InPending, InFlight, InGpu
  <2>3. QueueDistinct' /\ Distinct(pending)' /\ FlightDistinct' /\ GpuDistinct'
    BY SMTT(40), <1>1, <1>4, <2>1 DEF HeldOnce, QueueDistinct, Distinct, FlightDistinct, GpuDistinct
  <2>4. HeldOnce'
    BY <1>4, <2>1, <2>2, <2>3, HeldFrame, Zenon DEF HeldOnce
  <2>5. WriterTypeOK'
    BY <1>1, <1>4, <1>5, <2>1, Zenon DEF WriterTypeOK
  <2>6. WritesKeepEntries'
    BY <1>1, WritesFrame, Zenon DEF StoreInvariant, RingOK, ringVars
  <2> QED BY <1>1, <2>4, <2>5, <2>6, QuietFrame, Zenon
<1>7. CASE queued
  <2>1. queue' = Append(queue, admitted) /\ Len(queue) < QueueDepth
        /\ pendingWrites' = pendingWrites \cup {admitted[i] : i \in DOMAIN admitted}
    BY <1>1, <1>7, Zenon
  <2>2. \A x : IsIn(x, admitted) => x \in Keys /\ ~InQueue(x) /\ ~InPending(x) /\ ~InFlight(x) /\ ~InGpu(x)
    BY <1>3, <1>4, Zenon DEF HeldOnce, PendingHeld
  <2>3. /\ QueueDistinct' /\ queue' \in Seq(Seq(Keys)) /\ Len(queue') <= QueueDepth
        /\ \A k : InQueue(k)' <=> InQueue(k) \/ IsIn(k, admitted)
    BY <1>3, <1>4, <2>1, <2>2, AppendQueue, Zenon DEF HeldOnce
  <2>4. \A k : k \in pendingWrites' <=> k \in pendingWrites \/ IsIn(k, admitted)
    BY <2>1, Zenon DEF IsIn
  <2>5. \A k \in Keys : /\ InPending(k)' = InPending(k)
                        /\ InFlight(k)' = InFlight(k) /\ InGpu(k)' = InGpu(k)
    BY SMTT(40), <1>1 DEF InPending, InFlight, InGpu
  <2>6. ASSUME NEW k \in Keys
        PROVE  /\ k \in pendingWrites' <=> InQueue(k)' \/ InPending(k)' \/ InFlight(k)' \/ InGpu(k)'
               /\ InQueue(k)' => ~InPending(k)' /\ ~InFlight(k)' /\ ~InGpu(k)'
               /\ InPending(k)' => ~InFlight(k)' /\ ~InGpu(k)'
               /\ InFlight(k)' => ~InGpu(k)'
    BY <1>4, <2>2, <2>3, <2>4, <2>5, Zenon DEF HeldOnce, PendingHeld, OneHolder
  <2>7. Distinct(pending)' /\ FlightDistinct' /\ GpuDistinct'
    BY SMTT(40), <1>1, <1>4 DEF HeldOnce, Distinct, FlightDistinct, GpuDistinct
  <2>8. HeldOnce'
    BY <2>3, <2>6, <2>7, Zenon DEF HeldOnce, PendingHeld, OneHolder
  <2>9. pendingWrites' \in SUBSET Keys
    <3>1. pendingWrites \in SUBSET Keys
      BY <1>4, Zenon DEF WriterTypeOK
    <3> QED BY <1>3, <2>4, <3>1, Zenon
  <2>10. WriterTypeOK'
    BY <1>1, <1>4, <1>5, <2>3, <2>9, Zenon DEF WriterTypeOK
  <2>11. WritesKeepEntries'
    BY <1>1, WritesFrame, Zenon DEF StoreInvariant, RingOK, ringVars
  <2> QED BY <1>1, <2>8, <2>10, <2>11, QuietFrame, Zenon
<1> QED BY <1>6, <1>7, Zenon

\* flush.
LEMMA FlushStep ==
  ASSUME StoreInvariant, Flush
  PROVE  StoreInvariant'
<1>1. /\ Len(queue) < QueueDepth /\ queue' = Append(queue, <<>>)
      /\ pendingWrites' = pendingWrites /\ reuseHistory' = reuseHistory
      /\ pending' = pending /\ inflight' = inflight /\ flushing' = flushing /\ gpu' = gpu
      /\ UNCHANGED <<ringVars, gpuEnabled, gpu, reader, announcing, advertised>>
  BY Zenon DEF Flush
<1>2. WriterTypeOK /\ HeldOnce
  BY Zenon DEF StoreInvariant
<1> DEFINE b == <<>>
<1>3. b \in Seq(Keys) /\ Distinct(b) /\ \A x : ~IsIn(x, b)
  BY SMTT(40) DEF Distinct, IsIn
<1>4. queue' = Append(queue, b)
  BY SMTT(40), <1>1
<1> HIDE DEF b
<1>5. /\ QueueDistinct' /\ queue' \in Seq(Seq(Keys)) /\ Len(queue') <= QueueDepth
      /\ \A k : InQueue(k)' <=> InQueue(k)
  BY <1>1, <1>2, <1>3, <1>4, AppendQueue, Zenon DEF HeldOnce
<1>6. \A k \in Keys : /\ InQueue(k)' = InQueue(k) /\ InPending(k)' = InPending(k)
                      /\ InFlight(k)' = InFlight(k) /\ InGpu(k)' = InGpu(k)
  <2>1. \A k \in Keys : /\ InPending(k)' = InPending(k)
                        /\ InFlight(k)' = InFlight(k) /\ InGpu(k)' = InGpu(k)
    BY SMTT(40), <1>1 DEF InPending, InFlight, InGpu
  <2>2. \A k \in Keys : InQueue(k)' = InQueue(k)
    BY <1>5, Zenon DEF InQueue
  <2> QED BY <2>1, <2>2, Zenon
<1>7. Distinct(pending)' /\ FlightDistinct' /\ GpuDistinct'
  BY SMTT(40), <1>1, <1>2 DEF HeldOnce, Distinct, FlightDistinct, GpuDistinct
<1>8. HeldOnce'
  BY <1>1, <1>2, <1>5, <1>6, <1>7, HeldFrame, Zenon DEF HeldOnce
<1>9. WriterTypeOK'
  BY <1>1, <1>2, <1>5, Zenon DEF WriterTypeOK
<1>10. WritesKeepEntries'
  BY <1>1, WritesFrame, Zenon DEF StoreInvariant, RingOK, ringVars
<1> QED BY <1>1, <1>8, <1>9, <1>10, QuietFrame, Zenon

\* The writer takes a command: a batch, less the blocks that are gone, or a flush.
LEMMA ReceiveStep ==
  ASSUME CountingFacts, StoreInvariant, NEW gone \in SUBSET Keys, Receive(gone)
  PROVE  StoreInvariant'
<1> DEFINE batch == Head(queue)
           kept == Filtered(batch, Keys \ gone)
<1>1. /\ queue # <<>> /\ pending = <<>> /\ gone \subseteq {batch[i] : i \in DOMAIN batch}
      /\ queue' = Tail(queue) /\ reuseHistory' = reuseHistory /\ inflight' = inflight /\ gpu' = gpu
      /\ UNCHANGED <<ringVars, gpuEnabled, gpu, reader, announcing, advertised>>
  BY Zenon DEF Receive
<1>2. IF batch = <<>> THEN flushing' = TRUE /\ pending' = pending /\ pendingWrites' = pendingWrites
      ELSE pending' = kept /\ pendingWrites' = pendingWrites \ gone /\ flushing' = flushing
  BY Zenon DEF Receive
<1>3. WriterTypeOK /\ HeldOnce
  BY Zenon DEF StoreInvariant
<1>4. /\ QueueDistinct' /\ queue' \in Seq(Seq(Keys)) /\ Len(queue') <= QueueDepth
      /\ batch \in Seq(Keys) /\ Distinct(batch)
      /\ \A k : InQueue(k) <=> IsIn(k, batch) \/ InQueue(k)'
      /\ \A k : ~(IsIn(k, batch) /\ InQueue(k)')
  BY <1>1, <1>3, TailQueue, Zenon DEF HeldOnce
<1>5. /\ kept \in Seq(Keys) /\ Distinct(kept)
      /\ \A x \in Keys : IsIn(x, kept) <=> x \notin gone /\ IsIn(x, batch)
  BY <1>4, FilteredFacts, Zenon
<1>6. \A x \in gone : IsIn(x, batch)
  BY <1>1, Zenon DEF IsIn
<1>7. \A k : ~InPending(k)
  BY SMTT(40), <1>1 DEF InPending, IsIn
<1> HIDE DEF batch, kept
<1>8. /\ pending' \in Seq(Keys) /\ Distinct(pending)' /\ flushing' \in BOOLEAN
      /\ pendingWrites' \in SUBSET Keys
      /\ \A k \in Keys : /\ InPending(k)' <=> IsIn(k, batch) /\ k \in pendingWrites'
                         /\ k \in pendingWrites' <=> k \in pendingWrites /\ ~(IsIn(k, batch) /\ k \in gone)
  <2>1. pendingWrites \in SUBSET Keys /\ flushing \in BOOLEAN
    BY <1>3, Zenon DEF WriterTypeOK
  <2>2. \A k \in Keys : IsIn(k, batch) => k \in pendingWrites
    BY <1>3, <1>4, Zenon DEF HeldOnce, PendingHeld
  <2>3. CASE batch = <<>>
    <3>1. flushing' = TRUE /\ pending' = pending /\ pendingWrites' = pendingWrites
      BY <1>2, <2>3, Zenon
    <3>2. \A k : ~IsIn(k, batch)
      BY SMTT(40), <2>3 DEF IsIn
    <3>3. pending' \in Seq(Keys) /\ Distinct(pending)'
      BY SMTT(40), <1>1, <3>1 DEF Distinct
    <3>4. \A k : ~InPending(k)'
      BY <1>7, <3>1, Zenon DEF InPending
    <3> QED BY <2>1, <3>1, <3>2, <3>3, <3>4, Zenon
  <2>4. CASE batch # <<>>
    <3>1. pending' = kept /\ pendingWrites' = pendingWrites \ gone /\ flushing' = flushing
      BY <1>2, <2>4, Zenon
    <3>2. \A k \in Keys : InPending(k)' <=> k \notin gone /\ IsIn(k, batch)
      BY <1>5, <3>1, Zenon DEF InPending
    <3>3. Distinct(pending)'
      BY <1>5, <3>1, Zenon DEF Distinct
    <3> QED BY <1>5, <1>6, <2>1, <2>2, <3>1, <3>2, <3>3, Zenon
  <2> QED BY <2>3, <2>4, Zenon
<1>9. \A k \in Keys : InFlight(k)' = InFlight(k) /\ InGpu(k)' = InGpu(k)
  BY SMTT(40), <1>1 DEF InFlight, InGpu
<1>10. ASSUME NEW k \in Keys
       PROVE  /\ k \in pendingWrites' <=> InQueue(k)' \/ InPending(k)' \/ InFlight(k)' \/ InGpu(k)'
              /\ InQueue(k)' => ~InPending(k)' /\ ~InFlight(k)' /\ ~InGpu(k)'
              /\ InPending(k)' => ~InFlight(k)' /\ ~InGpu(k)'
              /\ InFlight(k)' => ~InGpu(k)'
  <2>1. /\ k \in pendingWrites <=> InQueue(k) \/ InFlight(k) \/ InGpu(k)
        /\ InQueue(k) => ~InFlight(k) /\ ~InGpu(k)
        /\ InFlight(k) => ~InGpu(k)
    BY <1>3, <1>7, Zenon DEF HeldOnce, PendingHeld, OneHolder
  <2> QED BY <1>4, <1>8, <1>9, <2>1, Zenon
<1>11. FlightDistinct' /\ GpuDistinct'
  BY SMTT(40), <1>1, <1>3 DEF HeldOnce, FlightDistinct, GpuDistinct
<1>12. HeldOnce'
  BY <1>4, <1>8, <1>10, <1>11, Zenon DEF HeldOnce, PendingHeld, OneHolder
<1>13. WriterTypeOK'
  BY <1>1, <1>3, <1>4, <1>8, Zenon DEF WriterTypeOK
<1>14. WritesKeepEntries'
  BY <1>1, WritesFrame, Zenon DEF StoreInvariant, RingOK, ringVars
<1> QED BY <1>1, <1>12, <1>13, <1>14, QuietFrame, Zenon

\* The writer submits the next write.
LEMMA SubmitStep ==
  ASSUME StoreInvariant, Submit
  PROVE  StoreInvariant'
<1> DEFINE k0 == Head(pending)
           e == [key |-> k0, st |-> "new"]
<1>1. /\ pending # <<>> /\ Len(inflight) < WriteInflight
      /\ inflight' = Append(inflight, e) /\ pending' = Tail(pending)
      /\ pendingWrites' = pendingWrites /\ reuseHistory' = reuseHistory /\ queue' = queue
      /\ flushing' = flushing /\ gpu' = gpu /\ entries' = entries
      /\ UNCHANGED <<ringVars, gpuEnabled, gpu, reader, announcing, advertised>>
  BY Zenon DEF Submit, ringVars
<1>2. WriterTypeOK /\ HeldOnce
  BY Zenon DEF StoreInvariant
<1>3. /\ Distinct(pending)' /\ pending' \in Seq(Keys) /\ k0 \in Keys
      /\ \A k : InPending(k) <=> k = k0 \/ InPending(k)'
      /\ \A k : k = k0 => ~InPending(k)'
  BY <1>1, <1>2, TailPending, Zenon DEF HeldOnce
<1> HIDE DEF k0
<1>4. e \in WriteRecord /\ e.key = k0 /\ e.st = "new"
  BY SMTT(40), <1>3 DEF WriteRecord
<1> HIDE DEF e
<1>5. ~InFlight(e.key)
  BY <1>2, <1>3, <1>4, Zenon DEF HeldOnce, OneHolder
<1>6. /\ FlightDistinct' /\ inflight' \in Seq(WriteRecord) /\ Len(inflight') <= WriteInflight
      /\ \A i \in DOMAIN inflight' : inflight'[i] = e \/ (i \in DOMAIN inflight /\ inflight'[i] = inflight[i])
      /\ \A k : InFlight(k)' <=> InFlight(k) \/ k = k0
  BY <1>1, <1>2, <1>4, <1>5, AppendFlight, Zenon DEF HeldOnce
<1>7. \A k \in Keys : InQueue(k)' = InQueue(k) /\ InGpu(k)' = InGpu(k)
  BY SMTT(40), <1>1 DEF InQueue, InGpu
<1>8. ASSUME NEW k \in Keys
      PROVE  /\ k \in pendingWrites' <=> InQueue(k)' \/ InPending(k)' \/ InFlight(k)' \/ InGpu(k)'
             /\ InQueue(k)' => ~InPending(k)' /\ ~InFlight(k)' /\ ~InGpu(k)'
             /\ InPending(k)' => ~InFlight(k)' /\ ~InGpu(k)'
             /\ InFlight(k)' => ~InGpu(k)'
  <2>1. /\ k \in pendingWrites <=> InQueue(k) \/ InPending(k) \/ InFlight(k) \/ InGpu(k)
        /\ InQueue(k) => ~InPending(k) /\ ~InFlight(k) /\ ~InGpu(k)
        /\ InPending(k) => ~InFlight(k) /\ ~InGpu(k)
        /\ InFlight(k) => ~InGpu(k)
    BY <1>2, Zenon DEF HeldOnce, PendingHeld, OneHolder
  <2> QED BY <1>1, <1>3, <1>6, <1>7, <2>1, Zenon
<1>9. QueueDistinct' /\ GpuDistinct'
  BY SMTT(40), <1>1, <1>2 DEF HeldOnce, QueueDistinct, GpuDistinct
<1>10. HeldOnce'
  BY <1>3, <1>6, <1>8, <1>9, Zenon DEF HeldOnce, PendingHeld, OneHolder
<1>11. WriterTypeOK'
  BY <1>1, <1>2, <1>3, <1>6, Zenon DEF WriterTypeOK
<1>12. WritesKeepEntries'
  <2>1. \A i \in DOMAIN inflight' :
          inflight'[i].st \in {"io", "written"} => entries[inflight'[i].key].st = "writing"
    <3>1. e.st \notin {"io", "written"}
      BY SMTT(40), <1>4
    <3> QED BY <1>6, <3>1, Zenon DEF StoreInvariant, WritesKeepEntries
  <2> QED BY <1>1, <2>1, Zenon DEF StoreInvariant, WritesKeepEntries
<1> QED BY <1>1, <1>10, <1>11, <1>12, QuietFrame, Zenon

\* The device finishes a write.
LEMMA FinishWriteStep ==
  ASSUME StoreInvariant, NEW i \in DOMAIN inflight, NEW success \in BOOLEAN, FinishWrite(i, success)
  PROVE  StoreInvariant'
<1> DEFINE st == IF success THEN "written" ELSE "failed"
<1>1. /\ inflight[i].st = "io" /\ inflight' = [inflight EXCEPT ![i].st = st]
      /\ UNCHANGED <<pendingWrites, reuseHistory, queue, pending, flushing, gpu>>
      /\ UNCHANGED <<ringVars, gpuEnabled, gpu, reader, announcing, advertised>>
      /\ gpu' = gpu /\ entries' = entries
  BY Zenon DEF FinishWrite, ringVars
<1>2. st \in {"new", "io", "written", "failed"}
  OBVIOUS
<1> HIDE DEF st
<1>3. /\ WriterTypeOK' /\ HeldOnce' /\ DOMAIN inflight' = DOMAIN inflight
      /\ \A j \in DOMAIN inflight : j # i => inflight'[j] = inflight[j]
      /\ inflight'[i].key = inflight[i].key
  BY <1>1, <1>2, FlightState, Zenon DEF StoreInvariant
<1>4. \A j \in DOMAIN inflight' :
         inflight'[j].st \in {"io", "written"} => entries[inflight'[j].key].st = "writing"
  <2>1. \A j \in DOMAIN inflight : inflight[j].st = "io" => entries[inflight[j].key].st = "writing"
    BY Zenon DEF StoreInvariant, WritesKeepEntries
  <2>2. ASSUME NEW j \in DOMAIN inflight, inflight'[j].st \in {"io", "written"}
        PROVE  entries[inflight'[j].key].st = "writing"
    <3>1. CASE j = i
      BY <1>1, <1>3, <2>1, <3>1, Zenon
    <3>2. CASE j # i
      BY <1>3, <2>2, <3>2, Zenon DEF StoreInvariant, WritesKeepEntries
    <3> QED BY <3>1, <3>2, Zenon
  <2> QED BY <1>3, <2>2, Zenon
<1>5. WritesKeepEntries'
  BY <1>1, <1>4, Zenon DEF StoreInvariant, WritesKeepEntries
<1> QED BY <1>1, <1>3, <1>5, QuietFrame, Zenon

\* A flush returns.
LEMMA FireFlushStep ==
  ASSUME StoreInvariant, FireFlush
  PROVE  StoreInvariant'
<1>1. /\ flushing' = FALSE
      /\ pendingWrites' = pendingWrites /\ reuseHistory' = reuseHistory /\ queue' = queue
      /\ pending' = pending /\ inflight' = inflight /\ gpu' = gpu
      /\ UNCHANGED <<ringVars, gpuEnabled, gpu, reader, announcing, advertised>>
  BY Zenon DEF FireFlush
<1>2. WriterTypeOK'
  BY <1>1, Zenon DEF StoreInvariant, WriterTypeOK
<1>3. \A k \in Keys : /\ InQueue(k)' = InQueue(k) /\ InPending(k)' = InPending(k)
                      /\ InFlight(k)' = InFlight(k) /\ InGpu(k)' = InGpu(k)
  BY SMTT(40), <1>1 DEF InQueue, InPending, InFlight, InGpu
<1>4. QueueDistinct' /\ Distinct(pending)' /\ FlightDistinct' /\ GpuDistinct'
  BY SMTT(40), <1>1 DEF StoreInvariant, HeldOnce, QueueDistinct, Distinct, FlightDistinct, GpuDistinct
<1>5. HeldOnce'
  BY <1>1, <1>3, <1>4, HeldFrame, Zenon DEF StoreInvariant, HeldOnce
<1>6. WritesKeepEntries'
  BY <1>1, WritesFrame, Zenon DEF StoreInvariant, RingOK, ringVars
<1> QED BY <1>1, <1>2, <1>5, <1>6, QuietFrame, Zenon

-----------------------------------------------------------------------------
(* Extents are reserved and committed.                                     *)

\* A lease names a key, and its reader.
LEMMA LeaseFacts ==
  ASSUME RingTypeOK, NEW l \in leases
  PROVE  l.key \in Keys /\ l.reader \in ReadTasks /\ l.shard \in Shards /\ l.begin \in Nat
<1>1. l \in LeaseRecord
  BY Zenon DEF RingTypeOK
<1> QED BY <1>1, Zenon DEF LeaseRecord

\* reserve leaves what is read or written.
LEMMA ReserveKeeps ==
  ASSUME RingOK, LeasesOK, NEW k \in Keys, NEW s \in Shards, Reserve(k, s), reader' = reader
  PROVE  /\ RingOK' /\ LeasesOK' /\ ~Live(k) /\ BeginAt(s, Size[k]) \in Nat
         /\ entries'[k].st = "writing" /\ entries'[k].shard = s /\ entries'[k].begin = BeginAt(s, Size[k])
         /\ \A i \in Keys : entries[i].st = "writing" => entries'[i] = entries[i]
         /\ Retired(k, s) \in SUBSET Keys
<1>1. /\ RingTypeOK /\ RingTypeOK' /\ RingSound' /\ BeginAt(s, Size[k]) \in Nat /\ ~Live(k)
      /\ entries'[k] = Entry("writing", s, BeginAt(s, Size[k]))
      /\ \A i \in Keys \ {k} : entries'[i] = entries[i] \/ (entries'[i] = NoEntry /\ ~Protected(i))
  BY ReserveRing, Zenon DEF RingOK
<1>2. entries'[k].st = "writing" /\ entries'[k].shard = s /\ entries'[k].begin = BeginAt(s, Size[k])
  BY SMTT(40), <1>1 DEF Entry
<1>3. leases' = leases
  BY Zenon DEF Reserve
<1>4. entries[k].st = "none"
  BY <1>1, Zenon DEF Live
<1>5. ASSUME NEW l \in leases PROVE entries'[l.key] = entries[l.key]
  <2>1. /\ l.key \in Keys /\ SameGeneration(l, entries[l.key])
        /\ entries[l.key].st \in {"committed", "invalid"}
    BY <1>1, LeaseFacts, Zenon DEF LeasesOK, LeasesAgree
  <2>2. Protected(l.key)
    BY <2>1, Zenon DEF Protected, Readers
  <2>3. l.key # k
    BY SMTT(40), <1>4, <2>1
  <2> QED BY <1>1, <2>1, <2>2, <2>3, Zenon
<1>6. ASSUME NEW i \in Keys, entries'[i].st = "invalid" PROVE entries'[i] = entries[i]
  <2>1. i # k
    BY SMTT(40), <1>2, <1>6
  <2>2. entries'[i] # NoEntry
    BY SMTT(40), <1>6, NoEntryFacts
  <2> QED BY <1>1, <2>1, <2>2, Zenon
<1>7. LeasesOK'
  BY <1>1, <1>3, <1>5, <1>6, LeasesFrame, Zenon
<1>8. ASSUME NEW i \in Keys, entries[i].st = "writing" PROVE entries'[i] = entries[i]
  <2>1. i # k
    BY SMTT(40), <1>4, <1>8
  <2> QED BY <1>1, <1>8, <2>1, Zenon DEF Protected
<1>9. Retired(k, s) \in SUBSET Keys
  BY Zenon DEF Retired, Overrun
<1> QED BY <1>1, <1>2, <1>7, <1>8, <1>9, Zenon DEF RingOK

\* commit touches only its own entry, which nobody reads.
LEMMA CommitKeeps ==
  ASSUME RingOK, LeasesOK, NEW k \in Keys, NEW success \in BOOLEAN, Commit(k, success), reader' = reader
  PROVE  RingOK' /\ LeasesOK' /\ \A i \in Keys : i # k => entries'[i] = entries[i]
<1> DEFINE e == IF entries[k].st # "writing" THEN entries[k]
                ELSE IF success /\ OffsetValid(entries[k]) THEN [entries[k] EXCEPT !.st = "committed"]
                ELSE NoEntry
<1>1. /\ entries' = [entries EXCEPT ![k] = e]
      /\ UNCHANGED <<head, tail, nextShard, leases>> /\ leases' = leases
  BY Zenon DEF Commit
<1>2. entries[k] \in EntryRecord /\ RingTypeOK /\ RingSound
  BY Zenon DEF RingOK, RingTypeOK
<1>3. /\ e \in EntryRecord
      /\ e = NoEntry \/ (Live(k) /\ e.st # "none" /\ SameGeneration(e, entries[k]))
      /\ entries[k].st # "writing" => e = entries[k]
      /\ e.st = "invalid" => e = entries[k]
  <2>1. CASE entries[k].st # "writing"
    <3>1. e = entries[k]
      BY <2>1, Zenon
    <3>2. ~Live(k) => entries[k] = NoEntry
      BY <1>2, Zenon DEF RingSound
    <3> QED BY <1>2, <3>1, <3>2, Zenon DEF Live, SameGeneration
  <2>2. CASE entries[k].st = "writing" /\ success /\ OffsetValid(entries[k])
    <3>1. e = [entries[k] EXCEPT !.st = "committed"]
      BY <2>2, Zenon
    <3> HIDE DEF e
    <3>2. e \in EntryRecord /\ e.st = "committed" /\ e.shard = entries[k].shard /\ e.begin = entries[k].begin
      BY SMTT(40), <1>2, <3>1 DEF EntryRecord
    <3> QED BY SMTT(40), <2>2, <3>2 DEF Live, SameGeneration
  <2>3. CASE entries[k].st = "writing" /\ ~(success /\ OffsetValid(entries[k]))
    <3>1. e = NoEntry
      BY <2>3, Zenon
    <3> HIDE DEF e
    <3> QED BY SMTT(40), <2>3, <3>1, NoEntryFacts
  <2> QED BY <2>1, <2>2, <2>3, Zenon
<1> HIDE DEF e
<1>4. /\ RingTypeOK' /\ RingSound' /\ entries'[k] = e
      /\ \A i \in Keys : i # k => entries'[i] = entries[i]
  BY <1>1, <1>2, <1>3, RingShrinks, Zenon
<1>5. ASSUME NEW l \in leases PROVE entries'[l.key] = entries[l.key]
  <2>1. l.key \in Keys /\ entries[l.key].st \in {"committed", "invalid"}
    BY <1>2, LeaseFacts, Zenon DEF LeasesOK, LeasesAgree
  <2>2. entries[l.key].st # "writing"
    BY SMTT(40), <2>1
  <2> QED BY <1>3, <1>4, <2>1, <2>2, Zenon
<1>6. \A i \in Keys : entries'[i].st = "invalid" => entries'[i] = entries[i]
  BY <1>3, <1>4, Zenon
<1>7. LeasesOK'
  BY <1>1, <1>2, <1>5, <1>6, LeasesFrame, Zenon
<1> QED BY <1>4, <1>7, Zenon DEF RingOK

\* The first poll of a write reserves its extent, or gives up (execute_write).
LEMMA StartWriteStep ==
  ASSUME StoreInvariant, NEW i \in DOMAIN inflight, StartWrite(i)
  PROVE  StoreInvariant'
<1> DEFINE k == inflight[i].key
<1>1. /\ inflight[i].st = "new"
      /\ UNCHANGED <<pendingWrites, reuseHistory, queue, pending, flushing, gpu>>
      /\ gpuEnabled' = gpuEnabled /\ gpu' = gpu /\ reader' = reader /\ advertised' = advertised
  BY Zenon DEF StartWrite
<1>2. k \in Keys
  BY FlightFacts, Zenon DEF StoreInvariant
<1>3. ASSUME NEW s \in Shards, Reserve(k, s), Owes("writer", Retired(k, s), FALSE),
             inflight' = [inflight EXCEPT ![i].st = "io"]
      PROVE  StoreInvariant'
  <2>1. /\ WriterTypeOK' /\ HeldOnce' /\ DOMAIN inflight' = DOMAIN inflight
        /\ \A j \in DOMAIN inflight : j # i => inflight'[j] = inflight[j]
        /\ inflight'[i].key = k
    BY <1>1, <1>3, FlightState, Zenon DEF StoreInvariant
  <2>2. /\ RingOK' /\ LeasesOK' /\ entries'[k].st = "writing"
        /\ \A j \in Keys : entries[j].st = "writing" => entries'[j] = entries[j]
        /\ Retired(k, s) \in SUBSET Keys
    BY <1>1, <1>2, <1>3, ReserveKeeps, Zenon DEF StoreInvariant
  <2>3. ASSUME NEW j \in DOMAIN inflight, inflight'[j].st \in {"io", "written"}
        PROVE  entries'[inflight'[j].key].st = "writing"
    <3>1. CASE j = i
      BY <2>1, <2>2, <3>1, Zenon
    <3>2. CASE j # i
      <4>1. inflight'[j] = inflight[j] /\ inflight[j].key \in Keys /\ entries[inflight[j].key].st = "writing"
        BY <2>1, <2>3, <3>2, FlightFacts, Zenon DEF StoreInvariant, WritesKeepEntries
      <4> QED BY <2>2, <4>1, Zenon
    <3> QED BY <3>1, <3>2, Zenon
  <2>4. \A w \in GpuWorkers : gpu[w].st = "io" =>
          entries'[gpu[w].key].st = "writing" /\ SameGeneration(gpu[w], entries'[gpu[w].key])
    BY <2>2, Zenon DEF StoreInvariant, WritesKeepEntries, ActorsTypeOK
  <2>5. WritesKeepEntries'
    BY <1>1, <2>1, <2>3, <2>4, Zenon DEF WritesKeepEntries
  <2>6. "writer" \in Actors /\ FALSE \in BOOLEAN
    BY Zenon DEF Actors
  <2>7. announcing' \in [Actors -> SUBSET [key : Keys, present : BOOLEAN]]
    BY <1>3, <2>2, <2>6, OwesType, Zenon DEF StoreInvariant
  <2>8. ActorsTypeOK'
    BY <1>1, <2>7, Zenon DEF StoreInvariant, ActorsTypeOK
  <2> QED BY <2>1, <2>2, <2>5, <2>8, Zenon DEF StoreInvariant
<1>4. ASSUME inflight' = [inflight EXCEPT ![i].st = "failed"], UNCHANGED <<ringVars, announcing>>
      PROVE  StoreInvariant'
  <2>1. /\ WriterTypeOK' /\ HeldOnce' /\ DOMAIN inflight' = DOMAIN inflight
        /\ \A j \in DOMAIN inflight : j # i => inflight'[j] = inflight[j]
        /\ inflight'[i].st = "failed"
    BY <1>1, <1>4, FlightState, Zenon DEF StoreInvariant
  <2>2. inflight'[i].st \notin {"io", "written"} /\ entries' = entries
    BY SMTT(40), <1>4, <2>1 DEF ringVars
  <2>3. WritesKeepEntries'
    <3>1. \A j \in DOMAIN inflight' :
            inflight'[j].st \in {"io", "written"} => entries[inflight'[j].key].st = "writing"
      BY <2>1, <2>2, Zenon DEF StoreInvariant, WritesKeepEntries
    <3> QED BY <1>1, <2>2, <3>1, Zenon DEF StoreInvariant, WritesKeepEntries
  <2> QED BY <1>1, <1>4, <2>1, <2>3, QuietFrame, Zenon
<1> QED BY <1>3, <1>4, Zenon DEF StartWrite

\* What commit_write announces is typed.
LEMMA CommitOwes ==
  ASSUME ActorsTypeOK, NEW a \in Actors, NEW k \in Keys, NEW success \in BOOLEAN, CommitWrite(a, k, success)
  PROVE  announcing' \in [Actors -> SUBSET [key : Keys, present : BOOLEAN]]
<1>1. PICK K \in {{k}, {}} : Owes(a, K, TRUE)
  BY Zenon DEF CommitWrite
<1>2. K \in SUBSET Keys /\ TRUE \in BOOLEAN
  BY Zenon
<1> QED BY <1>1, <1>2, OwesType, Zenon

\* The oldest write of the window is committed or given up.
LEMMA CompleteWriteStep ==
  ASSUME StoreInvariant, CompleteWrite
  PROVE  StoreInvariant'
<1> DEFINE k == Head(inflight).key
           success == Head(inflight).st = "written"
<1>1. /\ inflight # <<>> /\ CommitWrite("writer", k, success) /\ inflight' = Tail(inflight)
      /\ reuseHistory' = reuseHistory /\ queue' = queue /\ pending' = pending /\ flushing' = flushing
      /\ gpuEnabled' = gpuEnabled /\ gpu' = gpu /\ reader' = reader /\ advertised' = advertised
  BY Zenon DEF CompleteWrite
<1>2. WriterTypeOK /\ HeldOnce /\ "writer" \in Actors /\ success \in BOOLEAN
  BY Zenon DEF StoreInvariant, Actors
<1>3. /\ FlightDistinct' /\ inflight' \in Seq(WriteRecord) /\ Len(inflight') <= WriteInflight
      /\ Head(inflight) \in WriteRecord
      /\ \A i \in DOMAIN inflight' : /\ i + 1 \in DOMAIN inflight /\ inflight'[i] = inflight[i + 1]
                                    /\ inflight'[i].key # k
      /\ \A j : InFlight(j) <=> j = k \/ InFlight(j)'
      /\ \A j : j = k => ~InFlight(j)'
  BY <1>1, <1>2, TailFlight, Zenon DEF HeldOnce
<1>4. k \in Keys
  BY <1>3, Zenon DEF WriteRecord
<1>5. Commit(k, success) /\ pendingWrites' = pendingWrites \ {k}
  BY <1>1, Zenon DEF CommitWrite
<1>6. announcing' \in [Actors -> SUBSET [key : Keys, present : BOOLEAN]]
  BY <1>1, <1>2, <1>4, CommitOwes, Zenon DEF StoreInvariant
<1> HIDE DEF k, success
<1>7. RingOK' /\ LeasesOK' /\ \A i \in Keys : i # k => entries'[i] = entries[i]
  BY <1>1, <1>2, <1>4, <1>5, CommitKeeps, Zenon DEF StoreInvariant
<1>8. ActorsTypeOK'
  BY <1>1, <1>6, Zenon DEF StoreInvariant, ActorsTypeOK
<1>9. \A j \in Keys : InQueue(j)' = InQueue(j) /\ InPending(j)' = InPending(j) /\ InGpu(j)' = InGpu(j)
  BY SMTT(40), <1>1 DEF InQueue, InPending, InGpu
<1>10. ASSUME NEW j \in Keys
       PROVE  /\ j \in pendingWrites' <=> InQueue(j)' \/ InPending(j)' \/ InFlight(j)' \/ InGpu(j)'
              /\ InQueue(j)' => ~InPending(j)' /\ ~InFlight(j)' /\ ~InGpu(j)'
              /\ InPending(j)' => ~InFlight(j)' /\ ~InGpu(j)'
              /\ InFlight(j)' => ~InGpu(j)'
  <2>1. /\ j \in pendingWrites <=> InQueue(j) \/ InPending(j) \/ InFlight(j) \/ InGpu(j)
        /\ InQueue(j) => ~InPending(j) /\ ~InFlight(j) /\ ~InGpu(j)
        /\ InPending(j) => ~InFlight(j) /\ ~InGpu(j)
        /\ InFlight(j) => ~InGpu(j)
    BY <1>2, Zenon DEF HeldOnce, PendingHeld, OneHolder
  <2>2. j \in pendingWrites' <=> j \in pendingWrites /\ j # k
    BY <1>5, Zenon
  <2> QED BY <1>3, <1>9, <2>1, <2>2, Zenon
<1>11. QueueDistinct' /\ Distinct(pending)' /\ GpuDistinct'
  BY SMTT(40), <1>1, <1>2 DEF HeldOnce, QueueDistinct, Distinct, GpuDistinct
<1>12. HeldOnce'
  BY <1>3, <1>10, <1>11, Zenon DEF HeldOnce, PendingHeld, OneHolder
<1>13. WriterTypeOK'
  <2>1. pendingWrites' \in SUBSET Keys
    BY <1>2, <1>5, Zenon DEF WriterTypeOK
  <2> QED BY <1>1, <1>2, <1>3, <2>1, Zenon DEF WriterTypeOK
<1>14. WritesKeepEntries'
  <2>1. ASSUME NEW i \in DOMAIN inflight', inflight'[i].st \in {"io", "written"}
        PROVE  entries'[inflight'[i].key].st = "writing"
    <3>1. /\ inflight'[i].key \in Keys /\ inflight'[i].key # k
          /\ entries[inflight'[i].key].st = "writing"
      BY <1>2, <1>3, <2>1, FlightFacts, ZenonT(40) DEF StoreInvariant, WritesKeepEntries
    <3> QED BY <1>7, <3>1, Zenon
  <2>2. ASSUME NEW w \in GpuWorkers, gpu[w].st = "io"
        PROVE  entries'[gpu[w].key].st = "writing" /\ SameGeneration(gpu[w], entries'[gpu[w].key])
    <3>1. /\ gpu[w].key \in Keys /\ entries[gpu[w].key].st = "writing"
          /\ SameGeneration(gpu[w], entries[gpu[w].key])
      BY <2>2, Zenon DEF StoreInvariant, WritesKeepEntries, ActorsTypeOK
    <3>2. gpu[w].key # k
      BY <1>2, <1>3, <1>4, <2>2, Zenon DEF HeldOnce, OneHolder, InGpu
    <3> QED BY <1>7, <3>1, <3>2, Zenon
  <2> QED BY <1>1, <2>1, <2>2, Zenon DEF WritesKeepEntries
<1> QED BY <1>7, <1>8, <1>12, <1>13, <1>14, Zenon DEF StoreInvariant

-----------------------------------------------------------------------------
(* GPU workers.                                                            *)

\* A GPU worker takes an extent or gives it back.
LEMMA GpuFacts ==
  ASSUME ActorsTypeOK, WriterTypeOK, HeldOnce, NEW w \in GpuWorkers, NEW e \in GpuRecord,
         gpu' = [gpu EXCEPT ![w] = e], e.st = "io" => e.key \in Keys /\ e.key \notin pendingWrites,
         UNCHANGED <<reuseHistory, queue, pending, inflight, flushing>>,
         NEW k \in Keys,
         \/ gpu[w].st = "idle" /\ e.st = "io" /\ e.key = k /\ pendingWrites' = pendingWrites \cup {k}
         \/ gpu[w].st = "io" /\ gpu[w].key = k /\ e.st = "idle" /\ pendingWrites' = pendingWrites \ {k}
  PROVE  /\ WriterTypeOK' /\ HeldOnce' /\ gpu' \in [GpuWorkers -> GpuRecord]
         /\ gpu'[w] = e /\ \A v \in GpuWorkers : v # w => gpu'[v] = gpu[v]
         /\ \A v \in GpuWorkers : gpu'[v].st = "io" => gpu'[v].key \in Keys
<1>1. /\ gpu' \in [GpuWorkers -> GpuRecord] /\ gpu'[w] = e
      /\ \A v \in GpuWorkers : v # w => gpu'[v] = gpu[v]
  BY Zenon DEF ActorsTypeOK
<1>2. \A v \in GpuWorkers : gpu'[v].st = "io" => gpu'[v].key \in Keys
  BY <1>1, Zenon DEF ActorsTypeOK
<1>3. WriterTypeOK'
  <2>1. pendingWrites' \in SUBSET Keys
    BY Zenon DEF WriterTypeOK
  <2> QED BY <2>1, Zenon DEF WriterTypeOK
<1>4. \A j \in Keys : InQueue(j)' = InQueue(j) /\ InPending(j)' = InPending(j) /\ InFlight(j)' = InFlight(j)
  BY SMTT(40) DEF InQueue, InPending, InFlight
<1>5. QueueDistinct' /\ Distinct(pending)' /\ FlightDistinct'
  BY SMTT(40) DEF HeldOnce, QueueDistinct, Distinct, FlightDistinct
<1>6. \A v \in GpuWorkers : gpu[v].st = "io" => InGpu(gpu[v].key) /\ gpu[v].key \in pendingWrites
  <2>1. \A v \in GpuWorkers : gpu[v].st = "io" => InGpu(gpu[v].key) /\ gpu[v].key \in Keys
    BY Zenon DEF InGpu, ActorsTypeOK
  <2> QED BY <2>1, Zenon DEF HeldOnce, PendingHeld
<1>7. GpuDistinct /\ "io" # "idle"
  BY Zenon DEF HeldOnce
<1>8. ASSUME NEW v \in GpuWorkers, NEW u \in GpuWorkers, gpu'[v].st = "io", gpu'[u].st = "io",
             gpu'[v].key = gpu'[u].key
      PROVE  v = u
  <2>1. CASE v # w /\ u # w
    BY <1>1, <1>7, <1>8, <2>1, Zenon DEF GpuDistinct
  <2> QED BY <1>1, <1>6, <1>8, <2>1, Zenon
<1>9. ASSUME NEW j \in Keys
      PROVE  InGpu(j)' <=> (InGpu(j) /\ j # k) \/ (e.st = "io" /\ j = k)
  <2>1. ASSUME NEW v \in GpuWorkers, gpu'[v].st = "io", gpu'[v].key = j
        PROVE  (InGpu(j) /\ j # k) \/ (e.st = "io" /\ j = k)
    <3>1. CASE v = w
      BY <1>1, <1>7, <2>1, <3>1, Zenon
    <3>2. CASE v # w
      <4>1. gpu[v].st = "io" /\ gpu[v].key = j /\ InGpu(j) /\ j \in pendingWrites
        BY <1>1, <1>6, <2>1, <3>2, Zenon
      <4>2. j # k
        BY <1>7, <3>2, <4>1, Zenon DEF GpuDistinct
      <4> QED BY <4>1, <4>2, Zenon
    <3> QED BY <3>1, <3>2, Zenon
  <2>2. ASSUME NEW v \in GpuWorkers, gpu[v].st = "io", gpu[v].key = j, j # k PROVE InGpu(j)'
    <3>1. v # w
      BY <1>7, <2>2, Zenon
    <3>2. gpu'[v].st = "io" /\ gpu'[v].key = j
      BY <1>1, <2>2, <3>1, Zenon
    <3> QED BY <3>2, Zenon DEF InGpu
  <2>3. ASSUME e.st = "io", j = k PROVE InGpu(j)'
    <3>1. gpu'[w].st = "io" /\ gpu'[w].key = j
      BY <1>1, <1>7, <2>3, Zenon
    <3> QED BY <3>1, Zenon DEF InGpu
  <2> QED BY <2>1, <2>2, <2>3, Zenon DEF InGpu
<1>10. ASSUME NEW j \in Keys
       PROVE  /\ j \in pendingWrites' <=> InQueue(j)' \/ InPending(j)' \/ InFlight(j)' \/ InGpu(j)'
              /\ InQueue(j)' => ~InPending(j)' /\ ~InFlight(j)' /\ ~InGpu(j)'
              /\ InPending(j)' => ~InFlight(j)' /\ ~InGpu(j)'
              /\ InFlight(j)' => ~InGpu(j)'
  <2>1. /\ j \in pendingWrites <=> InQueue(j) \/ InPending(j) \/ InFlight(j) \/ InGpu(j)
        /\ InQueue(j) => ~InPending(j) /\ ~InFlight(j) /\ ~InGpu(j)
        /\ InPending(j) => ~InFlight(j) /\ ~InGpu(j)
        /\ InFlight(j) => ~InGpu(j)
    BY Zenon DEF HeldOnce, PendingHeld, OneHolder
  <2>2. CASE j # k
    <3>1. j \in pendingWrites' <=> j \in pendingWrites
      BY <2>2, Zenon
    <3> QED BY <1>4, <1>9, <2>1, <2>2, <3>1, Zenon
  <2>3. CASE j = k /\ e.st = "io"
    <3>1. j \in pendingWrites' /\ j \notin pendingWrites
      BY <1>7, <2>3, Zenon
    <3> QED BY <1>4, <1>9, <2>1, <2>3, <3>1, Zenon
  <2>4. CASE j = k /\ e.st # "io"
    <3>1. j \notin pendingWrites' /\ InGpu(j)
      BY <1>6, <2>4, Zenon
    <3> QED BY <1>4, <1>9, <2>1, <2>4, <3>1, Zenon
  <2> QED BY <2>2, <2>3, <2>4, Zenon
<1>11. HeldOnce'
  BY <1>5, <1>8, <1>10, Zenon DEF HeldOnce, PendingHeld, OneHolder, GpuDistinct
<1> QED BY <1>1, <1>2, <1>3, <1>11, Zenon

\* reserve_gpu.
LEMMA ReserveGpuStep ==
  ASSUME StoreInvariant, NEW w \in GpuWorkers, NEW k \in Keys, ReserveGpu(w, k)
  PROVE  StoreInvariant'
<1>1. /\ gpu[w].st = "idle" /\ k \notin pendingWrites /\ pendingWrites' = pendingWrites \cup {k}
      /\ UNCHANGED <<reuseHistory, queue, pending, inflight, flushing>> /\ inflight' = inflight
      /\ gpuEnabled' = gpuEnabled /\ reader' = reader /\ advertised' = advertised
  BY Zenon DEF ReserveGpu, Admitted
<1>2. PICK s \in Shards :
        /\ Reserve(k, s) /\ Owes(w, Retired(k, s), FALSE)
        /\ gpu' = [gpu EXCEPT ![w] = [st |-> "io", key |-> k, shard |-> s, begin |-> BeginAt(s, Size[k])]]
  BY Zenon DEF ReserveGpu
<1> DEFINE e == [st |-> "io", key |-> k, shard |-> s, begin |-> BeginAt(s, Size[k])]
<1>3. /\ RingOK' /\ LeasesOK' /\ BeginAt(s, Size[k]) \in Nat
      /\ entries'[k].st = "writing" /\ entries'[k].shard = s /\ entries'[k].begin = BeginAt(s, Size[k])
      /\ \A i \in Keys : entries[i].st = "writing" => entries'[i] = entries[i]
      /\ Retired(k, s) \in SUBSET Keys
  BY <1>1, <1>2, ReserveKeeps, Zenon DEF StoreInvariant
<1>4. e \in GpuRecord /\ e.st = "io" /\ e.key = k /\ e.shard = s /\ e.begin = BeginAt(s, Size[k])
  BY SMTT(40), <1>3 DEF GpuRecord
<1>5. gpu' = [gpu EXCEPT ![w] = e]
  BY <1>2, Zenon
<1> HIDE DEF e
<1>6. /\ WriterTypeOK' /\ HeldOnce' /\ gpu' \in [GpuWorkers -> GpuRecord]
      /\ gpu'[w] = e /\ \A v \in GpuWorkers : v # w => gpu'[v] = gpu[v]
      /\ \A v \in GpuWorkers : gpu'[v].st = "io" => gpu'[v].key \in Keys
  BY <1>1, <1>4, <1>5, GpuFacts, Zenon DEF StoreInvariant
<1>7. w \in Actors /\ FALSE \in BOOLEAN
  BY Zenon DEF Actors
<1>8. announcing' \in [Actors -> SUBSET [key : Keys, present : BOOLEAN]]
  BY <1>2, <1>3, <1>7, OwesType, Zenon DEF StoreInvariant
<1>9. ActorsTypeOK'
  BY <1>1, <1>6, <1>8, Zenon DEF StoreInvariant, ActorsTypeOK
<1>10. WritesKeepEntries'
  <2>1. ASSUME NEW i \in DOMAIN inflight, inflight[i].st \in {"io", "written"}
        PROVE  entries'[inflight[i].key].st = "writing"
    BY <1>3, <2>1, FlightFacts, Zenon DEF StoreInvariant, WritesKeepEntries
  <2>2. ASSUME NEW v \in GpuWorkers, gpu'[v].st = "io"
        PROVE  entries'[gpu'[v].key].st = "writing" /\ SameGeneration(gpu'[v], entries'[gpu'[v].key])
    <3>1. CASE v = w
      BY <1>3, <1>4, <1>6, <3>1, Zenon DEF SameGeneration
    <3>2. CASE v # w
      <4>1. /\ gpu'[v] = gpu[v] /\ gpu[v].key \in Keys /\ entries[gpu[v].key].st = "writing"
            /\ SameGeneration(gpu[v], entries[gpu[v].key])
        BY <1>6, <2>2, <3>2, Zenon DEF StoreInvariant, WritesKeepEntries
      <4> QED BY <1>3, <4>1, Zenon
    <3> QED BY <3>1, <3>2, Zenon
  <2> QED BY <1>1, <2>1, <2>2, Zenon DEF WritesKeepEntries
<1> QED BY <1>3, <1>6, <1>9, <1>10, Zenon DEF StoreInvariant

\* GpuWriteLease::commit, and its drop.
LEMMA FinishGpuStep ==
  ASSUME StoreInvariant, NEW w \in GpuWorkers, NEW success \in BOOLEAN, FinishGpu(w, success)
  PROVE  StoreInvariant'
<1> DEFINE k == gpu[w].key
<1>1. /\ gpu[w].st = "io" /\ CommitWrite(w, k, success) /\ gpu' = [gpu EXCEPT ![w] = Idle]
      /\ gpuEnabled' \in {gpuEnabled, gpuEnabled /\ success}
      /\ UNCHANGED <<reuseHistory, queue, pending, inflight, flushing>> /\ inflight' = inflight
      /\ reader' = reader /\ advertised' = advertised
  BY Zenon DEF FinishGpu
<1>2. k \in Keys /\ w \in Actors
  BY <1>1, Zenon DEF StoreInvariant, ActorsTypeOK, Actors
<1>3. Commit(k, success) /\ pendingWrites' = pendingWrites \ {k}
  BY <1>1, Zenon DEF CommitWrite
<1>4. announcing' \in [Actors -> SUBSET [key : Keys, present : BOOLEAN]]
  BY <1>1, <1>2, CommitOwes, Zenon DEF StoreInvariant
<1>5. RingOK' /\ LeasesOK' /\ \A i \in Keys : i # k => entries'[i] = entries[i]
  BY <1>1, <1>2, <1>3, CommitKeeps, Zenon DEF StoreInvariant
<1>6. Idle \in GpuRecord /\ Idle.st = "idle" /\ Idle.st # "io"
  BY SMTT(40), NoEntryFacts DEF Idle, GpuRecord
<1>7. /\ WriterTypeOK' /\ HeldOnce' /\ gpu' \in [GpuWorkers -> GpuRecord]
      /\ gpu'[w] = Idle /\ \A v \in GpuWorkers : v # w => gpu'[v] = gpu[v]
      /\ \A v \in GpuWorkers : gpu'[v].st = "io" => gpu'[v].key \in Keys
  BY <1>1, <1>2, <1>3, <1>6, GpuFacts, Zenon DEF StoreInvariant
<1>8. gpuEnabled' \in BOOLEAN
  BY <1>1, Zenon DEF StoreInvariant, ActorsTypeOK
<1>9. ActorsTypeOK'
  BY <1>1, <1>4, <1>7, <1>8, Zenon DEF StoreInvariant, ActorsTypeOK
<1>10. InGpu(k)
  BY <1>1, Zenon DEF InGpu
<1>11. WritesKeepEntries'
  <2>1. ASSUME NEW i \in DOMAIN inflight, inflight[i].st \in {"io", "written"}
        PROVE  entries'[inflight[i].key].st = "writing"
    <3>1. inflight[i].key \in Keys /\ InFlight(inflight[i].key)
      BY FlightFacts, Zenon DEF StoreInvariant, InFlight
    <3>2. inflight[i].key # k
      BY <1>10, <3>1, Zenon DEF StoreInvariant, HeldOnce, OneHolder
    <3> QED BY <1>5, <2>1, <3>1, <3>2, Zenon DEF StoreInvariant, WritesKeepEntries
  <2>2. ASSUME NEW v \in GpuWorkers, gpu'[v].st = "io"
        PROVE  entries'[gpu'[v].key].st = "writing" /\ SameGeneration(gpu'[v], entries'[gpu'[v].key])
    <3>1. v # w
      BY <1>6, <1>7, <2>2, Zenon
    <3>2. /\ gpu'[v] = gpu[v] /\ gpu[v].key \in Keys /\ entries[gpu[v].key].st = "writing"
          /\ SameGeneration(gpu[v], entries[gpu[v].key])
      BY <1>7, <2>2, <3>1, Zenon DEF StoreInvariant, WritesKeepEntries
    <3>3. gpu[v].key # k
      BY <1>1, <2>2, <3>1, <3>2, Zenon DEF StoreInvariant, HeldOnce, GpuDistinct
    <3> QED BY <1>5, <3>2, <3>3, Zenon
  <2> QED BY <1>1, <2>1, <2>2, Zenon DEF WritesKeepEntries
<1> QED BY <1>5, <1>7, <1>9, <1>11, Zenon DEF StoreInvariant

-----------------------------------------------------------------------------
(* Readers.                                                                *)

\* The state of a reader and its lease.
LEMMA ReaderFacts ==
  ASSUME ActorsTypeOK, NEW r \in ReadTasks, NEW e \in ReaderRecord, reader' = [reader EXCEPT ![r] = e],
         e.st # "idle" => e.key \in Keys
  PROVE  /\ reader' \in [ReadTasks -> ReaderRecord] /\ reader'[r] = e
         /\ \A q \in ReadTasks : q # r => reader'[q] = reader[q] /\ LeaseOf(q)' = LeaseOf(q)
         /\ LeaseOf(r)' = [reader |-> r, key |-> e.key, shard |-> e.shard, begin |-> e.begin]
         /\ \A q \in ReadTasks : reader'[q].st # "idle" => reader'[q].key \in Keys
<1>1. reader' \in [ReadTasks -> ReaderRecord] /\ reader'[r] = e
      /\ \A q \in ReadTasks : q # r => reader'[q] = reader[q]
  BY Zenon DEF ActorsTypeOK
<1>2. \A q \in ReadTasks : reader'[q].st # "idle" => reader'[q].key \in Keys
  BY <1>1, Zenon DEF ActorsTypeOK
<1>3. \A q \in ReadTasks : q # r => LeaseOf(q)' = LeaseOf(q)
  BY <1>1, Zenon DEF LeaseOf
<1>4. LeaseOf(r)' = [reader |-> r, key |-> e.key, shard |-> e.shard, begin |-> e.begin]
  BY <1>1, Zenon DEF LeaseOf
<1> QED BY <1>1, <1>2, <1>3, <1>4, Zenon

\* Steps of readers leave writers and GPU workers alone.
LEMMA ReaderFrame ==
  ASSUME StoreInvariant, RingOK', LeasesOK', OnlyReader,
         reader' \in [ReadTasks -> ReaderRecord],
         \A q \in ReadTasks : reader'[q].st # "idle" => reader'[q].key \in Keys,
         announcing' \in [Actors -> SUBSET [key : Keys, present : BOOLEAN]],
         \A i \in Keys : entries[i].st = "writing" => entries'[i] = entries[i]
  PROVE  StoreInvariant'
<1>1. /\ UNCHANGED <<writerVars, gpu>> /\ gpuEnabled' = gpuEnabled /\ gpu' = gpu /\ advertised' = advertised
      /\ inflight' = inflight
  BY Zenon DEF OnlyReader, writerVars
<1>2. WriterTypeOK' /\ HeldOnce'
  BY <1>1, WriterFrame, Zenon DEF StoreInvariant
<1>3. ActorsTypeOK'
  BY <1>1, Zenon DEF StoreInvariant, ActorsTypeOK
<1>4. WritesKeepEntries'
  BY <1>1, WritesFrame, Zenon DEF StoreInvariant, RingOK
<1> QED BY <1>2, <1>3, <1>4, Zenon DEF StoreInvariant

\* A reader that has no lease changes its state and takes none.
LEMMA NoLeaseTaken ==
  ASSUME StoreInvariant, NEW r \in ReadTasks, NEW e \in ReaderRecord, reader' = [reader EXCEPT ![r] = e],
         reader[r].st \in {"idle", "candidate"}, e.st \in {"idle", "candidate"},
         e.st # "idle" => e.key \in Keys, UNCHANGED ringVars, OnlyReader, announcing' = announcing
  PROVE  StoreInvariant'
<1>1. ActorsTypeOK /\ RingOK /\ LeasesOK
  BY Zenon DEF StoreInvariant
<1>2. entries' = entries /\ leases' = leases
  BY Zenon DEF ringVars
<1>3. /\ reader' \in [ReadTasks -> ReaderRecord] /\ reader'[r] = e
      /\ \A q \in ReadTasks : q # r => reader'[q] = reader[q] /\ LeaseOf(q)' = LeaseOf(q)
      /\ \A q \in ReadTasks : reader'[q].st # "idle" => reader'[q].key \in Keys
  BY <1>1, ReaderFacts, Zenon
<1>4. /\ reader[r].st \notin {"reading", "done"} /\ reader[r].st # "last"
      /\ e.st \notin {"reading", "done"}
  OBVIOUS
<1>5. \A l \in leases : l.reader \in ReadTasks /\ l.reader # r
  BY <1>1, <1>4, LeaseFacts, Zenon DEF LeasesOK, LeasesAgree, RingOK
<1>6. LeasesAgree'
  <2>1. \A l \in leases :
          /\ reader'[l.reader].st \in {"reading", "done"} /\ l = LeaseOf(l.reader)'
          /\ SameGeneration(l, entries[l.key]) /\ entries[l.key].st \in {"committed", "invalid"}
    BY <1>1, <1>3, <1>5, Zenon DEF LeasesOK, LeasesAgree
  <2>2. \A q \in ReadTasks : reader'[q].st \in {"reading", "done"} => LeaseOf(q)' \in leases
    BY <1>1, <1>3, <1>4, Zenon DEF LeasesOK, LeasesAgree
  <2> QED BY <1>2, <2>1, <2>2, Zenon DEF LeasesAgree
<1>7. HiddenHeld'
  <2>1. ASSUME NEW k \in Keys, entries[k].st = "invalid"
        PROVE  \/ \E l \in leases : l.key = k
               \/ \E q \in ReadTasks : /\ reader'[q].st = "last" /\ reader'[q].key = k
                                       /\ SameGeneration(reader'[q], entries[k])
    <3>1. CASE \E l \in leases : l.key = k
      BY <3>1, Zenon
    <3>2. CASE \E q \in ReadTasks : /\ reader[q].st = "last" /\ reader[q].key = k
                                   /\ SameGeneration(reader[q], entries[k])
      BY <1>3, <1>4, <3>2, Zenon
    <3> QED BY <1>1, <2>1, <3>1, <3>2, Zenon DEF LeasesOK, HiddenHeld
  <2> QED BY <1>2, <2>1, Zenon DEF HiddenHeld
<1>8. RingOK' /\ announcing' \in [Actors -> SUBSET [key : Keys, present : BOOLEAN]]
  BY <1>1, RingFrame, Zenon DEF ActorsTypeOK
<1> QED BY <1>2, <1>3, <1>6, <1>7, <1>8, ReaderFrame, Zenon DEF LeasesOK

\* The record of an idle reader.
LEMMA IdleReader == Idle \in ReaderRecord /\ Idle.st = "idle"
  BY SMTT(40), NoEntryFacts DEF Idle, ReaderRecord

\* discover.
LEMMA DiscoverStep ==
  ASSUME StoreInvariant, NEW r \in ReadTasks, NEW k \in Keys, Discover(r, k)
  PROVE  StoreInvariant'
<1> DEFINE e == [st |-> "candidate", key |-> k, shard |-> entries[k].shard, begin |-> entries[k].begin]
<1>1. /\ reader[r].st = "idle" /\ reader' = [reader EXCEPT ![r] = e] /\ OnlyReader
      /\ UNCHANGED ringVars /\ announcing' = announcing
  BY Zenon DEF Discover
<1>2. entries[k].shard \in Shards /\ entries[k].begin \in Nat
  BY EntryFacts, Zenon DEF StoreInvariant, RingOK
<1>3. e \in ReaderRecord /\ e.st = "candidate" /\ e.key \in Keys
  BY SMTT(40), <1>2 DEF ReaderRecord
<1> HIDE DEF e
<1> QED BY <1>1, <1>3, NoLeaseTaken, Zenon

\* A reader without a lease pins a readable entry.
LEMMA LeaseTaken ==
  ASSUME StoreInvariant, NEW r \in ReadTasks, NEW e \in ReaderRecord, reader' = [reader EXCEPT ![r] = e],
         reader[r].st \in {"idle", "candidate"}, e.st = "reading", e.key \in Keys,
         Readable(e.key), SameGeneration(e, entries[e.key]),
         Pin([reader |-> r, key |-> e.key, shard |-> e.shard, begin |-> e.begin]),
         OnlyReader, announcing' = announcing
  PROVE  StoreInvariant'
<1> DEFINE p == [reader |-> r, key |-> e.key, shard |-> e.shard, begin |-> e.begin]
<1>1. ActorsTypeOK /\ RingTypeOK /\ RingSound /\ LeasesOK
  BY Zenon DEF StoreInvariant, RingOK
<1>2. /\ head' = head /\ tail' = tail /\ nextShard' = nextShard /\ entries' = entries
      /\ leases' = leases \cup {p}
  BY Zenon DEF Pin
<1>3. /\ reader' \in [ReadTasks -> ReaderRecord] /\ reader'[r] = e
      /\ \A q \in ReadTasks : q # r => reader'[q] = reader[q] /\ LeaseOf(q)' = LeaseOf(q)
      /\ LeaseOf(r)' = p
      /\ \A q \in ReadTasks : reader'[q].st # "idle" => reader'[q].key \in Keys
  BY <1>1, ReaderFacts, Zenon
<1>4. p \in LeaseRecord /\ p.reader = r /\ p.key = e.key /\ p.shard = e.shard /\ p.begin = e.begin
  <2>1. e.shard \in Shards /\ e.begin \in Nat
    BY Zenon DEF ReaderRecord
  <2> QED BY SMTT(40), <2>1 DEF LeaseRecord
<1> HIDE DEF p
<1>5. RingOK'
  <2>1. leases' \in SUBSET LeaseRecord
    BY <1>1, <1>2, <1>4, Zenon DEF RingTypeOK
  <2>2. RingTypeOK'
    BY <1>1, <1>2, <2>1, ZenonT(40) DEF RingTypeOK
  <2>3. RingSound'
    BY SMTT(40), <1>1, <1>2 DEF RingSound, Live
  <2> QED BY <2>2, <2>3, Zenon DEF RingOK
<1>6. reader[r].st \notin {"reading", "done"} /\ reader[r].st # "last" /\ e.st \in {"reading", "done"}
  OBVIOUS
<1>7. \A l \in leases : l.reader \in ReadTasks /\ l.reader # r
  BY <1>1, <1>6, LeaseFacts, Zenon DEF LeasesOK, LeasesAgree
<1>8. LeasesAgree'
  <2>1. ASSUME NEW l \in leases
        PROVE  /\ reader'[l.reader].st \in {"reading", "done"} /\ l = LeaseOf(l.reader)'
               /\ SameGeneration(l, entries[l.key]) /\ entries[l.key].st \in {"committed", "invalid"}
    BY <1>1, <1>3, <1>7, Zenon DEF LeasesOK, LeasesAgree
  <2>2. /\ reader'[p.reader].st \in {"reading", "done"} /\ p = LeaseOf(p.reader)'
        /\ SameGeneration(p, entries[p.key]) /\ entries[p.key].st \in {"committed", "invalid"}
    BY <1>3, <1>4, <1>6, Zenon DEF Readable, SameGeneration
  <2>3. ASSUME NEW q \in ReadTasks, reader'[q].st \in {"reading", "done"} PROVE LeaseOf(q)' \in leases'
    <3>1. CASE q = r
      BY <1>2, <1>3, <3>1, Zenon
    <3>2. CASE q # r
      BY <1>1, <1>2, <1>3, <2>3, <3>2, Zenon DEF LeasesOK, LeasesAgree
    <3> QED BY <3>1, <3>2, Zenon
  <2>4. ASSUME NEW l \in leases'
        PROVE  /\ reader'[l.reader].st \in {"reading", "done"} /\ l = LeaseOf(l.reader)'
               /\ SameGeneration(l, entries'[l.key]) /\ entries'[l.key].st \in {"committed", "invalid"}
    BY <1>2, <2>1, <2>2, Zenon
  <2> QED BY <2>3, <2>4, Zenon DEF LeasesAgree
<1>9. HiddenHeld'
  <2>1. ASSUME NEW k \in Keys, entries[k].st = "invalid"
        PROVE  \/ \E l \in leases' : l.key = k
               \/ \E q \in ReadTasks : /\ reader'[q].st = "last" /\ reader'[q].key = k
                                       /\ SameGeneration(reader'[q], entries[k])
    <3>1. CASE \E l \in leases : l.key = k
      BY <1>2, <3>1, Zenon
    <3>2. CASE \E q \in ReadTasks : /\ reader[q].st = "last" /\ reader[q].key = k
                                   /\ SameGeneration(reader[q], entries[k])
      BY <1>3, <1>6, <3>2, Zenon
    <3> QED BY <1>1, <2>1, <3>1, <3>2, Zenon DEF LeasesOK, HiddenHeld
  <2> QED BY <1>2, <2>1, Zenon DEF HiddenHeld
<1>10. announcing' \in [Actors -> SUBSET [key : Keys, present : BOOLEAN]]
  BY <1>1, Zenon DEF ActorsTypeOK
<1> QED BY <1>2, <1>3, <1>5, <1>8, <1>9, <1>10, ReaderFrame, Zenon DEF LeasesOK

\* pin_candidate: the candidate may have become stale.
LEMMA PinCandidateStep ==
  ASSUME StoreInvariant, NEW r \in ReadTasks, PinCandidate(r)
  PROVE  StoreInvariant'
<1>1. reader[r].st = "candidate" /\ OnlyReader /\ announcing' = announcing
  BY Zenon DEF PinCandidate
<1>2. CASE CanPin(reader[r])
  <2> DEFINE e == [reader[r] EXCEPT !.st = "reading"]
  <2>1. Pin(LeaseOf(r)) /\ reader' = [reader EXCEPT ![r] = e]
    BY <1>2, Zenon DEF PinCandidate, SetReader
  <2>2. reader[r] \in ReaderRecord /\ reader[r].key \in Keys
    BY SMTT(40), <1>1 DEF StoreInvariant, ActorsTypeOK
  <2>3. /\ e \in ReaderRecord /\ e.st = "reading" /\ e.key = reader[r].key
        /\ e.shard = reader[r].shard /\ e.begin = reader[r].begin
    BY SMTT(40), <2>2 DEF ReaderRecord
  <2> HIDE DEF e
  <2>4. Readable(e.key) /\ SameGeneration(e, entries[e.key])
    BY <1>2, <2>3, Zenon DEF CanPin, SameGeneration
  <2>5. Pin([reader |-> r, key |-> e.key, shard |-> e.shard, begin |-> e.begin])
    BY <2>1, <2>3, Zenon DEF LeaseOf
  <2> QED BY <1>1, <2>1, <2>2, <2>3, <2>4, <2>5, LeaseTaken, Zenon
<1>3. CASE ~CanPin(reader[r])
  <2>1. reader' = [reader EXCEPT ![r] = Idle] /\ UNCHANGED ringVars
    BY <1>3, Zenon DEF PinCandidate
  <2> QED BY <1>1, <2>1, IdleReader, NoLeaseTaken, Zenon
<1> QED BY <1>2, <1>3, Zenon

\* pin_residencies.
LEMMA PinResidencyStep ==
  ASSUME StoreInvariant, NEW r \in ReadTasks, NEW k \in Keys, PinResidency(r, k)
  PROVE  StoreInvariant'
<1> DEFINE e == [st |-> "reading", key |-> k, shard |-> entries[k].shard, begin |-> entries[k].begin]
<1>1. /\ reader[r].st = "idle" /\ reader' = [reader EXCEPT ![r] = e] /\ OnlyReader
      /\ announcing' = announcing /\ Readable(k)
      /\ Pin([reader |-> r, key |-> k, shard |-> entries[k].shard, begin |-> entries[k].begin])
  BY Zenon DEF PinResidency
<1>2. entries[k].shard \in Shards /\ entries[k].begin \in Nat
  BY EntryFacts, Zenon DEF StoreInvariant, RingOK
<1>3. /\ e \in ReaderRecord /\ e.st = "reading" /\ e.key = k
      /\ e.shard = entries[k].shard /\ e.begin = entries[k].begin
  BY SMTT(40), <1>2 DEF ReaderRecord
<1> HIDE DEF e
<1>4. SameGeneration(e, entries[e.key])
  BY <1>3, Zenon DEF SameGeneration
<1>5. Pin([reader |-> r, key |-> e.key, shard |-> e.shard, begin |-> e.begin])
  BY <1>1, <1>3, Zenon
<1> QED BY <1>1, <1>3, <1>4, <1>5, LeaseTaken, Zenon

\* A reader is done with its data; the generations under lease stay, even if one is hidden now.
LEMMA ReadEnds ==
  ASSUME StoreInvariant, NEW r \in ReadTasks, reader[r].st = "reading", SetReader(r, "done"),
         OnlyReader, RingOK', leases' = leases,
         announcing' \in [Actors -> SUBSET [key : Keys, present : BOOLEAN]],
         \A i \in Keys : entries[i].st = "writing" => entries'[i] = entries[i],
         \A l \in leases : /\ SameGeneration(entries'[l.key], entries[l.key])
                           /\ entries'[l.key].st \in {"committed", "invalid"},
         \A i \in Keys : entries'[i].st = "invalid" => entries'[i] = entries[i] \/ \E l \in leases : l.key = i
  PROVE  StoreInvariant'
<1> DEFINE e == [reader[r] EXCEPT !.st = "done"]
<1>1. ActorsTypeOK /\ RingTypeOK /\ LeasesOK /\ reader[r].key \in Keys /\ reader[r] \in ReaderRecord
  <2>1. "reading" # "idle"
    OBVIOUS
  <2> QED BY <2>1, Zenon DEF StoreInvariant, RingOK, ActorsTypeOK
<1>2. /\ e \in ReaderRecord /\ e.st = "done" /\ e.key = reader[r].key
      /\ e.shard = reader[r].shard /\ e.begin = reader[r].begin
  BY SMTT(40), <1>1 DEF ReaderRecord
<1>3. reader' = [reader EXCEPT ![r] = e]
  BY Zenon DEF SetReader
<1> HIDE DEF e
<1>4. /\ reader' \in [ReadTasks -> ReaderRecord] /\ reader'[r] = e
      /\ \A q \in ReadTasks : q # r => reader'[q] = reader[q] /\ LeaseOf(q)' = LeaseOf(q)
      /\ LeaseOf(r)' = [reader |-> r, key |-> e.key, shard |-> e.shard, begin |-> e.begin]
      /\ \A q \in ReadTasks : reader'[q].st # "idle" => reader'[q].key \in Keys
  BY <1>1, <1>2, <1>3, ReaderFacts, Zenon
<1>5. \A q \in ReadTasks : LeaseOf(q)' = LeaseOf(q)
  <2>1. LeaseOf(r)' = LeaseOf(r)
    BY <1>2, <1>4, Zenon DEF LeaseOf
  <2> QED BY <1>4, <2>1, Zenon
<1>6. \A q \in ReadTasks : reader'[q].st \in {"reading", "done"} <=> reader[q].st \in {"reading", "done"}
  <2>1. reader'[r].st \in {"reading", "done"} /\ reader[r].st \in {"reading", "done"}
    BY <1>2, <1>4, Zenon
  <2> QED BY <1>4, <2>1, Zenon
<1>7. LeasesAgree'
  <2>1. ASSUME NEW l \in leases
        PROVE  /\ reader'[l.reader].st \in {"reading", "done"} /\ l = LeaseOf(l.reader)'
               /\ SameGeneration(l, entries'[l.key]) /\ entries'[l.key].st \in {"committed", "invalid"}
    <3>1. /\ reader[l.reader].st \in {"reading", "done"} /\ l = LeaseOf(l.reader)
          /\ SameGeneration(l, entries[l.key]) /\ l.reader \in ReadTasks
      BY <1>1, LeaseFacts, Zenon DEF LeasesOK, LeasesAgree
    <3> QED BY <1>5, <1>6, <3>1, Zenon DEF SameGeneration
  <2>2. \A q \in ReadTasks : reader'[q].st \in {"reading", "done"} => LeaseOf(q)' \in leases
    BY <1>1, <1>5, <1>6, Zenon DEF LeasesOK, LeasesAgree
  <2> QED BY <2>1, <2>2, Zenon DEF LeasesAgree
<1>8. HiddenHeld'
  <2>1. ASSUME NEW k \in Keys, entries'[k].st = "invalid"
        PROVE  \/ \E l \in leases : l.key = k
               \/ \E q \in ReadTasks : /\ reader'[q].st = "last" /\ reader'[q].key = k
                                       /\ SameGeneration(reader'[q], entries'[k])
    <3>1. CASE \E l \in leases : l.key = k
      BY <3>1, Zenon
    <3>2. CASE ~\E l \in leases : l.key = k
      <4>1. entries'[k] = entries[k] /\ entries[k].st = "invalid"
        BY <2>1, <3>2, Zenon
      <4>2. PICK q \in ReadTasks : /\ reader[q].st = "last" /\ reader[q].key = k
                                  /\ SameGeneration(reader[q], entries[k])
        BY <1>1, <3>2, <4>1, Zenon DEF LeasesOK, HiddenHeld
      <4>3. q # r
        BY SMTT(40), <4>2
      <4> QED BY <1>4, <4>1, <4>2, <4>3, Zenon
    <3> QED BY <3>1, <3>2, Zenon
  <2> QED BY <2>1, Zenon DEF HiddenHeld
<1> QED BY <1>4, <1>7, <1>8, ReaderFrame, Zenon DEF LeasesOK

\* A read that validates.
LEMMA FinishReadStep ==
  ASSUME StoreInvariant, NEW r \in ReadTasks, FinishRead(r)
  PROVE  StoreInvariant'
<1>1. /\ reader[r].st = "reading" /\ SetReader(r, "done") /\ OnlyReader /\ UNCHANGED ringVars
      /\ announcing' = announcing /\ entries' = entries /\ leases' = leases
  BY Zenon DEF FinishRead, ringVars
<1>2. RingOK' /\ announcing' \in [Actors -> SUBSET [key : Keys, present : BOOLEAN]]
  BY <1>1, RingFrame, Zenon DEF StoreInvariant, ActorsTypeOK
<1>3. \A l \in leases : /\ SameGeneration(entries'[l.key], entries[l.key])
                        /\ entries'[l.key].st \in {"committed", "invalid"}
  BY <1>1, Zenon DEF StoreInvariant, LeasesOK, LeasesAgree, SameGeneration
<1> QED BY <1>1, <1>2, <1>3, ReadEnds, Zenon

\* invalidate_encoded: the generation that failed to decode is hidden, not freed.
LEMMA FindCorruptStep ==
  ASSUME StoreInvariant, NEW r \in ReadTasks, FindCorrupt(r)
  PROVE  StoreInvariant'
<1> DEFINE k == reader[r].key
<1>1. reader[r].st = "reading" /\ SetReader(r, "done") /\ OnlyReader
  BY Zenon DEF FindCorrupt
<1>2. /\ LeaseOf(r) \in leases /\ k \in Keys /\ RingTypeOK /\ RingSound
      /\ announcing \in [Actors -> SUBSET [key : Keys, present : BOOLEAN]]
  <2>1. reader[r].st \in {"reading", "done"} /\ reader[r].st # "idle"
    BY SMTT(40), <1>1
  <2> QED BY <2>1, Zenon DEF StoreInvariant, RingOK, LeasesOK, LeasesAgree, ActorsTypeOK
<1>3. CASE ~Invalidates(reader[r])
  <2>1. UNCHANGED ringVars /\ announcing' = announcing /\ entries' = entries /\ leases' = leases
    BY <1>3, Zenon DEF FindCorrupt, ringVars
  <2>2. RingOK' /\ announcing' \in [Actors -> SUBSET [key : Keys, present : BOOLEAN]]
    BY <1>2, <2>1, RingFrame, Zenon DEF StoreInvariant
  <2>3. \A l \in leases : /\ SameGeneration(entries'[l.key], entries[l.key])
                          /\ entries'[l.key].st \in {"committed", "invalid"}
    BY <2>1, Zenon DEF StoreInvariant, LeasesOK, LeasesAgree, SameGeneration
  <2> QED BY <1>1, <2>1, <2>2, <2>3, ReadEnds, Zenon
<1>4. CASE Invalidates(reader[r])
  <2> DEFINE e == [entries[k] EXCEPT !.st = "invalid"]
  <2>1. Invalidate(reader[r]) /\ Owes(r, {k}, FALSE)
    BY <1>4, Zenon DEF FindCorrupt
  <2>2. LeaseOf(r).key = k /\ SameGeneration(LeaseOf(r), entries[k])
    <3>1. LeaseOf(r).key = k
      BY SMTT(40) DEF LeaseOf
    <3> QED BY <1>2, <3>1, Zenon DEF StoreInvariant, LeasesOK, LeasesAgree
  <2>3. Readers(k) # {}
    BY <1>2, <2>2, Zenon DEF Readers
  <2>4. /\ entries' = [entries EXCEPT ![k] = e] /\ UNCHANGED <<head, tail, nextShard, leases>>
        /\ leases' = leases
    BY <2>1, <2>3, Zenon DEF Invalidate
  <2>5. entries[k] \in EntryRecord /\ entries[k].st \in {"committed", "invalid"}
    BY <1>2, <1>4, Zenon DEF RingTypeOK, Invalidates
  <2>6. /\ e \in EntryRecord /\ e.st = "invalid" /\ e.shard = entries[k].shard /\ e.begin = entries[k].begin
        /\ entries[k].st # "none" /\ entries[k].st # "writing" /\ e.st # "none"
    BY SMTT(40), <2>5 DEF EntryRecord
  <2> HIDE DEF e
  <2>7. /\ RingTypeOK' /\ RingSound' /\ entries'[k] = e
        /\ \A i \in Keys : i # k => entries'[i] = entries[i]
    BY <1>2, <2>4, <2>6, RingShrinks, Zenon DEF Live, SameGeneration
  <2>8. ASSUME NEW l \in leases
        PROVE  /\ SameGeneration(entries'[l.key], entries[l.key])
               /\ entries'[l.key].st \in {"committed", "invalid"}
    <3>1. l.key \in Keys /\ entries[l.key].st \in {"committed", "invalid"}
      BY <1>2, LeaseFacts, Zenon DEF StoreInvariant, LeasesOK, LeasesAgree
    <3>2. CASE l.key = k
      BY <2>6, <2>7, <3>2, Zenon DEF SameGeneration
    <3>3. CASE l.key # k
      BY <2>7, <3>1, <3>3, Zenon DEF SameGeneration
    <3> QED BY <3>2, <3>3, Zenon
  <2>9. ASSUME NEW i \in Keys, entries'[i].st = "invalid"
        PROVE  entries'[i] = entries[i] \/ \E l \in leases : l.key = i
    BY <1>2, <2>2, <2>7, Zenon
  <2>10. \A i \in Keys : entries[i].st = "writing" => entries'[i] = entries[i]
    BY <2>6, <2>7, Zenon
  <2>11. r \in Actors /\ {k} \in SUBSET Keys /\ FALSE \in BOOLEAN
    BY <1>2, Zenon DEF Actors
  <2>12. announcing' \in [Actors -> SUBSET [key : Keys, present : BOOLEAN]]
    BY <2>1, <2>11, OwesType, Zenon DEF StoreInvariant
  <2> QED BY <1>1, <2>4, <2>7, <2>8, <2>9, <2>10, <2>12, ReadEnds, Zenon DEF RingOK
<1> QED BY <1>3, <1>4, Zenon

\* Two leases of one generation are leases of one key.
LEMMA OneKey ==
  ASSUME RingTypeOK, RingSound, NEW i \in Keys, NEW k \in Keys, Live(i), Live(k),
         SameGeneration(entries[i], entries[k])
  PROVE  i = k
<1> SUFFICES ASSUME i # k PROVE FALSE
  OBVIOUS
<1>1. Apart(entries[i], i, entries[k], k) /\ Size[i] > 0 /\ Size[k] > 0
  BY Zenon DEF RingSound, Placed
<1>2. /\ entries[i].begin = entries[k].begin /\ entries[k].begin \in Nat
      /\ Size[i] \in Nat /\ Size[k] \in Nat
  BY EntryFacts, Zenon DEF SameGeneration
<1>3. \/ entries[k].begin + Size[i] <= entries[k].begin
      \/ entries[k].begin + Size[k] <= entries[k].begin
  BY <1>1, <1>2, Zenon DEF Apart, SameGeneration
<1> QED BY SMTT(40), <1>1, <1>2, <1>3

\* SsdReadLease::drop: the last reader of a generation goes on to release it.
LEMMA DropLeaseStep ==
  ASSUME StoreInvariant, NEW r \in ReadTasks, DropLease(r)
  PROVE  StoreInvariant'
<1> DEFINE p == LeaseOf(r)
           isLast == {l \in leases : SameGeneration(l, p)} = {p}
           e == IF isLast THEN [reader[r] EXCEPT !.st = "last"] ELSE Idle
<1>1. /\ reader[r].st = "done" /\ reader' = [reader EXCEPT ![r] = e] /\ OnlyReader
      /\ announcing' = announcing /\ leases' = leases \ {p}
      /\ head' = head /\ tail' = tail /\ nextShard' = nextShard /\ entries' = entries
  <2>1. Unpin(p) /\ reader' = IF isLast THEN [reader EXCEPT ![r].st = "last"] ELSE [reader EXCEPT ![r] = Idle]
    BY Zenon DEF DropLease
  <2>2. reader' = [reader EXCEPT ![r] = e]
    BY <2>1, Zenon
  <2> HIDE DEF e, isLast
  <2> QED BY <2>1, <2>2, Zenon DEF DropLease, Unpin
<1>2. /\ RingTypeOK /\ RingSound /\ LeasesAgree /\ HiddenHeld /\ ActorsTypeOK
      /\ reader[r] \in ReaderRecord /\ reader[r].key \in Keys /\ p \in leases
  <2>1. reader[r].st \in {"reading", "done"} /\ reader[r].st # "idle"
    BY SMTT(40), <1>1
  <2> QED BY <2>1, Zenon DEF StoreInvariant, RingOK, LeasesOK, LeasesAgree, ActorsTypeOK
<1>3. p.reader = r /\ p.key = reader[r].key /\ p.shard = reader[r].shard /\ p.begin = reader[r].begin
  BY SMTT(40) DEF LeaseOf
<1>4. /\ e \in ReaderRecord /\ e.st \notin {"reading", "done"}
      /\ e.st # "idle" => e.key \in Keys
      /\ isLast => /\ e.st = "last" /\ e.key = reader[r].key
                   /\ e.shard = reader[r].shard /\ e.begin = reader[r].begin
  <2>1. CASE isLast
    <3>1. e = [reader[r] EXCEPT !.st = "last"]
      BY <2>1, Zenon
    <3> HIDE DEF e
    <3> QED BY SMTT(40), <1>2, <3>1 DEF ReaderRecord
  <2>2. CASE ~isLast
    <3>1. e = Idle
      BY <2>2, Zenon
    <3> HIDE DEF e, isLast
    <3> QED BY SMTT(40), <2>2, <3>1, IdleReader
  <2> QED BY <2>1, <2>2, Zenon
<1>5. isLast \/ \E l \in leases : l # p /\ SameGeneration(l, p)
  BY <1>2, Zenon DEF SameGeneration
<1> HIDE DEF e, isLast, p
<1>6. /\ reader' \in [ReadTasks -> ReaderRecord] /\ reader'[r] = e
      /\ \A q \in ReadTasks : q # r => reader'[q] = reader[q] /\ LeaseOf(q)' = LeaseOf(q)
      /\ \A q \in ReadTasks : reader'[q].st # "idle" => reader'[q].key \in Keys
  BY <1>1, <1>2, <1>4, ReaderFacts, Zenon
<1>7. RingOK'
  <2>1. RingTypeOK'
    BY <1>1, <1>2, ZenonT(40) DEF RingTypeOK
  <2>2. RingSound'
    BY SMTT(40), <1>1, <1>2 DEF RingSound, Live
  <2> QED BY <2>1, <2>2, Zenon DEF RingOK
<1>8. \A l \in leases' : l \in leases /\ l.reader \in ReadTasks /\ l.reader # r
  BY <1>1, <1>2, LeaseFacts, Zenon DEF LeasesAgree, p
<1>9. LeasesAgree'
  <2>1. ASSUME NEW l \in leases'
        PROVE  /\ reader'[l.reader].st \in {"reading", "done"} /\ l = LeaseOf(l.reader)'
               /\ SameGeneration(l, entries'[l.key]) /\ entries'[l.key].st \in {"committed", "invalid"}
    BY <1>1, <1>2, <1>6, <1>8, Zenon DEF LeasesAgree
  <2>2. ASSUME NEW q \in ReadTasks, reader'[q].st \in {"reading", "done"} PROVE LeaseOf(q)' \in leases'
    <3>1. q # r
      BY <1>4, <1>6, <2>2, Zenon
    <3>2. LeaseOf(q) \in leases /\ LeaseOf(q)' = LeaseOf(q)
      BY <1>2, <1>6, <2>2, <3>1, Zenon DEF LeasesAgree
    <3>3. LeaseOf(q).reader = q
      BY SMTT(40) DEF LeaseOf
    <3> QED BY <1>1, <1>3, <3>1, <3>2, <3>3, Zenon
  <2> QED BY <2>1, <2>2, Zenon DEF LeasesAgree
<1>10. HiddenHeld'
  <2>1. ASSUME NEW k \in Keys, entries[k].st = "invalid"
        PROVE  \/ \E l \in leases' : l.key = k
               \/ \E q \in ReadTasks : /\ reader'[q].st = "last" /\ reader'[q].key = k
                                       /\ SameGeneration(reader'[q], entries[k])
    <3>1. CASE \E l \in leases' : l.key = k
      BY <3>1, Zenon
    <3>2. CASE \E q \in ReadTasks : /\ reader[q].st = "last" /\ reader[q].key = k
                                   /\ SameGeneration(reader[q], entries[k])
      <4>1. \A q \in ReadTasks : reader[q].st = "last" => q # r
        BY SMTT(40), <1>1
      <4> QED BY <1>6, <3>2, <4>1, Zenon
    <3>3. CASE ~(\E l \in leases' : l.key = k) /\ \E l \in leases : l.key = k
      <4>1. p.key = k /\ SameGeneration(p, entries[k]) /\ entries[k].st \in {"committed", "invalid"}
        BY <1>1, <1>2, <3>3, Zenon DEF LeasesAgree
      <4>2. ASSUME NEW l \in leases, l # p, SameGeneration(l, p) PROVE FALSE
        <5>1. /\ l.key \in Keys /\ SameGeneration(l, entries[l.key])
              /\ entries[l.key].st \in {"committed", "invalid"}
          BY <1>2, LeaseFacts, Zenon DEF LeasesAgree
        <5>2. SameGeneration(entries[l.key], entries[k])
          BY <4>1, <4>2, <5>1, Zenon DEF SameGeneration
        <5>3. Live(l.key) /\ Live(k)
          BY SMTT(40), <4>1, <5>1 DEF Live
        <5>4. l.key = k
          BY <1>2, <5>1, <5>2, <5>3, OneKey, Zenon
        <5> QED BY <1>1, <3>3, <4>2, <5>4, Zenon
      <4>3. isLast
        BY <1>5, <4>2, Zenon
      <4>4. reader'[r].st = "last" /\ reader'[r].key = k /\ SameGeneration(reader'[r], entries[k])
        BY <1>3, <1>4, <1>6, <4>1, <4>3, Zenon DEF SameGeneration
      <4> QED BY <4>4, Zenon
    <3> QED BY <1>2, <2>1, <3>1, <3>2, <3>3, Zenon DEF HiddenHeld
  <2> QED BY <1>1, <2>1, Zenon DEF HiddenHeld
<1>11. announcing' \in [Actors -> SUBSET [key : Keys, present : BOOLEAN]]
  BY <1>1, <1>2, Zenon DEF ActorsTypeOK
<1> QED BY <1>1, <1>6, <1>7, <1>9, <1>10, <1>11, ReaderFrame, Zenon DEF LeasesOK

\* release_invalid: the hidden generation goes once nobody reads it.
LEMMA ReleaseLastStep ==
  ASSUME StoreInvariant, NEW r \in ReadTasks, ReleaseLast(r)
  PROVE  StoreInvariant'
<1> DEFINE k == reader[r].key
           frees == entries[k].st = "invalid" /\ SameGeneration(reader[r], entries[k]) /\ Readers(k) = {}
           e == IF frees THEN NoEntry ELSE entries[k]
<1>1. /\ reader[r].st = "last" /\ ReleaseInvalid(reader[r]) /\ reader' = [reader EXCEPT ![r] = Idle]
      /\ OnlyReader /\ announcing' = announcing
  BY Zenon DEF ReleaseLast
<1>2. /\ entries' = [entries EXCEPT ![k] = e] /\ UNCHANGED <<head, tail, nextShard, leases>>
      /\ leases' = leases
  BY <1>1, Zenon DEF ReleaseInvalid
<1>3. /\ RingTypeOK /\ RingSound /\ LeasesAgree /\ HiddenHeld /\ ActorsTypeOK /\ k \in Keys
      /\ entries[k] \in EntryRecord
  <2>1. reader[r].st # "idle"
    BY SMTT(40), <1>1
  <2> QED BY <2>1, Zenon DEF StoreInvariant, RingOK, LeasesOK, ActorsTypeOK, RingTypeOK
<1>4. /\ e \in EntryRecord /\ (e = NoEntry \/ e = entries[k])
      /\ e = NoEntry \/ (Live(k) /\ e.st # "none" /\ SameGeneration(e, entries[k]))
      /\ frees => e = NoEntry
      /\ ~frees => e = entries[k]
  <2>1. ~Live(k) => entries[k] = NoEntry
    BY <1>3, Zenon DEF RingSound
  <2>2. CASE frees
    BY <2>2, NoEntryFacts, Zenon
  <2>3. CASE ~frees
    BY <1>3, <2>1, <2>3, Zenon DEF Live, SameGeneration
  <2> QED BY <2>2, <2>3, Zenon
<1>5. frees <=> entries[k].st = "invalid" /\ SameGeneration(reader[r], entries[k]) /\ Readers(k) = {}
  BY Zenon
<1> HIDE DEF e, frees
<1>6. /\ RingTypeOK' /\ RingSound' /\ entries'[k] = e
      /\ \A i \in Keys : i # k => entries'[i] = entries[i]
  BY <1>2, <1>3, <1>4, RingShrinks, Zenon
<1>7. /\ reader' \in [ReadTasks -> ReaderRecord] /\ reader'[r] = Idle
      /\ \A q \in ReadTasks : q # r => reader'[q] = reader[q] /\ LeaseOf(q)' = LeaseOf(q)
      /\ \A q \in ReadTasks : reader'[q].st # "idle" => reader'[q].key \in Keys
  BY <1>1, <1>3, IdleReader, ReaderFacts, Zenon
<1>8. Idle.st \notin {"reading", "done"} /\ reader[r].st \notin {"reading", "done"}
  BY SMTT(40), <1>1, IdleReader
<1>9. ASSUME NEW l \in leases PROVE entries'[l.key] = entries[l.key] /\ l.reader \in ReadTasks /\ l.reader # r
  <2>1. /\ l.key \in Keys /\ SameGeneration(l, entries[l.key]) /\ l.reader \in ReadTasks
        /\ reader[l.reader].st \in {"reading", "done"}
    BY <1>3, LeaseFacts, Zenon DEF LeasesAgree
  <2>2. l.key = k => Readers(k) # {}
    BY <2>1, Zenon DEF Readers
  <2> QED BY <1>4, <1>5, <1>6, <1>8, <2>1, <2>2, Zenon
<1>10. LeasesAgree'
  <2>1. ASSUME NEW l \in leases'
        PROVE  /\ reader'[l.reader].st \in {"reading", "done"} /\ l = LeaseOf(l.reader)'
               /\ SameGeneration(l, entries'[l.key]) /\ entries'[l.key].st \in {"committed", "invalid"}
    BY <1>2, <1>3, <1>7, <1>9, Zenon DEF LeasesAgree
  <2>2. ASSUME NEW q \in ReadTasks, reader'[q].st \in {"reading", "done"} PROVE LeaseOf(q)' \in leases'
    <3>1. q # r
      BY <1>7, <1>8, <2>2, Zenon
    <3> QED BY <1>2, <1>3, <1>7, <2>2, <3>1, Zenon DEF LeasesAgree
  <2> QED BY <2>1, <2>2, Zenon DEF LeasesAgree
<1>11. HiddenHeld'
  <2>1. ASSUME NEW i \in Keys, entries'[i].st = "invalid"
        PROVE  \/ \E l \in leases : l.key = i
               \/ \E q \in ReadTasks : /\ reader'[q].st = "last" /\ reader'[q].key = i
                                       /\ SameGeneration(reader'[q], entries'[i])
    <3>1. NoEntry.st # "invalid"
      BY SMTT(40), NoEntryFacts
    <3>2. entries'[i] = entries[i] /\ entries[i].st = "invalid" /\ (i = k => ~frees)
      BY <1>4, <1>6, <2>1, <3>1, Zenon
    <3>3. CASE \E l \in leases : l.key = i
      BY <3>3, Zenon
    <3>4. CASE ~\E l \in leases : l.key = i
      <4>1. PICK q \in ReadTasks : /\ reader[q].st = "last" /\ reader[q].key = i
                                  /\ SameGeneration(reader[q], entries[i])
        BY <1>3, <3>2, <3>4, Zenon DEF HiddenHeld
      <4>2. Readers(i) = {}
        BY <3>4, Zenon DEF Readers
      <4>3. q # r
        BY <1>5, <3>2, <4>1, <4>2, Zenon
      <4> QED BY <1>7, <3>2, <4>1, <4>3, Zenon
    <3> QED BY <3>3, <3>4, Zenon
  <2> QED BY <1>2, <2>1, Zenon DEF HiddenHeld
<1>12. \A i \in Keys : entries[i].st = "writing" => entries'[i] = entries[i]
  <2>1. "writing" # "invalid"
    OBVIOUS
  <2> QED BY <1>4, <1>5, <1>6, <2>1, Zenon
<1>13. announcing' \in [Actors -> SUBSET [key : Keys, present : BOOLEAN]]
  BY <1>1, <1>3, Zenon DEF ActorsTypeOK
<1> QED BY <1>1, <1>6, <1>7, <1>10, <1>11, <1>12, <1>13, ReaderFrame, Zenon DEF LeasesOK, RingOK

-----------------------------------------------------------------------------
(* The invariant is inductive.                                             *)

\* The empty store.
LEMMA StoreInitOK ==
  ASSUME Init
  PROVE  StoreInvariant
<1>1. RingTypeOK
  <2>1. 0 \in Shards /\ NoEntry \in EntryRecord
    BY NoEntryFacts, Zenon
  <2> QED BY SMTT(40), <2>1 DEF Init, RingInit, RingTypeOK
<1>2. RingSound
  <2>1. \A k \in Keys : entries[k] = NoEntry /\ ~Live(k)
    BY NoEntryFacts, Zenon DEF Init, RingInit, Live
  <2>2. \A s \in Shards : tail[s] <= head[s] /\ head[s] <= tail[s] + Capacity /\ head[s] <= MaxHead
    BY SMTT(40), RingAssumption DEF Init, RingInit
  <2> QED BY <2>1, <2>2, Zenon DEF RingSound
<1>3. WriterTypeOK
  <2>1. /\ pendingWrites = {} /\ reuseHistory = {} /\ flushing = FALSE
        /\ queue = <<>> /\ pending = <<>> /\ inflight = <<>>
    BY Zenon DEF Init
  <2>2. queue \in Seq(Seq(Keys)) /\ pending \in Seq(Keys) /\ inflight \in Seq(WriteRecord)
    BY SMTT(40), <2>1
  <2>3. Len(queue) = 0 /\ Len(inflight) = 0
    BY SMTT(40), <2>1
  <2>4. Len(queue) <= QueueDepth /\ Len(inflight) <= WriteInflight
    BY SMTT(40), <2>3, StoreAssumption
  <2> QED BY <2>1, <2>2, <2>4, Zenon DEF WriterTypeOK
<1>4. ActorsTypeOK
  <2>1. Idle \in GpuRecord /\ Idle \in ReaderRecord /\ Idle.st = "idle" /\ Idle.st # "io"
    BY SMTT(40), NoEntryFacts DEF Idle, GpuRecord, ReaderRecord
  <2>2. gpu \in [GpuWorkers -> GpuRecord] /\ \A w \in GpuWorkers : gpu[w].st # "io"
    BY <2>1, Zenon DEF Init
  <2>3. reader \in [ReadTasks -> ReaderRecord] /\ \A r \in ReadTasks : reader[r].st = "idle"
    BY <2>1, Zenon DEF Init
  <2>4. /\ announcing \in [Actors -> SUBSET [key : Keys, present : BOOLEAN]]
        /\ gpuEnabled \in BOOLEAN /\ advertised \in SUBSET Keys
    BY Zenon DEF Init
  <2> QED BY <2>2, <2>3, <2>4, Zenon DEF ActorsTypeOK
<1>5. LeasesOK
  <2>1. leases = {} /\ \A k \in Keys : entries[k].st # "invalid"
    BY SMTT(40), NoEntryFacts DEF Init, RingInit
  <2>2. \A r \in ReadTasks : reader[r].st \notin {"reading", "done"}
    BY SMTT(40), IdleReader DEF Init
  <2> QED BY <2>1, <2>2, Zenon DEF LeasesOK, LeasesAgree, HiddenHeld
<1>6. /\ \A k : ~InQueue(k) /\ ~InPending(k) /\ ~InFlight(k)
      /\ \A w \in GpuWorkers : gpu[w].st # "io"
  <2>1. queue = <<>> /\ pending = <<>> /\ inflight = <<>>
    BY Zenon DEF Init
  <2>2. \A w \in GpuWorkers : gpu[w].st # "io"
    BY SMTT(40), IdleReader DEF Init
  <2> QED BY SMTT(40), <2>1, <2>2 DEF InQueue, InPending, InFlight, IsIn
<1>7. HeldOnce
  <2>1. pendingWrites = {} /\ \A k : ~InGpu(k)
    BY <1>6, Zenon DEF Init, InGpu
  <2>2. QueueDistinct /\ Distinct(pending) /\ FlightDistinct
    BY SMTT(40) DEF Init, QueueDistinct, Distinct, FlightDistinct
  <2> QED BY <1>6, <2>1, <2>2, Zenon DEF HeldOnce, PendingHeld, OneHolder, GpuDistinct
<1>8. WritesKeepEntries
  <2>1. \A i \in DOMAIN inflight : FALSE
    BY SMTT(40) DEF Init
  <2> QED BY <1>6, <2>1, Zenon DEF WritesKeepEntries
<1> QED BY <1>1, <1>2, <1>3, <1>4, <1>5, <1>7, <1>8, Zenon DEF StoreInvariant, RingOK

\* Steps that change nothing.
LEMMA StoreStutters ==
  ASSUME StoreInvariant, UNCHANGED vars
  PROVE  StoreInvariant'
<1>1. /\ UNCHANGED ringVars /\ UNCHANGED <<writerVars, gpu>> /\ gpuEnabled' = gpuEnabled
      /\ reader' = reader /\ announcing' = announcing /\ advertised' = advertised /\ gpu' = gpu
      /\ entries' = entries /\ leases' = leases /\ inflight' = inflight
  BY Zenon DEF vars, ringVars, writerVars
<1>2. ActorsTypeOK'
  BY <1>1, Zenon DEF StoreInvariant, ActorsTypeOK
<1> QED BY <1>1, <1>2, RingFrame, LeasesFrame, WriterFrame, WritesFrame, Zenon DEF StoreInvariant, RingOK

\* Every step keeps the invariant.
LEMMA StoreNextOK ==
  ASSUME CountingFacts, StoreInvariant, [Next]_vars
  PROVE  StoreInvariant'
<1>1. ASSUME NEW batch \in Batches, NEW reused \in BOOLEAN, Ingest(batch, reused) PROVE StoreInvariant'
  BY <1>1, IngestStep, Zenon
<1>2. ASSUME NEW a \in Actors, Announce(a) PROVE StoreInvariant'
  BY <1>2, AnnounceStep, Zenon
<1>3. CASE WriterStep
  <2>1. "writer" \in Actors
    BY Zenon DEF Actors
  <2> QED BY <1>2, <1>3, <2>1, ReceiveStep, SubmitStep, CompleteWriteStep, FireFlushStep, StartWriteStep, Zenon
          DEF WriterStep
<1>4. CASE DeviceStep
  BY <1>4, FinishWriteStep, Zenon DEF DeviceStep
<1>5. ASSUME NEW w \in GpuWorkers, GpuStep(w) \/ \E k \in Keys : ReserveGpu(w, k) PROVE StoreInvariant'
  <2>1. w \in Actors
    BY Zenon DEF Actors
  <2> QED BY <1>2, <1>5, <2>1, FinishGpuStep, ReserveGpuStep, Zenon DEF GpuStep
<1>6. ASSUME NEW r \in ReadTasks, ReadStep(r) PROVE StoreInvariant'
  <2>1. r \in Actors
    BY Zenon DEF Actors
  <2> QED BY <1>2, <1>6, <2>1, PinCandidateStep, FindCorruptStep, FinishReadStep, DropLeaseStep,
             ReleaseLastStep, Zenon DEF ReadStep
<1>7. ASSUME NEW r \in ReadTasks, NEW k \in Keys, Discover(r, k) \/ PinResidency(r, k) PROVE StoreInvariant'
  BY <1>7, DiscoverStep, PinResidencyStep, Zenon
<1> QED BY <1>1, <1>3, <1>4, <1>5, <1>6, <1>7, FlushStep, StoreStutters, Zenon DEF Next

-----------------------------------------------------------------------------
(* What the invariant says.                                                *)

\* A set with at most one element.
LEMMA CountOne ==
  ASSUME CountingFacts, NEW S, \A x, y \in S : x = y
  PROVE  Cardinality(S) = IF S = {} THEN 0 ELSE 1
<1>1. IsFiniteSet({}) /\ Cardinality({}) = 0
  BY Zenon DEF CountingFacts, FiniteFacts
<1>2. CASE S # {}
  <2>1. PICK x : x \in S
    BY <1>2, Zenon
  <2>2. S = {} \cup {x} /\ x \notin {}
    BY <2>1, Zenon
  <2>3. Cardinality({} \cup {x}) = Cardinality({}) + 1
    BY <1>1, <2>2, Zenon DEF CountingFacts, FiniteFacts
  <2>4. Cardinality(S) = 0 + 1
    BY <1>1, <2>2, <2>3, Zenon
  <2> QED BY SMTT(40), <1>2, <2>4
<1> QED BY <1>1, <1>2, Zenon

\* Every pending key is counted once.
LEMMA HeldOnceIsExact ==
  ASSUME CountingFacts, WriterTypeOK, HeldOnce
  PROVE  PendingExact
<1> SUFFICES ASSUME NEW k \in Keys PROVE Holders(k) = (IF k \in pendingWrites THEN 1 ELSE 0)
  BY Zenon DEF PendingExact
<1> DEFINE Q == {i \in DOMAIN queue : k \in Members(queue[i])}
           P == {i \in DOMAIN pending : pending[i] = k}
           F == {i \in DOMAIN inflight : inflight[i].key = k}
           G == {w \in GpuWorkers : gpu[w].st = "io" /\ gpu[w].key = k}
<1>1. \A s : k \in Members(s) <=> IsIn(k, s)
  BY Zenon DEF Members, IsIn
<1>2. Q # {} <=> InQueue(k)
  BY <1>1, Zenon DEF InQueue
<1>3. P # {} <=> InPending(k)
  BY Zenon DEF InPending, IsIn
<1>4. F # {} <=> InFlight(k)
  BY Zenon DEF InFlight
<1>5. G # {} <=> InGpu(k)
  BY Zenon DEF InGpu
<1>6. Cardinality(Q) = IF Q = {} THEN 0 ELSE 1
  <2>1. \A x, y \in Q : x = y
    BY <1>1, Zenon DEF HeldOnce, QueueDistinct
  <2> HIDE DEF Q
  <2> QED BY <2>1, CountOne, Zenon
<1>7. Cardinality(P) = IF P = {} THEN 0 ELSE 1
  <2>1. \A x, y \in P : x = y
    BY Zenon DEF HeldOnce, Distinct
  <2> HIDE DEF P
  <2> QED BY <2>1, CountOne, Zenon
<1>8. Cardinality(F) = IF F = {} THEN 0 ELSE 1
  <2>1. \A x, y \in F : x = y
    BY Zenon DEF HeldOnce, FlightDistinct
  <2> HIDE DEF F
  <2> QED BY <2>1, CountOne, Zenon
<1>9. Cardinality(G) = IF G = {} THEN 0 ELSE 1
  <2>1. \A x, y \in G : x = y
    BY Zenon DEF HeldOnce, GpuDistinct
  <2> HIDE DEF G
  <2> QED BY <2>1, CountOne, Zenon
<1>10. Holders(k) = Cardinality(Q) + Cardinality(P) + Cardinality(F) + Cardinality(G)
  BY Zenon DEF Holders
<1>11. /\ k \in pendingWrites <=> InQueue(k) \/ InPending(k) \/ InFlight(k) \/ InGpu(k)
       /\ InQueue(k) => ~InPending(k) /\ ~InFlight(k) /\ ~InGpu(k)
       /\ InPending(k) => ~InFlight(k) /\ ~InGpu(k)
       /\ InFlight(k) => ~InGpu(k)
  BY Zenon DEF HeldOnce, PendingHeld, OneHolder
<1> HIDE DEF Q, P, F, G
<1> QED BY SMTT(40), <1>2, <1>3, <1>4, <1>5, <1>6, <1>7, <1>8, <1>9, <1>10, <1>11

\* What a lease names is where it was, and not behind the tail.
LEMMA LeasesHold ==
  ASSUME StoreInvariant
  PROVE  LeasesKeepGenerations
<1> SUFFICES ASSUME NEW l \in leases
             PROVE  /\ SameGeneration(l, entries[l.key]) /\ entries[l.key].st \in {"committed", "invalid"}
                    /\ OffsetValid(l)
  BY Zenon DEF LeasesKeepGenerations
<1>1. /\ SameGeneration(l, entries[l.key]) /\ entries[l.key].st \in {"committed", "invalid"}
      /\ l.key \in Keys /\ RingTypeOK /\ RingSound
  BY LeaseFacts, Zenon DEF StoreInvariant, RingOK, LeasesOK, LeasesAgree
<1>2. Live(l.key)
  BY SMTT(40), <1>1 DEF Live
<1>3. tail[entries[l.key].shard] <= entries[l.key].begin
  BY <1>1, <1>2, Zenon DEF RingSound, Placed
<1>4. tail[entries[l.key].shard] \in Nat /\ entries[l.key].begin \in Nat
  BY <1>1, EntryFacts, Zenon
<1>5. entries[l.key].begin >= tail[entries[l.key].shard]
  BY SMTT(40), <1>3, <1>4
<1> QED BY <1>1, <1>5, Zenon DEF OffsetValid, SameGeneration

\* The types, with the bounds of offsets, queue and window.
LEMMA StoreTypes ==
  ASSUME StoreInvariant
  PROVE  TypeOK
<1>1. RingTypeOK /\ RingSound /\ WriterTypeOK /\ ActorsTypeOK
  BY Zenon DEF StoreInvariant, RingOK
<1>2. \A s \in Shards : head[s] \in 0 .. MaxHead /\ tail[s] \in 0 .. MaxHead
  <2> SUFFICES ASSUME NEW s \in Shards PROVE head[s] \in 0 .. MaxHead /\ tail[s] \in 0 .. MaxHead
    BY Zenon
  <2>1. head[s] \in Nat /\ tail[s] \in Nat /\ tail[s] <= head[s] /\ head[s] <= MaxHead
    BY <1>1, Zenon DEF RingTypeOK, RingSound
  <2> QED BY SMTT(40), <2>1, RingAssumption
<1>3. head \in [Shards -> 0 .. MaxHead] /\ tail \in [Shards -> 0 .. MaxHead]
  BY <1>1, <1>2, Zenon DEF RingTypeOK
<1>4. ASSUME NEW k \in Keys PROVE entries[k].begin \in 0 .. MaxHead
  <2>1. entries[k].begin \in Nat /\ Size[k] \in Nat /\ entries[k].shard \in Shards
    BY <1>1, EntryFacts, Zenon
  <2>2. CASE Live(k)
    <3>1. /\ entries[k].begin + Size[k] <= head[entries[k].shard]
          /\ head[entries[k].shard] \in Nat /\ head[entries[k].shard] <= MaxHead
      BY <1>1, <2>1, <2>2, EntryFacts, Zenon DEF RingSound, Placed
    <3> QED BY SMTT(40), <2>1, <3>1, RingAssumption
  <2>3. CASE ~Live(k)
    <3>1. entries[k] = NoEntry
      BY <1>1, <2>3, Zenon DEF RingSound
    <3> QED BY SMTT(40), <3>1, RingAssumption DEF NoEntry
  <2> QED BY SMTT(40), <2>2, <2>3
<1>5. entries \in [Keys -> [st : {"none", "writing", "committed", "invalid"}, shard : Shards,
                           begin : 0 .. MaxHead]]
  <2>1. ASSUME NEW k \in Keys
        PROVE  entries[k] \in [st : {"none", "writing", "committed", "invalid"}, shard : Shards,
                               begin : 0 .. MaxHead]
    <3>1. entries[k] \in EntryRecord
      BY <1>1, Zenon DEF RingTypeOK
    <3> QED BY SMTT(40), <1>4, <3>1 DEF EntryRecord
  <2> QED BY <1>1, <2>1, Zenon DEF RingTypeOK
<1>6. leases \subseteq [reader : ReadTasks, key : Keys, shard : Shards, begin : 0 .. MaxHead]
  <2> SUFFICES ASSUME NEW l \in leases
               PROVE  l \in [reader : ReadTasks, key : Keys, shard : Shards, begin : 0 .. MaxHead]
    BY Zenon
  <2>1. l \in LeaseRecord /\ l.key \in Keys /\ l.begin = entries[l.key].begin
    BY <1>1, LeaseFacts, Zenon DEF RingTypeOK, StoreInvariant, LeasesOK, LeasesAgree, SameGeneration
  <2>2. l.begin \in 0 .. MaxHead
    BY <1>4, <2>1, Zenon
  <2> QED BY SMTT(40), <2>1, <2>2 DEF LeaseRecord
<1>7. /\ \A w \in GpuWorkers : gpu[w].st \in {"idle", "io"}
      /\ \A r \in ReadTasks : reader[r].st \in {"idle", "candidate", "reading", "done", "last"}
  BY <1>1, Zenon DEF ActorsTypeOK, GpuRecord, ReaderRecord
<1>8. nextShard \in Shards
  BY <1>1, Zenon DEF RingTypeOK
<1>9. /\ pendingWrites \subseteq Keys /\ reuseHistory \subseteq Keys /\ advertised \subseteq Keys
      /\ Len(queue) <= QueueDepth /\ Len(inflight) <= WriteInflight
      /\ flushing \in BOOLEAN /\ gpuEnabled \in BOOLEAN
  BY <1>1, Zenon DEF WriterTypeOK, ActorsTypeOK
<1> QED BY <1>3, <1>5, <1>6, <1>7, <1>8, <1>9, Zenon DEF TypeOK

\* A hidden entry has a reader, or the reader that is about to remove it.
LEMMA HiddenIsHeld ==
  ASSUME StoreInvariant
  PROVE  InvalidIsHeld
<1> SUFFICES ASSUME NEW k \in Keys, entries[k].st = "invalid"
             PROVE  Readers(k) # {} \/ \E r \in ReadTasks : reader[r].st = "last" /\ reader[r].key = k
  BY Zenon DEF InvalidIsHeld
<1>1. \A l \in leases : SameGeneration(l, entries[l.key])
  BY Zenon DEF StoreInvariant, LeasesOK, LeasesAgree
<1>2. CASE \E l \in leases : l.key = k
  <2>1. PICK l \in leases : l.key = k
    BY SMTT(40), <1>2
  <2>2. l \in Readers(k)
    BY <1>1, <2>1, Zenon DEF Readers
  <2> QED BY <2>2, Zenon
<1>3. CASE ~\E l \in leases : l.key = k
  BY <1>3, Zenon DEF StoreInvariant, LeasesOK, HiddenHeld
<1> QED BY <1>2, <1>3, Zenon
-----------------------------------------------------------------------------
(* The theorems.                                                           *)

Counting == INSTANCE OperatorTheorems

\* The facts on finite sets and sums that the steps assume.
LEMMA CountingHolds == CountingFacts
<1>1. \A S : Counting!IsFiniteSet(S) <=> IsFiniteSet(S)
  BY Zenon DEF IsFiniteSet, Counting!IsFiniteSet
<1>2. \A S : Counting!Cardinality(S) = Cardinality(S)
  BY Zenon DEF Cardinality, Counting!Cardinality
<1>3. \A r, n : Counting!Partial(r, n) = Partial(r, n)
  BY Zenon DEF Partial, Counting!Partial
<1> USE Counting!CountingHolds DEF Counting!CountingFacts, Counting!FiniteFacts
<1>4. \A n \in Int : IsFiniteSet(1 .. n)
  BY Zenon, <1>1
<1>5. \A S : IsFiniteSet(S) => \A T \in SUBSET S : IsFiniteSet(T)
  BY Zenon, <1>1
<1>6. IsFiniteSet({}) /\ Cardinality({}) = 0
  BY ZenonT(40), <1>1, <1>2
<1>7. \A S : IsFiniteSet(S) => Cardinality(S) \in Nat /\ (Cardinality(S) = 0 <=> S = {})
  BY Zenon, <1>1, <1>2
<1>8. \A S : \A x : IsFiniteSet(S) /\ x \notin S =>
                      IsFiniteSet(S \cup {x}) /\ Cardinality(S \cup {x}) = Cardinality(S) + 1
  BY ZenonT(40), <1>1, <1>2
<1>9. \A T \in SUBSET Nat : T # {} => \E x \in T : \A y \in T : x <= y
  BY Zenon
<1>10. ASSUME NEW n \in Nat, NEW r, \A i \in 1 .. n : r[i] \in Nat
       PROVE  /\ Partial(r, n) \in [0 .. n -> Nat]
              /\ Partial(r, n)[0] = 0
              /\ \A i \in 1 .. n : Partial(r, n)[i] = Partial(r, n)[i - 1] + r[i]
  <2>1. /\ Counting!Partial(r, n) \in [0 .. n -> Nat]
        /\ Counting!Partial(r, n)[0] = 0
        /\ \A i \in 1 .. n : Counting!Partial(r, n)[i] = Counting!Partial(r, n)[i - 1] + r[i]
    BY ZenonT(40), <1>10
  <2>2. Counting!Partial(r, n) = Partial(r, n)
    BY Zenon, <1>3
  <2> HIDE Counting!CountingHolds DEF Counting!CountingFacts, Counting!FiniteFacts
  <2> QED BY ZenonT(40), <2>1, <2>2
<1> QED BY ZenonT(40), <1>4, <1>5, <1>6, <1>7, <1>8, <1>9, <1>10 DEF CountingFacts, FiniteFacts

\* The invariant holds of every behaviour of the store.
THEOREM StoreInvariantHolds == Spec => []StoreInvariant
<1>1. Init => StoreInvariant
  BY SMTT(40), StoreInitOK, CountingHolds
<1>2. StoreInvariant /\ [Next]_vars => StoreInvariant'
  BY SMTT(40), StoreNextOK, CountingHolds
<1> QED BY <1>1, <1>2, PTL DEF Spec

\* For any number of files, keys, readers and writers and any capacity: what a reader holds is
\* neither forgotten, replaced nor overrun, no two live extents share a byte of a file, and every
\* write under way still owns the entry it reserved (allocate_contiguous, advance_tail,
\* commit_write).
THEOREM ExtentsStayHeld == Spec => []ExtentsHeld
<1>1. StoreInvariant => ExtentsHeld
  <2> SUFFICES ASSUME StoreInvariant PROVE ExtentsHeld
    OBVIOUS
  <2>1. LeasesKeepGenerations
    BY SMTT(40), LeasesHold
  <2>2. RingTypeOK /\ RingSound /\ WritesKeepEntries
    BY Zenon DEF StoreInvariant, RingOK
  <2>3. ExtentsDisjoint
    BY <2>2, SoundExtentsDisjoint, ZenonT(40)
  <2> QED BY <2>1, <2>2, <2>3, ZenonT(40) DEF ExtentsHeld
<1> QED BY <1>1, StoreInvariantHolds, PTL

\* A pending key is in exactly one place of the write path, so it is released exactly once, and a
\* hidden entry has somebody to remove it: no failure leaves a key that can never be stored again
\* (admission_skip, release_invalid).
THEOREM EntriesStayAccounted == Spec => []EntriesAccounted
<1>1. StoreInvariant => EntriesAccounted
  <2> SUFFICES ASSUME StoreInvariant PROVE EntriesAccounted
    OBVIOUS
  <2>1. TypeOK /\ InvalidIsHeld
    BY SMTT(40), StoreTypes, HiddenIsHeld
  <2>2. WriterTypeOK /\ HeldOnce
    BY Zenon DEF StoreInvariant
  <2>3. PendingExact
    BY <2>2, HeldOnceIsExact, CountingHolds, ZenonT(40)
  <2> QED BY <2>1, <2>3, Zenon DEF EntriesAccounted
<1> QED BY <1>1, StoreInvariantHolds, PTL
=============================================================================
