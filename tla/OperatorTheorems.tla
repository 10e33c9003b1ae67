-------------------------- MODULE OperatorTheorems --------------------------
(***************************************************************************)
(* What the operators without state compute: the sums of FiniteSums and    *)
(* the block geometry of KVGeometry.  The induction over the data of a sum *)
(* is done by least counterexamples: a set of sizes at which the claim     *)
(* fails has a least element, or is empty.                                 *)
(***************************************************************************)
EXTENDS FiniteSums, KVGeometry, FiniteSetTheorems, WellFoundedInduction, TLAPS

Less == {p \in Nat \X Nat : p[1] < p[2]}

\* A nonempty set of naturals has a least element.
LEMMA LeastElement ==
  ASSUME NEW T \in SUBSET Nat, T # {}
  PROVE  \E x \in T : \A y \in T : x <= y
<1>1. OpToRel(<, Nat) = Less
  BY Zenon DEF OpToRel, Less
<1>2. IsWellFoundedOn(Less, Nat)
  BY <1>1, NatLessThanWellFounded, Zenon
<1>3. PICK x \in T : \A y \in T : ~(<<y, x>> \in Less)
  BY <1>2, WFMin, Zenon
<1>4. ASSUME NEW y \in T PROVE x <= y
  <2>1. x \in Nat /\ y \in Nat
    OBVIOUS
  <2>2. ~(<<y, x>> \in Less)
    BY <1>3
  <2>3. ASSUME y < x PROVE <<y, x>> \in Less
    BY <2>1, <2>3, Zenon DEF Less
  <2> QED BY <2>1, <2>2, <2>3, SMT
<1> QED BY <1>4

IsPartial(g, r, n) == g = [i \in 0 .. n |-> IF i = 0 THEN 0 ELSE g[i - 1] + r[i]]

\* The recursive definition of Partial has a solution, which is natural.
LEMMA PartialExists ==
  ASSUME NEW n \in Nat, NEW r, \A i \in 1 .. n : r[i] \in Nat
  PROVE  \E g \in [0 .. n -> Nat] : IsPartial(g, r, n)
<1> DEFINE Bad == {k \in 0 .. n : ~\E g \in [0 .. k -> Nat] : IsPartial(g, r, k)}
<1>1. SUFFICES ASSUME ~\E g \in [0 .. n -> Nat] : IsPartial(g, r, n) PROVE FALSE
  OBVIOUS
<1>2. PICK k \in Bad : \A j \in Bad : k <= j
  <2>1. n \in Bad /\ Bad \in SUBSET Nat
    BY <1>1
  <2> HIDE DEF Bad
  <2> QED BY <2>1, LeastElement
<1>3. k # 0
  <2> SUFFICES ASSUME k = 0 PROVE FALSE
    OBVIOUS
  <2> DEFINE g == [i \in 0 .. 0 |-> 0]
  <2>1. g \in [0 .. 0 -> Nat] /\ IsPartial(g, r, 0)
    BY DEF IsPartial
  <2> QED BY <2>1
<1>4. k - 1 \in 0 .. n /\ k - 1 \notin Bad
  <2>1. k \in 0 .. n
    BY <1>2
  <2>2. k - 1 \in 0 .. n /\ ~(k <= k - 1)
    BY <1>3, <2>1
  <2> HIDE DEF Bad
  <2> QED BY <1>2, <2>2
<1>5. PICK g \in [0 .. k - 1 -> Nat] : IsPartial(g, r, k - 1)
  BY <1>4
<1> DEFINE h == [i \in 0 .. k |-> IF i = k THEN g[k - 1] + r[k] ELSE g[i]]
<1>6. h \in [0 .. k -> Nat]
  BY <1>3, <1>5
<1>7. \A i \in 0 .. k : h[i] = IF i = 0 THEN 0 ELSE h[i - 1] + r[i]
  BY <1>3, <1>5 DEF IsPartial
<1>8. IsPartial(h, r, k)
  BY <1>6, <1>7 DEF IsPartial
<1> QED BY <1>6, <1>8

\* The partial sums of naturals are what their recursive definition says.
LEMMA PartialFacts ==
  ASSUME NEW n \in Nat, NEW r, \A i \in 1 .. n : r[i] \in Nat
  PROVE  /\ Partial(r, n) \in [0 .. n -> Nat]
         /\ Partial(r, n)[0] = 0
         /\ \A i \in 1 .. n : Partial(r, n)[i] = Partial(r, n)[i - 1] + r[i]
<1>1. PICK g \in [0 .. n -> Nat] : IsPartial(g, r, n)
  BY PartialExists, Zenon
<1>2. IsPartial(Partial(r, n), r, n)
  <2>1. \E h : h = [i \in 0 .. n |-> IF i = 0 THEN 0 ELSE h[i - 1] + r[i]]
    BY <1>1, Zenon DEF IsPartial
  <2> QED BY <2>1, Zenon DEF Partial, IsPartial
<1> DEFINE p == Partial(r, n)
<1> HIDE DEF p
<1>3. \A i \in 0 .. n : p[i] = IF i = 0 THEN 0 ELSE p[i - 1] + r[i]
  BY <1>2 DEF IsPartial, p
<1>4. \A i \in 0 .. n : p[i] = g[i]
  <2> DEFINE Bad == {k \in 0 .. n : p[k] # g[k]}
  <2> SUFFICES ASSUME Bad # {} PROVE FALSE
    OBVIOUS
  <2>1. PICK k \in Bad : \A j \in Bad : k <= j
    <3>1. Bad \in SUBSET Nat
      OBVIOUS
    <3> HIDE DEF Bad
    <3> QED BY SMTT(40), <3>1, LeastElement
  <2>2. k # 0 => k - 1 \in 0 .. n /\ k - 1 \notin Bad
    BY <2>1
  <2> QED BY <1>1, <1>3, <2>1, <2>2 DEF IsPartial
<1>5. p = [i \in 0 .. n |-> p[i]]
  BY <1>2 DEF IsPartial, p
<1>6. p \in [0 .. n -> Nat]
  BY <1>1, <1>4, <1>5
<1>7. p \in [0 .. n -> Nat] /\ p[0] = 0 /\ \A i \in 1 .. n : p[i] = p[i - 1] + r[i]
  BY <1>3, <1>6
<1> QED BY <1>7, Zenon DEF p

-----------------------------------------------------------------------------
IsSum(g, f, D) == g = [T \in D |-> IF T = {} THEN 0 ELSE f[Pick(T)] + g[T \ {Pick(T)}]]
Ranked(S, k) == {T \in SUBSET S : Cardinality(T) <= k}

\* Removing the element Pick chooses leaves a smaller subset.
LEMMA PickFacts ==
  ASSUME NEW S, IsFiniteSet(S), NEW T \in SUBSET S, T # {}
  PROVE  /\ Pick(T) \in T /\ IsFiniteSet(T)
         /\ T \ {Pick(T)} \in SUBSET S
         /\ Cardinality(T) \in Nat \ {0} /\ Cardinality(T \ {Pick(T)}) = Cardinality(T) - 1
<1>1. Pick(T) \in T
  BY Zenon DEF Pick
<1>2. IsFiniteSet(T)
  BY FS_Subset
<1>3. Cardinality(T) \in Nat /\ Cardinality(T) # 0
  BY <1>2, FS_CardinalityType, FS_EmptySet
<1>4. Cardinality(T \ {Pick(T)}) = Cardinality(T) - 1
  BY <1>1, <1>2, FS_RemoveElement
<1> QED BY <1>1, <1>2, <1>3, <1>4

\* Among subsets of a finite set there is one that contains no other.
LEMMA MinimalSet ==
  ASSUME NEW S, IsFiniteSet(S), NEW B \in SUBSET SUBSET S, B # {}
  PROVE  \E T \in B : \A V \in SUBSET T : V # T => V \notin B
<1> DEFINE Sizes == {Cardinality(T) : T \in B}
<1>1. \A T \in SUBSET S : IsFiniteSet(T) /\ Cardinality(T) \in Nat
  BY FS_Subset, FS_CardinalityType
<1>2. PICK k \in Sizes : \A j \in Sizes : k <= j
  <2>1. Sizes # {} /\ Sizes \in SUBSET Nat
    BY <1>1
  <2> HIDE DEF Sizes
  <2> QED BY <2>1, LeastElement
<1>3. PICK T \in B : k = Cardinality(T)
  BY <1>2
<1>4. ASSUME NEW V \in SUBSET T, V # T, V \in B PROVE FALSE
  <2>1. Cardinality(V) <= k /\ Cardinality(V) # k
    BY <1>1, <1>3, <1>4, FS_Subset
  <2>2. Cardinality(V) \in Nat /\ k \in Nat /\ k <= Cardinality(V)
    BY <1>1, <1>2, <1>3, <1>4
  <2> QED BY <2>1, <2>2
<1> QED BY <1>3, <1>4

\* The recursive definition of Sums has a solution on the subsets of any size.
LEMMA RankedSumExists ==
  ASSUME NEW S, IsFiniteSet(S), NEW f, \A x \in S : f[x] \in Nat, NEW n \in Nat
  PROVE  \E g \in [Ranked(S, n) -> Nat] : IsSum(g, f, Ranked(S, n))
<1> DEFINE Bad == {k \in Nat : ~\E g \in [Ranked(S, k) -> Nat] : IsSum(g, f, Ranked(S, k))}
<1>1. SUFFICES ASSUME n \in Bad PROVE FALSE
  OBVIOUS
<1>2. PICK k \in Bad : \A j \in Bad : k <= j
  <2>1. Bad # {} /\ Bad \in SUBSET Nat
    BY <1>1
  <2> HIDE DEF Bad
  <2> QED BY <2>1, LeastElement
<1>3. \A T \in SUBSET S : IsFiniteSet(T) /\ Cardinality(T) \in Nat /\ (Cardinality(T) = 0 <=> T = {})
  BY FS_Subset, FS_CardinalityType, FS_EmptySet
<1>4. k # 0
  <2> SUFFICES ASSUME k = 0 PROVE FALSE
    OBVIOUS
  <2> DEFINE g == [T \in Ranked(S, 0) |-> 0]
  <2>1. \A T \in Ranked(S, 0) : T = {}
    BY <1>3 DEF Ranked
  <2>2. g \in [Ranked(S, 0) -> Nat] /\ IsSum(g, f, Ranked(S, 0))
    BY <2>1 DEF IsSum
  <2> QED BY <2>2
<1>5. PICK g \in [Ranked(S, k - 1) -> Nat] : IsSum(g, f, Ranked(S, k - 1))
  BY <1>2, <1>4
<1> DEFINE h == [T \in Ranked(S, k) |->
                   IF T = {} THEN 0 ELSE f[Pick(T)] + g[T \ {Pick(T)}]]
<1>6. ASSUME NEW T \in Ranked(S, k), T # {}
      PROVE  Pick(T) \in S /\ T \ {Pick(T)} \in Ranked(S, k - 1)
  BY <1>6, PickFacts DEF Ranked
<1>7. h \in [Ranked(S, k) -> Nat]
  BY <1>5, <1>6
<1>8. \A T \in Ranked(S, k - 1) : T \in Ranked(S, k) /\ h[T] = g[T]
  <2>1. \A T \in Ranked(S, k - 1) : T \in Ranked(S, k)
    BY <1>3 DEF Ranked
  <2>2. \A T \in Ranked(S, k - 1) :
          g[T] = IF T = {} THEN 0 ELSE f[Pick(T)] + g[T \ {Pick(T)}]
    BY <1>5 DEF IsSum
  <2> QED BY <2>1, <2>2
<1>9. \A T \in Ranked(S, k) : h[T] = IF T = {} THEN 0 ELSE f[Pick(T)] + h[T \ {Pick(T)}]
  BY <1>6, <1>8
<1>10. IsSum(h, f, Ranked(S, k))
  <2> HIDE DEF h
  <2> QED BY <1>7, <1>9 DEF IsSum
<1> QED BY <1>7, <1>10

\* The recursive definition of SumOf has a solution, which is natural.
LEMMA SumExists ==
  ASSUME NEW S, IsFiniteSet(S), NEW f, \A x \in S : f[x] \in Nat
  PROVE  \E g \in [SUBSET S -> Nat] : IsSum(g, f, SUBSET S)
<1>1. Cardinality(S) \in Nat
  BY FS_CardinalityType
<1>2. Ranked(S, Cardinality(S)) = SUBSET S
  <2>1. ASSUME NEW T \in SUBSET S PROVE Cardinality(T) <= Cardinality(S)
    BY FS_Subset
  <2> QED BY <2>1 DEF Ranked
<1>3. \E g \in [Ranked(S, Cardinality(S)) -> Nat] : IsSum(g, f, Ranked(S, Cardinality(S)))
  BY <1>1, RankedSumExists
<1> QED BY <1>2, <1>3

\* Sums satisfies its recursive definition.
LEMMA SumsFacts ==
  ASSUME NEW S, IsFiniteSet(S), NEW f, \A x \in S : f[x] \in Nat
  PROVE  /\ Sums(f, S) = [T \in SUBSET S |-> Sums(f, S)[T]]
         /\ \A T \in SUBSET S : Sums(f, S)[T] =
              IF T = {} THEN 0 ELSE f[Pick(T)] + Sums(f, S)[T \ {Pick(T)}]
<1>1. IsSum(Sums(f, S), f, SUBSET S)
  <2>1. PICK g \in [SUBSET S -> Nat] : IsSum(g, f, SUBSET S)
    BY SumExists, Zenon
  <2>2. \E h : h = [T \in SUBSET S |-> IF T = {} THEN 0 ELSE f[Pick(T)] + h[T \ {Pick(T)}]]
    BY <2>1, Zenon DEF IsSum
  <2> QED BY <2>2, Zenon DEF Sums, IsSum
<1> DEFINE g == Sums(f, S)
<1> HIDE DEF g
<1>2. g = [T \in SUBSET S |-> g[T]]
  BY <1>1 DEF g, IsSum
<1>3. \A T \in SUBSET S : g[T] = IF T = {} THEN 0 ELSE f[Pick(T)] + g[T \ {Pick(T)}]
  BY <1>1 DEF g, IsSum
<1> QED BY <1>2, <1>3, Zenon DEF g

\* Sums depends on nothing but the values of the function on the set summed.
LEMMA SumsAgree ==
  ASSUME NEW S, IsFiniteSet(S), NEW U \in SUBSET S,
         NEW f, \A x \in S : f[x] \in Nat, NEW e, \A x \in U : e[x] = f[x]
  PROVE  \A T \in SUBSET U : Sums(e, U)[T] = Sums(f, S)[T]
<1> DEFINE g == Sums(f, S)
           h == Sums(e, U)
           Differ == {T \in SUBSET U : h[T] # g[T]}
<1>1. IsFiniteSet(U) /\ \A x \in U : e[x] \in Nat
  BY FS_Subset
<1>2. \A T \in SUBSET S : g[T] = IF T = {} THEN 0 ELSE f[Pick(T)] + g[T \ {Pick(T)}]
  BY SumsFacts
<1>3. \A T \in SUBSET U : h[T] = IF T = {} THEN 0 ELSE e[Pick(T)] + h[T \ {Pick(T)}]
  BY <1>1, SumsFacts
<1> HIDE DEF g, h
<1>4. SUFFICES ASSUME Differ # {} PROVE FALSE
  BY DEF g, h
<1>5. PICK T \in Differ : \A V \in SUBSET T : V # T => V \notin Differ
  <2>1. Differ \in SUBSET SUBSET U
    OBVIOUS
  <2> HIDE DEF Differ
  <2> QED BY <1>1, <1>4, <2>1, MinimalSet
<1>7. T # {}
  BY SMTT(40), <1>2, <1>3, <1>5
<1>8. Pick(T) \in T
  BY <1>7, Zenon DEF Pick
<1>9. T \ {Pick(T)} \in SUBSET T /\ T \ {Pick(T)} # T
  BY <1>8
<1>10. T \ {Pick(T)} \notin Differ
  BY <1>5, <1>9
<1>11. T \in SUBSET U /\ T \in SUBSET S /\ h[T \ {Pick(T)}] = g[T \ {Pick(T)}] /\ h[T] # g[T]
  BY <1>5, <1>10
<1> QED BY <1>2, <1>3, <1>7, <1>8, <1>11

\* Sums of naturals are natural.
LEMMA SumsNat ==
  ASSUME NEW S, IsFiniteSet(S), NEW f, \A x \in S : f[x] \in Nat
  PROVE  \A T \in SUBSET S : Sums(f, S)[T] \in Nat
<1> DEFINE g == Sums(f, S)
           Differ == {T \in SUBSET S : g[T] \notin Nat}
<1>2. \A T \in SUBSET S : g[T] = IF T = {} THEN 0 ELSE f[Pick(T)] + g[T \ {Pick(T)}]
  BY SumsFacts
<1> HIDE DEF g
<1>4. SUFFICES ASSUME Differ # {} PROVE FALSE
  BY DEF g
<1>5. PICK T \in Differ : \A V \in SUBSET T : V # T => V \notin Differ
  <2>1. Differ \in SUBSET SUBSET S
    OBVIOUS
  <2> HIDE DEF Differ
  <2> QED BY <1>4, <2>1, MinimalSet
<1>6. T \in SUBSET S /\ g[T] \notin Nat
  BY <1>5
<1>7. T # {}
  <2>1. g[{}] = 0
    BY <1>2
  <2> QED BY <1>6, <2>1
<1>8. Pick(T) \in T
  BY <1>7, Zenon DEF Pick
<1>9. f[Pick(T)] \in Nat /\ g[T \ {Pick(T)}] \in Nat
  BY <1>5, <1>6, <1>8
<1>10. g[T] = f[Pick(T)] + g[T \ {Pick(T)}]
  BY <1>2, <1>6, <1>7, Zenon
<1> QED BY <1>6, <1>9, <1>10

\* The order in which a set is summed does not matter.
LEMMA SumsRemove ==
  ASSUME NEW S, IsFiniteSet(S), NEW f, \A x \in S : f[x] \in Nat
  PROVE  \A T \in SUBSET S : \A x \in T : Sums(f, S)[T] = f[x] + Sums(f, S)[T \ {x}]
<1> DEFINE g == Sums(f, S)
           Differ == {T \in SUBSET S : \E x \in T : g[T] # f[x] + g[T \ {x}]}
<1>1. \A T \in SUBSET S : g[T] \in Nat
  BY SumsNat
<1>2. \A T \in SUBSET S : g[T] = IF T = {} THEN 0 ELSE f[Pick(T)] + g[T \ {Pick(T)}]
  BY SumsFacts
<1> HIDE DEF g
<1>4. SUFFICES ASSUME Differ # {} PROVE FALSE
  BY DEF g
<1>5. PICK T \in Differ : \A V \in SUBSET T : V # T => V \notin Differ
  <2>1. Differ \in SUBSET SUBSET S
    OBVIOUS
  <2> HIDE DEF Differ
  <2> QED BY <1>4, <2>1, MinimalSet
<1>6. PICK x \in T : g[T] # f[x] + g[T \ {x}]
  BY <1>5
<1>7. PICK c : c = Pick(T)
  OBVIOUS
<1>8. c \in T /\ T \in SUBSET S /\ g[T] = f[c] + g[T \ {c}]
  BY <1>2, <1>5, <1>6, <1>7, Zenon DEF Pick
<1>9. x # c
  BY <1>6, <1>8
<1>10. T \ {c} \notin Differ /\ T \ {x} \notin Differ
  BY <1>5, <1>6, <1>8
<1>11. g[T \ {c}] = f[x] + g[(T \ {c}) \ {x}] /\ g[T \ {x}] = f[c] + g[(T \ {x}) \ {c}]
  BY <1>6, <1>8, <1>9, <1>10
<1>12. (T \ {c}) \ {x} = (T \ {x}) \ {c} /\ (T \ {c}) \ {x} \in SUBSET S
  BY <1>8
<1>13. f[x] \in Nat /\ f[c] \in Nat /\ g[(T \ {c}) \ {x}] \in Nat
  BY <1>1, <1>6, <1>8, <1>12
<1> DEFINE w == g[(T \ {c}) \ {x}]
<1>14. w \in Nat /\ g[T] = f[c] + (f[x] + w) /\ g[T \ {x}] = f[c] + w
  BY <1>8, <1>11, <1>12, <1>13
<1> HIDE DEF w
<1> QED BY <1>6, <1>13, <1>14

\* What a sum over a finite set of naturals is: 0 over the empty set, and every element counts once.
LEMMA SumFacts ==
  ASSUME NEW S, IsFiniteSet(S), NEW f, \A x \in S : f[x] \in Nat
  PROVE  /\ SumOf(f, S) \in Nat
         /\ S = {} => SumOf(f, S) = 0
         /\ \A x \in S : SumOf(f, S) = f[x] + SumOf(f, S \ {x})
<1>1. SumOf(f, S) \in Nat
  BY SumsNat DEF SumOf
<1>2. S = {} => SumOf(f, S) = 0
  BY SumsFacts DEF SumOf
<1>3. ASSUME NEW x \in S PROVE SumOf(f, S) = f[x] + SumOf(f, S \ {x})
  <2>1. Sums(f, S)[S] = f[x] + Sums(f, S)[S \ {x}]
    BY SumsRemove
  <2>2. Sums(f, S \ {x})[S \ {x}] = Sums(f, S)[S \ {x}]
    <3> DEFINE U == S \ {x}
    <3>1. U \in SUBSET S /\ \A y \in U : f[y] = f[y]
      OBVIOUS
    <3> HIDE DEF U
    <3>2. \A T \in SUBSET U : Sums(f, U)[T] = Sums(f, S)[T]
      BY <3>1, SumsAgree
    <3> QED BY Zenon, <3>2 DEF U
  <2> QED BY <2>1, <2>2 DEF SumOf
<1> QED BY <1>1, <1>2, <1>3

\* A sum depends only on the values summed.
LEMMA SumSame ==
  ASSUME NEW S, IsFiniteSet(S), NEW f, \A x \in S : f[x] \in Nat, NEW e, \A x \in S : e[x] = f[x]
  PROVE  SumOf(e, S) = SumOf(f, S)
<1>1. S \in SUBSET S
  OBVIOUS
<1>2. \A T \in SUBSET S : Sums(e, S)[T] = Sums(f, S)[T]
  BY <1>1, SumsAgree
<1> QED BY <1>2 DEF SumOf

\* Adding an element adds its value.
LEMMA SumAdd ==
  ASSUME NEW S, IsFiniteSet(S), NEW x, x \notin S, NEW f, \A y \in S \cup {x} : f[y] \in Nat
  PROVE  SumOf(f, S \cup {x}) = f[x] + SumOf(f, S)
<1> DEFINE U == S \cup {x}
<1>1. IsFiniteSet(U) /\ x \in U /\ U \ {x} = S
  BY FS_AddElement
<1> HIDE DEF U
<1>2. SumOf(f, U) = f[x] + SumOf(f, U \ {x})
  <2>1. \A y \in U : f[y] \in Nat
    BY DEF U
  <2> QED BY <1>1, <2>1, SumFacts
<1> QED BY <1>1, <1>2 DEF U

\* Changing one value changes the sum by the difference.
LEMMA SumChange ==
  ASSUME NEW S, IsFiniteSet(S), NEW x \in S, NEW f, \A y \in S : f[y] \in Nat,
         NEW e, \A y \in S : e[y] \in Nat, \A y \in S \ {x} : e[y] = f[y]
  PROVE  SumOf(e, S) = SumOf(f, S) - f[x] + e[x]
<1> DEFINE U == S \ {x}
<1>1. IsFiniteSet(U) /\ \A y \in U : f[y] \in Nat /\ e[y] = f[y]
  BY FS_RemoveElement
<1> HIDE DEF U
<1>2. SumOf(e, U) = SumOf(f, U) /\ SumOf(f, U) \in Nat
  BY <1>1, SumSame, SumFacts
<1>3. SumOf(f, S) = f[x] + SumOf(f, U) /\ SumOf(e, S) = e[x] + SumOf(e, U)
  BY SumFacts DEF U
<1> QED BY <1>2, <1>3

\* Counting a finite set with one element more.
LEMMA OneMore ==
  ASSUME NEW S, IsFiniteSet(S), NEW x, x \notin S, NEW T, T = S \cup {x}
  PROVE  Cardinality(T) = Cardinality(S) + 1 /\ IsFiniteSet(T) /\ Cardinality(S) \in Nat
<1>1. Cardinality(S \cup {x}) = IF x \in S THEN Cardinality(S) ELSE Cardinality(S) + 1
  BY FS_AddElement, Zenon
<1>2. IsFiniteSet(S \cup {x}) /\ Cardinality(S) \in Nat
  BY FS_AddElement, FS_CardinalityType, Zenon
<1>3. IF x \in S THEN FALSE ELSE Cardinality(T) = Cardinality(S) + 1
  BY <1>1, Zenon
<1> QED BY <1>2, <1>3, Zenon

\* The facts the proofs of the components assume.
LEMMA CountingHolds == CountingFacts
<1>1. \A n \in Int : IsFiniteSet(1 .. n)
  BY FS_Interval
<1>2. \A S : IsFiniteSet(S) => \A T \in SUBSET S : IsFiniteSet(T)
  BY FS_Subset, Zenon
<1>3. \A S : IsFiniteSet(S) => Cardinality(S) \in Nat /\ (Cardinality(S) = 0 <=> S = {})
  BY FS_CardinalityType, FS_EmptySet, Zenon
<1>4. \A S : \A x : IsFiniteSet(S) /\ x \notin S =>
                      IsFiniteSet(S \cup {x}) /\ Cardinality(S \cup {x}) = Cardinality(S) + 1
  BY OneMore, Zenon
<1>5. \A T \in SUBSET Nat : T # {} => \E x \in T : \A y \in T : x <= y
  BY LeastElement, Zenon
<1>6. \A n \in Nat : \A r : (\A i \in 1 .. n : r[i] \in Nat) =>
        /\ Partial(r, n) \in [0 .. n -> Nat]
        /\ Partial(r, n)[0] = 0
        /\ \A i \in 1 .. n : Partial(r, n)[i] = Partial(r, n)[i - 1] + r[i]
  BY PartialFacts, Zenon
<1> QED BY <1>1, <1>2, <1>3, <1>4, <1>5, <1>6, FS_EmptySet, Zenon DEF CountingFacts, FiniteFacts

\* The facts on sums over finite sets that the proofs of the components assume.
LEMMA SummingHolds == SummingFacts
<1>1. \A S, T : IsFiniteSet(S) /\ IsFiniteSet(T) => IsFiniteSet(S \X T)
  BY FS_Product, Zenon
<1>2. \A S : \A f : IsFiniteSet(S) /\ (\A x \in S : f[x] \in Nat) =>
                      SumOf(f, S) \in Nat /\ (S = {} => SumOf(f, S) = 0)
  BY SumFacts, Zenon
<1>3. \A S : \A f, e : IsFiniteSet(S) /\ (\A x \in S : f[x] \in Nat) /\ (\A x \in S : e[x] = f[x]) =>
                         SumOf(e, S) = SumOf(f, S)
  BY SumSame, Zenon
<1>4. \A S : \A x, f : IsFiniteSet(S) /\ x \notin S /\ (\A y \in S \cup {x} : f[y] \in Nat) =>
                         SumOf(f, S \cup {x}) = f[x] + SumOf(f, S)
  BY SumAdd, Zenon
<1>5. ASSUME NEW S, NEW x \in S, NEW f, NEW e, IsFiniteSet(S), \A y \in S : f[y] \in Nat,
             \A y \in S : e[y] \in Nat, \A y \in S : y # x => e[y] = f[y]
      PROVE  SumOf(e, S) = SumOf(f, S) - f[x] + e[x]
  <2>1. \A y \in S \ {x} : e[y] = f[y]
    BY <1>5, Zenon
  <2> QED BY <1>5, <2>1, SumChange
<1> QED BY <1>1, <1>2, <1>3, <1>4, <1>5, Zenon DEF SummingFacts
-----------------------------------------------------------------------------
(* Integer division brackets its dividend: what nearest in                   *)
(* check_split_segments_disjoint means.                                      *)
LEMMA DivBracket ==
  ASSUME NEW x \in Nat, NEW s \in Nat, s > 0
  PROVE  /\ x \div s \in Nat
         /\ (x \div s) * s <= x
         /\ x < (x \div s) * s + s
  BY SMT

(* Whole strides keep their order when they are scaled to bytes.             *)
LEMMA ScaleMonotone ==
  ASSUME NEW a \in Int, NEW b \in Int, a <= b, NEW s \in Nat
  PROVE  a * s <= b * s
  BY SMT

(* KVCacheGeometry::new: in an accepted split geometry, of any size, the K   *)
(* segment of no block overlaps the V segment of any block, although         *)
(* check_split_segments_disjoint compares only two block distances.          *)
THEOREM SplitSegmentsDisjoint ==
  ASSUME NEW geo \in [n : Nat, seg : Nat, kv : Nat, segs : Nat, step : Nat],
         GeometryOk(geo), IsSplit(geo),
         NEW b1 \in 0 .. geo.n - 1, NEW b2 \in 0 .. geo.n - 1
  PROVE  \/ b1 * Stride(geo) + geo.seg <= b2 * Stride(geo) + geo.kv
         \/ b2 * Stride(geo) + geo.kv + geo.seg <= b1 * Stride(geo)
<1> DEFINE s == Stride(geo)
           k == geo.kv \div s
           d == b1 - b2
<1>1. /\ s \in Nat /\ s > 0 /\ s >= geo.seg /\ geo.kv > geo.seg
      /\ geo.kv \in Nat /\ geo.seg \in Nat /\ geo.n \in Nat /\ d \in Int /\ d <= geo.n - 1
  BY DEF GeometryOk, IsSplit, Stride, BlockBytes
<1>2. /\ k \in Nat /\ k * s <= geo.kv /\ geo.kv < k * s + s
  <2> HIDE DEF s
  <2> QED BY <1>1, DivBracket
<1>3. \A e \in {k, k + 1} : \/ e = 0 \/ e > geo.n - 1
                            \/ geo.kv - e * s >= geo.seg \/ e * s - geo.kv >= geo.seg
  BY DEF GeometryOk, SplitDisjoint
<1>4. (b1 * s) - (b2 * s) = d * s
  <2> HIDE DEF s
  <2> QED BY <1>1
<1>5. geo.kv - d * s >= geo.seg \/ d * s - geo.kv >= geo.seg
  <2> HIDE DEF s, k, d
  <2>1. CASE d <= 0
    <3>1. d * s <= 0 * s
      BY <1>1, <2>1, ScaleMonotone
    <3> QED BY <1>1, <3>1
  <2>2. CASE d > 0 /\ d < k
    <3>1. d * s <= (k - 1) * s
      BY <1>1, <1>2, <2>2, ScaleMonotone
    <3>2. (k - 1) * s = k * s - s
      BY <1>1, <1>2
    <3> QED BY <1>1, <1>2, <3>1, <3>2
  <2>3. CASE d > 0 /\ d \in {k, k + 1}
    BY <1>1, <1>3, <2>3
  <2>4. CASE d > k + 1
    <3>1. (k + 2) * s <= d * s
      BY <1>1, <1>2, <2>4, ScaleMonotone
    <3>2. (k + 2) * s = k * s + s + s
      BY <1>1, <1>2
    <3> QED BY <1>1, <1>2, <3>1, <3>2
  <2> QED BY <1>1, <1>2, <2>1, <2>2, <2>3, <2>4
<1>6. b1 * s \in Int /\ b2 * s \in Int /\ d * s \in Int
  BY <1>1
<1> QED
  <2> HIDE DEF s, d
  <2>1. \/ b1 * s + geo.seg <= b2 * s + geo.kv
        \/ b2 * s + geo.kv + geo.seg <= b1 * s
    BY <1>1, <1>4, <1>5, <1>6
  <2> QED BY <2>1 DEF s

Geometry == [n : Nat, seg : Nat, kv : Nat, segs : Nat, step : Nat]

\* The stride of an accepted geometry is a whole block, or a segment if K and V are apart.
LEMMA StrideFacts ==
  ASSUME NEW geo \in Geometry, geo.seg > 0, geo.segs > 0
  PROVE  /\ Stride(geo) \in Nat /\ Stride(geo) > 0
         /\ geo.n \in Nat /\ geo.seg \in Nat /\ geo.kv \in Nat /\ geo.segs \in Nat
         /\ BlockBytes(geo) \in Nat /\ BlockBytes(geo) = geo.seg * geo.segs
         /\ geo.seg <= BlockBytes(geo)
<1>1. geo.n \in Nat /\ geo.seg \in Nat /\ geo.kv \in Nat /\ geo.segs \in Nat /\ geo.step \in Nat
  BY DEF Geometry
<1>2. BlockBytes(geo) \in Nat /\ BlockBytes(geo) = geo.seg * geo.segs
  BY <1>1 DEF BlockBytes
<1>3. 1 * geo.seg <= geo.segs * geo.seg
  BY <1>1, ScaleMonotone
<1>4. geo.seg <= BlockBytes(geo)
  BY <1>1, <1>2, <1>3
<1>5. Stride(geo) \in {geo.step, geo.seg, BlockBytes(geo)} /\ (Stride(geo) = geo.step => geo.step # 0 \/ geo.step = geo.seg \/ geo.step = BlockBytes(geo))
  BY Zenon DEF Stride
<1> QED BY <1>1, <1>2, <1>4, <1>5

\* Blocks in their order, one stride apart.
LEMMA BlocksApart ==
  ASSUME NEW s \in Nat, NEW size \in Nat, size <= s, NEW b1 \in Nat, NEW b2 \in Nat, b1 < b2
  PROVE  (b1 * s) + size <= b2 * s
<1>1. (b1 + 1) * s <= b2 * s
  BY ScaleMonotone
<1>2. (b1 + 1) * s = (b1 * s) + s /\ b1 * s \in Nat /\ b2 * s \in Nat
  OBVIOUS
<1> QED BY <1>1, <1>2

\* A segment ends inside its contiguous block.
LEMMA SegmentInside ==
  ASSUME NEW geo \in Geometry, GeometryOk(geo), ~IsSplit(geo), NEW j \in 0 .. geo.segs - 1
  PROVE  /\ j * geo.kv = j * geo.seg /\ j * geo.kv \in Nat
         /\ (j * geo.kv) + geo.seg <= BlockBytes(geo)
<1>1. /\ geo.seg > 0 /\ geo.segs > 0 /\ geo.kv \in Nat /\ geo.seg \in Nat /\ geo.segs \in Nat
      /\ geo.segs = 1 \/ geo.kv = geo.seg
  BY DEF GeometryOk, IsSplit, Geometry
<1>2. j * geo.kv = j * geo.seg
  <2>1. CASE geo.segs = 1
    <3>1. j = 0
      BY <2>1
    <3> QED BY <1>1, <3>1
  <2> QED BY <1>1, <2>1
<1>3. (j + 1) * geo.seg <= geo.segs * geo.seg
  BY <1>1, ScaleMonotone
<1>4. (j + 1) * geo.seg = (j * geo.seg) + geo.seg /\ j * geo.seg \in Nat
  BY <1>1
<1>5. geo.segs * geo.seg = BlockBytes(geo)
  BY <1>1 DEF BlockBytes
<1> QED BY Zenon, <1>1, <1>2, <1>3, <1>4, <1>5

\* Two segments of an accepted geometry in their order: of one block, or of two.
LEMMA OrderedApart ==
  ASSUME NEW geo \in Geometry, GeometryOk(geo),
         NEW b1 \in 0 .. geo.n - 1, NEW b2 \in 0 .. geo.n - 1,
         NEW j1 \in 0 .. geo.segs - 1, NEW j2 \in 0 .. geo.segs - 1,
         b1 < b2 \/ (b1 = b2 /\ j1 < j2)
  PROVE  \/ Segment(geo, b1, j1) + geo.seg <= Segment(geo, b2, j2)
         \/ Segment(geo, b2, j2) + geo.seg <= Segment(geo, b1, j1)
<1> DEFINE s == Stride(geo)
<1>1. /\ geo.seg > 0 /\ geo.segs > 0
      /\ IF IsSplit(geo) THEN Stride(geo) >= geo.seg ELSE Stride(geo) >= BlockBytes(geo)
  BY DEF GeometryOk, Geometry
<1>2. /\ s \in Nat /\ geo.n \in Nat /\ geo.seg \in Nat /\ geo.kv \in Nat /\ geo.segs \in Nat
      /\ BlockBytes(geo) \in Nat
  BY <1>1, StrideFacts
<1>3. Segment(geo, b1, j1) = (b1 * s) + (j1 * geo.kv) /\ Segment(geo, b2, j2) = (b2 * s) + (j2 * geo.kv)
  BY Zenon DEF Segment
<1>4. b1 \in Nat /\ b2 \in Nat /\ j1 \in Nat /\ j2 \in Nat
  BY <1>2
<1>5. b1 * s \in Nat /\ b2 * s \in Nat /\ j1 * geo.kv \in Nat /\ j2 * geo.kv \in Nat
  BY <1>2, <1>4
<1>6. CASE ~IsSplit(geo)
  <2>1. /\ j1 * geo.kv = j1 * geo.seg /\ j2 * geo.kv = j2 * geo.seg
        /\ (j1 * geo.kv) + geo.seg <= BlockBytes(geo)
    BY <1>6, SegmentInside
  <2>2. CASE b1 < b2
    <3>1. (b1 * s) + BlockBytes(geo) <= b2 * s
      <4>1. BlockBytes(geo) <= s
        BY <1>1, <1>2, <1>6
      <4> HIDE DEF s
      <4> QED BY <1>2, <1>4, <2>2, <4>1, BlocksApart
    <3> HIDE DEF s
    <3> QED BY <1>2, <1>3, <1>5, <2>1, <3>1
  <2>3. CASE b1 = b2 /\ j1 < j2
    <3>1. (j1 + 1) * geo.seg <= j2 * geo.seg
      BY <1>2, <1>4, <2>3, ScaleMonotone
    <3>2. (j1 + 1) * geo.seg = (j1 * geo.seg) + geo.seg
      BY <1>2, <1>4
    <3> HIDE DEF s
    <3> QED BY <1>2, <1>3, <1>5, <2>1, <2>3, <3>1, <3>2
  <2> QED BY <2>2, <2>3
<1>7. CASE IsSplit(geo)
  <2>1. geo.segs = 2 /\ geo.kv > geo.seg /\ s >= geo.seg
    BY <1>1, <1>7 DEF IsSplit
  <2>2. j1 \in {0, 1} /\ j2 \in {0, 1}
    BY <1>4, <2>1
  <2>3. 0 * geo.kv = 0 /\ 1 * geo.kv = geo.kv
    BY <1>2
  <2>4. CASE b1 = b2 /\ j1 < j2
    <3>1. j1 = 0 /\ j2 = 1
      BY <2>2, <2>4
    <3> HIDE DEF s
    <3> QED BY <1>2, <1>3, <1>5, <2>1, <2>3, <2>4, <3>1
  <2>5. CASE b1 < b2 /\ j1 = j2
    <3>1. (b1 * s) + geo.seg <= b2 * s
      <4> HIDE DEF s
      <4> QED BY <1>2, <1>4, <2>1, <2>5, BlocksApart
    <3> HIDE DEF s
    <3> QED BY <1>2, <1>3, <1>5, <2>5, <3>1
  <2>6. CASE b1 < b2 /\ j1 = 0 /\ j2 = 1
    <3>1. \/ (b1 * s) + geo.seg <= (b2 * s) + geo.kv
          \/ (b2 * s) + geo.kv + geo.seg <= b1 * s
      BY <1>7, SplitSegmentsDisjoint DEF Geometry
    <3> HIDE DEF s
    <3> QED BY <1>2, <1>3, <1>5, <2>3, <2>6, <3>1
  <2>7. CASE b1 < b2 /\ j1 = 1 /\ j2 = 0
    <3>1. \/ (b2 * s) + geo.seg <= (b1 * s) + geo.kv
          \/ (b1 * s) + geo.kv + geo.seg <= b2 * s
      BY <1>7, SplitSegmentsDisjoint DEF Geometry
    <3> HIDE DEF s
    <3> QED BY <1>2, <1>3, <1>5, <2>3, <2>7, <3>1
  <2> QED BY <2>2, <2>4, <2>5, <2>6, <2>7
<1> QED BY <1>6, <1>7

\* Accepted: nothing overlaps.
LEMMA AcceptedIsDisjoint ==
  ASSUME NEW geo \in Geometry, GeometryOk(geo)
  PROVE  NoOverlap(geo)
<1> SUFFICES ASSUME NEW b1 \in 0 .. geo.n - 1, NEW b2 \in 0 .. geo.n - 1,
                    NEW j1 \in 0 .. geo.segs - 1, NEW j2 \in 0 .. geo.segs - 1,
                    <<b1, j1>> # <<b2, j2>>
             PROVE  \/ Segment(geo, b1, j1) + geo.seg <= Segment(geo, b2, j2)
                    \/ Segment(geo, b2, j2) + geo.seg <= Segment(geo, b1, j1)
  BY Zenon DEF NoOverlap
<1>1. \/ b1 < b2 \/ (b1 = b2 /\ j1 < j2) \/ b2 < b1 \/ (b2 = b1 /\ j2 < j1)
  OBVIOUS
<1>2. CASE b1 < b2 \/ (b1 = b2 /\ j1 < j2)
  BY <1>2, OrderedApart, Zenon
<1>3. CASE b2 < b1 \/ (b2 = b1 /\ j2 < j1)
  BY <1>3, OrderedApart, Zenon
<1> QED BY <1>1, <1>2, <1>3, Zenon

\* Accepted: what a block is made of lies inside the extent that bind compares with the tensor.
LEMMA AcceptedIsInside ==
  ASSUME NEW geo \in Geometry, GeometryOk(geo), NEW b \in 0 .. geo.n - 1, NEW x \in BlockRanges(geo, b)
  PROVE  0 <= x[1] /\ x[2] <= Extent(geo)
<1> DEFINE s == Stride(geo)
           z == BlockBytes(geo)
<1>1. geo.seg > 0 /\ geo.segs > 0
  BY DEF GeometryOk, Geometry
<1>2. /\ s \in Nat /\ geo.n \in Nat /\ geo.seg \in Nat /\ geo.kv \in Nat /\ z \in Nat
  BY <1>1, StrideFacts
<1>3. b * s <= (geo.n - 1) * s /\ b * s \in Nat /\ (geo.n - 1) * s \in Int
  <2> HIDE DEF s
  <2>1. b \in Nat /\ geo.n - 1 \in Int /\ b <= geo.n - 1
    BY <1>2
  <2> QED BY <1>2, <2>1, ScaleMonotone
<1>4. CASE IsSplit(geo)
  <2>1. Extent(geo) = (geo.n - 1) * s + (geo.kv + geo.seg)
    BY <1>4 DEF Extent
  <2>2. x \in {<<b * s, (b * s) + geo.seg>>, <<(b * s) + geo.kv, (b * s) + geo.kv + geo.seg>>}
    BY <1>4 DEF BlockRanges
  <2> HIDE DEF s
  <2> QED BY <1>2, <1>3, <2>1, <2>2
<1>5. CASE ~IsSplit(geo)
  <2>1. Extent(geo) = (geo.n - 1) * s + z
    BY <1>5 DEF Extent
  <2>2. x = <<b * s, (b * s) + z>>
    BY <1>5 DEF BlockRanges
  <2> HIDE DEF s, z
  <2> QED BY <1>2, <1>3, <2>1, <2>2
<1> QED BY <1>4, <1>5

\* Nothing overlaps: accepted.
LEMMA DisjointIsAccepted ==
  ASSUME NEW geo \in Geometry, geo.seg > 0, NoOverlap(geo), geo.n > 1, geo.segs \in {1, 2}
  PROVE  GeometryOk(geo)
<1> DEFINE s == Stride(geo)
<1>1. geo.segs > 0
  OBVIOUS
<1>2. /\ s \in Nat /\ s > 0 /\ geo.n \in Nat /\ geo.seg \in Nat /\ geo.kv \in Nat /\ geo.segs \in Nat
      /\ BlockBytes(geo) = geo.seg * geo.segs
  BY <1>1, StrideFacts
<1>3. ASSUME NEW b1 \in 0 .. geo.n - 1, NEW b2 \in 0 .. geo.n - 1,
             NEW j1 \in 0 .. geo.segs - 1, NEW j2 \in 0 .. geo.segs - 1, b1 # b2 \/ j1 # j2
      PROVE  \/ (b1 * s) + (j1 * geo.kv) + geo.seg <= (b2 * s) + (j2 * geo.kv)
             \/ (b2 * s) + (j2 * geo.kv) + geo.seg <= (b1 * s) + (j1 * geo.kv)
  <2>1. <<b1, j1>> # <<b2, j2>>
    BY <1>3
  <2> QED BY <2>1, Zenon DEF NoOverlap, Segment
<1> HIDE DEF s
<1>4. /\ 0 \in 0 .. geo.n - 1 /\ 1 \in 0 .. geo.n - 1 /\ 0 \in 0 .. geo.segs - 1
      /\ 0 * s = 0 /\ 1 * s = s /\ 0 * geo.kv = 0 /\ 1 * geo.kv = geo.kv
  BY <1>2
<1>5. geo.seg <= s
  <2>1. \/ (0 * s) + (0 * geo.kv) + geo.seg <= (1 * s) + (0 * geo.kv)
        \/ (1 * s) + (0 * geo.kv) + geo.seg <= (0 * s) + (0 * geo.kv)
    <3>1. 0 # 1
      OBVIOUS
    <3> QED BY <1>3, <1>4, <3>1, Zenon
  <2> QED BY <1>2, <1>4, <2>1
<1>6. CASE geo.segs = 1
  <2>1. BlockBytes(geo) = geo.seg /\ ~IsSplit(geo)
    BY <1>2, <1>6 DEF IsSplit
  <2> QED BY <1>2, <1>5, <1>6, <2>1 DEF GeometryOk, s
<1>7. CASE geo.segs = 2
  <2>1. 1 \in 0 .. geo.segs - 1
    BY <1>7
  <2>2. geo.seg <= geo.kv
    <3>1. \/ (0 * s) + (0 * geo.kv) + geo.seg <= (0 * s) + (1 * geo.kv)
          \/ (0 * s) + (1 * geo.kv) + geo.seg <= (0 * s) + (0 * geo.kv)
      <4>1. 0 # 1
        OBVIOUS
      <4> QED BY <1>3, <1>4, <2>1, <4>1, Zenon
    <3> QED BY <1>2, <1>4, <3>1
  <2>3. CASE geo.kv = geo.seg
    <3>1. \/ (0 * s) + (1 * geo.kv) + geo.seg <= (1 * s) + (0 * geo.kv)
          \/ (1 * s) + (0 * geo.kv) + geo.seg <= (0 * s) + (1 * geo.kv)
      <4>1. 0 # 1
        OBVIOUS
      <4> QED BY <1>3, <1>4, <2>1, <4>1, Zenon
    <3>2. geo.seg + geo.seg <= s
      BY <1>2, <1>4, <2>3, <3>1
    <3>3. BlockBytes(geo) = geo.seg + geo.seg /\ ~IsSplit(geo)
      BY <1>2, <1>7, <2>3 DEF IsSplit
    <3> QED BY <1>2, <1>7, <2>3, <3>2, <3>3 DEF GeometryOk, s
  <2>4. CASE geo.kv # geo.seg
    <3>1. IsSplit(geo)
      BY <1>2, <1>7, <2>2, <2>4 DEF IsSplit
    <3>2. ASSUME NEW d \in Nat
          PROVE  d = 0 \/ d > geo.n - 1 \/ geo.kv - d * s >= geo.seg \/ d * s - geo.kv >= geo.seg
      <4>1. CASE d # 0 /\ d <= geo.n - 1
        <5>1. d \in 0 .. geo.n - 1
          BY <1>2, <4>1
        <5>2. \/ (d * s) + (0 * geo.kv) + geo.seg <= (0 * s) + (1 * geo.kv)
              \/ (0 * s) + (1 * geo.kv) + geo.seg <= (d * s) + (0 * geo.kv)
          BY <1>3, <1>4, <2>1, <4>1, <5>1, Zenon
        <5>3. d * s \in Nat
          BY <1>2
        <5> QED BY <1>2, <1>4, <5>2, <5>3
      <4> QED BY <1>2, <4>1
    <3>3. geo.kv \div s \in Nat
      BY <1>2, DivBracket
    <3>4. SplitDisjoint(geo)
      BY <3>2, <3>3 DEF SplitDisjoint, s
    <3> QED BY <1>2, <1>5, <1>7, <2>2, <3>1, <3>4 DEF GeometryOk, s
  <2> QED BY <2>3, <2>4
<1> QED BY <1>6, <1>7

\* KVCacheGeometry::new is exact, for every number and size of blocks and segments: what it
\* accepts never overlaps and stays inside the extent that is compared with the tensor, and it
\* refuses no layout of one or two segments that does not overlap.
THEOREM LayoutsExact ==
  ASSUME NEW geo \in Geometry, geo.seg > 0
  PROVE  LayoutExact(geo)
  BY AcceptedIsDisjoint, AcceptedIsInside, DisjointIsAccepted, Zenon DEF LayoutExact
=============================================================================
