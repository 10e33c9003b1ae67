----------------------------- MODULE FiniteSums -----------------------------
(***************************************************************************)
(* Sums of natural numbers: of the prefixes of a sequence, and over finite *)
(* sets.  They are recursive functions, so that OperatorTheorems can prove *)
(* what they compute.                                                      *)
(***************************************************************************)
EXTENDS Integers, FiniteSets

\* r[1] + ... + r[i], for every i up to n.
Partial(r, n) ==
  LET sum[i \in 0 .. n] == IF i = 0 THEN 0 ELSE sum[i - 1] + r[i] IN sum

Pick(T) == CHOOSE x \in T : TRUE

\* The sum of f over every subset of a finite set, and over the set.
Sums(f, S) ==
  LET sum[T \in SUBSET S] == IF T = {} THEN 0 ELSE f[Pick(T)] + sum[T \ {Pick(T)}] IN sum
SumOf(f, S) == Sums(f, S)[S]
-----------------------------------------------------------------------------
\* What the proofs of the components use of numbers, finite sets and sums.  OperatorTheorems
\* proves it; a proof that only assumes it does not carry the library's theorems along.
FiniteFacts ==
  /\ \A n \in Int : IsFiniteSet(1 .. n)
  /\ \A S : IsFiniteSet(S) => \A T \in SUBSET S : IsFiniteSet(T)
  /\ IsFiniteSet({}) /\ Cardinality({}) = 0
  /\ \A S : IsFiniteSet(S) => Cardinality(S) \in Nat /\ (Cardinality(S) = 0 <=> S = {})
  /\ \A S : \A x : IsFiniteSet(S) /\ x \notin S =>
                     IsFiniteSet(S \cup {x}) /\ Cardinality(S \cup {x}) = Cardinality(S) + 1

CountingFacts ==
  /\ FiniteFacts
  /\ \A T \in SUBSET Nat : T # {} => \E x \in T : \A y \in T : x <= y
  /\ \A n \in Nat : \A r : (\A i \in 1 .. n : r[i] \in Nat) =>
       /\ Partial(r, n) \in [0 .. n -> Nat]
       /\ Partial(r, n)[0] = 0
       /\ \A i \in 1 .. n : Partial(r, n)[i] = Partial(r, n)[i - 1] + r[i]

\* The same for sums over finite sets.
SummingFacts ==
  /\ \A S, T : IsFiniteSet(S) /\ IsFiniteSet(T) => IsFiniteSet(S \X T)
  /\ \A S : \A f : IsFiniteSet(S) /\ (\A x \in S : f[x] \in Nat) =>
                     SumOf(f, S) \in Nat /\ (S = {} => SumOf(f, S) = 0)
  /\ \A S : \A f, e : IsFiniteSet(S) /\ (\A x \in S : f[x] \in Nat) /\ (\A x \in S : e[x] = f[x]) =>
                        SumOf(e, S) = SumOf(f, S)
  /\ \A S : \A x, f : IsFiniteSet(S) /\ x \notin S /\ (\A y \in S \cup {x} : f[y] \in Nat) =>
                        SumOf(f, S \cup {x}) = f[x] + SumOf(f, S)
  /\ \A S : \A x \in S : \A f : \A e :
       IsFiniteSet(S) =>
       ((\A y \in S : f[y] \in Nat) =>
       ((\A y \in S : e[y] \in Nat) =>
       ((\A y \in S : y # x => e[y] = f[y]) => SumOf(e, S) = SumOf(f, S) - f[x] + e[x])))
=============================================================================
