------------------------------ MODULE Counting ------------------------------
(***************************************************************************)
(* How the size of a finite set changes when one element enters or leaves  *)
(* it, induction over the natural numbers, and the powers of two: the      *)
(* lemmas that the arguments of the proofs share.                          *)
(*                                                                         *)
(* The induction theorems of the library take the formula as an operator,  *)
(* which the provers cannot instantiate.  NatSetInduction takes the set of *)
(* the numbers that satisfy it, and rests on the library's theorem that the *)
(* finite sets are well founded, which takes no operator.                  *)
(***************************************************************************)
EXTENDS Integers, FiniteSets, FiniteSetTheorems, TLAPS

\* One more element makes a set larger by one at most.
LEMMA CountMore ==
  ASSUME NEW S, NEW x, IsFiniteSet(S)
  PROVE  /\ IsFiniteSet(S \cup {x}) /\ Cardinality(S \cup {x}) \in Nat
         /\ Cardinality(S \cup {x}) >= Cardinality(S)
         /\ Cardinality(S \cup {x}) <= Cardinality(S) + 1
         /\ x \notin S => Cardinality(S \cup {x}) = Cardinality(S) + 1
PROOF
<1>1. Cardinality(S) \in Nat
  BY FS_CardinalityType
<1>2. /\ IsFiniteSet(S \cup {x})
      /\ Cardinality(S \cup {x}) =
           IF x \in S THEN Cardinality(S) ELSE Cardinality(S) + 1
  BY FS_AddElement
<1> QED
  BY <1>1, <1>2

\* One element less makes it smaller by one at most.
LEMMA CountLess ==
  ASSUME NEW S, NEW x, IsFiniteSet(S)
  PROVE  /\ IsFiniteSet(S \ {x}) /\ Cardinality(S \ {x}) \in Nat
         /\ Cardinality(S \ {x}) <= Cardinality(S)
         /\ Cardinality(S \ {x}) >= Cardinality(S) - 1
         /\ x \in S => Cardinality(S \ {x}) = Cardinality(S) - 1
PROOF
<1>1. Cardinality(S) \in Nat
  BY FS_CardinalityType
<1>2. /\ IsFiniteSet(S \ {x})
      /\ Cardinality(S \ {x}) =
           IF x \in S THEN Cardinality(S) - 1 ELSE Cardinality(S)
  BY FS_RemoveElement
<1>3. Cardinality(S \ {x}) \in Nat
  BY <1>2, FS_CardinalityType
<1> QED
  BY <1>1, <1>2, <1>3

-----------------------------------------------------------------------------
(* Induction. *)

\* Every nonempty set of natural numbers has a least element.
LEMMA NatMin ==
  ASSUME NEW T, T \subseteq Nat, T # {}
  PROVE  \E m \in T : \A n \in T : m <= n
PROOF
<1> DEFINE R == StrictSubsetOrdering(Nat)
           D == {0 .. (m - 1) : m \in T}
<1>1. IsWellFoundedOn(R, FiniteSubsetsOf(Nat))
  BY FS_StrictSubsetOrderingWellFounded
<1>2. D \subseteq FiniteSubsetsOf(Nat) /\ D # {}
  <2> SUFFICES ASSUME NEW m \in T
               PROVE  0 .. (m - 1) \in FiniteSubsetsOf(Nat)
    OBVIOUS
  <2>1. m \in Nat
    OBVIOUS
  <2>2. IsFiniteSet(0 .. (m - 1))
    BY <2>1, FS_Interval
  <2>3. 0 .. (m - 1) \subseteq Nat
    BY <2>1
  <2> QED
    BY <2>2, <2>3 DEF FiniteSubsetsOf
<1>3. \E x \in D : \A y \in D : ~ (<<y, x>> \in R)
  <2> HIDE DEF R, D
  <2> QED
    BY <1>1, <1>2, WFMin
<1>4. PICK m \in T : \A n \in T : ~ (<<0 .. (n - 1), 0 .. (m - 1)>> \in R)
  BY <1>3
<1> SUFFICES ASSUME NEW n \in T, n < m
             PROVE  FALSE
  <2> m \in Nat /\ \A n \in T : n \in Nat
    OBVIOUS
  <2> QED
    OBVIOUS
<1>5. m \in Nat /\ n \in Nat
  OBVIOUS
<1>6. /\ 0 .. (n - 1) \in SUBSET Nat /\ 0 .. (m - 1) \in SUBSET Nat
      /\ 0 .. (n - 1) \subseteq 0 .. (m - 1)
      /\ n \in 0 .. (m - 1) /\ n \notin 0 .. (n - 1)
  BY <1>5
<1>7. 0 .. (n - 1) # 0 .. (m - 1)
  BY <1>6
<1> QED
  BY <1>4, <1>6, <1>7 DEF StrictSubsetOrdering

\* Induction over a set of natural numbers.
LEMMA NatSetInduction ==
  ASSUME NEW T, 0 \in T, \A n \in Nat : n \in T => n + 1 \in T
  PROVE  Nat \subseteq T
PROOF
<1> SUFFICES ASSUME Nat \ T # {} PROVE FALSE
  OBVIOUS
<1>1. PICK m \in Nat \ T : \A n \in Nat \ T : m <= n
  <2>1. Nat \ T \subseteq Nat
    OBVIOUS
  <2> QED
    BY <2>1, NatMin
<1>2. m # 0 /\ m - 1 \in Nat
  BY <1>1
<1>3. m - 1 \in T
  BY <1>1, <1>2
<1>4. (m - 1) + 1 \in T
  BY <1>2, <1>3
<1> QED
  BY <1>1, <1>2, <1>4

-----------------------------------------------------------------------------
(* Powers of two. *)

\* 2 ^ n counts the subsets of a set of n elements, and so is a natural number.
LEMMA PowerType ==
  ASSUME NEW n \in Nat
  PROVE  /\ IsFiniteSet(SUBSET (1 .. n)) /\ Cardinality(SUBSET (1 .. n)) = 2 ^ n
         /\ 2 ^ n \in Nat
PROOF
<1>1. IsFiniteSet(1 .. n) /\ Cardinality(1 .. n) = n
  BY FS_Interval
<1>2. IsFiniteSet(SUBSET (1 .. n)) /\ Cardinality(SUBSET (1 .. n)) = 2 ^ n
  BY <1>1, FS_SUBSET
<1> QED
  BY <1>2, FS_CardinalityType

\* The empty set has one subset.
LEMMA PowerZero == 2 ^ 0 = 1
PROOF
<1>1. Cardinality(SUBSET (1 .. 0)) = 2 ^ 0
  BY PowerType
<1>2. SUBSET (1 .. 0) = {{}}
  OBVIOUS
<1> QED
  BY <1>1, <1>2, FS_Singleton

\* One more element doubles the subsets: each goes with it or without it.
LEMMA PowerStep ==
  ASSUME NEW n \in Nat
  PROVE  2 ^ (n + 1) = 2 * 2 ^ n
PROOF
<1> DEFINE S == SUBSET (1 .. n)
           U == SUBSET (1 .. (n + 1))
           V == {s \cup {n + 1} : s \in S}
           f == [s \in S |-> s \cup {n + 1}]
<1>1. IsFiniteSet(S) /\ Cardinality(S) = 2 ^ n /\ 2 ^ n \in Nat
  BY PowerType
<1>2. IsFiniteSet(U) /\ Cardinality(U) = 2 ^ (n + 1)
  <2>1. n + 1 \in Nat
    OBVIOUS
  <2> QED
    BY <2>1, PowerType
<1>3. \A s \in S : n + 1 \notin s
  OBVIOUS
<1>4. f \in Bijection(S, V)
  <2>1. f \in [S -> V]
    OBVIOUS
  <2>2. \A s, t \in S : f[s] = f[t] => s = t
    <3> SUFFICES ASSUME NEW s \in S, NEW t \in S, s \cup {n + 1} = t \cup {n + 1}
                 PROVE  s = t
      OBVIOUS
    <3> n + 1 \notin s /\ n + 1 \notin t
      BY <1>3
    <3> QED
      OBVIOUS
  <2>3. \A v \in V : \E s \in S : f[s] = v
    OBVIOUS
  <2> HIDE DEF f, S, V
  <2> QED
    BY <2>1, <2>2, <2>3 DEF Bijection, Injection, Surjection, IsInjective
<1>5. IsFiniteSet(V) /\ Cardinality(V) = 2 ^ n
  <2> HIDE DEF f, S, V
  <2> QED
    BY <1>1, <1>4, FS_Bijection DEF ExistsBijection
<1>6. U = S \cup V
  <2>1. S \subseteq U
    OBVIOUS
  <2>2. V \subseteq U
    <3> SUFFICES ASSUME NEW s \in S PROVE s \cup {n + 1} \in U
      OBVIOUS
    <3>1. 1 .. n \subseteq 1 .. (n + 1) /\ n + 1 \in 1 .. (n + 1)
      OBVIOUS
    <3> QED
      BY <3>1
  <2>3. ASSUME NEW u \in U PROVE u \in S \cup V
    <3>1. CASE n + 1 \in u
      <4>1. u \ {n + 1} \in S
        OBVIOUS
      <4>2. u = (u \ {n + 1}) \cup {n + 1}
        BY <3>1
      <4> QED
        BY <4>1, <4>2
    <3>2. CASE n + 1 \notin u
      BY <3>2
    <3> QED
      BY <3>1, <3>2
  <2> QED
    BY <2>1, <2>2, <2>3
<1>7. S \cap V = {}
  BY <1>3
<1>8. Cardinality(S \cup V) = Cardinality(S) + Cardinality(V) - Cardinality(S \cap V)
  <2> HIDE DEF S, V
  <2> QED
    BY <1>1, <1>5, FS_Union
<1>9. Cardinality(S \cap V) = 0
  BY <1>7, FS_EmptySet
<1> QED
  <2> HIDE DEF S, V, U, f
  <2> QED
    BY <1>1, <1>2, <1>5, <1>6, <1>8, <1>9

\* No power of two is less than one, by induction.
LEMMA PowerPositive ==
  ASSUME NEW n \in Nat
  PROVE  2 ^ n >= 1
PROOF
<1> DEFINE T == {k \in Nat : 2 ^ k >= 1}
<1>1. 0 \in T
  BY PowerZero
<1>2. \A k \in Nat : k \in T => k + 1 \in T
  <2> SUFFICES ASSUME NEW k \in Nat, 2 ^ k >= 1 PROVE 2 ^ (k + 1) >= 1
    OBVIOUS
  <2>1. 2 ^ (k + 1) = 2 * 2 ^ k /\ 2 ^ k \in Nat
    BY PowerStep, PowerType
  <2> QED
    BY <2>1
<1>3. Nat \subseteq T
  <2> HIDE DEF T
  <2> QED
    BY <1>1, <1>2, NatSetInduction
<1> QED
  BY <1>3
=============================================================================
