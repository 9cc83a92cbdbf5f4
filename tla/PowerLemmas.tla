------------------------------ MODULE PowerLemmas -----------------------------
(***************************************************************************)
(* Powers of two, as the proofs about the divider and the serial port need *)
(* them.  That exponents add is shown on the numbers of subsets, for want  *)
(* of an induction to rest on.                                             *)
(***************************************************************************)
EXTENDS ArithmeticLemmas, FiniteSetTheorems

\* The subsets of two disjoint sets pair up to the subsets of their union.
LEMMA SubsetPairs ==
    ASSUME NEW S, NEW T, S \cap T = {}
    PROVE  ExistsBijection((SUBSET S) \X (SUBSET T), SUBSET (S \cup T))
<1> DEFINE f == [p \in (SUBSET S) \X (SUBSET T) |-> p[1] \cup p[2]]
<1>1. f \in [(SUBSET S) \X (SUBSET T) -> SUBSET (S \cup T)]
  OBVIOUS
<1>2. ASSUME NEW X \in SUBSET S, NEW Y \in SUBSET T
      PROVE  X = (X \cup Y) \cap S /\ Y = (X \cup Y) \cap T
  OBVIOUS
<1>3. ASSUME NEW p \in (SUBSET S) \X (SUBSET T), NEW q \in (SUBSET S) \X (SUBSET T),
             f[p] = f[q]
      PROVE  p = q
  <2>1. PICK X \in SUBSET S, Y \in SUBSET T : p = <<X, Y>>
    OBVIOUS
  <2>2. PICK U \in SUBSET S, V \in SUBSET T : q = <<U, V>>
    OBVIOUS
  <2>3. X \cup Y = U \cup V
    BY <1>3, <2>1, <2>2
  <2>4. X = U /\ Y = V
    <3>1. X = (X \cup Y) \cap S /\ Y = (X \cup Y) \cap T
      BY <1>2, Zenon
    <3>2. U = (U \cup V) \cap S /\ V = (U \cup V) \cap T
      BY <1>2, Zenon
    <3>3. QED
      BY <2>3, <3>1, <3>2, Zenon
  <2>5. QED
    BY <2>1, <2>2, <2>4
<1>4. ASSUME NEW Z \in SUBSET (S \cup T)
      PROVE  \E p \in (SUBSET S) \X (SUBSET T) : f[p] = Z
  <2>1. Z = (Z \cap S) \cup (Z \cap T)
    OBVIOUS
  <2>2. <<Z \cap S, Z \cap T>> \in (SUBSET S) \X (SUBSET T)
    OBVIOUS
  <2>3. f[<<Z \cap S, Z \cap T>>] = (Z \cap S) \cup (Z \cap T)
    BY <2>2
  <2>4. QED
    BY <2>1, <2>2, <2>3, Zenon
<1> HIDE DEF f
<1>5. f \in Bijection((SUBSET S) \X (SUBSET T), SUBSET (S \cup T))
  <2>1. f \in Injection((SUBSET S) \X (SUBSET T), SUBSET (S \cup T))
    BY <1>1, <1>3, Zenon DEF Injection, IsInjective
  <2>2. f \in Surjection((SUBSET S) \X (SUBSET T), SUBSET (S \cup T))
    BY <1>1, <1>4, Zenon DEF Surjection
  <2>3. QED
    BY <2>1, <2>2, Zenon DEF Bijection
<1>6. QED
  BY <1>5, Zenon DEF ExistsBijection

\* Exponents add.
LEMMA PowerSum ==
    ASSUME NEW m \in Nat, NEW n \in Nat
    PROVE  2^(m + n) = 2^m * 2^n
<1> DEFINE S == 1 .. m
           T == m + 1 .. m + n
<1>1. IsFiniteSet(S) /\ Cardinality(S) = m /\ IsFiniteSet(T) /\ Cardinality(T) = n
  BY FS_Interval
<1>2. S \cap T = {} /\ S \cup T = 1 .. m + n
  <2>1. \A i : ~(i \in S /\ i \in T)
    OBVIOUS
  <2>2. \A i : i \in S \/ i \in T <=> i \in 1 .. m + n
    OBVIOUS
  <2> HIDE DEF S, T
  <2>3. QED
    BY <2>1, <2>2, Zenon
<1>3. IsFiniteSet(1 .. m + n) /\ Cardinality(1 .. m + n) = m + n
  <2>1. PICK k \in Nat : k = m + n
    OBVIOUS
  <2>2. IsFiniteSet(1 .. k) /\ Cardinality(1 .. k) = k
    BY FS_Interval
  <2>3. QED
    BY <2>1, <2>2
<1> HIDE DEF S, T
<1>4. /\ IsFiniteSet(SUBSET S) /\ Cardinality(SUBSET S) = 2^m
      /\ IsFiniteSet(SUBSET T) /\ Cardinality(SUBSET T) = 2^n
      /\ Cardinality(SUBSET (S \cup T)) = 2^(m + n)
  BY <1>1, <1>2, <1>3, FS_SUBSET, Zenon
<1>5. /\ IsFiniteSet((SUBSET S) \X (SUBSET T))
      /\ Cardinality((SUBSET S) \X (SUBSET T)) = 2^m * 2^n
  BY <1>4, FS_Product
<1>6. QED
  BY <1>2, <1>4, <1>5, SubsetPairs, FS_Bijection, Zenon

\* Powers of two are positive.
LEMMA PowerPositive ==
    ASSUME NEW n \in Nat
    PROVE  2^n \in Nat \ {0}
<1>1. IsFiniteSet(1 .. n) /\ Cardinality(1 .. n) = n
  BY FS_Interval
<1>2. IsFiniteSet(SUBSET (1 .. n)) /\ Cardinality(SUBSET (1 .. n)) = 2^n
  BY <1>1, FS_SUBSET, Zenon
<1>3. SUBSET (1 .. n) # {}
  BY Zenon
<1>4. QED
  BY <1>2, <1>3, FS_CardinalityType, FS_EmptySet

===============================================================================
