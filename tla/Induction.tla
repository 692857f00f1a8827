------------------------------ MODULE Induction ------------------------------
(***************************************************************************)
(* Induction over numbers with a set in the place of the predicate.  An    *)
(* inductive set that missed a number m would be mapped into itself, up to *)
(* m, by n |-> n + 1, which never yields 0: one pigeon more than holes.    *)
(***************************************************************************)
EXTENDS Integers, Sequences, FiniteSets, SequenceTheorems, FiniteSetTheorems, TLAPS

LEMMA SetInduction ==
  ASSUME NEW S \in SUBSET Nat, 0 \in S, \A n \in S : n + 1 \in S
  PROVE  S = Nat
<1> SUFFICES ASSUME NEW m \in Nat, m \notin S PROVE FALSE
  OBVIOUS
<1> DEFINE B == S \cap (0..m)
           f == [n \in B |-> n + 1]
<1>1. IsFiniteSet(B) /\ 0 \in B
  <2>1. IsFiniteSet(0..m) /\ 0 \in 0..m
    BY FS_Interval
  <2>2. B \in SUBSET (0..m)
    OBVIOUS
  <2> QED BY <2>1, <2>2, FS_Subset
<1>2. \A n \in B : n + 1 \in B \ {0}
  OBVIOUS
<1>3. f \in [B -> B \ {0}]
  BY <1>2
<1>4. IsFiniteSet(B \ {0}) /\ Cardinality(B \ {0}) = Cardinality(B) - 1
  BY <1>1, FS_RemoveElement
<1>5. Cardinality(B) \in Nat
  BY <1>1, FS_CardinalityType
<1>6. \A x, y \in B : f[x] = f[y] => x = y
  OBVIOUS
<1> HIDE DEF B, f
<1>7. \E x, y \in B : x # y /\ f[x] = f[y]
  BY <1>1, <1>3, <1>4, <1>5, FS_PigeonHole
<1> QED BY <1>6, <1>7

\* A set of numbers that is not empty has a least one.
LEMMA LeastNumber ==
  ASSUME NEW T \in SUBSET Nat, T # {}
  PROVE  \E m \in T : \A k \in T : m <= k
<1> SUFFICES ASSUME \A m \in T : \E k \in T : k < m PROVE FALSE
  OBVIOUS
<1> DEFINE S == {n \in Nat : \A k \in T : n <= k}
<1>1. \A n \in S : n + 1 \in S
  OBVIOUS
<1>2. 0 \in S /\ S \in SUBSET Nat
  OBVIOUS
<1>3. S = Nat
  <2> HIDE DEF S
  <2> QED BY <1>1, <1>2, SetInduction
<1>4. PICK m \in T : TRUE
  OBVIOUS
<1>5. m + 1 \in S
  BY <1>3
<1> QED BY <1>5
=============================================================================
