------------------------------- MODULE Counting -------------------------------
(***************************************************************************)
(* Counting what a step adds to a set.                                     *)
(***************************************************************************)
EXTENDS FiniteSetTheorems, TLAPS

\* A set without new elements is not larger, and one with a single new element
\* is larger by one at most.
LEMMA OneMore ==
  ASSUME NEW S, IsFiniteSet(S), NEW T, NEW x, T \subseteq S \cup {x}
  PROVE  /\ IsFiniteSet(T) /\ Cardinality(T) \in Nat /\ Cardinality(S) \in Nat
         /\ Cardinality(T) <= Cardinality(S) + 1
         /\ T \subseteq S => Cardinality(T) <= Cardinality(S)
<1>1. /\ IsFiniteSet(S \cup {x})
      /\ Cardinality(S \cup {x}) = IF x \in S THEN Cardinality(S) ELSE Cardinality(S) + 1
  BY FS_AddElement
<1>2. IsFiniteSet(T) /\ Cardinality(T) <= Cardinality(S \cup {x})
  BY <1>1, FS_Subset
<1>3. Cardinality(S) \in Nat
  BY FS_CardinalityType
<1>4. Cardinality(T) \in Nat
  BY <1>2, FS_CardinalityType
<1>5. T \subseteq S => Cardinality(T) <= Cardinality(S)
  BY FS_Subset
<1> QED
  BY <1>1, <1>2, <1>3, <1>4, <1>5

\* A count that grows only with another one stays below it.
LEMMA Paid ==
  ASSUME NEW S, IsFiniteSet(S), NEW T, NEW n \in Nat, NEW m \in Nat, Cardinality(S) <= n,
         \/ T \subseteq S /\ n <= m
         \/ m = n + 1 /\ \E x : T \subseteq S \cup {x}
  PROVE  IsFiniteSet(T) /\ Cardinality(T) <= m
<1>1. CASE T \subseteq S /\ n <= m
  <2>1. IsFiniteSet(T) /\ Cardinality(T) <= Cardinality(S)
    BY <1>1, FS_Subset
  <2>2. Cardinality(S) \in Nat
    BY FS_CardinalityType
  <2>3. Cardinality(T) \in Nat
    BY <2>1, FS_CardinalityType
  <2> QED
    BY <1>1, <2>1, <2>2, <2>3
<1>2. ASSUME m = n + 1, NEW x, T \subseteq S \cup {x}
      PROVE  IsFiniteSet(T) /\ Cardinality(T) <= m
  <2>1. /\ IsFiniteSet(T) /\ Cardinality(T) \in Nat /\ Cardinality(S) \in Nat
        /\ Cardinality(T) <= Cardinality(S) + 1
    BY <1>2, OneMore
  <2> QED
    BY <1>2, <2>1
<1> QED
  BY <1>1, <1>2

=============================================================================
