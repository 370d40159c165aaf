------------------------------ MODULE SumsProofs ------------------------------
(***************************************************************************)
(* What Sums computes, of a finite set.                                    *)
(***************************************************************************)
EXTENDS Sums, FiniteSetTheorems, TLAPS

LEMMA UnitsOfOne ==
  ASSUME NEW x, NEW n \in Nat
  PROVE  IsFiniteSet({x} \X (1..n)) /\ Cardinality({x} \X (1..n)) = n
<1>1. IsFiniteSet({x}) /\ Cardinality({x}) = 1
  BY FS_Singleton
<1>2. IsFiniteSet(1..n) /\ Cardinality(1..n) = n
  <2>1. IsFiniteSet(1..n) /\ Cardinality(1..n) = IF 1 > n THEN 0 ELSE n - 1 + 1
    BY FS_Interval
  <2> QED BY <2>1
<1>3. IsFiniteSet({x} \X (1..n)) /\ Cardinality({x} \X (1..n)) = Cardinality({x}) * Cardinality(1..n)
  BY <1>1, <1>2, FS_Product
<1> QED BY <1>1, <1>2, <1>3

LEMMA UnitsAreFinite ==
  ASSUME NEW D, IsFiniteSet(D), NEW size \in [D -> Nat], NEW S \in SUBSET D
  PROVE  IsFiniteSet(Units(size, S)) /\ Cardinality(Units(size, S)) \in Nat
<1> DEFINE part(x) == {x} \X (1..size[x])
           parts == {part(x) : x \in S}
           f == [x \in S |-> part(x)]
<1>1. IsFiniteSet(S)
  BY FS_Subset
<1>2. f \in Surjection(S, parts)
  BY DEF Surjection
<1>3. IsFiniteSet(parts)
  BY <1>1, <1>2, FS_Surjection
<1>4. \A T \in parts : IsFiniteSet(T)
  <2> SUFFICES ASSUME NEW x \in S PROVE IsFiniteSet(part(x))
    OBVIOUS
  <2>1. size[x] \in Nat
    OBVIOUS
  <2> QED BY <2>1, UnitsOfOne
<1>5. Units(size, S) = UNION parts
  BY DEF Units
<1>6. IsFiniteSet(UNION parts)
  BY <1>3, <1>4, FS_UNION
<1> QED BY <1>5, <1>6, FS_CardinalityType

LEMMA UnitsOfMore ==
  ASSUME NEW D, IsFiniteSet(D), NEW size \in [D -> Nat], NEW S \in SUBSET D, NEW x \in D \ S
  PROVE  Cardinality(Units(size, S \cup {x})) = Cardinality(Units(size, S)) + size[x]
<1> DEFINE A == Units(size, S)
           B == {x} \X (1..size[x])
<1>1. IsFiniteSet(A) /\ Cardinality(A) \in Nat
  BY UnitsAreFinite
<1>2. size[x] \in Nat /\ IsFiniteSet(B) /\ Cardinality(B) = size[x]
  <2>1. size[x] \in Nat
    OBVIOUS
  <2> QED BY <2>1, UnitsOfOne
<1>3. Units(size, S \cup {x}) = A \cup B
  BY DEF Units
<1>4. A \cap B = {}
  BY DEF Units
<1> HIDE DEF A, B
<1>5. Cardinality(A \cup B) = Cardinality(A) + Cardinality(B) - Cardinality(A \cap B)
  BY <1>1, <1>2, FS_Union
<1>6. Cardinality(A \cap B) = 0
  BY <1>4, FS_EmptySet
<1>7. Cardinality(A \cup B) = Cardinality(A) + size[x]
  BY <1>1, <1>2, <1>5, <1>6
<1> QED BY <1>3, <1>7 DEF A

LEMMA UnitsOfFewer ==
  ASSUME NEW D, IsFiniteSet(D), NEW size \in [D -> Nat], NEW T \in SUBSET D, NEW S \in SUBSET T
  PROVE  Cardinality(Units(size, S)) <= Cardinality(Units(size, T))
<1>1. IsFiniteSet(Units(size, T))
  BY UnitsAreFinite
<1>2. Units(size, S) \subseteq Units(size, T)
  BY DEF Units
<1> QED BY <1>1, <1>2, FS_Subset

LEMMA UnitsOfNone ==
  ASSUME NEW size
  PROVE  Cardinality(Units(size, {})) = 0
<1>1. Units(size, {}) = {}
  BY DEF Units
<1> QED BY <1>1, FS_EmptySet

(* The sum of a constant. *)
LEMMA UnitsOfEqual ==
  ASSUME NEW S, IsFiniteSet(S), NEW n \in Nat, NEW size, \A x \in S : size[x] = n
  PROVE  Cardinality(Units(size, S)) = Cardinality(S) * n
<1>1. Units(size, S) = S \X (1..n)
  BY DEF Units
<1>2. IsFiniteSet(1..n) /\ Cardinality(1..n) = n
  <2>1. IsFiniteSet(1..n) /\ Cardinality(1..n) = IF 1 > n THEN 0 ELSE n - 1 + 1
    BY FS_Interval
  <2> QED BY <2>1
<1> QED BY <1>1, <1>2, FS_Product

(* A sum of naturals that are zero outside S is counted in the units of S.   *)
LEMMA TotalOfPart ==
  ASSUME NEW D, IsFiniteSet(D), NEW size \in [D -> Nat], NEW S \in SUBSET D
  PROVE  Total([x \in D |-> IF x \in S THEN size[x] ELSE 0], D) = Cardinality(Units(size, S))
<1> DEFINE all == [x \in D |-> IF x \in S THEN size[x] ELSE 0]
           negated == [x \in D |-> -all[x]]
<1>1. Units(all, D) = Units(size, S)
  <2>1. \A x \in D \ S : 1..all[x] = {}
    OBVIOUS
  <2>2. \A x \in S : 1..all[x] = 1..size[x]
    OBVIOUS
  <2> HIDE DEF all
  <2>3. {{x} \X (1..all[x]) : x \in S} = {{x} \X (1..size[x]) : x \in S}
    BY <2>2
  <2>4. \A x \in D \ S : {x} \X (1..all[x]) = {}
    BY <2>1
  <2>5. UNION {{x} \X (1..all[x]) : x \in D} = UNION {{x} \X (1..all[x]) : x \in S}
    BY <2>4
  <2> QED BY <2>3, <2>5 DEF Units
<1>2. Units(negated, D) = {}
  <2>1. \A x \in D : all[x] \in Nat
    OBVIOUS
  <2> HIDE DEF all
  <2>2. \A x \in D : 1..negated[x] = {}
    BY <2>1
  <2> HIDE DEF negated
  <2> QED BY <2>2 DEF Units
<1>3. Cardinality(Units(size, S)) \in Nat
  BY UnitsAreFinite
<1>4. Total(all, D) = Cardinality(Units(all, D)) - Cardinality(Units(negated, D))
  BY DEF Total
<1>5. Cardinality({}) = 0
  BY FS_EmptySet
<1> HIDE DEF all, negated
<1>6. Total(all, D) = Cardinality(Units(size, S))
  BY <1>1, <1>2, <1>3, <1>4, <1>5
<1> QED BY <1>6 DEF all

=============================================================================
