------------------------------ MODULE SumTheorems ------------------------------
(***************************************************************************)
(* Sums over sets of any size of which finitely many elements count.  The  *)
(* facts come from the cardinalities of unions, intervals and products, so *)
(* that they need no induction.                                            *)
(***************************************************************************)
EXTENDS Sums, FiniteSetTheorems, TLAPS

Positive(n) == IF n > 0 THEN n ELSE 0

-----------------------------------------------------------------------------
(* Units *)

\* The units of a set are those of one element and those of the others.
LEMMA UnitsSplit ==
  ASSUME NEW S, NEW w, NEW x \in S
  PROVE  /\ Units(S, w) = Units(S \ {x}, w) \cup ({x} \X (1..w[x]))
         /\ Units(S \ {x}, w) \cap ({x} \X (1..w[x])) = {}
BY DEF Units

\* One element of weight n has n units, or none.
LEMMA UnitsOfOne ==
  ASSUME NEW x, NEW n \in Int
  PROVE  IsFiniteSet({x} \X (1..n)) /\ Cardinality({x} \X (1..n)) = Positive(n)
<1>1. IsFiniteSet({x}) /\ Cardinality({x}) = 1
  BY FS_Singleton
<1>2. IsFiniteSet(1..n) /\ Cardinality(1..n) = Positive(n)
  BY FS_Interval DEF Positive
<1>3. IsFiniteSet({x} \X (1..n)) /\ Cardinality({x} \X (1..n)) = 1 * Positive(n)
  BY <1>1, <1>2, FS_Product, ZenonT(30)
<1>4. Positive(n) \in Int
  BY DEF Positive
<1> QED
  BY <1>3, <1>4

\* An element adds its weight, if that is positive.
LEMMA UnitsCount ==
  ASSUME NEW S, NEW w \in [S -> Int], NEW x \in S, IsFiniteSet(Units(S \ {x}, w))
  PROVE  /\ IsFiniteSet(Units(S, w))
         /\ Cardinality(Units(S, w)) = Cardinality(Units(S \ {x}, w)) + Positive(w[x])
<1> DEFINE one  == {x} \X (1..w[x])
           rest == Units(S \ {x}, w)
<1>1. IsFiniteSet(one) /\ Cardinality(one) = Positive(w[x])
  BY UnitsOfOne
<1>2. Units(S, w) = rest \cup one /\ rest \cap one = {}
  BY UnitsSplit
<1>3. IsFiniteSet(rest \cup one)
      /\ Cardinality(rest \cup one) = Cardinality(rest) + Cardinality(one)
                                        - Cardinality(rest \cap one)
  <2> HIDE DEF one, rest
  <2> QED
    BY <1>1, FS_Union, Zenon DEF rest
<1>4. Cardinality(rest) \in Nat
  BY FS_CardinalityType
<1>5. Positive(w[x]) \in Int
  BY DEF Positive
<1>6. Cardinality(rest \cap one) = 0
  <2> HIDE DEF one, rest
  <2> QED
    BY <1>2, FS_EmptySet
<1>7. IsFiniteSet(Units(S, w)) /\ Cardinality(Units(S, w)) = Cardinality(rest \cup one)
  <2> HIDE DEF one, rest
  <2> QED
    BY <1>2, <1>3
<1>8. Cardinality(Units(S, w)) = Cardinality(rest) + Positive(w[x])
  <2> HIDE DEF one, rest
  <2> QED
    BY <1>1, <1>3, <1>4, <1>5, <1>6, <1>7
<1> QED
  BY <1>7, <1>8

\* Where nothing weighs, there is no unit.
LEMMA NoUnits ==
  ASSUME NEW S, NEW w \in [S -> Int], \A x \in S : w[x] <= 0
  PROVE  Units(S, w) = {}
BY DEF Units

\* Weights that agree on a set have the same units there.
LEMMA SameUnits ==
  ASSUME NEW S, NEW w, NEW v, \A x \in S : w[x] = v[x]
  PROVE  Units(S, w) = Units(S, v)
BY DEF Units

\* Units of a part are units of the whole, if every element of it weighs as much.
LEMMA MoreUnits ==
  ASSUME NEW S, NEW w \in [S -> Int], NEW T \in SUBSET S, NEW v \in [S -> Int],
         \A x \in T : v[x] <= w[x]
  PROVE  Units(T, v) \subseteq Units(S, w)
<1> SUFFICES ASSUME NEW x \in T, NEW n \in 1..v[x]
             PROVE  <<x, n>> \in Units(S, w)
  BY DEF Units
<1>1. n \in 1..w[x]
  OBVIOUS
<1> QED
  BY <1>1 DEF Units

-----------------------------------------------------------------------------
(* Totals *)

\* Nothing adds up to 0.
LEMMA TotalZero ==
  ASSUME NEW S, NEW w \in [S -> Int], \A x \in S : w[x] = 0
  PROVE  Summable(S, w) /\ Total(S, w) = 0
<1>1. Units(S, w) = {}
  BY NoUnits
<1>2. Negated(S, w) \in [S -> Int] /\ \A x \in S : Negated(S, w)[x] <= 0
  BY DEF Negated
<1>3. Units(S, Negated(S, w)) = {}
  <2> HIDE DEF Negated
  <2> QED
    BY <1>2, NoUnits
<1> QED
  BY <1>1, <1>3, FS_EmptySet DEF Summable, Total

\* A sum is a whole number.
LEMMA TotalType ==
  ASSUME NEW S, NEW w, Summable(S, w)
  PROVE  Total(S, w) \in Int
<1>1. Cardinality(Units(S, w)) \in Nat /\ Cardinality(Units(S, Negated(S, w))) \in Nat
  BY FS_CardinalityType DEF Summable
<1> QED
  BY <1>1 DEF Total

\* When one weight changes, the sum changes by as much.
LEMMA TotalChange ==
  ASSUME NEW S, NEW w \in [S -> Int], NEW v \in [S -> Int], NEW x \in S,
         \A y \in S \ {x} : v[y] = w[y],
         Summable(S, w)
  PROVE  Summable(S, v) /\ Total(S, v) = Total(S, w) + v[x] - w[x]
<1> DEFINE nw == Negated(S, w)
           nv == Negated(S, v)
           R  == S \ {x}
<1>1. /\ nw \in [S -> Int] /\ nv \in [S -> Int] /\ nw[x] = - w[x] /\ nv[x] = - v[x]
      /\ \A y \in R : nv[y] = nw[y]
  BY DEF Negated
<1> HIDE DEF nw, nv
<1>2. Units(R, v) = Units(R, w) /\ Units(R, nv) = Units(R, nw)
  BY <1>1, SameUnits
<1>3. Units(R, w) \subseteq Units(S, w) /\ Units(R, nw) \subseteq Units(S, nw)
  BY UnitsSplit
<1>4. IsFiniteSet(Units(S, w)) /\ IsFiniteSet(Units(S, nw))
  BY DEF Summable, nw
<1>5. IsFiniteSet(Units(R, w)) /\ IsFiniteSet(Units(R, nw))
  BY <1>3, <1>4, FS_Subset
<1>6. /\ Cardinality(Units(S, w)) = Cardinality(Units(R, w)) + Positive(w[x])
      /\ Cardinality(Units(S, nw)) = Cardinality(Units(R, nw)) + Positive(nw[x])
  BY <1>1, <1>5, UnitsCount
<1>7. /\ IsFiniteSet(Units(S, v)) /\ IsFiniteSet(Units(S, nv))
      /\ Cardinality(Units(S, v)) = Cardinality(Units(R, w)) + Positive(v[x])
      /\ Cardinality(Units(S, nv)) = Cardinality(Units(R, nw)) + Positive(nv[x])
  BY <1>1, <1>2, <1>5, UnitsCount
<1>8. Cardinality(Units(R, w)) \in Nat /\ Cardinality(Units(R, nw)) \in Nat
  BY <1>5, FS_CardinalityType
<1>9. w[x] = Positive(w[x]) - Positive(nw[x]) /\ v[x] = Positive(v[x]) - Positive(nv[x])
  BY <1>1 DEF Positive
<1>10. /\ w[x] \in Int /\ v[x] \in Int /\ Positive(w[x]) \in Int /\ Positive(nw[x]) \in Int
       /\ Positive(v[x]) \in Int /\ Positive(nv[x]) \in Int
  BY <1>1 DEF Positive
<1>11. Summable(S, v)
  BY <1>7 DEF Summable, nv
<1>12. /\ Total(S, w) = Cardinality(Units(S, w)) - Cardinality(Units(S, nw))
       /\ Total(S, v) = Cardinality(Units(S, v)) - Cardinality(Units(S, nv))
  BY DEF Total, nw, nv
<1> HIDE DEF R
<1> QED
  BY <1>6, <1>7, <1>8, <1>9, <1>10, <1>11, <1>12

\* Weights none of which is negative add up to the number of their units.
LEMMA TotalOfNaturals ==
  ASSUME NEW S, NEW w \in [S -> Int], \A x \in S : w[x] >= 0, Summable(S, w)
  PROVE  /\ Total(S, w) = Cardinality(Units(S, w))
         /\ Total(S, w) \in Nat
<1>1. Negated(S, w) \in [S -> Int] /\ \A x \in S : Negated(S, w)[x] <= 0
  BY DEF Negated
<1>2. Units(S, Negated(S, w)) = {}
  <2> HIDE DEF Negated
  <2> QED
    BY <1>1, NoUnits
<1>3. Cardinality(Units(S, w)) \in Nat
  BY FS_CardinalityType DEF Summable
<1> QED
  BY <1>2, <1>3, FS_EmptySet DEF Total

\* The units of a part are at most the sum of the whole.
LEMMA PartOfTotal ==
  ASSUME NEW S, NEW w \in [S -> Int], \A x \in S : w[x] >= 0, Summable(S, w),
         NEW T \in SUBSET S, NEW v \in [S -> Int], \A x \in T : v[x] <= w[x]
  PROVE  /\ IsFiniteSet(Units(T, v))
         /\ Cardinality(Units(T, v)) <= Total(S, w)
<1>1. Units(T, v) \subseteq Units(S, w)
  BY MoreUnits
<1>2. IsFiniteSet(Units(S, w))
  BY DEF Summable
<1>3. IsFiniteSet(Units(T, v)) /\ Cardinality(Units(T, v)) <= Cardinality(Units(S, w))
  BY <1>1, <1>2, FS_Subset
<1> QED
  BY <1>3, TotalOfNaturals
=============================================================================
