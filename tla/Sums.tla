--------------------------------- MODULE Sums ---------------------------------
(***************************************************************************)
(* Quantities added up over a set.  A sum of natural numbers is the number *)
(* of units there are when the units of each element are numbered: seats   *)
(* of an order, runs of a delivery.  No definition here models code.       *)
(***************************************************************************)
EXTENDS Integers, FiniteSets

\* The units of w[x] for every x of S; none where w[x] is not positive.
Units(S, w) == UNION {{x} \X (1..w[x]) : x \in S}

Negated(S, w) == [x \in S |-> - w[x]]

\* Finitely many elements have a weight other than 0.
Summable(S, w) == IsFiniteSet(Units(S, w)) /\ IsFiniteSet(Units(S, Negated(S, w)))

\* The sum of the integers w[x] over S: the positive ones less the negative ones.
Total(S, w) == Cardinality(Units(S, w)) - Cardinality(Units(S, Negated(S, w)))
=============================================================================
