--------------------------------- MODULE Sums ---------------------------------
(***************************************************************************)
(* Sums over a set, counted in units so that they can be reasoned about    *)
(* with the theorems on cardinalities.                                     *)
(***************************************************************************)
EXTENDS Integers, FiniteSets

Units(size, S) == UNION {{x} \X (1..size[x]) : x \in S}

(* The sum of size[x] over S, whatever the signs. *)
Total(size, S) ==
  Cardinality(Units(size, S)) - Cardinality(Units([x \in S |-> -size[x]], S))

=============================================================================
