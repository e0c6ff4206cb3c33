------------------------------- MODULE Tally -------------------------------
(***************************************************************************)
(* Sums of bounded quantities.                                             *)
(*                                                                         *)
(* A table d gives every owner in its domain a number of units, at most    *)
(* `most'.  Its sum is written as the cardinality of the set of units, one *)
(* pair <<owner, i>> per unit, because cardinality has theorems in the     *)
(* proof library and a fold has none.                                      *)
(***************************************************************************)
EXTENDS Integers, FiniteSets

UnitsOf(d, most) == {u \in (DOMAIN d) \X (1..most) : u[2] <= d[u[1]]}

Tally(d, most) == Cardinality(UnitsOf(d, most))
=============================================================================
