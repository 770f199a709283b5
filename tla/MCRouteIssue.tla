---------------------------- MODULE MCRouteIssue ----------------------------
(* Model-checking instances of RouteIssue. *)
EXTENDS RouteIssue, TLC

Symmetry == Permutations(Order) \cup Permutations(Route) \cup Permutations(Cell)
              \cup Permutations(Courier)

(* Bound: at most one order is cancelled, in one of the two ways. *)
OneCancellation == Cardinality(cancelled) + Cardinality(cancelledInSource) <= 1
=============================================================================
