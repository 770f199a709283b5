----------------------------- MODULE MCDelivery -----------------------------
(* Model-checking instances of Delivery. *)
EXTENDS Delivery, TLC

Symmetry == Permutations(Order) \cup Permutations(Route) \cup Permutations(Courier)

(* Bound of the two-order instance: nothing is in the warehouse, at most   *)
(* two tasks exist, no order is cancelled by the logistician and at most   *)
(* one in the source.  The one-order instance has no such bound.           *)
FewTroubles ==
  /\ placed = {} /\ accepted = {} /\ cancelled = {}
  /\ Cardinality(cancelledInSource) <= 1
  /\ Cardinality({p \in Part : task[p] # "none"}) + Cardinality(orphan) <= 2
=============================================================================
