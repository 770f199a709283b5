------------------------------- MODULE Sheets -------------------------------
(***************************************************************************)
(* What route sheets promise, however they are made, shipped and taken     *)
(* apart: an order is taken by one route at a time.  It leaves alone, with *)
(* its whole route, or for a route that carried nobody before.             *)
(***************************************************************************)
CONSTANTS Order, Route

(* An attempt: an order on a route. *)
Attempt == Route \X Order

VARIABLE promised \* attempts somebody is to make or has made

OfRoute(r) == {p \in promised : p[1] = r}
NoneOf(o, attempts) == \A p \in attempts : p[2] # o

(* A route takes orders that nobody carries. *)
Take(r, orders) ==
  /\ orders # {} /\ \A o \in orders : NoneOf(o, promised)
  /\ promised' = promised \cup ({r} \X orders)

(* A route passes some of its orders to a new one. *)
Move(r, new, orders) ==
  /\ orders # {} /\ {r} \X orders \subseteq promised /\ OfRoute(new) = {}
  /\ promised' = (promised \ ({r} \X orders)) \cup ({new} \X orders)

Leave(p) == p \in promised /\ promised' = promised \ {p}
GiveUp(r) == promised' = promised \ OfRoute(r)

SheetsNext ==
  \/ \E r \in Route : GiveUp(r)
  \/ \E p \in Attempt : Leave(p)
  \/ \E r \in Route, orders \in SUBSET Order :
       Take(r, orders) \/ \E new \in Route : Move(r, new, orders)

SheetsSpec == promised = {} /\ [][SheetsNext]_promised
=============================================================================
