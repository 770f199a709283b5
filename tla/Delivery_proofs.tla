-------------------------- MODULE Delivery_proofs --------------------------
(* Safety of Delivery for every set of orders, routes and couriers.        *)
EXTENDS Delivery, TLAPS

(* A participation is a pair of a route and an order in every proof below. *)
USE DEF Part

(* Completing a route inside another operation gives it a legal state.     *)
LEMMA CompleteTypeOK ==
  ASSUME TypeOK, NEW r \in Route, CompleteIfAllResolved(r)
  PROVE  routeState' \in [Route -> RouteState]
BY DEF TypeOK, CompleteIfAllResolved, Transition, RouteState

LEMMA RouteStepTypeOK ==
  ASSUME TypeOK, RouteStep
  PROVE  TypeOK'
<1>1. PICK r \in Route :
        \/ \E orders \in SUBSET Order, c \in Courier \cup {None} : CreateSheet(r, orders, c)
        \/ \E c \in Courier \cup {None} : SetCourier(r, c)
        \/ CancelRoute(r)
        \/ ShipManually(r)
        \/ ShipRoute(r)
        \/ CancelShipmentWhole(r)
        \/ CancelShipmentAll(r)
        \/ \E new \in Route : CancelShipmentSplit(r, new)
  BY DEF RouteStep
<1> USE DEF TypeOK, Transition, RouteState, Outcome, routeVars, taskVars, returnVars,
   orderVars
<1>2. CASE \E orders \in SUBSET Order, c \in Courier \cup {None} : CreateSheet(r, orders, c)
  BY <1>2 DEF CreateSheet
<1>3. CASE \E c \in Courier \cup {None} : SetCourier(r, c)
  BY <1>3 DEF SetCourier
<1>4. CASE CancelRoute(r)
  BY <1>4 DEF CancelRoute
<1>5. CASE ShipManually(r)
  BY <1>5 DEF ShipManually
<1>6. CASE ShipRoute(r)
  BY <1>6 DEF ShipRoute
<1>7. CASE CancelShipmentWhole(r)
  BY <1>7 DEF CancelShipmentWhole
<1>8. CASE CancelShipmentAll(r)
  <2>1. result' \in [Part -> Outcome \cup {"none"}]
    BY <1>8 DEF CancelShipmentAll
  <2>2. task' \in [Part -> Decision \cup {"none", "OPEN"}]
    BY <1>8 DEF CancelShipmentAll
  <2>3. orphan' \subseteq Part
    BY <1>8 DEF CancelShipmentAll, Delivered
  <2> QED BY <1>8, <2>1, <2>2, <2>3 DEF CancelShipmentAll
<1>9. CASE \E new \in Route : CancelShipmentSplit(r, new)
  BY <1>9 DEF CancelShipmentSplit, PartsOf
<1> QED BY <1>1, <1>2, <1>3, <1>4, <1>5, <1>6, <1>7, <1>8, <1>9

LEMMA CourierStepTypeOK ==
  ASSUME TypeOK, CourierStep
  PROVE  TypeOK'
<1>1. PICK c \in Courier :
        \/ \E p \in Part : BeginResult(c, p)
        \/ RecordDelivered(c)
        \/ RecordNotDelivered(c)
        \/ RefuseResult(c)
  BY DEF CourierStep
<1> USE DEF TypeOK, Outcome, routeVars, taskVars, returnVars, orderVars
<1>2. CASE \E p \in Part : BeginResult(c, p)
  BY <1>2 DEF BeginResult
<1>3. CASE RecordDelivered(c)
  <2>1. sending[c] \in Part
    BY <1>3 DEF RecordDelivered
  <2>2. routeState' \in [Route -> RouteState]
    BY <1>3, <2>1, CompleteTypeOK DEF RecordDelivered
  <2> QED BY <1>3, <2>1, <2>2 DEF RecordDelivered
<1>4. CASE RecordNotDelivered(c)
  <2>1. sending[c] \in Part
    BY <1>4 DEF RecordNotDelivered, OpenAfterFailedDelivery
  <2>2. routeState' \in [Route -> RouteState]
    BY <1>4, <2>1, CompleteTypeOK DEF RecordNotDelivered, OpenAfterFailedDelivery
  <2> QED BY <1>4, <2>1, <2>2 DEF RecordNotDelivered, OpenAfterFailedDelivery
<1>5. CASE RefuseResult(c)
  BY <1>5 DEF RefuseResult
<1> QED BY <1>1, <1>2, <1>3, <1>4, <1>5

LEMMA PartStepTypeOK ==
  ASSUME TypeOK, PartStep
  PROVE  TypeOK'
<1>1. PICK p \in Part :
        \/ RemoveFromActiveRoute(p)
        \/ CancelDeliveryResult(p)
        \/ MarkReturning(p)
        \/ BeginAcceptReturn(p)
        \/ DecideCancel(p)
        \/ DecideRedeliver(p)
        \/ DecideReassemble(p)
        \/ DecideAcknowledge(p)
  BY DEF PartStep
<1> USE DEF TypeOK, Outcome, Decision, Decide, CloseActiveParticipation,
            routeVars, taskVars, returnVars, orderVars
<1>2. CASE RemoveFromActiveRoute(p)
  <2>1. routeState' \in [Route -> RouteState]
    BY <1>2, CompleteTypeOK DEF RemoveFromActiveRoute
  <2> QED BY <1>2, <2>1 DEF RemoveFromActiveRoute
<1>3. CASE CancelDeliveryResult(p)
  BY <1>3 DEF CancelDeliveryResult, CloseAfterCancelledResult, Transition,
     RouteState
<1>4. CASE MarkReturning(p)
  BY <1>4 DEF MarkReturning
<1>5. CASE BeginAcceptReturn(p)
  BY <1>5 DEF BeginAcceptReturn
<1>6. CASE DecideCancel(p)
  BY <1>6 DEF DecideCancel
<1>7. CASE DecideRedeliver(p)
  BY <1>7 DEF DecideRedeliver
<1>8. CASE DecideReassemble(p)
  BY <1>8 DEF DecideReassemble
<1>9. CASE DecideAcknowledge(p)
  BY <1>9 DEF DecideAcknowledge
<1> QED BY <1>1, <1>2, <1>3, <1>4, <1>5, <1>6, <1>7, <1>8, <1>9

LEMMA WarehouseStepTypeOK ==
  ASSUME TypeOK, WarehouseStep
  PROVE  TypeOK'
<1> USE DEF TypeOK, routeVars, taskVars, returnVars, orderVars
<1>1. CASE \E o \in Order : ReceiveOrder(o)
  BY <1>1 DEF ReceiveOrder
<1>2. CASE FinishAcceptReturn
  BY <1>2 DEF FinishAcceptReturn
<1> QED BY <1>1, <1>2 DEF WarehouseStep

LEMMA ImportStepTypeOK ==
  ASSUME TypeOK, ImportStep
  PROVE  TypeOK'
<1> USE DEF TypeOK, Decision, routeVars, taskVars, returnVars, orderVars
<1>1. PICK o \in Order : CancelInSource(o) \/ WithdrawCancellation(o)
  BY DEF ImportStep
<1>2. CASE CancelInSource(o)
  BY <1>2 DEF CancelInSource, OpenCorrectionTaskIfDelivered
<1>3. CASE WithdrawCancellation(o)
  BY <1>3 DEF WithdrawCancellation
<1> QED BY <1>1, <1>2, <1>3

(* Every reachable state of the delivery module is well formed.            *)
THEOREM TypeCorrect == Spec => []TypeOK
<1>1. Init => TypeOK
  BY DEF Init, TypeOK, RouteState, Outcome, Decision
<1>2. TypeOK /\ [Next]_vars => TypeOK'
  <2>1. ASSUME TypeOK, UNCHANGED vars PROVE TypeOK'
    BY <2>1 DEF TypeOK, vars
  <2> QED
    BY <2>1, RouteStepTypeOK, CourierStepTypeOK, PartStepTypeOK, WarehouseStepTypeOK,
       ImportStepTypeOK DEF Next
<1> QED BY <1>1, <1>2, PTL DEF Spec
-----------------------------------------------------------------------------
(* One bouquet, one courier                                                *)

(* Every operation but two only closes participations.                     *)
LEMMA OpenOnlyShrinks ==
  ASSUME TypeOK, [Next]_vars,
         ~ \E r \in Route, orders \in SUBSET Order, c \in Courier \cup {None} :
             CreateSheet(r, orders, c),
         ~ \E r, new \in Route : CancelShipmentSplit(r, new)
  PROVE  open' \subseteq open
<1>1. CASE UNCHANGED vars
  BY <1>1 DEF vars
<1>2. CASE RouteStep
  BY <1>2 DEF RouteStep, SetCourier, CancelRoute, ShipManually, ShipRoute,
              CancelShipmentWhole, CancelShipmentAll
<1>3. CASE CourierStep
  BY <1>3 DEF CourierStep, BeginResult, RecordDelivered, RecordNotDelivered,
     OpenAfterFailedDelivery, RefuseResult
<1>4. CASE PartStep
  BY <1>4 DEF PartStep, RemoveFromActiveRoute, CancelDeliveryResult,
     CloseAfterCancelledResult, MarkReturning,
              BeginAcceptReturn, DecideCancel, DecideRedeliver, DecideReassemble, DecideAcknowledge,
              CloseActiveParticipation
<1>5. CASE WarehouseStep
  BY <1>5 DEF WarehouseStep, ReceiveOrder, FinishAcceptReturn
<1>6. CASE ImportStep
  BY <1>6 DEF ImportStep, CancelInSource, WithdrawCancellation
<1> QED BY <1>1, <1>2, <1>3, <1>4, <1>5, <1>6 DEF Next

LEMMA OnePromiseStep ==
  ASSUME TypeOK, OnePromise, [Next]_vars
  PROVE  OnePromise'
<1>1. CASE \E r \in Route, orders \in SUBSET Order, c \in Courier \cup {None} :
             CreateSheet(r, orders, c)
  <2>1. PICK r \in Route, orders \in SUBSET Order, c \in Courier \cup {None} :
               CreateSheet(r, orders, c)
    BY <1>1
  <2>2. SUFFICES ASSUME NEW p \in open', NEW q \in open', p[2] = q[2]
                 PROVE  p = q
    BY DEF OnePromise
  <2>3. /\ p \in open \/ p \in {r} \X orders
        /\ q \in open \/ q \in {r} \X orders
    BY <2>1 DEF CreateSheet
  <2>4. \A o \in orders : \A s \in open : s[2] # o
    BY <2>1 DEF CreateSheet, PartsOfOrder
  <2>5. CASE p \in open /\ q \in open
    BY <2>2, <2>5 DEF OnePromise
  <2>6. CASE p \in {r} \X orders /\ q \in {r} \X orders
    BY <2>2, <2>6
  <2> QED BY <2>2, <2>3, <2>4, <2>5, <2>6
<1>2. CASE \E r, new \in Route : CancelShipmentSplit(r, new)
  <2>1. PICK r \in Route, new \in Route : CancelShipmentSplit(r, new)
    BY <1>2
  <2> DEFINE unfinished == PartsOf(r) \ Delivered(r)
             moved == {p[2] : p \in unfinished}
  <2>2. open' = (open \ unfinished) \cup ({new} \X moved)
    BY <2>1 DEF CancelShipmentSplit
  <2>3. unfinished \subseteq open
    BY DEF PartsOf
  <2>4. ASSUME NEW p \in open \ unfinished PROVE p[2] \notin moved
    BY <2>3, <2>4 DEF OnePromise
  <2> HIDE DEF unfinished, moved
  <2>5. SUFFICES ASSUME NEW p \in open', NEW q \in open', p[2] = q[2]
                 PROVE  p = q
    BY DEF OnePromise
  <2>6. CASE p \in open \ unfinished /\ q \in open \ unfinished
    BY <2>5, <2>6 DEF OnePromise
  <2>7. CASE p \in {new} \X moved /\ q \in {new} \X moved
    BY <2>5, <2>7
  <2> QED BY <2>2, <2>4, <2>5, <2>6, <2>7
<1>3. CASE open' \subseteq open
  BY <1>3 DEF OnePromise
<1> QED BY <1>1, <1>2, <1>3, OpenOnlyShrinks

(* One bouquet is never promised to two couriers, whatever the number of   *)
(* routes and couriers: RouteOrder_active_order_unique is never violated   *)
(* by the sheets, splits, removals and decisions of the code.              *)
THEOREM OneBouquetOneCourier == Spec => []OnePromise
<1>1. Init => OnePromise
  BY DEF Init, OnePromise
<1>2. TypeOK /\ OnePromise /\ [Next]_vars => OnePromise'
  BY OnePromiseStep
<1> QED BY <1>1, <1>2, TypeCorrect, PTL DEF Spec
-----------------------------------------------------------------------------
(* A failure and its obligations                                           *)

(* The steps of a route leave failures, their tasks and every return as    *)
(* they are; what they take back is delivered, and its open task survives. *)
LEMMA RouteStepKeepsFailures ==
  ASSUME TypeOK, RouteStep
  PROVE  /\ UNCHANGED <<ret, accepted>>
         /\ \/ UNCHANGED <<result, task, orphan>>
            \/ \E taken \in SUBSET Part :
                 /\ \A p \in taken : result[p] = "DELIVERED"
                 /\ result' = [p \in Part |-> IF p \in taken THEN "none" ELSE result[p]]
                 /\ task' = [p \in Part |-> IF p \in taken THEN "none" ELSE task[p]]
                 /\ orphan' = orphan \cup {p \in taken : task[p] = "OPEN"}
<1>1. CASE \E r \in Route : CancelShipmentAll(r)
  <2>1. PICK r \in Route : CancelShipmentAll(r)
    BY <1>1
  <2>2. Delivered(r) \in SUBSET Part /\ \A p \in Delivered(r) : result[p] = "DELIVERED"
    BY DEF Delivered
  <2> QED BY <2>1, <2>2 DEF CancelShipmentAll
<1>2. CASE ~ \E r \in Route : CancelShipmentAll(r)
  BY <1>2 DEF RouteStep, CreateSheet, SetCourier, CancelRoute, ShipManually, ShipRoute,
              CancelShipmentWhole, CancelShipmentSplit, returnVars
<1> QED BY <1>1, <1>2

LEMMA FailureHasObligationsStep ==
  ASSUME TypeOK, FailureHasObligations, [Next]_vars
  PROVE  FailureHasObligations'
<1> USE DEF FailureHasObligations, TypeOK, Outcome, Decision
<1>1. CASE UNCHANGED vars
  BY <1>1 DEF vars
<1>2. CASE RouteStep
  <2>1. CASE UNCHANGED <<result, task, ret>>
    BY <2>1
  <2>2. CASE /\ UNCHANGED ret
             /\ \E taken \in SUBSET Part :
                  /\ \A p \in taken : result[p] = "DELIVERED"
                  /\ result' = [p \in Part |-> IF p \in taken THEN "none" ELSE result[p]]
                  /\ task' = [p \in Part |-> IF p \in taken THEN "none" ELSE task[p]]
    BY <2>2
  <2> QED BY <1>2, <2>1, <2>2, RouteStepKeepsFailures
<1>3. CASE CourierStep
  <2>1. PICK c \in Courier :
          \/ \E p \in Part : BeginResult(c, p)
          \/ RecordDelivered(c)
          \/ RecordNotDelivered(c)
          \/ RefuseResult(c)
    BY <1>3 DEF CourierStep
  <2>2. CASE (\E p \in Part : BeginResult(c, p)) \/ RefuseResult(c)
    BY <2>2 DEF BeginResult, RefuseResult, returnVars
  <2>3. CASE RecordDelivered(c)
    BY <2>3 DEF RecordDelivered, MayRecord, returnVars
  <2>4. CASE RecordNotDelivered(c)
    BY <2>4 DEF RecordNotDelivered, OpenAfterFailedDelivery, MayRecord
  <2> QED BY <2>1, <2>2, <2>3, <2>4
<1>4. CASE PartStep
  <2>1. PICK p \in Part :
          \/ RemoveFromActiveRoute(p)
          \/ CancelDeliveryResult(p)
          \/ MarkReturning(p)
          \/ BeginAcceptReturn(p)
          \/ DecideCancel(p)
          \/ DecideRedeliver(p)
          \/ DecideReassemble(p)
          \/ DecideAcknowledge(p)
    BY <1>4 DEF PartStep
  <2>2. CASE RemoveFromActiveRoute(p) \/ BeginAcceptReturn(p)
    BY <2>2 DEF RemoveFromActiveRoute, BeginAcceptReturn, returnVars
  <2>3. CASE CancelDeliveryResult(p)
    BY <2>3 DEF CancelDeliveryResult, CloseAfterCancelledResult
  <2>4. CASE MarkReturning(p)
    BY <2>4 DEF MarkReturning, taskVars
  <2>5. CASE DecideCancel(p) \/ DecideRedeliver(p) \/ DecideReassemble(p)
          \/ DecideAcknowledge(p)
    BY <2>5 DEF DecideCancel, DecideRedeliver, DecideReassemble, DecideAcknowledge, Decide
  <2> QED BY <2>1, <2>2, <2>3, <2>4, <2>5
<1>5. CASE WarehouseStep
  BY <1>5 DEF WarehouseStep, ReceiveOrder, FinishAcceptReturn, returnVars,
              taskVars
<1>6. CASE ImportStep
  <2>1. PICK o \in Order : CancelInSource(o) \/ WithdrawCancellation(o)
    BY <1>6 DEF ImportStep
  <2>2. CASE CancelInSource(o)
    BY <2>2 DEF CancelInSource, OpenCorrectionTaskIfDelivered
  <2>3. CASE WithdrawCancellation(o)
    BY <2>3 DEF WithdrawCancellation, returnVars
  <2> QED BY <2>1, <2>2, <2>3
<1> QED BY <1>1, <1>2, <1>3, <1>4, <1>5, <1>6 DEF Next

(* A failed order never dissolves with its route, for every number of      *)
(* routes, orders and couriers: while the failure recorded by              *)
(* recordDeliveryResult stands, it has its task and its return, and no     *)
(* task or active return outlives it.                                      *)
THEOREM FailureKeepsObligations == Spec => []FailureHasObligations
<1>1. Init => FailureHasObligations
  BY DEF Init, FailureHasObligations
<1>2. TypeOK /\ FailureHasObligations /\ [Next]_vars => FailureHasObligations'
  BY FailureHasObligationsStep
<1> QED BY <1>1, <1>2, TypeCorrect, PTL DEF Spec

LEMMA OneObligationStep ==
  ASSUME TypeOK, OneObligation, [Next]_vars
  PROVE  OneObligation'
<1> USE DEF TypeOK
<1>1. CASE /\ \A p \in Part : task'[p] = "OPEN" \/ p \in orphan'
                => task[p] = "OPEN" \/ p \in orphan
           /\ \A p \in orphan' : task'[p] # "OPEN"
           /\ \A p \in Part : ret'[p] \in {"WITH_COURIER", "RETURNING"}
                => ret[p] \in {"WITH_COURIER", "RETURNING"}
  BY <1>1 DEF OneObligation, OpenTasks
<1>0. \A p \in orphan : task[p] # "OPEN"
  BY DEF OneObligation
<1>2. CASE UNCHANGED returnVars
  BY <1>0, <1>1, <1>2 DEF returnVars
<1>7. CASE RouteStep
  <2>1. CASE UNCHANGED <<task, orphan, ret>>
    BY <1>0, <1>1, <2>1
  <2>2. CASE /\ UNCHANGED ret
             /\ \E taken \in SUBSET Part :
                  /\ task' = [p \in Part |-> IF p \in taken THEN "none" ELSE task[p]]
                  /\ orphan' = orphan \cup {p \in taken : task[p] = "OPEN"}
    BY <1>0, <1>1, <2>2
  <2> QED BY <1>7, <2>1, <2>2, RouteStepKeepsFailures
<1>3. CASE CourierStep
  <2>1. PICK c \in Courier :
          \/ \E p \in Part : BeginResult(c, p)
          \/ RecordDelivered(c)
          \/ RecordNotDelivered(c)
          \/ RefuseResult(c)
    BY <1>3 DEF CourierStep
  <2>2. CASE RecordNotDelivered(c)
    <3> DEFINE new == sending[c]
    <3>1. /\ new \in Part
          /\ ActiveReturns(new[2]) = {} /\ OpenTasks(new[2]) = {}
          /\ task' = [task EXCEPT ![new] = "OPEN"]
          /\ ret' = [ret EXCEPT ![new] = "WITH_COURIER"]
          /\ orphan' = orphan
      BY <2>2 DEF RecordNotDelivered, OpenAfterFailedDelivery
    <3>2. \A p \in Part \ {new} : /\ task'[p] = task[p] /\ ret'[p] = ret[p]
      BY <3>1
    <3>3. \A p \in Part : p[2] = new[2] =>
             /\ task[p] # "OPEN" /\ p \notin orphan
             /\ ret[p] \notin {"WITH_COURIER", "RETURNING"}
      BY <3>1 DEF ActiveReturns, OpenTasks
    <3> HIDE DEF new
    <3>4. ASSUME NEW p \in orphan' PROVE task'[p] # "OPEN"
      BY <1>0, <3>1, <3>2, <3>3, <3>4
    <3>5. SUFFICES ASSUME NEW p \in Part, NEW q \in Part, p[2] = q[2],
                          \/ /\ task'[p] = "OPEN" \/ p \in orphan'
                             /\ task'[q] = "OPEN" \/ q \in orphan'
                          \/ {ret'[p], ret'[q]} \subseteq {"WITH_COURIER", "RETURNING"}
                   PROVE  p = q
      BY <3>4 DEF OneObligation, OpenTasks
    <3>6. CASE p # new /\ q # new
      <4>1. CASE {ret'[p], ret'[q]} \subseteq {"WITH_COURIER", "RETURNING"}
        BY <3>2, <3>5, <3>6, <4>1 DEF OneObligation
      <4>2. CASE /\ task'[p] = "OPEN" \/ p \in orphan'
                 /\ task'[q] = "OPEN" \/ q \in orphan'
        BY <3>1, <3>2, <3>5, <3>6, <4>2 DEF OneObligation, OpenTasks
      <4> QED BY <3>5, <4>1, <4>2
    <3> QED BY <3>1, <3>2, <3>3, <3>5, <3>6
  <2>3. CASE /\ RecordDelivered(c) \/ RefuseResult(c) \/ \E p \in Part : BeginResult(c, p)
    BY <1>2, <2>3 DEF BeginResult, RecordDelivered, RefuseResult
  <2> QED BY <2>1, <2>2, <2>3
<1>4. CASE PartStep
  <2>1. PICK p \in Part :
          \/ RemoveFromActiveRoute(p)
          \/ CancelDeliveryResult(p)
          \/ MarkReturning(p)
          \/ BeginAcceptReturn(p)
          \/ DecideCancel(p)
          \/ DecideRedeliver(p)
          \/ DecideReassemble(p)
          \/ DecideAcknowledge(p)
    BY <1>4 DEF PartStep
  <2>2. CASE RemoveFromActiveRoute(p) \/ BeginAcceptReturn(p)
    BY <1>2, <2>2 DEF RemoveFromActiveRoute, BeginAcceptReturn
  <2>3. CASE CancelDeliveryResult(p)
    BY <1>0, <1>1, <2>3 DEF CancelDeliveryResult, CloseAfterCancelledResult
  <2>4. CASE MarkReturning(p)
    BY <1>0, <1>1, <2>4 DEF MarkReturning, taskVars
  <2>5. CASE DecideCancel(p) \/ DecideRedeliver(p) \/ DecideReassemble(p)
          \/ DecideAcknowledge(p)
    BY <1>0, <1>1, <2>5 DEF DecideCancel, DecideRedeliver, DecideReassemble, DecideAcknowledge, Decide
  <2> QED BY <2>1, <2>2, <2>3, <2>4, <2>5
<1>5. CASE WarehouseStep
  BY <1>0, <1>1, <1>5 DEF WarehouseStep, ReceiveOrder, FinishAcceptReturn, returnVars,
                          taskVars
<1>6. CASE ImportStep
  <2>1. PICK o \in Order : CancelInSource(o) \/ WithdrawCancellation(o)
    BY <1>6 DEF ImportStep
  <2>2. CASE WithdrawCancellation(o)
    BY <1>2, <2>2 DEF WithdrawCancellation
  <2>3. CASE CancelInSource(o) /\ UNCHANGED task
    BY <1>0, <1>1, <2>3 DEF CancelInSource
  <2>4. CASE CancelInSource(o) /\ ~UNCHANGED task
    <3>1. PICK new \in Part :
            /\ new[2] = o /\ OpenTasks(o) = {}
            /\ task' = [task EXCEPT ![new] = IF @ = "none" THEN "OPEN" ELSE @]
            /\ UNCHANGED <<orphan, ret>>
      BY <2>4 DEF CancelInSource, OpenCorrectionTaskIfDelivered
    <3>2. \A p \in Part \ {new} : task'[p] = task[p]
      BY <3>1
    <3>3. \A p \in Part : p[2] = o => task[p] # "OPEN" /\ p \notin orphan
      BY <3>1 DEF OpenTasks
    <3>4. ASSUME NEW p \in orphan' PROVE task'[p] # "OPEN"
      BY <1>0, <3>1, <3>2, <3>3, <3>4
    <3>5. SUFFICES ASSUME NEW p \in Part, NEW q \in Part, p[2] = q[2],
                          \/ /\ task'[p] = "OPEN" \/ p \in orphan'
                             /\ task'[q] = "OPEN" \/ q \in orphan'
                          \/ {ret'[p], ret'[q]} \subseteq {"WITH_COURIER", "RETURNING"}
                   PROVE  p = q
      BY <3>4 DEF OneObligation, OpenTasks
    <3>6. CASE {ret'[p], ret'[q]} \subseteq {"WITH_COURIER", "RETURNING"}
      BY <3>1, <3>5, <3>6 DEF OneObligation
    <3>7. CASE /\ task'[p] = "OPEN" \/ p \in orphan'
               /\ task'[q] = "OPEN" \/ q \in orphan'
      <4>1. CASE p # new /\ q # new
        <5>1. p \in OpenTasks(p[2]) /\ q \in OpenTasks(p[2])
          BY <3>1, <3>2, <3>5, <3>7, <4>1 DEF OpenTasks
        <5> QED BY <3>5, <5>1 DEF OneObligation
      <4> QED BY <3>1, <3>2, <3>3, <3>5, <3>7, <4>1
    <3> QED BY <3>5, <3>6, <3>7
  <2> QED BY <2>1, <2>2, <2>3, <2>4
<1>8. CASE UNCHANGED vars
  BY <1>2, <1>8 DEF vars, returnVars
<1> QED BY <1>3, <1>4, <1>5, <1>6, <1>7, <1>8 DEF Next

(* However often an order fails on however many routes, one return and one *)
(* task of it are open: a second failure is refused while the first one's  *)
(* box is on the road or its decision is pending.                          *)
THEOREM OneOpenObligation == Spec => []OneObligation
<1>1. Init => OneObligation
  BY DEF Init, OneObligation, OpenTasks
<1>2. TypeOK /\ OneObligation /\ [Next]_vars => OneObligation'
  BY OneObligationStep
<1> QED BY <1>1, <1>2, TypeCorrect, PTL DEF Spec
-----------------------------------------------------------------------------
(* Completion and the cancellation of a shipment                           *)

(* Completing a route inside another operation either leaves every route   *)
(* as it was or completes this ACTIVE one with nothing unresolved on it.   *)
LEMMA CompleteOutcome ==
  ASSUME TypeOK, NEW r \in Route, CompleteIfAllResolved(r)
  PROVE  \/ UNCHANGED routeState
         \/ /\ routeState[r] = "ACTIVE"
            /\ Remaining(r, open', result') = {}
            /\ routeState' = [routeState EXCEPT ![r] = "COMPLETED"]
BY DEF CompleteIfAllResolved, Transition

LEMMA CompletedIsResolvedStep ==
  ASSUME TypeOK, CompletedIsResolved, [Next]_vars
  PROVE  CompletedIsResolved'
<1> USE DEF CompletedIsResolved, TypeOK
<1>1. ASSUME open' \subseteq open, UNCHANGED result,
             \A r \in Route : routeState'[r] = "COMPLETED" => routeState[r] = "COMPLETED"
      PROVE  CompletedIsResolved'
  BY <1>1
<1>2. CASE UNCHANGED vars
  BY <1>2 DEF vars
<1>3. CASE RouteStep
  <2>1. PICK r \in Route :
          \/ \E orders \in SUBSET Order, c \in Courier \cup {None} : CreateSheet(r, orders, c)
          \/ \E c \in Courier \cup {None} : SetCourier(r, c)
          \/ CancelRoute(r)
          \/ ShipManually(r)
          \/ ShipRoute(r)
          \/ CancelShipmentWhole(r)
          \/ CancelShipmentAll(r)
          \/ \E new \in Route : CancelShipmentSplit(r, new)
    BY <1>3 DEF RouteStep
  <2>2. CASE \E orders \in SUBSET Order, c \in Courier \cup {None} : CreateSheet(r, orders, c)
    BY <2>2 DEF CreateSheet
  <2>3. CASE \E c \in Courier \cup {None} : SetCourier(r, c)
    BY <2>3 DEF SetCourier
  <2>4. CASE CancelRoute(r) \/ ShipManually(r) \/ ShipRoute(r) \/ CancelShipmentWhole(r)
    BY <1>1, <2>4 DEF CancelRoute, ShipManually, ShipRoute,
       CancelShipmentWhole, Transition
  <2>5. CASE CancelShipmentAll(r)
    <3>1. /\ routeState' = [routeState EXCEPT ![r] = "CONFIRMED"]
          /\ open' = open
          /\ \A p \in Part : result'[p] = "none" => result[p] = "none" \/ p[1] = r
      BY <2>5 DEF CancelShipmentAll, Transition, Delivered
    <3> QED BY <3>1
  <2>6. CASE \E new \in Route : CancelShipmentSplit(r, new)
    <3>1. PICK new \in Route : CancelShipmentSplit(r, new)
      BY <2>6
    <3> DEFINE unfinished == PartsOf(r) \ Delivered(r)
               moved == {p[2] : p \in unfinished}
    <3>2. /\ open' = (open \ unfinished) \cup ({new} \X moved)
          /\ routeState' = [routeState EXCEPT ![r] = "COMPLETED", ![new] = "CONFIRMED"]
          /\ UNCHANGED result
      BY <3>1 DEF CancelShipmentSplit
    <3>3. \A p \in open \ unfinished : p[1] = r => result[p] = "DELIVERED"
      BY DEF PartsOf, Delivered
    <3> HIDE DEF unfinished, moved
    <3> QED BY <3>2, <3>3
  <2> QED BY <2>1, <2>2, <2>3, <2>4, <2>5, <2>6
<1>4. CASE CourierStep
  <2>1. PICK c \in Courier :
          \/ \E p \in Part : BeginResult(c, p)
          \/ RecordDelivered(c)
          \/ RecordNotDelivered(c)
          \/ RefuseResult(c)
    BY <1>4 DEF CourierStep
  <2>2. CASE (\E p \in Part : BeginResult(c, p)) \/ RefuseResult(c)
    BY <1>1, <2>2 DEF BeginResult, RefuseResult, routeVars
  <2>3. CASE RecordDelivered(c) \/ RecordNotDelivered(c)
    <3> DEFINE s == sending[c]
    <3>1. s \in Part
      BY <2>3 DEF RecordDelivered, RecordNotDelivered, OpenAfterFailedDelivery
    <3>2. \/ UNCHANGED routeState
          \/ /\ routeState[s[1]] = "ACTIVE"
             /\ Remaining(s[1], open', result') = {}
             /\ routeState' = [routeState EXCEPT ![s[1]] = "COMPLETED"]
      BY <2>3, <3>1, CompleteOutcome DEF RecordDelivered, RecordNotDelivered,
         OpenAfterFailedDelivery
    <3>3. /\ open' = open
          /\ \A p \in Part : result'[p] = "none" => result[p] = "none"
      BY <2>3 DEF RecordDelivered, RecordNotDelivered, OpenAfterFailedDelivery
    <3> HIDE DEF s
    <3> QED BY <3>1, <3>2, <3>3 DEF Remaining
  <2> QED BY <2>1, <2>2, <2>3
<1>5. CASE PartStep
  <2>1. PICK p \in Part :
          \/ RemoveFromActiveRoute(p)
          \/ CancelDeliveryResult(p)
          \/ MarkReturning(p)
          \/ BeginAcceptReturn(p)
          \/ DecideCancel(p)
          \/ DecideRedeliver(p)
          \/ DecideReassemble(p)
          \/ DecideAcknowledge(p)
    BY <1>5 DEF PartStep
  <2>2. CASE RemoveFromActiveRoute(p)
    <3>1. \/ UNCHANGED routeState
          \/ /\ Remaining(p[1], open', result') = {}
             /\ routeState' = [routeState EXCEPT ![p[1]] = "COMPLETED"]
      BY <2>2, CompleteOutcome DEF RemoveFromActiveRoute
    <3>2. open' \subseteq open /\ UNCHANGED result
      BY <2>2 DEF RemoveFromActiveRoute
    <3> QED BY <3>1, <3>2 DEF Remaining
  <2>3. CASE CancelDeliveryResult(p)
    BY <2>3 DEF CancelDeliveryResult, CloseAfterCancelledResult, Transition
  <2>4. CASE MarkReturning(p) \/ BeginAcceptReturn(p)
    BY <1>1, <2>4 DEF MarkReturning, BeginAcceptReturn, routeVars
  <2>5. CASE DecideCancel(p) \/ DecideRedeliver(p) \/ DecideReassemble(p)
          \/ DecideAcknowledge(p)
    BY <1>1, <2>5 DEF DecideCancel, DecideRedeliver, DecideReassemble, DecideAcknowledge,
                      CloseActiveParticipation, routeVars
  <2> QED BY <2>1, <2>2, <2>3, <2>4, <2>5
<1>6. CASE WarehouseStep
  BY <1>1, <1>6 DEF WarehouseStep, ReceiveOrder, FinishAcceptReturn, routeVars
<1>7. CASE ImportStep
  BY <1>1, <1>7 DEF ImportStep, CancelInSource, WithdrawCancellation, routeVars
<1> QED BY <1>2, <1>3, <1>4, <1>5, <1>6, <1>7 DEF Next

(* No route is ever completed with an unresolved order on it: removing the *)
(* last open order, splitting a shipment and correcting a result keep      *)
(* completion and the results in step.                                     *)
THEOREM CompletionIsHonest == Spec => []CompletedIsResolved
<1>1. Init => CompletedIsResolved
  BY DEF Init, CompletedIsResolved
<1>2. TypeOK /\ CompletedIsResolved /\ [Next]_vars => CompletedIsResolved'
  BY CompletedIsResolvedStep
<1> QED BY <1>1, <1>2, TypeCorrect, PTL DEF Spec

LEMMA DeliveredOnlyOnShippedStep ==
  ASSUME TypeOK, DeliveredOnlyOnShipped, [Next]_vars
  PROVE  DeliveredOnlyOnShipped'
<1> USE DEF DeliveredOnlyOnShipped, Shipped, TypeOK
<1>1. ASSUME \A p \in Part : result'[p] = "DELIVERED" => result[p] = "DELIVERED",
             UNCHANGED routeState
      PROVE  DeliveredOnlyOnShipped'
  BY <1>1
<1>2. CASE UNCHANGED vars
  BY <1>2 DEF vars
<1>3. CASE RouteStep
  <2>1. PICK r \in Route :
          \/ \E orders \in SUBSET Order, c \in Courier \cup {None} : CreateSheet(r, orders, c)
          \/ \E c \in Courier \cup {None} : SetCourier(r, c)
          \/ CancelRoute(r)
          \/ ShipManually(r)
          \/ ShipRoute(r)
          \/ CancelShipmentWhole(r)
          \/ CancelShipmentAll(r)
          \/ \E new \in Route : CancelShipmentSplit(r, new)
    BY <1>3 DEF RouteStep
  <2>2. CASE \E orders \in SUBSET Order, c \in Courier \cup {None} : CreateSheet(r, orders, c)
    BY <2>2 DEF CreateSheet
  <2>3. CASE \E c \in Courier \cup {None} : SetCourier(r, c)
    BY <2>3 DEF SetCourier
  <2>4. CASE CancelRoute(r)
    BY <2>4 DEF CancelRoute, Transition
  <2>5. CASE ShipManually(r) \/ ShipRoute(r)
    BY <2>5 DEF ShipManually, ShipRoute, Transition
  <2>6. CASE CancelShipmentWhole(r)
    BY <2>6 DEF CancelShipmentWhole, Transition, Delivered
  <2>7. CASE CancelShipmentAll(r)
    BY <2>7 DEF CancelShipmentAll, Transition, Delivered
  <2>8. CASE \E new \in Route : CancelShipmentSplit(r, new)
    BY <2>8 DEF CancelShipmentSplit
  <2> QED BY <2>1, <2>2, <2>3, <2>4, <2>5, <2>6, <2>7, <2>8
<1>4. CASE CourierStep
  <2>1. PICK c \in Courier :
          \/ \E p \in Part : BeginResult(c, p)
          \/ RecordDelivered(c)
          \/ RecordNotDelivered(c)
          \/ RefuseResult(c)
    BY <1>4 DEF CourierStep
  <2>2. CASE (\E p \in Part : BeginResult(c, p)) \/ RefuseResult(c)
    BY <1>1, <2>2 DEF BeginResult, RefuseResult, routeVars
  <2>3. CASE RecordDelivered(c) \/ RecordNotDelivered(c)
    <3> DEFINE s == sending[c]
    <3>1. s \in Part /\ routeState[s[1]] = "ACTIVE"
      BY <2>3 DEF RecordDelivered, RecordNotDelivered,
         OpenAfterFailedDelivery, MayRecord
    <3>2. \/ UNCHANGED routeState
          \/ routeState' = [routeState EXCEPT ![s[1]] = "COMPLETED"]
      BY <2>3, <3>1, CompleteOutcome DEF RecordDelivered, RecordNotDelivered,
         OpenAfterFailedDelivery
    <3>3. \A p \in Part \ {s} : result'[p] = result[p]
      BY <2>3 DEF RecordDelivered, RecordNotDelivered, OpenAfterFailedDelivery
    <3> HIDE DEF s
    <3> QED BY <3>1, <3>2, <3>3
  <2> QED BY <2>1, <2>2, <2>3
<1>5. CASE PartStep
  <2>1. PICK p \in Part :
          \/ RemoveFromActiveRoute(p)
          \/ CancelDeliveryResult(p)
          \/ MarkReturning(p)
          \/ BeginAcceptReturn(p)
          \/ DecideCancel(p)
          \/ DecideRedeliver(p)
          \/ DecideReassemble(p)
          \/ DecideAcknowledge(p)
    BY <1>5 DEF PartStep
  <2>2. CASE RemoveFromActiveRoute(p)
    <3>1. \/ UNCHANGED routeState
          \/ routeState' = [routeState EXCEPT ![p[1]] = "COMPLETED"]
      BY <2>2, CompleteOutcome DEF RemoveFromActiveRoute
    <3> QED BY <2>2, <3>1 DEF RemoveFromActiveRoute
  <2>3. CASE CancelDeliveryResult(p)
    BY <2>3 DEF CancelDeliveryResult, CloseAfterCancelledResult, Transition
  <2>4. CASE MarkReturning(p) \/ BeginAcceptReturn(p)
    BY <1>1, <2>4 DEF MarkReturning, BeginAcceptReturn, routeVars
  <2>5. CASE DecideCancel(p) \/ DecideRedeliver(p) \/ DecideReassemble(p)
          \/ DecideAcknowledge(p)
    BY <1>1, <2>5 DEF DecideCancel, DecideRedeliver, DecideReassemble, DecideAcknowledge, routeVars
  <2> QED BY <2>1, <2>2, <2>3, <2>4, <2>5
<1>6. CASE WarehouseStep
  BY <1>1, <1>6 DEF WarehouseStep, ReceiveOrder, FinishAcceptReturn, routeVars
<1>7. CASE ImportStep
  BY <1>1, <1>7 DEF ImportStep, CancelInSource, WithdrawCancellation, routeVars
<1> QED BY <1>2, <1>3, <1>4, <1>5, <1>6, <1>7 DEF Next

(* No confirmed or cancelled route carries a delivered order: cancelling a *)
(* shipment takes the result back or leaves the order in a completed one.  *)
THEOREM DeliveredStaysShipped == Spec => []DeliveredOnlyOnShipped
<1>1. Init => DeliveredOnlyOnShipped
  BY DEF Init, DeliveredOnlyOnShipped
<1>2. TypeOK /\ DeliveredOnlyOnShipped /\ [Next]_vars => DeliveredOnlyOnShipped'
  BY DeliveredOnlyOnShippedStep
<1> QED BY <1>1, <1>2, TypeCorrect, PTL DEF Spec

-----------------------------------------------------------------------------
(* What a step may never do                                                *)

(* Only the acceptance or the correction of the result ends a return that  *)
(* is with the courier; only the correction changes a decision.  A result  *)
(* recorded anew opens a fresh task: that it overwrites no decision needs  *)
(* FailureHasObligations.                                                  *)
LEMMA ReturnsAndDecisionsStep ==
  ASSUME TypeOK, FailureHasObligations, [Next]_vars, NEW p \in Part
  PROVE  /\ ret[p] \in {"WITH_COURIER", "RETURNING"}
              => \/ ret'[p] \in {"WITH_COURIER", "RETURNING"}
                 \/ ret'[p] = "ACCEPTED" /\ p[2] \in placed'
                 \/ ret'[p] = "none" /\ result'[p] = "none"
         /\ task[p] \in Decision => task'[p] = task[p] \/ result'[p] = "none"
<1> USE DEF TypeOK, Decision
<1>1. CASE UNCHANGED returnVars
  BY <1>1 DEF returnVars
<1>2. CASE UNCHANGED vars \/ RouteStep
  <2>1. CASE UNCHANGED <<task, ret>>
    BY <2>1
  <2>2. CASE /\ UNCHANGED ret
             /\ \E taken \in SUBSET Part :
                  /\ result' = [s \in Part |-> IF s \in taken THEN "none" ELSE result[s]]
                  /\ task' = [s \in Part |-> IF s \in taken THEN "none" ELSE task[s]]
    BY <2>2
  <2> QED BY <1>2, <2>1, <2>2, RouteStepKeepsFailures DEF vars
<1>3. CASE CourierStep
  <2>1. PICK c \in Courier :
          \/ \E s \in Part : BeginResult(c, s)
          \/ RecordDelivered(c)
          \/ RecordNotDelivered(c)
          \/ RefuseResult(c)
    BY <1>3 DEF CourierStep
  <2>2. CASE RecordNotDelivered(c)
    <3> DEFINE s == sending[c]
    <3>1. /\ s \in Part
          /\ task' = [task EXCEPT ![s] = "OPEN"]
          /\ ret' = [ret EXCEPT ![s] = "WITH_COURIER"]
          /\ task[s] = "none"
      BY <2>2 DEF RecordNotDelivered, OpenAfterFailedDelivery, MayRecord,
         FailureHasObligations
    <3> HIDE DEF s
    <3>2. CASE p # s
      BY <3>1, <3>2
    <3> QED BY <3>1, <3>2
  <2> QED BY <1>1, <2>1, <2>2 DEF BeginResult, RecordDelivered, RefuseResult
<1>4. CASE PartStep
  <2>1. PICK s \in Part :
          \/ RemoveFromActiveRoute(s)
          \/ CancelDeliveryResult(s)
          \/ MarkReturning(s)
          \/ BeginAcceptReturn(s)
          \/ DecideCancel(s)
          \/ DecideRedeliver(s)
          \/ DecideReassemble(s)
          \/ DecideAcknowledge(s)
    BY <1>4 DEF PartStep
  <2>2. CASE RemoveFromActiveRoute(s) \/ BeginAcceptReturn(s)
    BY <1>1, <2>2 DEF RemoveFromActiveRoute, BeginAcceptReturn
  <2>3. CASE CancelDeliveryResult(s)
    BY <2>3 DEF CancelDeliveryResult, CloseAfterCancelledResult
  <2>4. CASE MarkReturning(s)
    BY <2>4 DEF MarkReturning, taskVars
  <2>5. CASE DecideCancel(s) \/ DecideRedeliver(s) \/ DecideReassemble(s)
          \/ DecideAcknowledge(s)
    BY <2>5 DEF DecideCancel, DecideRedeliver, DecideReassemble, DecideAcknowledge, Decide
  <2> QED BY <2>1, <2>2, <2>3, <2>4, <2>5
<1>5. CASE WarehouseStep
  BY <1>1, <1>5 DEF WarehouseStep, ReceiveOrder, FinishAcceptReturn, taskVars
<1>6. CASE ImportStep
  <2>1. PICK o \in Order : CancelInSource(o) \/ WithdrawCancellation(o)
    BY <1>6 DEF ImportStep
  <2>2. CASE CancelInSource(o)
    BY <2>2 DEF CancelInSource, OpenCorrectionTaskIfDelivered
  <2>3. CASE WithdrawCancellation(o)
    BY <1>1, <2>3 DEF WithdrawCancellation
  <2> QED BY <2>1, <2>2, <2>3
<1> QED BY <1>2, <1>3, <1>4, <1>5, <1>6 DEF Next

(* No decision, completion, removal or cancellation of a shipment frees a  *)
(* courier from a box: only acceptReturn and cancelDeliveryResult do.      *)
THEOREM CourierIsFreedByAcceptance == Spec => OnlyAcceptanceFrees
<1>1. TypeOK /\ FailureHasObligations /\ [Next]_vars
        => [\A p \in Part :
              ret[p] \in {"WITH_COURIER", "RETURNING"}
                => \/ ret'[p] \in {"WITH_COURIER", "RETURNING"}
                   \/ ret'[p] = "ACCEPTED" /\ p[2] \in placed'
                   \/ ret'[p] = "none" /\ result'[p] = "none"]_vars
  BY ReturnsAndDecisionsStep
<1> QED
  BY <1>1, TypeCorrect, FailureKeepsObligations, PTL DEF Spec, OnlyAcceptanceFrees

(* Two logisticians with the same list open never replace one another's    *)
(* decision: lockPending lets one of them through.                         *)
THEOREM DecisionsAreFinal == Spec => DecisionIsFinal
<1>1. TypeOK /\ FailureHasObligations /\ [Next]_vars
        => [\A p \in Part :
              task[p] \in Decision => task'[p] = task[p] \/ result'[p] = "none"]_vars
  BY ReturnsAndDecisionsStep
<1> QED
  BY <1>1, TypeCorrect, FailureKeepsObligations, PTL DEF Spec, DecisionIsFinal

LEMMA SplitMovesEverythingStep ==
  ASSUME TypeOK, [Next]_vars, NEW p \in open,
         routeState[p[1]] = "ACTIVE", routeState'[p[1]] = "COMPLETED", p \notin open'
  PROVE  \/ \E q \in open' : q[2] = p[2] /\ routeState'[q[1]] = "CONFIRMED"
         \/ /\ open' = open \ {p}
            /\ \A r \in Route \ {p[1]} : routeState'[r] = routeState[r]
<1> USE DEF TypeOK
<1>1. CASE \E s \in Part : RemoveFromActiveRoute(s)
  <2>1. PICK s \in Part : RemoveFromActiveRoute(s)
    BY <1>1
  <2>2. open' = open \ {s} /\ s = p
    BY <2>1 DEF RemoveFromActiveRoute
  <2>3. \/ UNCHANGED routeState
        \/ routeState' = [routeState EXCEPT ![s[1]] = "COMPLETED"]
    BY <2>1, CompleteOutcome DEF RemoveFromActiveRoute
  <2> QED BY <2>2, <2>3
<1>2. CASE \E r, new \in Route : CancelShipmentSplit(r, new)
  <2>1. PICK r \in Route, new \in Route : CancelShipmentSplit(r, new)
    BY <1>2
  <2> DEFINE unfinished == PartsOf(r) \ Delivered(r)
             moved == {s[2] : s \in unfinished}
  <2>2. /\ open' = (open \ unfinished) \cup ({new} \X moved)
        /\ routeState' = [routeState EXCEPT ![r] = "COMPLETED", ![new] = "CONFIRMED"]
    BY <2>1 DEF CancelShipmentSplit
  <2>3. p \in unfinished
    BY <2>2
  <2>4. <<new, p[2]>> \in open'
    BY <2>2, <2>3
  <2>5. routeState'[new] = "CONFIRMED"
    BY <2>2
  <2> QED BY <2>4, <2>5
<1>3. CASE RouteStep /\ ~ \E r, new \in Route : CancelShipmentSplit(r, new)
  BY <1>3 DEF RouteStep, CreateSheet, SetCourier, CancelRoute, ShipManually,
     ShipRoute,
              CancelShipmentWhole, CancelShipmentAll, Transition
<1>4. CASE CourierStep
  BY <1>4 DEF CourierStep, BeginResult, RecordDelivered, RecordNotDelivered,
     OpenAfterFailedDelivery, RefuseResult
<1>5. CASE PartStep /\ ~ \E s \in Part : RemoveFromActiveRoute(s)
  BY <1>5 DEF PartStep, CancelDeliveryResult, CloseAfterCancelledResult,
     MarkReturning, BeginAcceptReturn,
              DecideCancel, DecideRedeliver, DecideReassemble, DecideAcknowledge, routeVars
<1>6. CASE WarehouseStep
  BY <1>6 DEF WarehouseStep, ReceiveOrder, FinishAcceptReturn
<1>7. CASE UNCHANGED vars
  BY <1>7 DEF vars
<1>8. CASE ImportStep
  BY <1>8 DEF ImportStep, CancelInSource, WithdrawCancellation, routeVars
<1> QED BY <1>1, <1>2, <1>3, <1>4, <1>5, <1>6, <1>7, <1>8 DEF Next

(* An order leaves a route that completes only by a removal of its own or  *)
(* together with everything else not delivered, into a new confirmed route *)
(* (splitShippedRoute).                                                    *)
THEOREM NothingIsLeftBehind == Spec => SplitMovesEverything
<1>1. TypeOK /\ [Next]_vars
        => [\A p \in open :
              /\ routeState[p[1]] = "ACTIVE" /\ routeState'[p[1]] = "COMPLETED"
              /\ p \notin open'
              => \/ \E q \in open' : q[2] = p[2] /\ routeState'[q[1]] = "CONFIRMED"
                 \/ /\ open' = open \ {p}
                    /\ \A r \in Route \ {p[1]} : routeState'[r] = routeState[r]]_vars
  BY SplitMovesEverythingStep
<1> QED
  BY <1>1, TypeCorrect, PTL DEF Spec, SplitMovesEverything
-----------------------------------------------------------------------------
(* Refinement of OrderCase                                                 *)

(* A route that is not created yet carries nobody, so the sheet or split   *)
(* that creates it adds to nothing; a debt has its own task, never the     *)
(* orphan that a cancelled shipment leaves of a delivered order.           *)
FreeCarriesNobody == \A p \in open : routeState[p[1]] # "FREE"
DebtIsNoOrphan == Owed \cap orphan = {}

CaseInv ==
  /\ TypeOK /\ OnePromise /\ FailureHasObligations /\ OneObligation
  /\ FreeCarriesNobody /\ DebtIsNoOrphan

LEMMA FreeCarriesNobodyStep ==
  ASSUME TypeOK, FreeCarriesNobody, [Next]_vars
  PROVE  FreeCarriesNobody'
<1> USE DEF FreeCarriesNobody, TypeOK
<1>1. \A r \in Route : routeState[r] # "FREE" => routeState'[r] # "FREE"
  <2>1. CASE UNCHANGED routeState
    BY <2>1
  <2>2. CASE RouteStep
    BY <2>2 DEF RouteStep, CreateSheet, SetCourier, CancelRoute, ShipManually, ShipRoute,
                CancelShipmentWhole, CancelShipmentAll, CancelShipmentSplit, Transition
  <2>3. CASE CourierStep
    BY <2>3 DEF CourierStep, BeginResult, RecordDelivered, RecordNotDelivered,
       OpenAfterFailedDelivery, RefuseResult, CompleteIfAllResolved, Transition, routeVars
  <2>4. CASE PartStep
    BY <2>4 DEF PartStep, RemoveFromActiveRoute, CancelDeliveryResult,
       CloseAfterCancelledResult, MarkReturning, BeginAcceptReturn, DecideCancel,
       DecideRedeliver, DecideReassemble, DecideAcknowledge, CompleteIfAllResolved,
       Transition, routeVars
  <2>5. CASE WarehouseStep \/ ImportStep \/ UNCHANGED vars
    BY <2>1, <2>5 DEF WarehouseStep, ReceiveOrder, FinishAcceptReturn, ImportStep,
       CancelInSource, WithdrawCancellation, routeVars, vars
  <2> QED BY <2>2, <2>3, <2>4, <2>5 DEF Next
<1>2. CASE open' \subseteq open
  BY <1>1, <1>2
<1>3. CASE \E r \in Route, orders \in SUBSET Order, c \in Courier \cup {None} :
             CreateSheet(r, orders, c)
  <2>1. PICK r \in Route, orders \in SUBSET Order, c \in Courier \cup {None} :
          CreateSheet(r, orders, c)
    BY <1>3
  <2>2. open' = open \cup ({r} \X orders) /\ routeState'[r] = "CONFIRMED"
    BY <2>1 DEF CreateSheet
  <2> QED BY <1>1, <2>2
<1>4. CASE \E r, new \in Route : CancelShipmentSplit(r, new)
  <2>1. PICK r \in Route, new \in Route : CancelShipmentSplit(r, new)
    BY <1>4
  <2> DEFINE unfinished == PartsOf(r) \ Delivered(r)
             moved == {p[2] : p \in unfinished}
  <2>2. /\ open' = (open \ unfinished) \cup ({new} \X moved)
        /\ routeState'[new] = "CONFIRMED"
    BY <2>1 DEF CancelShipmentSplit
  <2> HIDE DEF unfinished, moved
  <2> QED BY <1>1, <2>2
<1> QED BY <1>2, <1>3, <1>4, OpenOnlyShrinks

LEMMA DebtIsNoOrphanStep ==
  ASSUME TypeOK, FailureHasObligations, DebtIsNoOrphan, [Next]_vars
  PROVE  DebtIsNoOrphan'
<1> USE DEF DebtIsNoOrphan, Owed, TypeOK
<1>1. CASE orphan' \subseteq orphan /\ Owed' \subseteq Owed
  BY <1>1
<1>2. CASE RouteStep
  <2>1. Owed' = Owed
    BY <1>2, RouteStepKeepsFailures
  <2>2. \A p \in orphan' : p \in orphan \/ result[p] = "DELIVERED"
    BY <1>2, RouteStepKeepsFailures
  <2>3. \A p \in Owed : result[p] = "NOT_DELIVERED"
    BY DEF FailureHasObligations
  <2> QED BY <2>1, <2>2, <2>3
<1>3. CASE CourierStep
  <2>1. PICK c \in Courier :
          \/ \E p \in Part : BeginResult(c, p)
          \/ RecordDelivered(c)
          \/ RecordNotDelivered(c)
          \/ RefuseResult(c)
    BY <1>3 DEF CourierStep
  <2>2. CASE RecordNotDelivered(c)
    BY <2>2 DEF RecordNotDelivered, OpenAfterFailedDelivery, OpenTasks
  <2> QED BY <1>1, <2>1, <2>2 DEF BeginResult, RecordDelivered, RefuseResult,
          returnVars, taskVars
<1>4. CASE PartStep
  BY <1>1, <1>4 DEF PartStep, RemoveFromActiveRoute, CancelDeliveryResult,
     CloseAfterCancelledResult, MarkReturning, BeginAcceptReturn, DecideCancel,
     DecideRedeliver, DecideReassemble, DecideAcknowledge, Decide, returnVars, taskVars
<1>5. CASE WarehouseStep \/ ImportStep \/ UNCHANGED vars
  BY <1>1, <1>5 DEF WarehouseStep, ReceiveOrder, FinishAcceptReturn, ImportStep,
     CancelInSource, WithdrawCancellation, returnVars, taskVars, vars
<1> QED BY <1>2, <1>3, <1>4, <1>5 DEF Next

(* What leaves promises, debts and questions alone is a stutter.           *)
LEMMA CaseStutter ==
  ASSUME UNCHANGED open,
         UNCHANGED returnVars \/ UNCHANGED <<task, orphan, Owed>> \/ UNCHANGED <<Asked, Owed>>
  PROVE  UNCHANGED Case!caseVars
BY DEF Case!caseVars, returnVars, Owed, Asked

LEMMA RouteStepKeepsCase ==
  ASSUME CaseInv, RouteStep
  PROVE  [Case!CaseNext]_(Case!caseVars)
<1> USE DEF CaseInv, TypeOK
<1>1. PICK r \in Route :
        \/ \E orders \in SUBSET Order, c \in Courier \cup {None} : CreateSheet(r, orders, c)
        \/ \E c \in Courier \cup {None} : SetCourier(r, c)
        \/ CancelRoute(r)
        \/ ShipManually(r)
        \/ ShipRoute(r)
        \/ CancelShipmentWhole(r)
        \/ CancelShipmentAll(r)
        \/ \E new \in Route : CancelShipmentSplit(r, new)
  BY DEF RouteStep
<1>2. CASE \E orders \in SUBSET Order, c \in Courier \cup {None} : CreateSheet(r, orders, c)
  <2>1. PICK orders \in SUBSET Order, c \in Courier \cup {None} : CreateSheet(r, orders, c)
    BY <1>2
  <2>2. \A o \in orders : Case!NoneOf(o, open)
    BY <2>1 DEF CreateSheet, PartsOfOrder, Case!NoneOf
  <2>3. UNCHANGED <<Owed, Asked>>
    BY <2>1 DEF CreateSheet, returnVars, Owed, Asked
  <2>4. Case!Take(r, orders)
    BY <2>1, <2>2 DEF CreateSheet, Case!Take
  <2> QED BY <2>3, <2>4 DEF Case!CaseNext, Case!SheetsNext
<1>3. CASE CancelRoute(r)
  <2>1. UNCHANGED <<Owed, Asked>>
    BY <1>3 DEF CancelRoute, returnVars, Owed, Asked
  <2>2. Case!GiveUp(r)
    BY <1>3 DEF CancelRoute, PartsOf, Case!GiveUp, Case!OfRoute
  <2> QED BY <2>1, <2>2 DEF Case!CaseNext, Case!SheetsNext
<1>4. CASE \E new \in Route : CancelShipmentSplit(r, new)
  <2>1. PICK new \in Route : CancelShipmentSplit(r, new)
    BY <1>4
  <2> DEFINE unfinished == PartsOf(r) \ Delivered(r)
             moved == {p[2] : p \in unfinished}
  <2>2. /\ unfinished # {}
        /\ routeState[new] = "FREE"
        /\ open' = (open \ unfinished) \cup ({new} \X moved)
    BY <2>1 DEF CancelShipmentSplit
  <2>3. unfinished = {r} \X moved /\ unfinished \subseteq open /\ moved \subseteq Order
    BY DEF PartsOf
  <2>4. Case!OfRoute(new) = {}
    BY <2>2 DEF FreeCarriesNobody, Case!OfRoute
  <2>5. UNCHANGED <<Owed, Asked>>
    BY <2>1 DEF CancelShipmentSplit, returnVars, Owed, Asked
  <2> HIDE DEF unfinished, moved
  <2>6. Case!Move(r, new, moved)
    BY <2>2, <2>3, <2>4 DEF Case!Move
  <2> QED BY <2>3, <2>5, <2>6 DEF Case!CaseNext, Case!SheetsNext
<1>5. CASE CancelShipmentAll(r)
  <2>1. /\ UNCHANGED <<open, ret>>
        /\ task' = [p \in Part |-> IF p \in Delivered(r) THEN "none" ELSE task[p]]
        /\ orphan' = orphan \cup {p \in Delivered(r) : task[p] = "OPEN"}
    BY <1>5 DEF CancelShipmentAll
  <2>2. UNCHANGED <<Owed, Asked>>
    BY <2>1 DEF Owed, Asked, Delivered
  <2> QED BY <2>1, <2>2, CaseStutter
<1>6. CASE \/ \E c \in Courier \cup {None} : SetCourier(r, c)
           \/ ShipManually(r) \/ ShipRoute(r) \/ CancelShipmentWhole(r)
  <2>1. UNCHANGED open /\ UNCHANGED returnVars
    BY <1>6 DEF SetCourier, ShipManually, ShipRoute, CancelShipmentWhole
  <2> QED BY <2>1, CaseStutter
<1> QED BY <1>1, <1>2, <1>3, <1>4, <1>5, <1>6

LEMMA CourierStepKeepsCase ==
  ASSUME CaseInv, CourierStep
  PROVE  [Case!CaseNext]_(Case!caseVars)
<1>1. PICK c \in Courier :
        \/ \E p \in Part : BeginResult(c, p)
        \/ RecordDelivered(c)
        \/ RecordNotDelivered(c)
        \/ RefuseResult(c)
  BY DEF CourierStep
<1>2. CASE (\E p \in Part : BeginResult(c, p)) \/ RecordDelivered(c) \/ RefuseResult(c)
  <2>1. UNCHANGED open /\ UNCHANGED returnVars
    BY <1>2 DEF BeginResult, RecordDelivered, RefuseResult
  <2> QED BY <2>1, CaseStutter
<1>3. CASE RecordNotDelivered(c)
  <2> DEFINE s == sending[c]
  <2>1. /\ s \in Part
        /\ ActiveReturns(s[2]) = {} /\ OpenTasks(s[2]) = {}
        /\ task' = [task EXCEPT ![s] = "OPEN"]
        /\ ret' = [ret EXCEPT ![s] = "WITH_COURIER"]
        /\ UNCHANGED <<open, orphan>>
    BY <1>3 DEF RecordNotDelivered, OpenAfterFailedDelivery, CaseInv, TypeOK
  <2> HIDE DEF s
  <2>2. Case!NoneOf(s[2], Owed \cup Asked)
    BY <2>1 DEF ActiveReturns, OpenTasks, Owed, Asked, Case!NoneOf
  <2>3. Owed' = Owed \cup {s}
    BY <2>1 DEF Owed, CaseInv, TypeOK
  <2>4. Asked' = Asked \cup {s}
    BY <2>1 DEF Asked, CaseInv, TypeOK
  <2>5. Case!Fail(s)
    BY <2>1, <2>2, <2>3, <2>4 DEF Case!Fail
  <2> QED BY <2>1, <2>5 DEF Case!CaseNext, Case!Attempt
<1> QED BY <1>1, <1>2, <1>3

(* A decision answers the task it closes, an open one or an orphan.        *)
LEMMA DecisionAnswers ==
  ASSUME CaseInv, NEW p \in Part, NEW d \in Decision, Decide(p, d), UNCHANGED ret,
         \/ UNCHANGED open
         \/ CloseActiveParticipation(p[2])
  PROVE  Case!CaseNext
<1> USE DEF CaseInv, TypeOK
<1>1. p \in Asked /\ UNCHANGED Owed
  BY DEF Decide, Asked, Owed
<1>2. Asked' = Asked \ {p}
  <2>1. CASE /\ task[p] = "OPEN"
             /\ task' = [task EXCEPT ![p] = d] /\ UNCHANGED orphan
    <3>1. p \notin orphan
      BY <2>1 DEF OneObligation
    <3>2. task'[p] # "OPEN" /\ \A q \in Part \ {p} : task'[q] = task[q]
      BY <2>1 DEF Decision
    <3> QED BY <2>1, <3>1, <3>2 DEF Asked
  <2>2. CASE p \in orphan /\ orphan' = orphan \ {p} /\ UNCHANGED task
    <3>1. task[p] # "OPEN"
      BY <2>2 DEF OneObligation
    <3> QED BY <2>2, <3>1 DEF Asked
  <2> QED BY <2>1, <2>2 DEF Decide
<1>3. open' \in {open, {q \in open : q[2] # p[2]}}
  BY DEF CloseActiveParticipation, PartsOfOrder
<1>4. Case!Answer(p)
  BY <1>1, <1>2, <1>3 DEF Case!Answer
<1> QED BY <1>4 DEF Case!CaseNext, Case!Attempt

(* Taking a result back ends the debt and the question of its failure, the *)
(* question alone once the bouquet is back, or nothing.                    *)
LEMMA CorrectionKeepsCase ==
  ASSUME CaseInv, NEW p \in Part, CancelDeliveryResult(p)
  PROVE  [Case!CaseNext]_(Case!caseVars)
<1> USE DEF CaseInv, TypeOK
<1>1. /\ UNCHANGED <<open, orphan>>
      /\ task' = [task EXCEPT ![p] = "none"]
      /\ ret' = [ret EXCEPT ![p] = "none"]
  BY DEF CancelDeliveryResult, CloseAfterCancelledResult
<1>2. Owed' = Owed \ {p}
  BY <1>1 DEF Owed
<1>3. p \notin orphan => Asked' = Asked \ {p}
  BY <1>1 DEF Asked
<1>4. CASE p \in Owed
  <2>1. Case!TakeBack(p)
    BY <1>1, <1>2, <1>3, <1>4 DEF DebtIsNoOrphan, Case!TakeBack
  <2> QED BY <2>1 DEF Case!CaseNext, Case!Attempt
<1>5. CASE p \notin Owed /\ task[p] = "OPEN"
  <2>1. p \in Asked /\ p \notin orphan
    BY <1>5 DEF Asked, OneObligation
  <2>2. Case!Answer(p)
    BY <1>1, <1>2, <1>3, <1>5, <2>1 DEF Case!Answer
  <2> QED BY <2>2 DEF Case!CaseNext, Case!Attempt
<1>6. CASE p \notin Owed /\ task[p] # "OPEN"
  <2>1. UNCHANGED Asked
    BY <1>1, <1>6 DEF Asked
  <2> QED BY <1>1, <1>2, <1>6, <2>1, CaseStutter
<1> QED BY <1>4, <1>5, <1>6

LEMMA PartStepKeepsCase ==
  ASSUME CaseInv, PartStep
  PROVE  [Case!CaseNext]_(Case!caseVars)
<1>1. PICK p \in Part :
        \/ RemoveFromActiveRoute(p)
        \/ CancelDeliveryResult(p)
        \/ MarkReturning(p)
        \/ BeginAcceptReturn(p)
        \/ DecideCancel(p)
        \/ DecideRedeliver(p)
        \/ DecideReassemble(p)
        \/ DecideAcknowledge(p)
  BY DEF PartStep
<1>2. CASE RemoveFromActiveRoute(p)
  <2>1. p \in open /\ open' = open \ {p} /\ UNCHANGED <<Owed, Asked>>
    BY <1>2 DEF RemoveFromActiveRoute, returnVars, Owed, Asked
  <2>2. Case!Leave(p)
    BY <2>1 DEF Case!Leave
  <2> QED BY <2>1, <2>2 DEF Case!CaseNext, Case!SheetsNext, Case!Attempt
<1>3. CASE CancelDeliveryResult(p)
  BY <1>3, CorrectionKeepsCase
<1>4. CASE MarkReturning(p)
  <2>1. UNCHANGED <<open, task, orphan, Owed>>
    BY <1>4 DEF MarkReturning, taskVars, Owed, CaseInv, TypeOK
  <2> QED BY <2>1, CaseStutter
<1>5. CASE BeginAcceptReturn(p)
  <2>1. UNCHANGED open /\ UNCHANGED returnVars
    BY <1>5 DEF BeginAcceptReturn
  <2> QED BY <2>1, CaseStutter
<1>6. CASE DecideCancel(p)
  BY <1>6, DecisionAnswers DEF DecideCancel, Decision
<1>7. CASE DecideRedeliver(p)
  BY <1>7, DecisionAnswers DEF DecideRedeliver, Decision
<1>8. CASE DecideReassemble(p)
  BY <1>8, DecisionAnswers DEF DecideReassemble, Decision
<1>9. CASE DecideAcknowledge(p)
  BY <1>9, DecisionAnswers DEF DecideAcknowledge, Decision
<1> QED BY <1>1, <1>2, <1>3, <1>4, <1>5, <1>6, <1>7, <1>8, <1>9

LEMMA WarehouseStepKeepsCase ==
  ASSUME CaseInv, WarehouseStep
  PROVE  [Case!CaseNext]_(Case!caseVars)
<1> USE DEF CaseInv, TypeOK
<1>1. CASE \E o \in Order : ReceiveOrder(o)
  <2>1. UNCHANGED open /\ UNCHANGED returnVars
    BY <1>1 DEF ReceiveOrder
  <2> QED BY <2>1, CaseStutter
<1>2. CASE FinishAcceptReturn
  <2>1. /\ accepting \in Part
        /\ ret' = [ret EXCEPT ![accepting] = "ACCEPTED"]
        /\ UNCHANGED <<open, task, orphan>>
    BY <1>2 DEF FinishAcceptReturn, taskVars
  <2>2. Owed' = Owed \ {accepting} /\ UNCHANGED Asked
    BY <2>1 DEF Owed, Asked
  <2>3. CASE accepting \in Owed
    <3>1. Case!Settle(accepting)
      BY <2>1, <2>2, <2>3 DEF Case!Settle
    <3> QED BY <2>1, <3>1 DEF Case!CaseNext, Case!Attempt
  <2>4. CASE accepting \notin Owed
    BY <2>1, <2>2, <2>4, CaseStutter
  <2> QED BY <2>3, <2>4
<1> QED BY <1>1, <1>2 DEF WarehouseStep

LEMMA ImportStepKeepsCase ==
  ASSUME CaseInv, ImportStep
  PROVE  [Case!CaseNext]_(Case!caseVars)
<1> USE DEF CaseInv, TypeOK
<1>1. PICK o \in Order : CancelInSource(o) \/ WithdrawCancellation(o)
  BY DEF ImportStep
<1>2. CASE CancelInSource(o) /\ UNCHANGED task
  BY <1>2, CaseStutter DEF CancelInSource, returnVars
<1>3. CASE CancelInSource(o) /\ ~UNCHANGED task
  <2>1. PICK p \in Part :
          /\ p[2] = o /\ result[p] = "DELIVERED" /\ OpenTasks(o) = {}
          /\ task' = [task EXCEPT ![p] = IF @ = "none" THEN "OPEN" ELSE @]
          /\ UNCHANGED <<open, orphan, ret>>
    BY <1>3 DEF CancelInSource, OpenCorrectionTaskIfDelivered
  <2>2. Case!NoneOf(p[2], Asked)
    BY <2>1 DEF OpenTasks, Asked, Case!NoneOf
  <2>3. p \notin Owed /\ UNCHANGED Owed
    BY <2>1 DEF FailureHasObligations, Owed
  <2>4. task[p] = "none"
    BY <1>3, <2>1
  <2>5. Asked' = Asked \cup {p}
    BY <2>1, <2>4 DEF Asked
  <2>6. Case!Ask(p)
    BY <2>1, <2>2, <2>3, <2>5 DEF Case!Ask
  <2> QED BY <2>6 DEF Case!CaseNext, Case!Attempt
<1>4. CASE WithdrawCancellation(o)
  <2> DEFINE closed == {p \in PartsOfOrder(o) :
                          result[p] = "none" /\ routeState[p[1]] \in {"CONFIRMED", "ACTIVE"}}
  <2>1. open' = open \ closed /\ UNCHANGED returnVars
    BY <1>4 DEF WithdrawCancellation
  <2>2. closed \subseteq open /\ \A p, q \in closed : p = q
    BY DEF PartsOfOrder, OnePromise
  <2> HIDE DEF closed
  <2>3. CASE closed = {}
    BY <2>1, <2>3, CaseStutter
  <2>4. CASE closed # {}
    <3>1. PICK p \in closed : closed = {p}
      BY <2>2, <2>4
    <3>2. p \in open /\ open' = open \ {p} /\ UNCHANGED <<Owed, Asked>>
      BY <2>1, <2>2, <3>1 DEF returnVars, Owed, Asked
    <3>3. Case!Leave(p)
      BY <3>2 DEF Case!Leave
    <3> QED BY <3>2, <3>3 DEF Case!CaseNext, Case!SheetsNext, Case!Attempt
  <2> QED BY <2>3, <2>4
<1> QED BY <1>1, <1>2, <1>3, <1>4

(* Shipments, results, returns and decisions are together an order's case: *)
(* for every number of routes and couriers each transaction is one step of *)
(* OrderCase or does not concern it, the split of a shipment, the two      *)
(* halves of an acceptance and the orphans of a cancelled one included.    *)
THEOREM OrdersKeepTheirCase == Spec => KeepsCase
<1>1. Init => Case!CaseInit
  BY DEF Init, Owed, Asked, Case!CaseInit
<1>2. Init => FreeCarriesNobody /\ DebtIsNoOrphan
  BY DEF Init, FreeCarriesNobody, DebtIsNoOrphan
<1>3. CaseInv /\ [Next]_vars => FreeCarriesNobody' /\ DebtIsNoOrphan'
  BY FreeCarriesNobodyStep, DebtIsNoOrphanStep DEF CaseInv
<1>4. CaseInv /\ [Next]_vars => [Case!CaseNext]_(Case!caseVars)
  <2>1. CASE UNCHANGED vars
    BY <2>1, CaseStutter DEF vars, returnVars
  <2> QED
    BY <2>1, RouteStepKeepsCase, CourierStepKeepsCase, PartStepKeepsCase,
       WarehouseStepKeepsCase, ImportStepKeepsCase DEF Next
<1> QED
  BY <1>1, <1>2, <1>3, <1>4, TypeCorrect, OneBouquetOneCourier, FailureKeepsObligations,
     OneOpenObligation, PTL DEF Spec, CaseInv, KeepsCase, Case!CaseSpec

(* Of the promises alone: the delivery module keeps sheets as the          *)
(* warehouse's module does (RouteIssue_proofs).  A decision that sends an  *)
(* order out again takes it off the one route it is on.                    *)
THEOREM DeliveryKeepsSheets == Spec => Case!SheetsSpec
<1>1. Case!CaseInit => open = {}
  BY DEF Case!CaseInit
<1>2. TypeOK /\ OnePromise /\ [Case!CaseNext]_(Case!caseVars) => [Case!SheetsNext]_open
  <2> SUFFICES ASSUME TypeOK, OnePromise, Case!CaseNext
               PROVE  [Case!SheetsNext]_open
    BY DEF Case!caseVars
  <2>1. CASE \E p \in Part : Case!Answer(p)
    <3>1. PICK p \in Part : Case!Answer(p)
      BY <2>1
    <3>2. CASE UNCHANGED open
      BY <3>2
    <3>3. CASE open' = {q \in open : q[2] # p[2]} /\ ~UNCHANGED open
      <4>1. PICK q \in open : q[2] = p[2]
        BY <3>3
      <4>2. open' = open \ {q}
        BY <3>3, <4>1 DEF OnePromise
      <4>3. Case!Leave(q)
        BY <4>2 DEF Case!Leave
      <4> QED BY <4>1, <4>3 DEF Case!SheetsNext, Case!Attempt, TypeOK
    <3> QED BY <3>1, <3>2, <3>3 DEF Case!Answer
  <2>2. CASE Case!SheetsNext
    BY <2>2
  <2>3. CASE \E p \in Part : Case!Fail(p) \/ Case!Ask(p) \/ Case!Settle(p) \/ Case!TakeBack(p)
    BY <2>3 DEF Case!Fail, Case!Ask, Case!Settle, Case!TakeBack
  <2> QED BY <2>1, <2>2, <2>3 DEF Case!CaseNext, Case!Attempt
<1> QED
  BY <1>1, <1>2, OrdersKeepTheirCase, TypeCorrect, OneBouquetOneCourier, PTL
     DEF KeepsCase, Case!CaseSpec, Case!SheetsSpec
=============================================================================
