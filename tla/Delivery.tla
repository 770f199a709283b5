------------------------------ MODULE Delivery ------------------------------
(***************************************************************************)
(* The second half of a route's life: a confirmed route sheet is shipped   *)
(* to a courier, the courier reports a result for every order, failed      *)
(* orders come back to the warehouse and the logistician decides what      *)
(* happens to them (modules delivery, returns, routing/lifecycle).         *)
(*                                                                         *)
(* Every operation of the code is one PostgreSQL transaction at READ       *)
(* COMMITTED, so most of them are one step.  Two read a row before they    *)
(* hold the lock that protects it and use the value afterwards; they are   *)
(* two steps here: recordDeliveryResult reads RouteOrder.removedAt before  *)
(* it locks the route (variable sending), acceptReturn holds only the      *)
(* order's lock while cancelDeliveryResult changes the return under the    *)
(* route's lock (variable accepting).                                      *)
(***************************************************************************)
EXTENDS Naturals, FiniteSets

CONSTANTS
  Order,      \* delivery orders
  Route,      \* identifiers of routes; it bounds how many are ever created
  Courier,    \* couriers
  None        \* no courier, no request in flight

ASSUME NoneAssumption == None \notin Courier \cup (Route \X Order)

(* A participation is a RouteOrder row.  A route gets its orders when it   *)
(* is created, so an order joins a given route at most once here.          *)
Part == Route \X Order

VARIABLES
  routeState, \* DeliveryRoute.state
  courier,    \* DeliveryRoute.courierUserId
  issued,     \* routes with boxes issued by the warehouse (issuedOrderIdsForRoute)
  open,       \* participations with removedAt null
  result,     \* outcome of the participation's attempt with an activeKey
  task,       \* OrderResolution of that attempt
  orphan,     \* participations with an open OrderResolution of an earlier attempt
  ret,        \* OrderReturn of that attempt
  accepted,   \* orders with some OrderReturn in state ACCEPTED
  cancelled,  \* orders with cancelledByLogistAt
  cancelledInSource, \* orders with cancelledInSource
  placed,     \* orders with an OrderPlacement whose releasedAt is null
  sending,    \* participation read by a courier's request, lock not yet taken
  accepting   \* return read by the warehouse's request, not yet written

routeVars  == <<routeState, courier, issued>>
taskVars   == <<task, orphan>>
returnVars == <<task, orphan, ret, accepted>>
orderVars  == <<cancelled, cancelledInSource, placed>>
vars == <<routeState, courier, issued, open, result, task, orphan, ret, accepted,
          cancelled, cancelledInSource, placed, sending, accepting>>

RouteState == {"FREE", "CONFIRMED", "ACTIVE", "COMPLETED", "CANCELLED"}
Outcome    == {"DELIVERED", "NOT_DELIVERED"}
Decision   == {"CANCELLED", "REDELIVER_SAME_BOUQUET", "REDELIVER_REASSEMBLE",
               "ACKNOWLEDGED"}

(* CHECK RouteStateTransition_allowed, without the DRAFT pairs: a          *)
(* transaction that inserts any other pair is rolled back.                 *)
AllowedTransition ==
  { <<"CONFIRMED", "ACTIVE">>, <<"ACTIVE", "COMPLETED">>,
    <<"COMPLETED", "ACTIVE">>, <<"ACTIVE", "CONFIRMED">>,
    <<"COMPLETED", "CONFIRMED">>, <<"CONFIRMED", "CANCELLED">> }

TypeOK ==
  /\ routeState \in [Route -> RouteState]
  /\ courier \in [Route -> Courier \cup {None}]
  /\ issued \subseteq Route
  /\ open \subseteq Part
  /\ result \in [Part -> Outcome \cup {"none"}]
  /\ task \in [Part -> Decision \cup {"none", "OPEN"}]
  /\ orphan \subseteq Part
  /\ ret \in [Part -> {"none", "WITH_COURIER", "RETURNING", "ACCEPTED"}]
  /\ accepted \subseteq Order
  /\ cancelled \subseteq Order
  /\ cancelledInSource \subseteq Order
  /\ placed \subseteq Order
  /\ sending \in [Courier -> Part \cup {None}]
  /\ accepting \in Part \cup {None}

Init ==
  /\ routeState = [r \in Route |-> "FREE"]
  /\ courier = [r \in Route |-> None]
  /\ issued = {}
  /\ open = {}
  /\ result = [p \in Part |-> "none"]
  /\ task = [p \in Part |-> "none"]
  /\ orphan = {}
  /\ ret = [p \in Part |-> "none"]
  /\ accepted = {}
  /\ cancelled = {}
  /\ cancelledInSource = {}
  /\ placed = {}
  /\ sending = [c \in Courier |-> None]
  /\ accepting = None

-----------------------------------------------------------------------------
(* Helpers *)

(* Active participations of a route, of an order. *)
PartsOf(r) == {p \in open : p[1] = r}
PartsOfOrderShipped(o) ==   \* mutant: an order of a confirmed sheet looks free
  {p \in open : p[2] = o /\ routeState[p[1]] # "CONFIRMED"}
PartsOfOrder(o) == {p \in open : p[2] = o}

(* remainingOrders: participations of the route still without a result.    *)
Remaining(r, openParts, results) ==
  {p \in openParts : p[1] = r /\ results[p] = "none"}

(* acceptReturn keeps the DeliveryOrder row locked between its two steps:  *)
(* whoever locks, updates or references that row waits.                    *)
OrderLocked(o) == accepting # None /\ accepting[2] = o

(* The unique activeKey of OrderReturn and of OrderResolution.             *)
ActiveReturnsWithCourier(o) ==   \* mutant: markReturning gives the key up
  {p \in Part : p[2] = o /\ ret[p] = "WITH_COURIER"}
ActiveReturns(o) == {p \in Part : p[2] = o /\ ret[p] \in {"WITH_COURIER", "RETURNING"}}
OpenTasksOfResults(o) ==   \* mutant: a result taken back gives the key up
  {p \in Part : p[2] = o /\ task[p] = "OPEN"}
OpenTasks(o) == {p \in Part : p[2] = o /\ (task[p] = "OPEN" \/ p \in orphan)}

(* applyTransition: the row of RouteStateTransition must be an allowed pair. *)
Transition(r, to) ==
  /\ <<routeState[r], to>> \in AllowedTransition
  /\ routeState' = [routeState EXCEPT ![r] = to]

(* completeRoute / completeActiveRouteIfAllResolved, inside the caller's   *)
(* transaction: the last resolved order completes the route.               *)
CompleteIfLastWasOpen(r) ==   \* mutant: counts before the write
  IF routeState[r] = "ACTIVE" /\ Cardinality(Remaining(r, open, result)) <= 1
    THEN Transition(r, "COMPLETED")
    ELSE UNCHANGED routeState
CompleteIfAllResolved(r) ==
  IF routeState[r] = "ACTIVE" /\ Remaining(r, open', result') = {}
    THEN Transition(r, "COMPLETED")
    ELSE UNCHANGED routeState

-----------------------------------------------------------------------------
(* Routing and shipment *)

(* createDraftFromSelection with mode SHEET: the selected free orders      *)
(* become a route that is confirmed in the same transaction.               *)
CreateSheet(r, orders, c) ==
  /\ routeState[r] = "FREE"
  /\ orders # {}
  /\ \A o \in orders : PartsOfOrder(o) = {} /\ ~OrderLocked(o)
  /\ routeState' = [routeState EXCEPT ![r] = "CONFIRMED"]
  /\ courier' = [courier EXCEPT ![r] = c]
  /\ open' = open \cup ({r} \X orders)
  /\ UNCHANGED <<issued, result, returnVars, orderVars, sending, accepting>>

(* setCourier on a confirmed route; assertIssueNotStarted refuses it once  *)
(* boxes of the route were issued.                                         *)
SetCourier(r, c) ==
  /\ routeState[r] = "CONFIRMED"
  /\ r \notin issued
  /\ c # courier[r]
  /\ courier' = [courier EXCEPT ![r] = c]
  /\ UNCHANGED <<routeState, issued, open, result, returnVars, orderVars,
                 sending, accepting>>

(* cancelRoute of a confirmed route: every participation is closed.        *)
CancelRoute(r) ==
  /\ routeState[r] = "CONFIRMED"
  /\ r \notin issued
  /\ \A p \in PartsOf(r) : ~OrderLocked(p[2])
  /\ Transition(r, "CANCELLED")
  /\ open' = open \ PartsOf(r)
  /\ UNCHANGED <<courier, issued, result, returnVars, orderVars, sending, accepting>>

(* shipRouteManually: no boxes are scanned and placements stay as they are. *)
ShipManually(r) ==
  /\ routeState[r] = "CONFIRMED"
  /\ courier[r] # None
  /\ r \notin issued
  /\ Transition(r, "ACTIVE")
  /\ UNCHANGED <<courier, issued, open, result, returnVars, orderVars,
                 sending, accepting>>

(* shipRoute: the whole checked composition leaves the warehouse at once;  *)
(* a cancelled order stops it.  The session and the checks that precede it *)
(* are the subject of module RouteIssue.                                   *)
ShipRoute(r) ==
  /\ routeState[r] = "CONFIRMED"
  /\ courier[r] # None
  /\ PartsOf(r) # {}
  /\ \A p \in PartsOf(r) :
       p[2] \notin cancelled \cup cancelledInSource /\ ~OrderLocked(p[2])
  /\ Transition(r, "ACTIVE")
  /\ issued' = issued \cup {r}
  /\ placed' = placed \ {p[2] : p \in PartsOf(r)}
  /\ UNCHANGED <<courier, open, result, returnVars, cancelled, cancelledInSource,
                 sending, accepting>>

(* receiveOrder: the warehouse scans a box into a cell.                    *)
ReceiveOrder(o) ==
  /\ o \notin placed
  /\ ~OrderLocked(o)
  /\ placed' = placed \cup {o}
  /\ UNCHANGED <<routeVars, open, result, returnVars, cancelled, cancelledInSource,
                 sending, accepting>>

(* removeFromActiveRoute: an order without a result leaves a confirmed or  *)
(* shipped route; the last unresolved one completes a shipped route.       *)
RemoveFromActiveRoute(p) ==
  /\ routeState[p[1]] \in {"CONFIRMED", "ACTIVE"}
  /\ p \in open
  /\ ~OrderLocked(p[2])
  /\ result[p] = "none"
  /\ open' = open \ {p}
  /\ UNCHANGED result
  /\ CompleteIfAllResolved(p[1])
  /\ UNCHANGED <<courier, issued, returnVars, orderVars, sending, accepting>>

-----------------------------------------------------------------------------
(* Cancelling a shipment *)

(* Attempts of the route that are DELIVERED, on any of its participations. *)
Delivered(r) == {p \in Part : p[1] = r /\ result[p] = "DELIVERED"}
Shipped(r) == routeState[r] \in {"ACTIVE", "COMPLETED"}

(* cancelShipment when nothing is delivered, in either mode: failed        *)
(* attempts stay as they are.                                              *)
CancelShipmentWhole(r) ==
  /\ Shipped(r)
  /\ Delivered(r) = {}
  /\ Transition(r, "CONFIRMED")
  /\ UNCHANGED <<courier, issued, open, result, returnVars, orderVars,
                 sending, accepting>>

(* cancelShipment, mode ALL: restoreDeliveredOrders cancels every          *)
(* delivered attempt of the route; an open task of one stays open.         *)
CancelShipmentAll(r) ==
  /\ Shipped(r)
  /\ Delivered(r) # {}
  /\ Transition(r, "CONFIRMED")
  /\ result' = [p \in Part |-> IF p \in Delivered(r) THEN "none" ELSE result[p]]
  /\ task' = [p \in Part |-> IF p \in Delivered(r) THEN "none" ELSE task[p]]
  /\ orphan' = orphan \cup {p \in Delivered(r) : task[p] = "OPEN"}
  /\ UNCHANGED <<courier, issued, open, ret, accepted, orderVars, sending, accepting>>

CancelShipmentSplitDrops(r, new) ==   \* mutant: closes, does not move
  LET unfinished == PartsOf(r) \ Delivered(r) IN
  /\ Shipped(r)
  /\ Delivered(r) # {}
  /\ unfinished # {}
  /\ routeState[new] = "FREE"
  /\ <<routeState[r], "COMPLETED">> \in AllowedTransition
  /\ \A p \in unfinished : ~OrderLocked(p[2])
  /\ routeState' = [routeState EXCEPT ![r] = "COMPLETED", ![new] = "CONFIRMED"]
  /\ courier' = [courier EXCEPT ![new] = courier[r]]
  /\ open' = open \ unfinished
  /\ UNCHANGED <<issued, result, returnVars, orderVars, sending, accepting>>

(* cancelShipment, mode UNFINISHED: splitShippedRoute moves everything not *)
(* delivered to a new confirmed route and completes this one.  From a      *)
(* COMPLETED route the pair COMPLETED/COMPLETED is not allowed, and the    *)
(* whole transaction is rolled back.                                       *)
CancelShipmentSplit(r, new) ==
  LET unfinished == PartsOf(r) \ Delivered(r)
      moved == {p[2] : p \in unfinished}
  IN
  /\ Shipped(r)
  /\ Delivered(r) # {}
  /\ unfinished # {}
  /\ routeState[new] = "FREE"
  /\ <<routeState[r], "COMPLETED">> \in AllowedTransition
  /\ \A o \in moved : ~OrderLocked(o)
  /\ routeState' = [routeState EXCEPT ![r] = "COMPLETED", ![new] = "CONFIRMED"]
  /\ courier' = [courier EXCEPT ![new] = courier[r]]
  /\ open' = (open \ unfinished) \cup ({new} \X moved)
  /\ UNCHANGED <<issued, result, returnVars, orderVars, sending, accepting>>

-----------------------------------------------------------------------------
(* The courier's result *)

(* recordDeliveryResult before its lock: the participation is read and     *)
(* found not removed.  The request comes from the courier's screen, which  *)
(* lists the orders of his ACTIVE routes (listActiveDeliveries).           *)
BeginResult(c, p) ==
  /\ sending[c] = None
  /\ courier[p[1]] = c /\ routeState[p[1]] = "ACTIVE"
  /\ p \in open
  /\ sending' = [sending EXCEPT ![c] = p]
  /\ UNCHANGED <<routeVars, open, result, returnVars, orderVars, accepting>>

(* recordDeliveryResult under the route's lock, the outcome as given.  The *)
(* route, its courier and the existing attempt are read again; removedAt   *)
(* is the value BeginResult saw.                                           *)
MayRecord(c, p) ==
  /\ courier[p[1]] = c
  /\ routeState[p[1]] = "ACTIVE"
  /\ result[p] = "none"

RecordDelivered(c) ==
  LET p == sending[c] IN
  /\ p # None
  /\ MayRecord(c, p)
  /\ ~OrderLocked(p[2])
  /\ result' = [result EXCEPT ![p] = "DELIVERED"]
  /\ UNCHANGED open
  /\ CompleteIfAllResolved(p[1])
  /\ sending' = [sending EXCEPT ![c] = None]
  /\ UNCHANGED <<courier, issued, returnVars, orderVars, accepting>>

(* openAfterFailedDelivery, inside the caller's transaction: a second      *)
(* active task or return of the order is a unique violation.               *)
OpenAfterFailedDelivery(p) ==
  /\ ActiveReturns(p[2]) = {}
  /\ OpenTasks(p[2]) = {}
  /\ task' = [task EXCEPT ![p] = "OPEN"]
  /\ ret' = [ret EXCEPT ![p] = "WITH_COURIER"]
  /\ UNCHANGED orphan

(* The violation rolls the result back, too. *)
RecordNotDelivered(c) ==
  LET p == sending[c] IN
  /\ p # None
  /\ MayRecord(c, p)
  /\ ~OrderLocked(p[2])
  /\ result' = [result EXCEPT ![p] = "NOT_DELIVERED"]
  /\ OpenAfterFailedDelivery(p)
  /\ UNCHANGED open
  /\ CompleteIfAllResolved(p[1])
  /\ sending' = [sending EXCEPT ![c] = None]
  /\ UNCHANGED <<courier, issued, accepted, orderVars, accepting>>

(* The request is refused, or answered with the result already recorded.   *)
RefuseResult(c) ==
  LET p == sending[c] IN
  /\ p # None
  /\ \/ ~MayRecord(c, p)
     \/ ActiveReturns(p[2]) \cup OpenTasks(p[2]) # {}
  /\ sending' = [sending EXCEPT ![c] = None]
  /\ UNCHANGED <<routeVars, open, result, returnVars, orderVars, accepting>>

CancelDeliveryResultAlone(p) ==   \* mutant: closeAfterCancelledResult is not called
  /\ result[p] # "none"
  /\ ret[p] # "ACCEPTED"
  /\ result' = [result EXCEPT ![p] = "none"]
  /\ IF routeState[p[1]] = "COMPLETED"
       THEN Transition(p[1], "ACTIVE")
       ELSE UNCHANGED routeState
  /\ UNCHANGED <<courier, issued, open, returnVars, orderVars, sending, accepting>>

(* closeAfterCancelledResult: the task and the return of the attempt are   *)
(* closed with it; an accepted return refuses.                             *)
CloseAfterCancelledResult(p) ==
  /\ ret[p] # "ACCEPTED"
  /\ task' = [task EXCEPT ![p] = "none"]
  /\ ret' = [ret EXCEPT ![p] = "none"]
  /\ UNCHANGED orphan

(* cancelDeliveryResult, by the courier in the window or by a manager: a   *)
(* COMPLETED route is ACTIVE again.                                        *)
CancelDeliveryResult(p) ==
  /\ result[p] # "none"
  /\ result' = [result EXCEPT ![p] = "none"]
  /\ CloseAfterCancelledResult(p)
  /\ IF routeState[p[1]] = "COMPLETED"
       THEN Transition(p[1], "ACTIVE")
       ELSE UNCHANGED routeState
  /\ UNCHANGED <<courier, issued, open, accepted, orderVars, sending, accepting>>

-----------------------------------------------------------------------------
(* Returns and decisions *)

MarkReturningAccepts(p) ==   \* mutant: the courier accepts his own return
  /\ ret[p] = "WITH_COURIER"
  /\ ret' = [ret EXCEPT ![p] = "ACCEPTED"]
  /\ UNCHANGED <<routeVars, open, result, taskVars, accepted, orderVars,
                 sending, accepting>>

(* markReturning: the courier announces that the box is on its way back.   *)
MarkReturning(p) ==
  /\ ret[p] = "WITH_COURIER"
  /\ ret' = [ret EXCEPT ![p] = "RETURNING"]
  /\ UNCHANGED <<routeVars, open, result, taskVars, accepted, orderVars,
                 sending, accepting>>

(* acceptReturn up to its last read: the order's row is locked, its active *)
(* return is found and no placement is.                                    *)
BeginAcceptReturn(p) ==
  /\ accepting = None
  /\ ret[p] \in {"WITH_COURIER", "RETURNING"}
  /\ p[2] \notin placed
  /\ accepting' = p
  /\ UNCHANGED <<routeVars, open, result, returnVars, orderVars, sending>>

(* acceptReturn writes the placement and the return it read, by its id:    *)
(* the state of that return is not looked at again.                        *)
FinishAcceptReturn ==
  /\ accepting # None
  /\ ret' = [ret EXCEPT ![accepting] = "ACCEPTED"]
  /\ accepted' = accepted \cup {accepting[2]}
  /\ placed' = placed \cup {accepting[2]}
  /\ accepting' = None
  /\ UNCHANGED <<routeVars, open, result, taskVars, cancelled, cancelledInSource,
                 sending>>

DecideAgain(p, decision) ==   \* mutant: lockPending forgets the decided check
  /\ task[p] # "none"
  /\ task' = [task EXCEPT ![p] = decision]
  /\ UNCHANGED orphan

(* lockPending: the task is open and not decided, its kind does not        *)
(* matter; the decision closes it.                                         *)
Decide(p, decision) ==
  \/ /\ task[p] = "OPEN"
     /\ task' = [task EXCEPT ![p] = decision]
     /\ UNCHANGED orphan
  \/ /\ p \in orphan
     /\ orphan' = orphan \ {p}
     /\ UNCHANGED task

(* closeActiveParticipation: every active participation of the order, in   *)
(* whatever route it is now; no route is locked.                           *)
CloseActiveParticipation(o) == open' = open \ PartsOfOrder(o)

DecideCancel(p) ==
  /\ ~OrderLocked(p[2])
  /\ Decide(p, "CANCELLED")
  /\ cancelled' = cancelled \cup {p[2]}
  /\ UNCHANGED <<routeVars, open, result, ret, accepted, cancelledInSource, placed,
                 sending, accepting>>

(* decideRedeliverSameBouquet looks for an accepted return of the order,   *)
(* not of the task.                                                        *)
DecideRedeliver(p) ==
  /\ p[2] \in accepted
  /\ Decide(p, "REDELIVER_SAME_BOUQUET")
  /\ CloseActiveParticipation(p[2])
  /\ UNCHANGED <<routeVars, result, ret, accepted, orderVars, sending, accepting>>

DecideReassemble(p) ==
  /\ ~OrderLocked(p[2])
  /\ Decide(p, "REDELIVER_REASSEMBLE")
  /\ CloseActiveParticipation(p[2])
  /\ UNCHANGED <<routeVars, result, ret, accepted, orderVars, sending, accepting>>

DecideAcknowledge(p) ==
  /\ Decide(p, "ACKNOWLEDGED")
  /\ UNCHANGED <<routeVars, open, result, ret, accepted, orderVars, sending, accepting>>

-----------------------------------------------------------------------------
(* Cancellation in MoySklad; the import holds the order's row locked.      *)

(* openCorrectionTaskIfDelivered: the flowers are with the customer, so    *)
(* the cancellation becomes a task, unless there is one already.           *)
OpenCorrectionTaskIfDelivered(o) ==
  LET delivered == {p \in Part : p[2] = o /\ result[p] = "DELIVERED"} IN
  \/ /\ delivered = {} \/ OpenTasks(o) # {}
     /\ UNCHANGED task
  \/ \E p \in delivered :
       /\ OpenTasks(o) = {}
       /\ task' = [task EXCEPT ![p] = IF @ = "none" THEN "OPEN" ELSE @]

(* applyCancellation, the order's state became "cancelled". *)
CancelInSource(o) ==
  /\ o \notin cancelledInSource
  /\ ~OrderLocked(o)
  /\ cancelledInSource' = cancelledInSource \cup {o}
  /\ OpenCorrectionTaskIfDelivered(o)
  /\ UNCHANGED <<routeVars, open, result, orphan, ret, accepted, cancelled, placed,
                 sending, accepting>>

(* applyCancellation, it is so no more.  returnToUnassigned closes the     *)
(* participation without a result; no route is locked or completed.        *)
WithdrawCancellation(o) ==
  /\ o \in cancelledInSource
  /\ ~OrderLocked(o)
  /\ cancelledInSource' = cancelledInSource \ {o}
  /\ open' = open \ {p \in PartsOfOrder(o) :
                      result[p] = "none" /\ routeState[p[1]] \in {"CONFIRMED", "ACTIVE"}}
  /\ UNCHANGED <<routeVars, result, returnVars, cancelled, placed, sending, accepting>>

-----------------------------------------------------------------------------
RouteStep ==
  \E r \in Route :
    \/ \E orders \in SUBSET Order, c \in Courier \cup {None} : CreateSheet(r, orders, c)
    \/ \E c \in Courier \cup {None} : SetCourier(r, c)
    \/ CancelRoute(r)
    \/ ShipManually(r)
    \/ ShipRoute(r)
    \/ CancelShipmentWhole(r)
    \/ CancelShipmentAll(r)
    \/ \E new \in Route : CancelShipmentSplit(r, new)

CourierStep ==
  \E c \in Courier :
    \/ \E p \in Part : BeginResult(c, p)
    \/ RecordDelivered(c)
    \/ RecordNotDelivered(c)
    \/ RefuseResult(c)

PartStep ==
  \E p \in Part :
    \/ RemoveFromActiveRoute(p)
    \/ CancelDeliveryResult(p)
    \/ MarkReturning(p)
    \/ BeginAcceptReturn(p)
    \/ DecideCancel(p)
    \/ DecideRedeliver(p)
    \/ DecideReassemble(p)
    \/ DecideAcknowledge(p)

WarehouseStep == (\E o \in Order : ReceiveOrder(o)) \/ FinishAcceptReturn

ImportStep == \E o \in Order : CancelInSource(o) \/ WithdrawCancellation(o)

Next == RouteStep \/ CourierStep \/ PartStep \/ WarehouseStep \/ ImportStep

Spec == Init /\ [][Next]_vars

-----------------------------------------------------------------------------
(* Properties the code keeps *)

(* One bouquet is never promised to two couriers: an order has at most one *)
(* active participation, through sheets, splits, decisions and             *)
(* cancellations alike (RouteOrder_active_order_unique).                   *)
OnePromise == \A p, q \in open : p[2] = q[2] => p = q

(* A route is never completed while one of its orders is open, not even    *)
(* after a removal, a split or a corrected result.                         *)
CompletedIsResolved ==
  \A p \in open : routeState[p[1]] = "COMPLETED" => result[p] # "none"

(* A failed order never dissolves with its route: as long as the failure   *)
(* stands it has a task and a return; a return never exists without its    *)
(* failure, and a task never without a result.                             *)
FailureHasObligations ==
  \A p \in Part :
    /\ result[p] = "NOT_DELIVERED" => task[p] # "none" /\ ret[p] # "none"
    /\ task[p] # "none" => result[p] # "none"
    /\ ret[p] \in {"WITH_COURIER", "RETURNING"} => result[p] = "NOT_DELIVERED"

(* However often an order fails on however many routes, it has one active  *)
(* return and one open task, so the warehouse accepts the bouquet the      *)
(* logistician decides about.                                              *)
OneObligation ==
  \A p \in Part :
    /\ p \in orphan => task[p] # "OPEN"
    /\ \A q \in Part :
         /\ p[2] = q[2]
         /\ \/ {p, q} \subseteq OpenTasks(p[2])
            \/ {ret[p], ret[q]} \subseteq {"WITH_COURIER", "RETURNING"}
         => p = q

(* What is confirmed or cancelled carries no delivered order of its own:   *)
(* cancelling a shipment either takes the delivered results back or leaves *)
(* the delivered orders behind in a completed route.                       *)
DeliveredOnlyOnShipped ==
  \A p \in Part : result[p] = "DELIVERED" => Shipped(p[1])

(* Only the warehouse, or the correction of the result itself, frees the   *)
(* courier from a box: no decision, completion, removal or cancellation of *)
(* the shipment does.                                                      *)
OnlyAcceptanceFrees ==
  [][\A p \in Part :
       ret[p] \in {"WITH_COURIER", "RETURNING"}
         => \/ ret'[p] \in {"WITH_COURIER", "RETURNING"}
            \/ ret'[p] = "ACCEPTED" /\ p[2] \in placed'
            \/ ret'[p] = "none" /\ result'[p] = "none"]_vars

(* A decision is taken once: two logisticians with the same list open      *)
(* never replace one another's decision.                                   *)
DecisionIsFinal ==
  [][\A p \in Part :
       task[p] \in Decision => task'[p] = task[p] \/ result'[p] = "none"]_vars

(* An order without a result that leaves a shipped route does so only into *)
(* another route, by a removal that re-examines completion, or by a        *)
(* decision: a split takes every unfinished order along.                   *)
SplitMovesEverything ==
  [][\A p \in open :
       /\ routeState[p[1]] = "ACTIVE" /\ routeState'[p[1]] = "COMPLETED"
       /\ p \notin open'
       => \/ \E q \in open' : q[2] = p[2] /\ routeState'[q[1]] = "CONFIRMED"
          \/ /\ open' = open \ {p}
             /\ \A r \in Route \ {p[1]} : routeState'[r] = routeState[r]]_vars

-----------------------------------------------------------------------------
(* Refinement *)

(* Attempts whose bouquet is not back, attempts that await a decision.     *)
Owed  == {p \in Part : ret[p] \in {"WITH_COURIER", "RETURNING"}}
Asked == {p \in Part : task[p] = "OPEN" \/ p \in orphan}

Case == INSTANCE OrderCase WITH promised <- open, owed <- Owed, asked <- Asked

(* All the operations together keep one promise, one debt and one question *)
(* of an order at a time, and end them only as OrderCase says.             *)
KeepsCase == Case!CaseSpec

-----------------------------------------------------------------------------
(* Statements of the code's own documentation that the code does not keep  *)

(* "A new result: from here on the route and the participation must be     *)
(* live": no result is recorded on a participation that was removed.       *)
ResultOnLiveParticipation ==
  [][\A p \in Part : result[p] = "none" /\ result'[p] # "none" => p \in open]_vars

(* "Available only after the warehouse confirmed it accepted the return":  *)
(* the same bouquet is sent again only when this return was accepted.      *)
RedeliverAfterAcceptance ==
  \A p \in Part : task[p] = "REDELIVER_SAME_BOUQUET" => ret[p] = "ACCEPTED"

(* "If the order taken off was the last unresolved one, the sheet becomes  *)
(* COMPLETED": the step after which no order of a shipped route waits for  *)
(* a result completes it.                                                  *)
LastResolvedCompletes ==
  [][\A r \in Route :
       /\ routeState[r] = "ACTIVE" /\ Remaining(r, open, result) # {}
       /\ Remaining(r, open', result') = {} /\ (\E p \in open' : p[1] = r)
       => routeState'[r] # "ACTIVE"]_vars

(* "The same mechanism", as the correction of one result, "is applied to   *)
(* all results of the sheet": a result that was taken back leaves no open  *)
(* task behind.                                                            *)
NoTaskWithoutResult == orphan = {}

(* "The warehouse already accepted the return: the result cannot be        *)
(* cancelled": an accepted return belongs to a failure that stands.        *)
AcceptedReturnHasFailure ==
  \A p \in Part : ret[p] = "ACCEPTED" => result[p] = "NOT_DELIVERED"
=============================================================================
