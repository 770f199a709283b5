----------------------------- MODULE RouteIssue -----------------------------
(***************************************************************************)
(* Handing a route sheet over at the warehouse (modules warehouse/         *)
(* route-flow, placement, route-cells, issue-guard): boxes are put on the  *)
(* shelves of their sheet, the courier is confirmed, every box is scanned, *)
(* and the whole sheet leaves at once.  The logistician's operations on    *)
(* the same route and the decisions about failed orders run against it.    *)
(*                                                                         *)
(* All operations are transactions, atomic in what they touch, but for     *)
(* shipRoute: it reads the composition and the marks under the route's     *)
(* lock and then locks the orders one after the other.  It is two steps    *)
(* here, and what does not take the route's lock may come in between.      *)
(*                                                                         *)
(* Results are left out, but for failures not decided yet: an order with   *)
(* another result may be removed here as if it had none, which only adds   *)
(* behaviours. Route versions, editing leases, the courier's role and      *)
(* status, and the advisory mark requiresRelocation are left out, too.     *)
(***************************************************************************)
EXTENDS Naturals, FiniteSets

CONSTANTS
  Order,
  Route,    \* identifiers of routes; it bounds how many are ever created
  Courier,
  Cell,     \* shelves of kind ROUTE
  Storage,  \* any cell of kind STORAGE
  None

ASSUME DistinctAssumption ==
  /\ None \notin Courier \cup Route \cup Cell
  /\ Storage \notin Cell \cup {None}

Part == Route \X Order

VARIABLES
  state,     \* DeliveryRoute.state; ACTIVE stands for COMPLETED, too
  courier,   \* DeliveryRoute.courierUserId
  open,      \* RouteOrder rows with removedAt null
  session,   \* courier of the route's RouteIssueSession in state OPEN
  checks,    \* live RouteIssueCheck rows of that session
  issued,    \* routes with issued boxes (issuedOrderIdsForRoute)
  cellOf,    \* cell of the order's OrderPlacement with releasedAt null
  binding,   \* route of the cell's RouteCellBinding with releasedAt null
  cancelled, \* orders with cancelledByLogistAt
  cancelledInSource, \* orders with cancelledInSource
  tasks,     \* participations whose failure has an open OrderResolution
  loading    \* route and composition read by a shipRoute in flight

sheetVars == <<state, courier>>
issueVars == <<session, checks, issued>>
shelfVars == <<cellOf, binding>>
orderVars == <<cancelled, cancelledInSource, tasks>>
vars == <<state, courier, open, session, checks, issued, cellOf, binding,
          cancelled, cancelledInSource, tasks, loading>>

RouteState == {"FREE", "DRAFT", "CONFIRMED", "ACTIVE", "CANCELLED"}
Load == [route : Route, orders : SUBSET Order]
Idle == [route |-> None, orders |-> {}]

TypeOK ==
  /\ state \in [Route -> RouteState]
  /\ courier \in [Route -> Courier \cup {None}]
  /\ open \subseteq Part
  /\ session \in [Route -> Courier \cup {None}]
  /\ checks \subseteq Part
  /\ issued \subseteq Route
  /\ cellOf \in [Order -> Cell \cup {Storage, None}]
  /\ binding \in [Cell -> Route \cup {None}]
  /\ cancelled \subseteq Order
  /\ cancelledInSource \subseteq Order
  /\ tasks \subseteq Part
  /\ loading \in Load \cup {Idle}

Init ==
  /\ state = [r \in Route |-> "FREE"]
  /\ courier = [r \in Route |-> None]
  /\ open = {}
  /\ session = [r \in Route |-> None]
  /\ checks = {}
  /\ issued = {}
  /\ cellOf = [o \in Order |-> None]
  /\ binding = [c \in Cell |-> None]
  /\ cancelled = {}
  /\ cancelledInSource = {}
  /\ tasks = {}
  /\ loading = Idle

-----------------------------------------------------------------------------
(* Helpers *)

OrdersOf(r) == {o \in Order : <<r, o>> \in open}

FreeOfSheets(o) ==   \* mutant: an order in a draft may be taken by another
  \A r \in Route : <<r, o>> \in open => state[r] = "DRAFT"

(* assertOrdersAreFree *)
Free(o) == \A r \in Route : <<r, o>> \notin open
Cancelled == cancelled \cup cancelledInSource
ChecksOf(r) == {p \in checks : p[1] = r}

(* lockRoute: the row of a route being shipped is locked until it is.      *)
Unlocked(r) == loading.route # r

IssueNotIssued(r) == r \notin issued     \* mutant: an open session is no issue
IssueNotOpen(r) == session[r] = None     \* mutant: a completed one is none

(* assertIssueNotStarted *)
IssueNotStarted(r) == session[r] = None /\ r \notin issued

ReleasedAlways(left, boxes, bound) ==   \* mutant: does not count what remains
  [c \in Cell |-> IF c \in left THEN None ELSE bound[c]]

(* releaseEmptyRouteBinding for the cells in "left", placements and        *)
(* bindings as given: a shelf whose last box went away is let go.          *)
Released(left, boxes, bound) ==
  [c \in Cell |-> IF c \in left /\ \A o \in Order : boxes[o] # c
                    THEN None ELSE bound[c]]

(* activateRouteWithinTransaction, the bindings: all of the route's are    *)
(* let go, whatever stands there.                                          *)
WithoutRoute(r, bound) == [c \in Cell |-> IF bound[c] = r THEN None ELSE bound[c]]

-----------------------------------------------------------------------------
(* The logistician *)

(* createDraftFromSelection, mode SHEET. *)
CreateSheet(r, orders, c) ==
  /\ state[r] = "FREE"
  /\ orders # {} /\ \A o \in orders : Free(o)
  /\ state' = [state EXCEPT ![r] = "CONFIRMED"]
  /\ courier' = [courier EXCEPT ![r] = c]
  /\ open' = open \cup ({r} \X orders)
  /\ UNCHANGED <<issueVars, shelfVars, orderVars, loading>>

(* addOrders *)
AddOrder(r, o) ==
  /\ state[r] = "DRAFT"
  /\ Free(o)
  /\ open' = open \cup {<<r, o>>}
  /\ UNCHANGED <<sheetVars, issueVars, shelfVars, orderVars, loading>>

(* returnOrders *)
ReturnOrder(r, o) ==
  /\ state[r] = "DRAFT"
  /\ <<r, o>> \in open
  /\ open' = open \ {<<r, o>>}
  /\ UNCHANGED <<sheetVars, issueVars, shelfVars, orderVars, loading>>

(* confirmWithinTransaction: a sheet is never empty. *)
Confirm(r) ==
  /\ state[r] = "DRAFT"
  /\ OrdersOf(r) # {}
  /\ state' = [state EXCEPT ![r] = "CONFIRMED"]
  /\ UNCHANGED <<courier, open, issueVars, shelfVars, orderVars, loading>>

SetCourier(r, c) ==
  /\ state[r] \in {"DRAFT", "CONFIRMED"}
  /\ Unlocked(r)
  /\ IssueNotStarted(r)
  /\ c # courier[r]
  /\ courier' = [courier EXCEPT ![r] = c]
  /\ UNCHANGED <<state, open, issueVars, shelfVars, orderVars, loading>>

(* The bindings stay: the boxes still stand on the shelf.                  *)
ReturnToDraft(r) ==
  /\ state[r] = "CONFIRMED"
  /\ Unlocked(r)
  /\ IssueNotStarted(r)
  /\ state' = [state EXCEPT ![r] = "DRAFT"]
  /\ UNCHANGED <<courier, open, issueVars, shelfVars, orderVars, loading>>

CancelRoute(r) ==
  /\ \/ state[r] = "DRAFT"
     \/ state[r] = "CONFIRMED" /\ IssueNotStarted(r)
  /\ Unlocked(r)
  /\ state' = [state EXCEPT ![r] = "CANCELLED"]
  /\ open' = open \ ({r} \X Order)
  /\ UNCHANGED <<courier, issueVars, shelfVars, orderVars, loading>>

(* shipRouteManually: no box is scanned, no placement is closed.           *)
ShipManually(r) ==
  /\ state[r] = "CONFIRMED"
  /\ Unlocked(r)
  /\ courier[r] # None
  /\ IssueNotStarted(r)
  /\ state' = [state EXCEPT ![r] = "ACTIVE"]
  /\ binding' = WithoutRoute(r, binding)
  /\ UNCHANGED <<courier, open, issueVars, cellOf, orderVars, loading>>

(* removeFromActiveRoute: an order without a result.  Its mark and its     *)
(* place on the shelf stay.                                                *)
RemoveFromActiveRoute(r, o) ==
  /\ state[r] \in {"CONFIRMED", "ACTIVE"}
  /\ Unlocked(r)
  /\ <<r, o>> \in open \ tasks
  /\ open' = open \ {<<r, o>>}
  /\ UNCHANGED <<sheetVars, issueVars, shelfVars, orderVars, loading>>

(* cancelShipment: the route is a confirmed sheet again; that it was       *)
(* issued is not taken back.                                               *)
CancelShipment(r) ==
  /\ state[r] = "ACTIVE"
  /\ state' = [state EXCEPT ![r] = "CONFIRMED"]
  /\ UNCHANGED <<courier, open, issueVars, shelfVars, orderVars, loading>>

(* splitShippedRoute: the undelivered orders move to a new confirmed       *)
(* sheet; at least one delivered order stays.                              *)
SplitShipped(r, new, moved) ==
  /\ state[r] = "ACTIVE"
  /\ state[new] = "FREE"
  /\ moved # {} /\ moved \subseteq OrdersOf(r) /\ moved # OrdersOf(r)
  /\ state' = [state EXCEPT ![new] = "CONFIRMED"]
  /\ courier' = [courier EXCEPT ![new] = courier[r]]
  /\ open' = (open \ ({r} \X moved)) \cup ({new} \X moved)
  /\ UNCHANGED <<issueVars, shelfVars, orderVars, loading>>

(* decideCancel closes the order's open task, be it a failure's or one     *)
(* about a delivered order.                                                *)
DecideCancel(o) ==
  /\ cancelled' = cancelled \cup {o}
  /\ tasks' = tasks \ (Route \X {o})
  /\ UNCHANGED <<sheetVars, open, issueVars, shelfVars, cancelledInSource, loading>>

(* applyCancellation.  When the source takes it back, returnToUnassigned   *)
(* closes the participation without a result and locks no route.           *)
CancelInSource(o) ==
  /\ cancelledInSource' = cancelledInSource \cup {o}
  /\ UNCHANGED <<sheetVars, open, issueVars, shelfVars, cancelled, tasks, loading>>

WithdrawCancellation(o) ==
  /\ o \in cancelledInSource
  /\ cancelledInSource' = cancelledInSource \ {o}
  /\ open' \in {open, open \ ((Route \X {o}) \ tasks)}
  /\ UNCHANGED <<sheetVars, issueVars, shelfVars, cancelled, tasks, loading>>

(* recordDeliveryResult with a failure, and its correction.                *)
Fail(p) ==
  /\ state[p[1]] = "ACTIVE"
  /\ p \in open
  /\ \A q \in tasks : q[2] # p[2]
  /\ tasks' = tasks \cup {p}
  /\ UNCHANGED <<sheetVars, open, issueVars, shelfVars, cancelled, cancelledInSource,
                 loading>>

CancelFailure(p) ==
  /\ p \in tasks
  /\ tasks' = tasks \ {p}
  /\ UNCHANGED <<sheetVars, open, issueVars, shelfVars, cancelled, cancelledInSource,
                 loading>>

(* closeActiveParticipation, by a decision to deliver again: it takes no   *)
(* route's lock.                                                           *)
DecideAgain(p) ==
  /\ p \in tasks
  /\ tasks' = tasks \ {p}
  /\ open' = open \ (Route \X {p[2]})
  /\ UNCHANGED <<sheetVars, issueVars, shelfVars, cancelled, cancelledInSource, loading>>

-----------------------------------------------------------------------------
(* Shelves *)

(* bindRouteCell *)
BindRouteCell(r, c) ==
  /\ state[r] = "CONFIRMED"
  /\ Unlocked(r)
  /\ binding[c] = None
  /\ binding' = [binding EXCEPT ![c] = r]
  /\ UNCHANGED <<sheetVars, open, issueVars, cellOf, orderVars, loading>>

(* pickOrderToRouteCell: the shelf is the sheet's own or a free one, which *)
(* becomes the sheet's; the shelf the box came from may be let go.         *)
PickOrderToRouteCell(r, o, c) ==
  /\ state[r] = "CONFIRMED"
  /\ Unlocked(r)
  /\ <<r, o>> \in open
  /\ o \notin Cancelled
  /\ binding[c] \in {r, None}
  /\ cellOf' = [cellOf EXCEPT ![o] = c]
  /\ binding' = Released({cellOf[o]} \ {c}, cellOf', [binding EXCEPT ![c] = r])
  /\ UNCHANGED <<sheetVars, open, issueVars, orderVars, loading>>

(* receiveOrder: into any cell, a shelf of another sheet included.         *)
ReceiveOrder(o, c) ==
  /\ c # cellOf[o]
  /\ cellOf' = [cellOf EXCEPT ![o] = c]
  /\ binding' = Released({cellOf[o]}, cellOf', binding)
  /\ UNCHANGED <<sheetVars, open, issueVars, orderVars, loading>>

(* withdrawOrder *)
WithdrawOrder(o) ==
  /\ cellOf[o] # None
  /\ cellOf' = [cellOf EXCEPT ![o] = None]
  /\ binding' = Released({cellOf[o]}, cellOf', binding)
  /\ UNCHANGED <<sheetVars, open, issueVars, orderVars, loading>>

-----------------------------------------------------------------------------
(* The issue session *)

ConfirmCourier(r) ==
  /\ state[r] = "CONFIRMED"
  /\ courier[r] # None
  /\ session[r] = None
  /\ session' = [session EXCEPT ![r] = courier[r]]
  /\ UNCHANGED <<sheetVars, open, checks, issued, shelfVars, orderVars, loading>>

CheckOrderForIssue(r, o) ==
  /\ state[r] = "CONFIRMED"
  /\ Unlocked(r)
  /\ session[r] # None
  /\ <<r, o>> \in open
  /\ o \notin Cancelled
  /\ checks' = checks \cup {<<r, o>>}
  /\ UNCHANGED <<sheetVars, open, session, issued, shelfVars, orderVars, loading>>

ResetIssueChecks(r) ==
  /\ state[r] = "CONFIRMED"
  /\ Unlocked(r)
  /\ session[r] # None
  /\ checks' = checks \ ChecksOf(r)
  /\ UNCHANGED <<sheetVars, open, session, issued, shelfVars, orderVars, loading>>

CancelIssueSessionKeeps(r, c) ==   \* mutant: marks outlive their session
  /\ Unlocked(r)
  /\ session[r] # None
  /\ session' = [session EXCEPT ![r] = None]
  /\ courier' = [courier EXCEPT ![r] = c]
  /\ UNCHANGED <<state, open, checks, issued, shelfVars, orderVars, loading>>

(* cancelIssueSession, by an administrator: the named courier replaces the *)
(* present one, or is he.  The state of the route is not looked at.        *)
CancelIssueSession(r, c) ==
  /\ Unlocked(r)
  /\ session[r] # None
  /\ session' = [session EXCEPT ![r] = None]
  /\ checks' = checks \ ChecksOf(r)
  /\ courier' = [courier EXCEPT ![r] = c]
  /\ UNCHANGED <<state, open, issued, shelfVars, orderVars, loading>>

(* shipRoute up to its loop: session, courier, composition and marks.      *)
BeginShip(r) ==
  /\ loading = Idle
  /\ state[r] = "CONFIRMED"
  /\ session[r] # None /\ session[r] = courier[r]
  /\ OrdersOf(r) # {}
  /\ \A o \in OrdersOf(r) : <<r, o>> \in checks
  /\ loading' = [route |-> r, orders |-> OrdersOf(r)]
  /\ UNCHANGED <<sheetVars, open, issueVars, shelfVars, orderVars>>

FinishShipUnread ==   \* mutant: the cancellation is not read again
  LET r == loading.route
      boxes == [o \in Order |-> IF o \in loading.orders THEN None ELSE cellOf[o]]
      left == {cellOf[o] : o \in loading.orders}
  IN
  /\ loading # Idle
  /\ cellOf' = boxes
  /\ binding' = WithoutRoute(r, Released(left, boxes, binding))
  /\ state' = [state EXCEPT ![r] = "ACTIVE"]
  /\ session' = [session EXCEPT ![r] = None]
  /\ checks' = checks \ ChecksOf(r)
  /\ issued' = issued \cup {r}
  /\ loading' = Idle
  /\ UNCHANGED <<courier, open, orderVars>>

(* shipRoute, the loop and the rest: every order is locked and found not   *)
(* cancelled, its box leaves the shelf, and the sheet is ACTIVE.           *)
FinishShip ==
  LET r == loading.route
      boxes == [o \in Order |-> IF o \in loading.orders THEN None ELSE cellOf[o]]
      left == {cellOf[o] : o \in loading.orders}
  IN
  /\ loading # Idle
  /\ loading.orders \cap Cancelled = {}
  /\ cellOf' = boxes
  /\ binding' = WithoutRoute(r, Released(left, boxes, binding))
  /\ state' = [state EXCEPT ![r] = "ACTIVE"]
  /\ session' = [session EXCEPT ![r] = None]
  /\ checks' = checks \ ChecksOf(r)
  /\ issued' = issued \cup {r}
  /\ loading' = Idle
  /\ UNCHANGED <<courier, open, orderVars>>

(* A cancelled order rolls everything back. *)
AbortShip ==
  /\ loading # Idle
  /\ loading.orders \cap Cancelled # {}
  /\ loading' = Idle
  /\ UNCHANGED <<sheetVars, open, issueVars, shelfVars, orderVars>>

-----------------------------------------------------------------------------
LogisticianStep ==
  \/ \E r \in Route :
       \/ \E orders \in SUBSET Order, c \in Courier \cup {None} : CreateSheet(r, orders, c)
       \/ Confirm(r)
       \/ \E c \in Courier \cup {None} : SetCourier(r, c)
       \/ ReturnToDraft(r)
       \/ CancelRoute(r)
       \/ ShipManually(r)
       \/ CancelShipment(r)
       \/ \E new \in Route, moved \in SUBSET Order : SplitShipped(r, new, moved)
       \/ \E o \in Order :
            AddOrder(r, o) \/ ReturnOrder(r, o) \/ RemoveFromActiveRoute(r, o)
  \/ \E o \in Order : DecideCancel(o) \/ CancelInSource(o) \/ WithdrawCancellation(o)
  \/ \E p \in Part : Fail(p) \/ CancelFailure(p) \/ DecideAgain(p)

ShelfStep ==
  \/ \E r \in Route, c \in Cell :
       BindRouteCell(r, c) \/ \E o \in Order : PickOrderToRouteCell(r, o, c)
  \/ \E o \in Order :
       WithdrawOrder(o) \/ \E c \in Cell \cup {Storage} : ReceiveOrder(o, c)

IssueStep ==
  \/ \E r \in Route :
       \/ ConfirmCourier(r)
       \/ \E o \in Order : CheckOrderForIssue(r, o)
       \/ ResetIssueChecks(r)
       \/ \E c \in Courier : CancelIssueSession(r, c)
       \/ BeginShip(r)
  \/ FinishShip
  \/ AbortShip

Next == LogisticianStep \/ ShelfStep \/ IssueStep

Spec == Init /\ [][Next]_vars

-----------------------------------------------------------------------------
(* Properties *)

(* An open session belongs to a confirmed sheet and to its courier: no     *)
(* draft, cancellation, manual shipment or change of courier ever passes   *)
(* it by, so a box is never scanned for a man who no longer drives.        *)
SessionFitsRoute ==
  \A r \in Route :
    session[r] # None => state[r] = "CONFIRMED" /\ session[r] = courier[r]

(* A sheet whose boxes were handed over is never edited or cancelled,      *)
(* although cancelling its shipment makes it confirmed again.              *)
IssuedIsNotEdited == \A r \in issued : state[r] \in {"CONFIRMED", "ACTIVE"}

(* Shelves of a shipped sheet can be given to the next one the same day.   *)
ShippedHoldsNoShelf ==
  \A r \in Route : state[r] = "ACTIVE" => \A c \in Cell : binding[c] # r

(* A mark proves that this box was scanned for this trip: no order joins a *)
(* sheet that still has a mark of it from an earlier stay.                 *)
NoInheritedMark ==
  [][\A p \in open' \ open : p \notin checks']_vars

(* All or nothing: what a scanned shipment leaves in the sheet was         *)
(* scanned, is not cancelled and stands on no shelf, and the courier is    *)
(* the one the warehouse confirmed, whatever happened since the first scan.*)
ShippedAsChecked ==
  [][\A r \in Route :
       session[r] # None /\ state'[r] = "ACTIVE"
         => /\ courier'[r] = session[r]
            /\ \A o \in Order : <<r, o>> \in open' =>
                 <<r, o>> \in checks /\ o \notin Cancelled /\ cellOf'[o] = None]_vars

(* A sheet keeps its shelf until the last box is gone or the sheet ships:  *)
(* the shelf is never offered to another sheet before.                     *)
ShelfIsKept ==
  [][\A c \in Cell :
       binding[c] # None /\ binding'[c] # binding[c]
         => \/ binding'[c] = None /\ \A o \in Order : cellOf'[o] # c
            \/ state[binding[c]] = "CONFIRMED" /\ state'[binding[c]] = "ACTIVE"]_vars

(* Once boxes were handed over, only the administrator's cancellation of   *)
(* an open session changes the courier.                                    *)
CourierOfIssuedRoute ==
  [][\A r \in issued :
       courier'[r] # courier[r] => session[r] # None /\ session'[r] = None]_vars

(* The sheets of the warehouse are those of Sheets: drafts, sheets, splits *)
(* and decisions that lock no route together take an order for one route   *)
(* at a time, so that its box is asked for by one shipment.                *)
Kept == INSTANCE Sheets WITH promised <- open
KeepsSheets == Kept!SheetsSpec

-----------------------------------------------------------------------------
(* A statement of the code's own documentation that the code does not keep *)

(* "Shipping to the courier frees all cells of the sheet: there are no     *)
(* boxes in them any more": a shelf that is let go is empty.               *)
FreedShelfIsEmpty ==
  [][\A c \in Cell :
       binding[c] # None /\ binding'[c] = None
         => \A o \in Order : cellOf'[o] # c]_vars
=============================================================================
