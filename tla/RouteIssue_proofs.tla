------------------------- MODULE RouteIssue_proofs -------------------------
(* Safety of RouteIssue for every set of orders, routes, couriers and      *)
(* shelves.                                                                *)
EXTENDS RouteIssue, TLAPS

(***************************************************************************)
(* The inductive invariant.  The properties speak of one step of shipRoute *)
(* at a time; between its two steps it relies on the locked route: its     *)
(* session stays open, its marks stay, and nothing joins it.               *)
(***************************************************************************)

(* Marks live in open sessions only. *)
MarksInSession == \A p \in checks : session[p[1]] # None

(* What shipRoute read is still so while it works. *)
LoadStands ==
  loading # Idle =>
    /\ session[loading.route] # None
    /\ \A o \in loading.orders : <<loading.route, o>> \in checks
    /\ \A o \in Order : <<loading.route, o>> \in open => o \in loading.orders

IInv ==
  /\ TypeOK
  /\ SessionFitsRoute
  /\ IssuedIsNotEdited
  /\ ShippedHoldsNoShelf
  /\ MarksInSession
  /\ LoadStands

USE DEF Part

(* One step of the specification, operation by operation. *)
LEMMA NextCases ==
  ASSUME [Next]_vars
  PROVE  \/ UNCHANGED vars
         \/ \E r \in Route, orders \in SUBSET Order, c \in Courier \cup {None} :
              CreateSheet(r, orders, c)
         \/ \E r \in Route, o \in Order :
              AddOrder(r, o) \/ ReturnOrder(r, o) \/ RemoveFromActiveRoute(r, o)
         \/ \E r \in Route : Confirm(r) \/ ReturnToDraft(r) \/ CancelRoute(r)
         \/ \E r \in Route, c \in Courier \cup {None} : SetCourier(r, c)
         \/ \E r \in Route : ShipManually(r) \/ CancelShipment(r)
         \/ \E r \in Route, new \in Route, moved \in SUBSET Order :
              SplitShipped(r, new, moved)
         \/ \E o \in Order :
              DecideCancel(o) \/ CancelInSource(o) \/ WithdrawCancellation(o)
         \/ \E p \in Part : Fail(p) \/ CancelFailure(p) \/ DecideAgain(p)
         \/ \E r \in Route, c \in Cell : BindRouteCell(r, c)
         \/ \E r \in Route, o \in Order, c \in Cell : PickOrderToRouteCell(r, o, c)
         \/ \E o \in Order, c \in Cell \cup {Storage} : ReceiveOrder(o, c)
         \/ \E o \in Order : WithdrawOrder(o)
         \/ \E r \in Route : ConfirmCourier(r) \/ ResetIssueChecks(r)
         \/ \E r \in Route, o \in Order : CheckOrderForIssue(r, o)
         \/ \E r \in Route, c \in Courier : CancelIssueSession(r, c)
         \/ \E r \in Route : BeginShip(r)
         \/ FinishShip
         \/ AbortShip
BY DEF Next, LogisticianStep, ShelfStep, IssueStep

-----------------------------------------------------------------------------
(* Types                                                                   *)

(* Letting shelves go keeps the bindings well formed. *)
LEMMA ShelvesTypeOK ==
  ASSUME NEW left, NEW boxes, NEW bound \in [Cell -> Route \cup {None}], NEW r
  PROVE  /\ Released(left, boxes, bound) \in [Cell -> Route \cup {None}]
         /\ WithoutRoute(r, bound) \in [Cell -> Route \cup {None}]
BY DEF Released, WithoutRoute

(* Between its steps shipRoute holds a route. *)
LEMMA LoadedRoute ==
  ASSUME TypeOK, loading # Idle
  PROVE  loading.route \in Route /\ loading.orders \subseteq Order
BY DEF TypeOK, Load, Idle

(* Every operation keeps the types. *)
LEMMA TypeOKStep ==
  ASSUME TypeOK, [Next]_vars
  PROVE  TypeOK'
<1> USE DEF TypeOK, RouteState, sheetVars, issueVars, shelfVars, orderVars
<1>1. CASE UNCHANGED vars
  BY <1>1 DEF vars
<1>2. CASE \E r \in Route, orders \in SUBSET Order, c \in Courier \cup {None} :
             CreateSheet(r, orders, c)
  BY <1>2 DEF CreateSheet
<1>3. CASE \E r \in Route, o \in Order :
             AddOrder(r, o) \/ ReturnOrder(r, o) \/ RemoveFromActiveRoute(r, o)
  BY <1>3 DEF AddOrder, ReturnOrder, RemoveFromActiveRoute
<1>4. CASE \E r \in Route : Confirm(r) \/ ReturnToDraft(r) \/ CancelRoute(r)
  BY <1>4 DEF Confirm, ReturnToDraft, CancelRoute
<1>5. CASE \E r \in Route, c \in Courier \cup {None} : SetCourier(r, c)
  BY <1>5 DEF SetCourier
<1>6. CASE \E r \in Route : ShipManually(r) \/ CancelShipment(r)
  BY <1>6, ShelvesTypeOK DEF ShipManually, CancelShipment
<1>7. CASE \E r \in Route, new \in Route, moved \in SUBSET Order :
             SplitShipped(r, new, moved)
  BY <1>7 DEF SplitShipped
<1>8. CASE \E o \in Order :
              DecideCancel(o) \/ CancelInSource(o) \/ WithdrawCancellation(o)
  BY <1>8 DEF DecideCancel, CancelInSource, WithdrawCancellation
<1>9. CASE \E p \in Part : Fail(p) \/ CancelFailure(p) \/ DecideAgain(p)
  BY <1>9 DEF Fail, CancelFailure, DecideAgain
<1>10. CASE \E r \in Route, c \in Cell : BindRouteCell(r, c)
  BY <1>10 DEF BindRouteCell
<1>11. CASE \E r \in Route, o \in Order, c \in Cell : PickOrderToRouteCell(r, o, c)
  <2>1. PICK r \in Route, o \in Order, c \in Cell : PickOrderToRouteCell(r, o, c)
    BY <1>11
  <2>2. [binding EXCEPT ![c] = r] \in [Cell -> Route \cup {None}]
    OBVIOUS
  <2>3. binding' \in [Cell -> Route \cup {None}]
    BY <2>1, <2>2, ShelvesTypeOK DEF PickOrderToRouteCell
  <2> QED BY <2>1, <2>3 DEF PickOrderToRouteCell
<1>12. CASE \E o \in Order, c \in Cell \cup {Storage} : ReceiveOrder(o, c)
  BY <1>12, ShelvesTypeOK DEF ReceiveOrder
<1>13. CASE \E o \in Order : WithdrawOrder(o)
  BY <1>13, ShelvesTypeOK DEF WithdrawOrder
<1>14. CASE \E r \in Route : ConfirmCourier(r) \/ ResetIssueChecks(r)
  BY <1>14 DEF ConfirmCourier, ResetIssueChecks
<1>15. CASE \E r \in Route, o \in Order : CheckOrderForIssue(r, o)
  BY <1>15 DEF CheckOrderForIssue
<1>16. CASE \E r \in Route, c \in Courier : CancelIssueSession(r, c)
  BY <1>16 DEF CancelIssueSession
<1>17. CASE \E r \in Route : BeginShip(r)
  BY <1>17 DEF BeginShip, OrdersOf, Load
<1>18. CASE FinishShip
  <2>1. loading.route \in Route /\ loading # Idle
    BY <1>18, LoadedRoute DEF FinishShip
  <2>2. binding' \in [Cell -> Route \cup {None}]
    BY <1>18, ShelvesTypeOK DEF FinishShip
  <2> QED BY <1>18, <2>1, <2>2 DEF FinishShip, ChecksOf
<1>19. CASE AbortShip
  BY <1>19 DEF AbortShip
<1> QED BY NextCases, <1>1, <1>2, <1>3, <1>4, <1>5, <1>6, <1>7, <1>8, <1>9, <1>10,
           <1>11, <1>12, <1>13, <1>14, <1>15, <1>16, <1>17, <1>18, <1>19

(* Every reachable state of the warehouse hand-over is well formed.        *)
THEOREM IssueTypeCorrect == Spec => []TypeOK
<1>1. Init => TypeOK
  BY DEF Init, TypeOK, RouteState, Idle
<1> QED BY <1>1, TypeOKStep, PTL DEF Spec
-----------------------------------------------------------------------------
(* The inductive invariant                                                 *)

(* A locked or issued route keeps its session, its state and its courier.  *)
LEMMA SessionStep ==
  ASSUME IInv, [Next]_vars
  PROVE  SessionFitsRoute'
<1> USE DEF IInv, TypeOK, sheetVars, issueVars, shelfVars, orderVars,
           SessionFitsRoute, IssueNotStarted
<1>1. CASE UNCHANGED vars
  BY <1>1 DEF vars
<1>2. CASE \E r \in Route, orders \in SUBSET Order, c \in Courier \cup {None} :
             CreateSheet(r, orders, c)
  BY <1>2 DEF CreateSheet
<1>3. CASE \E r \in Route, o \in Order :
             AddOrder(r, o) \/ ReturnOrder(r, o) \/ RemoveFromActiveRoute(r, o)
  BY <1>3 DEF AddOrder, ReturnOrder, RemoveFromActiveRoute
<1>4. CASE \E r \in Route : Confirm(r) \/ ReturnToDraft(r) \/ CancelRoute(r)
  BY <1>4 DEF Confirm, ReturnToDraft, CancelRoute
<1>5. CASE \E r \in Route, c \in Courier \cup {None} : SetCourier(r, c)
  BY <1>5 DEF SetCourier
<1>6. CASE \E r \in Route : ShipManually(r) \/ CancelShipment(r)
  BY <1>6 DEF ShipManually, CancelShipment
<1>7. CASE \E r \in Route, new \in Route, moved \in SUBSET Order :
             SplitShipped(r, new, moved)
  BY <1>7 DEF SplitShipped
<1>8. CASE \E o \in Order :
              DecideCancel(o) \/ CancelInSource(o) \/ WithdrawCancellation(o)
  BY <1>8 DEF DecideCancel, CancelInSource, WithdrawCancellation
<1>9. CASE \E p \in Part : Fail(p) \/ CancelFailure(p) \/ DecideAgain(p)
  BY <1>9 DEF Fail, CancelFailure, DecideAgain
<1>10. CASE \E r \in Route, c \in Cell : BindRouteCell(r, c)
  BY <1>10 DEF BindRouteCell
<1>11. CASE \E r \in Route, o \in Order, c \in Cell : PickOrderToRouteCell(r, o, c)
  BY <1>11 DEF PickOrderToRouteCell
<1>12. CASE \E o \in Order, c \in Cell \cup {Storage} : ReceiveOrder(o, c)
  BY <1>12 DEF ReceiveOrder
<1>13. CASE \E o \in Order : WithdrawOrder(o)
  BY <1>13 DEF WithdrawOrder
<1>14. CASE \E r \in Route : ConfirmCourier(r) \/ ResetIssueChecks(r)
  BY <1>14 DEF ConfirmCourier, ResetIssueChecks
<1>15. CASE \E r \in Route, o \in Order : CheckOrderForIssue(r, o)
  BY <1>15 DEF CheckOrderForIssue
<1>16. CASE \E r \in Route, c \in Courier : CancelIssueSession(r, c)
  BY <1>16 DEF CancelIssueSession
<1>17. CASE \E r \in Route : BeginShip(r)
  BY <1>17 DEF BeginShip, OrdersOf, Idle
<1>18. CASE FinishShip
  BY <1>18, LoadedRoute DEF FinishShip, ChecksOf
<1>19. CASE AbortShip
  BY <1>19 DEF AbortShip
<1> QED BY NextCases, <1>1, <1>2, <1>3, <1>4, <1>5, <1>6, <1>7, <1>8, <1>9, <1>10,
           <1>11, <1>12, <1>13, <1>14, <1>15, <1>16, <1>17, <1>18, <1>19

(* Whoever edits or cancels a sheet looks for issued boxes first. *)
LEMMA IssuedStep ==
  ASSUME IInv, [Next]_vars
  PROVE  IssuedIsNotEdited'
<1> USE DEF IInv, TypeOK, sheetVars, issueVars, shelfVars, orderVars,
           IssuedIsNotEdited, SessionFitsRoute, LoadStands, IssueNotStarted
<1>1. CASE UNCHANGED vars
  BY <1>1 DEF vars
<1>2. CASE \E r \in Route, orders \in SUBSET Order, c \in Courier \cup {None} :
             CreateSheet(r, orders, c)
  BY <1>2 DEF CreateSheet
<1>3. CASE \E r \in Route, o \in Order :
             AddOrder(r, o) \/ ReturnOrder(r, o) \/ RemoveFromActiveRoute(r, o)
  BY <1>3 DEF AddOrder, ReturnOrder, RemoveFromActiveRoute
<1>4. CASE \E r \in Route : Confirm(r) \/ ReturnToDraft(r) \/ CancelRoute(r)
  BY <1>4 DEF Confirm, ReturnToDraft, CancelRoute
<1>5. CASE \E r \in Route, c \in Courier \cup {None} : SetCourier(r, c)
  BY <1>5 DEF SetCourier
<1>6. CASE \E r \in Route : ShipManually(r) \/ CancelShipment(r)
  BY <1>6 DEF ShipManually, CancelShipment
<1>7. CASE \E r \in Route, new \in Route, moved \in SUBSET Order :
             SplitShipped(r, new, moved)
  BY <1>7 DEF SplitShipped
<1>8. CASE \E o \in Order :
              DecideCancel(o) \/ CancelInSource(o) \/ WithdrawCancellation(o)
  BY <1>8 DEF DecideCancel, CancelInSource, WithdrawCancellation
<1>9. CASE \E p \in Part : Fail(p) \/ CancelFailure(p) \/ DecideAgain(p)
  BY <1>9 DEF Fail, CancelFailure, DecideAgain
<1>10. CASE \E r \in Route, c \in Cell : BindRouteCell(r, c)
  BY <1>10 DEF BindRouteCell
<1>11. CASE \E r \in Route, o \in Order, c \in Cell : PickOrderToRouteCell(r, o, c)
  BY <1>11 DEF PickOrderToRouteCell
<1>12. CASE \E o \in Order, c \in Cell \cup {Storage} : ReceiveOrder(o, c)
  BY <1>12 DEF ReceiveOrder
<1>13. CASE \E o \in Order : WithdrawOrder(o)
  BY <1>13 DEF WithdrawOrder
<1>14. CASE \E r \in Route : ConfirmCourier(r) \/ ResetIssueChecks(r)
  BY <1>14 DEF ConfirmCourier, ResetIssueChecks
<1>15. CASE \E r \in Route, o \in Order : CheckOrderForIssue(r, o)
  BY <1>15 DEF CheckOrderForIssue
<1>16. CASE \E r \in Route, c \in Courier : CancelIssueSession(r, c)
  BY <1>16 DEF CancelIssueSession
<1>17. CASE \E r \in Route : BeginShip(r)
  BY <1>17 DEF BeginShip, OrdersOf, Idle
<1>18. CASE FinishShip
  BY <1>18, LoadedRoute DEF FinishShip, ChecksOf
<1>19. CASE AbortShip
  BY <1>19 DEF AbortShip
<1> QED BY NextCases, <1>1, <1>2, <1>3, <1>4, <1>5, <1>6, <1>7, <1>8, <1>9, <1>10,
           <1>11, <1>12, <1>13, <1>14, <1>15, <1>16, <1>17, <1>18, <1>19

(* No operation binds a shelf to a shipped sheet, and shipping lets all go. *)
LEMMA ShelfStepKept ==
  ASSUME IInv, [Next]_vars
  PROVE  ShippedHoldsNoShelf'
<1> USE DEF IInv, TypeOK, sheetVars, issueVars, shelfVars, orderVars,
           ShippedHoldsNoShelf, SessionFitsRoute, LoadStands
<1>1. CASE UNCHANGED vars
  BY <1>1 DEF vars
<1>2. CASE \E r \in Route, orders \in SUBSET Order, c \in Courier \cup {None} :
             CreateSheet(r, orders, c)
  BY <1>2 DEF CreateSheet
<1>3. CASE \E r \in Route, o \in Order :
             AddOrder(r, o) \/ ReturnOrder(r, o) \/ RemoveFromActiveRoute(r, o)
  BY <1>3 DEF AddOrder, ReturnOrder, RemoveFromActiveRoute
<1>4. CASE \E r \in Route : Confirm(r) \/ ReturnToDraft(r) \/ CancelRoute(r)
  BY <1>4 DEF Confirm, ReturnToDraft, CancelRoute
<1>5. CASE \E r \in Route, c \in Courier \cup {None} : SetCourier(r, c)
  BY <1>5 DEF SetCourier
<1>6. CASE \E r \in Route : ShipManually(r) \/ CancelShipment(r)
  <2>1. PICK r \in Route : ShipManually(r) \/ CancelShipment(r)
    BY <1>6
  <2>2. CASE ShipManually(r)
    <3>1. \A c \in Cell : binding'[c] # r /\ binding'[c] \in {None, binding[c]}
      BY <2>2, DistinctAssumption DEF ShipManually, WithoutRoute
    <3>2. state' = [state EXCEPT ![r] = "ACTIVE"]
      BY <2>2 DEF ShipManually
    <3> QED BY <3>1, <3>2, DistinctAssumption
  <2>3. CASE CancelShipment(r)
    BY <2>3 DEF CancelShipment
  <2> QED BY <2>1, <2>2, <2>3
<1>7. CASE \E r \in Route, new \in Route, moved \in SUBSET Order :
             SplitShipped(r, new, moved)
  BY <1>7 DEF SplitShipped
<1>8. CASE \E o \in Order :
              DecideCancel(o) \/ CancelInSource(o) \/ WithdrawCancellation(o)
  BY <1>8 DEF DecideCancel, CancelInSource, WithdrawCancellation
<1>9. CASE \E p \in Part : Fail(p) \/ CancelFailure(p) \/ DecideAgain(p)
  BY <1>9 DEF Fail, CancelFailure, DecideAgain
<1>10. CASE \E r \in Route, c \in Cell : BindRouteCell(r, c)
  BY <1>10 DEF BindRouteCell
<1>11. CASE \E r \in Route, o \in Order, c \in Cell : PickOrderToRouteCell(r, o, c)
  <2>1. PICK r \in Route, o \in Order, c \in Cell : PickOrderToRouteCell(r, o, c)
    BY <1>11
  <2>2. \A d \in Cell : binding'[d] \in {None, r, binding[d]}
    BY <2>1 DEF PickOrderToRouteCell, Released
  <2>3. state' = state /\ state[r] = "CONFIRMED"
    BY <2>1 DEF PickOrderToRouteCell
  <2> QED BY <2>2, <2>3, DistinctAssumption
<1>12. CASE \E o \in Order, c \in Cell \cup {Storage} : ReceiveOrder(o, c)
  <2>1. state' = state /\ \A d \in Cell : binding'[d] \in {None, binding[d]}
    BY <1>12 DEF ReceiveOrder, Released
  <2> QED BY <2>1, DistinctAssumption
<1>13. CASE \E o \in Order : WithdrawOrder(o)
  <2>1. state' = state /\ \A d \in Cell : binding'[d] \in {None, binding[d]}
    BY <1>13 DEF WithdrawOrder, Released
  <2> QED BY <2>1, DistinctAssumption
<1>14. CASE \E r \in Route : ConfirmCourier(r) \/ ResetIssueChecks(r)
  BY <1>14 DEF ConfirmCourier, ResetIssueChecks
<1>15. CASE \E r \in Route, o \in Order : CheckOrderForIssue(r, o)
  BY <1>15 DEF CheckOrderForIssue
<1>16. CASE \E r \in Route, c \in Courier : CancelIssueSession(r, c)
  BY <1>16 DEF CancelIssueSession
<1>17. CASE \E r \in Route : BeginShip(r)
  BY <1>17 DEF BeginShip, OrdersOf, Idle
<1>18. CASE FinishShip
  <2> DEFINE r == loading.route
  <2>1. r \in Route
    BY <1>18, LoadedRoute DEF FinishShip
  <2>2. \A c \in Cell : binding'[c] # r /\ binding'[c] \in {None, binding[c]}
    BY <1>18, <2>1, DistinctAssumption DEF FinishShip, Released, WithoutRoute
  <2>3. state' = [state EXCEPT ![r] = "ACTIVE"]
    BY <1>18 DEF FinishShip
  <2> QED BY <2>1, <2>2, <2>3, DistinctAssumption
<1>19. CASE AbortShip
  BY <1>19 DEF AbortShip
<1> QED BY NextCases, <1>1, <1>2, <1>3, <1>4, <1>5, <1>6, <1>7, <1>8, <1>9, <1>10,
           <1>11, <1>12, <1>13, <1>14, <1>15, <1>16, <1>17, <1>18, <1>19

(* Whatever closes a session drops its marks. *)
LEMMA MarksStep ==
  ASSUME IInv, [Next]_vars
  PROVE  MarksInSession'
<1> USE DEF IInv, TypeOK, sheetVars, issueVars, shelfVars, orderVars,
           MarksInSession, SessionFitsRoute, ChecksOf
<1>1. CASE UNCHANGED vars
  BY <1>1 DEF vars
<1>2. CASE \E r \in Route, orders \in SUBSET Order, c \in Courier \cup {None} :
             CreateSheet(r, orders, c)
  BY <1>2 DEF CreateSheet
<1>3. CASE \E r \in Route, o \in Order :
             AddOrder(r, o) \/ ReturnOrder(r, o) \/ RemoveFromActiveRoute(r, o)
  BY <1>3 DEF AddOrder, ReturnOrder, RemoveFromActiveRoute
<1>4. CASE \E r \in Route : Confirm(r) \/ ReturnToDraft(r) \/ CancelRoute(r)
  BY <1>4 DEF Confirm, ReturnToDraft, CancelRoute
<1>5. CASE \E r \in Route, c \in Courier \cup {None} : SetCourier(r, c)
  BY <1>5 DEF SetCourier
<1>6. CASE \E r \in Route : ShipManually(r) \/ CancelShipment(r)
  BY <1>6 DEF ShipManually, CancelShipment
<1>7. CASE \E r \in Route, new \in Route, moved \in SUBSET Order :
             SplitShipped(r, new, moved)
  BY <1>7 DEF SplitShipped
<1>8. CASE \E o \in Order :
              DecideCancel(o) \/ CancelInSource(o) \/ WithdrawCancellation(o)
  BY <1>8 DEF DecideCancel, CancelInSource, WithdrawCancellation
<1>9. CASE \E p \in Part : Fail(p) \/ CancelFailure(p) \/ DecideAgain(p)
  BY <1>9 DEF Fail, CancelFailure, DecideAgain
<1>10. CASE \E r \in Route, c \in Cell : BindRouteCell(r, c)
  BY <1>10 DEF BindRouteCell
<1>11. CASE \E r \in Route, o \in Order, c \in Cell : PickOrderToRouteCell(r, o, c)
  BY <1>11 DEF PickOrderToRouteCell
<1>12. CASE \E o \in Order, c \in Cell \cup {Storage} : ReceiveOrder(o, c)
  BY <1>12 DEF ReceiveOrder
<1>13. CASE \E o \in Order : WithdrawOrder(o)
  BY <1>13 DEF WithdrawOrder
<1>14. CASE \E r \in Route : ConfirmCourier(r) \/ ResetIssueChecks(r)
  BY <1>14 DEF ConfirmCourier, ResetIssueChecks
<1>15. CASE \E r \in Route, o \in Order : CheckOrderForIssue(r, o)
  BY <1>15 DEF CheckOrderForIssue
<1>16. CASE \E r \in Route, c \in Courier : CancelIssueSession(r, c)
  BY <1>16 DEF CancelIssueSession
<1>17. CASE \E r \in Route : BeginShip(r)
  BY <1>17 DEF BeginShip, OrdersOf, Idle
<1>18. CASE FinishShip
  BY <1>18, LoadedRoute DEF FinishShip, ChecksOf
<1>19. CASE AbortShip
  BY <1>19 DEF AbortShip
<1> QED BY NextCases, <1>1, <1>2, <1>3, <1>4, <1>5, <1>6, <1>7, <1>8, <1>9, <1>10,
           <1>11, <1>12, <1>13, <1>14, <1>15, <1>16, <1>17, <1>18, <1>19

(* Between its steps shipRoute cannot be overtaken on its own route. *)
LEMMA LoadStep ==
  ASSUME IInv, [Next]_vars
  PROVE  LoadStands'
<1> USE DEF IInv, TypeOK, sheetVars, issueVars, shelfVars, orderVars,
           LoadStands, SessionFitsRoute, Unlocked, ChecksOf
<1>1. CASE UNCHANGED vars
  BY <1>1 DEF vars
<1>2. CASE \E r \in Route, orders \in SUBSET Order, c \in Courier \cup {None} :
             CreateSheet(r, orders, c)
  BY <1>2 DEF CreateSheet
<1>3. CASE \E r \in Route, o \in Order :
             AddOrder(r, o) \/ ReturnOrder(r, o) \/ RemoveFromActiveRoute(r, o)
  BY <1>3 DEF AddOrder, ReturnOrder, RemoveFromActiveRoute
<1>4. CASE \E r \in Route : Confirm(r) \/ ReturnToDraft(r) \/ CancelRoute(r)
  BY <1>4 DEF Confirm, ReturnToDraft, CancelRoute
<1>5. CASE \E r \in Route, c \in Courier \cup {None} : SetCourier(r, c)
  BY <1>5 DEF SetCourier
<1>6. CASE \E r \in Route : ShipManually(r) \/ CancelShipment(r)
  BY <1>6 DEF ShipManually, CancelShipment
<1>7. CASE \E r \in Route, new \in Route, moved \in SUBSET Order :
             SplitShipped(r, new, moved)
  BY <1>7 DEF SplitShipped
<1>8. CASE \E o \in Order :
              DecideCancel(o) \/ CancelInSource(o) \/ WithdrawCancellation(o)
  BY <1>8 DEF DecideCancel, CancelInSource, WithdrawCancellation
<1>9. CASE \E p \in Part : Fail(p) \/ CancelFailure(p) \/ DecideAgain(p)
  BY <1>9 DEF Fail, CancelFailure, DecideAgain
<1>10. CASE \E r \in Route, c \in Cell : BindRouteCell(r, c)
  BY <1>10 DEF BindRouteCell
<1>11. CASE \E r \in Route, o \in Order, c \in Cell : PickOrderToRouteCell(r, o, c)
  BY <1>11 DEF PickOrderToRouteCell
<1>12. CASE \E o \in Order, c \in Cell \cup {Storage} : ReceiveOrder(o, c)
  BY <1>12 DEF ReceiveOrder
<1>13. CASE \E o \in Order : WithdrawOrder(o)
  BY <1>13 DEF WithdrawOrder
<1>14. CASE \E r \in Route : ConfirmCourier(r) \/ ResetIssueChecks(r)
  <2>1. PICK r \in Route : ConfirmCourier(r) \/ ResetIssueChecks(r)
    BY <1>14
  <2>2. CASE ConfirmCourier(r)
    BY <2>2, LoadedRoute DEF ConfirmCourier
  <2>3. CASE ResetIssueChecks(r)
    BY <2>3, LoadedRoute DEF ResetIssueChecks
  <2> QED BY <2>1, <2>2, <2>3
<1>15. CASE \E r \in Route, o \in Order : CheckOrderForIssue(r, o)
  BY <1>15 DEF CheckOrderForIssue
<1>16. CASE \E r \in Route, c \in Courier : CancelIssueSession(r, c)
  BY <1>16 DEF CancelIssueSession
<1>17. CASE \E r \in Route : BeginShip(r)
  BY <1>17 DEF BeginShip, OrdersOf, Idle
<1>18. CASE FinishShip
  BY <1>18, LoadedRoute DEF FinishShip, ChecksOf
<1>19. CASE AbortShip
  BY <1>19 DEF AbortShip
<1> QED BY NextCases, <1>1, <1>2, <1>3, <1>4, <1>5, <1>6, <1>7, <1>8, <1>9, <1>10,
           <1>11, <1>12, <1>13, <1>14, <1>15, <1>16, <1>17, <1>18, <1>19

(* The invariant holds at the start, and every step keeps it. *)
LEMMA InitIInv == Init => IInv
BY DEF Init, IInv, TypeOK, SessionFitsRoute, IssuedIsNotEdited, ShippedHoldsNoShelf,
       MarksInSession, LoadStands, RouteState, Idle

LEMMA IInvStep == IInv /\ [Next]_vars => IInv'
<1> SUFFICES ASSUME IInv, [Next]_vars PROVE IInv'
  OBVIOUS
<1>1. TypeOK'
  BY TypeOKStep DEF IInv
<1> QED BY <1>1, SessionStep, IssuedStep, ShelfStepKept, MarksStep, LoadStep DEF IInv

(* The inductive invariant holds in every reachable state.                 *)
THEOREM IssueInvariant == Spec => []IInv
BY InitIInv, IInvStep, PTL DEF Spec

(* No operation passes an open issue session by, for any number of routes. *)
THEOREM SessionIsNeverPassedBy == Spec => []SessionFitsRoute
<1>1. IInv => SessionFitsRoute
  BY DEF IInv
<1> QED BY <1>1, IssueInvariant, PTL

(* Handed-over boxes keep their sheet out of editing for good.             *)
THEOREM IssuedStaysOutOfEditing == Spec => []IssuedIsNotEdited
<1>1. IInv => IssuedIsNotEdited
  BY DEF IInv
<1> QED BY <1>1, IssueInvariant, PTL

(* A shipped sheet blocks no shelf of the warehouse.                       *)
THEOREM ShipmentFreesShelves == Spec => []ShippedHoldsNoShelf
<1>1. IInv => ShippedHoldsNoShelf
  BY DEF IInv
<1> QED BY <1>1, IssueInvariant, PTL

-----------------------------------------------------------------------------
(* Properties of steps                                                     *)

(* An order joins a sheet only while the sheet has no session, hence no    *)
(* marks.                                                                  *)
LEMMA JoinStep ==
  ASSUME IInv, [Next]_vars
  PROVE  \A p \in open' \ open : p \notin checks'
<1> USE DEF IInv, TypeOK, sheetVars, issueVars, shelfVars, orderVars,
           MarksInSession, SessionFitsRoute
<1>1. CASE UNCHANGED vars
  BY <1>1 DEF vars
<1>2. CASE \E r \in Route, orders \in SUBSET Order, c \in Courier \cup {None} :
             CreateSheet(r, orders, c)
  BY <1>2 DEF CreateSheet
<1>3. CASE \E r \in Route, o \in Order :
             AddOrder(r, o) \/ ReturnOrder(r, o) \/ RemoveFromActiveRoute(r, o)
  BY <1>3 DEF AddOrder, ReturnOrder, RemoveFromActiveRoute
<1>4. CASE \E r \in Route : Confirm(r) \/ ReturnToDraft(r) \/ CancelRoute(r)
  BY <1>4 DEF Confirm, ReturnToDraft, CancelRoute
<1>5. CASE \E r \in Route, c \in Courier \cup {None} : SetCourier(r, c)
  BY <1>5 DEF SetCourier
<1>6. CASE \E r \in Route : ShipManually(r) \/ CancelShipment(r)
  BY <1>6 DEF ShipManually, CancelShipment
<1>7. CASE \E r \in Route, new \in Route, moved \in SUBSET Order :
             SplitShipped(r, new, moved)
  BY <1>7 DEF SplitShipped
<1>8. CASE \E o \in Order :
              DecideCancel(o) \/ CancelInSource(o) \/ WithdrawCancellation(o)
  BY <1>8 DEF DecideCancel, CancelInSource, WithdrawCancellation
<1>9. CASE \E p \in Part : Fail(p) \/ CancelFailure(p) \/ DecideAgain(p)
  BY <1>9 DEF Fail, CancelFailure, DecideAgain
<1>10. CASE \E r \in Route, c \in Cell : BindRouteCell(r, c)
  BY <1>10 DEF BindRouteCell
<1>11. CASE \E r \in Route, o \in Order, c \in Cell : PickOrderToRouteCell(r, o, c)
  BY <1>11 DEF PickOrderToRouteCell
<1>12. CASE \E o \in Order, c \in Cell \cup {Storage} : ReceiveOrder(o, c)
  BY <1>12 DEF ReceiveOrder
<1>13. CASE \E o \in Order : WithdrawOrder(o)
  BY <1>13 DEF WithdrawOrder
<1>14. CASE \E r \in Route : ConfirmCourier(r) \/ ResetIssueChecks(r)
  BY <1>14 DEF ConfirmCourier, ResetIssueChecks
<1>15. CASE \E r \in Route, o \in Order : CheckOrderForIssue(r, o)
  BY <1>15 DEF CheckOrderForIssue
<1>16. CASE \E r \in Route, c \in Courier : CancelIssueSession(r, c)
  BY <1>16 DEF CancelIssueSession
<1>17. CASE \E r \in Route : BeginShip(r)
  BY <1>17 DEF BeginShip, OrdersOf, Idle
<1>18. CASE FinishShip
  BY <1>18, LoadedRoute DEF FinishShip, ChecksOf
<1>19. CASE AbortShip
  BY <1>19 DEF AbortShip
<1> QED BY NextCases, <1>1, <1>2, <1>3, <1>4, <1>5, <1>6, <1>7, <1>8, <1>9, <1>10,
           <1>11, <1>12, <1>13, <1>14, <1>15, <1>16, <1>17, <1>18, <1>19

(* A mark is never inherited from an earlier stay in the sheet.            *)
THEOREM MarksAreFresh == Spec => NoInheritedMark
<1>1. IInv /\ [Next]_vars =>
       [\A p \in open' \ open : p \notin checks']_vars
  BY JoinStep
<1> QED BY <1>1, IssueInvariant, PTL DEF Spec, NoInheritedMark

(* Only shipRoute ships a sheet in session, and it ships what it read. *)
LEMMA ShippedStep ==
  ASSUME IInv, [Next]_vars
  PROVE  \A r \in Route :
           session[r] # None /\ state'[r] = "ACTIVE"
             => /\ courier'[r] = session[r]
                /\ \A o \in Order : <<r, o>> \in open' =>
                     <<r, o>> \in checks /\ o \notin Cancelled /\ cellOf'[o] = None
<1> USE DEF IInv, TypeOK, sheetVars, issueVars, shelfVars, orderVars,
           LoadStands, SessionFitsRoute, IssueNotStarted
<1>1. CASE UNCHANGED vars
  BY <1>1 DEF vars
<1>2. CASE \E r \in Route, orders \in SUBSET Order, c \in Courier \cup {None} :
             CreateSheet(r, orders, c)
  BY <1>2 DEF CreateSheet
<1>3. CASE \E r \in Route, o \in Order :
             AddOrder(r, o) \/ ReturnOrder(r, o) \/ RemoveFromActiveRoute(r, o)
  BY <1>3 DEF AddOrder, ReturnOrder, RemoveFromActiveRoute
<1>4. CASE \E r \in Route : Confirm(r) \/ ReturnToDraft(r) \/ CancelRoute(r)
  BY <1>4 DEF Confirm, ReturnToDraft, CancelRoute
<1>5. CASE \E r \in Route, c \in Courier \cup {None} : SetCourier(r, c)
  BY <1>5 DEF SetCourier
<1>6. CASE \E r \in Route : ShipManually(r) \/ CancelShipment(r)
  BY <1>6 DEF ShipManually, CancelShipment
<1>7. CASE \E r \in Route, new \in Route, moved \in SUBSET Order :
             SplitShipped(r, new, moved)
  BY <1>7 DEF SplitShipped
<1>8. CASE \E o \in Order :
              DecideCancel(o) \/ CancelInSource(o) \/ WithdrawCancellation(o)
  BY <1>8 DEF DecideCancel, CancelInSource, WithdrawCancellation
<1>9. CASE \E p \in Part : Fail(p) \/ CancelFailure(p) \/ DecideAgain(p)
  BY <1>9 DEF Fail, CancelFailure, DecideAgain
<1>10. CASE \E r \in Route, c \in Cell : BindRouteCell(r, c)
  BY <1>10 DEF BindRouteCell
<1>11. CASE \E r \in Route, o \in Order, c \in Cell : PickOrderToRouteCell(r, o, c)
  BY <1>11 DEF PickOrderToRouteCell
<1>12. CASE \E o \in Order, c \in Cell \cup {Storage} : ReceiveOrder(o, c)
  BY <1>12 DEF ReceiveOrder
<1>13. CASE \E o \in Order : WithdrawOrder(o)
  BY <1>13 DEF WithdrawOrder
<1>14. CASE \E r \in Route : ConfirmCourier(r) \/ ResetIssueChecks(r)
  BY <1>14 DEF ConfirmCourier, ResetIssueChecks
<1>15. CASE \E r \in Route, o \in Order : CheckOrderForIssue(r, o)
  BY <1>15 DEF CheckOrderForIssue
<1>16. CASE \E r \in Route, c \in Courier : CancelIssueSession(r, c)
  BY <1>16 DEF CancelIssueSession
<1>17. CASE \E r \in Route : BeginShip(r)
  BY <1>17 DEF BeginShip, OrdersOf, Idle
<1>18. CASE FinishShip
  <2> DEFINE r == loading.route
  <2>1. /\ loading # Idle /\ r \in Route /\ loading.orders \subseteq Order
        /\ loading.orders \cap Cancelled = {}
    BY <1>18, LoadedRoute DEF FinishShip
  <2>2. /\ state' = [state EXCEPT ![r] = "ACTIVE"]
        /\ courier' = courier /\ open' = open
    BY <1>18 DEF FinishShip
  <2>3. \A o \in loading.orders : cellOf'[o] = None
    BY <1>18, <2>1 DEF FinishShip
  <2>4. \A q \in Route \ {r} : session[q] # None => state'[q] # "ACTIVE"
    BY <2>1, <2>2
  <2>5. \A o \in Order : <<r, o>> \in open' =>
          <<r, o>> \in checks /\ o \notin Cancelled /\ cellOf'[o] = None
    BY <2>1, <2>2, <2>3
  <2> QED BY <2>1, <2>2, <2>4, <2>5
<1>19. CASE AbortShip
  BY <1>19 DEF AbortShip
<1> QED BY NextCases, <1>1, <1>2, <1>3, <1>4, <1>5, <1>6, <1>7, <1>8, <1>9, <1>10,
           <1>11, <1>12, <1>13, <1>14, <1>15, <1>16, <1>17, <1>18, <1>19

(* Every scanned shipment is all or nothing and goes to the right courier. *)
THEOREM ShipmentIsAllOrNothing == Spec => ShippedAsChecked
<1>1. IInv /\ [Next]_vars =>
       [\A r \in Route :
               session[r] # None /\ state'[r] = "ACTIVE"
                 => /\ courier'[r] = session[r]
                    /\ \A o \in Order : <<r, o>> \in open' =>
                         <<r, o>> \in checks /\ o \notin Cancelled /\ cellOf'[o] = None]_vars
  BY ShippedStep
<1> QED BY <1>1, IssueInvariant, PTL DEF Spec, ShippedAsChecked

(* A box leaves its shelf's count before the shelf is let go. *)
LEMMA ShelfKeptStep ==
  ASSUME IInv, [Next]_vars
  PROVE  \A c \in Cell :
           binding[c] # None /\ binding'[c] # binding[c]
             => \/ binding'[c] = None /\ \A o \in Order : cellOf'[o] # c
                \/ state[binding[c]] = "CONFIRMED" /\ state'[binding[c]] = "ACTIVE"
<1> USE DEF IInv, TypeOK, sheetVars, issueVars, shelfVars, orderVars,
           Released, WithoutRoute
<1>1. CASE UNCHANGED vars
  BY <1>1 DEF vars
<1>2. CASE \E r \in Route, orders \in SUBSET Order, c \in Courier \cup {None} :
             CreateSheet(r, orders, c)
  BY <1>2 DEF CreateSheet
<1>3. CASE \E r \in Route, o \in Order :
             AddOrder(r, o) \/ ReturnOrder(r, o) \/ RemoveFromActiveRoute(r, o)
  BY <1>3 DEF AddOrder, ReturnOrder, RemoveFromActiveRoute
<1>4. CASE \E r \in Route : Confirm(r) \/ ReturnToDraft(r) \/ CancelRoute(r)
  BY <1>4 DEF Confirm, ReturnToDraft, CancelRoute
<1>5. CASE \E r \in Route, c \in Courier \cup {None} : SetCourier(r, c)
  BY <1>5 DEF SetCourier
<1>6. CASE \E r \in Route : ShipManually(r) \/ CancelShipment(r)
  BY <1>6 DEF ShipManually, CancelShipment
<1>7. CASE \E r \in Route, new \in Route, moved \in SUBSET Order :
             SplitShipped(r, new, moved)
  BY <1>7 DEF SplitShipped
<1>8. CASE \E o \in Order :
              DecideCancel(o) \/ CancelInSource(o) \/ WithdrawCancellation(o)
  BY <1>8 DEF DecideCancel, CancelInSource, WithdrawCancellation
<1>9. CASE \E p \in Part : Fail(p) \/ CancelFailure(p) \/ DecideAgain(p)
  BY <1>9 DEF Fail, CancelFailure, DecideAgain
<1>10. CASE \E r \in Route, c \in Cell : BindRouteCell(r, c)
  BY <1>10 DEF BindRouteCell
<1>11. CASE \E r \in Route, o \in Order, c \in Cell : PickOrderToRouteCell(r, o, c)
  BY <1>11 DEF PickOrderToRouteCell
<1>12. CASE \E o \in Order, c \in Cell \cup {Storage} : ReceiveOrder(o, c)
  BY <1>12 DEF ReceiveOrder
<1>13. CASE \E o \in Order : WithdrawOrder(o)
  BY <1>13 DEF WithdrawOrder
<1>14. CASE \E r \in Route : ConfirmCourier(r) \/ ResetIssueChecks(r)
  BY <1>14 DEF ConfirmCourier, ResetIssueChecks
<1>15. CASE \E r \in Route, o \in Order : CheckOrderForIssue(r, o)
  BY <1>15 DEF CheckOrderForIssue
<1>16. CASE \E r \in Route, c \in Courier : CancelIssueSession(r, c)
  BY <1>16 DEF CancelIssueSession
<1>17. CASE \E r \in Route : BeginShip(r)
  BY <1>17 DEF BeginShip, OrdersOf, Idle
<1>18. CASE FinishShip
  <2> DEFINE r == loading.route
             boxes == [o \in Order |-> IF o \in loading.orders THEN None ELSE cellOf[o]]
             left == {cellOf[o] : o \in loading.orders}
  <2>1. r \in Route /\ state[r] = "CONFIRMED"
    BY <1>18, LoadedRoute DEF FinishShip, LoadStands, SessionFitsRoute
  <2>2. /\ state' = [state EXCEPT ![r] = "ACTIVE"]
        /\ cellOf' = boxes
        /\ binding' = WithoutRoute(r, Released(left, boxes, binding))
    BY <1>18 DEF FinishShip
  <2>3. ASSUME NEW c \in Cell, binding[c] # None, binding'[c] # binding[c], binding[c] # r
        PROVE  binding'[c] = None /\ \A o \in Order : cellOf'[o] # c
    BY <2>2, <2>3
  <2>4. state'[r] = "ACTIVE"
    BY <2>1, <2>2
  <2> QED BY <2>1, <2>3, <2>4
<1>19. CASE AbortShip
  BY <1>19 DEF AbortShip
<1> QED BY NextCases, <1>1, <1>2, <1>3, <1>4, <1>5, <1>6, <1>7, <1>8, <1>9, <1>10,
           <1>11, <1>12, <1>13, <1>14, <1>15, <1>16, <1>17, <1>18, <1>19

(* No shelf is let go under a box before its sheet ships.                  *)
THEOREM OccupiedShelfIsKept == Spec => ShelfIsKept
<1>1. IInv /\ [Next]_vars =>
       [\A c \in Cell :
               binding[c] # None /\ binding'[c] # binding[c]
                 => \/ binding'[c] = None /\ \A o \in Order : cellOf'[o] # c
                    \/ state[binding[c]] = "CONFIRMED" /\ state'[binding[c]] = "ACTIVE"]_vars
  BY ShelfKeptStep
<1> QED BY <1>1, IssueInvariant, PTL DEF Spec, ShelfIsKept

(* setCourier finds the issued boxes; shipRoute leaves the courier alone. *)
LEMMA CourierStep ==
  ASSUME IInv, [Next]_vars
  PROVE  \A r \in issued :
           courier'[r] # courier[r] => session[r] # None /\ session'[r] = None
<1> USE DEF IInv, TypeOK, sheetVars, issueVars, shelfVars, orderVars,
           SessionFitsRoute, IssueNotStarted, IssuedIsNotEdited
<1>1. CASE UNCHANGED vars
  BY <1>1 DEF vars
<1>2. CASE \E r \in Route, orders \in SUBSET Order, c \in Courier \cup {None} :
             CreateSheet(r, orders, c)
  BY <1>2 DEF CreateSheet
<1>3. CASE \E r \in Route, o \in Order :
             AddOrder(r, o) \/ ReturnOrder(r, o) \/ RemoveFromActiveRoute(r, o)
  BY <1>3 DEF AddOrder, ReturnOrder, RemoveFromActiveRoute
<1>4. CASE \E r \in Route : Confirm(r) \/ ReturnToDraft(r) \/ CancelRoute(r)
  BY <1>4 DEF Confirm, ReturnToDraft, CancelRoute
<1>5. CASE \E r \in Route, c \in Courier \cup {None} : SetCourier(r, c)
  BY <1>5 DEF SetCourier
<1>6. CASE \E r \in Route : ShipManually(r) \/ CancelShipment(r)
  BY <1>6 DEF ShipManually, CancelShipment
<1>7. CASE \E r \in Route, new \in Route, moved \in SUBSET Order :
             SplitShipped(r, new, moved)
  BY <1>7 DEF SplitShipped
<1>8. CASE \E o \in Order :
              DecideCancel(o) \/ CancelInSource(o) \/ WithdrawCancellation(o)
  BY <1>8 DEF DecideCancel, CancelInSource, WithdrawCancellation
<1>9. CASE \E p \in Part : Fail(p) \/ CancelFailure(p) \/ DecideAgain(p)
  BY <1>9 DEF Fail, CancelFailure, DecideAgain
<1>10. CASE \E r \in Route, c \in Cell : BindRouteCell(r, c)
  BY <1>10 DEF BindRouteCell
<1>11. CASE \E r \in Route, o \in Order, c \in Cell : PickOrderToRouteCell(r, o, c)
  BY <1>11 DEF PickOrderToRouteCell
<1>12. CASE \E o \in Order, c \in Cell \cup {Storage} : ReceiveOrder(o, c)
  BY <1>12 DEF ReceiveOrder
<1>13. CASE \E o \in Order : WithdrawOrder(o)
  BY <1>13 DEF WithdrawOrder
<1>14. CASE \E r \in Route : ConfirmCourier(r) \/ ResetIssueChecks(r)
  BY <1>14 DEF ConfirmCourier, ResetIssueChecks
<1>15. CASE \E r \in Route, o \in Order : CheckOrderForIssue(r, o)
  BY <1>15 DEF CheckOrderForIssue
<1>16. CASE \E r \in Route, c \in Courier : CancelIssueSession(r, c)
  BY <1>16 DEF CancelIssueSession
<1>17. CASE \E r \in Route : BeginShip(r)
  BY <1>17 DEF BeginShip, OrdersOf, Idle
<1>18. CASE FinishShip
  BY <1>18, LoadedRoute DEF FinishShip, ChecksOf
<1>19. CASE AbortShip
  BY <1>19 DEF AbortShip
<1> QED BY NextCases, <1>1, <1>2, <1>3, <1>4, <1>5, <1>6, <1>7, <1>8, <1>9, <1>10,
           <1>11, <1>12, <1>13, <1>14, <1>15, <1>16, <1>17, <1>18, <1>19

(* After a hand-over only a cancelled session changes the courier.         *)
THEOREM HandoverKeepsCourier == Spec => CourierOfIssuedRoute
<1>1. IInv /\ [Next]_vars =>
       [\A r \in issued :
               courier'[r] # courier[r] => session[r] # None /\ session'[r] = None]_vars
  BY CourierStep
<1> QED BY <1>1, IssueInvariant, PTL DEF Spec, CourierOfIssuedRoute
-----------------------------------------------------------------------------
(* Refinement of Sheets                                                    *)

OneSheet == \A p, q \in open : p[2] = q[2] => p = q

(* A split makes its new sheet of a route that carries nobody yet.         *)
FreeCarriesNobody == \A p \in open : state[p[1]] # "FREE"

SheetInv == TypeOK /\ OneSheet /\ FreeCarriesNobody

(* Whatever follows Sheets takes an order for one route at a time.         *)
LEMMA SheetsKeepOne ==
  ASSUME TypeOK, OneSheet, [Kept!SheetsNext]_open
  PROVE  OneSheet'
<1> USE DEF TypeOK, OneSheet
<1>1. CASE open' \subseteq open
  BY <1>1
<1>2. CASE \E r \in Route, orders \in SUBSET Order : Kept!Take(r, orders)
  BY <1>2 DEF Kept!Take, Kept!NoneOf
<1>3. CASE \E r \in Route, orders \in SUBSET Order, new \in Route :
             Kept!Move(r, new, orders)
  <2>1. PICK r \in Route, orders \in SUBSET Order, new \in Route :
          Kept!Move(r, new, orders)
    BY <1>3
  <2>2. ASSUME NEW p \in open, p[2] \in orders PROVE p \in {r} \X orders
    <3>1. <<r, p[2]>> \in {r} \X orders /\ <<r, p[2]>> \in open
      BY <2>1, <2>2 DEF Kept!Move
    <3>2. <<r, p[2]>>[2] = p[2]
      OBVIOUS
    <3> QED BY <3>1, <3>2
  <2> QED BY <2>1, <2>2 DEF Kept!Move
<1>4. CASE \/ \E r \in Route : Kept!GiveUp(r)
           \/ \E p \in Part : Kept!Leave(p)
  BY <1>1, <1>4 DEF Kept!GiveUp, Kept!Leave
<1> QED BY <1>1, <1>2, <1>3, <1>4 DEF Kept!SheetsNext, Kept!Attempt

(* Who takes an order off its route without locking it takes it off one.   *)
LEMMA LeavingKeepsSheets ==
  ASSUME TypeOK, OneSheet, NEW o \in Order, NEW kept \in SUBSET Part,
         open' = open \ ((Route \X {o}) \ kept)
  PROVE  [Kept!SheetsNext]_open
<1>1. CASE UNCHANGED open
  BY <1>1
<1>2. CASE ~UNCHANGED open
  <2>1. PICK p \in open : p \in (Route \X {o}) \ kept
    BY <1>2
  <2>2. open' = open \ {p}
    BY <2>1 DEF OneSheet, TypeOK
  <2>3. p \in Part /\ Kept!Leave(p)
    BY <2>2 DEF Kept!Leave, TypeOK
  <2> QED BY <2>3 DEF Kept!SheetsNext, Kept!Attempt
<1> QED BY <1>1, <1>2

LEMMA SheetsStep ==
  ASSUME SheetInv, [Next]_vars
  PROVE  [Kept!SheetsNext]_open
<1> USE DEF SheetInv, TypeOK, sheetVars, issueVars, shelfVars, orderVars
<1>1. CASE UNCHANGED open
  BY <1>1
<1>2. CASE \E r \in Route, orders \in SUBSET Order, c \in Courier \cup {None} :
             CreateSheet(r, orders, c)
  BY <1>2 DEF CreateSheet, Free, Kept!SheetsNext, Kept!Take, Kept!NoneOf
<1>3. CASE \E r \in Route, o \in Order : AddOrder(r, o)
  <2>1. PICK r \in Route, o \in Order : AddOrder(r, o)
    BY <1>3
  <2>2. Kept!Take(r, {o})
    BY <2>1 DEF AddOrder, Free, Kept!Take, Kept!NoneOf
  <2> QED BY <2>2 DEF Kept!SheetsNext
<1>4. CASE \E r \in Route, o \in Order : ReturnOrder(r, o) \/ RemoveFromActiveRoute(r, o)
  <2>1. PICK r \in Route, o \in Order : ReturnOrder(r, o) \/ RemoveFromActiveRoute(r, o)
    BY <1>4
  <2>2. Kept!Leave(<<r, o>>)
    BY <2>1 DEF ReturnOrder, RemoveFromActiveRoute, Kept!Leave
  <2> QED BY <2>2 DEF Kept!SheetsNext, Kept!Attempt
<1>5. CASE \E r \in Route : CancelRoute(r)
  <2>1. PICK r \in Route : CancelRoute(r)
    BY <1>5
  <2>2. Kept!GiveUp(r)
    BY <2>1 DEF CancelRoute, Kept!GiveUp, Kept!OfRoute
  <2> QED BY <2>2 DEF Kept!SheetsNext
<1>6. CASE \E r \in Route, new \in Route, moved \in SUBSET Order :
             SplitShipped(r, new, moved)
  <2>1. PICK r \in Route, new \in Route, moved \in SUBSET Order :
          SplitShipped(r, new, moved)
    BY <1>6
  <2>2. Kept!OfRoute(new) = {}
    BY <2>1 DEF SplitShipped, FreeCarriesNobody, Kept!OfRoute
  <2>3. Kept!Move(r, new, moved)
    BY <2>1, <2>2 DEF SplitShipped, OrdersOf, Kept!Move
  <2> QED BY <2>3 DEF Kept!SheetsNext
<1>7. CASE \E o \in Order : WithdrawCancellation(o)
  BY <1>1, <1>7, LeavingKeepsSheets DEF WithdrawCancellation
<1>8. CASE \E p \in Part : DecideAgain(p)
  <2>1. PICK p \in Part : DecideAgain(p)
    BY <1>8
  <2>2. open' = open \ ((Route \X {p[2]}) \ {})
    BY <2>1 DEF DecideAgain
  <2> QED BY <2>2, LeavingKeepsSheets
<1>9. CASE \/ \E r \in Route : Confirm(r) \/ ReturnToDraft(r)
           \/ \E r \in Route, c \in Courier \cup {None} : SetCourier(r, c)
           \/ \E r \in Route : ShipManually(r) \/ CancelShipment(r)
           \/ \E o \in Order : DecideCancel(o) \/ CancelInSource(o)
           \/ \E p \in Part : Fail(p) \/ CancelFailure(p)
  BY <1>1, <1>9 DEF Confirm, ReturnToDraft, SetCourier, ShipManually, CancelShipment,
                    DecideCancel, CancelInSource, Fail, CancelFailure
<1>10. CASE ShelfStep
  BY <1>1, <1>10 DEF ShelfStep, BindRouteCell, PickOrderToRouteCell, WithdrawOrder,
                     ReceiveOrder
<1>11. CASE IssueStep
  BY <1>1, <1>11 DEF IssueStep, ConfirmCourier, CheckOrderForIssue, ResetIssueChecks,
                     CancelIssueSession, BeginShip, FinishShip, AbortShip
<1>12. CASE UNCHANGED vars
  BY <1>1, <1>12 DEF vars
<1> QED
  BY <1>2, <1>3, <1>4, <1>5, <1>6, <1>7, <1>8, <1>9, <1>10, <1>11, <1>12
     DEF Next, LogisticianStep

LEMMA FreeCarriesNobodyStep ==
  ASSUME TypeOK, FreeCarriesNobody, [Next]_vars
  PROVE  FreeCarriesNobody'
<1> USE DEF TypeOK, FreeCarriesNobody, sheetVars, issueVars, shelfVars, orderVars
<1>1. \A r \in Route : state[r] # "FREE" => state'[r] # "FREE"
  <2>1. CASE UNCHANGED state
    BY <2>1
  <2>2. CASE LogisticianStep
    BY <2>2 DEF LogisticianStep, CreateSheet, Confirm, SetCourier, ReturnToDraft,
       CancelRoute, ShipManually, CancelShipment, SplitShipped, AddOrder, ReturnOrder,
       RemoveFromActiveRoute, DecideCancel, CancelInSource, WithdrawCancellation, Fail,
       CancelFailure, DecideAgain
  <2>3. CASE ShelfStep \/ UNCHANGED vars
    BY <2>1, <2>3 DEF ShelfStep, BindRouteCell, PickOrderToRouteCell, WithdrawOrder,
       ReceiveOrder, vars
  <2>4. CASE IssueStep
    BY <2>4 DEF IssueStep, ConfirmCourier, CheckOrderForIssue, ResetIssueChecks,
       CancelIssueSession, BeginShip, FinishShip, AbortShip
  <2> QED BY <2>2, <2>3, <2>4 DEF Next
<1>2. CASE open' \subseteq open
  BY <1>1, <1>2
<1>3. CASE \E r \in Route, orders \in SUBSET Order, c \in Courier \cup {None} :
             CreateSheet(r, orders, c)
  BY <1>1, <1>3 DEF CreateSheet
<1>4. CASE \E r \in Route, o \in Order : AddOrder(r, o)
  BY <1>1, <1>4 DEF AddOrder
<1>5. CASE \E r \in Route, new \in Route, moved \in SUBSET Order :
             SplitShipped(r, new, moved)
  <2>1. PICK r \in Route, new \in Route, moved \in SUBSET Order :
          SplitShipped(r, new, moved)
    BY <1>5
  <2>2. /\ open' = (open \ ({r} \X moved)) \cup ({new} \X moved)
        /\ state'[new] = "CONFIRMED"
    BY <2>1 DEF SplitShipped
  <2> QED BY <1>1, <2>2
<1>6. CASE LogisticianStep
  BY <1>2, <1>3, <1>4, <1>5, <1>6 DEF LogisticianStep, Confirm, SetCourier,
     ReturnToDraft, CancelRoute, ShipManually, CancelShipment, ReturnOrder,
     RemoveFromActiveRoute, DecideCancel, CancelInSource, WithdrawCancellation, Fail,
     CancelFailure, DecideAgain
<1>7. CASE ShelfStep
  BY <1>2, <1>7 DEF ShelfStep, BindRouteCell, PickOrderToRouteCell, WithdrawOrder,
     ReceiveOrder
<1>8. CASE IssueStep
  BY <1>2, <1>8 DEF IssueStep, ConfirmCourier, CheckOrderForIssue, ResetIssueChecks,
     CancelIssueSession, BeginShip, FinishShip, AbortShip
<1>9. CASE UNCHANGED vars
  BY <1>2, <1>9 DEF vars
<1> QED BY <1>6, <1>7, <1>8, <1>9 DEF Next

(* For every number of routes, orders and couriers the warehouse's module  *)
(* keeps the sheets of Sheets, as the delivery module does                 *)
(* (Delivery_proofs): a box is asked for by one sheet at a time, although  *)
(* decisions and withdrawn cancellations take no route's lock.             *)
THEOREM IssueKeepsSheets == Spec => KeepsSheets
<1>1. Init => open = {} /\ OneSheet /\ FreeCarriesNobody
  BY DEF Init, OneSheet, FreeCarriesNobody
<1>2. SheetInv /\ [Next]_vars => OneSheet' /\ FreeCarriesNobody'
  BY SheetsStep, SheetsKeepOne, FreeCarriesNobodyStep DEF SheetInv
<1>3. SheetInv /\ [Next]_vars => [Kept!SheetsNext]_open
  BY SheetsStep
<1> QED
  BY <1>1, <1>2, <1>3, IssueTypeCorrect, PTL
     DEF Spec, SheetInv, KeepsSheets, Kept!SheetsSpec
=============================================================================
