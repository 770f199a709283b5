---------------------------- MODULE StateExport ----------------------------
(***************************************************************************)
(* Telling MoySklad where an order stands                                  *)
(* (integrations/moysklad/state-sync.ts).  Assembly, shipping, a delivery  *)
(* result and a decision of the logistician each leave a message in the    *)
(* outbox, with a number drawn per order; workers pass them on in any      *)
(* order, repeatedly, and are cut off at any moment, so MoySklad may have  *)
(* been changed by a transaction that never committed.                     *)
(*                                                                         *)
(* One order.  Handlers of one order exclude each other by an advisory     *)
(* lock; a message that was given up stays in the queue, where an          *)
(* administrator may ask for it again.                                     *)
(***************************************************************************)
EXTENDS Integers, FiniteSets

CONSTANTS
  Sheet,      \* routes the order is shipped with
  MaxSeq,     \* bound: events of the order
  MaxLate     \* bound: requests that reach MoySklad after their handler ended

ASSUME ExportAssumption == MaxSeq \in Nat \ {0} /\ MaxLate \in Nat

VARIABLES
  stage,      \* where the order stands in the ERP
  assembled,  \* fulfillmentProcessState ASSEMBLED
  round,      \* assemblyRound
  sent,       \* idempotency keys of the outbox that can come a second time
  seq,        \* OrderMoyskladState.enqueuedSeq
  queue,      \* messages not yet processed
  call,       \* the handler inside the lock
  done,       \* appliedSeq, appliedRank
  shown,      \* the state MoySklad shows
  late,       \* requests on their way without a handler
  overtaken   \* the state shown came from such a request

erpVars == <<stage, assembled, round, sent, seq>>
handlerVars == <<call, done, shown, late, overtaken>>
exportVars == <<erpVars, queue, handlerVars>>

Target == {"awaiting_shipment", "delivering", "completed", "cancelled"}

Rank == [awaiting_shipment |-> 1, delivering |-> 2, completed |-> 3, cancelled |-> 3]

StateMessage == [target : Target, seq : 1..MaxSeq]
NoCall == [step |-> "idle", target |-> "none", seq |-> 0]

ExportTypeOK ==
  /\ stage \in {"home", "away", "failed", "delivered", "cancelled"} /\ assembled \in BOOLEAN
  /\ round \in 1..MaxSeq /\ seq \in 0..MaxSeq
  /\ sent \subseteq ({"assembled"} \X (1..MaxSeq)) \cup ({"delivering"} \X Sheet)
  /\ queue \subseteq StateMessage
  /\ \/ call = NoCall
     \/ call.step \in {"sending", "landed"} /\ [target |-> call.target, seq |-> call.seq] \in queue
  /\ done \in [seq : 0..MaxSeq, rank : 0..3]
  /\ shown \in Target \cup {"new"}
  /\ late \subseteq Target /\ overtaken \in BOOLEAN

ExportInit ==
  /\ stage = "home" /\ assembled = FALSE /\ round = 1 /\ sent = {} /\ seq = 0
  /\ queue = {} /\ call = NoCall /\ done = [seq |-> 0, rank |-> 0]
  /\ shown = "new" /\ late = {} /\ overtaken = FALSE

-----------------------------------------------------------------------------
(* Events of the ERP *)

(* enqueueOrderStateSync: the number is drawn even when the outbox already *)
(* has a message with this key.                                            *)
Enqueue(target, keys) ==
  /\ seq < MaxSeq
  /\ seq' = seq + 1
  /\ sent' = sent \cup keys
  /\ queue' = IF keys # {} /\ keys \subseteq sent
                THEN queue ELSE queue \cup {[target |-> target, seq |-> seq + 1]}

Assemble ==
  /\ ~assembled /\ stage # "cancelled"
  /\ assembled' = TRUE
  /\ Enqueue("awaiting_shipment", {<<"assembled", round>>})
  /\ UNCHANGED <<stage, round, handlerVars>>

(* A new round of assembly, wherever the bouquet of the last one is. *)
Reassemble ==
  /\ assembled /\ round < MaxSeq
  /\ assembled' = FALSE /\ round' = round + 1
  /\ stage' = stage \/ (stage = "failed" /\ stage' = "home")
  /\ UNCHANGED <<sent, seq, queue, handlerVars>>

(* enqueueRouteActivatedStateSync, for this order of the route. *)
ShipOrder(r) ==
  /\ stage = "home" /\ assembled
  /\ stage' = "away"
  /\ Enqueue("delivering", {<<"delivering", r>>})
  /\ UNCHANGED <<assembled, round, handlerVars>>

DeliverOrder ==
  /\ stage = "away"
  /\ stage' = "delivered"
  /\ Enqueue("completed", {})
  /\ UNCHANGED <<assembled, round, handlerVars>>

(* The decision CANCELLED; its task may have outlived the failed result.   *)
CancelOrder ==
  /\ stage # "cancelled"
  /\ stage' = "cancelled"
  /\ Enqueue("cancelled", {})
  /\ UNCHANGED <<assembled, round, handlerVars>>

(* Steps MoySklad is not told about: a failed delivery, a result taken     *)
(* back, a shipment cancelled or an order taken off its route, the decision *)
(* to send the same bouquet again.                                         *)
SilentStep ==
  /\ \/ stage = "away" /\ stage' \in {"failed", "home"}
     \/ stage \in {"delivered", "failed"} /\ stage' \in {"away", "home"}
  /\ UNCHANGED <<assembled, round, sent, seq, queue, handlerVars>>

-----------------------------------------------------------------------------
(* The handler *)

RankAlone(m) == Rank[m.target] < done.rank   \* mutant: inside a rank the last to come wins

(* A stage does not follow a later one; inside a rank the number decides.  *)
Outdated(m) ==
  \/ Rank[m.target] < done.rank
  \/ Rank[m.target] = done.rank /\ m.seq <= done.seq

(* The lock is taken and the state is read: an outdated message is done. *)
TakeMessage(m) ==
  /\ call = NoCall /\ m \in queue
  /\ IF Outdated(m)
       THEN queue' = queue \ {m} /\ UNCHANGED call
       ELSE call' = [step |-> "sending", target |-> m.target, seq |-> m.seq] /\ UNCHANGED queue
  /\ UNCHANGED <<erpVars, done, shown, late, overtaken>>

(* putCustomerOrderState reaches MoySklad. *)
Land ==
  /\ call.step = "sending"
  /\ call' = [call EXCEPT !.step = "landed"]
  /\ shown' = call.target /\ overtaken' = FALSE
  /\ UNCHANGED <<erpVars, queue, done, late>>

(* The transaction commits: the numbers and the message. *)
CommitState ==
  /\ call.step = "landed"
  /\ done' = [seq |-> call.seq, rank |-> Rank[call.target]]
  /\ queue' = queue \ {[target |-> call.target, seq |-> call.seq]}
  /\ call' = NoCall
  /\ UNCHANGED <<erpVars, shown, late, overtaken>>

(* The request fails, the transaction exceeds its time, the lease is lost  *)
(* or the process ends: nothing is committed and the message stays.        *)
AbortState ==
  /\ call # NoCall
  /\ call' = NoCall
  /\ \/ UNCHANGED late
     \/ /\ call.step = "sending" /\ Cardinality(late) < MaxLate
        /\ late' = late \cup {call.target}
  /\ UNCHANGED <<erpVars, queue, done, shown, overtaken>>

(* A request whose handler is gone reaches MoySklad. *)
LandLate(target) ==
  /\ target \in late
  /\ late' = late \ {target}
  /\ shown' = target /\ overtaken' = TRUE
  /\ UNCHANGED <<erpVars, queue, call, done>>

-----------------------------------------------------------------------------
ExportNext ==
  \/ Assemble \/ Reassemble \/ DeliverOrder \/ CancelOrder \/ SilentStep
  \/ \E r \in Sheet : ShipOrder(r)
  \/ \E m \in queue : TakeMessage(m)
  \/ Land \/ CommitState \/ AbortState
  \/ \E target \in late : LandLate(target)

ExportSpec == ExportInit /\ [][ExportNext]_exportVars

-----------------------------------------------------------------------------
(* Properties *)

(* MoySklad ends up with the outcome the ERP has: once every message is    *)
(* processed, a delivered order is shown as completed and a cancelled one  *)
(* as cancelled, whatever was delayed, repeated or cut off on the way; only *)
(* a request that arrives after its handler ended can spoil it.            *)
OutcomeIsShown ==
  queue = {} /\ call = NoCall /\ ~overtaken =>
    /\ stage = "delivered" => shown = "completed"
    /\ stage = "cancelled" => shown = "cancelled"

(* A state MoySklad has shown is never replaced by an earlier stage.       *)
ShownOnlyAdvances ==
  [][shown # "new" => Rank[shown'] >= Rank[shown]]_exportVars
=============================================================================
