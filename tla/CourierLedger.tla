---------------------------- MODULE CourierLedger ----------------------------
(***************************************************************************)
(* What one order adds to its courier's account (modules/finance).  A      *)
(* delivered result is accrued: cash received, the fee of the delivery,    *)
(* the fee of the kilometres.  Entries are never changed: an entry is      *)
(* taken back by a reversal on some day of account, and its account may    *)
(* be moved to that day.  Payments and cancellations in the source act     *)
(* later, through jobs of the outbox.                                      *)
(*                                                                         *)
(* Accruals, corrections of kilometres and jobs lock the order's row and   *)
(* are steps of their own; cancelling a result locks the route alone, so   *)
(* it reads and writes in two steps.                                       *)
(***************************************************************************)
EXTENDS Integers, FiniteSets, FiniteSetsExt

CONSTANTS
  Attempt,      \* deliveries of the order that may be recorded
  NoAttempt,
  Sum,          \* DeliveryOrder.sumMinor
  PerOrder,     \* the tariff of the routes
  MaxKm,        \* bound: kilometres, paid 1 each
  LastDay,      \* bound: days of account
  MaxCancels,   \* bound: cancellations in the source
  MaxPayments,  \* bound: growths of the payment
  MaxRestated,  \* bound: kilometre fees booked for an attempt
  MaxByHand     \* bound: entries a person has reversed

ASSUME LedgerAssumption ==
  /\ NoAttempt \notin Attempt
  /\ {Sum, PerOrder, MaxKm, LastDay, MaxRestated} \subseteq Nat \ {0}
  /\ {MaxCancels, MaxPayments, MaxByHand} \subseteq Nat

VARIABLES
  today,
  cancelledInSource,
  cancellations, strips,   \* cancellationCount; cancellation jobs not yet run
  payed,        \* payedSumMinor
  payments, corrections,   \* payment events; their jobs not yet run
  result,       \* Attempt -> no result yet, an active DELIVERED one, cancelled
  routeDay,     \* Attempt -> delivery date of its route
  km,           \* Attempt -> the active distance snapshot, -1 for none
  settled,      \* attempts whose distance was known when they were recorded
  stripped,     \* financeStrippedAt is set
  ledger,       \* entries that accrue
  distance,     \* open kilometre operation: what it read about which attempt
  undo          \* open cancelDeliveryResult: its attempt, the entries it read

orderState == <<today, cancelledInSource, cancellations, strips, payed, payments, corrections>>
ledgerVars == <<orderState, result, routeDay, km, settled, stripped, ledger, distance, undo>>

Day == 1..LastDay
Kind == {"CASH_RECEIVED", "DELIVERY_FEE", "DISTANCE_FEE", "CASH_PAYMENT_CORRECTION"}

Cause == {"none", "MANUAL", "DISTANCE_RESTATED", "RESULT_CANCELLED", "ORDER_CANCELLED"}

(* no is what tells entries of one kind and attempt apart in their key;    *)
(* back and cause are the day (0 without one) and the cause of the         *)
(* reversal; moved: relocated.                                             *)
Entry == [attempt : Attempt, kind : Kind, no : Nat, amount : Int,
          day : Day, back : 0..LastDay, cause : Cause, moved : BOOLEAN]

NoDistance == [op |-> "none", attempt |-> NoAttempt]
Distance == [op : {"correct", "show", "compute"}, attempt : Attempt] \cup {NoDistance}
NoUndo == [attempt |-> NoAttempt, seen |-> {}]

LedgerTypeOK ==
  /\ today \in Day /\ cancelledInSource \in BOOLEAN
  /\ {cancellations, strips} \subseteq 0..MaxCancels
  /\ {payments, corrections} \subseteq 0..MaxPayments
  /\ payed \in 0..Sum
  /\ result \in [Attempt -> {"none", "active", "cancelled"}]
  /\ routeDay \in [Attempt -> Day]
  /\ km \in [Attempt -> -1..MaxKm]
  /\ settled \subseteq Attempt /\ stripped \subseteq Attempt
  /\ \A e \in ledger : e \in Entry
  /\ distance \in Distance
  /\ undo.attempt \in Attempt \cup {NoAttempt} /\ \A e \in undo.seen : e \in Entry

LedgerInit ==
  /\ today = 1 /\ cancelledInSource = FALSE
  /\ cancellations = 0 /\ strips = 0
  /\ payed = 0 /\ payments = 0 /\ corrections = 0
  /\ result = [a \in Attempt |-> "none"]
  /\ routeDay = [a \in Attempt |-> 1]
  /\ km = [a \in Attempt |-> -1]
  /\ settled = {} /\ stripped = {} /\ ledger = {}
  /\ distance = NoDistance
  /\ undo = NoUndo

-----------------------------------------------------------------------------
(* The journal *)

Active(a, kind) == {e \in ledger : e.attempt = a /\ e.kind = kind /\ e.back = 0}
Booked(a, kind) == {e \in ledger : e.attempt = a /\ e.kind = kind}

(* appendLedgerEntry: nothing is booked for no money or under a used key.  *)
Appended(book, a, kind, n, amount, day) ==
  IF amount = 0 \/ \E e \in book : e.attempt = a /\ e.kind = kind /\ e.no = n
    THEN book
    ELSE book \cup {[attempt |-> a, kind |-> kind, no |-> n, amount |-> amount,
                     day |-> day, back |-> 0, cause |-> "none", moved |-> FALSE]}

(* reverseEntry of every entry of which, on day. *)
Reversed(book, which, day, why) ==
  (book \ which) \cup {[e EXCEPT !.back = day, !.cause = why] : e \in which}

(* isFinanceStripped *)
FinanceStripped(a) ==
  a \in stripped /\ \A kind \in Kind : Active(a, kind) = {}

Outstanding == Sum - payed

-----------------------------------------------------------------------------
(* Results *)

(* accrueDeliveryResult: nothing for an order cancelled in the source. *)
Accrue(a, day) ==
  IF cancelledInSource THEN ledger
  ELSE Appended(Appended(Appended(ledger,
         a, "CASH_RECEIVED", 0, Outstanding, day),
         a, "DELIVERY_FEE", 0, -PerOrder, day),
         a, "DISTANCE_FEE", 0, IF km[a] > 0 THEN -km[a] ELSE 0, day)

(* The order is recorded as delivered; another attempt must be over. *)
Deliver(a, day) ==
  /\ \A b \in Attempt : result[b] # "active"
  /\ result[a] = "none"
  /\ day <= today
  /\ result' = [result EXCEPT ![a] = "active"]
  /\ routeDay' = [routeDay EXCEPT ![a] = day]
  /\ settled' = IF km[a] >= 0 THEN settled \cup {a} ELSE settled
  /\ ledger' = Accrue(a, day)
  /\ UNCHANGED <<orderState, km, stripped, distance, undo>>

(* cancelDeliveryResult reads the attempt and the entries not yet reversed.*)
StartUndo(a) ==
  /\ undo = NoUndo
  /\ result[a] = "active"
  /\ undo' = [attempt |-> a, seen |-> {e \in ledger : e.attempt = a /\ e.back = 0}]
  /\ UNCHANGED <<orderState, result, routeDay, km, settled, stripped, ledger, distance>>

(* It reverses them on the day of the correction; an entry reversed in     *)
(* between breaks the key of the reversal and rolls it back.               *)
EndUndo ==
  /\ undo # NoUndo
  /\ IF undo.seen \subseteq ledger
       THEN /\ result' = [result EXCEPT ![undo.attempt] = "cancelled"]
            /\ ledger' = Reversed(ledger, undo.seen, today, "RESULT_CANCELLED")
       ELSE UNCHANGED <<result, ledger>>
  /\ undo' = NoUndo
  /\ UNCHANGED <<orderState, routeDay, km, settled, stripped, distance>>

(* A person takes one entry back, today. *)
ReverseByHand(e) ==
  /\ e.back = 0
  /\ Cardinality({x \in ledger : x.cause = "MANUAL"}) < MaxByHand
  /\ ledger' = Reversed(ledger, {e}, today, "MANUAL")
  /\ UNCHANGED <<orderState, result, routeDay, km, settled, stripped, distance, undo>>

-----------------------------------------------------------------------------
(* Kilometres *)

(* A correction by hand (PUT distances) reads whether the order was        *)
(* delivered before it locks the order.                                    *)
StartCorrection(a) ==
  /\ distance = NoDistance
  /\ distance' = [op |-> IF result[a] = "active" THEN "correct" ELSE "show", attempt |-> a]
  /\ UNCHANGED <<orderState, result, routeDay, km, settled, stripped, ledger, undo>>

(* The job for the distance found no snapshot and asks the router.         *)
StartComputation(a) ==
  /\ distance = NoDistance
  /\ km[a] = -1
  /\ distance' = [op |-> "compute", attempt |-> a]
  /\ UNCHANGED <<orderState, result, routeDay, km, settled, stripped, ledger, undo>>

(* The distance is saved over whatever snapshot there is.                  *)
SavesDistance(op, n) ==
  /\ distance.op = op
  /\ distance' = NoDistance
  /\ km' = [km EXCEPT ![distance.attempt] = n]
  /\ UNCHANGED <<orderState, result, routeDay, settled, stripped, undo>>

(* Nobody has delivered yet: the delivery will read the distance.          *)
ShowDistance(n) == SavesDistance("show", n) /\ UNCHANGED ledger

(* restateDistanceFee: the fees so far are reversed today, the new one is  *)
(* booked today, under a key of its own.                                   *)
RestateDistanceFee(n) ==
  LET a == distance.attempt
      old == Active(a, "DISTANCE_FEE")
      used == Cardinality(Booked(a, "DISTANCE_FEE"))
  IN
  /\ SavesDistance("correct", n)
  /\ used < MaxRestated
  /\ ledger' = IF cancelledInSource \/ FinanceStripped(a) \/ MapThenSumSet(LAMBDA e : -e.amount, old) = n
                 THEN ledger
                 ELSE Appended(Reversed(ledger, old, today, "DISTANCE_RESTATED"),
                               a, "DISTANCE_FEE", used, -n, today)

(* The router answers: a delivery recorded without a distance gets its fee *)
(* now, on the day of its route (accrueDistanceFee, catching up).          *)
CatchUpDistanceFee(n) ==
  LET a == distance.attempt IN
  /\ SavesDistance("compute", n)
  /\ ledger' =
       IF result[a] # "active" \/ cancelledInSource \/ FinanceStripped(a)
            \/ Active(a, "DISTANCE_FEE") # {} \/ a \in settled
         THEN ledger
         ELSE Appended(ledger, a, "DISTANCE_FEE", 0, -n, routeDay[a])

-----------------------------------------------------------------------------
(* The source *)

Cancel ==
  /\ ~cancelledInSource /\ cancellations < MaxCancels
  /\ cancelledInSource' = TRUE
  /\ cancellations' = cancellations + 1 /\ strips' = strips + 1
  /\ UNCHANGED <<today, payed, payments, corrections, result, routeDay, km, settled,
                 stripped, ledger, distance, undo>>

WithdrawCancellation ==
  /\ cancelledInSource
  /\ cancelledInSource' = FALSE
  /\ UNCHANGED <<today, cancellations, strips, payed, payments, corrections, result,
                 routeDay, km, settled, stripped, ledger, distance, undo>>

(* Another payed sum; only a growth is an event.                           *)
Pay(n) ==
  /\ payed' = n
  /\ IF n > payed
       THEN /\ payments < MaxPayments
            /\ payments' = payments + 1 /\ corrections' = corrections + 1
       ELSE n < payed /\ UNCHANGED <<payments, corrections>>
  /\ UNCHANGED <<today, cancelledInSource, cancellations, strips, result, routeDay, km, settled,
                 stripped, ledger, distance, undo>>

-----------------------------------------------------------------------------
(* Jobs *)

(* What the correction of the cash entry e takes off, and of what is left. *)
Removed(a) == MapThenSumSet(LAMBDA e : -e.amount, Active(a, "CASH_PAYMENT_CORRECTION"))
Excess(e) ==
  LET left == IF Outstanding < e.amount THEN Outstanding ELSE e.amount
  IN  e.amount - Removed(e.attempt) - left

Corrected(e) ==
  [attempt |-> e.attempt, kind |-> "CASH_PAYMENT_CORRECTION", no |-> payed,
   amount |-> -Excess(e), day |-> today, back |-> 0, cause |-> "none", moved |-> FALSE]

(* applyCashPaymentCorrection: keyed by the attempt and the payed sum.     *)
CorrectCash ==
  /\ corrections > 0
  /\ corrections' = corrections - 1
  /\ ledger' =
       IF cancelledInSource THEN ledger
       ELSE ledger \cup
         {Corrected(e) : e \in {c \in UNION {Active(a, "CASH_RECEIVED") : a \in Attempt} :
            /\ Excess(c) > 0
            /\ \A k \in Booked(c.attempt, "CASH_PAYMENT_CORRECTION") : k.no # payed}}
  /\ UNCHANGED <<today, cancelledInSource, cancellations, strips, payed, payments, result,
                 routeDay, km, settled, stripped, distance, undo>>

SameDay(e) == [e EXCEPT !.back = e.day, !.cause = "ORDER_CANCELLED"]

StripActiveOnly ==   \* mutant: what was reversed before is left where it is
  /\ strips > 0
  /\ strips' = strips - 1
  /\ IF cancelledInSource
       THEN /\ stripped' = stripped \cup {a \in Attempt : result[a] = "active"}
            /\ ledger' = {IF e.back = 0 THEN SameDay(e) ELSE e : e \in ledger}
       ELSE UNCHANGED <<stripped, ledger>>
  /\ UNCHANGED <<today, cancelledInSource, cancellations, payed, payments, corrections, result,
                 routeDay, km, settled, distance, undo>>

(* stripCancelledOrderFinance: every entry is reversed on its own day; one *)
(* reversed on another day has its account moved to that day.              *)
Strip ==
  /\ strips > 0
  /\ strips' = strips - 1
  /\ IF cancelledInSource
       THEN /\ stripped' = stripped \cup {a \in Attempt : result[a] = "active"}
            /\ ledger' = {CASE e.back = 0              -> SameDay(e)
                            [] e.back \notin {0, e.day} -> [e EXCEPT !.moved = TRUE]
                            [] OTHER                    -> e : e \in ledger}
       ELSE UNCHANGED <<stripped, ledger>>
  /\ UNCHANGED <<today, cancelledInSource, cancellations, payed, payments, corrections, result,
                 routeDay, km, settled, distance, undo>>

NextDay ==
  /\ today < LastDay
  /\ today' = today + 1
  /\ UNCHANGED <<cancelledInSource, cancellations, strips, payed, payments, corrections, result,
                 routeDay, km, settled, stripped, ledger, distance, undo>>

-----------------------------------------------------------------------------
LedgerNext ==
  \/ \E a \in Attempt, d \in Day : Deliver(a, d)
  \/ \E a \in Attempt : StartUndo(a) \/ StartCorrection(a) \/ StartComputation(a)
  \/ EndUndo
  \/ \E e \in ledger : ReverseByHand(e)
  \/ \E n \in 0..MaxKm : ShowDistance(n) \/ RestateDistanceFee(n) \/ CatchUpDistanceFee(n)
  \/ Cancel \/ WithdrawCancellation
  \/ \E n \in 0..Sum : Pay(n)
  \/ CorrectCash \/ Strip
  \/ NextDay

LedgerSpec == LedgerInit /\ [][LedgerNext]_ledgerVars

-----------------------------------------------------------------------------
(* Properties *)

(* What the courier's account shows for the order on day d. *)
Shown(d) ==
  LET On(n, e) == IF n = d THEN e.amount ELSE 0
      Net(e) == (On(e.day, e) - On(e.back, e)) * (IF e.moved THEN 0 ELSE 1)
  IN  MapThenSumSet(Net, ledger)

(* An order cancelled in the source, its jobs done, counts for nothing on  *)
(* any day, whenever it was delivered, paid, measured or corrected.        *)
CancelledOrderIsZero ==
  cancelledInSource /\ strips = 0 => \A d \in Day : Shown(d) = 0

(* A cancelled result leaves neither a debt nor a fee. *)
CancelledResultIsZero ==
  \A a \in Attempt : result[a] = "cancelled" => \A kind \in Kind : Active(a, kind) = {}
=============================================================================
