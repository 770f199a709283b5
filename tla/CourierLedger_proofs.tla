------------------------ MODULE CourierLedger_proofs ------------------------
(***************************************************************************)
(* Proofs about CourierLedger, for every set of deliveries, every sum and  *)
(* tariff and every bound.                                                 *)
(***************************************************************************)
EXTENDS CourierLedger, FiniteSetTheorems, TLAPS

-----------------------------------------------------------------------------
(* Sums over finite sets.  The induction is over a set of counterexamples, *)
(* by its smallest member.                                                 *)

Some(s) == CHOOSE x \in s : TRUE

(* total is what MapThenSumSet computes, for weights w, of the subsets of S.*)
AddsUp(total, w, S) ==
  total = [s \in SUBSET S |-> IF s = {} THEN 0 ELSE w[Some(s)] + total[s \ {Some(s)}]]

(* Induction over the subsets of a finite set, in first-order form. *)
LEMMA SmallestSubset ==
  ASSUME NEW S, IsFiniteSet(S), NEW T, T \subseteq SUBSET S, T # {}
  PROVE  \E t \in T : \A u \in T : ~(u \subseteq t /\ u # t)
<1>1. T \subseteq FiniteSubsetsOf(S)
  BY FS_FiniteSubsetsOfFinite
<1>2. IsWellFoundedOn(StrictSubsetOrdering(S), FiniteSubsetsOf(S))
  BY FS_StrictSubsetOrderingWellFounded
<1>3. \E t \in T : \A u \in T : ~(<<u, t>> \in StrictSubsetOrdering(S))
  BY <1>1, <1>2, WFMin
<1> QED BY <1>3 DEF StrictSubsetOrdering

(* What is kept by adding any one of the weights is kept by the sum. *)
LEMMA SumStaysIn ==
  ASSUME NEW S, IsFiniteSet(S), NEW w, NEW total, AddsUp(total, w, S),
         NEW V, 0 \in V, \A x \in S, v \in V : w[x] + v \in V
  PROVE  total[S] \in V
<1> DEFINE T == {s \in SUBSET S : total[s] \notin V}
<1>1. SUFFICES ASSUME T # {} PROVE FALSE
  OBVIOUS
<1>2. PICK t \in T : \A u \in T : ~(u \subseteq t /\ u # t)
  <2>1. T \subseteq SUBSET S
    OBVIOUS
  <2> HIDE DEF T
  <2> QED BY <1>1, <2>1, SmallestSubset
<1>3. total[t] = IF t = {} THEN 0 ELSE w[Some(t)] + total[t \ {Some(t)}]
  BY DEF AddsUp
<1>4. t # {}
  BY <1>2, <1>3
<1>5. Some(t) \in t
  BY <1>4 DEF Some
<1>6. t \ {Some(t)} \notin T
  BY <1>2, <1>5
<1>7. total[t \ {Some(t)}] \in V
  BY <1>6
<1> QED BY <1>2, <1>3, <1>4, <1>5, <1>7

(* A set of numbers that is not empty has a least one. *)
LEMMA LeastNumber ==
  ASSUME NEW T, T \subseteq Nat, T # {}
  PROVE  \E n \in T : \A m \in T : n <= m
<1>1. PICK k \in T : TRUE
  OBVIOUS
<1> DEFINE U == {m \in T : m <= k}
           F == {s \in SUBSET (1..k) : \E m \in U : s = 1..m}
<1>2. IsFiniteSet(1..k)
  BY FS_Interval
<1>3. \A m \in U : 1..m \in F
  BY <1>1
<1>4. F # {}
  <2>1. 1..k \in F
    <3>1. k \in U
      BY <1>1
    <3> HIDE DEF F, U
    <3> QED BY <3>1, <1>3
  <2> HIDE DEF F
  <2> QED BY <2>1
<1>5. PICK s \in F : \A u \in F : ~(u \subseteq s /\ u # s)
  <2> DEFINE S == 1..k
  <2>1. F \subseteq SUBSET S /\ IsFiniteSet(S)
    BY <1>2
  <2> HIDE DEF F, S
  <2> QED BY <1>4, <2>1, SmallestSubset
<1>6. PICK n \in U : s = 1..n
  OBVIOUS
<1>7. ASSUME NEW m \in T, m < n PROVE FALSE
  <2>1. 1..m \in F /\ 1..m \subseteq 1..n
    BY <1>3, <1>7
  <2>2. n \in 1..n /\ n \notin 1..m
    BY <1>7
  <2> QED BY <1>5, <1>6, <2>1, <2>2
<1> QED BY <1>6, <1>7

(* The recursion of MapThenSumSet has a solution. *)
LEMMA SumExists ==
  ASSUME NEW S, IsFiniteSet(S), NEW w
  PROVE  \E total : AddsUp(total, w, S)
<1> DEFINE Up(total, s) == total[s] = IF s = {} THEN 0 ELSE w[Some(s)] + total[s \ {Some(s)}]
           Upto(total, n) == \A s \in SUBSET S : Cardinality(s) <= n => Up(total, s)
           Good(total, n) == (total = [s \in SUBSET S |-> total[s]]) /\ Upto(total, n)
           T == {n \in Nat : ~\E total : Good(total, n)}
<1>1. \A s \in SUBSET S : IsFiniteSet(s) /\ Cardinality(s) \in Nat
  BY FS_Subset, FS_CardinalityType
<1>2. Cardinality(S) \in Nat /\ \A s \in SUBSET S : Cardinality(s) <= Cardinality(S)
  BY <1>1, FS_Subset
<1>3. \A s \in SUBSET S : s # {} => /\ Some(s) \in s /\ s \ {Some(s)} \in SUBSET S
                                    /\ Cardinality(s \ {Some(s)}) = Cardinality(s) - 1
  BY <1>1, FS_RemoveElement DEF Some
<1>4. T = {}
  <2> SUFFICES ASSUME T # {} PROVE FALSE
    OBVIOUS
  <2>1. PICK n \in T : \A m \in T : n <= m
    BY LeastNumber
  <2>2. CASE n = 0
    <3> DEFINE zero == [s \in SUBSET S |-> 0]
    <3>1. Good(zero, 0)
      BY <1>1, FS_EmptySet
    <3> QED BY <2>1, <2>2, <3>1
  <2>3. CASE n # 0
    <3>1. n \in Nat /\ n - 1 \in Nat /\ n - 1 \notin T
      <4>1. T \subseteq Nat
        OBVIOUS
      <4> HIDE DEF T
      <4>2. n \in Nat
        BY <4>1
      <4> QED BY <2>1, <2>3, <4>2
    <3>2. PICK total : Good(total, n - 1)
      BY <3>1
    <3> DEFINE next == [s \in SUBSET S |-> IF Cardinality(s) <= n - 1 THEN total[s]
                                           ELSE w[Some(s)] + total[s \ {Some(s)}]]
    <3>3. ASSUME NEW s \in SUBSET S, Cardinality(s) <= n PROVE Up(next, s)
      <4>1. CASE s = {}
        <5>1. Cardinality(s) <= n - 1
          BY <3>1, <4>1, FS_EmptySet
        <5>2. next[s] = total[s] /\ total[s] = 0
          BY <3>2, <4>1, <5>1
        <5> QED BY <4>1, <5>2
      <4>2. CASE s # {}
        <5>1. Cardinality(s \ {Some(s)}) <= n - 1
          BY <1>1, <1>3, <3>1, <3>3, <4>2
        <5>2. next[s \ {Some(s)}] = total[s \ {Some(s)}]
          BY <1>3, <4>2, <5>1
        <5>3. next[s] = w[Some(s)] + total[s \ {Some(s)}]
          BY <3>2, <4>2
        <5> QED BY <4>2, <5>2, <5>3
      <4> QED BY <4>1, <4>2
    <3>4. next = [s \in SUBSET S |-> next[s]]
      OBVIOUS
    <3> HIDE DEF next
    <3>5. Good(next, n)
      BY <3>3, <3>4
    <3> QED BY <2>1, <3>5
  <2> QED BY <2>2, <2>3
<1>5. PICK total : Good(total, Cardinality(S))
  BY <1>2, <1>4
<1>6. \A s \in SUBSET S : Up(total, s)
  BY <1>2, <1>5
<1> QED BY <1>5, <1>6 DEF AddsUp

LEMMA SumOfAmounts ==
  ASSUME NEW S, IsFiniteSet(S), \A e \in S : e.amount \in Int
  PROVE  MapThenSumSet(LAMBDA e : -e.amount, S) \in Int
<1> DEFINE w == [e \in S |-> -e.amount]
           total == CHOOSE t : t = [s \in SUBSET S |-> IF s = {} THEN 0 ELSE -Some(s).amount + t[s \ {Some(s)}]]
<1>1. MapThenSumSet(LAMBDA e : -e.amount, S) = total[S]
  BY DEF MapThenSumSet, MapThenFoldSet, Some
<1>2. \A t : AddsUp(t, w, S) <=> t = [s \in SUBSET S |-> IF s = {} THEN 0 ELSE -Some(s).amount + t[s \ {Some(s)}]]
  <2>1. \A s \in SUBSET S : s # {} => w[Some(s)] = -Some(s).amount
    BY DEF Some
  <2> HIDE DEF w
  <2>2. ASSUME NEW t
        PROVE  [s \in SUBSET S |-> IF s = {} THEN 0 ELSE w[Some(s)] + t[s \ {Some(s)}]]
               = [s \in SUBSET S |-> IF s = {} THEN 0 ELSE -Some(s).amount + t[s \ {Some(s)}]]
    BY <2>1
  <2> QED BY <2>2 DEF AddsUp
<1>3. \E t : AddsUp(t, w, S)
  <2> HIDE DEF w
  <2> QED BY SumExists
<1>4. AddsUp(total, w, S)
  <2> HIDE DEF w
  <2> QED BY <1>2, <1>3
<1>5. \A x \in S, v \in Int : w[x] + v \in Int
  OBVIOUS
<1> HIDE DEF total, w
<1>6. total[S] \in Int
  BY <1>4, <1>5, SumStaysIn
<1> QED BY <1>1, <1>6

-----------------------------------------------------------------------------
(* Types, and what they rest on *)

(* A cancellation waits at most once, a growth of the payment likewise; an *)
(* open correction of a result has read entries that nobody had reversed.  *)
LedgerSound ==
  /\ IsFiniteSet(ledger)
  /\ strips <= cancellations /\ corrections <= payments
  /\ \A e \in undo.seen : e.back = 0

(* An entry reversed on its own day, or moved to the day of its reversal,  *)
(* adds nothing to any day.                                                *)
Neutral(e) == e.back # 0 /\ (e.moved \/ e.back = e.day)

EntriesNeutral == cancelledInSource /\ strips = 0 => \A e \in ledger : Neutral(e)

LedgerInv == LedgerTypeOK /\ LedgerSound /\ EntriesNeutral

LEMMA DayIsNat == Day \subseteq Nat \ {0} /\ Day \subseteq 0..LastDay /\ 1 \in Day
BY LedgerAssumption DEF Day

LEMMA NumbersAre ==
  /\ {Sum, PerOrder, MaxKm, LastDay, MaxRestated} \subseteq Nat \ {0}
  /\ MaxCancels \in Nat /\ MaxPayments \in Nat /\ MaxByHand \in Nat
BY LedgerAssumption

LEMMA Scalars ==
  ASSUME LedgerTypeOK
  PROVE  /\ today \in Nat /\ today \in Day
         /\ cancellations \in Nat /\ strips \in Nat /\ payments \in Nat /\ corrections \in Nat
         /\ payed \in Nat /\ Outstanding \in Int /\ payed <= Sum
BY NumbersAre, DayIsNat DEF LedgerTypeOK, Outstanding

Back(e, d, why) == [e EXCEPT !.back = d, !.cause = why]

LEMMA EntryReversed ==
  ASSUME NEW e \in Entry, NEW d \in Day, NEW why \in Cause
  PROVE  /\ Back(e, d, why) \in Entry
         /\ Back(e, d, why).back = d /\ Back(e, d, why).day = e.day
<1>1. d \in 0..LastDay
  BY DayIsNat
<1> QED BY <1>1 DEF Entry, Back

LEMMA EntryMoved ==
  ASSUME NEW e \in Entry
  PROVE  /\ [e EXCEPT !.moved = TRUE] \in Entry
         /\ [e EXCEPT !.moved = TRUE].moved
         /\ [e EXCEPT !.moved = TRUE].back = e.back
BY DEF Entry

LEMMA EntryBooked ==
  ASSUME NEW a \in Attempt, NEW kind \in Kind, NEW n \in Nat, NEW amount \in Int, NEW d \in Day
  PROVE  [attempt |-> a, kind |-> kind, no |-> n, amount |-> amount,
          day |-> d, back |-> 0, cause |-> "none", moved |-> FALSE] \in Entry
<1>1. 0 \in 0..LastDay /\ "none" \in Cause
  BY NumbersAre DEF Cause
<1> QED BY <1>1 DEF Entry

(* Same-day reversal and moving leave every entry neutral. *)
LEMMA StrippedEntry ==
  ASSUME NEW e \in Entry
  PROVE  /\ e.back = 0 => SameDay(e) \in Entry /\ Neutral(SameDay(e))
         /\ e.back # 0 => [e EXCEPT !.moved = TRUE] \in Entry /\ Neutral([e EXCEPT !.moved = TRUE])
<1>1. e.day \in Day /\ "ORDER_CANCELLED" \in Cause
  BY DEF Entry, Cause
<1>2. SameDay(e) = Back(e, e.day, "ORDER_CANCELLED")
  BY DEF SameDay, Back
<1>3. SameDay(e) \in Entry /\ SameDay(e).back = e.day /\ SameDay(e).day = e.day
  BY <1>1, <1>2, EntryReversed
<1>4. e.day # 0
  BY <1>1, DayIsNat
<1> QED BY <1>3, <1>4, EntryMoved DEF Neutral

-----------------------------------------------------------------------------
(* The books *)

IsBook(book) == IsFiniteSet(book) /\ \A e \in book : e \in Entry

LEMMA ImageIsFinite ==
  ASSUME NEW f, IsFiniteSet(DOMAIN f)
  PROVE  IsFiniteSet({f[x] : x \in DOMAIN f})
<1> DEFINE S == DOMAIN f
           T == {f[x] : x \in S}
<1>1. \A y \in T : \E x \in S : f[x] = y
  OBVIOUS
<1> DEFINE g == [x \in S |-> f[x]]
<1>3. g \in Surjection(S, T)
  BY <1>1 DEF Surjection
<1> HIDE DEF S, T, g
<1>4. IsFiniteSet(S)
  BY DEF S
<1>5. IsFiniteSet(T)
  BY <1>3, <1>4, FS_Surjection
<1> QED BY <1>5 DEF T, S

LEMMA AppendedIsBook ==
  ASSUME NEW book, IsBook(book), NEW a \in Attempt, NEW kind \in Kind, NEW n \in Nat,
         NEW amount \in Int, NEW d \in Day
  PROVE  IsBook(Appended(book, a, kind, n, amount, d))
<1> DEFINE e == [attempt |-> a, kind |-> kind, no |-> n, amount |-> amount,
                 day |-> d, back |-> 0, cause |-> "none", moved |-> FALSE]
<1>1. e \in Entry
  BY EntryBooked
<1>2. Appended(book, a, kind, n, amount, d) \in {book, book \cup {e}}
  BY DEF Appended
<1> HIDE DEF e
<1>3. IsFiniteSet(book \cup {e})
  BY FS_AddElement DEF IsBook
<1> QED BY <1>1, <1>2, <1>3 DEF IsBook

LEMMA ReversedIsBook ==
  ASSUME NEW book, IsBook(book), NEW which \in SUBSET book, NEW d \in Day, NEW why \in Cause
  PROVE  IsBook(Reversed(book, which, d, why))
<1> DEFINE f == [e \in which |-> Back(e, d, why)]
           T == {f[e] : e \in DOMAIN f}
<1>1. Reversed(book, which, d, why) = (book \ which) \cup T
  BY DEF Reversed, Back
<1>2. \A e \in T : e \in Entry
  BY EntryReversed DEF IsBook
<1>3. IsFiniteSet(which) /\ IsFiniteSet(book \ which)
  BY FS_Subset DEF IsBook
<1>4. IsFiniteSet(DOMAIN f)
  BY <1>3
<1> HIDE DEF f
<1>5. IsFiniteSet(T)
  BY <1>4, ImageIsFinite
<1> HIDE DEF T
<1>6. IsFiniteSet((book \ which) \cup T)
  BY <1>3, <1>5, FS_Union
<1> QED BY <1>1, <1>2, <1>6 DEF IsBook

LEMMA AccrueIsBook ==
  ASSUME LedgerTypeOK, IsBook(ledger), NEW a \in Attempt, NEW day \in Day
  PROVE  IsBook(Accrue(a, day))
<1> DEFINE n == IF km[a] > 0 THEN -km[a] ELSE 0
           cash == Appended(ledger, a, "CASH_RECEIVED", 0, Outstanding, day)
           fee == Appended(cash, a, "DELIVERY_FEE", 0, -PerOrder, day)
           way == Appended(fee, a, "DISTANCE_FEE", 0, n, day)
<1>1. {"CASH_RECEIVED", "DELIVERY_FEE", "DISTANCE_FEE"} \subseteq Kind
  BY DEF Kind
<1>2. Accrue(a, day) \in {ledger, way}
  BY DEF Accrue
<1>3. Outstanding \in Int /\ -PerOrder \in Int /\ 0 \in Nat
  BY Scalars, NumbersAre
<1>4. n \in Int
  BY NumbersAre DEF LedgerTypeOK
<1>5. IsBook(cash)
  BY <1>1, <1>3, AppendedIsBook
<1> HIDE DEF cash
<1>6. IsBook(fee)
  BY <1>1, <1>3, <1>5, AppendedIsBook
<1> HIDE DEF fee, n
<1>7. IsBook(way)
  BY <1>1, <1>3, <1>4, <1>6, AppendedIsBook
<1> HIDE DEF way
<1> QED BY <1>2, <1>7

LEMMA ActiveIsSome ==
  ASSUME IsBook(ledger), NEW a, NEW kind
  PROVE  /\ IsFiniteSet(Active(a, kind)) /\ IsFiniteSet(Booked(a, kind))
         /\ Active(a, kind) \subseteq ledger
         /\ Cardinality(Booked(a, kind)) \in Nat
<1>1. Active(a, kind) \in SUBSET ledger /\ Booked(a, kind) \in SUBSET ledger
  BY DEF Active, Booked
<1>2. IsFiniteSet(Active(a, kind)) /\ IsFiniteSet(Booked(a, kind))
  BY <1>1, FS_Subset DEF IsBook
<1> QED BY <1>1, <1>2, FS_CardinalityType

LEMMA CorrectedIsEntry ==
  ASSUME LedgerTypeOK, IsBook(ledger), NEW e \in Entry
  PROVE  Corrected(e) \in Entry
<1>1. "CASH_PAYMENT_CORRECTION" \in Kind /\ e.attempt \in Attempt /\ e.amount \in Int
  BY DEF Kind, Entry
<1> DEFINE taken == Active(e.attempt, "CASH_PAYMENT_CORRECTION")
<1>2. IsFiniteSet(taken) /\ \A x \in taken : x.amount \in Int
  BY ActiveIsSome DEF IsBook, Entry
<1> HIDE DEF taken
<1>3. MapThenSumSet(LAMBDA x : -x.amount, taken) \in Int
  BY <1>2, SumOfAmounts
<1>4. Removed(e.attempt) \in Int
  BY <1>3 DEF Removed, taken
<1>5. Outstanding \in Int
  BY Scalars
<1>6. -Excess(e) \in Int
  BY <1>1, <1>4, <1>5 DEF Excess
<1> DEFINE amount == -Excess(e)
<1>7. Corrected(e) = [attempt |-> e.attempt, kind |-> "CASH_PAYMENT_CORRECTION", no |-> payed,
                      amount |-> amount, day |-> today, back |-> 0, cause |-> "none", moved |-> FALSE]
  BY DEF Corrected
<1>8. amount \in Int
  BY <1>6
<1> HIDE DEF amount
<1> QED BY <1>1, <1>7, <1>8, Scalars, EntryBooked

-----------------------------------------------------------------------------
(* Steps *)

(* A step that leaves the source's side alone and, once the order is       *)
(* cancelled and its jobs are done, the ledger as well.                    *)
LEMMA QuietStep ==
  ASSUME LedgerInv, cancelledInSource' = cancelledInSource, strips' = strips,
         EntriesNeutral /\ cancelledInSource /\ strips = 0 => ledger' = ledger
  PROVE  EntriesNeutral'
BY DEF LedgerInv, EntriesNeutral

(* What a step has to keep besides the ledger. *)
Frame == LedgerTypeOK /\ strips <= cancellations /\ corrections <= payments
           /\ \A e \in undo.seen : e.back = 0

LEMMA Together ==
  LedgerInv <=> Frame /\ IsBook(ledger) /\ EntriesNeutral
BY DEF LedgerInv, LedgerSound, Frame, IsBook, LedgerTypeOK

LEMMA DeliverStep ==
  ASSUME LedgerInv, NEW a \in Attempt, NEW day \in Day, Deliver(a, day)
  PROVE  LedgerInv'
<1>1. IsBook(ledger) /\ Frame
  BY Together
<1>2. ledger' = Accrue(a, day) /\ UNCHANGED <<cancelledInSource, strips>>
  BY DEF Deliver, orderState
<1>3. IsBook(ledger')
  BY <1>1, <1>2, AccrueIsBook DEF Frame
<1>4. cancelledInSource => ledger' = ledger
  BY <1>2 DEF Accrue
<1>5. EntriesNeutral'
  BY <1>2, <1>4, QuietStep
<1>6. Frame'
  <2>1. result' \in [Attempt -> {"none", "active", "cancelled"}] /\ routeDay' \in [Attempt -> Day]
    BY <1>1 DEF Deliver, Frame, LedgerTypeOK
  <2>2. settled' \subseteq Attempt
    BY <1>1 DEF Deliver, Frame, LedgerTypeOK
  <2>3. UNCHANGED <<orderState, km, stripped, distance, undo>>
    BY DEF Deliver
  <2> QED BY <1>1, <1>3, <2>1, <2>2, <2>3 DEF Frame, LedgerTypeOK, orderState, IsBook
<1> QED BY <1>3, <1>5, <1>6, Together DEF LedgerInv, LedgerSound, Frame, IsBook

LEMMA StartUndoStep ==
  ASSUME LedgerInv, NEW a \in Attempt, StartUndo(a)
  PROVE  LedgerInv'
<1> DEFINE s == {e \in ledger : e.attempt = a /\ e.back = 0}
<1>1. undo' = [attempt |-> a, seen |-> s]
      /\ UNCHANGED <<orderState, result, routeDay, km, settled, stripped, ledger, distance>>
  BY DEF StartUndo
<1>2. /\ \A e \in s : e \in ledger /\ e.back = 0
  OBVIOUS
<1> HIDE DEF s
<1>3. undo'.attempt = a /\ undo'.seen = s
  BY <1>1
<1> QED BY <1>1, <1>2, <1>3 DEF LedgerInv, LedgerSound, EntriesNeutral, LedgerTypeOK, orderState

LEMMA EndUndoStep ==
  ASSUME LedgerInv, EndUndo
  PROVE  LedgerInv'
<1>1. IsBook(ledger) /\ Frame
  BY Together
<1>2. /\ undo' = NoUndo /\ undo # NoUndo
      /\ UNCHANGED <<orderState, routeDay, km, settled, stripped, distance>>
  BY DEF EndUndo
<1>3. NoUndo.attempt = NoAttempt /\ NoUndo.seen = {}
  BY DEF NoUndo
<1>4. /\ result' \in [Attempt -> {"none", "active", "cancelled"}]
      /\ IsBook(ledger')
      /\ EntriesNeutral'
  <2>1. CASE ~(undo.seen \subseteq ledger)
    <3>1. ledger' = ledger /\ result' = result
      BY <2>1 DEF EndUndo
    <3> QED BY <1>1, <1>2, <3>1, QuietStep DEF Frame, LedgerTypeOK, orderState
  <2>2. CASE undo.seen \subseteq ledger
    <3>1. /\ ledger' = Reversed(ledger, undo.seen, today, "RESULT_CANCELLED")
          /\ result' = [result EXCEPT ![undo.attempt] = "cancelled"]
      BY <2>2 DEF EndUndo
    <3>2. today \in Day /\ "RESULT_CANCELLED" \in Cause
      BY <1>1, Scalars DEF Frame, Cause
    <3>3. IsBook(ledger')
      BY <1>1, <2>2, <3>1, <3>2, ReversedIsBook
    <3>4. ASSUME EntriesNeutral, cancelledInSource, strips = 0 PROVE ledger' = ledger
      <4>1. undo.seen = {}
        BY <1>1, <2>2, <3>4 DEF EntriesNeutral, Neutral, Frame
      <4> QED BY <3>1, <4>1 DEF Reversed
    <3>5. EntriesNeutral'
      BY <1>2, <3>4, QuietStep DEF orderState
    <3>6. result' \in [Attempt -> {"none", "active", "cancelled"}]
      BY <1>1, <3>1 DEF Frame, LedgerTypeOK
    <3> QED BY <3>3, <3>5, <3>6
  <2> QED BY <2>1, <2>2
<1>5. Frame'
  BY <1>1, <1>2, <1>3, <1>4 DEF Frame, LedgerTypeOK, orderState, IsBook
<1> QED BY <1>4, <1>5 DEF LedgerInv, LedgerSound, Frame, IsBook

LEMMA ReverseByHandStep ==
  ASSUME LedgerInv, NEW e \in ledger, ReverseByHand(e)
  PROVE  LedgerInv'
<1>1. IsBook(ledger) /\ Frame
  BY Together
<1>2. /\ e.back = 0 /\ ledger' = Reversed(ledger, {e}, today, "MANUAL")
      /\ UNCHANGED <<orderState, result, routeDay, km, settled, stripped, distance, undo>>
  BY DEF ReverseByHand
<1>3. today \in Day /\ "MANUAL" \in Cause /\ {e} \in SUBSET ledger
  BY <1>1, Scalars DEF Frame, Cause
<1>4. IsBook(ledger')
  BY <1>1, <1>2, <1>3, ReversedIsBook
<1>5. ~(EntriesNeutral /\ cancelledInSource /\ strips = 0)
  BY <1>2 DEF EntriesNeutral, Neutral
<1>6. EntriesNeutral'
  BY <1>2, <1>5, QuietStep DEF orderState
<1>7. Frame'
  BY <1>1, <1>2, <1>4 DEF Frame, LedgerTypeOK, orderState, IsBook
<1> QED BY <1>4, <1>6, <1>7 DEF LedgerInv, LedgerSound, Frame, IsBook

LEMMA StartDistanceStep ==
  ASSUME LedgerInv, NEW a \in Attempt, StartCorrection(a) \/ StartComputation(a)
  PROVE  LedgerInv'
<1>1. UNCHANGED <<orderState, result, routeDay, km, settled, stripped, ledger, undo>>
  BY DEF StartCorrection, StartComputation
<1>2. PICK op \in {"correct", "show", "compute"} : distance' = [op |-> op, attempt |-> a]
  BY DEF StartCorrection, StartComputation
<1>3. distance' \in Distance
  BY <1>2 DEF Distance
<1> QED BY <1>1, <1>3 DEF LedgerInv, LedgerSound, EntriesNeutral, LedgerTypeOK, orderState

(* Who saves a distance had chosen an attempt. *)
LEMMA DistanceChosen ==
  ASSUME LedgerTypeOK, NEW op \in {"correct", "show", "compute"}, NEW n \in 0..MaxKm, SavesDistance(op, n)
  PROVE  /\ distance.attempt \in Attempt
         /\ distance' \in Distance /\ km' \in [Attempt -> -1..MaxKm]
         /\ UNCHANGED <<orderState, result, routeDay, settled, stripped, undo>>
<1>1. distance.op = op /\ NoDistance.op = "none" /\ distance \in Distance
  BY DEF SavesDistance, NoDistance, LedgerTypeOK
<1>2. distance.attempt \in Attempt
  BY <1>1 DEF Distance
<1>3. n \in -1..MaxKm
  BY NumbersAre
<1> QED BY <1>2, <1>3 DEF SavesDistance, LedgerTypeOK, Distance

LEMMA DistanceStep ==
  ASSUME LedgerInv, NEW op \in {"correct", "show", "compute"}, NEW n \in 0..MaxKm, SavesDistance(op, n),
         IsBook(ledger'), cancelledInSource => ledger' = ledger
  PROVE  LedgerInv'
<1>1. IsBook(ledger) /\ Frame
  BY Together
<1>2. /\ distance' \in Distance /\ km' \in [Attempt -> -1..MaxKm]
      /\ UNCHANGED <<orderState, result, routeDay, settled, stripped, undo>>
  BY <1>1, DistanceChosen DEF Frame
<1>3. EntriesNeutral'
  BY <1>2, QuietStep DEF orderState
<1>4. Frame'
  BY <1>1, <1>2 DEF Frame, LedgerTypeOK, orderState, IsBook
<1> QED BY <1>3, <1>4 DEF LedgerInv, LedgerSound, Frame, IsBook

LEMMA RestateStep ==
  ASSUME LedgerInv, NEW n \in 0..MaxKm, RestateDistanceFee(n)
  PROVE  LedgerInv'
<1> DEFINE a == distance.attempt
           old == Active(a, "DISTANCE_FEE")
           book == Reversed(ledger, old, today, "DISTANCE_RESTATED")
           used == Cardinality(Booked(a, "DISTANCE_FEE"))
<1>1. IsBook(ledger) /\ LedgerTypeOK /\ today \in Day
  BY Together, Scalars DEF Frame
<1>2. SavesDistance("correct", n)
  BY DEF RestateDistanceFee
<1>3. a \in Attempt
  BY <1>1, <1>2, DistanceChosen
<1>4. ledger' = ledger \/ (~cancelledInSource /\ ledger' = Appended(book, a, "DISTANCE_FEE", used, -n, today))
  BY DEF RestateDistanceFee
<1>5. old \in SUBSET ledger /\ used \in Nat
  BY <1>1, ActiveIsSome
<1>6. "DISTANCE_RESTATED" \in Cause /\ "DISTANCE_FEE" \in Kind /\ -n \in Int
  BY DEF Cause, Kind
<1> HIDE DEF a, old
<1>7. IsBook(book)
  BY <1>1, <1>5, <1>6, ReversedIsBook
<1> HIDE DEF book, used
<1>8. IsBook(Appended(book, a, "DISTANCE_FEE", used, -n, today))
  BY <1>1, <1>3, <1>5, <1>6, <1>7, AppendedIsBook
<1> QED BY <1>1, <1>2, <1>4, <1>8, DistanceStep

LEMMA CatchUpStep ==
  ASSUME LedgerInv, NEW n \in 0..MaxKm, CatchUpDistanceFee(n)
  PROVE  LedgerInv'
<1> DEFINE a == distance.attempt
<1>1. IsBook(ledger) /\ LedgerTypeOK
  BY Together DEF Frame
<1>2. SavesDistance("compute", n)
  BY DEF CatchUpDistanceFee
<1>3. a \in Attempt
  BY <1>1, <1>2, DistanceChosen
<1>4. ledger' = ledger \/ (~cancelledInSource /\ ledger' = Appended(ledger, a, "DISTANCE_FEE", 0, -n, routeDay[a]))
  BY DEF CatchUpDistanceFee
<1> HIDE DEF a
<1>5. routeDay[a] \in Day /\ "DISTANCE_FEE" \in Kind /\ -n \in Int /\ 0 \in Nat
  BY <1>1, <1>3 DEF LedgerTypeOK, Kind
<1>6. IsBook(Appended(ledger, a, "DISTANCE_FEE", 0, -n, routeDay[a]))
  BY <1>1, <1>3, <1>5, AppendedIsBook
<1> QED BY <1>1, <1>2, <1>4, <1>6, DistanceStep

LEMMA CorrectCashStep ==
  ASSUME LedgerInv, CorrectCash
  PROVE  LedgerInv'
<1> DEFINE due == {c \in UNION {Active(a, "CASH_RECEIVED") : a \in Attempt} :
                    /\ Excess(c) > 0
                    /\ \A k \in Booked(c.attempt, "CASH_PAYMENT_CORRECTION") : k.no # payed}
           f == [c \in due |-> Corrected(c)]
           new == {f[c] : c \in DOMAIN f}
<1>1. IsBook(ledger) /\ Frame
  BY Together
<1>2. /\ corrections > 0 /\ corrections' = corrections - 1
      /\ ledger' = IF cancelledInSource THEN ledger ELSE ledger \cup new
      /\ UNCHANGED <<today, cancelledInSource, cancellations, strips, payed, payments, result,
                     routeDay, km, settled, stripped, distance, undo>>
  BY DEF CorrectCash
<1>3. due \in SUBSET ledger
  BY DEF Active
<1> HIDE DEF due
<1>4. IsFiniteSet(DOMAIN f)
  BY <1>1, <1>3, FS_Subset DEF IsBook
<1>5. \A e \in new : e \in Entry
  <2>1. \A c \in due : Corrected(c) \in Entry
    BY <1>1, <1>3, CorrectedIsEntry DEF IsBook, Frame
  <2> QED BY <2>1
<1> HIDE DEF f
<1>6. IsFiniteSet(new)
  BY <1>4, ImageIsFinite
<1> HIDE DEF new
<1>7. IsBook(ledger \cup new)
  BY <1>1, <1>5, <1>6, FS_Union DEF IsBook
<1>8. IsBook(ledger')
  BY <1>1, <1>2, <1>7
<1>9. EntriesNeutral'
  BY <1>2, QuietStep
<1>10. corrections' \in 0..MaxPayments /\ corrections' <= payments'
  BY <1>1, <1>2, Scalars, NumbersAre DEF Frame, LedgerTypeOK
<1>11. Frame'
  BY <1>1, <1>2, <1>8, <1>10 DEF Frame, LedgerTypeOK, IsBook
<1> QED BY <1>8, <1>9, <1>11 DEF LedgerInv, LedgerSound, Frame, IsBook

LEMMA StripStep ==
  ASSUME LedgerInv, Strip
  PROVE  LedgerInv'
<1>1. IsBook(ledger) /\ Frame
  BY Together
<1>2. /\ strips > 0 /\ strips' = strips - 1
      /\ UNCHANGED <<today, cancelledInSource, cancellations, payed, payments, corrections, result,
                     routeDay, km, settled, distance, undo>>
  BY DEF Strip
<1>3. IsBook(ledger') /\ EntriesNeutral' /\ stripped' \subseteq Attempt
  <2>1. CASE ~cancelledInSource
    <3>1. ledger' = ledger /\ stripped' = stripped
      BY <2>1 DEF Strip
    <3> QED BY <1>1, <1>2, <2>1, <3>1 DEF EntriesNeutral, Frame, LedgerTypeOK
  <2>2. CASE cancelledInSource
    <3> DEFINE Moved(e) == [e EXCEPT !.moved = TRUE]
               After(e) == CASE e.back = 0 -> SameDay(e)
                             [] e.back \notin {0, e.day} -> Moved(e)
                             [] OTHER -> e
               f == [e \in ledger |-> After(e)]
               T == {f[e] : e \in DOMAIN f}
    <3>1. ledger' = T
      BY <2>2 DEF Strip
    <3>2. ASSUME NEW e \in ledger PROVE After(e) \in Entry /\ Neutral(After(e))
      <4>0. e \in Entry
        BY <1>1 DEF IsBook
      <4>1. CASE e.back = 0
        <5>1. After(e) = SameDay(e)
          BY <4>1
        <5> HIDE DEF After
        <5> QED BY <4>0, <4>1, <5>1, StrippedEntry
      <4>2. CASE e.back \notin {0, e.day}
        <5>1. After(e) = Moved(e)
          BY <4>2
        <5> HIDE DEF After
        <5> QED BY <4>0, <4>2, <5>1, StrippedEntry
      <4>3. CASE e.back # 0 /\ e.back = e.day
        <5>1. After(e) = e
          BY <4>3
        <5> HIDE DEF After
        <5> QED BY <4>0, <4>3, <5>1 DEF Neutral
      <4> QED BY <4>1, <4>2, <4>3
    <3> HIDE DEF After
    <3>3. \A e \in T : e \in Entry /\ Neutral(e)
      BY <3>2
    <3>4. IsFiniteSet(DOMAIN f)
      BY <1>1 DEF IsBook
    <3> HIDE DEF f
    <3>5. IsFiniteSet(T)
      BY <3>4, ImageIsFinite
    <3> HIDE DEF T
    <3>6. stripped' = stripped \cup {a \in Attempt : result[a] = "active"}
      BY <2>2 DEF Strip
    <3>7. stripped' \subseteq Attempt
      BY <1>1, <3>6 DEF Frame, LedgerTypeOK
    <3> QED BY <3>1, <3>3, <3>5, <3>7 DEF EntriesNeutral, IsBook
  <2> QED BY <2>1, <2>2
<1>4. strips' \in 0..MaxCancels /\ strips' <= cancellations'
  BY <1>1, <1>2, Scalars, NumbersAre DEF Frame, LedgerTypeOK
<1>5. Frame'
  BY <1>1, <1>2, <1>3, <1>4 DEF Frame, LedgerTypeOK, IsBook
<1> QED BY <1>3, <1>5 DEF LedgerInv, LedgerSound, Frame, IsBook

LEMMA SourceStep ==
  ASSUME LedgerInv, Cancel \/ WithdrawCancellation \/ (\E n \in 0..Sum : Pay(n)) \/ NextDay
  PROVE  LedgerInv'
<1>1. /\ LedgerTypeOK /\ strips <= cancellations /\ corrections <= payments
      /\ {strips, cancellations, payments, corrections, today} \subseteq Nat
      /\ MaxCancels \in Nat /\ MaxPayments \in Nat /\ LastDay \in Nat
  BY Scalars, NumbersAre DEF LedgerInv, LedgerSound
<1>2. CASE Cancel
  <2>1. /\ cancelledInSource' = TRUE /\ cancellations' = cancellations + 1 /\ strips' = strips + 1
        /\ cancellations < MaxCancels
        /\ UNCHANGED <<today, payed, payments, corrections, result, routeDay, km, settled,
                       stripped, ledger, distance, undo>>
    BY <1>2 DEF Cancel
  <2>2. {cancellations', strips'} \subseteq 0..MaxCancels /\ strips' <= cancellations' /\ strips' # 0
    BY <1>1, <2>1
  <2> QED BY <2>1, <2>2 DEF LedgerInv, LedgerSound, EntriesNeutral, LedgerTypeOK
<1>3. CASE WithdrawCancellation
  <2>1. /\ cancelledInSource' = FALSE
        /\ UNCHANGED <<today, cancellations, strips, payed, payments, corrections, result,
                       routeDay, km, settled, stripped, ledger, distance, undo>>
    BY <1>3 DEF WithdrawCancellation
  <2> QED BY <2>1 DEF LedgerInv, LedgerSound, EntriesNeutral, LedgerTypeOK
<1>4. ASSUME NEW n \in 0..Sum, Pay(n) PROVE LedgerInv'
  <2>1. /\ payed' = n
        /\ \/ payments < MaxPayments /\ payments' = payments + 1 /\ corrections' = corrections + 1
           \/ UNCHANGED <<payments, corrections>>
        /\ UNCHANGED <<today, cancelledInSource, cancellations, strips, result, routeDay, km, settled,
                       stripped, ledger, distance, undo>>
    BY <1>4 DEF Pay
  <2>2. {payments', corrections'} \subseteq 0..MaxPayments /\ corrections' <= payments'
    BY <1>1, <2>1 DEF LedgerTypeOK
  <2> QED BY <2>1, <2>2 DEF LedgerInv, LedgerSound, EntriesNeutral, LedgerTypeOK
<1>5. CASE NextDay
  <2>1. /\ today' \in Day
        /\ UNCHANGED <<cancelledInSource, cancellations, strips, payed, payments, corrections, result,
                       routeDay, km, settled, stripped, ledger, distance, undo>>
    BY <1>1, <1>5 DEF NextDay, Day
  <2> QED BY <2>1 DEF LedgerInv, LedgerSound, EntriesNeutral, LedgerTypeOK
<1> QED BY <1>2, <1>3, <1>4, <1>5

LEMMA LedgerStep == LedgerInv /\ [LedgerNext]_ledgerVars => LedgerInv'
<1> SUFFICES ASSUME LedgerInv, [LedgerNext]_ledgerVars PROVE LedgerInv'
  OBVIOUS
<1>1. CASE UNCHANGED ledgerVars
  BY <1>1 DEF ledgerVars, orderState, LedgerInv, LedgerTypeOK, LedgerSound, EntriesNeutral
<1>2. ASSUME NEW n \in 0..MaxKm, ShowDistance(n) PROVE LedgerInv'
  <2>1. SavesDistance("show", n) /\ ledger' = ledger
    BY <1>2 DEF ShowDistance
  <2> QED BY <2>1, Together, DistanceStep
<1> QED BY <1>1, <1>2, DeliverStep, StartUndoStep, EndUndoStep, ReverseByHandStep, StartDistanceStep,
           RestateStep, CatchUpStep, CorrectCashStep, StripStep, SourceStep DEF LedgerNext

LEMMA LedgerBegins == LedgerInit => LedgerInv
<1> SUFFICES ASSUME LedgerInit PROVE LedgerInv
  OBVIOUS
<1>1. NoUndo.seen = {} /\ NoUndo.attempt = NoAttempt /\ NoDistance \in Distance
  BY DEF NoUndo, Distance
<1>2. IsFiniteSet(ledger)
  BY FS_EmptySet DEF LedgerInit
<1>3. 0 \in -1..MaxKm /\ -1 \in -1..MaxKm /\ 0 \in 0..MaxCancels /\ 0 \in 0..MaxPayments
      /\ 0 \in 0..Sum
  BY NumbersAre
<1>4. /\ result \in [Attempt -> {"none", "active", "cancelled"}]
      /\ routeDay \in [Attempt -> Day] /\ km \in [Attempt -> -1..MaxKm]
  BY <1>3, DayIsNat DEF LedgerInit
<1>5. /\ {cancellations, strips} \subseteq 0..MaxCancels
      /\ {payments, corrections} \subseteq 0..MaxPayments
      /\ payed \in 0..Sum /\ today \in Day /\ cancelledInSource \in BOOLEAN
  BY <1>3, DayIsNat DEF LedgerInit
<1>6. LedgerTypeOK
  BY <1>1, <1>4, <1>5 DEF LedgerInit, LedgerTypeOK
<1>7. LedgerSound /\ EntriesNeutral
  BY <1>1, <1>2 DEF LedgerInit, LedgerSound, EntriesNeutral
<1> QED BY <1>6, <1>7 DEF LedgerInv

(* The inductive invariant of the money of one order: types, jobs counted, *)
(* what an open correction has read, and that the entries of a cancelled   *)
(* order are neutral (accrual.ts, cancellation.ts).                        *)
THEOREM LedgerSafe == LedgerSpec => []LedgerInv
BY LedgerBegins, LedgerStep, PTL DEF LedgerSpec

-----------------------------------------------------------------------------
(* The sum over an order's entries *)

LEMMA NeutralSum ==
  ASSUME LedgerInv, cancelledInSource, strips = 0, NEW d \in Day
  PROVE  Shown(d) = 0
<1> DEFINE On(n, e) == IF n = d THEN e.amount ELSE 0
           Net(e) == (On(e.day, e) - On(e.back, e)) * (IF e.moved THEN 0 ELSE 1)
           w == [e \in ledger |-> Net(e)]
           total == CHOOSE t : t = [s \in SUBSET ledger |-> IF s = {} THEN 0 ELSE Net(Some(s)) + t[s \ {Some(s)}]]
<1>1. Shown(d) = total[ledger]
  BY DEF Shown, MapThenSumSet, MapThenFoldSet, Some
<1>2. \A e \in ledger : Net(e) = 0
  <2>1. ASSUME NEW e \in ledger PROVE Net(e) = 0
    <3>1. Neutral(e) /\ e.amount \in Int /\ e.moved \in BOOLEAN
      BY DEF LedgerInv, EntriesNeutral, LedgerTypeOK, Entry
    <3>2. CASE e.moved
      <4>1. On(e.day, e) \in Int /\ On(e.back, e) \in Int
        BY <3>1
      <4> HIDE DEF On
      <4> QED BY <3>2, <4>1
    <3>3. CASE ~e.moved
      <4>1. e.back = e.day
        BY <3>1, <3>3 DEF Neutral
      <4>2. On(e.day, e) \in Int /\ On(e.back, e) = On(e.day, e)
        BY <3>1, <4>1
      <4> HIDE DEF On
      <4> QED BY <3>3, <4>2
    <3> QED BY <3>1, <3>2, <3>3
  <2> QED BY <2>1
<1>3. \A x \in ledger, v \in {0} : w[x] + v \in {0}
  BY <1>2
<1>4. \A s \in SUBSET ledger : s # {} => w[Some(s)] = Net(Some(s))
  BY DEF Some
<1> HIDE DEF w, Net
<1>5. \A t : AddsUp(t, w, ledger) <=>
             t = [s \in SUBSET ledger |-> IF s = {} THEN 0 ELSE Net(Some(s)) + t[s \ {Some(s)}]]
  <2>1. ASSUME NEW t
        PROVE  [s \in SUBSET ledger |-> IF s = {} THEN 0 ELSE w[Some(s)] + t[s \ {Some(s)}]]
               = [s \in SUBSET ledger |-> IF s = {} THEN 0 ELSE Net(Some(s)) + t[s \ {Some(s)}]]
    BY <1>4
  <2> QED BY <2>1 DEF AddsUp
<1>6. IsFiniteSet(ledger)
  BY DEF LedgerInv, LedgerSound
<1>7. \E t : AddsUp(t, w, ledger)
  BY <1>6, SumExists
<1>8. AddsUp(total, w, ledger)
  BY <1>5, <1>7
<1> HIDE DEF total
<1>9. total[ledger] \in {0}
  BY <1>3, <1>6, <1>8, SumStaysIn
<1> QED BY <1>1, <1>9

(* An order cancelled in the source, its jobs done, counts for nothing on  *)
(* any day of the courier's account, for any number of deliveries and      *)
(* entries (stripCancelledOrderFinance).                                   *)
THEOREM CancelledOrderCountsNothing == LedgerSpec => []CancelledOrderIsZero
<1>1. LedgerInv => CancelledOrderIsZero
  BY NeutralSum DEF CancelledOrderIsZero
<1> QED BY <1>1, LedgerSafe, PTL
====
