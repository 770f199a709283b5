------------------------------ MODULE Assembly ------------------------------
(***************************************************************************)
(* Assembly of orders by florists (modules/fulfillment): shifts, taking    *)
(* and giving back an order, "assembled", rework and a new round, refusals *)
(* and the "no flowers" quarantine, automatic dispatch, and the hand-over  *)
(* of a pickup order at the counter (modules/pickup).                      *)
(*                                                                         *)
(* An operation under a florist's shift locks the shift's row first and    *)
(* then the order: two steps, between which others act.  The dispatch      *)
(* reads who is free, then assigns, under a lock of its own; a refusal     *)
(* reads the order without a lock.  The version a screen presents only     *)
(* refuses more, and is left out.                                          *)
(***************************************************************************)
EXTENDS Naturals, FiniteSets

CONSTANTS
  Bouquet,   \* orders in production
  Florist,   \* people who may assemble
  Chief,     \* the one of them who is an administrator
  Shift,     \* FloristShift rows that may be opened
  NoOne,     \* no person, no shift, no order
  MaxOpen    \* bound: transactions open at a time

ASSUME AssemblyAssumption ==
  /\ Chief \in Florist
  /\ NoOne \notin Florist \cup Shift \cup Bouquet
  /\ MaxOpen \in Nat \ {0}

VARIABLES
  process,    \* fulfillmentProcessState
  assignee,   \* fulfillmentAssigneeId
  ofShift,    \* fulfillmentShiftId
  fit,        \* composition READY, in scope, not archived or missing
  cancelled,  \* cancelledInSource or cancelledByLogistAt
  issued,     \* an OrderPickupIssue exists
  quarantine, \* an OrderNoFlowersQuarantine is open
  refusals,   \* OrderRefusalRequest rows in state PENDING: order and florist
  approved,   \* ... in state APPROVED
  duty,       \* the florist's active shift (activeKey)
  ended,      \* shifts that were closed
  keen,       \* dispatchReadyAt is set and dispatchFinishAfterCurrent is not
  auto,       \* the dispatch mode is AUTO
  under,      \* the open transaction that holds the florist's shift
  leaving,    \* an open requestRefusal of the florist
  offer       \* florists the running dispatch found free, with their shifts

assemblyVars == <<process, assignee, ofShift, fit, cancelled, issued,
  quarantine, refusals, approved, duty, ended, keen, auto, under, leaving, offer>>

orderRow == <<process, assignee, ofShift>>
facts    == <<fit, cancelled, issued>>
people   == <<duty, ended, keen, auto>>
open     == <<under, leaving, offer>>
requests == <<quarantine, refusals, approved>>

ProcessState == {"NEW", "IN_ASSEMBLY", "ASSEMBLED", "NEEDS_REVIEW"}
Done == {"ASSEMBLED", "NEEDS_REVIEW"}

Own == {"claim", "release", "assemble", "reopen"}      \* under the actor's shift
Given == {"reassign", "reassembly", "transfer"}        \* under the target's shift
Idling == [op |-> "none", order |-> NoOne, shift |-> NoOne]
NoOffer == [running |-> FALSE, to |-> {}]

AssemblyTypeOK ==
  /\ process \in [Bouquet -> ProcessState]
  /\ assignee \in [Bouquet -> Florist \cup {NoOne}]
  /\ ofShift \in [Bouquet -> Shift \cup {NoOne}]
  /\ fit \subseteq Bouquet /\ cancelled \subseteq Bouquet
  /\ issued \subseteq Bouquet /\ quarantine \subseteq Bouquet
  /\ refusals \subseteq Bouquet \X Florist /\ approved \subseteq Bouquet \X Florist
  /\ duty \in [Florist -> Shift \cup {NoOne}]
  /\ ended \subseteq Shift /\ keen \subseteq Florist /\ auto \in BOOLEAN
  /\ under \in [Florist -> [op : Own \cup Given \cup {"none"}, order : Bouquet \cup {NoOne}, shift : Shift \cup {NoOne}]]
  /\ leaving \in [Florist -> Bouquet \cup {NoOne}]
  /\ offer \in [running : BOOLEAN, to : SUBSET (Florist \X Shift)]

AssemblyInit ==
  /\ process = [b \in Bouquet |-> "NEW"]
  /\ assignee = [b \in Bouquet |-> NoOne]
  /\ ofShift = [b \in Bouquet |-> NoOne]
  /\ fit = Bouquet /\ cancelled = {} /\ issued = {}
  /\ quarantine = {} /\ refusals = {} /\ approved = {}
  /\ duty = [f \in Florist |-> NoOne]
  /\ ended = {} /\ keen = {} /\ auto \in BOOLEAN
  /\ under = [f \in Florist |-> Idling]
  /\ leaving = [f \in Florist |-> NoOne]
  /\ offer = NoOffer

-----------------------------------------------------------------------------
(* The row of an order *)

Assign(b, f, s) ==
  /\ process' = [process EXCEPT ![b] = "IN_ASSEMBLY"]
  /\ assignee' = [assignee EXCEPT ![b] = f]
  /\ ofShift' = [ofShift EXCEPT ![b] = s]

Free(b) ==
  /\ process' = [process EXCEPT ![b] = "NEW"]
  /\ assignee' = [assignee EXCEPT ![b] = NoOne]
  /\ ofShift' = [ofShift EXCEPT ![b] = NoOne]

NotIssuedUnchecked(b) == TRUE   \* mutant: a hand-over at the counter is not looked for

(* assertNotIssued, under the order's lock *)
NotIssued(b) == b \notin issued

(* ASSEMBLABLE *)
Assemblable(b) == b \in fit \ cancelled

(* assembleOrder from the order's lock on; the form and the print job it   *)
(* creates are in Printing.                                                *)
Assembled(b, f) ==
  /\ NotIssued(b)
  /\ process[b] = "IN_ASSEMBLY" /\ assignee[b] = f /\ b \in fit
  /\ process' = [process EXCEPT ![b] = "ASSEMBLED"]
  /\ UNCHANGED <<assignee, ofShift>>

Reopened(b) ==
  /\ NotIssued(b) /\ process[b] \in Done
  /\ process' = [process EXCEPT ![b] = "IN_ASSEMBLY"]
  /\ UNCHANGED <<assignee, ofShift>>

-----------------------------------------------------------------------------
(* Shifts *)

OpenNow == Cardinality({f \in Florist : under[f] # Idling}) + Cardinality({f \in Florist : leaving[f] # NoOne})
           + IF offer.running THEN 1 ELSE 0

HeldByNobody(f) == FALSE   \* mutant: lockActiveShift without FOR UPDATE

(* A transaction holds the row of the florist's active shift. *)
Held(f) == under[f] # Idling

StartShift(f) ==
  /\ duty[f] = NoOne
  /\ \E s \in Shift \ ended :
       /\ \A g \in Florist : duty[g] # s
       /\ duty' = [duty EXCEPT ![f] = s]
  /\ keen' = keen \ {f}
  /\ UNCHANGED <<orderRow, facts, requests, ended, auto, open>>

(* closeOwnShift, forceCloseShift: assignments stay. *)
EndShift(f) ==
  /\ duty[f] # NoOne /\ ~Held(f)
  /\ ended' = ended \cup {duty[f]}
  /\ duty' = [duty EXCEPT ![f] = NoOne]
  /\ keen' = keen \ {f}
  /\ UNCHANGED <<orderRow, facts, requests, auto, open>>

(* setDispatchReady, setFinishAfterCurrent, of those the dispatch asks *)
SetKeen(f) ==
  /\ f # Chief /\ duty[f] # NoOne /\ ~Held(f)
  /\ keen' = IF f \in keen THEN keen \ {f} ELSE keen \cup {f}
  /\ UNCHANGED <<orderRow, facts, requests, duty, ended, auto, open>>

SetMode ==
  /\ auto' = ~auto
  /\ UNCHANGED <<orderRow, facts, requests, duty, ended, keen, open>>

-----------------------------------------------------------------------------
(* Operations under a shift *)

(* lockActiveShift.  In AUTO mode a florist may not release; a florist     *)
(* reopens only what is his; the administrator needs a shift only to take. *)
LockShift(f, o, b) ==
  /\ duty[f] # NoOne /\ under[f] = Idling /\ OpenNow < MaxOpen
  /\ o = "release" => ~auto
  /\ o = "reopen" => assignee[b] = f
  /\ f = Chief => o \in {"claim"} \cup Given
  /\ under' = [under EXCEPT ![f] = [op |-> o, order |-> b, shift |-> duty[f]]]
  /\ UNCHANGED <<orderRow, facts, requests, people, leaving, offer>>

Does(f, o, b) == under[f].op = o /\ under[f].order = b
LetGo(f) == under' = [under EXCEPT ![f] = Idling]

(* claimOrder.  The condition of the free queue on quarantine is not part  *)
(* of it.                                                                  *)
ClaimOrder(f, b) ==
  /\ Does(f, "claim", b)
  /\ NotIssued(b) /\ process[b] = "NEW" /\ Assemblable(b)
  /\ Assign(b, f, under[f].shift)
  /\ LetGo(f)
  /\ UNCHANGED <<facts, requests, people, leaving, offer>>

(* releaseOrder *)
ReleaseOrder(f, b) ==
  /\ Does(f, "release", b)
  /\ process[b] = "IN_ASSEMBLY" /\ assignee[b] = f /\ ofShift[b] = under[f].shift
  /\ Free(b)
  /\ LetGo(f)
  /\ UNCHANGED <<facts, requests, people, leaving, offer>>

(* assembleOrder *)
AssembleOrder(f, b) ==
  /\ Does(f, "assemble", b)
  /\ ofShift[b] = under[f].shift
  /\ Assembled(b, f)
  /\ LetGo(f)
  /\ UNCHANGED <<facts, quarantine, refusals, approved, people, leaving, offer>>

(* reopenOrder, by the florist himself *)
ReopenOrder(f, b) ==
  /\ Does(f, "reopen", b)
  /\ Reopened(b)
  /\ LetGo(f)
  /\ UNCHANGED <<facts, requests, people, leaving, offer>>

(* reassignOrder *)
ReassignOrder(f, b) ==
  /\ Does(f, "reassign", b)
  /\ NotIssued(b) /\ process[b] \in {"NEW", "IN_ASSEMBLY"} /\ Assemblable(b)
  /\ Assign(b, f, under[f].shift)
  /\ LetGo(f)
  /\ UNCHANGED <<facts, requests, people, leaving, offer>>

(* assignReassemblyTx *)
Reassembly(f, b) ==
  /\ Does(f, "reassembly", b)
  /\ NotIssued(b) /\ process[b] \in Done
  /\ Assign(b, f, under[f].shift)
  /\ LetGo(f)
  /\ UNCHANGED <<facts, requests, people, leaving, offer>>

(* decideRefusal, TRANSFER: the request is closed whether or not the order *)
(* is still with the florist who asked.                                    *)
Transfer(f, b) ==
  /\ Does(f, "transfer", b)
  /\ \E g \in Florist :
       /\ <<b, g>> \in refusals
       /\ refusals' = refusals \ {<<b, g>>}
       /\ IF process[b] = "IN_ASSEMBLY" /\ assignee[b] = g
            THEN Assign(b, f, under[f].shift)
            ELSE UNCHANGED orderRow
  /\ LetGo(f)
  /\ UNCHANGED <<facts, quarantine, approved, people, leaving, offer>>

(* A condition failed: the transaction is rolled back. *)
GiveUp(f) ==
  /\ under[f] # Idling
  /\ LetGo(f)
  /\ UNCHANGED <<orderRow, facts, requests, people, leaving, offer>>

-----------------------------------------------------------------------------
(* The administrator, who needs no shift of his own *)

ChiefReleases(b) ==
  /\ process[b] = "IN_ASSEMBLY"
  /\ Free(b)
  /\ UNCHANGED <<facts, requests, people, open>>

ChiefAssembles(b) ==
  /\ Assembled(b, Chief)
  /\ UNCHANGED <<facts, quarantine, refusals, approved, people, open>>

ChiefReopens(b) ==
  /\ Reopened(b)
  /\ UNCHANGED <<facts, requests, people, open>>

(* decideRefusal, REJECT and APPROVE *)
DecideRefusal(b, f, yes) ==
  /\ <<b, f>> \in refusals
  /\ refusals' = refusals \ {<<b, f>>}
  /\ approved' = IF yes THEN approved \cup {<<b, f>>} ELSE approved
  /\ IF yes /\ process[b] = "IN_ASSEMBLY" /\ assignee[b] = f
       THEN Free(b)
       ELSE UNCHANGED orderRow
  /\ UNCHANGED <<facts, quarantine, people, open>>

(* returnFromQuarantine: back to the queue or closed as unfit.  The        *)
(* priority of a returned order is not modelled.                           *)
CloseQuarantine(b) ==
  /\ b \in quarantine
  /\ quarantine' = quarantine \ {b}
  /\ UNCHANGED <<orderRow, facts, refusals, approved, people, open>>

-----------------------------------------------------------------------------
(* A florist refuses *)

(* requestRefusal reads the order without a lock ... *)
AskToLeave(f, b) ==
  /\ leaving[f] = NoOne /\ OpenNow < MaxOpen
  /\ assignee[b] = f /\ process[b] \in {"IN_ASSEMBLY", "NEEDS_REVIEW"}
  /\ leaving' = [leaving EXCEPT ![f] = b]
  /\ UNCHANGED <<orderRow, facts, requests, people, under, offer>>

(* ... and records a request, one open at a time for an order,             *)
RecordRefusal(f) ==
  LET b == leaving[f] IN
  /\ b # NoOne
  /\ refusals' = IF \E g \in Florist : <<b, g>> \in refusals THEN refusals
                                                             ELSE refusals \cup {<<b, f>>}
  /\ leaving' = [leaving EXCEPT ![f] = NoOne]
  /\ UNCHANGED <<orderRow, facts, quarantine, approved, people, under, offer>>

(* or, for want of flowers, quarantines it (quarantineNoFlowers).  From    *)
(* NEEDS_REVIEW the marks of the finished assembly remain, and the check   *)
(* fulfillment_unassembled_is_clean refuses the row.                       *)
Quarantine(f) ==
  LET b == leaving[f] IN
  /\ b # NoOne
  /\ IF NotIssued(b) /\ b \notin quarantine /\ ~(assignee[b] = f /\ process[b] = "NEEDS_REVIEW")
       THEN /\ IF assignee[b] = f /\ process[b] = "IN_ASSEMBLY" THEN Free(b) ELSE UNCHANGED orderRow
            /\ quarantine' = quarantine \cup {b}
       ELSE UNCHANGED <<orderRow, quarantine>>
  /\ leaving' = [leaving EXCEPT ![f] = NoOne]
  /\ UNCHANGED <<facts, refusals, approved, people, under, offer>>

-----------------------------------------------------------------------------
(* Automatic dispatch, one run at a time (advisory lock) *)

BusyFlorist(f) ==
  \/ \E b \in Bouquet \ issued : assignee[b] = f /\ process[b] \in {"IN_ASSEMBLY", "NEEDS_REVIEW"}
  \/ \E b \in Bouquet : <<b, f>> \in refusals

(* availableFlorists: read without locking the shifts.  The chief is not a *)
(* florist by role.                                                        *)
BeginDispatch ==
  LET to == {<<f, duty[f]>> : f \in {g \in keen \ {Chief} : duty[g] # NoOne /\ ~BusyFlorist(g)}} IN
  /\ ~offer.running /\ auto /\ to # {} /\ OpenNow < MaxOpen
  /\ offer' = [running |-> TRUE, to |-> to]
  /\ UNCHANGED <<orderRow, facts, requests, people, under, leaving>>

(* offerableConstraints, and autoAssignTx under the order's lock *)
Dispatch(f, s, b) ==
  /\ <<f, s>> \in offer.to
  /\ <<b, f>> \notin approved
  /\ NotIssued(b) /\ process[b] = "NEW" /\ Assemblable(b) /\ b \notin quarantine
  /\ Assign(b, f, s)
  /\ offer' = [offer EXCEPT !.to = @ \ {<<f, s>>}]
  /\ UNCHANGED <<facts, requests, people, under, leaving>>

EndDispatch ==
  /\ offer.running
  /\ offer' = NoOffer
  /\ UNCHANGED <<orderRow, facts, requests, people, under, leaving>>

-----------------------------------------------------------------------------
(* The world outside production *)

(* applyFulfillmentSnapshot, a changed composition; the import holds the   *)
(* order's row.                                                            *)
CompositionChanges(b) ==
  /\ process[b] = "ASSEMBLED" /\ b \notin issued
  /\ process' = [process EXCEPT ![b] = "NEEDS_REVIEW"]
  /\ fit' = fit \cup {b}
  /\ UNCHANGED <<assignee, ofShift, cancelled, issued, requests, people, open>>

(* The composition fails to come or comes back; archived, out of scope.    *)
FitnessChanges(b) ==
  /\ fit' = IF b \in fit THEN fit \ {b} ELSE fit \cup {b}
  /\ UNCHANGED <<orderRow, cancelled, issued, requests, people, open>>

(* applyCancellation, both ways: an unfinished assembly is taken away.     *)
CancellationChanges(b) ==
  /\ cancelled' = IF b \in cancelled THEN cancelled \ {b} ELSE cancelled \cup {b}
  /\ IF process[b] = "IN_ASSEMBLY" THEN Free(b) ELSE UNCHANGED orderRow
  /\ UNCHANGED <<fit, issued, requests, people, open>>

(* issueToCustomer, whatever the state of the assembly.  Of what makes an   *)
(* order unfit it does not look at the composition.                        *)
IssueToCustomer(b) ==
  /\ b \notin cancelled \cup issued
  /\ issued' = issued \cup {b}
  /\ UNCHANGED <<orderRow, fit, cancelled, requests, people, open>>

(* decideReassemble after a failed delivery: an order a courier had, which *)
(* nobody issued at the counter.                                           *)
ReturnedForReassembly(b) ==
  /\ process[b] \in Done /\ b \notin issued
  /\ process' = [process EXCEPT ![b] = "NEW"]
  /\ assignee' = [assignee EXCEPT ![b] = NoOne]
  /\ ofShift' = [ofShift EXCEPT ![b] = NoOne]
  /\ UNCHANGED <<facts, requests, people, open>>

-----------------------------------------------------------------------------
FloristStep(f, b) ==
  \/ \E o \in Own \cup Given : LockShift(f, o, b)
  \/ ClaimOrder(f, b) \/ ReleaseOrder(f, b) \/ AssembleOrder(f, b) \/ ReopenOrder(f, b)
  \/ ReassignOrder(f, b) \/ Reassembly(f, b) \/ Transfer(f, b)
  \/ AskToLeave(f, b) \/ \E yes \in BOOLEAN : DecideRefusal(b, f, yes)
  \/ \E s \in Shift : Dispatch(f, s, b)

OrderStep(b) ==
  \/ ChiefReleases(b) \/ ChiefAssembles(b) \/ ChiefReopens(b) \/ CloseQuarantine(b)
  \/ CompositionChanges(b) \/ FitnessChanges(b) \/ CancellationChanges(b)
  \/ IssueToCustomer(b) \/ ReturnedForReassembly(b)

AssemblyNext ==
  \/ \E f \in Florist, b \in Bouquet : FloristStep(f, b)
  \/ \E b \in Bouquet : OrderStep(b)
  \/ \E f \in Florist :
       StartShift(f) \/ EndShift(f) \/ SetKeen(f) \/ GiveUp(f) \/ RecordRefusal(f) \/ Quarantine(f)
  \/ SetMode \/ BeginDispatch \/ EndDispatch

AssemblySpec == AssemblyInit /\ [][AssemblyNext]_assemblyVars

-----------------------------------------------------------------------------
(* Properties *)

(* A florist finishes an order only in the shift, still open, in which it  *)
(* was given to him: closing a shift has consequences although the close,  *)
(* the dispatch and "assembled" run at the same time.                      *)
AssembledOnDuty ==
  [][\A b \in Bouquet : process[b] = "IN_ASSEMBLY" /\ process'[b] = "ASSEMBLED" /\ assignee[b] # Chief
       => duty[assignee[b]] # NoOne /\ ofShift[b] = duty[assignee[b]]]_assemblyVars

(* An order the customer already has is never production work again: it    *)
(* goes back to the queue at most, and to another florist by one way only, *)
(* the transfer of a refusal, which does not look for the issue.           *)
IssuedIsNoWork ==
  [][\A b \in issued :
       /\ process'[b] \in {process[b], "NEW"}
       /\ \/ assignee'[b] \in {assignee[b], NoOne}
          \/ /\ process'[b] = process[b]
             /\ <<b, assignee[b]>> \in refusals \ refusals']_assemblyVars

(* While the quarantine is open the order stays NEW. *)
QuarantinedIsNew == \A b \in quarantine : process[b] = "NEW"

(* An approved refusal frees the florist of the order. *)
ApprovedIsFree ==
  [][\A b \in Bouquet, f \in Florist :
       <<b, f>> \in approved' \ approved => assignee'[b] # f]_assemblyVars
=============================================================================
