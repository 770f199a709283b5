----------------------------- MODULE OrderCase ------------------------------
(***************************************************************************)
(* What shipments, results, returns and decisions mean for an order.  At   *)
(* most one route has promised to carry it, at most one failed attempt     *)
(* owes the warehouse its bouquet, and at most one attempt waits for the   *)
(* logistician.  An attempt fails only when nothing of the order is owed   *)
(* or asked; a debt ends by acceptance or by taking the failure back, a    *)
(* question by an answer or together with its failure.  States of routes,  *)
(* couriers, locks and requests in flight do not appear.                   *)
(***************************************************************************)
EXTENDS Sheets

VARIABLES
  owed,     \* failed attempts whose bouquet is not back
  asked     \* attempts that await a decision

caseVars == <<promised, owed, asked>>

CaseInit == promised = {} /\ owed = {} /\ asked = {}

(* What fails opens a debt and a question. *)
Fail(p) ==
  /\ NoneOf(p[2], owed \cup asked)
  /\ owed' = owed \cup {p} /\ asked' = asked \cup {p}
  /\ UNCHANGED promised

(* A question about an order that is not failed: it was cancelled later.   *)
Ask(p) ==
  /\ NoneOf(p[2], asked) /\ p \notin owed
  /\ asked' = asked \cup {p}
  /\ UNCHANGED <<promised, owed>>

(* An answer may send the order out again: nobody carries it any more.     *)
Answer(p) ==
  /\ p \in asked
  /\ asked' = asked \ {p}
  /\ promised' \in {promised, {q \in promised : q[2] # p[2]}}
  /\ UNCHANGED owed

(* The bouquet is back in the warehouse. *)
Settle(p) ==
  /\ p \in owed
  /\ owed' = owed \ {p}
  /\ UNCHANGED <<promised, asked>>

(* The failure was a mistake: what it opened is closed with it. *)
TakeBack(p) ==
  /\ p \in owed
  /\ owed' = owed \ {p} /\ asked' = asked \ {p}
  /\ UNCHANGED promised

CaseNext ==
  \/ SheetsNext /\ UNCHANGED <<owed, asked>>
  \/ \E p \in Attempt : Fail(p) \/ Ask(p) \/ Answer(p) \/ Settle(p) \/ TakeBack(p)

CaseSpec == CaseInit /\ [][CaseNext]_caseVars
=============================================================================
