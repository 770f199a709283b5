---------------------------- MODULE PayoutImport ----------------------------
(***************************************************************************)
(* Posting couriers' payouts from a bank statement                         *)
(* (finance/payout-import.ts).  The administrator looks at a preview of a  *)
(* file and confirms its rows; meanwhile a phone number passes to another  *)
(* courier, another export of the same payouts is confirmed, somebody      *)
(* enters or reverses a payout by hand, and the confirmation is sent again *)
(* with the same key.  Confirmations queue up one behind the other and     *)
(* assess the file anew.                                                   *)
(*                                                                         *)
(* A row is a payout to the holder of a phone number; all payouts are of   *)
(* one day and one amount, so any two to one courier look like repeats,    *)
(* and a file may hold several of them that are all meant.                 *)
(* Rows that are malformed or not payouts never reach the assessment.      *)
(***************************************************************************)
EXTENDS FiniteSets

CONSTANTS
  File,       \* statements, by fileSha256
  Phone,      \* telephone numbers in them
  Copy,       \* tells the equal rows of one phone in a file apart
  Payee,      \* couriers
  NoPayee,
  Form,       \* confirmations, each with its idempotency key
  ByHand      \* entries made by hand

ASSUME PayoutAssumption == NoPayee \notin Payee

VARIABLES
  payeeOf,    \* the courier a phone belongs to
  payouts,    \* CASH_ISSUED_TO_COURIER entries: row, courier, as what and by which confirmation
  reversed,   \* entries with a reversal
  imports,    \* CourierPayoutImport: the file a key was used for
  screen,     \* the administrator's screen
  inQueue     \* the confirmation inside the lock CONFIRM_QUEUE_KEY

payoutVars == <<payeeOf, payouts, reversed, imports, screen, inQueue>>

Payable == {"ready", "possible_duplicate"}
RowState == Payable \cup {"error", "already_imported"}

Row == Phone \X Copy
PreviewRow == [state : RowState, payee : Payee \cup {NoPayee}]

(* shown: the preview; accepted: the repeats taken on; found: the          *)
(* assessment of the confirmation.                                         *)
Blank == [step |-> "idle", file |-> NoPayee, shown |-> <<>>, accepted |-> {}, found |-> <<>>]

PayoutEntry == [row : (File \X Row) \cup ({"manual"} \X ByHand), payee : Payee,
                as : Payable \cup {"manual"}, promised : Payee, by : Form \cup ByHand]

PayoutTypeOK ==
  /\ payeeOf \in [Phone -> Payee \cup {NoPayee}]
  /\ payouts \subseteq PayoutEntry /\ reversed \subseteq payouts
  /\ imports \subseteq Form \X File
  /\ \A x \in Form :
       /\ screen[x].step \in {"idle", "shown", "queued", "assessed"}
       /\ screen[x] # Blank => /\ screen[x].file \in File
                               /\ screen[x].shown \in [Row -> PreviewRow]
                               /\ screen[x].accepted \subseteq Row
       /\ screen[x].step = "assessed" => screen[x].found \in [Row -> PreviewRow]
  /\ inQueue \subseteq Form

PayoutInit ==
  /\ \E c \in Payee : payeeOf \in [Phone -> {c, NoPayee}]
  /\ \A n, k \in Phone : payeeOf[n] = payeeOf[k] /\ payeeOf[n] # NoPayee => n = k
  /\ payouts = {} /\ reversed = {} /\ imports = {}
  /\ screen = [x \in Form |-> Blank]
  /\ inQueue = {}

-----------------------------------------------------------------------------
(* assessStatement *)

Posted(f) == {n \in Row : \E e \in payouts : e.row = <<f, n>>}

(* Entries of the matched rows themselves are left out; a posted row is    *)
(* not matched any more, so they are none.                                 *)
Repeats(c) == {e \in payouts \ reversed : e.payee = c}

StateUnmatched(f, n, c) ==   \* mutant: a row without a courier is payable
  IF n \in Posted(f) THEN "already_imported" ELSE "ready"

StateOf(f, n, c) ==
  IF c = NoPayee THEN "error"
  ELSE IF n \in Posted(f) THEN "already_imported"
  ELSE IF Repeats(c) # {} THEN "possible_duplicate"
  ELSE "ready"

Assessed(f, payees) ==
  [n \in Row |-> [state |-> StateOf(f, n, payees[n[1]]), payee |-> payees[n[1]]]]

(* previewPayoutImport: the screen, and the repeats the administrator      *)
(* takes on explicitly.                                                    *)
Preview(x, f) ==
  /\ screen[x].step \in {"idle", "shown"}
  /\ LET rows == Assessed(f, payeeOf) IN
       \E accepted \in SUBSET {n \in Row : rows[n].state = "possible_duplicate"} :
         screen' = [screen EXCEPT ![x] =
           [Blank EXCEPT !.step = "shown", !.file = f, !.shown = rows, !.accepted = accepted]]
  /\ UNCHANGED <<payeeOf, payouts, reversed, imports, inQueue>>

Approved(x) ==
  screen[x].accepted \cup {n \in Row : screen[x].shown[n].state = "ready"}

-----------------------------------------------------------------------------
(* confirmPayoutImport *)

KeyUsed(x) == \E f \in File : <<x, f>> \in imports

FreeForFile(x) ==   \* mutant: a queue for every file
  \A y \in inQueue : screen[y].file # screen[x].file

(* One queue for all files. *)
QueueFree(x) == inQueue = {}

(* Into the queue.  A key already used answers with the stored import, or  *)
(* with a conflict when it was for another file.                           *)
EnterQueue(x) ==
  /\ screen[x].step = "shown" /\ QueueFree(x)
  /\ IF KeyUsed(x)
       THEN screen' = [screen EXCEPT ![x] = Blank] /\ UNCHANGED inQueue
       ELSE /\ screen' = [screen EXCEPT ![x].step = "queued"]
            /\ inQueue' = inQueue \cup {x}
  /\ UNCHANGED <<payeeOf, payouts, reversed, imports>>

(* The file is assessed anew inside the queue. *)
AssessAnew(x) ==
  /\ screen[x].step = "queued"
  /\ screen' = [screen EXCEPT ![x].step = "assessed",
                             ![x].found = Assessed(screen[x].file, payeeOf)]
  /\ UNCHANGED <<payeeOf, payouts, reversed, imports, inQueue>>

(* staleRows *)
IsStale(x, rows) ==
  \/ \E n \in Approved(x) : rows[n] # screen[x].shown[n]
  \/ \E n \in Row \ Approved(x) : rows[n].state = "ready"

Leave(x) == inQueue' = inQueue \ {x}

(* The entries made of the approved rows. *)
Posting(x) ==
  {[row |-> <<screen[x].file, n>>, payee |-> screen[x].found[n].payee,
    as |-> screen[x].found[n].state, promised |-> screen[x].shown[n].payee,
    by |-> x] : n \in Approved(x)}

(* Exactly the rows that were approved are posted, if the assessment has   *)
(* them as they were shown.                                                *)
Post(x) ==
  /\ screen[x].step = "assessed"
  /\ ~IsStale(x, screen[x].found) /\ Approved(x) # {}
  /\ payouts' = payouts \cup Posting(x)
  /\ imports' = imports \cup {<<x, screen[x].file>>}
  /\ screen' = [screen EXCEPT ![x].step = "shown", ![x].found = <<>>]
  /\ Leave(x)
  /\ UNCHANGED <<payeeOf, reversed>>

(* The preview is stale, nothing is to be posted, or the transaction ends  *)
(* without a commit; the screen may confirm again as it is.                *)
GiveUpPosting(x) ==
  /\ x \in inQueue
  /\ screen' = [screen EXCEPT ![x].step = "shown", ![x].found = <<>>]
  /\ Leave(x)
  /\ UNCHANGED <<payeeOf, payouts, reversed, imports>>

-----------------------------------------------------------------------------
(* Meanwhile *)

(* users: a phone passes on, or comes to a courier who had none. *)
GivePhone(n, c) ==
  /\ payeeOf[n] # c /\ \A k \in Phone : payeeOf[k] # c
  /\ payeeOf' = [payeeOf EXCEPT ![n] = c]
  /\ UNCHANGED <<payouts, reversed, imports, screen, inQueue>>

TakePhone(n) ==
  /\ payeeOf[n] # NoPayee
  /\ payeeOf' = [payeeOf EXCEPT ![n] = NoPayee]
  /\ UNCHANGED <<payouts, reversed, imports, screen, inQueue>>

EnterByHand(h, c) ==
  /\ \A e \in payouts : e.row # <<"manual", h>>
  /\ payouts' = payouts \cup {[row |-> <<"manual", h>>, payee |-> c, as |-> "manual",
                               promised |-> c, by |-> h]}
  /\ UNCHANGED <<payeeOf, reversed, imports, screen, inQueue>>

ReverseEntry(e) ==
  /\ e \in payouts \ reversed
  /\ reversed' = reversed \cup {e}
  /\ UNCHANGED <<payeeOf, payouts, imports, screen, inQueue>>

-----------------------------------------------------------------------------
PayoutNext ==
  \/ \E x \in Form :
       \/ \E f \in File : Preview(x, f)
       \/ EnterQueue(x) \/ AssessAnew(x) \/ Post(x) \/ GiveUpPosting(x)
  \/ \E n \in Phone : TakePhone(n) \/ \E c \in Payee : GivePhone(n, c)
  \/ \E h \in ByHand, c \in Payee : EnterByHand(h, c)
  \/ \E e \in payouts : ReverseEntry(e)

PayoutSpec == PayoutInit /\ [][PayoutNext]_payoutVars

-----------------------------------------------------------------------------
(* Properties *)

(* A payout is posted to the courier the administrator saw; a second one   *)
(* from the statements to the same courier is in force only if it stood    *)
(* beside the first in one confirmation, or was shown as a possible repeat *)
(* and accepted: not by two exports of one payout, by a key used twice,    *)
(* nor by a phone that changed hands.                                      *)
PostedAsApproved ==
  LET inForce == {e \in payouts \ reversed : e.as # "manual"} IN
  /\ \A e \in inForce : e.payee = e.promised
  /\ \A e, g \in inForce :
       e # g /\ e.payee = g.payee => e.by = g.by \/ "possible_duplicate" \in {e.as, g.as}
=============================================================================
