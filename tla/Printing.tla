------------------------------ MODULE Printing ------------------------------
(***************************************************************************)
(* Automatic printing of order labels: print jobs in the server's database *)
(* (modules/fulfillment/print.ts) and the agent that stands next to one    *)
(* print point's printer (agent/src/agent.cjs).  The agent polls, gets one *)
(* job under a lease, hands it to the spooler and reports what came of it. *)
(*                                                                         *)
(* Requests and answers may be lost, a request may be handled after the    *)
(* agent has given it up, and the agent's computer may be switched off at  *)
(* any moment; its journal and its "pending" mark are files and survive.   *)
(* A report is read and written by separate statements without a lock.     *)
(***************************************************************************)
EXTENDS Naturals, FiniteSets

CONSTANTS
  MaxLabel,   \* print jobs of the point, numbered in order of creation
  MaxDeliveries,   \* MAX_DELIVERY_ATTEMPTS
  MaxClaims   \* bound: how many times a job is handed out

ASSUME PrintAssumption == {MaxLabel, MaxDeliveries, MaxClaims} \subseteq Nat \ {0}

Label   == 1..MaxLabel
NoLabel == 0

VARIABLES
  delivery,  \* OrderPrintJob.deliveryState
  over,      \* claimed jobs whose leaseUntil has passed
  tries,     \* deliveryAttempts
  agent,     \* what the agent is doing
  journal,   \* processed.log
  memory,    \* the journal as it was read when the agent started
  pendingMark, \* pending.json: handed to the printer, outcome not yet reported
  reports,   \* reports the server has not finished handling
  labels     \* how many copies of each label the spooler has taken

printVars == <<delivery, over, tries, agent, journal, memory, pendingMark, reports, labels>>

Settled == {"SENT_TO_PRINTER", "NEEDS_REVIEW", "FAILED"}
Outcome == {"sent", "failed", "unknown"}

(* A report: read by the server or not yet, with the attempts it read then;*)
(* awaited: the agent is still waiting for the answer.                     *)
Report == [label : Label, says : Outcome, read : BOOLEAN, tries : 0..MaxClaims, awaited : BOOLEAN]
Saying(l, o) == [label |-> l, says |-> o, read |-> FALSE, tries |-> 0, awaited |-> TRUE]

(* A report of "unknown" is made on restart about the mark, or about a job *)
(* that was already printed (repeat).                                      *)
Agent == [at : {"down", "idle", "printing", "printed", "reporting", "restart", "repeat"},
          label : Label \cup {NoLabel}]
At(place, l) == [at |-> place, label |-> l]

PrintTypeOK ==
  /\ delivery \in [Label -> Settled \cup {"none", "QUEUED", "CLAIMED"}]
  /\ over \subseteq Label
  /\ tries \in [Label -> 0..MaxClaims]
  /\ agent \in Agent
  /\ journal \subseteq Label /\ memory \subseteq Label
  /\ pendingMark \in Label \cup {NoLabel}
  /\ reports \subseteq Report
  /\ labels \in [Label -> 0..MaxClaims]

PrintInit ==
  /\ delivery = [l \in Label |-> "none"]
  /\ over = {}
  /\ tries = [l \in Label |-> 0]
  /\ agent = At("down", NoLabel)
  /\ journal = {} /\ memory = {} /\ pendingMark = NoLabel
  /\ reports = {}
  /\ labels = [l \in Label |-> 0]

-----------------------------------------------------------------------------
(* The server *)

(* assembleOrder or retryPrint creates a job for the shift's print point.  *)
QueueLabel(l) ==
  /\ delivery[l] = "none"
  /\ \A k \in 1..(l - 1) : delivery[k] # "none"
  /\ delivery' = [delivery EXCEPT ![l] = "QUEUED"]
  /\ UNCHANGED <<over, tries, agent, journal, memory, pendingMark, reports, labels>>

LabelLeaseOver(l) ==
  /\ delivery[l] = "CLAIMED" /\ l \notin over
  /\ over' = over \cup {l}
  /\ UNCHANGED <<delivery, tries, agent, journal, memory, pendingMark, reports, labels>>

VerdictTrusting(o, n) ==   \* mutant: an unknown outcome counts as printed
  IF o \in {"sent", "unknown"} THEN "SENT_TO_PRINTER"
  ELSE IF n >= MaxDeliveries THEN "FAILED" ELSE "QUEUED"

(* What a report makes of a claimed job; n attempts were read with it. *)
VerdictOf(o, n) ==
  CASE o = "sent"    -> "SENT_TO_PRINTER"
    [] o = "unknown" -> "NEEDS_REVIEW"
    [] o = "failed"  -> IF n >= MaxDeliveries THEN "FAILED" ELSE "QUEUED"

(* The agent hears the answer to its report; only a report about the job   *)
(* it marked clears the mark.                                              *)
Heard(r) ==
  IF r.awaited
    THEN /\ agent' = At("idle", NoLabel)
         /\ pendingMark' = IF agent.at = "repeat" THEN pendingMark ELSE NoLabel
    ELSE UNCHANGED <<agent, pendingMark>>

(* reportDelivery, its read: a job that is not claimed is left alone. *)
ReadReport(r) ==
  /\ r \in reports /\ ~r.read
  /\ IF delivery[r.label] = "CLAIMED"
       THEN /\ reports' = (reports \ {r}) \cup {[r EXCEPT !.read = TRUE, !.tries = tries[r.label]]}
            /\ UNCHANGED <<agent, pendingMark>>
       ELSE /\ reports' = reports \ {r}
            /\ Heard(r)
  /\ UNCHANGED <<delivery, over, tries, journal, memory, labels>>

(* ... and its write, whatever the job has become since. *)
WriteReport(r) ==
  LET l == r.label
      v == VerdictOf(r.says, r.tries) IN
  /\ r \in reports /\ r.read
  /\ delivery' = [delivery EXCEPT ![l] = v]
  /\ over' = over \ {l}
  /\ reports' = reports \ {r}
  /\ Heard(r)
  /\ UNCHANGED <<tries, journal, memory, labels>>

-----------------------------------------------------------------------------
(* The agent *)

Claimable == {l \in Label : delivery[l] = "QUEUED" \/ (delivery[l] = "CLAIMED" /\ l \in over)}

(* poll: claimNextDelivery hands out the oldest job.  The answer is lost,  *)
(* or the agent recognises a job of its journal and reports the outcome    *)
(* as unknown, or marks the job and goes on to print it.                   *)
Poll(l) ==
  /\ agent.at = "idle"
  /\ l \in Claimable /\ \A k \in Claimable : l <= k
  /\ tries[l] < MaxClaims
  /\ delivery' = [delivery EXCEPT ![l] = "CLAIMED"]
  /\ over' = over \ {l}
  /\ tries' = [tries EXCEPT ![l] = @ + 1]
  /\ \/ UNCHANGED <<agent, pendingMark, reports>>
     \/ /\ l \in memory
        /\ agent' = At("repeat", l)
        /\ reports' = reports \cup {Saying(l, "unknown")}
        /\ UNCHANGED pendingMark
     \/ /\ l \notin memory
        /\ agent' = At("printing", l)
        /\ pendingMark' = l
        /\ UNCHANGED reports
  /\ UNCHANGED <<journal, memory, labels>>

(* sendToPrinter *)
SpoolerTakes ==
  /\ agent.at = "printing"
  /\ labels' = [labels EXCEPT ![agent.label] = @ + 1]
  /\ agent' = At("printed", agent.label)
  /\ UNCHANGED <<delivery, over, tries, journal, memory, pendingMark, reports>>

SpoolerRefuses ==
  /\ agent.at = "printing"
  /\ agent' = At("reporting", agent.label)
  /\ reports' = reports \cup {Saying(agent.label, "failed")}
  /\ UNCHANGED <<delivery, over, tries, journal, memory, pendingMark, labels>>

(* rememberJob, then the report.  The journal in memory is not touched. *)
Remember ==
  /\ agent.at = "printed"
  /\ journal' = journal \cup {agent.label}
  /\ agent' = At("reporting", agent.label)
  /\ reports' = reports \cup {Saying(agent.label, "sent")}
  /\ UNCHANGED <<delivery, over, tries, memory, pendingMark, labels>>

(* The request or its answer is lost.  An error of the report "sent" lands *)
(* in the handler of spooler errors, which reports a failure; an error of  *)
(* any other report ends the round, and the mark stays.                    *)
ReportLost(r) ==
  /\ r \in reports /\ r.awaited
  /\ \E kept \in {{}, {[r EXCEPT !.awaited = FALSE]}} :
       IF r.says = "sent"
         THEN /\ reports' = (reports \ {r}) \cup kept \cup {Saying(r.label, "failed")}
              /\ UNCHANGED agent
         ELSE /\ reports' = (reports \ {r}) \cup kept
              /\ agent' = At("idle", NoLabel)
  /\ UNCHANGED <<delivery, over, tries, journal, memory, pendingMark, labels>>

(* The computer is switched off.  A report under way arrives or is lost. *)
SwitchOff ==
  /\ agent.at # "down"
  /\ agent' = At("down", NoLabel)
  /\ memory' = {}
  /\ LET mine == {r \in reports : r.awaited} IN
     \E kept \in {{}, {[r EXCEPT !.awaited = FALSE] : r \in mine}} :
       reports' = (reports \ mine) \cup kept
  /\ UNCHANGED <<delivery, over, tries, journal, pendingMark, labels>>

(* loop: the journal is read once, a mark left behind is reported. *)
SwitchOn ==
  /\ agent.at = "down"
  /\ memory' = journal
  /\ IF pendingMark = NoLabel
       THEN agent' = At("idle", NoLabel) /\ UNCHANGED reports
       ELSE /\ agent' = At("restart", pendingMark)
            /\ reports' = reports \cup {Saying(pendingMark, "unknown")}
  /\ UNCHANGED <<delivery, over, tries, journal, pendingMark, labels>>

-----------------------------------------------------------------------------
PrintNext ==
  \/ \E l \in Label : QueueLabel(l) \/ LabelLeaseOver(l) \/ Poll(l)
  \/ \E r \in reports : ReadReport(r) \/ WriteReport(r) \/ ReportLost(r)
  \/ SpoolerTakes \/ SpoolerRefuses \/ Remember \/ SwitchOff \/ SwitchOn

PrintSpec == PrintInit /\ [][PrintNext]_printVars

-----------------------------------------------------------------------------
(* Properties *)

(* A job says "sent to the printer" only if the spooler took its label,    *)
(* although reports come late, twice, or after a restart.                  *)
SentWasPrinted == \A l \in Label : delivery[l] = "SENT_TO_PRINTER" => labels[l] > 0

(* "Better no label than two": no label leaves the spooler twice. *)
PrintedOnce == \A l \in Label : labels[l] <= 1
=============================================================================
