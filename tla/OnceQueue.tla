----------------------------- MODULE OnceQueue -----------------------------
(***************************************************************************)
(* What the outbox promises to the business transaction that enqueues a    *)
(* message: its effect is applied at most once, it is called done only     *)
(* after that, done is final, and what was given up can be asked for again *)
(* by an administrator.  Workers, leases and crashes do not appear.        *)
(***************************************************************************)
CONSTANT Message

VARIABLES
  verdict,  \* what the queue says of a message
  applied   \* messages whose effect is in the database

Init ==
  /\ verdict = [m \in Message |-> "absent"]
  /\ applied = {}

Submit(m) ==
  /\ verdict[m] = "absent"
  /\ verdict' = [verdict EXCEPT ![m] = "waiting"]
  /\ UNCHANGED applied

(* The effect together with the verdict, or found applied already. *)
Succeed(m) ==
  /\ verdict[m] = "waiting"
  /\ verdict' = [verdict EXCEPT ![m] = "done"]
  /\ applied' = applied \cup {m}

(* The effect alone: whoever applied it had no right to the verdict. *)
ApplyLate(m) ==
  /\ verdict[m] # "absent"
  /\ m \notin applied
  /\ applied' = applied \cup {m}
  /\ UNCHANGED verdict

GiveUp(m) ==
  /\ verdict[m] = "waiting"
  /\ verdict' = [verdict EXCEPT ![m] = "dead"]
  /\ UNCHANGED applied

AskAgain(m) ==
  /\ verdict[m] = "dead"
  /\ verdict' = [verdict EXCEPT ![m] = "waiting"]
  /\ UNCHANGED applied

Next == \E m \in Message :
  Submit(m) \/ Succeed(m) \/ ApplyLate(m) \/ GiveUp(m) \/ AskAgain(m)

Spec == Init /\ [][Next]_<<verdict, applied>>
=============================================================================
