---------------------------- MODULE MCOperations -----------------------------
(***************************************************************************)
(* One model-checking instance for the components behind the daily work:   *)
(* who is signed in and may do what, planning runs, edit leases, labels,   *)
(* the florists' queue and the event channel of the screens. They share no *)
(* state, so a behaviour explores one of them, chosen at the start, while  *)
(* the others rest in their initial states: the state spaces add up        *)
(* instead of multiplying.                                                 *)
(***************************************************************************)
EXTENDS Sessions, Accounts, PlanRuns, RouteLeases, Printing, Assembly, Realtime, TLC

VARIABLE part

operationsVars == <<sessionVars, accountVars, planVars, leaseVars, printVars, assemblyVars,
                    realtimeVars, part>>

Part == {"sessions", "accounts", "planning", "leases", "printing", "assembly", "realtime"}

(* A resting component whose first state is not unique rests in one. *)
PhonesRest == \A p, q \in Person : phoneNo[p] = phoneNo[q]

OperationsInit ==
  /\ part \in Part
  /\ SessionInit /\ PlanInit /\ PrintInit /\ RealtimeInit
  /\ AccountInit /\ (part # "accounts" => PhonesRest)
  /\ LeaseInit /\ (part # "leases" => editor = {})
  /\ AssemblyInit /\ (part # "assembly" => auto = FALSE)

OperationsNext ==
  \/ /\ part = "sessions" /\ SessionNext
     /\ UNCHANGED <<accountVars, planVars, leaseVars, printVars, assemblyVars, realtimeVars, part>>
  \/ /\ part = "accounts" /\ AccountNext
     /\ UNCHANGED <<sessionVars, planVars, leaseVars, printVars, assemblyVars, realtimeVars, part>>
  \/ /\ part = "planning" /\ PlanNext
     /\ UNCHANGED <<sessionVars, accountVars, leaseVars, printVars, assemblyVars, realtimeVars, part>>
  \/ /\ part = "leases" /\ LeaseNext
     /\ UNCHANGED <<sessionVars, accountVars, planVars, printVars, assemblyVars, realtimeVars, part>>
  \/ /\ part = "printing" /\ PrintNext
     /\ UNCHANGED <<sessionVars, accountVars, planVars, leaseVars, assemblyVars, realtimeVars, part>>
  \/ /\ part = "assembly" /\ AssemblyNext
     /\ UNCHANGED <<sessionVars, accountVars, planVars, leaseVars, printVars, realtimeVars, part>>
  \/ /\ part = "realtime" /\ RealtimeNext
     /\ UNCHANGED <<sessionVars, accountVars, planVars, leaseVars, printVars, assemblyVars, part>>

OperationsSpec == OperationsInit /\ [][OperationsNext]_operationsVars

(* Requests and worker processes are interchangeable, and so are devices,  *)
(* phone numbers, editors and shifts; the instance gives each group one    *)
(* set of names, which only one component at a time makes use of.          *)
OperationsSymmetry == Permutations(Req) \cup Permutations(Family)

(* A row's deadline counts only while its transaction is open, and its age *)
(* limit follows from its stamp.                                           *)
RowView(row) ==
  CASE row.state = "open" -> <<row.state, row.stamped, row.mine, row.due>>
    [] row.state \in {"committed", "deleted"} -> <<row.state, row.stamped, row.mine>>
    [] OTHER -> <<row.state>>

(* What is explored: the variables of the chosen component, the others     *)
(* being constant.                                                         *)
OperationsView ==
  CASE part = "sessions" -> <<part, sessionVars>>
    [] part = "accounts" -> <<part, accountVars>>
    [] part = "planning" -> <<part, planVars>>
    [] part = "leases"   -> <<part, leaseVars>>
    [] part = "printing" -> <<part, printVars>>
    [] part = "assembly" -> <<part, assemblyVars>>
    [] part = "realtime" -> <<part, time, [i \in Id |-> RowView(events[i])], nextId, alive,
                              stream, drain, tab, got, base, postEnd>>
=============================================================================
