------------------------------ MODULE PlanRuns ------------------------------
(***************************************************************************)
(* Runs of the automatic planning of one delivery day (modules/planning).  *)
(* A logist requests a run; a planner process claims it under a lease,     *)
(* computes outside any transaction and leaves a preview, which the logist *)
(* applies (draft routes appear) or lets expire.  A run whose lease is     *)
(* over is recovered by another process, a bounded number of times, and    *)
(* then closed as failed.                                                  *)
(*                                                                         *)
(* The day is held by at most one unfinished run (unique activeDateKey).   *)
(* A change of the input since the request, whichever of the many it is,   *)
(* is one fact about the run.                                              *)
(***************************************************************************)
EXTENDS Naturals, FiniteSets

CONSTANTS
  Run,           \* RoutePlanRun rows that may be created for the day
  Planner,       \* processes that run the planning runner
  NoPlanner,     \* no process, no run
  MaxRecoveries  \* MAX_RECOVERY_ATTEMPTS

ASSUME PlanAssumption ==
  /\ NoPlanner \notin Run \cup Planner
  /\ MaxRecoveries \in Nat

VARIABLES
  plan,       \* RoutePlanRun.state
  holder,     \* lockedBy
  overdue,    \* runs whose lockedUntil has passed
  recoveries, \* recoveryAttempts
  outdated,      \* runs whose input has changed since the request
  applied,    \* appliedAt is set
  drafts,     \* runs whose draft routes exist
  planner,    \* what a planner process is doing
  expiring    \* open transactions that read a preview in order to end it

planVars == <<plan, holder, overdue, recoveries, outdated, applied, drafts, planner, expiring>>

Unfinished == {"QUEUED", "COMPUTING", "PREVIEW"}
PlanState  == Unfinished \cup {"none", "APPLIED", "EXPIRED", "FAILED"}

(* at: idle, closing exhausted runs and then claiming, computing a run.    *)
Resting == [at |-> "idle", list |-> {}, run |-> NoPlanner]

PlanTypeOK ==
  /\ plan \in [Run -> PlanState]
  /\ holder \in [Run -> Planner \cup {NoPlanner}]
  /\ overdue \subseteq Run
  /\ recoveries \in [Run -> 0..MaxRecoveries]
  /\ outdated \subseteq Run /\ applied \subseteq Run /\ drafts \subseteq Run
  /\ planner \in [Planner -> [at : {"idle", "closing", "computing"},
                              list : SUBSET Run, run : Run \cup {NoPlanner}]]
  /\ expiring \subseteq Run \X (Run \cup {NoPlanner})

PlanInit ==
  /\ plan = [r \in Run |-> "none"]
  /\ holder = [r \in Run |-> NoPlanner]
  /\ overdue = {}
  /\ recoveries = [r \in Run |-> 0]
  /\ outdated = {} /\ applied = {} /\ drafts = {}
  /\ planner = [w \in Planner |-> Resting]
  /\ expiring = {}

-----------------------------------------------------------------------------
Busy(r) == plan[r] \in Unfinished

FinishUnchecked(r, st, others) ==   \* mutant: no CHECK on appliedAt
  /\ plan' = [others EXCEPT ![r] = st]
  /\ holder' = [holder EXCEPT ![r] = NoPlanner]
  /\ overdue' = overdue \ {r}

(* finishRun, whatever the state of the row is by now.  appliedAt is not   *)
(* cleared, and RoutePlanRun_applied_complete refuses to keep it in any    *)
(* other state than APPLIED.                                               *)
Finish(r, st, others) ==
  /\ r \notin applied
  /\ plan' = [others EXCEPT ![r] = st]
  /\ holder' = [holder EXCEPT ![r] = NoPlanner]
  /\ overdue' = overdue \ {r}

-----------------------------------------------------------------------------
(* The logist *)

(* A row nobody has created or is about to create. *)
Unasked(r) == plan[r] = "none" /\ \A e \in expiring : e[2] # r

(* requestPlan without a preview to replace. *)
RequestPlan(r) ==
  /\ Unasked(r)
  /\ \A s \in Run : ~Busy(s)
  /\ plan' = [plan EXCEPT ![r] = "QUEUED"]
  /\ UNCHANGED <<holder, overdue, recoveries, outdated, applied, drafts, planner, expiring>>

(* An order, a depot, a courier or a setting is changed, or an order is    *)
(* put into a route by hand.                                               *)
InputChanges ==
  /\ outdated' = {r \in Run : plan[r] # "none"}
  /\ outdated' # outdated
  /\ UNCHANGED <<plan, holder, overdue, recoveries, applied, drafts, planner, expiring>>

(* expirePreviewRow up to its write: the row is read without a lock.  The  *)
(* second run is the one that replaces the preview, if any.                *)
ReadPreview(r, by) ==
  /\ plan[r] = "PREVIEW"
  /\ by # NoPlanner => Unasked(by)
  /\ expiring' = expiring \cup {<<r, by>>}
  /\ UNCHANGED <<plan, holder, overdue, recoveries, outdated, applied, drafts, planner>>

(* Its write, with the new run of requestPlan inserted after it.           *)
ExpirePreview(r, by) ==
  /\ <<r, by>> \in expiring
  /\ by # NoPlanner => \A s \in Run \ {r} : ~Busy(s)
  /\ Finish(r, "EXPIRED", [s \in Run |-> IF s = by THEN "QUEUED" ELSE plan[s]])
  /\ expiring' = expiring \ {<<r, by>>}
  /\ UNCHANGED <<recoveries, outdated, applied, drafts, planner>>

(* A constraint refused the write: the transaction is rolled back. *)
ExpireRefused(r, by) ==
  /\ <<r, by>> \in expiring
  /\ r \in applied \/ (by # NoPlanner /\ \E s \in Run \ {r} : Busy(s))
  /\ expiring' = expiring \ {<<r, by>>}
  /\ UNCHANGED <<plan, holder, overdue, recoveries, outdated, applied, drafts, planner>>

(* applyPlan, the row and the orders locked: drafts, or the preview        *)
(* expires because its input is not the one of today.                      *)
ApplyPlan(r) ==
  /\ plan[r] = "PREVIEW"
  /\ IF r \in outdated
       THEN plan' = [plan EXCEPT ![r] = "EXPIRED"] /\ UNCHANGED <<applied, drafts>>
       ELSE /\ plan' = [plan EXCEPT ![r] = "APPLIED"]
            /\ applied' = applied \cup {r}
            /\ drafts' = drafts \cup {r}
  /\ UNCHANGED <<holder, overdue, recoveries, outdated, planner, expiring>>

-----------------------------------------------------------------------------
(* The runner *)

Queued    == {r \in Run : plan[r] = "QUEUED"}
Lost      == {r \in overdue : plan[r] = "COMPUTING" /\ recoveries[r] < MaxRecoveries}
Exhausted == {r \in overdue : plan[r] = "COMPUTING" /\ recoveries[r] = MaxRecoveries}

(* failExhaustedRuns lists the runs nobody may recover any more ... *)
ListExhausted(w) ==
  /\ planner[w].at = "idle"
  /\ planner' = [planner EXCEPT ![w] = [Resting EXCEPT !.at = "closing", !.list = Exhausted]]
  /\ UNCHANGED <<plan, holder, overdue, recoveries, outdated, applied, drafts, expiring>>

(* ... and closes each in a transaction of its own, without another look.  *)
(* A refused write is an exception that ends the pass.                     *)
CloseExhausted(w) ==
  /\ planner[w].at = "closing"
  /\ \E r \in planner[w].list :
       \/ /\ Finish(r, "FAILED", plan)
          /\ planner' = [planner EXCEPT ![w].list = @ \ {r}]
       \/ /\ r \in applied
          /\ planner' = [planner EXCEPT ![w] = Resting]
          /\ UNCHANGED <<plan, holder, overdue>>
  /\ UNCHANGED <<recoveries, outdated, applied, drafts, expiring>>

(* claimRun: the queue first, then a run whose lease is over. *)
ClaimRun(w) ==
  /\ planner[w].at = "closing" /\ planner[w].list = {}
  /\ IF Queued \cup Lost = {}
       THEN /\ planner' = [planner EXCEPT ![w] = Resting]
            /\ UNCHANGED <<plan, holder, overdue, recoveries>>
       ELSE \E r \in IF Queued # {} THEN Queued ELSE Lost :
            /\ plan' = [plan EXCEPT ![r] = "COMPUTING"]
            /\ holder' = [holder EXCEPT ![r] = w]
            /\ overdue' = overdue \ {r}
            /\ recoveries' = IF r \in Queued THEN recoveries ELSE [recoveries EXCEPT ![r] = @ + 1]
            /\ planner' = [planner EXCEPT ![w] = [Resting EXCEPT !.at = "computing", !.run = r]]
  /\ UNCHANGED <<outdated, applied, drafts, expiring>>

OwnsRun(w, r) == plan[r] = "COMPUTING" /\ holder[r] = w

(* computeRun ends with a preview, or failRun: only while the lease is     *)
(* still this process's.                                                   *)
ComputeRun(w) ==
  LET r == planner[w].run IN
  /\ planner[w].at = "computing"
  /\ \E st \in {"PREVIEW", "FAILED"} :
       IF OwnsRun(w, r)
         THEN /\ plan' = [plan EXCEPT ![r] = st]
              /\ holder' = [holder EXCEPT ![r] = NoPlanner]
              /\ overdue' = overdue \ {r}
         ELSE UNCHANGED <<plan, holder, overdue>>
  /\ planner' = [planner EXCEPT ![w] = Resting]
  /\ UNCHANGED <<recoveries, outdated, applied, drafts, expiring>>

(* heartbeatRun *)
HeartbeatRun(w) ==
  LET r == planner[w].run IN
  /\ planner[w].at = "computing"
  /\ OwnsRun(w, r) /\ r \in overdue
  /\ overdue' = overdue \ {r}
  /\ UNCHANGED <<plan, holder, recoveries, outdated, applied, drafts, planner, expiring>>

LeaseOver(r) ==
  /\ plan[r] = "COMPUTING" /\ r \notin overdue
  /\ overdue' = overdue \cup {r}
  /\ UNCHANGED <<plan, holder, recoveries, outdated, applied, drafts, planner, expiring>>

(* The process dies and starts anew, or its pass ends by an error. *)
PlannerCrash(w) ==
  /\ planner[w] # Resting
  /\ planner' = [planner EXCEPT ![w] = Resting]
  /\ UNCHANGED <<plan, holder, overdue, recoveries, outdated, applied, drafts, expiring>>

-----------------------------------------------------------------------------
PlanNext ==
  \/ \E r \in Run :
       \/ RequestPlan(r) \/ ApplyPlan(r) \/ LeaseOver(r)
       \/ \E by \in Run \cup {NoPlanner} :
            ReadPreview(r, by) \/ ExpirePreview(r, by) \/ ExpireRefused(r, by)
  \/ InputChanges
  \/ \E w \in Planner :
       \/ ListExhausted(w) \/ CloseExhausted(w) \/ ClaimRun(w)
       \/ ComputeRun(w) \/ HeartbeatRun(w) \/ PlannerCrash(w)

PlanSpec == PlanInit /\ [][PlanNext]_planVars

-----------------------------------------------------------------------------
(* Properties *)

(* Draft routes exist for exactly the runs that say they were applied: no  *)
(* expiry, replacement or late closing takes back what was applied.        *)
DraftsIffApplied == \A r \in Run : r \in drafts <=> plan[r] = "APPLIED"

(* One run holds the day, although previews are replaced and runs are      *)
(* closed from several processes at once.                                  *)
OneRunHoldsDay == Cardinality({r \in Run : Busy(r)}) <= 1

(* A preview goes away only when a person applies it, expires it or        *)
(* replaces it.                                                            *)
PreviewStays ==
  [][\A r \in Run : plan[r] = "PREVIEW" => plan'[r] \in {"PREVIEW", "APPLIED", "EXPIRED"}]_planVars
=============================================================================
