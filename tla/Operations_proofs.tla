-------------------------- MODULE Operations_proofs --------------------------
(***************************************************************************)
(* Proofs about PlanRuns, Printing, Assembly and RouteLeases, for every    *)
(* set of processes, runs, jobs, florists, orders and editors and for      *)
(* every bound, every term of a lease and every delay shorter than it; and *)
(* about the composition that is model-checked (MCOperations).             *)
(***************************************************************************)
EXTENDS MCOperations, FiniteSetTheorems, TLAPS

-----------------------------------------------------------------------------
(* Planning runs *)

(* An open transaction that ends a preview has a row of its own to put in  *)
(* its place, and the rows that are to be closed exist.                    *)
PlanSound ==
  /\ applied = drafts
  /\ DraftsIffApplied
  /\ \A r, s \in Run : Busy(r) /\ Busy(s) => r = s
  /\ \A e \in expiring : /\ plan[e[1]] # "none"
                         /\ e[2] # NoPlanner => plan[e[2]] = "none"
  /\ \A e, f \in expiring : e[2] = f[2] /\ e[2] # NoPlanner => e = f
  /\ \A w \in Planner : \A r \in planner[w].list : plan[r] # "none"

PlanInv == PlanTypeOK /\ PlanSound

LEMMA PlansBegin == PlanInit => PlanInv
<1> SUFFICES ASSUME PlanInit PROVE PlanInv
  OBVIOUS
<1>1. PlanTypeOK
  BY PlanAssumption DEF PlanInit, PlanTypeOK, Resting, PlanState
<1>2. PlanSound
  BY DEF PlanInit, PlanSound, DraftsIffApplied, Busy, Unfinished, Resting
<1> QED BY <1>1, <1>2 DEF PlanInv

LEMMA ClaimableRun ==
  ASSUME PlanTypeOK, NEW r \in Queued \cup Lost
  PROVE  /\ r \in Run
         /\ plan[r] \in {"QUEUED", "COMPUTING"}
         /\ r \in Queued \/ (r \in overdue /\ recoveries[r] < MaxRecoveries)
<1>1. overdue \subseteq Run
  BY DEF PlanTypeOK
<1>2. r \in Queued => r \in Run /\ plan[r] = "QUEUED"
  BY DEF Queued
<1>3. r \in Lost => r \in overdue /\ plan[r] = "COMPUTING" /\ recoveries[r] < MaxRecoveries
  BY DEF Lost
<1> QED BY <1>1, <1>2, <1>3

LEMMA ExhaustedRun ==
  ASSUME NEW r \in Exhausted
  PROVE  r \in overdue /\ plan[r] = "COMPUTING"
BY DEF Exhausted

LEMMA PlanTypeStep ==
  ASSUME PlanTypeOK, [PlanNext]_planVars PROVE PlanTypeOK'
<1> DEFINE Doing == [at : {"idle", "closing", "computing"},
                     list : SUBSET Run, run : Run \cup {NoPlanner}]
<1>a. ASSUME NEW w \in Planner, NEW L \in SUBSET Run, NEW d \in Doing
      PROVE  [d EXCEPT !.list = L] \in Doing
  OBVIOUS
<1>b. ASSUME NEW r \in Run
      PROVE  [Resting EXCEPT !.at = "computing", !.run = r] \in Doing
  BY DEF Resting
<1>c. ASSUME NEW L \in SUBSET Run
      PROVE  [Resting EXCEPT !.at = "closing", !.list = L] \in Doing
  BY DEF Resting
<1> USE PlanAssumption DEF PlanTypeOK, PlanState, Unfinished, Resting
<1>1. ASSUME NEW r \in Run, RequestPlan(r) PROVE PlanTypeOK'
  BY <1>1 DEF RequestPlan
<1>2. ASSUME NEW r \in Run, ApplyPlan(r) PROVE PlanTypeOK'
  BY <1>2 DEF ApplyPlan
<1>3. ASSUME NEW r \in Run, LeaseOver(r) PROVE PlanTypeOK'
  BY <1>3 DEF LeaseOver
<1>4. ASSUME NEW r \in Run, NEW q \in Run \cup {NoPlanner}, ReadPreview(r, q)
      PROVE  PlanTypeOK'
  BY <1>4 DEF ReadPreview
<1>5. ASSUME NEW r \in Run, NEW q \in Run \cup {NoPlanner}, ExpirePreview(r, q)
      PROVE  PlanTypeOK'
  BY <1>5 DEF ExpirePreview, Finish
<1>6. ASSUME NEW r \in Run, NEW q \in Run \cup {NoPlanner}, ExpireRefused(r, q)
      PROVE  PlanTypeOK'
  BY <1>6 DEF ExpireRefused
<1>7. CASE InputChanges
  BY <1>7 DEF InputChanges
<1>8. ASSUME NEW w \in Planner, ListExhausted(w) PROVE PlanTypeOK'
  <2> DEFINE D == [Resting EXCEPT !.at = "closing", !.list = Exhausted]
  <2>0. Exhausted \in SUBSET Run
    BY DEF Exhausted
  <2>1. D \in Doing
    BY <1>c, <2>0
  <2>2. planner' = [planner EXCEPT ![w] = D]
    BY <1>8 DEF ListExhausted
  <2> HIDE DEF D
  <2>3. planner' \in [Planner -> Doing]
    BY <2>1, <2>2
  <2> QED BY <1>8, <2>3 DEF ListExhausted
<1>9. ASSUME NEW w \in Planner, CloseExhausted(w) PROVE PlanTypeOK'
  <2>1. PICK r \in planner[w].list :
          \/ /\ Finish(r, "FAILED", plan)
             /\ planner' = [planner EXCEPT ![w].list = @ \ {r}]
          \/ /\ planner' = [planner EXCEPT ![w] = Resting]
             /\ UNCHANGED <<plan, holder, overdue>>
    BY <1>9 DEF CloseExhausted
  <2>2. r \in Run
    OBVIOUS
  <2>3. planner' \in [Planner -> Doing]
    BY <2>1, <1>a DEF Doing
  <2>4. /\ plan' \in [Run -> PlanState] /\ overdue' \subseteq Run
        /\ holder' \in [Run -> Planner \cup {NoPlanner}]
    BY <2>1, <2>2 DEF Finish
  <2> QED BY <1>9, <2>3, <2>4 DEF CloseExhausted
<1>10. ASSUME NEW w \in Planner, ClaimRun(w) PROVE PlanTypeOK'
  <2>1. CASE /\ planner' = [planner EXCEPT ![w] = Resting]
             /\ UNCHANGED <<plan, holder, overdue, recoveries>>
    BY <1>10, <2>1 DEF ClaimRun
  <2>2. CASE Queued \cup Lost = {}
    BY <1>10, <2>1, <2>2 DEF ClaimRun
  <2>3. CASE Queued \cup Lost # {}
    <3>1. PICK r \in Queued \cup Lost :
            /\ plan' = [plan EXCEPT ![r] = "COMPUTING"]
            /\ holder' = [holder EXCEPT ![r] = w]
            /\ overdue' = overdue \ {r}
            /\ recoveries' = IF r \in Queued THEN recoveries ELSE [recoveries EXCEPT ![r] = @ + 1]
            /\ planner' = [planner EXCEPT ![w] = [Resting EXCEPT !.at = "computing", !.run = r]]
      BY <1>10, <2>3 DEF ClaimRun
    <3>2. /\ r \in Run
          /\ r \in Queued \/ (r \in overdue /\ recoveries[r] < MaxRecoveries)
      <4> HIDE DEF PlanTypeOK
      <4> QED BY ClaimableRun
    <3>3. recoveries' \in [Run -> 0..MaxRecoveries]
      BY <3>1, <3>2
    <3> DEFINE D == [Resting EXCEPT !.at = "computing", !.run = r]
    <3>4. D \in Doing
      BY <1>b, <3>2
    <3>5. planner' = [planner EXCEPT ![w] = D]
      BY <3>1
    <3> HIDE DEF D
    <3>6. planner' \in [Planner -> Doing]
      BY <3>4, <3>5
    <3> QED BY <1>10, <3>1, <3>2, <3>3, <3>6 DEF ClaimRun
  <2> QED BY <2>2, <2>3
<1>11. ASSUME NEW w \in Planner, ComputeRun(w) PROVE PlanTypeOK'
  BY <1>11 DEF ComputeRun, OwnsRun
<1>12. ASSUME NEW w \in Planner, HeartbeatRun(w) PROVE PlanTypeOK'
  BY <1>12 DEF HeartbeatRun
<1>13. ASSUME NEW w \in Planner, PlannerCrash(w) PROVE PlanTypeOK'
  BY <1>13 DEF PlannerCrash
<1>14. CASE UNCHANGED planVars
  BY <1>14 DEF planVars
<1> QED BY <1>1, <1>2, <1>3, <1>4, <1>5, <1>6, <1>7, <1>8, <1>9, <1>10, <1>11, <1>12,
           <1>13, <1>14 DEF PlanNext

LEMMA PlanSoundStep ==
  ASSUME PlanInv, [PlanNext]_planVars PROVE PlanSound'
<1> USE PlanAssumption
    DEF PlanInv, PlanTypeOK, PlanSound, DraftsIffApplied, Busy, PlanState, Unfinished, Resting
<1>1. ASSUME NEW r \in Run, RequestPlan(r) PROVE PlanSound'
  BY <1>1 DEF RequestPlan, Unasked
<1>2. ASSUME NEW r \in Run, ApplyPlan(r) PROVE PlanSound'
  <2>1. CASE r \in outdated
    BY <1>2, <2>1 DEF ApplyPlan
  <2>2. CASE r \notin outdated
    <3>1. /\ plan[r] = "PREVIEW" /\ plan' = [plan EXCEPT ![r] = "APPLIED"]
          /\ applied' = applied \cup {r} /\ drafts' = drafts \cup {r}
          /\ expiring' = expiring /\ planner' = planner
      BY <1>2, <2>2 DEF ApplyPlan
    <3>2. applied' = drafts' /\ DraftsIffApplied'
      BY <3>1
    <3>3. \A s, t \in Run : Busy(s)' /\ Busy(t)' => s = t
      BY <3>1
    <3>4. \A e \in expiring' : /\ plan'[e[1]] # "none"
                               /\ e[2] # NoPlanner => plan'[e[2]] = "none"
      BY <3>1
    <3> QED BY <3>1, <3>2, <3>3, <3>4
  <2> QED BY <2>1, <2>2
<1>3. ASSUME NEW r \in Run, LeaseOver(r) PROVE PlanSound'
  BY <1>3 DEF LeaseOver
<1>4. ASSUME NEW r \in Run, NEW q \in Run \cup {NoPlanner}, ReadPreview(r, q)
      PROVE  PlanSound'
  BY <1>4 DEF ReadPreview, Unasked
<1>5. ASSUME NEW r \in Run, NEW q \in Run \cup {NoPlanner}, ExpirePreview(r, q)
      PROVE  PlanSound'
  BY <1>5 DEF ExpirePreview, Finish
<1>6. ASSUME NEW r \in Run, NEW q \in Run \cup {NoPlanner}, ExpireRefused(r, q)
      PROVE  PlanSound'
  BY <1>6 DEF ExpireRefused
<1>7. CASE InputChanges
  BY <1>7 DEF InputChanges
<1>8. ASSUME NEW w \in Planner, ListExhausted(w) PROVE PlanSound'
  <2>1. ASSUME NEW r \in Exhausted PROVE plan[r] # "none"
    BY ExhaustedRun
  <2> QED BY <1>8, <2>1 DEF ListExhausted
<1>9. ASSUME NEW w \in Planner, CloseExhausted(w) PROVE PlanSound'
  BY <1>9 DEF CloseExhausted, Finish
<1>10. ASSUME NEW w \in Planner, ClaimRun(w) PROVE PlanSound'
  <2>1. CASE /\ planner' = [planner EXCEPT ![w] = Resting]
             /\ UNCHANGED <<plan, holder, overdue, recoveries>>
    BY <1>10, <2>1 DEF ClaimRun
  <2>2. CASE Queued \cup Lost = {}
    BY <1>10, <2>1, <2>2 DEF ClaimRun
  <2>3. CASE Queued \cup Lost # {}
    <3>1. PICK r \in Queued \cup Lost :
            /\ plan' = [plan EXCEPT ![r] = "COMPUTING"]
            /\ planner' = [planner EXCEPT ![w] = [Resting EXCEPT !.at = "computing", !.run = r]]
      BY <1>10, <2>3 DEF ClaimRun
    <3>2. r \in Run /\ plan[r] \in {"QUEUED", "COMPUTING"}
      <4> HIDE DEF PlanTypeOK, PlanInv
      <4> QED BY ClaimableRun DEF PlanInv
    <3>3. UNCHANGED <<applied, drafts, expiring>>
      BY <1>10 DEF ClaimRun
    <3>4. planner'[w].list = {} /\ \A v \in Planner \ {w} : planner'[v] = planner[v]
      BY <3>1
    <3> QED BY <3>1, <3>2, <3>3, <3>4
  <2> QED BY <2>2, <2>3
<1>11. ASSUME NEW w \in Planner, ComputeRun(w) PROVE PlanSound'
  BY <1>11 DEF ComputeRun, OwnsRun
<1>12. ASSUME NEW w \in Planner, HeartbeatRun(w) PROVE PlanSound'
  BY <1>12 DEF HeartbeatRun
<1>13. ASSUME NEW w \in Planner, PlannerCrash(w) PROVE PlanSound'
  BY <1>13 DEF PlannerCrash
<1>14. CASE UNCHANGED planVars
  BY <1>14 DEF planVars
<1> QED BY <1>1, <1>2, <1>3, <1>4, <1>5, <1>6, <1>7, <1>8, <1>9, <1>10, <1>11, <1>12,
           <1>13, <1>14 DEF PlanNext

(* The inductive invariant of the planning runs: besides the properties,   *)
(* what a transaction that ends a preview relies on after reading it.      *)
THEOREM PlansSafe == PlanSpec => []PlanInv
<1>1. PlanInv /\ [PlanNext]_planVars => PlanInv'
  BY PlanTypeStep, PlanSoundStep DEF PlanInv
<1> QED BY <1>1, PlansBegin, PTL DEF PlanSpec

(* applyPlan, finishRun: draft routes belong to exactly the runs that were *)
(* applied, although finishRun writes without another look at the row.     *)
THEOREM PlansAreApplied == PlanSpec => []DraftsIffApplied
<1>1. PlanInv => DraftsIffApplied
  BY DEF PlanInv, PlanSound
<1> QED BY <1>1, PlansSafe, PTL

(* requestPlan, expirePreviewRow: one unfinished run holds the day.        *)
THEOREM DayIsHeldOnce == PlanSpec => []OneRunHoldsDay
<1>1. PlanInv => OneRunHoldsDay
  <2> SUFFICES ASSUME PlanInv PROVE OneRunHoldsDay
    OBVIOUS
  <2> DEFINE busy == {r \in Run : Busy(r)}
  <2>1. CASE busy = {}
    BY <2>1, FS_EmptySet DEF OneRunHoldsDay
  <2>2. ASSUME NEW r \in busy PROVE OneRunHoldsDay
    <3>1. busy = {r}
      BY DEF PlanInv, PlanSound
    <3>2. Cardinality(busy) = 1
      BY <3>1, FS_Singleton
    <3> QED BY <3>2 DEF OneRunHoldsDay
  <2> QED BY <2>1, <2>2
<1> QED BY <1>1, PlansSafe, PTL

-----------------------------------------------------------------------------
(* Labels *)

(* A report of success and an agent that has printed stand for a label the *)
(* spooler took; a label is printed at most once for each handing out.     *)
PrintSound ==
  /\ SentWasPrinted
  /\ \A r \in reports : r.says = "sent" => labels[r.label] > 0
  /\ agent.at = "printed" => labels[agent.label] > 0
  /\ agent.at \in {"printing", "printed"} => agent.label \in Label
  /\ \A l \in Label : labels[l] <= tries[l]
  /\ agent.at = "printing" => labels[agent.label] < tries[agent.label]

PrintInv == PrintTypeOK /\ PrintSound

LEMMA PrintingBegins == PrintInit => PrintInv
<1> SUFFICES ASSUME PrintInit PROVE PrintInv
  OBVIOUS
<1> USE PrintAssumption DEF PrintInit, Label, NoLabel, At
<1>1. PrintTypeOK
  BY DEF PrintTypeOK, Agent, Settled
<1>2. PrintSound
  BY DEF PrintSound, SentWasPrinted
<1> QED BY <1>1, <1>2 DEF PrintInv

LEMMA SayingIsReport ==
  ASSUME NEW l \in Label, NEW o \in Outcome
  PROVE  Saying(l, o) \in Report /\ Saying(l, o).says = o /\ Saying(l, o).label = l
BY PrintAssumption DEF Report, Saying

LEMMA UnheardIsReport ==
  ASSUME NEW r \in Report
  PROVE  LET s == [r EXCEPT !.awaited = FALSE]
         IN s \in Report /\ s.says = r.says /\ s.label = r.label
BY DEF Report

LEMMA ReadIsReport ==
  ASSUME NEW r \in Report, NEW n \in 0..MaxClaims
  PROVE  LET s == [r EXCEPT !.read = TRUE, !.tries = n]
         IN s \in Report /\ s.says = r.says /\ s.label = r.label
BY DEF Report

LEMMA PlaceIsAgent ==
  ASSUME NEW place \in {"down", "idle", "printing", "printed", "reporting", "restart", "repeat"},
         NEW l \in Label \cup {NoLabel}
  PROVE  At(place, l) \in Agent /\ At(place, l).at = place /\ At(place, l).label = l
BY DEF At, Agent

LEMMA PrintStep ==
  ASSUME PrintInv, [PrintNext]_printVars PROVE PrintInv'
<1> USE PrintAssumption DEF PrintInv, PrintTypeOK, PrintSound, SentWasPrinted
<1>0. /\ \A r \in reports : r \in Report /\ r.label \in Label /\ r.says \in Outcome
      /\ agent.label \in Label \cup {NoLabel}
      /\ Label \subseteq Nat \ {NoLabel}
  BY DEF Report, Agent, Label, NoLabel
<1>1. ASSUME NEW l \in Label, QueueLabel(l) PROVE PrintInv'
  BY <1>1 DEF QueueLabel, Settled
<1>2. ASSUME NEW l \in Label, LabelLeaseOver(l) PROVE PrintInv'
  BY <1>2 DEF LabelLeaseOver
<1>3. ASSUME NEW l \in Label, Poll(l) PROVE PrintInv'
  <2>1. /\ delivery' = [delivery EXCEPT ![l] = "CLAIMED"] /\ over' = over \ {l}
        /\ tries' = [tries EXCEPT ![l] = @ + 1] /\ tries[l] < MaxClaims
        /\ journal' = journal /\ memory' = memory /\ labels' = labels
    BY <1>3 DEF Poll
  <2>2. /\ delivery' \in [Label -> Settled \cup {"none", "QUEUED", "CLAIMED"}]
        /\ over' \subseteq Label /\ tries' \in [Label -> 0..MaxClaims]
        /\ \A k \in Label : tries'[k] >= tries[k] /\ labels'[k] <= tries'[k]
        /\ labels[l] < tries'[l]
        /\ SentWasPrinted'
    BY <2>1, <1>0
  <2>3. CASE UNCHANGED <<agent, pendingMark, reports>>
    BY <1>3, <2>1, <2>2, <2>3 DEF Poll
  <2>4. CASE /\ agent' = At("repeat", l) /\ reports' = reports \cup {Saying(l, "unknown")}
             /\ UNCHANGED pendingMark
    <3>1. agent' \in Agent /\ agent'.at = "repeat"
      BY <2>4, PlaceIsAgent
    <3>2. Saying(l, "unknown") \in Report /\ Saying(l, "unknown").says = "unknown"
      BY SayingIsReport DEF Outcome
    <3>3. \A r \in reports' : r \in Report /\ (r.says = "sent" => labels'[r.label] > 0)
      BY <2>1, <2>4, <3>2
    <3> QED BY <2>1, <2>2, <2>4, <3>1, <3>3
  <2>5. CASE agent' = At("printing", l) /\ pendingMark' = l /\ UNCHANGED reports
    <3>1. agent' \in Agent /\ agent'.at = "printing" /\ agent'.label = l
      BY <2>5, PlaceIsAgent
    <3> QED BY <2>1, <2>2, <2>5, <3>1
  <2> QED BY <1>3, <2>3, <2>4, <2>5 DEF Poll
<1>4. ASSUME NEW r \in reports, ReadReport(r) PROVE PrintInv'
  <2>1. CASE delivery[r.label] = "CLAIMED"
    <3> DEFINE s == [r EXCEPT !.read = TRUE, !.tries = tries[r.label]]
    <3>1. s \in Report /\ s.says = r.says /\ s.label = r.label
      BY <1>0, ReadIsReport
    <3>2. /\ reports' = (reports \ {r}) \cup {s}
          /\ UNCHANGED <<delivery, over, tries, agent, journal, memory, pendingMark, labels>>
      BY <1>4, <2>1 DEF ReadReport
    <3> HIDE DEF s
    <3> QED BY <3>1, <3>2
  <2>2. CASE delivery[r.label] # "CLAIMED"
    <3>1. reports' = reports \ {r} /\ Heard(r)
          /\ UNCHANGED <<delivery, over, tries, journal, memory, labels>>
      BY <1>4, <2>2 DEF ReadReport
    <3>2. /\ agent' \in Agent /\ pendingMark' \in Label \cup {NoLabel}
          /\ (agent' = agent \/ agent'.at = "idle")
      BY <3>1, PlaceIsAgent DEF Heard
    <3> QED BY <3>1, <3>2
  <2> QED BY <2>1, <2>2
<1>5. ASSUME NEW r \in reports, WriteReport(r) PROVE PrintInv'
  <2>1. /\ delivery' = [delivery EXCEPT ![r.label] = VerdictOf(r.says, r.tries)]
        /\ over' = over \ {r.label} /\ reports' = reports \ {r} /\ Heard(r)
        /\ UNCHANGED <<tries, journal, memory, labels>>
    BY <1>5 DEF WriteReport
  <2>2. /\ agent' \in Agent /\ pendingMark' \in Label \cup {NoLabel}
        /\ (agent' = agent \/ agent'.at = "idle")
    BY <2>1, PlaceIsAgent DEF Heard
  <2>3. /\ VerdictOf(r.says, r.tries) \in Settled \cup {"none", "QUEUED", "CLAIMED"}
        /\ VerdictOf(r.says, r.tries) = "SENT_TO_PRINTER" => r.says = "sent"
    BY <1>0 DEF VerdictOf, Outcome, Settled
  <2>4. /\ delivery' \in [Label -> Settled \cup {"none", "QUEUED", "CLAIMED"}]
        /\ SentWasPrinted'
    BY <1>0, <2>1, <2>3
  <2> QED BY <2>1, <2>2, <2>4
<1>6. ASSUME NEW r \in reports, ReportLost(r) PROVE PrintInv'
  <2>1. PICK kept \in {{}, {[r EXCEPT !.awaited = FALSE]}} :
          IF r.says = "sent"
            THEN /\ reports' = (reports \ {r}) \cup kept \cup {Saying(r.label, "failed")}
                 /\ UNCHANGED agent
            ELSE /\ reports' = (reports \ {r}) \cup kept
                 /\ agent' = At("idle", NoLabel)
    BY <1>6 DEF ReportLost
  <2> DEFINE x == [r EXCEPT !.awaited = FALSE]
  <2>x. x \in Report /\ x.says = r.says /\ x.label = r.label
    BY <1>0, UnheardIsReport
  <2>k. kept \in {{}, {x}}
    OBVIOUS
  <2> HIDE DEF x
  <2>2. \A s \in kept : s \in Report /\ s.says = r.says /\ s.label = r.label
    BY <2>x, <2>k
  <2>3. Saying(r.label, "failed") \in Report /\ Saying(r.label, "failed").says = "failed"
    BY <1>0, SayingIsReport DEF Outcome
  <2>4. UNCHANGED <<delivery, over, tries, journal, memory, pendingMark, labels>>
    BY <1>6 DEF ReportLost
  <2>5. \A s \in reports' : s \in Report /\ (s.says = "sent" => labels'[s.label] > 0)
    BY <2>1, <2>2, <2>3, <2>4
  <2>6. agent' = agent \/ (agent' \in Agent /\ agent'.at = "idle")
    BY <2>1, PlaceIsAgent
  <2> QED BY <2>4, <2>5, <2>6
<1>7. CASE SpoolerTakes
  <2> DEFINE l == agent.label
  <2>1. /\ agent.at = "printing" /\ labels' = [labels EXCEPT ![l] = @ + 1]
        /\ UNCHANGED <<delivery, over, tries, journal, memory, pendingMark, reports>>
    BY <1>7 DEF SpoolerTakes
  <2>2. l \in Label /\ labels[l] < tries[l] /\ tries[l] \in 0..MaxClaims /\ labels[l] \in 0..MaxClaims
    BY <2>1
  <2>3. agent' \in Agent /\ agent'.at = "printed" /\ agent'.label = l
    BY <1>7, <2>2, PlaceIsAgent DEF SpoolerTakes
  <2> HIDE DEF l
  <2>4. /\ labels' \in [Label -> 0..MaxClaims] /\ labels'[l] > 0
        /\ \A k \in Label : labels'[k] >= labels[k] /\ labels'[k] <= tries[k]
    BY <2>1, <2>2
  <2> QED BY <1>0, <2>1, <2>2, <2>3, <2>4
<1>8. CASE SpoolerRefuses
  <2>1. agent.label \in Label
    BY <1>8 DEF SpoolerRefuses
  <2>2. agent' \in Agent /\ agent'.at = "reporting"
    BY <1>8, <2>1, PlaceIsAgent DEF SpoolerRefuses
  <2>3. Saying(agent.label, "failed") \in Report /\ Saying(agent.label, "failed").says = "failed"
    BY <2>1, SayingIsReport DEF Outcome
  <2> QED BY <1>8, <2>1, <2>2, <2>3 DEF SpoolerRefuses
<1>9. CASE Remember
  <2>1. agent.label \in Label /\ labels[agent.label] > 0
    BY <1>9 DEF Remember
  <2>2. agent' \in Agent /\ agent'.at = "reporting"
    BY <1>9, <2>1, PlaceIsAgent DEF Remember
  <2>3. Saying(agent.label, "sent") \in Report /\ Saying(agent.label, "sent").label = agent.label
    BY <2>1, SayingIsReport DEF Outcome
  <2> QED BY <1>9, <2>1, <2>2, <2>3 DEF Remember
<1>10. CASE SwitchOff
  <2> DEFINE mine == {r \in reports : r.awaited}
  <2>1. PICK kept \in {{}, {[r EXCEPT !.awaited = FALSE] : r \in mine}} :
          reports' = (reports \ mine) \cup kept
    BY <1>10 DEF SwitchOff
  <2>2. ASSUME NEW s \in kept
        PROVE  \E r \in reports : s = [r EXCEPT !.awaited = FALSE]
    OBVIOUS
  <2>3. ASSUME NEW s \in kept
        PROVE  s \in Report /\ (s.says = "sent" => labels[s.label] > 0)
    <3>1. PICK r \in reports : s = [r EXCEPT !.awaited = FALSE]
      BY <2>2
    <3>2. s \in Report /\ s.says = r.says /\ s.label = r.label
      BY <1>0, <3>1, UnheardIsReport
    <3> QED BY <3>2
  <2> HIDE DEF mine
  <2>4. \A s \in reports' : s \in Report /\ (s.says = "sent" => labels[s.label] > 0)
    BY <2>1, <2>3
  <2>5. /\ agent' \in Agent /\ agent'.at = "down"
        /\ memory' = {} /\ UNCHANGED <<delivery, over, tries, journal, pendingMark, labels>>
    BY <1>10, PlaceIsAgent DEF SwitchOff
  <2> QED BY <2>4, <2>5
<1>11. CASE SwitchOn
  <2>1. CASE pendingMark = NoLabel
    <3>1. agent' \in Agent /\ agent'.at = "idle"
      BY <1>11, <2>1, PlaceIsAgent DEF SwitchOn
    <3> QED BY <1>11, <2>1, <3>1 DEF SwitchOn
  <2>2. CASE pendingMark # NoLabel
    <3>1. agent' \in Agent /\ agent'.at = "restart"
      BY <1>11, <2>2, PlaceIsAgent DEF SwitchOn
    <3>2. Saying(pendingMark, "unknown") \in Report /\ Saying(pendingMark, "unknown").says = "unknown"
      BY <2>2, SayingIsReport DEF Outcome
    <3> QED BY <1>11, <2>2, <3>1, <3>2 DEF SwitchOn
  <2> QED BY <2>1, <2>2
<1>12. CASE UNCHANGED printVars
  BY <1>12 DEF printVars
<1> QED BY <1>1, <1>2, <1>3, <1>4, <1>5, <1>6, <1>7, <1>8, <1>9, <1>10, <1>11, <1>12 DEF PrintNext

(* The inductive invariant of the print jobs: types, and what reports and  *)
(* the agent know of the labels printed.                                   *)
THEOREM PrintingSafe == PrintSpec => []PrintInv
<1> QED BY PrintStep, PrintingBegins, PTL DEF PrintSpec

(* reportDelivery: a job that says "sent to the printer" was printed,      *)
(* although the report is read and written without a lock, late or twice.  *)
THEOREM SentIsPrinted == PrintSpec => []SentWasPrinted
<1>1. PrintInv => SentWasPrinted
  BY DEF PrintInv, PrintSound
<1> QED BY <1>1, PrintingSafe, PTL

-----------------------------------------------------------------------------
(* Assembly *)

(* What lockActiveShift holds for the rest of the transaction. *)
DutyHeld ==
  \A f \in Florist : under[f] # Idling => duty[f] # NoOne /\ under[f].shift = duty[f]

AssemblyInv == AssemblyTypeOK /\ DutyHeld

LEMMA AssemblyBegins == AssemblyInit => AssemblyInv
BY DEF AssemblyInit, AssemblyInv, AssemblyTypeOK, DutyHeld, ProcessState, Idling, NoOffer

LEMMA AssemblyTypeStep ==
  ASSUME AssemblyTypeOK, [AssemblyNext]_assemblyVars PROVE AssemblyTypeOK'
<1> USE AssemblyAssumption DEF AssemblyTypeOK, ProcessState, Idling, Own, Given, orderRow, facts, people, open, requests
<1>1. ASSUME NEW f \in Florist, NEW b \in Bouquet, NEW o \in Own \cup Given, LockShift(f, o, b) PROVE AssemblyTypeOK'
  BY <1>1 DEF LockShift
<1>2. ASSUME NEW f \in Florist, NEW b \in Bouquet, ClaimOrder(f, b) PROVE AssemblyTypeOK'
  BY <1>2 DEF ClaimOrder, Does, LetGo, Assign
<1>3. ASSUME NEW f \in Florist, NEW b \in Bouquet, ReleaseOrder(f, b) PROVE AssemblyTypeOK'
  BY <1>3 DEF ReleaseOrder, Does, LetGo, Free
<1>4. ASSUME NEW f \in Florist, NEW b \in Bouquet, AssembleOrder(f, b) PROVE AssemblyTypeOK'
  BY <1>4 DEF AssembleOrder, Does, LetGo, Assembled
<1>5. ASSUME NEW f \in Florist, NEW b \in Bouquet, ReopenOrder(f, b) PROVE AssemblyTypeOK'
  BY <1>5 DEF ReopenOrder, Does, LetGo, Reopened
<1>6. ASSUME NEW f \in Florist, NEW b \in Bouquet, ReassignOrder(f, b) PROVE AssemblyTypeOK'
  BY <1>6 DEF ReassignOrder, Does, LetGo, Assign
<1>7. ASSUME NEW f \in Florist, NEW b \in Bouquet, Reassembly(f, b) PROVE AssemblyTypeOK'
  BY <1>7 DEF Reassembly, Does, LetGo, Assign
<1>8. ASSUME NEW f \in Florist, NEW b \in Bouquet, Transfer(f, b) PROVE AssemblyTypeOK'
  BY <1>8 DEF Transfer, Does, LetGo, Assign
<1>9. ASSUME NEW f \in Florist, NEW b \in Bouquet, AskToLeave(f, b) PROVE AssemblyTypeOK'
  BY <1>9 DEF AskToLeave
<1>10. ASSUME NEW f \in Florist, NEW b \in Bouquet, NEW yes \in BOOLEAN, DecideRefusal(b, f, yes) PROVE AssemblyTypeOK'
  BY <1>10 DEF DecideRefusal, Free
<1>11. ASSUME NEW f \in Florist, NEW b \in Bouquet, NEW s \in Shift, Dispatch(f, s, b) PROVE AssemblyTypeOK'
  BY <1>11 DEF Dispatch, Assign
<1>12. ASSUME NEW b \in Bouquet, ChiefReleases(b) PROVE AssemblyTypeOK'
  BY <1>12 DEF ChiefReleases, Free
<1>13. ASSUME NEW b \in Bouquet, ChiefAssembles(b) PROVE AssemblyTypeOK'
  BY <1>13 DEF ChiefAssembles, Assembled
<1>14. ASSUME NEW b \in Bouquet, ChiefReopens(b) PROVE AssemblyTypeOK'
  BY <1>14 DEF ChiefReopens, Reopened
<1>15. ASSUME NEW b \in Bouquet, CloseQuarantine(b) PROVE AssemblyTypeOK'
  BY <1>15 DEF CloseQuarantine
<1>16. ASSUME NEW b \in Bouquet, CompositionChanges(b) PROVE AssemblyTypeOK'
  BY <1>16 DEF CompositionChanges
<1>17. ASSUME NEW b \in Bouquet, FitnessChanges(b) PROVE AssemblyTypeOK'
  BY <1>17 DEF FitnessChanges
<1>18. ASSUME NEW b \in Bouquet, CancellationChanges(b) PROVE AssemblyTypeOK'
  BY <1>18 DEF CancellationChanges, Free
<1>19. ASSUME NEW b \in Bouquet, IssueToCustomer(b) PROVE AssemblyTypeOK'
  BY <1>19 DEF IssueToCustomer
<1>20. ASSUME NEW b \in Bouquet, ReturnedForReassembly(b) PROVE AssemblyTypeOK'
  BY <1>20 DEF ReturnedForReassembly
<1>21. ASSUME NEW f \in Florist, StartShift(f) PROVE AssemblyTypeOK'
  BY <1>21 DEF StartShift
<1>22. ASSUME NEW f \in Florist, EndShift(f) PROVE AssemblyTypeOK'
  BY <1>22 DEF EndShift, Held
<1>23. ASSUME NEW f \in Florist, SetKeen(f) PROVE AssemblyTypeOK'
  BY <1>23 DEF SetKeen
<1>24. ASSUME NEW f \in Florist, GiveUp(f) PROVE AssemblyTypeOK'
  BY <1>24 DEF GiveUp, LetGo
<1>25. ASSUME NEW f \in Florist, RecordRefusal(f) PROVE AssemblyTypeOK'
  <2>1. leaving[f] \in Bouquet
    BY <1>25 DEF RecordRefusal
  <2>2. refusals' = refusals \/ refusals' = refusals \cup {<<leaving[f], f>>}
    BY <1>25 DEF RecordRefusal
  <2>3. refusals' \subseteq Bouquet \X Florist
    BY <2>1, <2>2
  <2>4. leaving' \in [Florist -> Bouquet \cup {NoOne}]
    BY <1>25 DEF RecordRefusal
  <2> QED BY <1>25, <2>3, <2>4 DEF RecordRefusal
<1>26. ASSUME NEW f \in Florist, Quarantine(f) PROVE AssemblyTypeOK'
  <2>1. leaving[f] \in Bouquet /\ leaving' \in [Florist -> Bouquet \cup {NoOne}]
    BY <1>26 DEF Quarantine
  <2>2. /\ quarantine' = quarantine \/ quarantine' = quarantine \cup {leaving[f]}
        /\ Free(leaving[f]) \/ UNCHANGED orderRow
    BY <1>26 DEF Quarantine
  <2>3. /\ process' \in [Bouquet -> ProcessState]
        /\ assignee' \in [Bouquet -> Florist \cup {NoOne}]
        /\ ofShift' \in [Bouquet -> Shift \cup {NoOne}]
    BY <2>1, <2>2 DEF Free
  <2>4. UNCHANGED <<facts, refusals, approved, people, under, offer>>
    BY <1>26 DEF Quarantine
  <2> QED BY <2>1, <2>2, <2>3, <2>4
<1>27. CASE SetMode
  BY <1>27 DEF SetMode
<1>28. CASE BeginDispatch
  BY <1>28 DEF BeginDispatch
<1>29. CASE EndDispatch
  BY <1>29 DEF EndDispatch, NoOffer
<1>30. CASE UNCHANGED assemblyVars
  BY <1>30 DEF assemblyVars, orderRow, facts, people, open, requests
<1> QED BY <1>1, <1>2, <1>3, <1>4, <1>5, <1>6, <1>7, <1>8, <1>9, <1>10, <1>11, <1>12, <1>13, <1>14, <1>15, <1>16, <1>17, <1>18, <1>19, <1>20, <1>21, <1>22, <1>23, <1>24, <1>25, <1>26, <1>27, <1>28, <1>29, <1>30 DEF AssemblyNext, FloristStep, OrderStep

LEMMA DutyHeldStep ==
  ASSUME AssemblyInv, [AssemblyNext]_assemblyVars PROVE DutyHeld'
<1> USE AssemblyAssumption DEF AssemblyInv, AssemblyTypeOK, DutyHeld, Idling, people, open
<1>1. ASSUME NEW f \in Florist, NEW b \in Bouquet, NEW o \in Own \cup Given, LockShift(f, o, b) PROVE DutyHeld'
  BY <1>1 DEF LockShift
<1>2. ASSUME NEW f \in Florist, NEW b \in Bouquet, ClaimOrder(f, b) PROVE DutyHeld'
  BY <1>2 DEF ClaimOrder, Does, LetGo, Assign
<1>3. ASSUME NEW f \in Florist, NEW b \in Bouquet, ReleaseOrder(f, b) PROVE DutyHeld'
  BY <1>3 DEF ReleaseOrder, Does, LetGo, Free
<1>4. ASSUME NEW f \in Florist, NEW b \in Bouquet, AssembleOrder(f, b) PROVE DutyHeld'
  BY <1>4 DEF AssembleOrder, Does, LetGo, Assembled
<1>5. ASSUME NEW f \in Florist, NEW b \in Bouquet, ReopenOrder(f, b) PROVE DutyHeld'
  BY <1>5 DEF ReopenOrder, Does, LetGo, Reopened
<1>6. ASSUME NEW f \in Florist, NEW b \in Bouquet, ReassignOrder(f, b) PROVE DutyHeld'
  BY <1>6 DEF ReassignOrder, Does, LetGo, Assign
<1>7. ASSUME NEW f \in Florist, NEW b \in Bouquet, Reassembly(f, b) PROVE DutyHeld'
  BY <1>7 DEF Reassembly, Does, LetGo, Assign
<1>8. ASSUME NEW f \in Florist, NEW b \in Bouquet, Transfer(f, b) PROVE DutyHeld'
  BY <1>8 DEF Transfer, Does, LetGo, Assign
<1>9. ASSUME NEW f \in Florist, NEW b \in Bouquet, AskToLeave(f, b) PROVE DutyHeld'
  BY <1>9 DEF AskToLeave
<1>10. ASSUME NEW f \in Florist, NEW b \in Bouquet, NEW yes \in BOOLEAN, DecideRefusal(b, f, yes) PROVE DutyHeld'
  BY <1>10 DEF DecideRefusal, Free
<1>11. ASSUME NEW f \in Florist, NEW b \in Bouquet, NEW s \in Shift, Dispatch(f, s, b) PROVE DutyHeld'
  BY <1>11 DEF Dispatch, Assign
<1>12. ASSUME NEW b \in Bouquet, ChiefReleases(b) PROVE DutyHeld'
  BY <1>12 DEF ChiefReleases, Free
<1>13. ASSUME NEW b \in Bouquet, ChiefAssembles(b) PROVE DutyHeld'
  BY <1>13 DEF ChiefAssembles, Assembled
<1>14. ASSUME NEW b \in Bouquet, ChiefReopens(b) PROVE DutyHeld'
  BY <1>14 DEF ChiefReopens, Reopened
<1>15. ASSUME NEW b \in Bouquet, CloseQuarantine(b) PROVE DutyHeld'
  BY <1>15 DEF CloseQuarantine
<1>16. ASSUME NEW b \in Bouquet, CompositionChanges(b) PROVE DutyHeld'
  BY <1>16 DEF CompositionChanges
<1>17. ASSUME NEW b \in Bouquet, FitnessChanges(b) PROVE DutyHeld'
  BY <1>17 DEF FitnessChanges
<1>18. ASSUME NEW b \in Bouquet, CancellationChanges(b) PROVE DutyHeld'
  BY <1>18 DEF CancellationChanges, Free
<1>19. ASSUME NEW b \in Bouquet, IssueToCustomer(b) PROVE DutyHeld'
  BY <1>19 DEF IssueToCustomer
<1>20. ASSUME NEW b \in Bouquet, ReturnedForReassembly(b) PROVE DutyHeld'
  BY <1>20 DEF ReturnedForReassembly
<1>21. ASSUME NEW f \in Florist, StartShift(f) PROVE DutyHeld'
  BY <1>21 DEF StartShift
<1>22. ASSUME NEW f \in Florist, EndShift(f) PROVE DutyHeld'
  BY <1>22 DEF EndShift, Held
<1>23. ASSUME NEW f \in Florist, SetKeen(f) PROVE DutyHeld'
  BY <1>23 DEF SetKeen
<1>24. ASSUME NEW f \in Florist, GiveUp(f) PROVE DutyHeld'
  BY <1>24 DEF GiveUp, LetGo
<1>25. ASSUME NEW f \in Florist, RecordRefusal(f) PROVE DutyHeld'
  BY <1>25 DEF RecordRefusal
<1>26. ASSUME NEW f \in Florist, Quarantine(f) PROVE DutyHeld'
  BY <1>26 DEF Quarantine, Free
<1>27. CASE SetMode
  BY <1>27 DEF SetMode
<1>28. CASE BeginDispatch
  BY <1>28 DEF BeginDispatch
<1>29. CASE EndDispatch
  BY <1>29 DEF EndDispatch, NoOffer
<1>30. CASE UNCHANGED assemblyVars
  BY <1>30 DEF assemblyVars, orderRow, facts, people, open, requests
<1> QED BY <1>1, <1>2, <1>3, <1>4, <1>5, <1>6, <1>7, <1>8, <1>9, <1>10, <1>11, <1>12, <1>13, <1>14, <1>15, <1>16, <1>17, <1>18, <1>19, <1>20, <1>21, <1>22, <1>23, <1>24, <1>25, <1>26, <1>27, <1>28, <1>29, <1>30 DEF AssemblyNext, FloristStep, OrderStep

(* What a step may do to an order the customer already has. *)
NoWork(a) ==
  /\ process'[a] \in {process[a], "NEW"}
  /\ \/ assignee'[a] \in {assignee[a], NoOne}
     \/ /\ process'[a] = process[a]
        /\ <<a, assignee[a]>> \in refusals \ refusals'

(* What a step may do to the state of an order. *)
LEMMA ProcessStep ==
  ASSUME AssemblyInv, [AssemblyNext]_assemblyVars, NEW a \in Bouquet
  PROVE  /\ a \in issued => NoWork(a)
         /\ process[a] = "IN_ASSEMBLY" /\ process'[a] = "ASSEMBLED" /\ assignee[a] # Chief =>
              duty[assignee[a]] # NoOne /\ ofShift[a] = duty[assignee[a]]
<1> DEFINE Fine ==
      /\ a \in issued => NoWork(a)
      /\ process[a] = "IN_ASSEMBLY" /\ process'[a] = "ASSEMBLED" /\ assignee[a] # Chief =>
           duty[assignee[a]] # NoOne /\ ofShift[a] = duty[assignee[a]]
<1> USE AssemblyAssumption DEF AssemblyInv, AssemblyTypeOK, DutyHeld, Idling, NotIssued, Done, orderRow, NoWork
<1>1. ASSUME NEW f \in Florist, NEW b \in Bouquet, NEW o \in Own \cup Given, LockShift(f, o, b) PROVE Fine
  BY <1>1 DEF LockShift
<1>2. ASSUME NEW f \in Florist, NEW b \in Bouquet, ClaimOrder(f, b) PROVE Fine
  BY <1>2 DEF ClaimOrder, Does, LetGo, Assign
<1>3. ASSUME NEW f \in Florist, NEW b \in Bouquet, ReleaseOrder(f, b) PROVE Fine
  BY <1>3 DEF ReleaseOrder, Does, LetGo, Free
<1>4. ASSUME NEW f \in Florist, NEW b \in Bouquet, AssembleOrder(f, b) PROVE Fine
  BY <1>4 DEF AssembleOrder, Does, LetGo, Assembled
<1>5. ASSUME NEW f \in Florist, NEW b \in Bouquet, ReopenOrder(f, b) PROVE Fine
  BY <1>5 DEF ReopenOrder, Does, LetGo, Reopened
<1>6. ASSUME NEW f \in Florist, NEW b \in Bouquet, ReassignOrder(f, b) PROVE Fine
  BY <1>6 DEF ReassignOrder, Does, LetGo, Assign
<1>7. ASSUME NEW f \in Florist, NEW b \in Bouquet, Reassembly(f, b) PROVE Fine
  BY <1>7 DEF Reassembly, Does, LetGo, Assign
<1>8. ASSUME NEW f \in Florist, NEW b \in Bouquet, Transfer(f, b) PROVE Fine
  <2>1. PICK g \in Florist :
          /\ <<b, g>> \in refusals /\ refusals' = refusals \ {<<b, g>>}
          /\ IF process[b] = "IN_ASSEMBLY" /\ assignee[b] = g
               THEN Assign(b, f, under[f].shift)
               ELSE UNCHANGED orderRow
    BY <1>8 DEF Transfer
  <2>2. CASE process[b] = "IN_ASSEMBLY" /\ assignee[b] = g
    <3>1. <<b, assignee[b]>> \in refusals \ refusals'
      BY <2>1, <2>2
    <3>2. process'[a] = process[a] /\ (a # b => assignee'[a] = assignee[a])
      BY <2>1, <2>2 DEF Assign
    <3> QED BY <2>2, <3>1, <3>2
  <2>3. CASE ~(process[b] = "IN_ASSEMBLY" /\ assignee[b] = g)
    BY <2>1, <2>3
  <2> QED BY <2>2, <2>3
<1>9. ASSUME NEW f \in Florist, NEW b \in Bouquet, AskToLeave(f, b) PROVE Fine
  BY <1>9 DEF AskToLeave
<1>10. ASSUME NEW f \in Florist, NEW b \in Bouquet, NEW yes \in BOOLEAN, DecideRefusal(b, f, yes) PROVE Fine
  BY <1>10 DEF DecideRefusal, Free
<1>11. ASSUME NEW f \in Florist, NEW b \in Bouquet, NEW s \in Shift, Dispatch(f, s, b) PROVE Fine
  BY <1>11 DEF Dispatch, Assign
<1>12. ASSUME NEW b \in Bouquet, ChiefReleases(b) PROVE Fine
  BY <1>12 DEF ChiefReleases, Free
<1>13. ASSUME NEW b \in Bouquet, ChiefAssembles(b) PROVE Fine
  BY <1>13 DEF ChiefAssembles, Assembled
<1>14. ASSUME NEW b \in Bouquet, ChiefReopens(b) PROVE Fine
  BY <1>14 DEF ChiefReopens, Reopened
<1>15. ASSUME NEW b \in Bouquet, CloseQuarantine(b) PROVE Fine
  BY <1>15 DEF CloseQuarantine
<1>16. ASSUME NEW b \in Bouquet, CompositionChanges(b) PROVE Fine
  BY <1>16 DEF CompositionChanges
<1>17. ASSUME NEW b \in Bouquet, FitnessChanges(b) PROVE Fine
  BY <1>17 DEF FitnessChanges
<1>18. ASSUME NEW b \in Bouquet, CancellationChanges(b) PROVE Fine
  BY <1>18 DEF CancellationChanges, Free
<1>19. ASSUME NEW b \in Bouquet, IssueToCustomer(b) PROVE Fine
  BY <1>19 DEF IssueToCustomer
<1>20. ASSUME NEW b \in Bouquet, ReturnedForReassembly(b) PROVE Fine
  BY <1>20 DEF ReturnedForReassembly
<1>21. ASSUME NEW f \in Florist, StartShift(f) PROVE Fine
  BY <1>21 DEF StartShift
<1>22. ASSUME NEW f \in Florist, EndShift(f) PROVE Fine
  BY <1>22 DEF EndShift, Held
<1>23. ASSUME NEW f \in Florist, SetKeen(f) PROVE Fine
  BY <1>23 DEF SetKeen
<1>24. ASSUME NEW f \in Florist, GiveUp(f) PROVE Fine
  BY <1>24 DEF GiveUp, LetGo
<1>25. ASSUME NEW f \in Florist, RecordRefusal(f) PROVE Fine
  BY <1>25 DEF RecordRefusal
<1>26. ASSUME NEW f \in Florist, Quarantine(f) PROVE Fine
  BY <1>26 DEF Quarantine, Free
<1>27. CASE SetMode
  BY <1>27 DEF SetMode
<1>28. CASE BeginDispatch
  BY <1>28 DEF BeginDispatch
<1>29. CASE EndDispatch
  BY <1>29 DEF EndDispatch, NoOffer
<1>30. CASE UNCHANGED assemblyVars
  BY <1>30 DEF assemblyVars, orderRow, facts, people, open, requests
<1> HIDE DEF Fine, AssemblyInv, AssemblyTypeOK, DutyHeld, NoWork, Idling, NotIssued, Done, orderRow
<1>31. ASSUME NEW f \in Florist, NEW b \in Bouquet, FloristStep(f, b) PROVE Fine
  BY <1>31, <1>1, <1>2, <1>3, <1>4, <1>5, <1>6, <1>7, <1>8, <1>9, <1>10, <1>11 DEF FloristStep
<1>32. ASSUME NEW b \in Bouquet, OrderStep(b) PROVE Fine
  BY <1>32, <1>12, <1>13, <1>14, <1>15, <1>16, <1>17, <1>18, <1>19, <1>20 DEF OrderStep
<1> QED BY <1>21, <1>22, <1>23, <1>24, <1>25, <1>26, <1>27, <1>28, <1>29, <1>30, <1>31, <1>32
        DEF AssemblyNext, Fine

(* The inductive invariant of the assembly: types, and the shift's row     *)
(* that a florist's transaction holds.                                     *)
THEOREM AssemblySafe == AssemblySpec => []AssemblyInv
<1>1. AssemblyInv /\ [AssemblyNext]_assemblyVars => AssemblyInv'
  BY AssemblyTypeStep, DutyHeldStep DEF AssemblyInv
<1> QED BY <1>1, AssemblyBegins, PTL DEF AssemblySpec

(* assembleOrder, closeOwnShift: a florist finishes an order only in the   *)
(* shift, still open, in which it was given to him.                        *)
THEOREM AssemblyIsOnDuty == AssemblySpec => AssembledOnDuty
<1> DEFINE OnDuty == \A b \in Bouquet :
      process[b] = "IN_ASSEMBLY" /\ process'[b] = "ASSEMBLED" /\ assignee[b] # Chief
        => duty[assignee[b]] # NoOne /\ ofShift[b] = duty[assignee[b]]
<1>1. AssemblyInv /\ [AssemblyNext]_assemblyVars => [OnDuty]_assemblyVars
  BY ProcessStep
<1> QED BY <1>1, AssemblySafe, PTL DEF AssemblySpec, AssembledOnDuty

(* assertNotIssued: an order the customer has is never work again, and no  *)
(* other florist gets it except by the transfer of a refusal.              *)
THEOREM IssuedStaysDone == AssemblySpec => IssuedIsNoWork
<1> DEFINE NoneIsWork == \A b \in issued : NoWork(b)
<1>1. AssemblyInv /\ [AssemblyNext]_assemblyVars => [NoneIsWork]_assemblyVars
  BY ProcessStep DEF AssemblyInv, AssemblyTypeOK
<1> QED BY <1>1, AssemblySafe, PTL DEF AssemblySpec, IssuedIsNoWork, NoWork

-----------------------------------------------------------------------------
(* Edit leases *)

LEMMA LeaseHolderCardinality ==
  /\ Cardinality({}) <= 1
  /\ \A e \in Editor : Cardinality({e}) <= 1
<1>1. Cardinality({}) = 0
  BY FS_EmptySet
<1>2. \A e \in Editor : Cardinality({e}) = 1
  BY FS_Singleton
<1> QED BY <1>1, <1>2

(* Type invariant: a lease has at most one holder and its term is never    *)
(* longer than LEASE_TTL_MS.                                               *)
THEOREM LeaseTypeCorrect == LeaseSpec => []LeaseTypeOK
<1>1. LeaseInit => LeaseTypeOK
  <2> SUFFICES ASSUME LeaseInit PROVE LeaseTypeOK
    OBVIOUS
  <2>1. editor \in SUBSET Editor /\ Cardinality(editor) <= 1
    BY LeaseHolderCardinality DEF LeaseInit
  <2>2. left \in -MaxLag..Ttl
    BY LeaseAssumption DEF LeaseInit
  <2> QED BY <2>1, <2>2 DEF LeaseInit, LeaseTypeOK
<1>2. LeaseTypeOK /\ [LeaseNext]_leaseVars => LeaseTypeOK'
  <2> SUFFICES ASSUME LeaseTypeOK, [LeaseNext]_leaseVars PROVE LeaseTypeOK'
    OBVIOUS
  <2> USE DEF LeaseTypeOK
  <2>1. ASSUME NEW e \in Editor, NEW lag \in Lag PROVE Ttl - lag \in -MaxLag..Ttl
    BY LeaseAssumption DEF Lag
  <2>2. ASSUME NEW e \in Editor, NEW lag \in Lag, Granted(e, lag)
        PROVE /\ editor' \in SUBSET Editor /\ Cardinality(editor') <= 1
              /\ left' \in -MaxLag..Ttl /\ released' \in BOOLEAN /\ seen' \subseteq Editor
    BY <2>1, <2>2, LeaseHolderCardinality DEF Granted
  <2>3. ASSUME ReleasedRow
        PROVE /\ editor' \in SUBSET Editor /\ Cardinality(editor') <= 1
              /\ left' \in -MaxLag..Ttl /\ released' \in BOOLEAN /\ seen' \subseteq Editor
    BY <2>3 DEF ReleasedRow
  <2>4. ASSUME NEW e \in Editor, Look(e) PROVE LeaseTypeOK'
    BY <2>4 DEF Look
  <2>5. ASSUME NEW e \in Editor, ChangeCourier(e) PROVE LeaseTypeOK'
    BY <2>5 DEF ChangeCourier
  <2>6. ASSUME NEW e \in Editor, NEW lag \in Lag, AcquireLease(e, lag) PROVE LeaseTypeOK'
    BY <2>6, <2>2 DEF AcquireLease
  <2>7. ASSUME NEW e \in Editor, NEW lag \in Lag, HeartbeatLease(e, lag) PROVE LeaseTypeOK'
    BY <2>7, <2>1 DEF HeartbeatLease
  <2>8. ASSUME NEW e \in Editor, NEW lag \in Lag, ReleaseLease(e, lag) PROVE LeaseTypeOK'
    BY <2>8, <2>3 DEF ReleaseLease
  <2>9. ASSUME NEW e \in Editor, NEW lag \in Lag, TakeoverLease(e, lag) PROVE LeaseTypeOK'
    BY <2>9, <2>2 DEF TakeoverLease
  <2>10. ASSUME NEW e \in Editor, NEW lag \in Lag, Edit(e, lag) PROVE LeaseTypeOK'
    BY <2>10 DEF Edit
  <2>11. ASSUME NEW e \in Editor, NEW lag \in Lag, Confirm(e, lag) PROVE LeaseTypeOK'
    BY <2>11, <2>3 DEF Confirm
  <2>12. ASSUME NEW e \in Editor, NEW lag \in Lag, ReturnToDraft(e, lag) PROVE LeaseTypeOK'
    BY <2>12, <2>2 DEF ReturnToDraft
  <2>13. ASSUME NEW e \in Editor, NEW lag \in Lag, CancelRoute(e, lag) PROVE LeaseTypeOK'
    BY <2>13, <2>3 DEF CancelRoute
  <2>14. ASSUME Tick PROVE LeaseTypeOK'
    BY <2>14, LeaseAssumption DEF Tick
  <2>15. CASE UNCHANGED leaseVars
    BY <2>15 DEF leaseVars
  <2> QED
    BY <2>4, <2>5, <2>6, <2>7, <2>8, <2>9, <2>10, <2>11, <2>12, <2>13, <2>14, <2>15
       DEF LeaseNext
<1> QED BY <1>1, <1>2, PTL DEF LeaseSpec

(* Only a draft is under work: whatever ends the draft releases the lease, *)
(* and no delayed heartbeat brings it back (confirmRoute, cancelRoute).    *)
THEOREM LeaseOnlyOfDraft == LeaseSpec => []LeaseOfDraft
<1>1. LeaseInit => LeaseOfDraft
  BY LeaseAssumption DEF LeaseInit, LeaseOfDraft, LeaseActive
<1>2. LeaseTypeOK /\ LeaseOfDraft /\ [LeaseNext]_leaseVars => LeaseOfDraft'
  <2> SUFFICES ASSUME LeaseTypeOK, LeaseOfDraft, [LeaseNext]_leaseVars PROVE LeaseOfDraft'
    OBVIOUS
  <2> USE DEF LeaseOfDraft, LeaseActive
  <2>1. ASSUME NEW e \in Editor, Look(e) \/ ChangeCourier(e) PROVE LeaseOfDraft'
    BY <2>1 DEF Look, ChangeCourier
  <2>2. ASSUME NEW e \in Editor, NEW lag \in Lag,
               AcquireLease(e, lag) \/ TakeoverLease(e, lag) \/ ReturnToDraft(e, lag)
        PROVE LeaseOfDraft'
    BY <2>2 DEF AcquireLease, TakeoverLease, ReturnToDraft
  <2>3. ASSUME NEW e \in Editor, NEW lag \in Lag, HeartbeatLease(e, lag) PROVE LeaseOfDraft'
    <3>1. LeaseActive(MaxLag)
      BY <2>3, LeaseAssumption DEF HeartbeatLease, HeldBy, Lag, LeaseTypeOK
    <3> QED BY <3>1, <2>3 DEF HeartbeatLease
  <2>4. ASSUME NEW e \in Editor, NEW lag \in Lag,
               ReleaseLease(e, lag) \/ Confirm(e, lag) \/ CancelRoute(e, lag)
        PROVE LeaseOfDraft'
    BY <2>4 DEF ReleaseLease, Confirm, CancelRoute, ReleasedRow
  <2>5. ASSUME NEW e \in Editor, NEW lag \in Lag, Edit(e, lag) PROVE LeaseOfDraft'
    BY <2>5 DEF Edit
  <2>6. ASSUME Tick PROVE LeaseOfDraft'
    BY <2>6, LeaseAssumption DEF Tick, LeaseTypeOK
  <2>7. CASE UNCHANGED leaseVars
    BY <2>7 DEF leaseVars
  <2> QED BY <2>1, <2>2, <2>3, <2>4, <2>5, <2>6, <2>7 DEF LeaseNext
<1> QED BY <1>1, <1>2, LeaseTypeCorrect, PTL DEF LeaseSpec

(* A running lease is lost only by its holder's own step, by the clock, or *)
(* to an editor who had this version of it on his card (acquireLease,      *)
(* heartbeatLease, takeoverLease, returnToDraft), and a draft is changed   *)
(* by its last holder only (assertEditable), however long requests wait    *)
(* for their locks.                                                        *)
THEOREM LeaseExclusive == LeaseSpec => LeaseIsExclusive
<1>1. LeaseTypeOK /\ LeaseOfDraft /\ [LeaseNext]_leaseVars
        => [\A e \in Editor : TakenOnSight(e)]_leaseVars
  <2> SUFFICES ASSUME LeaseTypeOK, LeaseOfDraft, LeaseNext, NEW e \in Editor,
                      editor = {e}, LeaseActive(0), ~(editor' = {e} /\ LeaseActive(0)')
               PROVE  \/ by' = {e}
                      \/ editor' = {e} /\ left' = left - 1 /\ UNCHANGED released
                      \/ editor' \subseteq seen
    BY DEF TakenOnSight
  <2>1. \A lag \in Lag : LeaseActive(lag)
    BY LeaseAssumption DEF LeaseActive, Lag, LeaseTypeOK
  <2>2. \A f \in Editor, lag \in Lag : HeldBy(f, lag) => f = e
    BY DEF HeldBy
  <2>3. state = "DRAFT"
    BY <2>1, LeaseAssumption DEF Lag, LeaseOfDraft
  <2>4. ASSUME NEW f \in Editor, Look(f) \/ ChangeCourier(f) PROVE FALSE
    BY <2>4 DEF Look, ChangeCourier, LeaseActive
  <2>5. ASSUME NEW f \in Editor, NEW lag \in Lag, AcquireLease(f, lag) PROVE by' = {e}
    BY <2>5, <2>1, <2>2 DEF AcquireLease
  <2>6. ASSUME NEW f \in Editor, NEW lag \in Lag,
               HeartbeatLease(f, lag) \/ ReleaseLease(f, lag) \/ Edit(f, lag) \/ Confirm(f, lag)
        PROVE by' = {e}
    BY <2>6, <2>2 DEF HeartbeatLease, ReleaseLease, Edit, Confirm
  <2>7. ASSUME NEW f \in Editor, NEW lag \in Lag, TakeoverLease(f, lag) PROVE editor' \subseteq seen
    BY <2>7 DEF TakeoverLease, Granted
  <2>8. ASSUME NEW f \in Editor, NEW lag \in Lag, ReturnToDraft(f, lag) PROVE FALSE
    BY <2>8, <2>3 DEF ReturnToDraft
  <2>9. ASSUME NEW f \in Editor, NEW lag \in Lag, CancelRoute(f, lag) PROVE by' = {e}
    BY <2>9, <2>2, <2>3 DEF CancelRoute
  <2>10. ASSUME Tick PROVE editor' = {e} /\ left' = left - 1 /\ UNCHANGED released
    BY <2>10 DEF Tick
  <2> QED BY <2>4, <2>5, <2>6, <2>7, <2>8, <2>9, <2>10 DEF LeaseNext
<1>2. LeaseTypeOK /\ [LeaseNext]_leaseVars => [SavedByHolder]_leaseVars
  <2> SUFFICES ASSUME LeaseTypeOK, LeaseNext, state = "DRAFT",
                      state' # "DRAFT" \/ ~(fresh \subseteq fresh')
               PROVE  by' = editor /\ by' \subseteq fresh /\ ~released /\ left + MaxLag > 0
    BY DEF SavedByHolder
  <2>1. ASSUME NEW f \in Editor, NEW lag \in Lag, HeldBy(f, lag)
        PROVE  editor = {f} /\ ~released /\ left + MaxLag > 0
    BY <2>1, LeaseAssumption DEF HeldBy, LeaseActive, Lag, LeaseTypeOK
  <2>2. ASSUME NEW f \in Editor, NEW lag \in Lag,
               Edit(f, lag) \/ Confirm(f, lag) \/ CancelRoute(f, lag)
        PROVE  HeldBy(f, lag) /\ by' = {f} /\ f \in fresh
    BY <2>2 DEF Edit, Confirm, CancelRoute
  <2>3. ASSUME NEW f \in Editor, Look(f) \/ ChangeCourier(f) PROVE FALSE
    BY <2>3 DEF Look, ChangeCourier
  <2>4. ASSUME NEW f \in Editor, NEW lag \in Lag,
               \/ AcquireLease(f, lag) \/ HeartbeatLease(f, lag) \/ ReleaseLease(f, lag)
               \/ TakeoverLease(f, lag) \/ ReturnToDraft(f, lag)
        PROVE  FALSE
    BY <2>4 DEF AcquireLease, HeartbeatLease, ReleaseLease, TakeoverLease, ReturnToDraft
  <2>5. ~Tick
    BY DEF Tick
  <2> QED BY <2>1, <2>2, <2>3, <2>4, <2>5 DEF LeaseNext
<1> QED BY <1>1, <1>2, LeaseTypeCorrect, LeaseOnlyOfDraft, PTL DEF LeaseSpec, LeaseIsExclusive

-----------------------------------------------------------------------------
(* The composition *)

LEMMA OperationsBegin ==
  OperationsInit => /\ SessionInit /\ AccountInit /\ PlanInit /\ LeaseInit
                    /\ PrintInit /\ AssemblyInit /\ RealtimeInit
BY DEF OperationsInit

LEMMA OperationsStep ==
  [OperationsNext]_operationsVars
    => /\ [SessionNext]_sessionVars /\ [AccountNext]_accountVars /\ [PlanNext]_planVars
       /\ [LeaseNext]_leaseVars /\ [PrintNext]_printVars /\ [AssemblyNext]_assemblyVars
       /\ [RealtimeNext]_realtimeVars
BY Zenon DEF OperationsNext, operationsVars

(* Whichever component a behaviour of the instance explores, every one of  *)
(* them behaves as its own specification says, so what is proved of the    *)
(* components holds of what the run explores.                              *)
THEOREM OperationsCompose ==
  OperationsSpec => /\ SessionSpec /\ AccountSpec /\ PlanSpec /\ LeaseSpec
                    /\ PrintSpec /\ AssemblySpec /\ RealtimeSpec
BY OperationsBegin, OperationsStep, PTL
   DEF OperationsSpec, SessionSpec, AccountSpec, PlanSpec, LeaseSpec, PrintSpec, AssemblySpec,
       RealtimeSpec
=============================================================================
