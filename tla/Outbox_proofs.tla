--------------------------- MODULE Outbox_proofs ---------------------------
(* The outbox for every number of messages, workers, attempts and faults.  *)
EXTENDS Outbox, TLAPS

(* One step of the specification, action by action. *)
LEMMA NextCases ==
  ASSUME [Next]_vars
  PROVE  \/ UNCHANGED vars
         \/ \E m \in Message :
              Enqueue(m) \/ BecomeDue(m) \/ LeaseLapses(m) \/ Stall(m) \/ Retry(m)
         \/ \E w \in Worker : RenewLeases(w) \/ RecoverStale(w) \/ AbortPass(w)
         \/ \E w \in Worker, claimed \in SUBSET Message : Claim(w, claimed)
         \/ \E w \in Worker, m \in Message : CallHandler(w, m) \/ SkipHandler(w, m)
         \/ \E w \in Worker : Succeed(w)
         \/ \E w \in Worker, permanent \in BOOLEAN : Fail(w, permanent)
         \/ \E w \in Worker : Start(w) \/ Stop(w) \/ Stopped(w) \/ Kill(w)
BY DEF Next, TableStep, PassStep, ProcessStep, Process

-----------------------------------------------------------------------------
(* Types                                                                   *)

LEMMA FinalizeTypeOK ==
  ASSUME TypeOK, NEW w \in Worker, NEW m \in Message, NEW verdict \in Status,
         Finalize(w, m, verdict), Leave(w, m)
  PROVE  /\ status' \in [Message -> Status]
         /\ attempts' \in [Message -> Nat]
         /\ lockedBy' \in [Message -> Worker \cup {None}]
         /\ stale' \subseteq Message
         /\ pc' \in [Worker -> {"idle", "claim", "batch"}]
         /\ batch' \in [Worker -> SUBSET Message]
         /\ current' \in [Worker -> Message \cup {None}]
         /\ seen' \in [Worker -> [Message -> Nat]]
<1>1. /\ status' \in [Message -> Status]
      /\ attempts' \in [Message -> Nat]
      /\ lockedBy' \in [Message -> Worker \cup {None}]
      /\ stale' \subseteq Message
  <2>1. seen[w][m] + 1 \in Nat
    <3>1. seen[w] \in [Message -> Nat]
      BY DEF TypeOK
    <3> QED BY <3>1
  <2>2. CASE Owned(w, m)
    BY <2>1, <2>2 DEF TypeOK, Finalize
  <2>3. CASE ~Owned(w, m)
    BY <2>3 DEF TypeOK, Finalize
  <2> QED BY <2>2, <2>3
<1>2. /\ pc' \in [Worker -> {"idle", "claim", "batch"}]
      /\ batch' \in [Worker -> SUBSET Message]
      /\ current' \in [Worker -> Message \cup {None}]
  BY DEF TypeOK, Leave
<1>3. seen' \in [Worker -> [Message -> Nat]]
  <2>1. [seen[w] EXCEPT ![m] = 0] \in [Message -> Nat]
    BY DEF TypeOK
  <2> QED BY <2>1 DEF TypeOK, Leave
<1> QED BY <1>1, <1>2, <1>3

LEMMA TypeOKStep ==
  ASSUME TypeOK, [Next]_vars
  PROVE  TypeOK'
<1> USE DEF TypeOK, Status, rowVars, resultVars, passVars, boundVars
<1>1. CASE UNCHANGED vars
  BY <1>1 DEF vars
<1>2. ASSUME NEW m \in Message,
             Enqueue(m) \/ BecomeDue(m) \/ LeaseLapses(m) \/ Stall(m) \/ Retry(m)
      PROVE  TypeOK'
  <2>1. CASE Enqueue(m)
    BY <2>1 DEF Enqueue
  <2>2. CASE BecomeDue(m)
    BY <2>2 DEF BecomeDue
  <2>3. CASE LeaseLapses(m)
    BY <2>3 DEF LeaseLapses
  <2>4. CASE Stall(m)
    BY <2>4 DEF Stall
  <2>5. CASE Retry(m)
    BY <2>5 DEF Retry
  <2> QED BY <1>2, <2>1, <2>2, <2>3, <2>4, <2>5
<1>3. ASSUME NEW w \in Worker, RenewLeases(w) PROVE TypeOK'
  BY <1>3 DEF RenewLeases
<1>4. ASSUME NEW w \in Worker, RecoverStale(w) PROVE TypeOK'
  BY <1>4 DEF RecoverStale
<1>5. ASSUME NEW w \in Worker, AbortPass(w) PROVE TypeOK'
  BY <1>5 DEF AbortPass, DropPass
<1>6. ASSUME NEW w \in Worker, NEW claimed \in SUBSET Message, Claim(w, claimed)
      PROVE  TypeOK'
  BY <1>6 DEF Claim
<1>7. ASSUME NEW w \in Worker, NEW m \in Message, CallHandler(w, m) PROVE TypeOK'
  BY <1>7 DEF CallHandler
<1>8. ASSUME NEW w \in Worker, NEW m \in Message, SkipHandler(w, m) PROVE TypeOK'
  BY <1>8, FinalizeTypeOK DEF SkipHandler
<1>9. ASSUME NEW w \in Worker, Succeed(w) PROVE TypeOK'
  <2>1. current[w] \in Message
    BY <1>9 DEF Succeed
  <2> QED BY <1>9, <2>1, FinalizeTypeOK DEF Succeed
<1>10. ASSUME NEW w \in Worker, NEW permanent \in BOOLEAN, Fail(w, permanent)
       PROVE  TypeOK'
  <2>1. current[w] \in Message
    BY <1>10 DEF Fail
  <2> QED BY <1>10, <2>1, FinalizeTypeOK DEF Fail
<1>11. ASSUME NEW w \in Worker, Start(w) \/ Stop(w) \/ Stopped(w) \/ Kill(w)
       PROVE  TypeOK'
  <2>1. CASE Start(w) \/ Stop(w) \/ Stopped(w)
    BY <2>1 DEF Start, Stop, Stopped
  <2>2. CASE Kill(w)
    BY <2>2 DEF Kill, DropPass
  <2> QED BY <1>11, <2>1, <2>2
<1> QED
  BY <1>1, <1>2, <1>3, <1>4, <1>5, <1>6, <1>7, <1>8, <1>9, <1>10, <1>11, NextCases

(* Every reachable state of the queue and its workers is well formed.      *)
THEOREM OutboxTypeCorrect == Spec => []TypeOK
<1>1. Init => TypeOK
  BY DEF Init, TypeOK, Status
<1>2. TypeOK /\ [Next]_vars => TypeOK'
  BY TypeOKStep
<1> QED BY <1>1, <1>2, PTL DEF Spec

-----------------------------------------------------------------------------
(* The inductive invariant                                                 *)

(* The mark counts the committed handlers, and DONE is never without it.   *)
Marked ==
  \A m \in Message :
    /\ effects[m] = IF m \in mark THEN 1 ELSE 0
    /\ status[m] = "DONE" => m \in mark

(* What a pass remembers: a running handler belongs to its batch, a worker *)
(* outside a pass has none, and while the worker owns a message of its     *)
(* batch it remembers that message's attempts.                             *)
Remembered ==
  /\ \A w \in Worker :
       /\ current[w] \in batch[w] \cup {None}
       /\ pc[w] # "batch" => batch[w] = {}
  /\ \A w \in Worker : \A m \in batch[w] :
       /\ status[m] # "absent"
       /\ Owned(w, m) => seen[w][m] = attempts[m]

(* The budget, and nothing was tried before it was enqueued. *)
Budgeted ==
  /\ RetryBudget
  /\ \A m \in Message : status[m] = "absent" => attempts[m] = 0

IInv == TypeOK /\ Marked /\ Remembered /\ Budgeted

LEMMA InitIInv == Init => IInv
BY BoundAssumption
   DEF Init, IInv, TypeOK, Status, Marked, Remembered, Budgeted, RetryBudget, Owned

(* What finalizeMessage and the end of a message in a pass do to the rest. *)
LEMMA FinalizeOutcome ==
  ASSUME IInv, NEW w \in Worker, NEW m \in Message, m \in batch[w],
         NEW verdict \in {"DONE", "ERROR", "DEAD"},
         Finalize(w, m, verdict), Leave(w, m)
  PROVE  /\ \A n \in Message \ {m} : /\ status'[n] = status[n]
                                      /\ attempts'[n] = attempts[n]
                                      /\ lockedBy'[n] = lockedBy[n]
         /\ \/ /\ status[m] = "PROCESSING" /\ status'[m] = verdict
               /\ attempts'[m] = attempts[m] + 1
               /\ lockedBy'[m] = None
               /\ seen[w][m] = attempts[m]
            \/ /\ ~Owned(w, m)
               /\ UNCHANGED <<status, attempts, lockedBy>>
         /\ \A v \in Worker \ {w} : /\ batch'[v] = batch[v] /\ pc'[v] = pc[v]
                                     /\ current'[v] = current[v] /\ seen'[v] = seen[v]
         /\ batch'[w] = batch[w] \ {m}
         /\ current'[w] = None
         /\ pc'[w] = IF batch[w] = {m} THEN "idle" ELSE "batch"
         /\ \A n \in Message \ {m} : seen'[w][n] = seen[w][n]
<1> USE DEF IInv, TypeOK
<1>1. CASE Owned(w, m)
  <2>1. seen[w][m] = attempts[m]
    BY <1>1 DEF Remembered
  <2>2. /\ status' = [status EXCEPT ![m] = verdict]
        /\ attempts' = [attempts EXCEPT ![m] = seen[w][m] + 1]
        /\ lockedBy' = [lockedBy EXCEPT ![m] = None]
    BY <1>1 DEF Finalize
  <2>3. status[m] = "PROCESSING"
    BY <1>1 DEF Owned
  <2>4. /\ status'[m] = verdict /\ attempts'[m] = attempts[m] + 1 /\ lockedBy'[m] = None
        /\ \A n \in Message \ {m} : /\ status'[n] = status[n]
                                     /\ attempts'[n] = attempts[n]
                                     /\ lockedBy'[n] = lockedBy[n]
    BY <2>1, <2>2
  <2>5. \A n \in Message \ {m} : seen'[w][n] = seen[w][n]
    BY DEF Leave
  <2> QED BY <2>1, <2>3, <2>4, <2>5 DEF Leave
<1>2. CASE ~Owned(w, m)
  <2>1. UNCHANGED <<status, attempts, lockedBy>>
    BY <1>2 DEF Finalize
  <2>2. \A n \in Message \ {m} : seen'[w][n] = seen[w][n]
    BY DEF Leave
  <2> QED BY <1>2, <2>1, <2>2 DEF Leave
<1> QED BY <1>1, <1>2

(* A message that leaves a pass keeps the memory of every pass right. *)
LEMMA FinalizeRemembered ==
  ASSUME IInv, NEW w \in Worker, NEW m \in Message, m \in batch[w],
         NEW verdict \in {"DONE", "ERROR", "DEAD"},
         Finalize(w, m, verdict), Leave(w, m), current[w] \in {None, m}
  PROVE  Remembered'
<1>1. ASSUME NEW v \in Worker
      PROVE  /\ current'[v] \in batch'[v] \cup {None}
             /\ pc'[v] # "batch" => batch'[v] = {}
  BY FinalizeOutcome DEF IInv, TypeOK, Remembered
<1>2. ASSUME NEW v \in Worker, NEW n \in batch'[v]
      PROVE  /\ status'[n] # "absent"
             /\ Owned(v, n)' => seen'[v][n] = attempts'[n]
  <2>1. n \in batch[v] /\ n \in Message
    <3>1. batch'[v] \subseteq batch[v]
      BY FinalizeOutcome
    <3> QED BY <3>1 DEF IInv, TypeOK
  <2>2. CASE n = m
    BY <2>1, <2>2, FinalizeOutcome DEF IInv, TypeOK, Remembered, Owned
  <2>3. CASE n # m
    BY <2>1, <2>3, FinalizeOutcome DEF IInv, TypeOK, Remembered, Owned
  <2> QED BY <2>2, <2>3
<1> QED BY <1>1, <1>2 DEF Remembered

(* A step that touches neither rows nor passes nor results. *)
LEMMA Untouched ==
  ASSUME IInv, UNCHANGED <<status, attempts, lockedBy, resultVars, passVars>>
  PROVE  (Marked /\ Remembered /\ Budgeted)'
BY DEF IInv, Marked, Remembered, Budgeted, RetryBudget, Owned, resultVars, passVars

LEMMA MarkedStep ==
  ASSUME IInv, [Next]_vars
  PROVE  Marked'
<1> USE DEF IInv, TypeOK, Marked
<1>1. CASE UNCHANGED resultVars /\ \A m \in Message : status'[m] = "DONE" => status[m] = "DONE"
  BY <1>1 DEF resultVars
<1>2. CASE UNCHANGED vars
  BY <1>1, <1>2 DEF vars, resultVars
<1>3. ASSUME NEW m \in Message,
             Enqueue(m) \/ BecomeDue(m) \/ LeaseLapses(m) \/ Stall(m) \/ Retry(m)
      PROVE  Marked'
  BY <1>1, <1>3 DEF Enqueue, BecomeDue, LeaseLapses, Stall, Retry
<1>4. ASSUME NEW w \in Worker, RenewLeases(w) \/ RecoverStale(w) \/ AbortPass(w)
      PROVE  Marked'
  BY <1>1, <1>4 DEF RenewLeases, RecoverStale, AbortPass, rowVars
<1>5. ASSUME NEW w \in Worker, NEW claimed \in SUBSET Message, Claim(w, claimed)
      PROVE  Marked'
  BY <1>1, <1>5 DEF Claim
<1>6. ASSUME NEW w \in Worker, NEW m \in Message, CallHandler(w, m) PROVE Marked'
  BY <1>1, <1>6 DEF CallHandler, rowVars
<1>7. ASSUME NEW w \in Worker, NEW m \in Message, SkipHandler(w, m) PROVE Marked'
  BY <1>7, FinalizeOutcome DEF SkipHandler, resultVars
<1>8. ASSUME NEW w \in Worker, Succeed(w) PROVE Marked'
  <2> DEFINE m == current[w]
  <2>1. m \in Message /\ m \in batch[w]
    BY <1>8 DEF Succeed, Remembered
  <2>2. /\ m \notin mark /\ mark' = mark \cup {m}
        /\ effects' = [effects EXCEPT ![m] = @ + 1]
        /\ Finalize(w, m, "DONE") /\ Leave(w, m)
    BY <1>8 DEF Succeed
  <2> HIDE DEF m
  <2>3. \A n \in Message \ {m} : status'[n] = status[n]
    BY <2>1, <2>2, FinalizeOutcome
  <2> QED BY <2>1, <2>2, <2>3
<1>9. ASSUME NEW w \in Worker, NEW permanent \in BOOLEAN, Fail(w, permanent)
      PROVE  Marked'
  <2> DEFINE m == current[w]
  <2>1. m \in Message /\ m \in batch[w]
    BY <1>9 DEF Fail, Remembered
  <2>2. PICK verdict \in {"ERROR", "DEAD"} :
          Finalize(w, m, verdict) /\ Leave(w, m) /\ UNCHANGED resultVars
    BY <1>9 DEF Fail
  <2> HIDE DEF m
  <2>3. \A n \in Message : status'[n] = "DONE" => status[n] = "DONE"
    BY <2>1, <2>2, FinalizeOutcome
  <2> QED BY <1>1, <2>2, <2>3
<1>10. ASSUME NEW w \in Worker, Start(w) \/ Stop(w) \/ Stopped(w) \/ Kill(w)
       PROVE  Marked'
  BY <1>1, <1>10 DEF Start, Stop, Stopped, Kill, rowVars
<1> QED
  BY <1>2, <1>3, <1>4, <1>5, <1>6, <1>7, <1>8, <1>9, <1>10, NextCases

LEMMA RememberedStep ==
  ASSUME IInv, [Next]_vars
  PROVE  Remembered'
<1> USE DEF IInv, TypeOK
<1>1. CASE UNCHANGED vars
  BY <1>1, Untouched DEF vars, resultVars, passVars
<1>2. ASSUME NEW m \in Message, Enqueue(m) \/ Retry(m) PROVE Remembered'
  <2>1. /\ status' = [status EXCEPT ![m] = "PENDING"]
        /\ \A n \in Message \ {m} : attempts'[n] = attempts[n] /\ lockedBy'[n] = lockedBy[n]
        /\ UNCHANGED passVars
    <3>1. CASE Enqueue(m)
      BY <3>1 DEF Enqueue
    <3>2. CASE Retry(m)
      BY <3>2 DEF Retry
    <3> QED BY <1>2, <3>1, <3>2
  <2>2. /\ status'[m] = "PENDING"
        /\ \A n \in Message \ {m} : status'[n] = status[n]
    BY <2>1
  <2> QED BY <2>1, <2>2 DEF Remembered, Owned, passVars
<1>3. ASSUME NEW m \in Message, BecomeDue(m) \/ LeaseLapses(m) \/ Stall(m)
      PROVE  Remembered'
  BY <1>3, Untouched DEF BecomeDue, LeaseLapses, Stall
<1>4. ASSUME NEW w \in Worker, RenewLeases(w) PROVE Remembered'
  BY <1>4, Untouched DEF RenewLeases
<1>5. ASSUME NEW w \in Worker, RecoverStale(w) PROVE Remembered'
  BY <1>5 DEF RecoverStale, Remembered, Owned
<1>6. ASSUME NEW w \in Worker, AbortPass(w) \/ Kill(w) PROVE Remembered'
  <2>1. /\ DropPass(w)
        /\ UNCHANGED rowVars
    BY <1>6 DEF AbortPass, Kill
  <2>2. /\ current'[w] = None /\ batch'[w] = {}
        /\ \A v \in Worker \ {w} : /\ current'[v] = current[v] /\ batch'[v] = batch[v]
                                    /\ pc'[v] = pc[v] /\ seen'[v] = seen[v]
    BY <2>1 DEF DropPass
  <2>3. UNCHANGED <<status, attempts, lockedBy>>
    BY <2>1 DEF rowVars
  <2>4. ASSUME NEW v \in Worker
        PROVE  /\ current'[v] \in batch'[v] \cup {None}
               /\ pc'[v] # "batch" => batch'[v] = {}
               /\ \A m \in batch'[v] : /\ status'[m] # "absent"
                                       /\ Owned(v, m)' => seen'[v][m] = attempts'[m]
    <3>1. CASE v = w
      BY <2>2, <3>1
    <3>2. CASE v # w
      BY <2>2, <2>3, <3>2 DEF Remembered, Owned
    <3> QED BY <3>1, <3>2
  <2> QED BY <2>4 DEF Remembered
<1>7. ASSUME NEW w \in Worker, NEW claimed \in SUBSET Message, Claim(w, claimed)
      PROVE  Remembered'
  <2>1. /\ batch[w] = {} /\ current[w] = None
        /\ batch' = [batch EXCEPT ![w] = claimed]
        /\ seen' = [seen EXCEPT ![w] =
                      [m \in Message |-> IF m \in claimed THEN attempts[m] ELSE 0]]
        /\ pc' = [pc EXCEPT ![w] = IF claimed = {} THEN "idle" ELSE "batch"]
        /\ UNCHANGED <<attempts, current>>
    BY <1>7 DEF Claim, Remembered
  <2>2. \A m \in Message :
          /\ status'[m] = IF m \in claimed THEN "PROCESSING" ELSE status[m]
          /\ lockedBy'[m] = IF m \in claimed THEN w ELSE lockedBy[m]
    BY <1>7 DEF Claim
  <2>3. ASSUME NEW v \in Worker
        PROVE  /\ current'[v] \in batch'[v] \cup {None}
               /\ pc'[v] # "batch" => batch'[v] = {}
    BY <2>1 DEF Remembered
  <2>4. ASSUME NEW v \in Worker, NEW m \in batch'[v]
        PROVE  /\ status'[m] # "absent"
               /\ Owned(v, m)' => seen'[v][m] = attempts'[m]
    <3>1. CASE v = w
      BY <2>1, <2>2, <2>4, <3>1
    <3>2. CASE v # w
      <4>1. m \in batch[v] /\ m \in Message /\ seen'[v] = seen[v]
        BY <2>1, <2>4, <3>2
      <4> QED BY <2>1, <2>2, <3>2, <4>1 DEF Remembered, Owned
    <3> QED BY <3>1, <3>2
  <2> QED BY <2>3, <2>4 DEF Remembered
<1>8. ASSUME NEW w \in Worker, NEW m \in Message, CallHandler(w, m) PROVE Remembered'
  BY <1>8 DEF CallHandler, Remembered, Owned, rowVars
<1>9. ASSUME NEW w \in Worker, NEW m \in Message, SkipHandler(w, m) PROVE Remembered'
  BY <1>9, FinalizeRemembered DEF SkipHandler
<1>10. ASSUME NEW w \in Worker, Succeed(w) PROVE Remembered'
  BY <1>10, FinalizeRemembered DEF Succeed, Remembered
<1>11. ASSUME NEW w \in Worker, NEW permanent \in BOOLEAN, Fail(w, permanent)
       PROVE  Remembered'
  BY <1>11, FinalizeRemembered DEF Fail, Remembered
<1>12. ASSUME NEW w \in Worker, Start(w) \/ Stop(w) \/ Stopped(w) PROVE Remembered'
  BY <1>12, Untouched DEF Start, Stop, Stopped, rowVars
<1> QED
  BY <1>1, <1>2, <1>3, <1>4, <1>5, <1>6, <1>7, <1>8, <1>9, <1>10, <1>11, <1>12, NextCases

LEMMA BudgetedStep ==
  ASSUME IInv, [Next]_vars
  PROVE  Budgeted'
<1> USE BoundAssumption DEF IInv, TypeOK, Budgeted, RetryBudget
<1>1. ASSUME UNCHANGED attempts,
             \A m \in Message :
               /\ status'[m] \in {"PENDING", "PROCESSING", "ERROR"}
                    => status[m] \in {"absent", "PENDING", "PROCESSING", "ERROR"}
               /\ status'[m] = "absent" => status[m] = "absent"
      PROVE  Budgeted'
  BY <1>1
<1>2. CASE UNCHANGED vars
  BY <1>1, <1>2 DEF vars
<1>3. ASSUME NEW m \in Message, Retry(m) PROVE Budgeted'
  BY <1>3 DEF Retry
<1>4. ASSUME NEW m \in Message, Enqueue(m) \/ BecomeDue(m) \/ LeaseLapses(m) \/ Stall(m)
      PROVE  Budgeted'
  BY <1>1, <1>4 DEF Enqueue, BecomeDue, LeaseLapses, Stall
<1>5. ASSUME NEW w \in Worker, RenewLeases(w) \/ RecoverStale(w) \/ AbortPass(w)
      PROVE  Budgeted'
  BY <1>1, <1>5 DEF RenewLeases, RecoverStale, AbortPass, rowVars
<1>6. ASSUME NEW w \in Worker, NEW claimed \in SUBSET Message, Claim(w, claimed)
      PROVE  Budgeted'
  BY <1>1, <1>6 DEF Claim, Ready
<1>7. ASSUME NEW w \in Worker, NEW m \in Message, CallHandler(w, m) PROVE Budgeted'
  BY <1>1, <1>7 DEF CallHandler, rowVars
<1>8. ASSUME NEW w \in Worker, NEW m \in Message, m \in batch[w],
             Finalize(w, m, "DONE"), Leave(w, m)
      PROVE  Budgeted'
  <2>1. /\ \A n \in Message \ {m} : status'[n] = status[n] /\ attempts'[n] = attempts[n]
        /\ \/ /\ status[m] = "PROCESSING" /\ status'[m] = "DONE"
              /\ attempts'[m] = attempts[m] + 1
           \/ UNCHANGED <<status, attempts>>
    BY <1>8, FinalizeOutcome
  <2>2. CASE UNCHANGED <<status, attempts>>
    BY <2>2
  <2>3. CASE status[m] = "PROCESSING" /\ status'[m] = "DONE" /\ attempts'[m] = attempts[m] + 1
    <3>1. attempts[m] + 1 <= MaxAttempts
      BY <2>3
    <3> QED BY <2>1, <2>3, <3>1
  <2> QED BY <2>1, <2>2, <2>3
<1>9. ASSUME NEW w \in Worker, NEW m \in Message, SkipHandler(w, m) PROVE Budgeted'
  BY <1>8, <1>9 DEF SkipHandler
<1>10. ASSUME NEW w \in Worker, Succeed(w) PROVE Budgeted'
  <2>1. current[w] \in Message /\ current[w] \in batch[w]
    BY <1>10 DEF Succeed, Remembered
  <2> QED BY <1>8, <1>10, <2>1 DEF Succeed
<1>11. ASSUME NEW w \in Worker, NEW permanent \in BOOLEAN, Fail(w, permanent)
       PROVE  Budgeted'
  <2> DEFINE m == current[w]
             spent == Exhausted(seen[w][m] + 1, permanent)
             verdict == IF spent THEN "DEAD" ELSE "ERROR"
  <2>1. m \in Message /\ m \in batch[w]
    BY <1>11 DEF Fail, Remembered
  <2>2. Finalize(w, m, verdict) /\ Leave(w, m)
    BY <1>11 DEF Fail
  <2>3. seen[w][m] = attempts[m] /\ verdict = "ERROR" => attempts[m] + 1 < MaxAttempts
    BY <2>1 DEF Exhausted
  <2> HIDE DEF m, verdict, spent
  <2>4. verdict \in {"DEAD", "ERROR"}
    BY DEF verdict
  <2>5. /\ \A n \in Message \ {m} : status'[n] = status[n] /\ attempts'[n] = attempts[n]
        /\ \/ /\ status[m] = "PROCESSING" /\ status'[m] = verdict
              /\ attempts'[m] = attempts[m] + 1 /\ seen[w][m] = attempts[m]
           \/ UNCHANGED <<status, attempts>>
    BY <2>1, <2>2, <2>4, FinalizeOutcome
  <2>6. CASE UNCHANGED <<status, attempts>>
    BY <2>6
  <2>7. CASE /\ status[m] = "PROCESSING" /\ status'[m] = verdict
             /\ attempts'[m] = attempts[m] + 1 /\ seen[w][m] = attempts[m]
    <3>1. /\ attempts[m] + 1 <= MaxAttempts
          /\ verdict = "ERROR" => attempts'[m] < MaxAttempts
      BY <2>1, <2>3, <2>7
    <3> QED BY <2>1, <2>4, <2>5, <2>7, <3>1
  <2> QED BY <2>5, <2>6, <2>7
<1>12. ASSUME NEW w \in Worker, Start(w) \/ Stop(w) \/ Stopped(w) \/ Kill(w)
       PROVE  Budgeted'
  BY <1>1, <1>12 DEF Start, Stop, Stopped, Kill, rowVars
<1> QED
  BY <1>2, <1>3, <1>4, <1>5, <1>6, <1>7, <1>9, <1>10, <1>11, <1>12, NextCases

(* The invariant the theorems below rest on. *)
THEOREM OutboxInvariant == Spec => []IInv
<1>1. IInv /\ [Next]_vars => IInv'
  BY TypeOKStep, MarkedStep, RememberedStep, BudgetedStep DEF IInv
<1> QED BY InitIInv, <1>1, PTL DEF Spec

(* The effect of a message is committed at most once, for every number of  *)
(* workers and faults and however often it is retried by hand.             *)
THEOREM EffectAtMostOnce == Spec => []AppliedOnce
<1>1. IInv => AppliedOnce
  BY DEF IInv, Marked, AppliedOnce
<1> QED BY <1>1, OutboxInvariant, PTL

(* A message called DONE was applied: the mark and the verdict commit      *)
(* together, and a skipped handler had its mark.                           *)
THEOREM DoneWasApplied == Spec => []DoneIsApplied
<1>1. IInv => DoneIsApplied
  BY DEF IInv, Marked, DoneIsApplied
<1> QED BY <1>1, OutboxInvariant, PTL

(* No message is tried beyond its budget: a claim always has an attempt    *)
(* left, and the count a worker remembers is the row's.                    *)
THEOREM BudgetIsKept == Spec => []RetryBudget
<1>1. IInv => RetryBudget
  BY DEF IInv, Budgeted
<1> QED BY <1>1, OutboxInvariant, PTL

LEMMA VerdictStep ==
  ASSUME IInv, [Next]_vars, NEW m \in Message,
         status'[m] # status[m], status'[m] \in {"DONE", "ERROR", "DEAD"}
  PROVE  status[m] = "PROCESSING" /\ attempts'[m] = attempts[m] + 1
<1> USE DEF IInv, TypeOK
<1>1. ASSUME NEW w \in Worker, NEW n \in Message, n \in batch[w],
             NEW verdict \in {"DONE", "ERROR", "DEAD"},
             Finalize(w, n, verdict), Leave(w, n)
      PROVE  status[m] = "PROCESSING" /\ attempts'[m] = attempts[m] + 1
  BY <1>1, FinalizeOutcome
<1>2. CASE \E w \in Worker, n \in Message : SkipHandler(w, n)
  BY <1>1, <1>2 DEF SkipHandler
<1>3. CASE \E w \in Worker : Succeed(w)
  BY <1>1, <1>3 DEF Succeed, Remembered
<1>4. CASE \E w \in Worker, permanent \in BOOLEAN : Fail(w, permanent)
  BY <1>1, <1>4 DEF Fail, Remembered
<1>5. CASE UNCHANGED vars
  BY <1>5 DEF vars
<1>6. ASSUME NEW n \in Message,
             Enqueue(n) \/ BecomeDue(n) \/ LeaseLapses(n) \/ Stall(n) \/ Retry(n)
      PROVE  FALSE
  BY <1>6 DEF Enqueue, BecomeDue, LeaseLapses, Stall, Retry
<1>7. ASSUME NEW w \in Worker, RenewLeases(w) \/ RecoverStale(w) \/ AbortPass(w)
      PROVE  FALSE
  BY <1>7 DEF RenewLeases, RecoverStale, AbortPass, rowVars
<1>8. ASSUME NEW w \in Worker, NEW claimed \in SUBSET Message, Claim(w, claimed)
      PROVE  FALSE
  BY <1>8 DEF Claim
<1>9. ASSUME NEW w \in Worker, NEW n \in Message, CallHandler(w, n) PROVE FALSE
  BY <1>9 DEF CallHandler, rowVars
<1>10. ASSUME NEW w \in Worker, Start(w) \/ Stop(w) \/ Stopped(w) \/ Kill(w)
       PROVE  FALSE
  BY <1>10 DEF Start, Stop, Stopped, Kill, rowVars
<1> QED
  BY <1>2, <1>3, <1>4, <1>5, <1>6, <1>7, <1>8, <1>9, <1>10, NextCases

(* The fencing point of finalizeMessage: a worker that lost its lease      *)
(* writes no verdict and no count, whatever it still remembers, and no     *)
(* verdict goes beyond the limit of attempts.                              *)
THEOREM VerdictsAreFenced == Spec => EveryVerdictCounts
<1> DEFINE Counts(m) ==
      status'[m] # status[m] /\ status'[m] \in {"DONE", "ERROR", "DEAD"}
        => /\ status[m] = "PROCESSING" /\ attempts'[m] = attempts[m] + 1
           /\ attempts'[m] <= MaxAttempts
           /\ status'[m] = "ERROR" => attempts'[m] < MaxAttempts
<1>1. IInv /\ [Next]_vars => \A m \in Message : Counts(m)
  <2> SUFFICES ASSUME IInv, [Next]_vars, NEW m \in Message PROVE Counts(m)
    OBVIOUS
  <2>1. RetryBudget'
    BY BudgetedStep DEF IInv, Budgeted
  <2>2. /\ attempts'[m] <= MaxAttempts
        /\ status'[m] = "ERROR" => attempts'[m] < MaxAttempts
    BY <2>1 DEF RetryBudget
  <2> QED BY <2>2, VerdictStep
<1> HIDE DEF Counts
<1>2. IInv /\ [Next]_vars => [\A m \in Message : Counts(m)]_vars
  BY <1>1
<1>3. Spec => [][\A m \in Message : Counts(m)]_vars
  BY <1>2, OutboxInvariant, PTL DEF Spec
<1> QED BY <1>3 DEF EveryVerdictCounts, Counts

-----------------------------------------------------------------------------
(* Refinement of OnceQueue                                                 *)

(* The abstract state, under the refinement mapping of Promise. *)
Verdicts == [m \in Message |-> Verdict(m)]
Applied  == {m \in Message : effects[m] > 0}

LEMMA AppliedIsMark ==
  ASSUME IInv
  PROVE  Applied = mark
BY DEF IInv, TypeOK, Marked, Applied

(* Steps that move no row between waiting, done and dead stutter.          *)
LEMMA Stutters ==
  ASSUME IInv, UNCHANGED effects,
         \A m \in Message :
           \/ status'[m] = status[m]
           \/ {status[m], status'[m]} \subseteq {"PENDING", "PROCESSING", "ERROR"}
  PROVE  UNCHANGED <<Verdicts, Applied>>
BY DEF IInv, TypeOK, Verdicts, Verdict, Applied

(* A verdict of finalizeMessage, seen by OnceQueue. *)
LEMMA FinalizeVerdicts ==
  ASSUME IInv, NEW w \in Worker, NEW m \in Message, m \in batch[w],
         NEW verdict \in {"DONE", "ERROR", "DEAD"},
         Finalize(w, m, verdict), Leave(w, m)
  PROVE  \/ UNCHANGED Verdicts
         \/ /\ verdict = "DONE" /\ Verdicts[m] = "waiting"
            /\ Verdicts' = [Verdicts EXCEPT ![m] = "done"]
         \/ /\ verdict = "DEAD" /\ Verdicts[m] = "waiting"
            /\ Verdicts' = [Verdicts EXCEPT ![m] = "dead"]
<1>1. /\ \A n \in Message \ {m} : status'[n] = status[n]
      /\ \/ status[m] = "PROCESSING" /\ status'[m] = verdict
         \/ UNCHANGED status
  BY FinalizeOutcome
<1>2. CASE UNCHANGED status
  BY <1>2 DEF Verdicts, Verdict
<1>3. CASE status[m] = "PROCESSING" /\ status'[m] = verdict
  BY <1>1, <1>3 DEF Verdicts, Verdict
<1> QED BY <1>1, <1>2, <1>3

LEMMA RefinementStep ==
  ASSUME IInv, [Next]_vars
  PROVE  Promise!Next \/ UNCHANGED <<Verdicts, Applied>>
<1> USE DEF IInv, TypeOK
<1>1. CASE UNCHANGED vars
  BY <1>1, Stutters DEF vars
<1>2. ASSUME NEW m \in Message, Enqueue(m) PROVE Promise!Submit(m)
  BY <1>2 DEF Enqueue, Promise!Submit, Verdict, resultVars
<1>3. ASSUME NEW m \in Message, BecomeDue(m) \/ LeaseLapses(m) \/ Stall(m)
      PROVE  UNCHANGED <<Verdicts, Applied>>
  BY <1>3, Stutters DEF BecomeDue, LeaseLapses, Stall, resultVars
<1>4. ASSUME NEW m \in Message, Retry(m)
      PROVE  Promise!AskAgain(m) \/ UNCHANGED <<Verdicts, Applied>>
  <2>1. CASE status[m] = "ERROR"
    BY <1>4, <2>1, Stutters DEF Retry, resultVars
  <2>2. CASE status[m] = "DEAD"
    BY <1>4, <2>2 DEF Retry, Promise!AskAgain, Verdict, resultVars
  <2> QED BY <1>4, <2>1, <2>2 DEF Retry
<1>5. ASSUME NEW w \in Worker, RenewLeases(w) \/ RecoverStale(w) \/ AbortPass(w)
      PROVE  UNCHANGED <<Verdicts, Applied>>
  BY <1>5, Stutters DEF RenewLeases, RecoverStale, AbortPass, rowVars, resultVars
<1>6. ASSUME NEW w \in Worker, NEW claimed \in SUBSET Message, Claim(w, claimed)
      PROVE  UNCHANGED <<Verdicts, Applied>>
  BY <1>6, Stutters DEF Claim, Ready, resultVars
<1>7. ASSUME NEW w \in Worker, NEW m \in Message, CallHandler(w, m)
      PROVE  UNCHANGED <<Verdicts, Applied>>
  BY <1>7, Stutters DEF CallHandler, rowVars, resultVars
<1>8. ASSUME NEW w \in Worker, NEW m \in Message, SkipHandler(w, m)
      PROVE  Promise!Succeed(m) \/ UNCHANGED <<Verdicts, Applied>>
  <2>1. /\ m \in Applied /\ UNCHANGED Applied
    BY <1>8, AppliedIsMark DEF SkipHandler, resultVars, Applied
  <2>2. \/ UNCHANGED Verdicts
        \/ Verdicts[m] = "waiting" /\ Verdicts' = [Verdicts EXCEPT ![m] = "done"]
    BY <1>8, FinalizeVerdicts DEF SkipHandler
  <2> QED BY <2>1, <2>2 DEF Promise!Succeed, Verdicts, Applied
<1>9. ASSUME NEW w \in Worker, Succeed(w)
      PROVE  \E m \in Message : Promise!Succeed(m) \/ Promise!ApplyLate(m)
  <2>1. PICK m \in Message : m = current[w] /\ m \in batch[w] /\ m \notin mark
    BY <1>9 DEF Succeed, Remembered
  <2>2. /\ Finalize(w, m, "DONE") /\ Leave(w, m)
        /\ effects' = [effects EXCEPT ![m] = @ + 1]
    BY <1>9, <2>1 DEF Succeed
  <2>3. m \notin Applied /\ Applied' = Applied \cup {m}
    BY <2>1, <2>2, AppliedIsMark DEF Applied
  <2>4. Verdicts[m] # "absent"
    BY <2>1 DEF Verdicts, Verdict, Remembered
  <2>5. \/ UNCHANGED Verdicts
        \/ Verdicts[m] = "waiting" /\ Verdicts' = [Verdicts EXCEPT ![m] = "done"]
    BY <2>1, <2>2, FinalizeVerdicts
  <2>6. Promise!Succeed(m) \/ Promise!ApplyLate(m)
    <3>1. CASE UNCHANGED Verdicts
      <4>1. Promise!ApplyLate(m)
        BY <2>3, <2>4, <3>1 DEF Promise!ApplyLate, Verdicts, Applied
      <4> QED BY <4>1
    <3>2. CASE Verdicts[m] = "waiting" /\ Verdicts' = [Verdicts EXCEPT ![m] = "done"]
      <4>1. Promise!Succeed(m)
        BY <2>3, <3>2 DEF Promise!Succeed, Verdicts, Applied
      <4> QED BY <4>1
    <3> QED BY <2>5, <3>1, <3>2
  <2> QED BY <2>1, <2>6
<1>10. ASSUME NEW w \in Worker, NEW permanent \in BOOLEAN, Fail(w, permanent)
       PROVE  (\E m \in Message : Promise!GiveUp(m)) \/ UNCHANGED <<Verdicts, Applied>>
  <2>1. PICK m \in Message : m = current[w] /\ m \in batch[w] /\ UNCHANGED effects
    BY <1>10 DEF Fail, Remembered, resultVars
  <2>2. PICK verdict \in {"ERROR", "DEAD"} : Finalize(w, m, verdict) /\ Leave(w, m)
    BY <1>10, <2>1 DEF Fail
  <2>3. UNCHANGED Applied
    BY <2>1 DEF Applied
  <2>4. \/ UNCHANGED Verdicts
        \/ Verdicts[m] = "waiting" /\ Verdicts' = [Verdicts EXCEPT ![m] = "dead"]
    BY <2>1, <2>2, FinalizeVerdicts
  <2>5. Promise!GiveUp(m) \/ UNCHANGED <<Verdicts, Applied>>
    BY <2>3, <2>4 DEF Promise!GiveUp, Verdicts, Applied
  <2> QED BY <2>1, <2>5
<1>11. ASSUME NEW w \in Worker, Start(w) \/ Stop(w) \/ Stopped(w) \/ Kill(w)
       PROVE  UNCHANGED <<Verdicts, Applied>>
  BY <1>11, Stutters DEF Start, Stop, Stopped, Kill, rowVars, resultVars
<1> QED
  BY <1>1, <1>2, <1>3, <1>4, <1>5, <1>6, <1>7, <1>8, <1>9, <1>10, <1>11, NextCases
     DEF Promise!Next

(* The workers, leases, kills and retries of the outbox implement the      *)
(* promise of OnceQueue: one effect, a verdict only on top of it, final.   *)
THEOREM OutboxKeepsPromise == Spec => KeepsPromise
<1>1. Init => Promise!Init
  BY DEF Init, Promise!Init, Verdict
<1>2. IInv /\ [Next]_vars => [Promise!Next]_<<Verdicts, Applied>>
  BY RefinementStep
<1> QED
  BY <1>1, <1>2, OutboxInvariant, PTL
     DEF Spec, KeepsPromise, Promise!Spec, Verdicts, Applied
=============================================================================
