------------------------------- MODULE Outbox -------------------------------
(***************************************************************************)
(* The transactional outbox (modules/outbox).  A business transaction      *)
(* inserts a message; every application process runs one worker that       *)
(* returns stale messages to the queue, claims a batch under a lease and   *)
(* processes it one message at a time.  A process may be killed, may stall *)
(* so long that its leases lapse, may lose its database connection in the  *)
(* middle of a pass, and stops gracefully on deployment.                   *)
(*                                                                         *)
(* Time is abstracted: a lease is fresh or stale, a retry is due or not.   *)
(***************************************************************************)
EXTENDS Naturals, FiniteSets

CONSTANTS
  Message,      \* idempotency keys
  Worker,       \* worker ids: every process start draws a fresh one
  None,         \* no worker, no message
  MaxAttempts,  \* OutboxMessage.maxAttempts
  Limit,        \* size of a batch
  MaxFaults,    \* bound: kills, stalls and aborted passes
  MaxRetries    \* bound: manual retries by an administrator

ASSUME NoneAssumption == None \notin Message \cup Worker
ASSUME BoundAssumption ==
  /\ MaxAttempts \in Nat \ {0} /\ Limit \in Nat \ {0}
  /\ MaxFaults \in Nat /\ MaxRetries \in Nat

VARIABLES
  status,    \* OutboxMessage.status, "absent" before the row exists
  attempts,  \* OutboxMessage.attempts
  due,       \* messages whose nextAttemptAt has come
  lockedBy,  \* OutboxMessage.lockedBy
  stale,     \* messages whose lockedAt is older than the lease timeout
  mark,      \* messages with an OutboxProcessedMessage row
  effects,   \* how many handler transactions of the message committed
  life,      \* process state of a worker
  pc,        \* where the worker's pass is
  batch,     \* the pass's pending set: claimed and not finished
  current,   \* message whose handler is running
  seen,      \* attempts of a message as the claim returned them
  faults, retries

rowVars    == <<status, attempts, due, lockedBy, stale>>
resultVars == <<mark, effects>>
passVars   == <<pc, batch, current, seen>>
boundVars  == <<faults, retries>>
vars == <<status, attempts, due, lockedBy, stale, mark, effects, life,
          pc, batch, current, seen, faults, retries>>

Status == {"absent", "PENDING", "PROCESSING", "DONE", "ERROR", "DEAD"}

TypeOK ==
  /\ status \in [Message -> Status]
  /\ attempts \in [Message -> Nat]
  /\ due \subseteq Message
  /\ lockedBy \in [Message -> Worker \cup {None}]
  /\ stale \subseteq Message
  /\ mark \subseteq Message
  /\ effects \in [Message -> Nat]
  /\ life \in [Worker -> {"new", "up", "stopping", "gone"}]
  /\ pc \in [Worker -> {"idle", "claim", "batch"}]
  /\ batch \in [Worker -> SUBSET Message]
  /\ current \in [Worker -> Message \cup {None}]
  /\ seen \in [Worker -> [Message -> Nat]]
  /\ faults \in Nat /\ retries \in Nat

Init ==
  /\ status = [m \in Message |-> "absent"]
  /\ attempts = [m \in Message |-> 0]
  /\ due = {}
  /\ lockedBy = [m \in Message |-> None]
  /\ stale = {}
  /\ mark = {}
  /\ effects = [m \in Message |-> 0]
  /\ life = [w \in Worker |-> "new"]
  /\ pc = [w \in Worker |-> "idle"]
  /\ batch = [w \in Worker |-> {}]
  /\ current = [w \in Worker |-> None]
  /\ seen = [w \in Worker |-> [m \in Message |-> 0]]
  /\ faults = 0
  /\ retries = 0

-----------------------------------------------------------------------------
(* The table *)

(* enqueueOutbox: ON CONFLICT DO NOTHING, so a key is inserted once.       *)
Enqueue(m) ==
  /\ status[m] = "absent"
  /\ status' = [status EXCEPT ![m] = "PENDING"]
  /\ due' = due \cup {m}
  /\ UNCHANGED <<attempts, lockedBy, stale, resultVars, life, passVars, boundVars>>

(* The backoff of a failed message has passed. *)
BecomeDue(m) ==
  /\ status[m] = "ERROR"
  /\ m \notin due
  /\ due' = due \cup {m}
  /\ UNCHANGED <<status, attempts, lockedBy, stale, resultVars, life, passVars, boundVars>>

(* The keeper timer renews every message of the running pass. *)
Kept(w, m) == life[w] \in {"up", "stopping"} /\ m \in batch[w]

OwnedByAnyone(w, m) ==   \* mutant: the condition forgets lockedBy
  status[m] = "PROCESSING"

(* finalizeMessage writes only under this condition. *)
Owned(w, m) == status[m] = "PROCESSING" /\ lockedBy[m] = w

(* The lease of a message no pass keeps any more runs out.                 *)
LeaseLapses(m) ==
  /\ status[m] = "PROCESSING"
  /\ m \notin stale
  /\ \A w \in Worker : ~(Owned(w, m) /\ Kept(w, m))
  /\ stale' = stale \cup {m}
  /\ UNCHANGED <<status, attempts, due, lockedBy, resultVars, life, passVars, boundVars>>

(* A live process stalls: renewals fail silently and the lease runs out.   *)
Stall(m) ==
  /\ faults < MaxFaults
  /\ m \notin stale
  /\ \E w \in Worker : Owned(w, m) /\ Kept(w, m)
  /\ stale' = stale \cup {m}
  /\ faults' = faults + 1
  /\ UNCHANGED <<status, attempts, due, lockedBy, resultVars, life, passVars, retries>>

(* renewLeases, by the timer of a running pass. *)
RenewLeases(w) ==
  LET mine == {m \in batch[w] : Owned(w, m)} IN
  /\ \E m \in mine \cap stale : Kept(w, m)
  /\ stale' = stale \ mine
  /\ UNCHANGED <<status, attempts, due, lockedBy, resultVars, life, passVars, boundVars>>

RetryAny(m) ==   \* mutant: no condition on the status
  /\ retries < MaxRetries
  /\ status[m] # "absent"
  /\ status' = [status EXCEPT ![m] = "PENDING"]
  /\ attempts' = [attempts EXCEPT ![m] = 0]
  /\ due' = due \cup {m}
  /\ lockedBy' = [lockedBy EXCEPT ![m] = None]
  /\ retries' = retries + 1
  /\ UNCHANGED <<stale, resultVars, life, passVars, faults>>

(* POST /api/outbox/failures/:id/retry. *)
Retry(m) ==
  /\ retries < MaxRetries
  /\ status[m] \in {"ERROR", "DEAD"}
  /\ status' = [status EXCEPT ![m] = "PENDING"]
  /\ attempts' = [attempts EXCEPT ![m] = 0]
  /\ due' = due \cup {m}
  /\ lockedBy' = [lockedBy EXCEPT ![m] = None]
  /\ retries' = retries + 1
  /\ UNCHANGED <<stale, resultVars, life, passVars, faults>>

-----------------------------------------------------------------------------
(* A pass *)

RecoverFresh(w) ==   \* mutant: lockedAt is compared the wrong way round
  LET found == {m \in Message : status[m] = "PROCESSING" /\ m \notin stale} IN
  /\ life[w] = "up"
  /\ pc[w] = "idle"
  /\ status' = [m \in Message |-> IF m \in found THEN "PENDING" ELSE status[m]]
  /\ lockedBy' = [m \in Message |-> IF m \in found THEN None ELSE lockedBy[m]]
  /\ pc' = [pc EXCEPT ![w] = "claim"]
  /\ UNCHANGED <<attempts, due, stale, resultVars, life, batch, current, seen, boundVars>>

(* recoverStaleMessages opens the pass. *)
RecoverStale(w) ==
  LET found == {m \in stale : status[m] = "PROCESSING"} IN
  /\ life[w] = "up"
  /\ pc[w] = "idle"
  /\ status' = [m \in Message |-> IF m \in found THEN "PENDING" ELSE status[m]]
  /\ lockedBy' = [m \in Message |-> IF m \in found THEN None ELSE lockedBy[m]]
  /\ stale' = stale \ found
  /\ pc' = [pc EXCEPT ![w] = "claim"]
  /\ UNCHANGED <<attempts, due, resultVars, life, batch, current, seen, boundVars>>

Ready == {m \in due : status[m] \in {"PENDING", "ERROR"}}

(* claimBatch: one statement, FOR UPDATE SKIP LOCKED.  It takes all that   *)
(* is ready, or as many as the limit allows; nothing ready ends the pass.  *)
Claim(w, claimed) ==
  /\ pc[w] = "claim"
  /\ claimed \subseteq Ready
  /\ claimed = Ready \/ Cardinality(claimed) = Limit
  /\ Cardinality(claimed) <= Limit
  /\ status' = [m \in Message |-> IF m \in claimed THEN "PROCESSING" ELSE status[m]]
  /\ lockedBy' = [m \in Message |-> IF m \in claimed THEN w ELSE lockedBy[m]]
  /\ stale' = stale \ claimed
  /\ batch' = [batch EXCEPT ![w] = claimed]
  /\ seen' = [seen EXCEPT ![w] =
                [m \in Message |-> IF m \in claimed THEN attempts[m] ELSE 0]]
  /\ pc' = [pc EXCEPT ![w] = IF claimed = {} THEN "idle" ELSE "batch"]
  /\ UNCHANGED <<attempts, due, resultVars, life, current, boundVars>>

(* finalizeMessage: the verdict is written only by the lease's holder; a   *)
(* worker that lost the lease writes nothing.                              *)
Finalize(w, m, verdict) ==
  IF Owned(w, m)
    THEN /\ status' = [status EXCEPT ![m] = verdict]
         /\ attempts' = [attempts EXCEPT ![m] = seen[w][m] + 1]
         /\ lockedBy' = [lockedBy EXCEPT ![m] = None]
         /\ stale' = stale \ {m}
    ELSE UNCHANGED <<status, attempts, lockedBy, stale>>

LeaveOpen(w, m) ==   \* mutant: the end of the pass is not noted
  /\ batch' = [batch EXCEPT ![w] = @ \ {m}]
  /\ current' = [current EXCEPT ![w] = None]
  /\ seen' = [seen EXCEPT ![w] = [@ EXCEPT ![m] = 0]]
  /\ UNCHANGED pc

(* The message leaves the pending set; the last one ends the pass.         *)
Leave(w, m) ==
  /\ batch' = [batch EXCEPT ![w] = @ \ {m}]
  /\ current' = [current EXCEPT ![w] = None]
  /\ seen' = [seen EXCEPT ![w] = [@ EXCEPT ![m] = 0]]
  /\ pc' = [pc EXCEPT ![w] = IF batch[w] = {m} THEN "idle" ELSE "batch"]

(* The transaction finds no mark and calls the handler. *)
CallHandler(w, m) ==
  /\ m \in batch[w]
  /\ current[w] = None
  /\ m \notin mark
  /\ current' = [current EXCEPT ![w] = m]
  /\ UNCHANGED <<rowVars, resultVars, life, pc, batch, seen, boundVars>>

(* The transaction finds the mark: the handler is not called.              *)
SkipHandler(w, m) ==
  /\ m \in batch[w]
  /\ current[w] = None
  /\ m \in mark
  /\ Finalize(w, m, "DONE")
  /\ Leave(w, m)
  /\ UNCHANGED <<due, resultVars, life, boundVars>>

SucceedUpsert(w) ==   \* mutant: a mark that is there already is no error
  LET m == current[w] IN
  /\ m # None
  /\ mark' = mark \cup {m}
  /\ effects' = [effects EXCEPT ![m] = @ + 1]
  /\ Finalize(w, m, "DONE")
  /\ Leave(w, m)
  /\ UNCHANGED <<due, life, boundVars>>

(* The handler returned: its writes, the mark and the verdict commit       *)
(* together.  The mark is unique, so a second one aborts (see Fail).  The  *)
(* mark stays even when the lease is lost.                                 *)
Succeed(w) ==
  LET m == current[w] IN
  /\ m # None
  /\ m \notin mark
  /\ mark' = mark \cup {m}
  /\ effects' = [effects EXCEPT ![m] = @ + 1]
  /\ Finalize(w, m, "DONE")
  /\ Leave(w, m)
  /\ UNCHANGED <<due, life, boundVars>>

(* A permanent failure exhausts the message at once. *)
Exhausted(n, permanent) == permanent \/ n >= MaxAttempts

(* failMessage: the transaction rolled back because the handler threw, it  *)
(* timed out, or the mark was there already.                               *)
Fail(w, permanent) ==
  LET m == current[w] IN
  /\ m # None
  /\ Finalize(w, m, IF Exhausted(seen[w][m] + 1, permanent) THEN "DEAD" ELSE "ERROR")
  /\ due' = IF Owned(w, m) THEN due \ {m} ELSE due
  /\ Leave(w, m)
  /\ UNCHANGED <<resultVars, life, boundVars>>

(* The pass is gone, and what it knew with it. *)
DropPass(w) ==
  /\ batch' = [batch EXCEPT ![w] = {}]
  /\ current' = [current EXCEPT ![w] = None]
  /\ seen' = [seen EXCEPT ![w] = [m \in Message |-> 0]]
  /\ pc' = [pc EXCEPT ![w] = "idle"]

(* A database error outside the handler's transaction ends the pass: what  *)
(* is left of the batch keeps its lease and is renewed no more.            *)
AbortPass(w) ==
  /\ faults < MaxFaults
  /\ pc[w] # "idle"
  /\ DropPass(w)
  /\ faults' = faults + 1
  /\ UNCHANGED <<rowVars, resultVars, life, retries>>

-----------------------------------------------------------------------------
(* Processes *)

(* Bound: some process runs or is still to be started. *)
Another(w) == \E v \in Worker \ {w} : life[v] \in {"new", "up"}

Start(w) ==
  /\ life[w] = "new"
  /\ life' = [life EXCEPT ![w] = "up"]
  /\ UNCHANGED <<rowVars, resultVars, passVars, boundVars>>

(* stop(): no new pass, the running one is waited for. *)
Stop(w) ==
  /\ life[w] = "up"
  /\ Another(w)
  /\ life' = [life EXCEPT ![w] = "stopping"]
  /\ UNCHANGED <<rowVars, resultVars, passVars, boundVars>>

Stopped(w) ==
  /\ life[w] = "stopping"
  /\ pc[w] = "idle"
  /\ life' = [life EXCEPT ![w] = "gone"]
  /\ UNCHANGED <<rowVars, resultVars, passVars, boundVars>>

(* The process is killed; the transaction of its handler is rolled back.   *)
Kill(w) ==
  /\ faults < MaxFaults
  /\ life[w] \in {"up", "stopping"}
  /\ Another(w)
  /\ life' = [life EXCEPT ![w] = "gone"]
  /\ DropPass(w)
  /\ faults' = faults + 1
  /\ UNCHANGED <<rowVars, resultVars, retries>>

-----------------------------------------------------------------------------
Process(w) ==
  \/ \E m \in Message : CallHandler(w, m) \/ SkipHandler(w, m)
  \/ Succeed(w)
  \/ \E permanent \in BOOLEAN : Fail(w, permanent)

TableStep == \E m \in Message :
  Enqueue(m) \/ BecomeDue(m) \/ LeaseLapses(m) \/ Stall(m) \/ Retry(m)

PassStep == \E w \in Worker :
  \/ RenewLeases(w)
  \/ RecoverStale(w)
  \/ \E claimed \in SUBSET Message : Claim(w, claimed)
  \/ Process(w)
  \/ AbortPass(w)

ProcessStep == \E w \in Worker : Start(w) \/ Stop(w) \/ Stopped(w) \/ Kill(w)

Next == TableStep \/ PassStep \/ ProcessStep

(* The interval timer of a live process runs passes again and again, a     *)
(* handler ends (its transaction has a time limit), backoffs and abandoned *)
(* leases run out, and processes that are to start or stop do.             *)
Fairness ==
  /\ \A w \in Worker :
       /\ WF_vars(RecoverStale(w))
       /\ WF_vars(\E claimed \in SUBSET Message : Claim(w, claimed))
       /\ WF_vars(Process(w))
       /\ WF_vars(Start(w))
       /\ WF_vars(Stopped(w))
  /\ \A m \in Message : WF_vars(BecomeDue(m)) /\ WF_vars(LeaseLapses(m))

Spec == Init /\ [][Next]_vars
FairSpec == Spec /\ Fairness

-----------------------------------------------------------------------------
(* Properties *)

(* The effect of a handler is committed at most once per key, whatever     *)
(* leases are lost, processes killed and retries requested by hand.        *)
AppliedOnce == \A m \in Message : effects[m] <= 1

(* A message called DONE has its effect in the database. *)
DoneIsApplied == \A m \in Message : status[m] = "DONE" => effects[m] = 1

(* The retry budget: no message is tried again after its last attempt,     *)
(* and none is given up before unless the failure is permanent.            *)
RetryBudget ==
  \A m \in Message :
    /\ attempts[m] <= MaxAttempts
    /\ status[m] \in {"PENDING", "PROCESSING", "ERROR"} => attempts[m] < MaxAttempts

(* The fencing point: a verdict is written once per claim, on top of the   *)
(* attempts of that claim and within the limit, and another attempt is     *)
(* promised only while one is left; a worker that lost its lease changes   *)
(* nothing although it still remembers an older count.                     *)
EveryVerdictCounts ==
  [][\A m \in Message :
       status'[m] # status[m] /\ status'[m] \in {"DONE", "ERROR", "DEAD"}
         => /\ status[m] = "PROCESSING" /\ attempts'[m] = attempts[m] + 1
            /\ attempts'[m] <= MaxAttempts
            /\ status'[m] = "ERROR" => attempts'[m] < MaxAttempts]_vars

(* Every message is done or given up in the end. *)
Resolves ==
  \A m \in Message : (status[m] = "PENDING") ~> (status[m] \in {"DONE", "DEAD"})

(* stop() returns: the pass it waits for ends. *)
StopCompletes ==
  \A w \in Worker : (life[w] = "stopping") ~> (life[w] = "gone")

(* The outbox implements the promise of OnceQueue. *)
Verdict(m) ==
  CASE status[m] = "absent" -> "absent"
    [] status[m] = "DONE"   -> "done"
    [] status[m] = "DEAD"   -> "dead"
    [] OTHER                -> "waiting"

Promise == INSTANCE OnceQueue WITH
  verdict <- [m \in Message |-> Verdict(m)],
  applied <- {m \in Message : effects[m] > 0}

KeepsPromise == Promise!Spec
=============================================================================
