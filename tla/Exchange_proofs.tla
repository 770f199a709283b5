-------------------------- MODULE Exchange_proofs ---------------------------
(***************************************************************************)
(* Proofs about Geocoding, SourceSync, StateExport and PayoutImport, for   *)
(* every set of orders, documents, workers, files and people and for every *)
(* bound, and about the composition that is model-checked (MCExchange).    *)
(***************************************************************************)
EXTENDS MCExchange, CourierLedger_proofs

-----------------------------------------------------------------------------
(* Geocoding: types *)

Claims == [rest : SUBSET Job, cur : SUBSET Job, asked : MaybeAddress, on : BOOLEAN]

(* A job still open has an attempt left. *)
AttemptLeft == \A j \in Job : job[j].st \in {"PENDING", "PROCESSING"} => job[j].tries < MaxTries

GeoTyped == GeoTypeOK /\ AttemptLeft

(* The jobs' part of the types, by job. *)
JobsTyped ==
  /\ job \in [Job -> JobState]
  /\ AttemptLeft

LEMMA PointsAre ==
  /\ \A by \in {"photon", "suggestion", "manual"}, at \in MaybeAddress :
       Point("RESOLVED", by, at) \in Points
  /\ \A st \in {"UNRESOLVED", "PENDING", "NEEDS_REVIEW", "FAILED"} : NoPoint(st) \in Points
BY DEF Point, NoPoint, Points

LEMMA JobRecords ==
  /\ Unmade \in JobState /\ Fresh \in JobState
  /\ \A s \in JobState : Returned(s) \in JobState
<1>1. Unmade \in JobState /\ Fresh \in JobState
  BY GeoAssumption DEF Unmade, Fresh, JobState
<1>2. ASSUME NEW s \in JobState PROVE Returned(s) \in JobState
  BY DEF Returned, JobState
<1> QED BY <1>1, <1>2

LEMMA KeptBut ==
  ASSUME NEW s \in JobState, NEW b \in BOOLEAN
  PROVE  LET t == [s EXCEPT !.ripe = b] IN
         t \in JobState /\ t.st = s.st /\ t.tries = s.tries /\ t.by = s.by
BY DEF JobState

LEMMA RetriedRecord ==
  ASSUME NEW s \in JobState, s.tries + 1 < MaxTries
  PROVE  /\ TriedAgain(s) \in JobState
         /\ TriedAgain(s).st = "PENDING" /\ TriedAgain(s).tries < MaxTries
<1>1. s.tries + 1 \in 0..MaxTries
  BY GeoAssumption DEF JobState
<1> QED BY <1>1 DEF JobState, TriedAgain

LEMMA ClosedRecord ==
  ASSUME NEW st \in {"DONE", "FAILED"}, NEW n \in 0..MaxTries
  PROVE  [st |-> st, by |-> Unknown, tries |-> n, ripe |-> FALSE] \in JobState
BY DEF JobState

(* Closing a job that is in work. *)
LEMMA ClosedTyped ==
  ASSUME GeoTyped, NEW j \in Job, NEW st \in {"DONE", "FAILED"}, NEW n \in 0..MaxTries,
         job' = Closed(j, st, n)
  PROVE  JobsTyped'
<1> DEFINE C == [st |-> st, by |-> Unknown, tries |-> n, ripe |-> FALSE]
<1>1. C \in JobState /\ C.st = st
  BY ClosedRecord
<1>2. job' = [job EXCEPT ![j] = C]
  BY DEF Closed
<1>3. job \in [Job -> JobState]
  BY DEF GeoTyped, GeoTypeOK
<1> HIDE DEF C
<1>4. job' \in [Job -> JobState]
  BY <1>1, <1>2, <1>3
<1>5. \A i \in Job : job'[i] = IF i = j THEN C ELSE job[i]
  BY <1>2, <1>3
<1> QED BY <1>1, <1>4, <1>5 DEF JobsTyped, AttemptLeft, GeoTyped

LEMMA NextTry ==
  ASSUME GeoTyped, NEW j \in Job, job[j].st = "PROCESSING"
  PROVE  job[j].tries + 1 \in 0..MaxTries
BY GeoAssumption DEF GeoTyped, GeoTypeOK, AttemptLeft, JobState

LEMMA MarkTyped ==
  ASSUME GeoTyped, NEW w \in Geocoder, NEW j \in Job, MarkStale(w, j)
  PROVE  JobsTyped'
<1>1. CASE Owns(w, j)
  <2>1. job[j].tries + 1 \in 0..MaxTries
    BY <1>1, NextTry DEF Owns
  <2> QED BY <1>1, <2>1, ClosedTyped DEF MarkStale
<1>2. CASE ~Owns(w, j)
  BY <1>2 DEF MarkStale, GeoTyped, GeoTypeOK, JobsTyped, AttemptLeft
<1> QED BY <1>1, <1>2

(* Jobs given back keep their attempts. *)
LEMMA ReleasedTyped ==
  ASSUME GeoTyped, NEW w \in Geocoder, NEW js, job' = Released(w, js)
  PROVE  JobsTyped'
<1>1. \A i \in Job : Returned(job[i]) \in JobState
  BY JobRecords DEF GeoTyped, GeoTypeOK
<1>2. \A i \in Job : Returned(job[i]).tries = job[i].tries
  BY DEF GeoTyped, GeoTypeOK, JobState, Returned
<1>3. \A i \in Job : Owns(w, i) => job[i].tries < MaxTries
  BY DEF Owns, GeoTyped, AttemptLeft
<1> QED BY <1>1, <1>2, <1>3 DEF Released, JobsTyped, GeoTyped, GeoTypeOK, AttemptLeft

(* The orders' part and the worker's part of the types. *)
OrdersTyped ==
  /\ source \in [Order -> MaybeAddress] /\ local \in [Order -> MaybeAddress]
  /\ scope \in [Order -> {"ours", "away"}]
  /\ geo \in [Order -> Points] /\ gen \in [Order -> 0..MaxGen]

WorkersTyped ==
  /\ pass \in [Geocoder -> Claims]
  /\ passLock \in Geocoder \cup {Unknown}
  /\ provider \in {"open", "shut"}

LEMMA GeoTypedParts ==
  /\ GeoTyped <=> OrdersTyped /\ JobsTyped /\ WorkersTyped
  /\ GeoTyped' <=> OrdersTyped' /\ JobsTyped' /\ WorkersTyped'
BY DEF GeoTyped, GeoTypeOK, OrdersTyped, JobsTyped, WorkersTyped, Claims

LEMMA EnqueueTyped ==
  ASSUME GeoTyped, NEW o \in Order, NEW wanted \in BOOLEAN, NEW point \in Points,
         EnqueueGeocoding(o, wanted, point)
  PROVE  /\ geo' \in [Order -> Points] /\ gen' \in [Order -> 0..MaxGen]
         /\ JobsTyped'
<1> USE DEF EnqueueGeocoding
<1>0. OrdersTyped /\ JobsTyped
  BY GeoTypedParts
<1>1. CASE wanted
  <2>1. NoPoint("PENDING") \in Points
    BY PointsAre
  <2>2. geo' \in [Order -> Points]
    BY <1>0, <1>1, <2>1 DEF OrdersTyped
  <2>3. gen' \in [Order -> 0..MaxGen]
    BY <1>0, <1>1, GeoAssumption DEF OrdersTyped
  <2>4. <<o, gen[o] + 1>> \in Job
    BY <1>0, <1>1, GeoAssumption DEF OrdersTyped, Job, Gen
  <2>5. Fresh \in JobState /\ Fresh.tries < MaxTries
    <3>1. Fresh \in JobState
      BY JobRecords
    <3> QED BY <3>1, GeoAssumption DEF Fresh
  <2>6. job' = [job EXCEPT ![<<o, gen[o] + 1>>] = Fresh]
    BY <1>1
  <2>7. JobsTyped'
    <3> DEFINE k == <<o, gen[o] + 1>>
    <3>1. k \in Job /\ job' = [job EXCEPT ![k] = Fresh]
      BY <2>4, <2>6
    <3> HIDE DEF k
    <3>2. job' \in [Job -> JobState]
      BY <1>0, <2>5, <3>1 DEF JobsTyped
    <3>3. \A i \in Job : job'[i] = IF i = k THEN Fresh ELSE job[i]
      BY <1>0, <3>1 DEF JobsTyped
    <3> QED BY <1>0, <2>5, <3>2, <3>3 DEF JobsTyped, AttemptLeft
  <2> QED BY <2>2, <2>3, <2>7
<1>2. CASE ~wanted
  <2>1. geo' \in [Order -> Points]
    BY <1>0, <1>2 DEF OrdersTyped
  <2> QED BY <1>0, <1>2, <2>1 DEF OrdersTyped, JobsTyped, AttemptLeft
<1> QED BY <1>1, <1>2

LEMMA PassEnds ==
  ASSUME GeoTyped, NEW w \in Geocoder, EndPass(w)
  PROVE  pass' \in [Geocoder -> Claims] /\ passLock' \in Geocoder \cup {Unknown}
<1>1. NoPass \in Claims
  BY DEF NoPass, Claims, MaybeAddress
<1>2. WorkersTyped
  BY GeoTypedParts
<1> QED BY <1>1, <1>2 DEF EndPass, Freed, WorkersTyped

LEMMA PassProceeds ==
  ASSUME GeoTyped, NEW w \in Geocoder, NEW j \in Job, Proceed(w, j)
  PROVE  pass' \in [Geocoder -> Claims] /\ passLock' \in Geocoder \cup {Unknown}
<1>1. WorkersTyped
  BY GeoTypedParts
<1>2. CASE pass[w].rest = {j}
  BY <1>2, PassEnds DEF Proceed
<1>3. CASE pass[w].rest # {j}
  <2> DEFINE c == [on |-> TRUE, rest |-> pass[w].rest \ {j}, cur |-> {}, asked |-> Unknown]
  <2>1. pass[w].rest \in SUBSET Job
    BY <1>1 DEF WorkersTyped, Claims
  <2>2. c \in Claims
    BY <2>1 DEF Claims, MaybeAddress
  <2>3. pass' = [pass EXCEPT ![w] = c] /\ UNCHANGED passLock
    BY <1>3 DEF Proceed
  <2> HIDE DEF c
  <2> QED BY <1>1, <2>2, <2>3 DEF WorkersTyped
<1> QED BY <1>2, <1>3

LEMMA OrderStepTyped ==
  ASSUME GeoTyped, NEW o \in Order, NEW a \in MaybeAddress, NEW s \in {"ours", "away"},
         NEW exact \in BOOLEAN,
         \/ Import(o, a, s) \/ SourceMissing(o) \/ SetPoint(o) \/ ClearLocal(o) \/ Backfill(o)
         \/ SetLocal(o, a, exact)
  PROVE  GeoTyped'
<1>0. OrdersTyped /\ JobsTyped /\ WorkersTyped
  BY GeoTypedParts
<1>1. geo[o] \in Points /\ local[o] \in MaybeAddress /\ source[o] \in MaybeAddress
  BY <1>0 DEF OrdersTyped
<1>2. CASE Import(o, a, s)
  <2> DEFINE after == QueryOf(local[o], a)
             point == Invalidated(geo[o], Query(o), after)
             wanted == after # Query(o) /\ Geocodable(after, s, point)
  <2>1. point \in Points
    BY <1>1, PointsAre DEF Invalidated
  <2>2. EnqueueGeocoding(o, wanted, point) /\ wanted \in BOOLEAN
    BY <1>2 DEF Import
  <2> HIDE DEF wanted, point
  <2>3. geo' \in [Order -> Points] /\ gen' \in [Order -> 0..MaxGen] /\ JobsTyped'
    BY <2>1, <2>2, EnqueueTyped
  <2>4. OrdersTyped'
    BY <1>0, <1>2, <2>3 DEF Import, OrdersTyped
  <2>5. WorkersTyped'
    BY <1>0, <1>2 DEF Import, WorkersTyped, worker
  <2> QED BY <2>3, <2>4, <2>5, GeoTypedParts
<1>3. CASE SourceMissing(o)
  BY <1>0, <1>3, GeoTypedParts
     DEF SourceMissing, OrdersTyped, WorkersTyped, JobsTyped, AttemptLeft, worker
<1>4. CASE SetPoint(o)
  <2>1. Query(o) \in MaybeAddress
    BY <1>1 DEF Query, QueryOf
  <2>2. Point("RESOLVED", "manual", Query(o)) \in Points
    BY <2>1, PointsAre
  <2>3. geo' \in [Order -> Points]
    BY <1>0, <1>4, <2>2 DEF SetPoint, OrdersTyped
  <2>4. OrdersTyped'
    BY <1>0, <1>4, <2>3 DEF SetPoint, OrdersTyped, orderVars
  <2>5. JobsTyped' /\ WorkersTyped'
    BY <1>0, <1>4 DEF SetPoint, JobsTyped, AttemptLeft, WorkersTyped, worker
  <2> QED BY <2>4, <2>5, GeoTypedParts
<1>5. CASE ClearLocal(o)
  <2> DEFINE wanted == Geocodable(source[o], scope[o], NoPoint("NEEDS_REVIEW"))
  <2>1. EnqueueGeocoding(o, wanted, NoPoint("NEEDS_REVIEW")) /\ wanted \in BOOLEAN
    BY <1>5 DEF ClearLocal, Geocodable
  <2> HIDE DEF wanted
  <2>2. NoPoint("NEEDS_REVIEW") \in Points
    BY PointsAre
  <2>3. geo' \in [Order -> Points] /\ gen' \in [Order -> 0..MaxGen] /\ JobsTyped'
    BY <2>1, <2>2, EnqueueTyped
  <2>4. OrdersTyped' /\ WorkersTyped'
    BY <1>0, <1>5, <2>3 DEF ClearLocal, OrdersTyped, WorkersTyped, worker, MaybeAddress
  <2> QED BY <2>3, <2>4, GeoTypedParts
<1>6. CASE Backfill(o)
  <2>1. geo' \in [Order -> Points] /\ gen' \in [Order -> 0..MaxGen] /\ JobsTyped'
    BY <1>1, <1>6, EnqueueTyped DEF Backfill
  <2>2. OrdersTyped' /\ WorkersTyped'
    BY <1>0, <1>6, <2>1 DEF Backfill, OrdersTyped, WorkersTyped, worker, orderVars
  <2> QED BY <2>1, <2>2, GeoTypedParts
<1>7. CASE SetLocal(o, a, exact)
  <2> DEFINE point == IF exact THEN Point("RESOLVED", "suggestion", a) ELSE NoPoint("NEEDS_REVIEW")
             wanted == ~exact /\ Geocodable(a, scope[o], point)
  <2>1. point \in Points
    BY PointsAre
  <2>2. EnqueueGeocoding(o, wanted, point) /\ wanted \in BOOLEAN
    BY <1>7 DEF SetLocal
  <2> HIDE DEF wanted, point
  <2>3. geo' \in [Order -> Points] /\ gen' \in [Order -> 0..MaxGen] /\ JobsTyped'
    BY <2>1, <2>2, EnqueueTyped
  <2>4. OrdersTyped' /\ WorkersTyped'
    BY <1>0, <1>7, <2>3 DEF SetLocal, OrdersTyped, WorkersTyped, worker
  <2> QED BY <2>3, <2>4, GeoTypedParts
<1> QED BY <1>2, <1>3, <1>4, <1>5, <1>6, <1>7

LEMMA BeginTyped ==
  ASSUME GeoTyped, NEW w \in Geocoder, NEW j \in Job, Begin(w, j)
  PROVE  GeoTyped'
<1>0. OrdersTyped /\ JobsTyped /\ WorkersTyped
  BY GeoTypedParts
<1>1. OrdersTyped'
  BY <1>0 DEF Begin, OrdersTyped, orderVars
<1>2. CASE MarkStale(w, j) /\ Proceed(w, j) /\ UNCHANGED provider
  BY <1>0, <1>1, <1>2, MarkTyped, PassProceeds, GeoTypedParts DEF WorkersTyped
<1>3. CASE job' = Released(w, pass[w].rest) /\ EndPass(w) /\ UNCHANGED provider
  BY <1>0, <1>1, <1>3, ReleasedTyped, PassEnds, GeoTypedParts DEF WorkersTyped
<1>4. CASE /\ pass' = [pass EXCEPT ![w] = [@ EXCEPT !.cur = {j}, !.asked = Query(j[1])]]
           /\ UNCHANGED <<job, passLock, provider>>
  <2>1. j[1] \in Order
    BY DEF Job
  <2>2. Query(j[1]) \in MaybeAddress
    BY <1>0, <2>1 DEF Query, QueryOf, OrdersTyped
  <2>3. pass' \in [Geocoder -> Claims]
    BY <1>0, <1>4, <2>2 DEF WorkersTyped, Claims
  <2> QED BY <1>0, <1>1, <1>4, <2>3, GeoTypedParts DEF WorkersTyped, JobsTyped, AttemptLeft
<1> QED BY <1>2, <1>3, <1>4 DEF Begin

LEMMA ApplyTyped ==
  ASSUME GeoTyped, NEW w \in Geocoder, NEW j \in Job, NEW found \in BOOLEAN, Apply(w, j, found)
  PROVE  GeoTyped'
<1>0. OrdersTyped /\ JobsTyped /\ WorkersTyped
  BY GeoTypedParts
<1>1. WorkersTyped'
  BY <1>0, PassProceeds DEF Apply, WorkersTyped
<1>2. CASE Stale(j, pass[w].asked)
  BY <1>0, <1>1, <1>2, MarkTyped, GeoTypedParts DEF Apply, OrdersTyped, orderVars
<1>3. CASE ~Stale(j, pass[w].asked) /\ Owns(w, j)
  <2> DEFINE p == IF found THEN Point("RESOLVED", "photon", pass[w].asked) ELSE NoPoint("NEEDS_REVIEW")
  <2>1. pass[w].asked \in MaybeAddress
    BY <1>0 DEF WorkersTyped, Claims
  <2>2. p \in Points
    BY <2>1, PointsAre
  <2>3. geo' = [geo EXCEPT ![j[1]] = p] /\ job' = Closed(j, "DONE", job[j].tries + 1)
    BY <1>3 DEF Apply
  <2> HIDE DEF p
  <2>4. OrdersTyped'
    BY <1>0, <2>2, <2>3 DEF Apply, OrdersTyped, orderVars
  <2>5. JobsTyped'
    BY <1>3, <2>3, NextTry, ClosedTyped DEF Owns
  <2> QED BY <1>1, <2>4, <2>5, GeoTypedParts
<1>4. CASE ~Stale(j, pass[w].asked) /\ ~Owns(w, j)
  BY <1>0, <1>1, <1>4, GeoTypedParts
     DEF Apply, OrdersTyped, orderVars, JobsTyped, AttemptLeft
<1> QED BY <1>2, <1>3, <1>4

LEMMA FailConfigTyped ==
  ASSUME GeoTyped, NEW w \in Geocoder, NEW j \in Job, FailConfig(w, j)
  PROVE  GeoTyped'
<1>0. OrdersTyped /\ JobsTyped /\ WorkersTyped
  BY GeoTypedParts
<1>1. WorkersTyped'
  BY <1>0, PassEnds DEF FailConfig, WorkersTyped
<1>2. JobsTyped'
  BY ReleasedTyped DEF FailConfig
<1>3. OrdersTyped'
  BY <1>0 DEF FailConfig, OrdersTyped, orderVars
<1> QED BY <1>1, <1>2, <1>3, GeoTypedParts

(* The jobs after a failed request: the failed one as retried or closed,   *)
(* the others of the pass given back.                                      *)
LEMMA OthersReturned ==
  ASSUME GeoTyped, NEW w \in Geocoder, NEW j \in Job, NEW js,
         NEW f \in [Job -> JobState],
         \A i \in Job : f[i].st \in {"PENDING", "PROCESSING"} => f[i].tries < MaxTries,
         job' = [i \in Job |-> IF i # j /\ i \in js /\ Owns(w, i) THEN Returned(job[i]) ELSE f[i]]
  PROVE  JobsTyped'
<1>1. \A i \in Job : Returned(job[i]) \in JobState
  BY JobRecords DEF GeoTyped, GeoTypeOK
<1>2. \A i \in Job : Returned(job[i]).tries = job[i].tries
  BY DEF GeoTyped, GeoTypeOK, JobState, Returned
<1>3. \A i \in Job : Owns(w, i) => job[i].tries < MaxTries
  BY DEF Owns, GeoTyped, AttemptLeft
<1> QED BY <1>1, <1>2, <1>3 DEF JobsTyped, AttemptLeft

LEMMA RetriedTyped ==
  ASSUME GeoTyped, NEW w \in Geocoder, NEW j \in Job,
         job[j].tries + 1 < MaxTries \/ ~Owns(w, j)
  PROVE  /\ Retried(w, j) \in [Job -> JobState]
         /\ \A i \in Job : Retried(w, j)[i].st \in {"PENDING", "PROCESSING"}
                           => Retried(w, j)[i].tries < MaxTries
         /\ \A i \in Job : i # j => Retried(w, j)[i] = job[i]
<1>0. JobsTyped
  BY GeoTypedParts
<1> DEFINE again == TriedAgain(job[j])
<1>1. Owns(w, j) => again \in JobState /\ again.tries < MaxTries
  BY <1>0, RetriedRecord DEF JobsTyped
<1>2. Retried(w, j) = IF Owns(w, j) THEN [job EXCEPT ![j] = again] ELSE job
  BY DEF Retried
<1>3. ~Owns(w, j) => Retried(w, j) = job
  BY DEF Retried
<1> HIDE DEF again
<1>4. CASE Owns(w, j)
  <2>1. Retried(w, j) = [job EXCEPT ![j] = again]
    BY <1>2, <1>4
  <2>2. Retried(w, j) \in [Job -> JobState]
    BY <1>0, <1>1, <1>4, <2>1 DEF JobsTyped
  <2>3. \A i \in Job : Retried(w, j)[i] = IF i = j THEN again ELSE job[i]
    BY <1>0, <2>1 DEF JobsTyped
  <2> QED BY <1>0, <1>1, <1>4, <2>2, <2>3 DEF JobsTyped, AttemptLeft
<1> QED BY <1>0, <1>3, <1>4 DEF JobsTyped, AttemptLeft

LEMMA FailRetryTyped ==
  ASSUME GeoTyped, NEW w \in Geocoder, NEW j \in Job, NEW outage \in BOOLEAN,
         FailRetry(w, j, outage)
  PROVE  GeoTyped'
<1>0. OrdersTyped /\ JobsTyped /\ WorkersTyped
  BY GeoTypedParts
<1>1. OrdersTyped'
  BY <1>0 DEF FailRetry, OrdersTyped, orderVars
<1>2. WorkersTyped'
  BY <1>0, PassEnds, PassProceeds DEF FailRetry, WorkersTyped
<1>a. /\ Retried(w, j) \in [Job -> JobState]
      /\ \A i \in Job : Retried(w, j)[i].st \in {"PENDING", "PROCESSING"}
                        => Retried(w, j)[i].tries < MaxTries
  BY RetriedTyped DEF FailRetry
<1>3. CASE outage
  <2>1. job' = [i \in Job |-> IF i # j /\ i \in pass[w].rest /\ Owns(w, i)
                               THEN Returned(job[i]) ELSE Retried(w, j)[i]]
    BY <1>3 DEF FailRetry
  <2>2. JobsTyped'
    BY <1>a, <2>1, OthersReturned
  <2> QED BY <1>1, <1>2, <2>2, GeoTypedParts
<1>4. CASE ~outage
  <2>1. job' = Retried(w, j)
    BY <1>4 DEF FailRetry
  <2>2. JobsTyped'
    BY <1>a, <2>1 DEF JobsTyped, AttemptLeft
  <2> QED BY <1>1, <1>2, <2>2, GeoTypedParts
<1> QED BY <1>3, <1>4

LEMMA FailOrderTyped ==
  ASSUME GeoTyped, NEW w \in Geocoder, NEW j \in Job, NEW outage \in BOOLEAN,
         FailOrder(w, j, outage)
  PROVE  GeoTyped'
<1> DEFINE stale == Stale(j, pass[w].asked)
           end == [st |-> IF stale THEN "DONE" ELSE "FAILED", by |-> Unknown,
                   tries |-> MaxTries, ripe |-> FALSE]
           closed == IF Owns(w, j) THEN [job EXCEPT ![j] = end] ELSE job
<1>0. OrdersTyped /\ JobsTyped /\ WorkersTyped
  BY GeoTypedParts
<1>1. OrdersTyped'
  <2>1. NoPoint("FAILED") \in Points
    BY PointsAre
  <2> QED BY <1>0, <2>1 DEF FailOrder, OrdersTyped, orderVars
<1>2. WorkersTyped'
  BY <1>0, PassEnds, PassProceeds DEF FailOrder, WorkersTyped
<1>3. end \in JobState /\ end.st \in {"DONE", "FAILED"}
  BY GeoAssumption DEF JobState
<1>4. \/ UNCHANGED job
      \/ job' = [i \in Job |-> IF i # j /\ i \in pass[w].rest /\ Owns(w, i)
                                 THEN Returned(job[i]) ELSE closed[i]]
      \/ job' = closed
  BY DEF FailOrder, Closed
<1> HIDE DEF end
<1>5. closed \in [Job -> JobState]
  BY <1>0, <1>3 DEF JobsTyped
<1>6. \A i \in Job : closed[i].st \in {"PENDING", "PROCESSING"} => closed[i].tries < MaxTries
  BY <1>0, <1>3 DEF JobsTyped, AttemptLeft
<1> HIDE DEF closed
<1>7. JobsTyped'
  <2>1. CASE UNCHANGED job
    BY <1>0, <2>1 DEF JobsTyped, AttemptLeft
  <2>2. CASE job' = closed
    BY <1>5, <1>6, <2>2 DEF JobsTyped, AttemptLeft
  <2>3. CASE job' = [i \in Job |-> IF i # j /\ i \in pass[w].rest /\ Owns(w, i)
                                    THEN Returned(job[i]) ELSE closed[i]]
    BY <1>5, <1>6, <2>3, OthersReturned
  <2> QED BY <1>4, <2>1, <2>2, <2>3
<1> QED BY <1>1, <1>2, <1>7, GeoTypedParts

(* The steps of a worker that end no job, and those of the clock.          *)
LEMMA ClockTyped ==
  ASSUME GeoTyped,
         \/ \E w \in Geocoder : Crash(w) \/ LockLost(w) \/ Renew(w)
         \/ \E j \in Job : JobLeaseLapses(j) \/ FallsDue(j)
         \/ ProviderOpens
  PROVE  GeoTyped'
<1>0. OrdersTyped /\ JobsTyped /\ WorkersTyped
  BY GeoTypedParts
<1>1. ASSUME NEW w \in Geocoder, Crash(w) PROVE GeoTyped'
  BY <1>0, <1>1, PassEnds, GeoTypedParts
     DEF Crash, OrdersTyped, orderVars, WorkersTyped, JobsTyped, AttemptLeft
<1>2. ASSUME NEW w \in Geocoder, LockLost(w) PROVE GeoTyped'
  BY <1>0, <1>2, GeoTypedParts
     DEF LockLost, OrdersTyped, orderVars, WorkersTyped, JobsTyped, AttemptLeft
<1>3. ASSUME NEW w \in Geocoder, Renew(w) PROVE GeoTyped'
  <2> DEFINE unripe == {i \in pass[w].rest : Owns(w, i) /\ job[i].ripe}
  <2>1. job' = [i \in Job |-> IF i \in unripe THEN [job[i] EXCEPT !.ripe = FALSE] ELSE job[i]]
    BY <1>3 DEF Renew
  <2> HIDE DEF unripe
  <2>2. JobsTyped'
    BY <1>0, <2>1, KeptBut DEF JobsTyped, AttemptLeft
  <2> QED BY <1>0, <1>3, <2>2, GeoTypedParts
          DEF Renew, OrdersTyped, orderVars, WorkersTyped, worker
<1>4. ASSUME NEW j \in Job, JobLeaseLapses(j) \/ FallsDue(j) PROVE GeoTyped'
  <2>1. job' = [job EXCEPT ![j] = [job[j] EXCEPT !.ripe = TRUE]]
    BY <1>4 DEF JobLeaseLapses, FallsDue
  <2>2. JobsTyped'
    BY <1>0, <2>1, KeptBut DEF JobsTyped, AttemptLeft
  <2> QED BY <1>0, <1>4, <2>2, GeoTypedParts
          DEF JobLeaseLapses, FallsDue, OrdersTyped, orderVars, WorkersTyped, worker
<1>5. CASE ProviderOpens
  BY <1>0, <1>5, GeoTypedParts
     DEF ProviderOpens, OrdersTyped, orderVars, WorkersTyped, JobsTyped, AttemptLeft
<1> QED BY <1>1, <1>2, <1>3, <1>4, <1>5

LEMMA StartTyped ==
  ASSUME GeoTyped, NEW w \in Geocoder, StartPass(w)
  PROVE  GeoTyped'
<1> DEFINE mine == {j \in Job : job[j].st \in {"PENDING", "PROCESSING"} /\ job[j].ripe}
           begun == [NoPass EXCEPT !.on = TRUE, !.rest = mine]
<1>0. OrdersTyped /\ JobsTyped /\ WorkersTyped
  BY GeoTypedParts
<1>1. begun \in Claims
  BY DEF NoPass, Claims, MaybeAddress
<1>2. /\ pass' = [pass EXCEPT ![w] = begun] /\ passLock' = w /\ UNCHANGED provider
  BY DEF StartPass
<1>3. WorkersTyped'
  <2> HIDE DEF begun
  <2> QED BY <1>0, <1>1, <1>2 DEF WorkersTyped
<1>4. \A i \in mine : i \in Job /\ job[i].tries < MaxTries
  BY <1>0 DEF JobsTyped, AttemptLeft
<1>5. job' = [i \in Job |-> IF i \in mine
                THEN [job[i] EXCEPT !.st = "PROCESSING", !.by = w, !.ripe = FALSE] ELSE job[i]]
  BY DEF StartPass
<1> HIDE DEF mine
<1>6. \A i \in Job :
        LET taken == [job[i] EXCEPT !.st = "PROCESSING", !.by = w, !.ripe = FALSE] IN
        taken \in JobState /\ taken.tries = job[i].tries
  BY <1>0 DEF JobsTyped, JobState
<1>7. JobsTyped'
  BY <1>0, <1>4, <1>5, <1>6 DEF JobsTyped, AttemptLeft
<1>8. OrdersTyped'
  BY <1>0 DEF StartPass, OrdersTyped, orderVars
<1> QED BY <1>3, <1>7, <1>8, GeoTypedParts

LEMMA GeoTypesBegin == GeoInit => GeoTyped
<1> SUFFICES ASSUME GeoInit PROVE GeoTyped
  OBVIOUS
<1>1. OrdersTyped
  <2>1. \A o \in Order : geo[o] \in Points
    BY PointsAre DEF GeoInit
  <2> QED BY <2>1, GeoAssumption DEF GeoInit, OrdersTyped, MaybeAddress
<1>2. JobsTyped
  <2>1. Unmade \in JobState /\ Fresh \in JobState
    BY JobRecords
  <2>2. Fresh.tries < MaxTries /\ Unmade.st = "none"
    BY GeoAssumption DEF Fresh, Unmade
  <2>3. \A i \in Job : job[i] \in {Fresh, Unmade}
    BY DEF GeoInit
  <2>4. job \in [Job -> JobState]
    BY <2>1, <2>3 DEF GeoInit
  <2> QED BY <2>2, <2>3, <2>4 DEF JobsTyped, AttemptLeft
<1>3. WorkersTyped
  BY DEF GeoInit, WorkersTyped, NoPass, Claims, MaybeAddress
<1> QED BY <1>1, <1>2, <1>3, GeoTypedParts

LEMMA GeoTypedStep == GeoTyped /\ [GeoNext]_geoVars => GeoTyped'
<1> SUFFICES ASSUME GeoTyped, [GeoNext]_geoVars PROVE GeoTyped'
  OBVIOUS
<1>1. CASE UNCHANGED geoVars
  BY <1>1 DEF geoVars, orderVars, worker, GeoTyped, GeoTypeOK, AttemptLeft
<1>2. CASE GeoNext
  <2> Unknown \in MaybeAddress
    BY DEF MaybeAddress
  <2>1. ASSUME NEW o \in Order, NEW a \in MaybeAddress, NEW s \in {"ours", "away"}, Import(o, a, s)
        PROVE  GeoTyped'
    BY <2>1, OrderStepTyped
  <2>2. ASSUME NEW o \in Order, SourceMissing(o) \/ SetPoint(o) \/ ClearLocal(o) \/ Backfill(o)
        PROVE  GeoTyped'
    BY <2>2, OrderStepTyped
  <2>3. ASSUME NEW o \in Order, NEW a \in Address, NEW exact \in BOOLEAN, SetLocal(o, a, exact)
        PROVE  GeoTyped'
    BY <2>3, OrderStepTyped DEF MaybeAddress
  <2>4. ASSUME NEW w \in Geocoder, NEW j \in Job,
               \/ Begin(w, j) \/ FailConfig(w, j)
               \/ \E b \in BOOLEAN : Apply(w, j, b) \/ FailRetry(w, j, b) \/ FailOrder(w, j, b)
        PROVE  GeoTyped'
    BY <2>4, BeginTyped, ApplyTyped, FailConfigTyped, FailRetryTyped, FailOrderTyped
  <2> QED BY <1>2, <2>1, <2>2, <2>3, <2>4, StartTyped, ClockTyped DEF GeoNext
<1> QED BY <1>1, <1>2

(* Types of orders, jobs and workers; a job still open has an attempt left. *)
THEOREM GeoTypeCorrect == GeoSpec => []GeoTyped
BY GeoTypesBegin, GeoTypedStep, PTL DEF GeoSpec

-----------------------------------------------------------------------------
(* Geocoding: what an answer may change *)

LEMMA PointFields ==
  /\ \A st, by, at : /\ Point(st, by, at).st = st
                    /\ Point(st, by, at).by = by
                    /\ Point(st, by, at).at = at
  /\ \A st : NoPoint(st).st = st /\ NoPoint(st).by = "none"
BY DEF Point, NoPoint

(* What EnqueueGeocoding leaves of a point that fits the query to come.    *)
LEMMA EnqueuedFits ==
  ASSUME OrdersTyped, NEW o \in Order, NEW wanted, NEW point, EnqueueGeocoding(o, wanted, point),
         NEW q, point.st = "RESOLVED" => point.at = q
  PROVE  /\ geo'[o].st = "RESOLVED" => geo'[o].at = q
         /\ \A p \in Order : p # o => geo'[p] = geo[p]
<1>1. geo \in [Order -> Points]
  BY DEF OrdersTyped
<1>2. NoPoint("PENDING").st # "RESOLVED"
  BY PointFields
<1>3. CASE wanted
  <2>1. geo' = [geo EXCEPT ![o] = NoPoint("PENDING")]
    BY <1>3 DEF EnqueueGeocoding
  <2> QED BY <1>1, <1>2, <2>1
<1>4. CASE ~wanted
  <2>1. geo' = [geo EXCEPT ![o] = point]
    BY <1>4 DEF EnqueueGeocoding
  <2> QED BY <1>1, <2>1
<1> QED BY <1>3, <1>4

LEMMA QueryOfOthers ==
  ASSUME OrdersTyped, NEW p \in Order,
         source'[p] = source[p], local'[p] = local[p]
  PROVE  Query(p)' = Query(p)
BY DEF Query, QueryOf

LEMMA ImportFits ==
  ASSUME OrdersTyped, PointIsForQuery, NEW o \in Order, NEW a \in MaybeAddress,
         NEW s \in {"ours", "away"}, Import(o, a, s)
  PROVE  PointIsForQuery'
<1> DEFINE after == QueryOf(local[o], a)
           point == Invalidated(geo[o], Query(o), after)
           wanted == after # Query(o) /\ Geocodable(after, s, point)
<1>1. EnqueueGeocoding(o, wanted, point)
  BY DEF Import
<1>2. point.st = "RESOLVED" => point.at = after
  BY PointFields DEF Invalidated, PointIsForQuery
<1>3. source' = [source EXCEPT ![o] = a] /\ UNCHANGED local
  BY DEF Import
<1>4. Query(o)' = after
  BY <1>3 DEF OrdersTyped, Query
<1>5. \A p \in Order : p # o => Query(p)' = Query(p)
  BY <1>3, QueryOfOthers DEF OrdersTyped
<1> HIDE DEF after, point, wanted
<1>6. /\ geo'[o].st = "RESOLVED" => geo'[o].at = after
      /\ \A p \in Order : p # o => geo'[p] = geo[p]
  BY <1>1, <1>2, EnqueuedFits
<1> QED BY <1>4, <1>5, <1>6 DEF PointIsForQuery

LEMMA LocalFits ==
  ASSUME OrdersTyped, PointIsForQuery, NEW o \in Order, NEW a \in Address,
         NEW exact \in BOOLEAN, SetLocal(o, a, exact)
  PROVE  PointIsForQuery'
<1> DEFINE point == IF exact THEN Point("RESOLVED", "suggestion", a) ELSE NoPoint("NEEDS_REVIEW")
           wanted == ~exact /\ Geocodable(a, scope[o], point)
<1>1. EnqueueGeocoding(o, wanted, point)
  BY DEF SetLocal
<1>2. point.st = "RESOLVED" => point.at = a
  BY PointFields
<1>3. local' = [local EXCEPT ![o] = a] /\ UNCHANGED source
  BY DEF SetLocal
<1>4. Query(o)' = a
  BY <1>3, GeoAssumption DEF OrdersTyped, Query, QueryOf
<1>5. \A p \in Order : p # o => Query(p)' = Query(p)
  BY <1>3, QueryOfOthers DEF OrdersTyped
<1> HIDE DEF point, wanted
<1>6. /\ geo'[o].st = "RESOLVED" => geo'[o].at = a
      /\ \A p \in Order : p # o => geo'[p] = geo[p]
  BY <1>1, <1>2, EnqueuedFits
<1> QED BY <1>4, <1>5, <1>6 DEF PointIsForQuery

LEMMA OrderStepFits ==
  ASSUME OrdersTyped, PointIsForQuery, NEW o \in Order,
         SourceMissing(o) \/ SetPoint(o) \/ ClearLocal(o) \/ Backfill(o)
  PROVE  PointIsForQuery'
<1>1. CASE SourceMissing(o)
  BY <1>1 DEF SourceMissing, PointIsForQuery, Query
<1>2. CASE SetPoint(o)
  <2>1. \A p \in Order : Query(p)' = Query(p)
    BY <1>2 DEF SetPoint, orderVars, Query
  <2>2. geo' = [geo EXCEPT ![o] = Point("RESOLVED", "manual", Query(o))]
    BY <1>2 DEF SetPoint
  <2> QED BY <2>1, <2>2, PointFields DEF OrdersTyped, PointIsForQuery
<1>3. CASE ClearLocal(o)
  <2>1. \A p \in Order : p # o => Query(p)' = Query(p)
    BY <1>3, QueryOfOthers DEF ClearLocal, OrdersTyped
  <2>2. /\ geo'[o].st = "RESOLVED" => geo'[o].at = Query(o)'
        /\ \A p \in Order : p # o => geo'[p] = geo[p]
    <3> DEFINE wanted == Geocodable(source[o], scope[o], NoPoint("NEEDS_REVIEW"))
    <3>1. EnqueueGeocoding(o, wanted, NoPoint("NEEDS_REVIEW"))
      BY <1>3 DEF ClearLocal
    <3>2. NoPoint("NEEDS_REVIEW").st # "RESOLVED"
      BY PointFields
    <3> HIDE DEF wanted
    <3> QED BY <3>1, <3>2, EnqueuedFits
  <2> QED BY <2>1, <2>2 DEF PointIsForQuery
<1>4. CASE Backfill(o)
  <2>1. \A p \in Order : Query(p)' = Query(p)
    BY <1>4 DEF Backfill, orderVars, Query
  <2>2. /\ geo'[o].st = "RESOLVED" => geo'[o].at = Query(o)
        /\ \A p \in Order : p # o => geo'[p] = geo[p]
    BY <1>4, EnqueuedFits DEF Backfill, PointIsForQuery
  <2> QED BY <2>1, <2>2 DEF PointIsForQuery
<1> QED BY <1>1, <1>2, <1>3, <1>4

(* No step of a worker or of the clock touches a query, and the only point *)
(* it finds is of the query it asked for, unless the order is stale.       *)
LEMMA WorkerFits ==
  ASSUME OrdersTyped, PointIsForQuery, UNCHANGED orderVars,
         NEW j \in Job, NEW w \in Geocoder, NEW b \in BOOLEAN,
         Apply(w, j, b) \/ FailOrder(w, j, b)
  PROVE  PointIsForQuery'
<1>1. \A p \in Order : Query(p)' = Query(p)
  BY DEF orderVars, Query
<1>2. j[1] \in Order
  BY DEF Job
<1>3. CASE Apply(w, j, b)
  <2>1. CASE UNCHANGED geo
    BY <1>1, <2>1 DEF PointIsForQuery
  <2>2. CASE ~UNCHANGED geo
    <3> DEFINE p == IF b THEN Point("RESOLVED", "photon", pass[w].asked) ELSE NoPoint("NEEDS_REVIEW")
    <3>1. Query(j[1]) = pass[w].asked
      BY <1>3, <2>2 DEF Apply, Stale
    <3>2. geo' = [geo EXCEPT ![j[1]] = p]
      BY <1>3, <2>2 DEF Apply
    <3>3. p.st = "RESOLVED" => p.at = pass[w].asked
      BY PointFields
    <3> HIDE DEF p
    <3> QED BY <1>1, <1>2, <3>1, <3>2, <3>3 DEF OrdersTyped, PointIsForQuery
  <2> QED BY <2>1, <2>2
<1>4. CASE FailOrder(w, j, b)
  <2>1. NoPoint("FAILED").st # "RESOLVED"
    BY PointFields
  <2>2. geo' = [geo EXCEPT ![j[1]] = NoPoint("FAILED")] \/ UNCHANGED geo
    BY <1>4 DEF FailOrder
  <2> QED BY <1>1, <1>2, <2>1, <2>2 DEF OrdersTyped, PointIsForQuery
<1> QED BY <1>3, <1>4

(* A point belongs to the query the order has now, however late the answer *)
(* of the geocoder came (applyResult, staleReason,                         *)
(* invalidateGeoOnAddressChange).                                          *)
THEOREM PointFitsQuery == GeoSpec => []PointIsForQuery
<1>1. GeoInit => PointIsForQuery
  <2> SUFFICES ASSUME GeoInit, NEW o \in Order PROVE geo[o].st # "RESOLVED"
    BY DEF PointIsForQuery
  <2> QED BY PointFields DEF GeoInit
<1>2. GeoTyped /\ PointIsForQuery /\ [GeoNext]_geoVars => PointIsForQuery'
  <2> SUFFICES ASSUME GeoTyped, PointIsForQuery, [GeoNext]_geoVars PROVE PointIsForQuery'
    OBVIOUS
  <2>0. OrdersTyped
    BY GeoTypedParts
  <2>1. CASE UNCHANGED <<orderVars, geo>>
    BY <2>1 DEF orderVars, PointIsForQuery, Query
  <2>2. ASSUME NEW w \in Geocoder, NEW j \in Job, NEW b \in BOOLEAN,
               Apply(w, j, b) \/ FailOrder(w, j, b)
        PROVE  PointIsForQuery'
    <3>1. UNCHANGED orderVars
      BY <2>2 DEF Apply, FailOrder
    <3> QED BY <2>0, <2>2, <3>1, WorkerFits
  <2>3. ASSUME NEW w \in Geocoder,
               \/ StartPass(w) \/ Crash(w) \/ LockLost(w) \/ Renew(w)
               \/ \E j \in Job : \/ Begin(w, j) \/ FailConfig(w, j)
                                \/ \E b \in BOOLEAN : FailRetry(w, j, b)
        PROVE  UNCHANGED <<orderVars, geo>>
    BY <2>3 DEF StartPass, Crash, LockLost, Renew, Begin, FailConfig, FailRetry
  <2>4. ASSUME NEW j \in Job, JobLeaseLapses(j) \/ FallsDue(j) PROVE UNCHANGED <<orderVars, geo>>
    BY <2>4 DEF JobLeaseLapses, FallsDue
  <2>5. CASE ProviderOpens \/ UNCHANGED geoVars
    BY <2>1, <2>5 DEF ProviderOpens, geoVars
  <2> QED
    BY <2>0, <2>1, <2>2, <2>3, <2>4, <2>5, ImportFits, LocalFits, OrderStepFits DEF GeoNext
<1> QED BY <1>1, <1>2, GeoTypeCorrect, PTL DEF GeoSpec

(* No worker replaces or drops a point that a person has set (staleReason, *)
(* read once more with the order's row locked).                            *)
THEOREM ManualPointIsKept == GeoSpec => ManualPointStays
<1> DEFINE Kept == \A o \in Order : geo[o].by = "manual" /\ geo'[o] # geo[o] => UNCHANGED pass
<1>1. GeoTyped /\ [GeoNext]_geoVars => Kept
  <2> SUFFICES ASSUME GeoTyped, [GeoNext]_geoVars,
                      NEW o \in Order, geo[o].by = "manual", geo'[o] # geo[o]
               PROVE  UNCHANGED pass
    OBVIOUS
  <2>0. OrdersTyped
    BY GeoTypedParts
  <2>1. ASSUME NEW p \in Order,
               \/ \E a \in MaybeAddress, s \in {"ours", "away"} : Import(p, a, s)
               \/ SourceMissing(p) \/ SetPoint(p) \/ ClearLocal(p) \/ Backfill(p)
               \/ \E a \in Address, exact \in BOOLEAN : SetLocal(p, a, exact)
        PROVE  UNCHANGED pass
    BY <2>1 DEF Import, SourceMissing, SetPoint, ClearLocal, Backfill, SetLocal, worker
  <2>2. ASSUME NEW w \in Geocoder, NEW j \in Job, NEW b \in BOOLEAN,
               Apply(w, j, b) \/ FailOrder(w, j, b)
        PROVE  FALSE
    <3>1. j[1] = o
      BY <2>0, <2>2 DEF Apply, FailOrder, OrdersTyped
    <3>2. Stale(j, pass[w].asked)
      BY <3>1 DEF Stale
    <3> QED BY <2>2, <3>2 DEF Apply, FailOrder
  <2>3. ASSUME NEW w \in Geocoder,
               \/ StartPass(w) \/ Crash(w) \/ LockLost(w) \/ Renew(w)
               \/ \E j \in Job : \/ Begin(w, j) \/ FailConfig(w, j)
                                \/ \E b \in BOOLEAN : FailRetry(w, j, b)
        PROVE  UNCHANGED geo
    BY <2>3 DEF StartPass, Crash, LockLost, Renew, Begin, FailConfig, FailRetry
  <2>4. ASSUME NEW j \in Job, JobLeaseLapses(j) \/ FallsDue(j) PROVE UNCHANGED geo
    BY <2>4 DEF JobLeaseLapses, FallsDue
  <2>5. CASE ProviderOpens \/ UNCHANGED geoVars
    BY <2>5 DEF ProviderOpens, geoVars
  <2> QED BY <2>1, <2>2, <2>3, <2>4, <2>5 DEF GeoNext
<1> QED BY <1>1, GeoTypeCorrect, PTL DEF GeoSpec, ManualPointStays

-----------------------------------------------------------------------------
(* Geocoding: an answer and the end of its job *)

GivenUp(r) == r.st = "FAILED" /\ r.tries = MaxTries

(* As AnswerClosesJob; the job exists. *)
Answered(o) ==
  /\ geo[o].by = "photon" => gen[o] \in Gen /\ job[<<o, gen[o]>>].st = "DONE"
  /\ geo[o].st = "FAILED" => gen[o] \in Gen /\ GivenUp(job[<<o, gen[o]>>])

EveryAnswer == \A o \in Order : Answered(o)

(* A change of the order keeps an answer only with the order's generation. *)
LEMMA EnqueuedAnswered ==
  ASSUME OrdersTyped, JobsTyped, EveryAnswer, NEW o \in Order, NEW wanted, NEW point,
         EnqueueGeocoding(o, wanted, point),
         point.by = "photon" \/ point.st = "FAILED" => point = geo[o]
  PROVE  EveryAnswer'
<1>1. CASE ~wanted
  <2>1. geo' = [geo EXCEPT ![o] = point] /\ UNCHANGED <<gen, job>>
    BY <1>1 DEF EnqueueGeocoding
  <2> QED BY <2>1 DEF OrdersTyped, EveryAnswer, Answered
<1>2. CASE wanted
  <2> DEFINE k == <<o, gen[o] + 1>>
  <2>1. /\ geo' = [geo EXCEPT ![o] = NoPoint("PENDING")]
        /\ gen' = [gen EXCEPT ![o] = @ + 1]
        /\ job' = [job EXCEPT ![k] = Fresh]
    BY <1>2 DEF EnqueueGeocoding
  <2>2. Answered(o)'
    BY <2>1, PointFields DEF OrdersTyped, Answered
  <2>3. ASSUME NEW p \in Order, p # o PROVE Answered(p)'
    <3>1. geo'[p] = geo[p] /\ gen'[p] = gen[p]
      BY <2>1, <2>3 DEF OrdersTyped
    <3>2. <<p, gen[p]>> # k
      BY <2>3
    <3> HIDE DEF k
    <3>3. gen[p] \in Gen => job'[<<p, gen[p]>>] = job[<<p, gen[p]>>]
      BY <2>1, <3>2 DEF JobsTyped, Job
    <3> QED BY <3>1, <3>3 DEF EveryAnswer, Answered
  <2> QED BY <2>2, <2>3 DEF EveryAnswer
<1> QED BY <1>1, <1>2

LEMMA OrderStepAnswered ==
  ASSUME OrdersTyped, JobsTyped, EveryAnswer, NEW o \in Order,
         \/ \E a \in MaybeAddress, s \in {"ours", "away"} : Import(o, a, s)
         \/ SourceMissing(o) \/ SetPoint(o) \/ ClearLocal(o) \/ Backfill(o)
         \/ \E a \in Address, exact \in BOOLEAN : SetLocal(o, a, exact)
  PROVE  EveryAnswer'
<1>0. \A st : NoPoint(st).by = "none" /\ NoPoint(st).st = st
  BY PointFields
<1>1. ASSUME NEW a \in MaybeAddress, NEW s \in {"ours", "away"}, Import(o, a, s) PROVE EveryAnswer'
  <2> DEFINE after == QueryOf(local[o], a)
             point == Invalidated(geo[o], Query(o), after)
             wanted == after # Query(o) /\ Geocodable(after, s, point)
  <2>1. EnqueueGeocoding(o, wanted, point)
    BY <1>1 DEF Import
  <2>2. point.by = "photon" \/ point.st = "FAILED" => point = geo[o]
    BY <1>0 DEF Invalidated
  <2> HIDE DEF point, wanted
  <2> QED BY <2>1, <2>2, EnqueuedAnswered
<1>2. CASE SourceMissing(o)
  BY <1>2 DEF SourceMissing, EveryAnswer, Answered
<1>3. CASE SetPoint(o)
  <2>1. geo' = [geo EXCEPT ![o] = Point("RESOLVED", "manual", Query(o))] /\ UNCHANGED <<gen, job>>
    BY <1>3 DEF SetPoint
  <2> QED BY <2>1, PointFields DEF OrdersTyped, EveryAnswer, Answered
<1>4. CASE ClearLocal(o)
  <2> DEFINE wanted == Geocodable(source[o], scope[o], NoPoint("NEEDS_REVIEW"))
  <2>1. EnqueueGeocoding(o, wanted, NoPoint("NEEDS_REVIEW"))
    BY <1>4 DEF ClearLocal
  <2> HIDE DEF wanted
  <2> QED BY <1>0, <2>1, EnqueuedAnswered
<1>5. CASE Backfill(o)
  BY <1>5, EnqueuedAnswered DEF Backfill
<1>6. ASSUME NEW a \in Address, NEW exact \in BOOLEAN, SetLocal(o, a, exact) PROVE EveryAnswer'
  <2> DEFINE point == IF exact THEN Point("RESOLVED", "suggestion", a) ELSE NoPoint("NEEDS_REVIEW")
             wanted == ~exact /\ Geocodable(a, scope[o], point)
  <2>1. EnqueueGeocoding(o, wanted, point)
    BY <1>6 DEF SetLocal
  <2>2. point.by # "photon" /\ point.st # "FAILED"
    BY PointFields
  <2> HIDE DEF point, wanted
  <2> QED BY <2>1, <2>2, EnqueuedAnswered
<1> QED BY <1>1, <1>2, <1>3, <1>4, <1>5, <1>6

Over(i) == job[i].st \in {"DONE", "FAILED"}

(* Where no step of a worker or of the clock disturbs it, an answer stays. *)
LEMMA AnswerStays ==
  ASSUME EveryAnswer, UNCHANGED gen, NEW o \in Order, geo'[o] = geo[o],
         \A i \in Job : Over(i) => job'[i] = job[i]
  PROVE  Answered(o)'
<1>1. gen[o] \in Gen => <<o, gen[o]>> \in Job
  BY DEF Job
<1> QED BY <1>1 DEF EveryAnswer, Answered, Over, GivenUp

(* A closed job stays as it is, whatever workers and the clock do. *)
LEMMA OverStays ==
  ASSUME GeoTyped,
         \/ \E w \in Geocoder :
              \/ StartPass(w) \/ Crash(w) \/ LockLost(w) \/ Renew(w)
              \/ \E j \in Job :
                   \/ Begin(w, j) \/ FailConfig(w, j)
                   \/ \E b \in BOOLEAN : Apply(w, j, b) \/ FailRetry(w, j, b) \/ FailOrder(w, j, b)
         \/ \E j \in Job : JobLeaseLapses(j) \/ FallsDue(j)
         \/ ProviderOpens
  PROVE  \A i \in Job : Over(i) => job'[i] = job[i]
<1> SUFFICES ASSUME NEW i \in Job, Over(i) PROVE job'[i] = job[i]
  OBVIOUS
<1>0. job \in [Job -> JobState]
  BY GeoTypedParts DEF JobsTyped
<1>a. \A w \in Geocoder : ~Owns(w, i)
  BY DEF Over, Owns
<1>b. ASSUME NEW w \in Geocoder, NEW j \in Job, NEW st, NEW n, Owns(w, j)
      PROVE  Closed(j, st, n)[i] = job[i]
  BY <1>0, <1>a, <1>b DEF Closed
<1>c. ASSUME NEW w \in Geocoder, NEW j \in Job PROVE Retried(w, j)[i] = job[i]
  BY <1>0, <1>a DEF Retried
<1>d. ASSUME NEW w \in Geocoder, NEW js PROVE Released(w, js)[i] = job[i]
  BY <1>a DEF Released
<1>e. ASSUME NEW w \in Geocoder, NEW j \in Job, MarkStale(w, j) PROVE job'[i] = job[i]
  BY <1>b, <1>e DEF MarkStale
<1>1. ASSUME NEW w \in Geocoder, StartPass(w) PROVE job'[i] = job[i]
  BY <1>1 DEF StartPass, Over
<1>2. ASSUME NEW w \in Geocoder, Crash(w) \/ LockLost(w) PROVE job'[i] = job[i]
  BY <1>2 DEF Crash, LockLost
<1>3. ASSUME NEW w \in Geocoder, Renew(w) PROVE job'[i] = job[i]
  BY <1>3, <1>a DEF Renew
<1>4. ASSUME NEW w \in Geocoder, NEW j \in Job, Begin(w, j) \/ FailConfig(w, j)
      PROVE  job'[i] = job[i]
  BY <1>4, <1>d, <1>e DEF Begin, FailConfig
<1>5. ASSUME NEW w \in Geocoder, NEW j \in Job, NEW b \in BOOLEAN, Apply(w, j, b)
      PROVE  job'[i] = job[i]
  BY <1>5, <1>b, <1>e DEF Apply
<1>6. ASSUME NEW w \in Geocoder, NEW j \in Job, NEW b \in BOOLEAN, FailRetry(w, j, b)
      PROVE  job'[i] = job[i]
  BY <1>6, <1>a, <1>c DEF FailRetry
<1>7. ASSUME NEW w \in Geocoder, NEW j \in Job, NEW b \in BOOLEAN, FailOrder(w, j, b)
      PROVE  job'[i] = job[i]
  BY <1>7, <1>a, <1>b DEF FailOrder
<1>8. ASSUME NEW j \in Job, JobLeaseLapses(j) \/ FallsDue(j) PROVE job'[i] = job[i]
  <2>1. j # i
    BY <1>8 DEF JobLeaseLapses, FallsDue, Over
  <2> QED BY <1>0, <1>8, <2>1 DEF JobLeaseLapses, FallsDue
<1>9. CASE ProviderOpens
  BY <1>9 DEF ProviderOpens
<1> QED BY <1>1, <1>2, <1>3, <1>4, <1>5, <1>6, <1>7, <1>8, <1>9

(* applyResult: the point and the end of the job in one transaction. *)
LEMMA ApplyAnswered ==
  ASSUME GeoTyped, EveryAnswer, NEW w \in Geocoder, NEW j \in Job, NEW found \in BOOLEAN,
         Apply(w, j, found)
  PROVE  EveryAnswer'
<1>0. OrdersTyped /\ JobsTyped
  BY GeoTypedParts
<1>1. \A i \in Job : Over(i) => job'[i] = job[i]
  BY OverStays
<1>2. UNCHANGED gen
  BY DEF Apply
<1>3. CASE UNCHANGED geo
  BY <1>1, <1>2, <1>3, AnswerStays DEF EveryAnswer
<1>4. CASE ~UNCHANGED geo
  <2> DEFINE p == IF found THEN Point("RESOLVED", "photon", pass[w].asked) ELSE NoPoint("NEEDS_REVIEW")
  <2>1. /\ ~Stale(j, pass[w].asked) /\ Owns(w, j)
        /\ geo' = [geo EXCEPT ![j[1]] = p] /\ job' = Closed(j, "DONE", job[j].tries + 1)
    BY <1>4 DEF Apply
  <2>2. j[1] \in Order /\ gen[j[1]] = j[2] /\ j[2] \in Gen /\ j = <<j[1], j[2]>>
    BY <2>1 DEF Stale, Job
  <2>3. job'[j].st = "DONE"
    <3> DEFINE c == [st |-> "DONE", by |-> Unknown, tries |-> job[j].tries + 1, ripe |-> FALSE]
    <3>1. job' = [job EXCEPT ![j] = c] /\ c.st = "DONE"
      BY <2>1 DEF Closed
    <3> HIDE DEF c
    <3> QED BY <1>0, <3>1 DEF JobsTyped
  <2>4. p.st # "FAILED"
    BY PointFields
  <2> HIDE DEF p
  <2>5. geo'[j[1]].st # "FAILED"
    BY <1>0, <2>1, <2>2, <2>4 DEF OrdersTyped
  <2>6. Answered(j[1])'
    BY <1>2, <2>2, <2>3, <2>5 DEF Answered
  <2>7. ASSUME NEW o \in Order, o # j[1] PROVE Answered(o)'
    <3>1. geo'[o] = geo[o]
      BY <1>0, <2>1, <2>7 DEF OrdersTyped
    <3> QED BY <1>1, <1>2, <3>1, AnswerStays
  <2> QED BY <2>6, <2>7 DEF EveryAnswer
<1> QED BY <1>3, <1>4

(* failOrder: the order is given up with the last attempt of its job. *)
LEMMA FailOrderAnswered ==
  ASSUME GeoTyped, EveryAnswer, NEW w \in Geocoder, NEW j \in Job, NEW outage \in BOOLEAN,
         FailOrder(w, j, outage)
  PROVE  EveryAnswer'
<1>0. OrdersTyped /\ JobsTyped
  BY GeoTypedParts
<1>1. \A i \in Job : Over(i) => job'[i] = job[i]
  BY OverStays
<1>2. UNCHANGED gen
  BY DEF FailOrder
<1>3. CASE UNCHANGED geo
  BY <1>1, <1>2, <1>3, AnswerStays DEF EveryAnswer
<1>4. CASE ~UNCHANGED geo
  <2>1. /\ ~Stale(j, pass[w].asked) /\ Owns(w, j)
        /\ geo' = [geo EXCEPT ![j[1]] = NoPoint("FAILED")]
    BY <1>4 DEF FailOrder
  <2>2. j[1] \in Order /\ gen[j[1]] = j[2] /\ j[2] \in Gen /\ j = <<j[1], j[2]>>
    BY <2>1 DEF Stale, Job
  <2>3. GivenUp(job'[j])
    <3> DEFINE c == [st |-> "FAILED", by |-> Unknown, tries |-> MaxTries, ripe |-> FALSE]
    <3>1. job'[j] = Closed(j, "FAILED", MaxTries)[j]
      BY <2>1 DEF FailOrder
    <3>2. Closed(j, "FAILED", MaxTries) = [job EXCEPT ![j] = c] /\ GivenUp(c)
      BY DEF Closed, GivenUp
    <3> HIDE DEF c
    <3> QED BY <1>0, <3>1, <3>2 DEF JobsTyped
  <2>4. geo'[j[1]] = NoPoint("FAILED")
    BY <1>0, <2>1, <2>2 DEF OrdersTyped
  <2>5. geo'[j[1]].by # "photon"
    BY <2>4, PointFields
  <2>6. Answered(j[1])'
    BY <1>2, <2>2, <2>3, <2>5 DEF Answered
  <2>7. ASSUME NEW o \in Order, o # j[1] PROVE Answered(o)'
    <3>1. geo'[o] = geo[o]
      BY <1>0, <2>1, <2>7 DEF OrdersTyped
    <3> QED BY <1>1, <1>2, <3>1, AnswerStays
  <2> QED BY <2>6, <2>7 DEF EveryAnswer
<1> QED BY <1>3, <1>4

(* An answer and the end of its job are one: a worker whose lease is gone  *)
(* changes nothing, and no order is given up before its last attempt       *)
(* (applyResult, failOrder, releaseJobs).                                  *)
THEOREM AnswerEndsJob == GeoSpec => []AnswerClosesJob
<1>1. GeoInit => EveryAnswer
  <2> SUFFICES ASSUME GeoInit, NEW o \in Order
               PROVE  geo[o].by # "photon" /\ geo[o].st # "FAILED"
    BY DEF EveryAnswer, Answered
  <2> QED BY PointFields DEF GeoInit
<1>2. GeoTyped /\ EveryAnswer /\ [GeoNext]_geoVars => EveryAnswer'
  <2> SUFFICES ASSUME GeoTyped, EveryAnswer, [GeoNext]_geoVars PROVE EveryAnswer'
    OBVIOUS
  <2>0. OrdersTyped /\ JobsTyped
    BY GeoTypedParts
  <2>1. CASE UNCHANGED geoVars
    BY <2>1 DEF geoVars, EveryAnswer, Answered
  <2>2. ASSUME UNCHANGED <<geo, gen>>,
               \/ \E w \in Geocoder :
                    \/ StartPass(w) \/ Crash(w) \/ LockLost(w) \/ Renew(w)
                    \/ \E j \in Job : \/ Begin(w, j) \/ FailConfig(w, j)
                                     \/ \E b \in BOOLEAN : FailRetry(w, j, b)
               \/ \E j \in Job : JobLeaseLapses(j) \/ FallsDue(j)
               \/ ProviderOpens
        PROVE  EveryAnswer'
    <3>1. \A i \in Job : Over(i) => job'[i] = job[i]
      BY <2>2, OverStays
    <3>2. geo' = geo /\ gen' = gen
      BY <2>2
    <3>3. ASSUME NEW o \in Order PROVE Answered(o)'
      BY <3>1, <3>2, AnswerStays
    <3> QED BY <3>3 DEF EveryAnswer
  <2>3. ASSUME NEW w \in Geocoder,
               \/ StartPass(w) \/ Crash(w) \/ LockLost(w) \/ Renew(w)
               \/ \E j \in Job : \/ Begin(w, j) \/ FailConfig(w, j)
                                \/ \E b \in BOOLEAN : FailRetry(w, j, b)
        PROVE  UNCHANGED <<geo, gen>>
    BY <2>3 DEF StartPass, Crash, LockLost, Renew, Begin, FailConfig, FailRetry
  <2>4. ASSUME NEW j \in Job, JobLeaseLapses(j) \/ FallsDue(j) PROVE UNCHANGED <<geo, gen>>
    BY <2>4 DEF JobLeaseLapses, FallsDue
  <2>5. ProviderOpens => UNCHANGED <<geo, gen>>
    BY DEF ProviderOpens
  <2> QED BY <2>0, <2>1, <2>2, <2>3, <2>4, <2>5, OrderStepAnswered, ApplyAnswered,
             FailOrderAnswered DEF GeoNext
<1>3. EveryAnswer => AnswerClosesJob
  BY DEF EveryAnswer, Answered, AnswerClosesJob, GivenUp
<1> QED BY <1>1, <1>2, <1>3, GeoTypeCorrect, PTL DEF GeoSpec

-----------------------------------------------------------------------------
(* Reading orders: types *)

Count == Cardinality(Document)

LEMMA CountIsNat ==
  /\ Count \in Nat
  /\ \A S \in SUBSET Document : Cardinality(S) \in 0..Count
<1>1. IsFiniteSet(Document) /\ Count \in Nat
  BY SyncAssumption, FS_CardinalityType DEF Count
<1>2. ASSUME NEW S \in SUBSET Document PROVE Cardinality(S) \in 0..Count
  <2>1. IsFiniteSet(S) /\ Cardinality(S) <= Count
    BY <1>1, FS_Subset DEF Count
  <2>2. Cardinality(S) \in Nat
    BY <2>1, FS_CardinalityType
  <2> QED BY <1>1, <2>1, <2>2
<1> QED BY <1>1, <1>2

Readings ==
  [kind : {"none", "initial", "delta", "reconciliation"}, since : Nowhere..LastMoment,
   offset : 0..Count, size : Nowhere..Count, read : SUBSET Document,
   row : [doc : Document \cup {Nowhere}, edition : Edition],
   step : {"page", "row", "save", "compositions"}]

Cursors == [updated : Nowhere..LastMoment, loaded : BOOLEAN, reconciled : BOOLEAN,
            offset : Nowhere..Count]

Outside ==
  /\ edition \in [Document -> Edition] /\ updated \in [Document -> 0..LastMoment]
  /\ moment \in 0..LastMoment /\ deleted \subseteq Document

Inside ==
  /\ imported \in [Document -> Edition] /\ awaited \in [Document -> Edition]
  /\ sourceMissing \subseteq Document
  /\ confirmed \in [Document -> [texts : Edition, positions : Edition]]

(* A page has been read while the list had a place for it. *)
ReadingTyped ==
  /\ reading \in Readings
  /\ reading.step = "row" => reading.row.doc \in Document /\ reading.offset < Count

SyncTyped == Outside /\ Inside /\ cursor \in Cursors /\ ReadingTyped

LEMMA TypedIsTypeOK == SyncTyped => SyncTypeOK
BY DEF SyncTyped, Outside, Inside, ReadingTyped, Readings, Cursors, SyncTypeOK, Count

LEMMA NoReadingTyped ==
  /\ NoReading \in Readings /\ NoReading.step # "row" /\ NoReading.kind = "none"
  /\ NoReading.read = {} /\ NoReading.size = Nowhere /\ NoReading.offset = 0
  /\ NoReading.step = "page" /\ NoReading.row \in [doc : Document \cup {Nowhere}, edition : Edition]
BY CountIsNat, SyncAssumption DEF NoReading, Readings, Nowhere, Edition

LEMMA SyncTypesBegin == SyncInit => SyncTyped
<1> SUFFICES ASSUME SyncInit PROVE SyncTyped
  OBVIOUS
<1>1. Outside
  BY SyncAssumption DEF SyncInit, Outside, Edition
<1>2. Inside
  BY SyncAssumption DEF SyncInit, Inside, Edition
<1>3. cursor \in Cursors
  BY SyncAssumption, CountIsNat DEF SyncInit, Cursors, Nowhere
<1> QED BY <1>1, <1>2, <1>3, NoReadingTyped DEF SyncInit, SyncTyped, ReadingTyped

LEMMA ListedIsSmall ==
  /\ Listed \subseteq Document /\ IsFiniteSet(Listed)
  /\ Cardinality(Listed) \in 0..Count
<1>1. Listed \subseteq Document
  BY DEF Listed
<1> QED BY <1>1, CountIsNat, SyncAssumption, FS_Subset

(* What each step does to the pass, field by field. *)
LEMMA BeginFields ==
  ASSUME SyncTyped, NEW kind \in {"initial", "delta", "reconciliation"}, BeginReading(kind)
  PROVE  /\ reading = NoReading
         /\ kind = "initial" <=> ~cursor.loaded
         /\ kind = "delta" => cursor.reconciled
         /\ reading' \in Readings /\ reading'.kind = kind /\ reading'.since = moment
         /\ reading'.step = "page" /\ reading'.read = {} /\ reading'.size = Nowhere
         /\ kind # "initial" => reading'.offset = 0
         /\ cursor' \in Cursors /\ cursor'.updated = cursor.updated /\ cursor'.loaded = cursor.loaded
         /\ cursor'.reconciled = cursor.reconciled
<1> DEFINE from == IF kind = "initial" /\ cursor.offset # Nowhere THEN cursor.offset ELSE 0
           r == [NoReading EXCEPT !.kind = kind, !.since = moment, !.offset = from]
           c == [cursor EXCEPT !.offset = from]
<1>1. from \in 0..Count /\ moment \in 0..LastMoment
  BY CountIsNat DEF SyncTyped, Cursors, Outside, Nowhere
<1>2. reading' = r /\ cursor' = IF kind = "initial" THEN c ELSE cursor
  BY DEF BeginReading
<1>3. kind # "initial" => from = 0
  OBVIOUS
<1> HIDE DEF from
<1>4. /\ r \in Readings /\ r.kind = kind /\ r.since = moment /\ r.step = "page" /\ r.read = {}
      /\ r.size = Nowhere /\ r.offset = from
  <2>1. moment \in Nowhere..LastMoment
    BY <1>1 DEF Nowhere
  <2> QED BY <1>1, <2>1, NoReadingTyped DEF Readings
<1>5. /\ c \in Cursors /\ c.updated = cursor.updated /\ c.loaded = cursor.loaded
      /\ c.reconciled = cursor.reconciled
  <2>1. from \in Nowhere..Count
    BY <1>1 DEF Nowhere
  <2> QED BY <2>1 DEF SyncTyped, Cursors
<1> HIDE DEF r, c
<1>6. reading' = r /\ (cursor' = c \/ cursor' = cursor)
  BY <1>2
<1>7. cursor \in Cursors
  BY DEF SyncTyped
<1> QED BY <1>3, <1>4, <1>5, <1>6, <1>7 DEF BeginReading

LEMMA RowDoc ==
  ASSUME NEW d, NEW v
  PROVE  [doc |-> d, edition |-> v].doc = d /\ [doc |-> d, edition |-> v].edition = v
OBVIOUS

LEMMA PageFields ==
  ASSUME SyncTyped, ReadPage
  PROVE  \/ reading' = NoReading
         \/ /\ reading' \in Readings /\ reading'.step = "compositions"
            /\ reading.offset >= Cardinality(Listed)
            /\ reading.size = Nowhere \/ reading.offset >= reading.size
            /\ reading'.kind = reading.kind /\ reading'.since = reading.since
            /\ reading'.read = reading.read /\ reading'.offset = reading.offset
            /\ reading'.size = reading.size
         \/ \E d \in Listed :
            /\ reading' \in Readings /\ reading'.step = "row" /\ Place(d) = reading.offset
            /\ reading.offset < Cardinality(Listed)
            /\ reading'.row = [doc |-> d, edition |-> edition[d]]
            /\ reading'.kind = reading.kind /\ reading'.since = reading.since
            /\ reading'.read = reading.read /\ reading'.offset = reading.offset
            /\ reading'.size = IF reading.size = Nowhere THEN Cardinality(Listed) ELSE reading.size
<1>0. reading \in Readings
  BY DEF SyncTyped, ReadingTyped
<1>1. CASE reading.offset >= Cardinality(Listed)
  <2>1. CASE reading.size # Nowhere /\ reading.offset < reading.size
    BY <1>1, <2>1 DEF ReadPage, Ended
  <2>2. CASE ~(reading.size # Nowhere /\ reading.offset < reading.size)
    <3> DEFINE r == [reading EXCEPT !.step = "compositions"]
    <3>1. reading' = r
      BY <1>1, <2>2 DEF ReadPage
    <3>2. /\ r \in Readings /\ r.step = "compositions"
          /\ r.kind = reading.kind /\ r.since = reading.since
          /\ r.read = reading.read /\ r.offset = reading.offset /\ r.size = reading.size
      BY <1>0 DEF Readings
    <3>3. reading.size = Nowhere \/ reading.offset >= reading.size
      BY <1>0, <2>2, CountIsNat DEF Readings, Nowhere
    <3> HIDE DEF r
    <3> QED BY <1>1, <3>1, <3>2, <3>3
  <2> QED BY <2>1, <2>2
<1>2. CASE ~(reading.offset >= Cardinality(Listed))
  <2>1. PICK d \in Listed :
          /\ Place(d) = reading.offset
          /\ reading' = [reading EXCEPT
               !.size = IF @ = Nowhere THEN Cardinality(Listed) ELSE @,
               !.row = [doc |-> d, edition |-> edition[d]], !.step = "row"]
    BY <1>2 DEF ReadPage
  <2> DEFINE z == IF reading.size = Nowhere THEN Cardinality(Listed) ELSE reading.size
             w == [doc |-> d, edition |-> edition[d]]
             r == [reading EXCEPT !.size = z, !.row = w, !.step = "row"]
  <2>2. reading' = r
    BY <2>1
  <2>3. z \in Nowhere..Count
    BY <1>0, ListedIsSmall, CountIsNat DEF Readings, Nowhere
  <2>4. w \in [doc : Document \cup {Nowhere}, edition : Edition]
    BY ListedIsSmall DEF SyncTyped, Outside
  <2> HIDE DEF z, w
  <2>5. /\ r \in Readings /\ r.step = "row" /\ r.row = w
        /\ r.kind = reading.kind /\ r.since = reading.since
        /\ r.read = reading.read /\ r.offset = reading.offset /\ r.size = z
    BY <1>0, <2>3, <2>4 DEF Readings
  <2>6. reading.offset < Cardinality(Listed)
    BY <1>0, <1>2, ListedIsSmall, CountIsNat DEF Readings
  <2> HIDE DEF r
  <2> QED BY <2>1, <2>2, <2>5, <2>6 DEF z, w
<1> QED BY <1>1, <1>2

LEMMA RowFields ==
  ASSUME SyncTyped, ApplyRow
  PROVE  /\ reading.row.doc \in Document /\ reading.row.edition \in Edition
         /\ reading' \in Readings
         /\ reading'.kind = reading.kind /\ reading'.since = reading.since
         /\ reading'.size = reading.size /\ reading'.offset = reading.offset + 1
         /\ reading.kind # "initial" => reading'.read = reading.read \cup {reading.row.doc}
         /\ reading.kind = "initial" => reading'.read = reading.read
         /\ reading'.step \in {"save", "page", "compositions"}
         /\ reading'.step = "save" => reading.kind = "initial"
         /\ reading'.step = "page" => reading.offset + 1 < reading.size
         /\ reading.kind # "initial" /\ reading'.step = "compositions" =>
              ~(reading.offset + 1 < reading.size)
<1>0. reading \in Readings /\ reading.step = "row" /\ reading.row.doc \in Document
      /\ reading.offset < Count
  BY DEF SyncTyped, ReadingTyped, ApplyRow
<1> DEFINE q == IF reading.kind = "initial" THEN reading.read ELSE reading.read \cup {reading.row.doc}
           s == CASE reading.kind = "initial" -> "save"
                  [] reading.kind # "initial" /\ reading.offset + 1 < reading.size -> "page"
                  [] OTHER -> "compositions"
           r == [reading EXCEPT !.read = q, !.offset = @ + 1, !.row = NoReading.row, !.step = s]
<1>1. reading' = r
  BY DEF ApplyRow
<1>2. q \in SUBSET Document
  BY <1>0 DEF Readings
<1>3. reading.offset + 1 \in 0..Count
  BY <1>0, CountIsNat DEF Readings
<1>4. /\ s \in {"save", "page", "compositions"}
      /\ s = "save" => reading.kind = "initial"
      /\ s = "page" => reading.offset + 1 < reading.size
      /\ reading.kind # "initial" /\ s = "compositions" => ~(reading.offset + 1 < reading.size)
  <2>1. CASE reading.kind = "initial"
    BY <2>1
  <2>2. CASE reading.kind # "initial" /\ reading.offset + 1 < reading.size
    BY <2>2
  <2>3. CASE reading.kind # "initial" /\ ~(reading.offset + 1 < reading.size)
    BY <2>3
  <2> QED BY <2>1, <2>2, <2>3
<1>5. reading.row.edition \in Edition
  BY <1>0 DEF Readings
<1>6. /\ reading.kind # "initial" => q = reading.read \cup {reading.row.doc}
      /\ reading.kind = "initial" => q = reading.read
  OBVIOUS
<1> HIDE DEF q, s
<1>7. /\ r \in Readings /\ r.kind = reading.kind /\ r.since = reading.since /\ r.size = reading.size
      /\ r.offset = reading.offset + 1 /\ r.read = q /\ r.step = s
  BY <1>0, <1>2, <1>3, <1>4, NoReadingTyped DEF Readings
<1> HIDE DEF r
<1> QED BY <1>0, <1>1, <1>4, <1>5, <1>6, <1>7

LEMMA ConfirmedTyped ==
  ASSUME SyncTyped, NEW d \in Document, NEW t \in Edition, NEW p \in Edition, Confirmed(d, t, p)
  PROVE  /\ confirmed' \in [Document -> [texts : Edition, positions : Edition]]
         /\ awaited' \in [Document -> Edition]
         /\ confirmed'[d] = [texts |-> t, positions |-> p] /\ awaited'[d] = 0
         /\ \A e \in Document : e # d => confirmed'[e] = confirmed[e] /\ awaited'[e] = awaited[e]
<1>1. 0 \in Edition
  BY SyncAssumption DEF Edition
<1> QED BY <1>1 DEF Confirmed, SyncTyped, Inside

LEMMA UnconfirmedTyped ==
  ASSUME SyncTyped, NEW d \in Document, NEW v \in Edition, Unconfirmed(d, v)
  PROVE  /\ confirmed' = confirmed /\ awaited' \in [Document -> Edition]
         /\ awaited'[d] = v /\ \A e \in Document : e # d => awaited'[e] = awaited[e]
BY DEF Unconfirmed, SyncTyped, Inside

(* What ApplyRow writes into the order. *)
LEMMA RowApplied ==
  ASSUME SyncTyped, ApplyRow
  PROVE  LET d == reading.row.doc  v == reading.row.edition IN
         \/ UNCHANGED inside /\ reading.kind = "delta" /\ d \in reading.read
         \/ /\ Inside'
            /\ imported' = [imported EXCEPT ![d] = v]
            /\ sourceMissing' = sourceMissing \ {d}
            /\ awaited'[d] \in {0, v}
            /\ \/ confirmed'[d] = [texts |-> v, positions |-> v]
               \/ confirmed' = confirmed /\ awaited'[d] = v
            /\ \A e \in Document : e # d => confirmed'[e] = confirmed[e] /\ awaited'[e] = awaited[e]
<1> DEFINE d == reading.row.doc
           v == reading.row.edition
<1>0. d \in Document /\ v \in Edition
  BY RowFields
<1>1. \/ UNCHANGED inside /\ reading.kind = "delta" /\ d \in reading.read
      \/ /\ imported' = [imported EXCEPT ![d] = v]
         /\ sourceMissing' = sourceMissing \ {d}
         /\ Confirmed(d, v, v) \/ Unconfirmed(d, v)
  BY DEF ApplyRow
<1> HIDE DEF d, v
<1>2. CASE UNCHANGED inside /\ reading.kind = "delta" /\ d \in reading.read
  BY <1>2 DEF d
<1>3. CASE /\ imported' = [imported EXCEPT ![d] = v]
           /\ sourceMissing' = sourceMissing \ {d}
           /\ Confirmed(d, v, v) \/ Unconfirmed(d, v)
  <2>1. imported' \in [Document -> Edition] /\ sourceMissing' \subseteq Document
    BY <1>0, <1>3 DEF SyncTyped, Inside
  <2>2. CASE Confirmed(d, v, v)
    BY <1>0, <1>3, <2>1, <2>2, ConfirmedTyped DEF Inside, d, v
  <2>3. CASE Unconfirmed(d, v)
    BY <1>0, <1>3, <2>1, <2>3, UnconfirmedTyped DEF SyncTyped, Inside, d, v
  <2> QED BY <1>3, <2>2, <2>3
<1> QED BY <1>1, <1>2, <1>3

LEMMA SourceStepTyped ==
  ASSUME SyncTyped,
         \/ \E d \in Document : ChangeDocument(d) \/ DeleteDocument(d)
         \/ TimePasses
  PROVE  SyncTyped'
<1>1. Outside'
  <2>1. ASSUME NEW d \in Document, ChangeDocument(d) PROVE Outside'
    <3>1. edition[d] + 1 \in Edition
      BY <2>1, SyncAssumption DEF ChangeDocument, SyncTyped, Outside, Edition
    <3> QED BY <2>1, <3>1 DEF ChangeDocument, SyncTyped, Outside
  <2>2. ASSUME NEW d \in Document, DeleteDocument(d) PROVE Outside'
    BY <2>2 DEF DeleteDocument, SyncTyped, Outside
  <2>3. CASE TimePasses
    BY <2>3, SyncAssumption DEF TimePasses, SyncTyped, Outside
  <2> QED BY <2>1, <2>2, <2>3
<1>2. UNCHANGED <<inside, cursor, reading>>
  BY DEF ChangeDocument, DeleteDocument, TimePasses
<1> QED BY <1>1, <1>2 DEF SyncTyped, Inside, inside, ReadingTyped

LEMMA CursorSteps ==
  ASSUME SyncTyped
  PROVE  /\ SaveCheckpoint => cursor' \in Cursors /\ cursor'.updated = cursor.updated
              /\ cursor'.loaded = cursor.loaded /\ cursor'.reconciled = cursor.reconciled
         /\ EndInitialLoad => cursor' \in Cursors /\ cursor'.updated = reading.since
              /\ cursor'.loaded /\ cursor'.reconciled = cursor.reconciled
         /\ EndDelta => cursor' \in Cursors /\ cursor'.updated = reading.since
              /\ cursor'.loaded = cursor.loaded /\ cursor'.reconciled = cursor.reconciled
         /\ EndReconciliation => cursor' \in Cursors /\ cursor'.updated = cursor.updated
              /\ cursor'.loaded = cursor.loaded /\ cursor'.reconciled = TRUE
<1>0. cursor \in Cursors /\ reading.since \in Nowhere..LastMoment /\ reading.offset \in Nowhere..Count
      /\ Nowhere \in Nowhere..Count
  BY CountIsNat DEF SyncTyped, ReadingTyped, Readings, Nowhere
<1> DEFINE saved == [cursor EXCEPT !.offset = reading.offset]
           loaded == [cursor EXCEPT !.loaded = TRUE, !.updated = reading.since, !.offset = Nowhere]
           moved == [cursor EXCEPT !.updated = reading.since]
           reconciled == [cursor EXCEPT !.reconciled = TRUE]
<1>1. /\ SaveCheckpoint => cursor' = saved
      /\ EndInitialLoad => cursor' = loaded
      /\ EndDelta => cursor' = moved
      /\ EndReconciliation => cursor' = reconciled
  BY DEF SaveCheckpoint, EndInitialLoad, EndDelta, EndReconciliation
<1>2. /\ saved \in Cursors /\ saved.updated = cursor.updated
      /\ saved.loaded = cursor.loaded /\ saved.reconciled = cursor.reconciled
  BY <1>0 DEF Cursors
<1>3. /\ loaded \in Cursors /\ loaded.updated = reading.since
      /\ loaded.loaded /\ loaded.reconciled = cursor.reconciled
  BY <1>0 DEF Cursors
<1>4. /\ moved \in Cursors /\ moved.updated = reading.since
      /\ moved.loaded = cursor.loaded /\ moved.reconciled = cursor.reconciled
  BY <1>0 DEF Cursors
<1>5. /\ reconciled \in Cursors /\ reconciled.updated = cursor.updated
      /\ reconciled.loaded = cursor.loaded /\ reconciled.reconciled = TRUE
  BY <1>0 DEF Cursors
<1> HIDE DEF saved, loaded, moved, reconciled
<1> QED BY <1>1, <1>2, <1>3, <1>4, <1>5

LEMMA SaveFields ==
  ASSUME SyncTyped, SaveCheckpoint
  PROVE  /\ reading' \in Readings /\ reading'.step \in {"page", "compositions"}
         /\ reading'.kind = reading.kind /\ reading'.since = reading.since
         /\ reading'.read = reading.read
<1> DEFINE r == [reading EXCEPT !.step = IF reading.offset < reading.size THEN "page" ELSE "compositions"]
<1>1. reading' = r
  BY DEF SaveCheckpoint
<1>2. /\ r \in Readings /\ r.step \in {"page", "compositions"}
      /\ r.kind = reading.kind /\ r.since = reading.since /\ r.read = reading.read
  BY DEF SyncTyped, ReadingTyped, Readings
<1> HIDE DEF r
<1> QED BY <1>1, <1>2

LEMMA PassStepTyped ==
  ASSUME SyncTyped,
         \/ \E d \in Document : FillComposition(d) \/ MarkSourceMissing(d)
         \/ \E kind \in {"initial", "delta", "reconciliation"} : BeginReading(kind)
         \/ ReadPage \/ ApplyRow \/ SaveCheckpoint
         \/ EndInitialLoad \/ EndDelta \/ EndReconciliation \/ ReadingBreaksOff
  PROVE  SyncTyped'
<1>0. Outside /\ Inside /\ cursor \in Cursors /\ ReadingTyped
  BY DEF SyncTyped
<1>1. Outside'
  <2>1. UNCHANGED outside
    BY DEF FillComposition, MarkSourceMissing, BeginReading, ReadPage, ApplyRow, SaveCheckpoint,
           EndInitialLoad, EndDelta, EndReconciliation, ReadingBreaksOff, outside
  <2> QED BY <1>0, <2>1 DEF Outside, outside
<1>a. ASSUME UNCHANGED inside PROVE Inside'
  BY <1>0, <1>a DEF Inside, inside
<1>b. ASSUME reading' = NoReading PROVE ReadingTyped'
  BY <1>b, NoReadingTyped DEF ReadingTyped
<1>2. ASSUME NEW d \in Document, FillComposition(d) PROVE SyncTyped'
  <2>1. awaited[d] \in Edition /\ edition[d] \in Edition
    BY <1>0 DEF Inside, Outside
  <2>a. Confirmed(d, awaited[d], edition[d]) /\ UNCHANGED <<imported, sourceMissing, cursor, reading>>
    BY <1>2 DEF FillComposition
  <2>b. /\ confirmed' \in [Document -> [texts : Edition, positions : Edition]]
        /\ awaited' \in [Document -> Edition]
    BY <2>a, <2>1, ConfirmedTyped
  <2>2. Inside' /\ UNCHANGED <<cursor, reading>>
    BY <1>0, <2>a, <2>b DEF Inside
  <2> QED BY <1>0, <1>1, <2>2 DEF SyncTyped, ReadingTyped
<1>3. ASSUME NEW d \in Document, MarkSourceMissing(d) PROVE SyncTyped'
  <2>1. Inside' /\ UNCHANGED <<cursor, reading>>
    BY <1>0, <1>3 DEF MarkSourceMissing, Inside
  <2> QED BY <1>0, <1>1, <2>1 DEF SyncTyped, ReadingTyped
<1>4. ASSUME NEW kind \in {"initial", "delta", "reconciliation"}, BeginReading(kind)
      PROVE  SyncTyped'
  <2>1. UNCHANGED inside
    BY <1>4 DEF BeginReading
  <2>2. cursor' \in Cursors /\ reading' \in Readings /\ reading'.step = "page"
    BY <1>4, BeginFields
  <2> QED BY <1>1, <1>a, <2>1, <2>2 DEF SyncTyped, ReadingTyped
<1>5. CASE ReadPage
  <2>1. UNCHANGED <<inside, cursor>>
    BY <1>5 DEF ReadPage
  <2>2. ReadingTyped'
    <3>1. CASE reading' = NoReading
      BY <1>b, <3>1
    <3>2. CASE reading' # NoReading
      <4>1. reading' \in Readings
        BY <1>5, <3>2, PageFields
      <4>2. ASSUME reading'.step = "row" PROVE reading'.row.doc \in Document /\ reading'.offset < Count
        <5>1. PICK d \in Listed : /\ reading.offset < Cardinality(Listed)
                                  /\ reading'.row = [doc |-> d, edition |-> edition[d]]
                                  /\ reading'.offset = reading.offset
          BY <1>5, <3>2, <4>2, PageFields
        <5>2. reading.offset \in Nat
          BY <1>0 DEF ReadingTyped, Readings
        <5> QED BY <5>1, <5>2, ListedIsSmall, CountIsNat
      <4> QED BY <4>1, <4>2 DEF ReadingTyped
    <3> QED BY <3>1, <3>2
  <2> QED BY <1>0, <1>1, <1>a, <2>1, <2>2 DEF SyncTyped
<1>6. CASE ApplyRow
  <2>1. Inside'
    BY <1>6, <1>a, RowApplied
  <2>2. ReadingTyped'
    BY <1>6, RowFields DEF ReadingTyped
  <2>3. UNCHANGED cursor
    BY <1>6 DEF ApplyRow
  <2> QED BY <1>0, <1>1, <2>1, <2>2, <2>3 DEF SyncTyped
<1>7. CASE SaveCheckpoint
  <2>1. UNCHANGED inside
    BY <1>7 DEF SaveCheckpoint
  <2>2. ReadingTyped' /\ cursor' \in Cursors
    BY <1>7, SaveFields, CursorSteps DEF ReadingTyped
  <2> QED BY <1>1, <1>a, <2>1, <2>2 DEF SyncTyped
<1>8. CASE EndInitialLoad \/ EndDelta \/ EndReconciliation
  <2>1. UNCHANGED inside /\ reading' = NoReading
    BY <1>8 DEF EndInitialLoad, EndDelta, EndReconciliation, Ended
  <2>2. cursor' \in Cursors
    BY <1>8, CursorSteps
  <2> QED BY <1>1, <1>a, <1>b, <2>1, <2>2 DEF SyncTyped
<1>9. CASE ReadingBreaksOff
  <2>1. UNCHANGED <<inside, cursor>> /\ reading' = NoReading
    BY <1>9 DEF ReadingBreaksOff, Ended
  <2> QED BY <1>0, <1>1, <1>a, <1>b, <2>1 DEF SyncTyped
<1> QED BY <1>2, <1>3, <1>4, <1>5, <1>6, <1>7, <1>8, <1>9

LEMMA SyncTypedStep == SyncTyped /\ [SyncNext]_syncVars => SyncTyped'
<1> SUFFICES ASSUME SyncTyped, [SyncNext]_syncVars PROVE SyncTyped'
  OBVIOUS
<1>1. CASE UNCHANGED syncVars
  BY <1>1 DEF syncVars, outside, inside, SyncTyped, Outside, Inside, ReadingTyped
<1>2. CASE SyncNext
  BY <1>2, SourceStepTyped, PassStepTyped DEF SyncNext
<1> QED BY <1>1, <1>2

(* Types of documents, orders, the cursor and the pass (sync.ts). *)
THEOREM SyncTypeCorrect == SyncSpec => []SyncTypeOK
<1>1. SyncSpec => []SyncTyped
  BY SyncTypesBegin, SyncTypedStep, PTL DEF SyncSpec
<1> QED BY <1>1, TypedIsTypeOK, PTL

-----------------------------------------------------------------------------
(* Reading orders: compositions.  An order is never ahead of its document, *)
(* and what waits in the queue is the order's own version.                 *)
OneOrder(d) ==
  /\ imported[d] <= edition[d]
  /\ awaited[d] \in {0, imported[d]}
  /\ confirmed[d].texts # imported[d] => awaited[d] = imported[d]
  /\ confirmed[d].texts # confirmed[d].positions =>
       awaited[d] = imported[d] \/ imported[d] # edition[d]

RowIsPast == reading.step = "row" => reading.row.edition <= edition[reading.row.doc]

SnapshotInv == SyncTyped /\ RowIsPast /\ \A d \in Document : OneOrder(d)

LEMMA SnapshotsBegin == SyncInit => SnapshotInv
<1> SUFFICES ASSUME SyncInit PROVE SnapshotInv
  OBVIOUS
<1>1. \A d \in Document : OneOrder(d)
  BY DEF SyncInit, OneOrder
<1>2. RowIsPast
  BY NoReadingTyped DEF SyncInit, RowIsPast
<1> QED BY <1>1, <1>2, SyncTypesBegin DEF SnapshotInv

LEMMA SameOrder ==
  ASSUME NEW d \in Document, OneOrder(d),
         imported'[d] = imported[d], awaited'[d] = awaited[d], confirmed'[d] = confirmed[d],
         edition'[d] = edition[d]
  PROVE  OneOrder(d)'
BY DEF OneOrder

LEMMA SnapshotPair ==
  ASSUME NEW t, NEW p
  PROVE  [texts |-> t, positions |-> p].texts = t /\ [texts |-> t, positions |-> p].positions = p
OBVIOUS

LEMMA OrderAfterFill ==
  ASSUME SnapshotInv, NEW d \in Document, FillComposition(d), NEW e \in Document
  PROVE  OneOrder(e)'
<1>1. awaited[d] \in Edition /\ edition[d] \in Edition /\ awaited[d] # 0 /\ OneOrder(d) /\ OneOrder(e)
  BY DEF FillComposition, SnapshotInv, SyncTyped, Inside, Outside
<1>2. Confirmed(d, awaited[d], edition[d]) /\ imported' = imported /\ edition' = edition /\ SyncTyped
  BY DEF FillComposition, outside, SnapshotInv
<1>3. /\ confirmed'[d] = [texts |-> awaited[d], positions |-> edition[d]] /\ awaited'[d] = 0
      /\ \A x \in Document : x # d => confirmed'[x] = confirmed[x] /\ awaited'[x] = awaited[x]
  BY <1>1, <1>2, ConfirmedTyped
<1>4. CASE e # d
  <2>1. confirmed'[e] = confirmed[e] /\ awaited'[e] = awaited[e]
    BY <1>3, <1>4
  <2>2. imported'[e] = imported[e] /\ edition'[e] = edition[e]
    BY <1>2
  <2> QED BY <1>1, <2>1, <2>2, SameOrder
<1>5. CASE e = d
  <2>1. confirmed'[d].texts = awaited[d] /\ confirmed'[d].positions = edition[d]
    BY <1>3, SnapshotPair
  <2>2. awaited[d] = imported[d] /\ imported[d] <= edition[d]
    BY <1>1 DEF OneOrder
  <2> QED BY <1>2, <1>3, <1>5, <2>1, <2>2 DEF OneOrder
<1> QED BY <1>4, <1>5

LEMMA OrderAfterRow ==
  ASSUME SnapshotInv, ApplyRow, NEW e \in Document
  PROVE  OneOrder(e)'
<1> DEFINE d == reading.row.doc
           v == reading.row.edition
<1>0. OneOrder(e) /\ edition' = edition /\ SyncTyped
  BY DEF SnapshotInv, ApplyRow, outside
<1>1. d \in Document /\ v \in Edition /\ v <= edition[d]
  BY <1>0, RowFields DEF SnapshotInv, RowIsPast, ApplyRow
<1>2. \/ UNCHANGED inside
      \/ /\ imported' = [imported EXCEPT ![d] = v]
         /\ awaited'[d] \in {0, v}
         /\ \/ confirmed'[d] = [texts |-> v, positions |-> v]
            \/ confirmed' = confirmed /\ awaited'[d] = v
         /\ \A x \in Document : x # d => confirmed'[x] = confirmed[x] /\ awaited'[x] = awaited[x]
  BY <1>0, RowApplied
<1>3. imported \in [Document -> Edition]
  BY <1>0 DEF SyncTyped, Inside
<1> HIDE DEF d, v
<1>4. CASE UNCHANGED inside
  BY <1>0, <1>4, SameOrder DEF inside
<1>5. CASE /\ imported' = [imported EXCEPT ![d] = v]
           /\ awaited'[d] \in {0, v}
           /\ \/ confirmed'[d] = [texts |-> v, positions |-> v]
              \/ confirmed' = confirmed /\ awaited'[d] = v
           /\ \A x \in Document : x # d => confirmed'[x] = confirmed[x] /\ awaited'[x] = awaited[x]
  <2>1. imported'[d] = v /\ (e # d => imported'[e] = imported[e])
    BY <1>1, <1>3, <1>5
  <2>2. CASE e # d
    BY <1>0, <1>5, <2>1, <2>2, SameOrder
  <2>3. CASE e = d /\ confirmed'[d] = [texts |-> v, positions |-> v]
    <3>1. confirmed'[d].texts = v /\ confirmed'[d].positions = v
      BY <2>3, SnapshotPair
    <3>2. awaited'[d] \in {0, v}
      BY <1>5
    <3> QED BY <1>0, <1>1, <2>1, <2>3, <3>1, <3>2 DEF OneOrder
  <2>4. CASE e = d /\ awaited'[d] = v
    BY <1>0, <1>1, <2>1, <2>4 DEF OneOrder
  <2> QED BY <1>5, <2>2, <2>3, <2>4
<1> QED BY <1>2, <1>4, <1>5

LEMMA OrderAfterChange ==
  ASSUME SnapshotInv, NEW d \in Document, ChangeDocument(d), NEW e \in Document
  PROVE  OneOrder(e)' /\ edition[e] <= edition'[e]
<1>1. OneOrder(e) /\ UNCHANGED inside
  BY DEF SnapshotInv, ChangeDocument
<1>2. edition'[e] = IF e = d THEN edition[e] + 1 ELSE edition[e]
  BY DEF SnapshotInv, SyncTyped, Outside, ChangeDocument
<1>3. edition[e] \in Nat /\ imported[e] \in Nat
  BY SyncAssumption DEF SnapshotInv, SyncTyped, Outside, Inside, Edition
<1>4. imported'[e] = imported[e] /\ awaited'[e] = awaited[e] /\ confirmed'[e] = confirmed[e]
  BY <1>1 DEF inside
<1>5. CASE e = d
  <2>1. imported[e] <= edition[e] /\ edition'[e] = edition[e] + 1
    BY <1>1, <1>2, <1>5 DEF OneOrder
  <2>2. imported'[e] <= edition'[e] /\ imported'[e] # edition'[e] /\ edition[e] <= edition'[e]
    BY <1>3, <1>4, <2>1
  <2> QED BY <1>1, <1>4, <2>2 DEF OneOrder
<1>6. CASE e # d
  BY <1>1, <1>2, <1>3, <1>4, <1>6, SameOrder
<1> QED BY <1>5, <1>6

LEMMA RowTyped ==
  ASSUME ReadingTyped, reading.step = "row"
  PROVE  reading.row.doc \in Document /\ reading.row.edition \in Edition
<1>1. reading.row \in [doc : Document \cup {Nowhere}, edition : Edition]
  BY DEF ReadingTyped, Readings
<1>2. reading.row.edition \in Edition
  <2> DEFINE w == reading.row
  <2>1. w \in [doc : Document \cup {Nowhere}, edition : Edition]
    BY <1>1
  <2> HIDE DEF w
  <2>2. w.edition \in Edition
    BY <2>1
  <2> QED BY <2>2 DEF w
<1> QED BY <1>2 DEF ReadingTyped

LEMMA RowStaysPast ==
  ASSUME SnapshotInv, [SyncNext]_syncVars
  PROVE  RowIsPast'
<1>0. SyncTyped /\ RowIsPast /\ SyncTyped'
  BY SyncTypedStep DEF SnapshotInv
<1>1. CASE UNCHANGED <<edition, reading>>
  BY <1>0, <1>1 DEF RowIsPast
<1>2. ASSUME NEW d \in Document, ChangeDocument(d) PROVE RowIsPast'
  <2>1. reading' = reading
    BY <1>2 DEF ChangeDocument
  <2> SUFFICES ASSUME reading.step = "row"
               PROVE  reading.row.edition <= edition'[reading.row.doc]
    BY <2>1 DEF RowIsPast
  <2> DEFINE x == reading.row.doc
             v == reading.row.edition
  <2>2. x \in Document /\ v \in Edition /\ v <= edition[x]
    <3>1. x \in Document
      BY <1>0, RowTyped DEF SyncTyped
    <3>2. v \in Edition
      BY <1>0, RowTyped DEF SyncTyped
    <3>3. v <= edition[x]
      BY <1>0 DEF RowIsPast
    <3> QED BY <3>1, <3>2, <3>3
  <2>3. edition[x] \in Nat /\ edition'[x] \in Nat
    <3>1. edition \in [Document -> Edition] /\ edition' \in [Document -> Edition]
      BY <1>0 DEF SyncTyped, Outside
    <3>2. Edition \subseteq Nat
      BY SyncAssumption DEF Edition
    <3> HIDE DEF x
    <3> QED BY <2>2, <3>1, <3>2
  <2>4. edition[x] <= edition'[x]
    BY <1>2, <2>2, OrderAfterChange
  <2>5. v \in Nat
    BY <2>2, SyncAssumption DEF Edition
  <2> HIDE DEF x, v
  <2>6. v <= edition'[x]
    BY <2>2, <2>3, <2>4, <2>5
  <2> QED BY <2>6 DEF x, v
<1>3. CASE ReadPage
  <2> SUFFICES ASSUME reading'.step = "row"
               PROVE  reading'.row.edition <= edition'[reading'.row.doc]
    BY DEF RowIsPast
  <2>0. reading' # NoReading /\ reading'.step # "compositions"
    BY NoReadingTyped
  <2>1. PICK d \in Listed : reading'.row = [doc |-> d, edition |-> edition[d]]
    BY <1>0, <1>3, <2>0, PageFields
  <2>2. edition' = edition /\ edition[d] \in Nat
    <3>1. edition \in [Document -> Edition] /\ edition' = edition
      BY <1>0, <1>3 DEF SyncTyped, Outside, ReadPage, outside
    <3>2. Edition \subseteq Nat /\ d \in Document
      BY SyncAssumption, ListedIsSmall DEF Edition
    <3> QED BY <3>1, <3>2
  <2> DEFINE w == [doc |-> d, edition |-> edition[d]]
  <2>3. w.doc = d /\ w.edition = edition[d]
    OBVIOUS
  <2>4. reading'.row = w
    BY <2>1
  <2> HIDE DEF w
  <2> QED BY <2>2, <2>3, <2>4
<1>4. CASE reading'.step # "row"
  BY <1>4 DEF RowIsPast
<1>5. ApplyRow => reading'.step # "row"
  BY <1>0, RowFields
<1>6. SaveCheckpoint => reading'.step # "row"
  BY <1>0, SaveFields
<1>7. ASSUME NEW kind \in {"initial", "delta", "reconciliation"}, BeginReading(kind)
      PROVE  reading'.step # "row"
  BY <1>0, <1>7, BeginFields
<1>8. EndInitialLoad \/ EndDelta \/ EndReconciliation \/ ReadingBreaksOff => reading'.step # "row"
  BY NoReadingTyped DEF EndInitialLoad, EndDelta, EndReconciliation, ReadingBreaksOff, Ended
<1>9. /\ TimePasses => UNCHANGED <<edition, reading>>
      /\ UNCHANGED syncVars => UNCHANGED <<edition, reading>>
      /\ \A d \in Document : DeleteDocument(d) \/ FillComposition(d) \/ MarkSourceMissing(d)
           => UNCHANGED <<edition, reading>>
  BY DEF TimePasses, syncVars, outside, DeleteDocument, FillComposition, MarkSourceMissing
<1> QED BY <1>1, <1>2, <1>3, <1>4, <1>5, <1>6, <1>7, <1>8, <1>9 DEF SyncNext

LEMMA SnapshotsStep == SnapshotInv /\ [SyncNext]_syncVars => SnapshotInv'
<1> SUFFICES ASSUME SnapshotInv, [SyncNext]_syncVars PROVE SnapshotInv'
  OBVIOUS
<1>1. SyncTyped' /\ RowIsPast'
  BY SyncTypedStep, RowStaysPast DEF SnapshotInv
<1>2. ASSUME NEW e \in Document PROVE OneOrder(e)'
  <2>0. OneOrder(e)
    BY DEF SnapshotInv
  <2>1. CASE edition' = edition /\ imported' = imported /\ awaited' = awaited /\ confirmed' = confirmed
    BY <2>0, <2>1, SameOrder
  <2>2. ASSUME NEW d \in Document, ChangeDocument(d) PROVE OneOrder(e)'
    BY <2>2, OrderAfterChange
  <2>3. ASSUME NEW d \in Document, FillComposition(d) PROVE OneOrder(e)'
    BY <2>3, OrderAfterFill
  <2>4. CASE ApplyRow
    BY <2>4, OrderAfterRow
  <2>5. ASSUME NEW d \in Document, DeleteDocument(d) \/ MarkSourceMissing(d) PROVE OneOrder(e)'
    <3>1. edition' = edition /\ imported' = imported /\ awaited' = awaited /\ confirmed' = confirmed
      BY <2>5 DEF DeleteDocument, MarkSourceMissing, inside, outside
    <3> QED BY <3>1, <2>1
  <2>6. ASSUME \/ TimePasses
               \/ \E kind \in {"initial", "delta", "reconciliation"} : BeginReading(kind)
               \/ ReadPage \/ SaveCheckpoint \/ EndInitialLoad \/ EndDelta \/ EndReconciliation
               \/ ReadingBreaksOff \/ UNCHANGED syncVars
        PROVE  OneOrder(e)'
    <3>1. edition' = edition /\ UNCHANGED inside
      BY <2>6 DEF TimePasses, BeginReading, ReadPage, SaveCheckpoint, EndInitialLoad, EndDelta,
                  EndReconciliation, ReadingBreaksOff, syncVars, outside
    <3> QED BY <3>1, <2>1 DEF inside
  <2> QED BY <2>2, <2>3, <2>4, <2>5, <2>6 DEF SyncNext
<1> QED BY <1>1, <1>2 DEF SnapshotInv

(* An order whose confirmed composition is not that of its version is in   *)
(* the queue for exactly that version (applyRows, runCompositionBackfill). *)
THEOREM CompositionsAwaited == SyncSpec => []CompositionIsAwaited
<1>1. SnapshotInv => CompositionIsAwaited
  BY DEF SnapshotInv, CompositionIsAwaited, OneOrder
<1> QED BY <1>1, SnapshotsBegin, SnapshotsStep, PTL DEF SyncSpec
-----------------------------------------------------------------------------
(* Reading orders: no change is lost.  The list of a delta pass is cut at  *)
(* the start of the pass, so a document that changes or is deleted leaves  *)
(* it; while the list has the size of its first page it is the same list,  *)
(* and everything in front of the reader has been read.                    *)

Before(e) == {f \in Listed : updated[f] < updated[e] \/ (updated[f] = updated[e] /\ f < e)}

Times ==
  /\ \A d \in Document : updated[d] <= moment
  /\ cursor.updated <= moment
  /\ reading.kind # "none" => cursor.updated <= reading.since /\ reading.since <= moment

Kinds ==
  /\ cursor.reconciled => cursor.loaded
  /\ reading.kind = "initial" => ~cursor.loaded
  /\ reading.kind = "reconciliation" => cursor.loaded
  /\ reading.kind = "delta" => cursor.reconciled
  /\ reading.step # "page" => reading.kind # "none"
  /\ reading.step = "save" => reading.kind = "initial"

(* A document that is not read as it is has changed since the pass began. *)
RowAsRead ==
  reading.step = "row" =>
    reading.row.edition = edition[reading.row.doc] \/ updated[reading.row.doc] >= reading.since

ReadIsFresh ==
  reading.kind \in {"delta", "reconciliation"} =>
    \A e \in reading.read : imported[e] = edition[e] \/ updated[e] >= reading.since

Passed == \A e \in Listed : Place(e) < reading.offset => e \in reading.read
AllThere == Cardinality(Listed) = reading.size

Unopened == reading.size = Nowhere => reading.offset = 0 /\ reading.step \in {"page", "compositions"}
Shrinks == reading.size # Nowhere => Cardinality(Listed) <= reading.size
AtPage == reading.step = "page" /\ reading.size # Nowhere =>
            reading.offset < reading.size /\ (AllThere => Passed)
AtRow == reading.step = "row" =>
  /\ AllThere => Passed /\ reading.row.doc \in Listed /\ Place(reading.row.doc) = reading.offset
  /\ reading.offset + 1 >= reading.size => Listed \subseteq reading.read \cup {reading.row.doc}
AtEnd == reading.step = "compositions" => Listed \subseteq reading.read

Paging == reading.kind = "delta" => Unopened /\ Shrinks /\ AtPage /\ AtRow /\ AtEnd

LossInv == SyncTyped /\ Times /\ Kinds /\ RowAsRead /\ ReadIsFresh /\ Paging /\ NextDeltaAsks

LEMMA PlaceIsCardinality ==
  /\ \A e : Place(e) = Cardinality(Before(e))
  /\ \A e : Before(e) \subseteq Listed /\ IsFiniteSet(Before(e)) /\ Cardinality(Before(e)) \in Nat
<1>1. \A e : Place(e) = Cardinality(Before(e)) /\ Before(e) \subseteq Listed
  BY DEF Place, Before
<1>2. ASSUME NEW e PROVE IsFiniteSet(Before(e)) /\ Cardinality(Before(e)) \in Nat
  BY <1>1, ListedIsSmall, FS_Subset, FS_CardinalityType
<1> QED BY <1>1, <1>2

LEMMA UpdatedIsNat ==
  ASSUME SyncTyped
  PROVE  /\ \A e \in Document : updated[e] \in Nat /\ e \in Nat
         /\ moment \in Nat /\ cursor.updated \in Int /\ reading.since \in Int
         /\ reading.offset \in Nat /\ reading.size \in Int
<1>1. updated \in [Document -> 0..LastMoment] /\ moment \in 0..LastMoment /\ LastMoment \in Nat
      /\ Document \subseteq Nat
  BY SyncAssumption DEF SyncTyped, Outside
<1>2. cursor.updated \in Nowhere..LastMoment
  BY DEF SyncTyped, Cursors
<1>3. reading.since \in Nowhere..LastMoment /\ reading.offset \in 0..Count /\ reading.size \in Nowhere..Count
  BY DEF SyncTyped, ReadingTyped, Readings
<1>4. Nowhere \in Int /\ Count \in Nat
  BY CountIsNat DEF Nowhere
<1> QED BY <1>1, <1>2, <1>3, <1>4

LEMMA PlaceInside ==
  ASSUME SyncTyped, NEW e \in Listed
  PROVE  Place(e) < Cardinality(Listed) /\ Place(e) \in Nat
<1>1. e \notin Before(e) /\ Before(e) \subseteq Listed \ {e}
  BY UpdatedIsNat, ListedIsSmall DEF Before
<1>2. /\ IsFiniteSet(Listed \ {e})
      /\ Cardinality(Listed \ {e}) = Cardinality(Listed) - 1
  BY ListedIsSmall, FS_RemoveElement
<1>3. Cardinality(Before(e)) <= Cardinality(Listed \ {e})
  BY <1>1, <1>2, FS_Subset
<1> QED BY <1>2, <1>3, PlaceIsCardinality, ListedIsSmall, CountIsNat

LEMMA EarlierPlace ==
  ASSUME SyncTyped, NEW e \in Listed, NEW f \in Listed, e \in Before(f)
  PROVE  Place(e) < Place(f)
<1>1. Before(e) \subseteq Before(f) \ {e}
  <2> SUFFICES ASSUME NEW x \in Before(e) PROVE x \in Before(f) /\ x # e
    OBVIOUS
  <2>1. /\ x \in Listed
        /\ updated[x] < updated[e] \/ (updated[x] = updated[e] /\ x < e)
        /\ updated[e] < updated[f] \/ (updated[e] = updated[f] /\ e < f)
    BY DEF Before
  <2>2. /\ updated[x] \in Nat /\ updated[e] \in Nat /\ updated[f] \in Nat
        /\ x \in Nat /\ e \in Nat /\ f \in Nat
    BY <2>1, UpdatedIsNat, ListedIsSmall
  <2>3. updated[x] < updated[f] \/ (updated[x] = updated[f] /\ x < f)
    BY <2>1, <2>2
  <2>4. x # e
    BY <2>1, <2>2
  <2> QED BY <2>1, <2>3, <2>4 DEF Before
<1>2. /\ IsFiniteSet(Before(f) \ {e})
      /\ Cardinality(Before(f) \ {e}) = Cardinality(Before(f)) - 1
  BY PlaceIsCardinality, FS_RemoveElement
<1>3. Cardinality(Before(e)) <= Cardinality(Before(f) \ {e})
  BY <1>1, <1>2, FS_Subset
<1> QED BY <1>2, <1>3, PlaceIsCardinality

LEMMA PlacesDiffer ==
  ASSUME SyncTyped, NEW e \in Listed, NEW f \in Listed, Place(e) = Place(f)
  PROVE  e = f
<1> SUFFICES ASSUME e # f PROVE FALSE
  OBVIOUS
<1>1. /\ updated[e] \in Nat /\ updated[f] \in Nat /\ e \in Nat /\ f \in Nat
  BY UpdatedIsNat, ListedIsSmall
<1>2. \/ updated[e] < updated[f] \/ (updated[e] = updated[f] /\ e < f)
      \/ updated[f] < updated[e] \/ (updated[f] = updated[e] /\ f < e)
  BY <1>1
<1>3. e \in Before(f) \/ f \in Before(e)
  BY <1>2 DEF Before
<1>4. Place(e) < Place(f) \/ Place(f) < Place(e)
  BY <1>3, EarlierPlace
<1>5. Place(e) \in Nat /\ Place(f) \in Nat
  BY PlaceInside
<1> QED BY <1>4, <1>5

(* A step of the pass leaves the list as it is. *)
LEMMA SameList ==
  ASSUME UNCHANGED <<updated, deleted>>, cursor'.updated = cursor.updated,
         reading'.kind = reading.kind, reading'.since = reading.since
  PROVE  Listed' = Listed /\ \A e : Place(e)' = Place(e)
<1>1. \A d : InWindow(d)' = InWindow(d)
  BY DEF InWindow
<1>2. Listed' = Listed
  BY <1>1 DEF Listed
<1> QED BY <1>2 DEF Place

(* A step of MoySklad only takes documents off a delta pass's list. *)
LEMMA ListShrinks ==
  ASSUME SyncTyped, Times, reading.kind = "delta", UNCHANGED <<cursor, reading>>,
         deleted \subseteq deleted',
         \A d \in Document : updated'[d] = updated[d] \/ updated'[d] = moment
  PROVE  Listed' \subseteq Listed /\ \A d \in Listed' : updated'[d] = updated[d]
<1> SUFFICES ASSUME NEW d \in Listed' PROVE d \in Listed /\ updated'[d] = updated[d]
  OBVIOUS
<1>1. d \in Document /\ d \notin deleted'
  BY DEF Listed
<1>2. InWindow(d)'
  BY DEF Listed
<1>3. updated'[d] >= cursor.updated - Overlap /\ updated'[d] < reading.since
  BY <1>2 DEF InWindow
<1>4. reading.since <= moment /\ moment \in Nat /\ reading.since \in Int
  BY UpdatedIsNat DEF Times
<1>5. updated'[d] = updated[d]
  BY <1>1, <1>3, <1>4
<1>6. d \in Document \ deleted /\ InWindow(d)
  BY <1>1, <1>3, <1>5 DEF InWindow
<1> QED BY <1>5, <1>6 DEF Listed

LEMMA PagingOutside ==
  ASSUME SyncTyped, Paging, reading.kind = "delta", UNCHANGED <<cursor, reading>>,
         Listed' \subseteq Listed, \A d \in Listed' : updated'[d] = updated[d]
  PROVE  Paging'
<1>0. Unopened /\ Shrinks /\ AtPage /\ AtRow /\ AtEnd /\ reading' = reading
  BY DEF Paging
<1>1. IsFiniteSet(Listed) /\ Cardinality(Listed) \in Nat
  BY ListedIsSmall, CountIsNat
<1>2. IsFiniteSet(Listed') /\ Cardinality(Listed') <= Cardinality(Listed)
      /\ (Cardinality(Listed) = Cardinality(Listed') => Listed' = Listed)
  BY <1>1, FS_Subset
<1>3. Cardinality(Listed') \in Nat
  BY <1>2, FS_CardinalityType
<1>4. reading.size \in Int
  BY UpdatedIsNat
<1>5. AllThere' => AllThere /\ Listed' = Listed
  BY <1>0, <1>1, <1>2, <1>3, <1>4 DEF AllThere, Shrinks, Nowhere
<1>6. ASSUME Listed' = Listed, NEW e \in Listed PROVE Place(e)' = Place(e)
  BY <1>6 DEF Place
<1>7. AllThere' /\ Passed => Passed'
  BY <1>0, <1>5, <1>6 DEF Passed
<1>8. Unopened'
  BY <1>0 DEF Unopened
<1>9. Shrinks'
  BY <1>0, <1>1, <1>2, <1>3, <1>4 DEF Shrinks
<1>10. AtPage'
  BY <1>0, <1>5, <1>7 DEF AtPage
<1>11. AtRow'
  <2> SUFFICES ASSUME reading.step = "row" PROVE AtRow'
    BY <1>0 DEF AtRow
  <2>1. AllThere' => Passed'
    BY <1>0, <1>5, <1>7 DEF AtRow
  <2>2. ASSUME AllThere', NEW x, x = reading.row.doc
        PROVE  x \in Listed' /\ Place(x)' = reading.offset
    <3>1. x \in Listed /\ Place(x) = reading.offset /\ Listed' = Listed
      BY <1>0, <1>5, <2>2 DEF AtRow
    <3> QED BY <1>6, <3>1
  <2>3. reading.offset + 1 >= reading.size => Listed' \subseteq reading.read \cup {reading.row.doc}
    BY <1>0 DEF AtRow
  <2>4. ASSUME AllThere'
        PROVE  reading'.row.doc \in Listed' /\ Place(reading.row.doc)' = reading'.offset
    <3>1. PICK x : x = reading.row.doc
      OBVIOUS
    <3>2. x = reading'.row.doc
      BY <1>0, <3>1
    <3>3. x \in Listed' /\ Place(x)' = reading.offset
      BY <2>2, <2>4, <3>1
    <3>4. Place(reading.row.doc)' = Place(x)'
      BY <3>2
    <3> QED BY <1>0, <3>2, <3>3, <3>4
  <2> QED BY <1>0, <2>1, <2>3, <2>4 DEF AtRow
<1>12. AtEnd'
  BY <1>0 DEF AtEnd
<1> QED BY <1>8, <1>9, <1>10, <1>11, <1>12 DEF Paging
LEMMA PageKeepsPaging ==
  ASSUME SyncTyped, Paging, Kinds, reading.kind = "delta", ReadPage
  PROVE  Paging'
<1>0. Unopened /\ Shrinks /\ AtPage /\ reading.step = "page"
  BY DEF Paging, ReadPage
<1>1. Cardinality(Listed) \in Nat /\ reading.offset \in Nat /\ reading.size \in Int
  BY ListedIsSmall, CountIsNat, UpdatedIsNat
<1>2. UNCHANGED <<updated, deleted>> /\ cursor' = cursor
  BY DEF ReadPage, outside
<1>3. CASE reading' = NoReading
  BY <1>3, NoReadingTyped DEF Paging
<1>4. CASE /\ reading'.step = "compositions"
           /\ reading.offset >= Cardinality(Listed)
           /\ reading.size = Nowhere \/ reading.offset >= reading.size
           /\ reading'.kind = reading.kind /\ reading'.since = reading.since
           /\ reading'.read = reading.read /\ reading'.offset = reading.offset
           /\ reading'.size = reading.size
  <2>1. Listed' = Listed
    BY <1>2, <1>4, SameList
  <2>2. Listed = {}
    <3>1. reading.size = Nowhere
      BY <1>0, <1>1, <1>4 DEF AtPage
    <3>2. Cardinality(Listed) = 0
      BY <1>0, <1>1, <1>4, <3>1 DEF Unopened
    <3> QED BY <3>2, ListedIsSmall, FS_EmptySet
  <2>3. Unopened' /\ Shrinks'
    BY <1>0, <1>4, <2>1 DEF Unopened, Shrinks
  <2>4. AtPage' /\ AtRow' /\ AtEnd'
    BY <1>4, <2>1, <2>2 DEF AtPage, AtRow, AtEnd
  <2> QED BY <2>3, <2>4 DEF Paging
<1>5. ASSUME NEW d \in Listed,
             reading'.step = "row", Place(d) = reading.offset,
             reading.offset < Cardinality(Listed),
             reading'.row = [doc |-> d, edition |-> edition[d]],
             reading'.kind = reading.kind, reading'.since = reading.since,
             reading'.read = reading.read, reading'.offset = reading.offset,
             reading'.size = IF reading.size = Nowhere THEN Cardinality(Listed) ELSE reading.size
      PROVE  Paging'
  <2>1. Listed' = Listed /\ \A e : Place(e)' = Place(e)
    BY <1>2, <1>5, SameList
  <2>2. reading'.row.doc = d
    BY <1>5, RowDoc
  <2>3. /\ reading'.size # Nowhere /\ Cardinality(Listed) <= reading'.size
        /\ reading'.size \in Int
    BY <1>0, <1>1, <1>5 DEF Shrinks, Nowhere
  <2>4. ASSUME Cardinality(Listed) = reading'.size, NEW e \in Listed, Place(e) < reading.offset
        PROVE  e \in reading.read
    <3>1. Place(e) \in Nat
      BY PlaceInside
    <3>2. reading.size # Nowhere
      BY <1>0, <1>1, <2>4, <3>1 DEF Unopened
    <3>3. AllThere
      BY <1>5, <2>4, <3>2 DEF AllThere
    <3> QED BY <1>0, <2>4, <3>2, <3>3 DEF AtPage, Passed
  <2>5. ASSUME reading.offset + 1 >= reading'.size, NEW e \in Listed
        PROVE  e \in reading.read \cup {d}
    <3>1. Cardinality(Listed) = reading'.size /\ Cardinality(Listed) = reading.offset + 1
      BY <1>1, <1>5, <2>3, <2>5
    <3>2. Place(e) \in Nat /\ Place(e) < reading.offset + 1
      BY <3>1, PlaceInside
    <3>3. CASE Place(e) < reading.offset
      BY <2>4, <3>1, <3>3
    <3>4. CASE Place(e) = reading.offset
      BY <1>5, <3>4, PlacesDiffer
    <3> QED BY <1>1, <3>2, <3>3, <3>4
  <2>6. Unopened' /\ Shrinks' /\ AtPage' /\ AtEnd'
    BY <1>5, <2>1, <2>3 DEF Unopened, Shrinks, AtPage, AtEnd
  <2>7. AllThere' => Passed'
    BY <1>5, <2>1, <2>4 DEF AllThere, Passed
  <2>8. reading'.row.doc \in Listed' /\ Place(reading.row.doc)' = reading'.offset
    <3>1. Place(reading.row.doc)' = Place(d)'
      BY <2>2
    <3> QED BY <1>5, <2>1, <2>2, <3>1
  <2>9. reading'.offset + 1 >= reading'.size => Listed' \subseteq reading'.read \cup {reading'.row.doc}
    BY <1>5, <2>1, <2>2, <2>5
  <2> QED BY <2>6, <2>7, <2>8, <2>9 DEF Paging, AtRow
<1> QED BY <1>3, <1>4, <1>5, PageFields

LEMMA RowKeepsPaging ==
  ASSUME SyncTyped, Paging, reading.kind = "delta", ApplyRow
  PROVE  Paging'
<1>0. Unopened /\ Shrinks /\ AtRow /\ reading.step = "row"
  BY DEF Paging, ApplyRow
<1>1. Cardinality(Listed) \in Nat /\ reading.offset \in Nat /\ reading.size \in Int
  BY ListedIsSmall, CountIsNat, UpdatedIsNat
<1>2. /\ reading'.kind = reading.kind /\ reading'.since = reading.since
      /\ reading'.size = reading.size /\ reading'.offset = reading.offset + 1
      /\ reading'.read = reading.read \cup {reading.row.doc}
      /\ reading'.step \in {"page", "compositions"}
      /\ reading'.step = "page" => reading.offset + 1 < reading.size
      /\ reading'.step = "compositions" => ~(reading.offset + 1 < reading.size)
  BY RowFields
<1>3. Listed' = Listed /\ \A e : Place(e)' = Place(e)
  <2>1. UNCHANGED <<updated, deleted>> /\ cursor' = cursor
    BY DEF ApplyRow, outside
  <2> QED BY <1>2, <2>1, SameList
<1>4. reading.size # Nowhere
  BY <1>0 DEF Unopened
<1>5. Unopened' /\ Shrinks' /\ AtRow'
  BY <1>0, <1>2, <1>3, <1>4 DEF Unopened, Shrinks, AtRow
<1>6. AtEnd'
  BY <1>0, <1>1, <1>2, <1>3 DEF AtEnd, AtRow
<1>7. AtPage'
  <2> SUFFICES ASSUME reading'.step = "page" PROVE AtPage'
    BY DEF AtPage
  <2>1. ASSUME AllThere, NEW e \in Listed, Place(e) < reading.offset + 1
        PROVE  e \in reading.read \cup {reading.row.doc}
    <3>1. Passed /\ reading.row.doc \in Listed /\ Place(reading.row.doc) = reading.offset
      BY <1>0, <2>1 DEF AtRow
    <3>2. Place(e) \in Nat
      BY PlaceInside
    <3>3. CASE Place(e) < reading.offset
      BY <3>1, <3>3 DEF Passed
    <3>4. CASE Place(e) = reading.offset
      BY <3>1, <3>4, PlacesDiffer
    <3> QED BY <1>1, <2>1, <3>2, <3>3, <3>4
  <2>2. AllThere' => Passed'
    BY <1>2, <1>3, <2>1 DEF AllThere, Passed
  <2> QED BY <1>2, <2>2 DEF AtPage
<1> QED BY <1>5, <1>6, <1>7 DEF Paging
(* What the steps of a pass do to its time and to the cursor. *)
LEMMA PassGoesOn ==
  ASSUME SyncTyped, Kinds, ReadPage \/ ApplyRow \/ SaveCheckpoint
  PROVE  /\ UNCHANGED outside /\ reading.kind # "none"
         /\ cursor'.updated = cursor.updated /\ cursor'.loaded = cursor.loaded
         /\ cursor'.reconciled = cursor.reconciled
         /\ \/ reading' = NoReading
            \/ /\ reading'.kind = reading.kind /\ reading'.since = reading.since
               /\ reading'.step = "save" => reading.kind = "initial"
         /\ SaveCheckpoint => reading.kind = "initial"
<1>1. UNCHANGED outside /\ reading.kind # "none" /\ (SaveCheckpoint => reading.kind = "initial")
  BY DEF ReadPage, ApplyRow, SaveCheckpoint, Kinds
<1>2. CASE ReadPage
  <2>1. cursor' = cursor
    BY <1>2 DEF ReadPage
  <2> QED BY <1>1, <1>2, <2>1, PageFields
<1>3. CASE ApplyRow
  <2>1. cursor' = cursor
    BY <1>3 DEF ApplyRow
  <2>2. /\ reading'.kind = reading.kind /\ reading'.since = reading.since
        /\ reading'.step = "save" => reading.kind = "initial"
    BY <1>3, RowFields
  <2> QED BY <1>1, <2>1, <2>2
<1>4. CASE SaveCheckpoint
  <2>1. /\ reading'.kind = reading.kind /\ reading'.since = reading.since
        /\ reading'.step = "save" => reading.kind = "initial"
    BY <1>4, SaveFields
  <2>2. /\ cursor'.updated = cursor.updated /\ cursor'.loaded = cursor.loaded
        /\ cursor'.reconciled = cursor.reconciled
    BY <1>4, CursorSteps
  <2> QED BY <1>1, <2>1, <2>2
<1> QED BY <1>2, <1>3, <1>4

LEMMA PassIsOver ==
  ASSUME SyncTyped, EndInitialLoad \/ EndDelta \/ EndReconciliation \/ ReadingBreaksOff
  PROVE  /\ UNCHANGED <<outside, inside>> /\ reading' = NoReading
         /\ EndInitialLoad => reading.kind = "initial" /\ cursor'.updated = reading.since
              /\ cursor'.loaded /\ cursor'.reconciled = cursor.reconciled
         /\ EndDelta => reading.kind = "delta" /\ cursor'.updated = reading.since
              /\ cursor'.loaded = cursor.loaded /\ cursor'.reconciled = cursor.reconciled
         /\ EndReconciliation => reading.kind = "reconciliation" /\ cursor'.updated = cursor.updated
              /\ cursor'.loaded = cursor.loaded /\ cursor'.reconciled = TRUE
         /\ ReadingBreaksOff => cursor' = cursor
<1>1. /\ UNCHANGED <<outside, inside>> /\ reading' = NoReading
      /\ EndInitialLoad => reading.kind = "initial"
      /\ EndDelta => reading.kind = "delta"
      /\ EndReconciliation => reading.kind = "reconciliation"
      /\ ReadingBreaksOff => cursor' = cursor
  BY DEF EndInitialLoad, EndDelta, EndReconciliation, ReadingBreaksOff, Ended
<1> QED BY <1>1, CursorSteps

LEMMA DocumentChanges ==
  ASSUME SyncTyped, NEW d \in Document, ChangeDocument(d), NEW e \in Document
  PROVE  /\ e # d => edition'[e] = edition[e] /\ updated'[e] = updated[e]
         /\ updated'[d] = moment /\ d \notin deleted
         /\ UNCHANGED <<deleted, moment, inside, cursor, reading>>
BY DEF SyncTyped, Outside, ChangeDocument

LEMMA TimesStep ==
  ASSUME SyncTyped, Times, Kinds, SyncNext
  PROVE  Times'
<1>0. /\ \A e \in Document : updated[e] \in Nat
      /\ moment \in Nat /\ cursor.updated \in Int /\ reading.since \in Int
  BY UpdatedIsNat
<1>1. ASSUME NEW d \in Document, ChangeDocument(d) PROVE Times'
  <2>1. \A e \in Document : updated'[e] = updated[e] \/ updated'[e] = moment
    BY <1>1, DocumentChanges
  <2>2. moment' = moment /\ cursor' = cursor /\ reading' = reading
    BY <1>1 DEF ChangeDocument
  <2> QED BY <1>0, <2>1, <2>2 DEF Times
<1>2. CASE TimePasses
  <2>1. moment' = moment + 1 /\ updated' = updated /\ cursor' = cursor /\ reading' = reading
    BY <1>2 DEF TimePasses
  <2> QED BY <1>0, <2>1 DEF Times
<1>3. ASSUME NEW d \in Document, DeleteDocument(d) \/ FillComposition(d) \/ MarkSourceMissing(d)
      PROVE  Times'
  <2>1. moment' = moment /\ updated' = updated /\ cursor' = cursor /\ reading' = reading
    BY <1>3 DEF DeleteDocument, FillComposition, MarkSourceMissing, outside
  <2> QED BY <2>1 DEF Times
<1>4. ASSUME NEW kind \in {"initial", "delta", "reconciliation"}, BeginReading(kind) PROVE Times'
  <2>1. reading'.since = moment /\ cursor'.updated = cursor.updated
    BY <1>4, BeginFields
  <2>2. moment' = moment /\ updated' = updated
    BY <1>4 DEF BeginReading, outside
  <2> QED BY <1>0, <2>1, <2>2 DEF Times
<1>5. CASE ReadPage \/ ApplyRow \/ SaveCheckpoint
  <2>1. moment' = moment /\ updated' = updated
    BY <1>5, PassGoesOn DEF outside
  <2> QED BY <1>5, <2>1, PassGoesOn, NoReadingTyped DEF Times
<1>6. CASE EndInitialLoad \/ EndDelta \/ EndReconciliation \/ ReadingBreaksOff
  <2>1. moment' = moment /\ updated' = updated /\ reading' = NoReading
    BY <1>6, PassIsOver DEF outside
  <2>2. cursor'.updated = cursor.updated \/ (cursor'.updated = reading.since /\ reading.kind # "none")
    BY <1>6, PassIsOver
  <2> QED BY <1>0, <2>1, <2>2, NoReadingTyped DEF Times
<1> QED BY <1>1, <1>2, <1>3, <1>4, <1>5, <1>6 DEF SyncNext

LEMMA KindsStep ==
  ASSUME SyncTyped, Kinds, SyncNext
  PROVE  Kinds'
<1>1. ASSUME \/ \E d \in Document : ChangeDocument(d) \/ DeleteDocument(d)
                                      \/ FillComposition(d) \/ MarkSourceMissing(d)
             \/ TimePasses
      PROVE  Kinds'
  <2>1. cursor' = cursor /\ reading' = reading
    BY <1>1 DEF ChangeDocument, DeleteDocument, FillComposition, MarkSourceMissing, TimePasses
  <2> QED BY <2>1 DEF Kinds
<1>2. ASSUME NEW kind \in {"initial", "delta", "reconciliation"}, BeginReading(kind) PROVE Kinds'
  BY <1>2, BeginFields DEF Kinds
<1>3. CASE ReadPage \/ ApplyRow \/ SaveCheckpoint
  <2>1. CASE reading' = NoReading
    BY <1>3, <2>1, PassGoesOn, NoReadingTyped DEF Kinds
  <2>2. CASE reading' # NoReading
    BY <1>3, <2>2, PassGoesOn DEF Kinds
  <2> QED BY <2>1, <2>2
<1>4. CASE EndInitialLoad \/ EndDelta \/ EndReconciliation \/ ReadingBreaksOff
  <2>1. cursor'.reconciled => cursor'.loaded
    BY <1>4, PassIsOver DEF Kinds
  <2> QED BY <1>4, <2>1, PassIsOver, NoReadingTyped DEF Kinds
<1> QED BY <1>1, <1>2, <1>3, <1>4 DEF SyncNext

LEMMA RowAsReadStep ==
  ASSUME SyncTyped, Times, Kinds, RowAsRead, SyncNext
  PROVE  RowAsRead'
<1>1. ASSUME NEW d \in Document, ChangeDocument(d) PROVE RowAsRead'
  <2>0. reading' = reading
    BY <1>1 DEF ChangeDocument
  <2> SUFFICES ASSUME reading.step = "row", NEW x, x = reading.row.doc, NEW v, v = reading.row.edition
               PROVE  v = edition'[x] \/ updated'[x] >= reading.since
    BY <2>0 DEF RowAsRead
  <2>1. x \in Document
    BY RowTyped DEF SyncTyped
  <2>2. v = edition[x] \/ updated[x] >= reading.since
    BY DEF RowAsRead
  <2>3. reading.since <= moment /\ reading.since \in Int /\ moment \in Nat
    BY UpdatedIsNat DEF Times, Kinds
  <2>4. /\ x # d => edition'[x] = edition[x] /\ updated'[x] = updated[x]
        /\ x = d => updated'[x] = moment
    BY <1>1, <2>1, DocumentChanges
  <2> QED BY <2>2, <2>3, <2>4
<1>2. CASE UNCHANGED <<edition, updated, reading>>
  BY <1>2 DEF RowAsRead
<1>3. CASE ReadPage
  <2> SUFFICES ASSUME reading'.step = "row" PROVE reading'.row.edition = edition'[reading'.row.doc]
    BY DEF RowAsRead
  <2>0. reading' # NoReading /\ reading'.step # "compositions"
    BY NoReadingTyped
  <2>1. PICK d \in Listed : reading'.row = [doc |-> d, edition |-> edition[d]]
    BY <1>3, <2>0, PageFields
  <2>2. edition' = edition
    BY <1>3 DEF ReadPage, outside
  <2>3. reading'.row.doc = d /\ reading'.row.edition = edition[d]
    BY <2>1, RowDoc
  <2> QED BY <2>2, <2>3
<1>4. CASE reading'.step # "row"
  BY <1>4 DEF RowAsRead
<1>5. ApplyRow \/ SaveCheckpoint => reading'.step # "row"
  BY RowFields, SaveFields
<1>6. ASSUME NEW kind \in {"initial", "delta", "reconciliation"}, BeginReading(kind)
      PROVE  reading'.step # "row"
  BY <1>6, BeginFields
<1>7. EndInitialLoad \/ EndDelta \/ EndReconciliation \/ ReadingBreaksOff => reading'.step # "row"
  BY PassIsOver, NoReadingTyped
<1>8. /\ TimePasses => UNCHANGED <<edition, updated, reading>>
      /\ \A d \in Document : DeleteDocument(d) \/ FillComposition(d) \/ MarkSourceMissing(d)
           => UNCHANGED <<edition, updated, reading>>
  BY DEF TimePasses, outside, DeleteDocument, FillComposition, MarkSourceMissing
<1> QED BY <1>1, <1>2, <1>3, <1>4, <1>5, <1>6, <1>7, <1>8 DEF SyncNext
LEMMA ReadIsFreshStep ==
  ASSUME SyncTyped, Times, Kinds, RowAsRead, ReadIsFresh, SyncNext
  PROVE  ReadIsFresh'
<1>1. ASSUME NEW d \in Document, ChangeDocument(d) PROVE ReadIsFresh'
  <2>0. reading' = reading /\ imported' = imported
    BY <1>1 DEF ChangeDocument, inside
  <2> SUFFICES ASSUME reading.kind \in {"delta", "reconciliation"}, NEW e \in reading.read
               PROVE  imported[e] = edition'[e] \/ updated'[e] >= reading.since
    BY <2>0 DEF ReadIsFresh
  <2>1. e \in Document
    BY DEF SyncTyped, ReadingTyped, Readings
  <2>2. imported[e] = edition[e] \/ updated[e] >= reading.since
    BY DEF ReadIsFresh
  <2>3. reading.since <= moment /\ reading.since \in Int /\ moment \in Nat
    BY UpdatedIsNat DEF Times
  <2>4. /\ e # d => edition'[e] = edition[e] /\ updated'[e] = updated[e]
        /\ e = d => updated'[e] = moment
    BY <1>1, <2>1, DocumentChanges
  <2> QED BY <2>2, <2>3, <2>4
<1>2. CASE UNCHANGED <<edition, updated, imported, reading>>
  BY <1>2 DEF ReadIsFresh
<1>3. ASSUME NEW kind \in {"initial", "delta", "reconciliation"}, BeginReading(kind)
      PROVE  ReadIsFresh'
  BY <1>3, BeginFields DEF ReadIsFresh
<1>4. CASE reading'.kind \notin {"delta", "reconciliation"}
  BY <1>4 DEF ReadIsFresh
<1>5. CASE ReadPage
  <2>1. UNCHANGED <<edition, updated, imported>>
    BY <1>5 DEF ReadPage, outside, inside
  <2>2. CASE reading' = NoReading
    BY <2>2, NoReadingTyped DEF ReadIsFresh
  <2>3. CASE reading' # NoReading
    <3>1. /\ reading'.kind = reading.kind /\ reading'.since = reading.since
          /\ reading'.read = reading.read
      BY <1>5, <2>3, PageFields
    <3> QED BY <2>1, <3>1 DEF ReadIsFresh
  <2> QED BY <2>2, <2>3
<1>6. CASE ApplyRow
  <2>1. UNCHANGED <<edition, updated>> /\ reading.step = "row"
    BY <1>6 DEF ApplyRow, outside
  <2>2. /\ reading'.kind = reading.kind /\ reading'.since = reading.since
        /\ reading.kind # "initial" => reading'.read = reading.read \cup {reading.row.doc}
    BY <1>6, RowFields
  <2> SUFFICES ASSUME reading.kind \in {"delta", "reconciliation"},
                      NEW e \in reading.read \cup {reading.row.doc}
               PROVE  imported'[e] = edition[e] \/ updated[e] >= reading.since
    BY <2>1, <2>2 DEF ReadIsFresh
  <2>3. /\ \/ UNCHANGED inside /\ reading.row.doc \in reading.read
           \/ imported' = [imported EXCEPT ![reading.row.doc] = reading.row.edition]
    BY <1>6, RowApplied
  <2>4. imported \in [Document -> Edition] /\ e \in Document
    BY <2>1, RowTyped DEF SyncTyped, Inside, ReadingTyped, Readings
  <2>5. CASE UNCHANGED inside /\ reading.row.doc \in reading.read
    BY <2>5 DEF inside, ReadIsFresh
  <2>6. CASE imported' = [imported EXCEPT ![reading.row.doc] = reading.row.edition]
    <3>1. CASE e = reading.row.doc
      <4>1. imported'[e] = reading.row.edition
        BY <2>4, <2>6, <3>1
      <4> QED BY <2>1, <3>1, <4>1 DEF RowAsRead
    <3>2. CASE e # reading.row.doc
      <4>1. imported'[e] = imported[e] /\ e \in reading.read
        BY <2>4, <2>6, <3>2
      <4> QED BY <4>1 DEF ReadIsFresh
    <3> QED BY <3>1, <3>2
  <2> QED BY <2>3, <2>5, <2>6
<1>7. SaveCheckpoint => reading'.kind \notin {"delta", "reconciliation"}
  BY PassGoesOn, NoReadingTyped
<1>8. EndInitialLoad \/ EndDelta \/ EndReconciliation \/ ReadingBreaksOff
        => reading'.kind \notin {"delta", "reconciliation"}
  BY PassIsOver, NoReadingTyped
<1>9. /\ TimePasses => UNCHANGED <<edition, updated, imported, reading>>
      /\ \A d \in Document : DeleteDocument(d) \/ FillComposition(d) \/ MarkSourceMissing(d)
           => UNCHANGED <<edition, updated, imported, reading>>
  BY DEF TimePasses, inside, outside, DeleteDocument, FillComposition, MarkSourceMissing
<1> QED BY <1>1, <1>2, <1>3, <1>4, <1>5, <1>6, <1>7, <1>8, <1>9 DEF SyncNext

LEMMA PagingStep ==
  ASSUME SyncTyped, Times, Kinds, Paging, SyncNext
  PROVE  Paging'
<1>0. CASE reading'.kind # "delta"
  BY <1>0 DEF Paging
<1>1. ASSUME UNCHANGED <<cursor, reading>>, deleted \subseteq deleted',
             \A d \in Document : updated'[d] = updated[d] \/ updated'[d] = moment
      PROVE  Paging'
  <2>1. CASE reading.kind = "delta"
    BY <1>1, <2>1, ListShrinks, PagingOutside
  <2>2. CASE reading.kind # "delta"
    BY <1>0, <1>1, <2>2
  <2> QED BY <2>1, <2>2
<1>2. ASSUME NEW d \in Document, ChangeDocument(d) PROVE Paging'
  <2>1. UNCHANGED <<cursor, reading>> /\ deleted' = deleted
    BY <1>2 DEF ChangeDocument
  <2>2. \A e \in Document : updated'[e] = updated[e] \/ updated'[e] = moment
    BY <1>2, DocumentChanges
  <2> QED BY <1>1, <2>1, <2>2
<1>3. ASSUME \/ \E d \in Document : DeleteDocument(d) \/ FillComposition(d) \/ MarkSourceMissing(d)
             \/ TimePasses
      PROVE  Paging'
  <2>1. UNCHANGED <<cursor, reading, updated>> /\ deleted \subseteq deleted'
    BY <1>3 DEF DeleteDocument, FillComposition, MarkSourceMissing, TimePasses, outside
  <2> QED BY <1>1, <2>1
<1>4. ASSUME NEW kind \in {"initial", "delta", "reconciliation"}, BeginReading(kind) PROVE Paging'
  <2>1. CASE kind # "delta"
    BY <1>0, <1>4, <2>1, BeginFields
  <2>2. CASE kind = "delta"
    <3>1. reading'.size = Nowhere /\ reading'.offset = 0 /\ reading'.step = "page"
      BY <1>4, <2>2, BeginFields
    <3> QED BY <3>1 DEF Paging, Unopened, Shrinks, AtPage, AtRow, AtEnd
  <2> QED BY <2>1, <2>2
<1>5. CASE reading.kind = "delta" /\ (ReadPage \/ ApplyRow)
  BY <1>5, PageKeepsPaging, RowKeepsPaging
<1>6. CASE SaveCheckpoint \/ (reading.kind # "delta" /\ (ReadPage \/ ApplyRow))
  BY <1>0, <1>6, PassGoesOn, NoReadingTyped
<1>7. CASE EndInitialLoad \/ EndDelta \/ EndReconciliation \/ ReadingBreaksOff
  BY <1>0, <1>7, PassIsOver, NoReadingTyped
<1> QED BY <1>2, <1>3, <1>4, <1>5, <1>6, <1>7 DEF SyncNext

(* An order that lags at the end of a delta pass has changed since it began. *)
LEMMA DeltaReadsWindow ==
  ASSUME LossInv, EndDelta, NEW d \in Document, Behind(d)
  PROVE  updated[d] >= reading.since
<1>1. /\ reading.kind = "delta" /\ reading.step = "compositions" /\ cursor.reconciled
      /\ SyncTyped /\ Paging /\ ReadIsFresh /\ NextDeltaAsks
  BY DEF LossInv, EndDelta, Kinds
<1>2. updated[d] \in Nat /\ reading.since \in Int
  BY <1>1, UpdatedIsNat
<1> SUFFICES ASSUME updated[d] < reading.since PROVE FALSE
  BY <1>2
<1>3. updated[d] >= cursor.updated - Overlap
  BY <1>1 DEF NextDeltaAsks
<1>4. d \in Listed
  BY <1>3 DEF Listed, InWindow, Behind
<1>5. d \in reading.read
  BY <1>1, <1>4 DEF Paging, AtEnd
<1>6. imported[d] = edition[d] \/ updated[d] >= reading.since
  BY <1>1, <1>5 DEF ReadIsFresh
<1> QED BY <1>2, <1>6 DEF Behind

LEMMA NextDeltaAsksStep ==
  ASSUME LossInv, SyncNext
  PROVE  NextDeltaAsks'
<1>0. SyncTyped /\ Times /\ Kinds /\ RowAsRead /\ ReadIsFresh /\ NextDeltaAsks /\ Overlap \in Nat
  BY SyncAssumption DEF LossInv
<1>a. /\ \A e \in Document : updated[e] \in Nat
      /\ moment \in Nat /\ cursor.updated \in Int /\ reading.since \in Int
  BY <1>0, UpdatedIsNat
<1>1. ASSUME NEW d \in Document, ChangeDocument(d) PROVE NextDeltaAsks'
  <2>0. UNCHANGED <<deleted, imported, sourceMissing, cursor>>
    BY <1>1 DEF ChangeDocument, inside
  <2> SUFFICES ASSUME cursor.reconciled, NEW e \in Document, Behind(e)'
               PROVE  updated'[e] >= cursor.updated - Overlap
    BY <2>0 DEF NextDeltaAsks
  <2>1. /\ e # d => edition'[e] = edition[e] /\ updated'[e] = updated[e]
        /\ e = d => updated'[e] = moment
    BY <1>0, <1>1, DocumentChanges
  <2>2. CASE e = d
    BY <1>0, <1>a, <2>1, <2>2 DEF Times
  <2>3. CASE e # d
    <3>1. Behind(e)
      BY <2>0, <2>1, <2>3 DEF Behind
    <3> QED BY <1>0, <2>1, <2>3, <3>1 DEF NextDeltaAsks
  <2> QED BY <2>2, <2>3
<1>2. ASSUME UNCHANGED <<edition, updated, imported>>, cursor'.updated = cursor.updated,
             cursor'.reconciled = cursor.reconciled,
             deleted \subseteq deleted', sourceMissing \subseteq sourceMissing'
      PROVE  NextDeltaAsks'
  <2>1. \A e \in Document : Behind(e)' => Behind(e)
    BY <1>2 DEF Behind
  <2> QED BY <1>0, <1>2, <2>1 DEF NextDeltaAsks
<1>3. ASSUME \/ \E d \in Document : DeleteDocument(d) \/ FillComposition(d) \/ MarkSourceMissing(d)
             \/ TimePasses
      PROVE  NextDeltaAsks'
  <2>1. UNCHANGED <<edition, updated, imported, cursor>>
        /\ deleted \subseteq deleted' /\ sourceMissing \subseteq sourceMissing'
    BY <1>3 DEF DeleteDocument, FillComposition, MarkSourceMissing, TimePasses, outside, inside
  <2> QED BY <1>2, <2>1
<1>4. ASSUME NEW kind \in {"initial", "delta", "reconciliation"}, BeginReading(kind)
      PROVE  NextDeltaAsks'
  <2>1. UNCHANGED <<edition, updated, imported, deleted, sourceMissing>>
    BY <1>4 DEF BeginReading, outside, inside
  <2>2. cursor'.updated = cursor.updated /\ cursor'.reconciled = cursor.reconciled
    BY <1>0, <1>4, BeginFields
  <2> QED BY <1>2, <2>1, <2>2
<1>5. CASE ReadPage \/ SaveCheckpoint
  <2>1. UNCHANGED <<edition, updated, imported, deleted, sourceMissing>>
    BY <1>5 DEF ReadPage, SaveCheckpoint, outside, inside
  <2>2. cursor'.updated = cursor.updated /\ cursor'.reconciled = cursor.reconciled
    BY <1>0, <1>5, PassGoesOn
  <2> QED BY <1>2, <2>1, <2>2
<1>6. CASE ApplyRow
  <2>1. UNCHANGED <<edition, updated, deleted, cursor>> /\ reading.step = "row"
    BY <1>6 DEF ApplyRow, outside
  <2>2. CASE UNCHANGED inside
    BY <1>2, <2>1, <2>2 DEF inside
  <2>3. ASSUME imported' = [imported EXCEPT ![reading.row.doc] = reading.row.edition],
               sourceMissing' = sourceMissing \ {reading.row.doc}
        PROVE  NextDeltaAsks'
    <3> SUFFICES ASSUME cursor.reconciled, NEW e \in Document, Behind(e)'
                 PROVE  updated[e] >= cursor.updated - Overlap
      BY <2>1 DEF NextDeltaAsks
    <3>0. imported \in [Document -> Edition] /\ imported'[e] # edition[e]
      BY <1>0, <2>1 DEF SyncTyped, Inside, Behind
    <3>1. CASE e = reading.row.doc
      <4>1. imported'[e] = reading.row.edition
        BY <2>3, <3>0, <3>1
      <4>2. updated[e] >= reading.since
        BY <1>0, <2>1, <3>0, <3>1, <4>1 DEF RowAsRead
      <4>3. cursor.updated <= reading.since
        BY <1>0, <2>1 DEF Times, Kinds
      <4> QED BY <1>0, <1>a, <4>2, <4>3
    <3>2. CASE e # reading.row.doc
      <4>1. imported'[e] = imported[e]
        BY <2>3, <3>0, <3>2
      <4>2. Behind(e)
        BY <2>1, <2>3, <3>2, <4>1 DEF Behind
      <4> QED BY <1>0, <4>2 DEF NextDeltaAsks
    <3> QED BY <3>1, <3>2
  <2>4. \/ UNCHANGED inside
        \/ /\ imported' = [imported EXCEPT ![reading.row.doc] = reading.row.edition]
           /\ sourceMissing' = sourceMissing \ {reading.row.doc}
    BY <1>0, <1>6, RowApplied
  <2> QED BY <2>2, <2>3, <2>4
<1>b. ASSUME EndInitialLoad \/ EndDelta \/ EndReconciliation \/ ReadingBreaksOff
      PROVE  /\ \A e \in Document : Behind(e)' = Behind(e)
             /\ updated' = updated
  <2>1. UNCHANGED <<edition, updated, imported, deleted, sourceMissing>>
    BY <1>0, <1>b, PassIsOver DEF outside, inside
  <2> QED BY <2>1 DEF Behind
<1>7. CASE EndInitialLoad
  <2>1. ~cursor'.reconciled
    BY <1>0, <1>7, PassIsOver DEF Kinds
  <2> QED BY <2>1 DEF NextDeltaAsks
<1>8. CASE EndDelta
  <2>1. cursor'.updated = reading.since
    BY <1>0, <1>8, PassIsOver
  <2>2. ASSUME NEW e \in Document, Behind(e) PROVE updated[e] >= reading.since - Overlap
    BY <1>0, <1>8, <1>a, <2>2, DeltaReadsWindow
  <2> QED BY <1>8, <1>b, <2>1, <2>2 DEF NextDeltaAsks
<1>9. CASE EndReconciliation
  <2>1. cursor'.updated = cursor.updated /\ reading.kind = "reconciliation" /\ Unseen = {}
    BY <1>0, <1>9, PassIsOver DEF EndReconciliation
  <2>2. ASSUME NEW e \in Document, Behind(e) PROVE updated[e] >= cursor.updated - Overlap
    <3>1. e \in reading.read
      BY <2>1, <2>2 DEF Unseen, Behind
    <3>2. updated[e] >= reading.since
      BY <1>0, <2>1, <2>2, <3>1 DEF ReadIsFresh, Behind
    <3>3. cursor.updated <= reading.since
      BY <1>0, <2>1 DEF Times
    <3> QED BY <1>0, <1>a, <3>2, <3>3
  <2> QED BY <1>9, <1>b, <2>1, <2>2 DEF NextDeltaAsks
<1>10. CASE ReadingBreaksOff
  <2>1. cursor' = cursor
    BY <1>10 DEF ReadingBreaksOff
  <2> QED BY <1>0, <1>10, <1>b, <2>1 DEF NextDeltaAsks
<1> QED BY <1>1, <1>3, <1>4, <1>5, <1>6, <1>7, <1>8, <1>9, <1>10 DEF SyncNext

LEMMA LossStep == LossInv /\ [SyncNext]_syncVars => LossInv'
<1> SUFFICES ASSUME LossInv, [SyncNext]_syncVars PROVE LossInv'
  OBVIOUS
<1>0. SyncTyped /\ Times /\ Kinds /\ RowAsRead /\ ReadIsFresh /\ Paging /\ NextDeltaAsks
  BY DEF LossInv
<1>1. SyncTyped'
  BY <1>0, SyncTypedStep
<1>2. CASE SyncNext
  BY <1>0, <1>1, <1>2, TimesStep, KindsStep, RowAsReadStep, ReadIsFreshStep, PagingStep,
     NextDeltaAsksStep DEF LossInv
<1>3. CASE UNCHANGED syncVars
  <2>1. /\ edition' = edition /\ updated' = updated /\ deleted' = deleted /\ moment' = moment
        /\ imported' = imported /\ sourceMissing' = sourceMissing
        /\ cursor' = cursor /\ reading' = reading
    BY <1>3 DEF syncVars, outside, inside
  <2>2. Times' /\ Kinds' /\ RowAsRead' /\ ReadIsFresh'
    BY <1>0, <2>1 DEF Times, Kinds, RowAsRead, ReadIsFresh
  <2>3. NextDeltaAsks'
    BY <1>0, <2>1 DEF NextDeltaAsks, Behind
  <2>4. Paging'
    <3>1. CASE reading.kind = "delta"
      BY <1>0, <2>1, <3>1, ListShrinks, PagingOutside
    <3>2. CASE reading.kind # "delta"
      BY <2>1, <3>2 DEF Paging
    <3> QED BY <3>1, <3>2
  <2> QED BY <1>1, <2>2, <2>3, <2>4 DEF LossInv
<1> QED BY <1>2, <1>3

LEMMA LossBegins == SyncInit => LossInv
<1> SUFFICES ASSUME SyncInit PROVE LossInv
  OBVIOUS
<1>1. reading = NoReading /\ cursor.updated = Nowhere /\ cursor.reconciled = FALSE
      /\ moment = 0 /\ updated = [d \in Document |-> 0]
  BY DEF SyncInit
<1>2. Times
  BY <1>1, NoReadingTyped DEF Times, Nowhere
<1>3. Kinds /\ RowAsRead /\ ReadIsFresh /\ Paging
  BY <1>1, NoReadingTyped DEF Kinds, RowAsRead, ReadIsFresh, Paging
<1>4. NextDeltaAsks
  BY <1>1 DEF NextDeltaAsks
<1> QED BY <1>2, <1>3, <1>4, SyncTypesBegin DEF LossInv

(* No change is lost: every order that lags behind its document will be    *)
(* asked for by the next delta pass, although pages shift under the reader *)
(* (readAllPages, runDeltaPass, runReconciliation).                        *)
THEOREM NoChangeIsLost == SyncSpec => []NextDeltaAsks
<1>1. LossInv => NextDeltaAsks
  BY DEF LossInv
<1> QED BY <1>1, LossBegins, LossStep, PTL DEF SyncSpec

-----------------------------------------------------------------------------
(* State export: types *)

Calls == [step : {"idle", "sending", "landed"}, target : Target \cup {"none"}, seq : 0..MaxSeq]

ExportTyped ==
  /\ ExportTypeOK
  /\ call \in Calls
  /\ call # NoCall => call.step # "idle"

LEMMA ExportBegins == ExportInit => ExportTyped
<1> SUFFICES ASSUME ExportInit PROVE ExportTyped
  OBVIOUS
<1>1. round \in 1..MaxSeq /\ seq \in 0..MaxSeq
  BY ExportAssumption DEF ExportInit
<1>2. done \in [seq : 0..MaxSeq, rank : 0..3]
  BY ExportAssumption DEF ExportInit
<1>3. call \in Calls /\ call = NoCall
  BY ExportAssumption DEF ExportInit, Calls, NoCall
<1>4. /\ stage \in {"home", "away", "failed", "delivered", "cancelled"} /\ assembled \in BOOLEAN
      /\ sent = {} /\ queue = {} /\ shown = "new" /\ late = {} /\ overtaken \in BOOLEAN
  BY DEF ExportInit
<1> QED BY <1>1, <1>2, <1>3, <1>4 DEF ExportTyped, ExportTypeOK

LEMMA EnqueueKeepsTypes ==
  ASSUME ExportTyped, NEW target \in Target,
         NEW keys \in SUBSET (({"assembled"} \X (1..MaxSeq)) \cup ({"delivering"} \X Sheet)),
         Enqueue(target, keys)
  PROVE  /\ seq' \in 0..MaxSeq
         /\ sent' \subseteq ({"assembled"} \X (1..MaxSeq)) \cup ({"delivering"} \X Sheet)
         /\ queue' \subseteq StateMessage /\ queue \subseteq queue'
<1>1. seq + 1 \in 1..MaxSeq /\ seq' = seq + 1
  BY ExportAssumption DEF Enqueue, ExportTyped, ExportTypeOK
<1>2. [target |-> target, seq |-> seq + 1] \in StateMessage
  BY <1>1 DEF StateMessage
<1> QED BY <1>1, <1>2 DEF Enqueue, ExportTyped, ExportTypeOK

LEMMA EventTyped ==
  ASSUME ExportTyped,
         \/ Assemble \/ Reassemble \/ DeliverOrder \/ CancelOrder \/ SilentStep
         \/ \E r \in Sheet : ShipOrder(r)
  PROVE  ExportTyped'
<1>0. /\ UNCHANGED handlerVars
      /\ queue' \subseteq StateMessage /\ queue \subseteq queue'
      /\ seq' \in 0..MaxSeq
      /\ sent' \subseteq ({"assembled"} \X (1..MaxSeq)) \cup ({"delivering"} \X Sheet)
      /\ stage' \in {"home", "away", "failed", "delivered", "cancelled"} /\ assembled' \in BOOLEAN
      /\ round' \in 1..MaxSeq
  <2>1. CASE Assemble
    <3>1. {<<"assembled", round>>} \in SUBSET (({"assembled"} \X (1..MaxSeq)) \cup ({"delivering"} \X Sheet))
      BY DEF ExportTyped, ExportTypeOK
    <3> QED BY <2>1, <3>1, EnqueueKeepsTypes DEF Assemble, Target, ExportTyped, ExportTypeOK
  <2>2. CASE Reassemble
    <3>1. /\ UNCHANGED <<handlerVars, sent, seq, queue>> /\ assembled' = FALSE
          /\ round < MaxSeq /\ round' = round + 1
          /\ stage' = stage \/ stage' = "home"
      BY <2>2 DEF Reassemble
    <3>2. round' \in 1..MaxSeq
      BY <3>1, ExportAssumption DEF ExportTyped, ExportTypeOK
    <3> QED BY <3>1, <3>2 DEF ExportTyped, ExportTypeOK
  <2>3. CASE DeliverOrder \/ CancelOrder
    <3>1. PICK target \in Target : Enqueue(target, {})
      BY <2>3 DEF DeliverOrder, CancelOrder, Target
    <3>2. /\ queue' \subseteq StateMessage /\ queue \subseteq queue' /\ seq' \in 0..MaxSeq
          /\ sent' \subseteq ({"assembled"} \X (1..MaxSeq)) \cup ({"delivering"} \X Sheet)
      BY <3>1, EnqueueKeepsTypes
    <3> QED BY <2>3, <3>2 DEF DeliverOrder, CancelOrder, ExportTyped, ExportTypeOK
  <2>4. CASE SilentStep
    BY <2>4 DEF SilentStep, ExportTyped, ExportTypeOK
  <2>5. ASSUME NEW r \in Sheet, ShipOrder(r)
        PROVE  /\ UNCHANGED handlerVars
               /\ queue' \subseteq StateMessage /\ queue \subseteq queue'
               /\ seq' \in 0..MaxSeq
               /\ sent' \subseteq ({"assembled"} \X (1..MaxSeq)) \cup ({"delivering"} \X Sheet)
               /\ stage' \in {"home", "away", "failed", "delivered", "cancelled"}
               /\ assembled' \in BOOLEAN /\ round' \in 1..MaxSeq
    <3>1. {<<"delivering", r>>} \in SUBSET (({"assembled"} \X (1..MaxSeq)) \cup ({"delivering"} \X Sheet))
      OBVIOUS
    <3> QED BY <2>5, <3>1, EnqueueKeepsTypes DEF ShipOrder, Target, ExportTyped, ExportTypeOK
  <2> QED BY <2>1, <2>2, <2>3, <2>4, <2>5
<1>1. call' = call /\ done' = done /\ shown' = shown /\ late' = late /\ overtaken' = overtaken
  BY <1>0 DEF handlerVars
<1> QED BY <1>0, <1>1 DEF ExportTyped, ExportTypeOK

LEMMA HandlerTyped ==
  ASSUME ExportTyped,
         \/ \E m \in queue : TakeMessage(m)
         \/ Land \/ CommitState \/ AbortState
         \/ \E target \in late : LandLate(target)
  PROVE  ExportTyped'
<1> USE DEF ExportTyped, ExportTypeOK, erpVars
<1>0. NoCall \in Calls
  BY ExportAssumption DEF NoCall, Calls
<1>a. call # NoCall => call.target \in Target /\ call.seq \in 1..MaxSeq
  BY DEF StateMessage
<1>1. ASSUME NEW m \in queue, TakeMessage(m) PROVE ExportTyped'
  <2>1. m.target \in Target /\ m.seq \in 1..MaxSeq /\ m = [target |-> m.target, seq |-> m.seq]
    BY DEF StateMessage
  <2>2. CASE Outdated(m)
    BY <1>0, <1>1, <2>2 DEF TakeMessage
  <2>3. CASE ~Outdated(m)
    <3> DEFINE c == [step |-> "sending", target |-> m.target, seq |-> m.seq]
    <3>1. call' = c /\ UNCHANGED queue
      BY <1>1, <2>3 DEF TakeMessage
    <3>2. c \in Calls /\ c.step = "sending" /\ [target |-> c.target, seq |-> c.seq] = m
      BY <2>1 DEF Calls
    <3> HIDE DEF c
    <3> QED BY <1>1, <3>1, <3>2 DEF TakeMessage
  <2> QED BY <2>2, <2>3
<1>2. CASE Land
  <2> DEFINE c == [call EXCEPT !.step = "landed"]
  <2>1. c \in Calls /\ c.step = "landed" /\ c.target = call.target /\ c.seq = call.seq
    BY DEF Calls
  <2>2. call # NoCall
    BY <1>2 DEF Land, NoCall
  <2>3. call' = c
    BY <1>2 DEF Land
  <2> HIDE DEF c
  <2> QED BY <1>2, <1>a, <2>1, <2>2, <2>3 DEF Land
<1>3. CASE CommitState
  <2>1. call # NoCall
    BY <1>3 DEF CommitState, NoCall
  <2>2. [seq |-> call.seq, rank |-> Rank[call.target]] \in [seq : 0..MaxSeq, rank : 0..3]
    BY <1>a, <2>1 DEF Rank, Target
  <2> QED BY <1>0, <1>3, <2>2 DEF CommitState
<1>4. CASE AbortState
  BY <1>0, <1>4, <1>a DEF AbortState
<1>5. ASSUME NEW target \in late, LandLate(target) PROVE ExportTyped'
  BY <1>5 DEF LandLate
<1> QED BY <1>1, <1>2, <1>3, <1>4, <1>5

-----------------------------------------------------------------------------
(* State export: the outcome *)

LastStage(m) == Rank[m.target] = 3

(* A number is drawn once; a message being passed on is not outdated.      *)
NumbersSound ==
  /\ \A m \in queue : m.seq <= seq
  /\ \A m, k \in queue : m.seq = k.seq => m = k
  /\ done.seq <= seq
  /\ call # NoCall => ~Outdated([target |-> call.target, seq |-> call.seq])
  /\ call.step = "landed" => shown = call.target \/ overtaken

(* The latest message of the last stage, which will not be outdated, says  *)
(* so; or it was the last to be committed.                                 *)
Awaited(target) ==
  \E m \in queue :
    /\ m.target = target
    /\ \A k \in queue : LastStage(k) => k.seq <= m.seq
    /\ done.rank = 3 => done.seq < m.seq

Settled(target) ==
  /\ done.rank = 3 /\ call = NoCall
  /\ \A k \in queue : LastStage(k) => k.seq <= done.seq
  /\ shown = target \/ overtaken

OutcomeKnown ==
  /\ stage = "delivered" => Awaited("completed") \/ Settled("completed")
  /\ stage = "cancelled" => Awaited("cancelled") \/ Settled("cancelled")

ExportInv == ExportTyped /\ NumbersSound /\ OutcomeKnown

LEMMA EnqueueNumbers ==
  ASSUME ExportTyped, NumbersSound, NEW target \in Target, NEW keys, Enqueue(target, keys),
         UNCHANGED handlerVars
  PROVE  NumbersSound'
<1> DEFINE new == [target |-> target, seq |-> seq + 1]
<1>1. seq' = seq + 1 /\ seq \in Nat /\ queue' \subseteq queue \cup {new}
  BY DEF Enqueue, ExportTyped, ExportTypeOK
<1>2. new.seq = seq + 1
  OBVIOUS
<1>3. \A m \in queue : m.seq \in Nat /\ m.seq <= seq
  BY ExportAssumption DEF ExportTyped, ExportTypeOK, StateMessage, NumbersSound
<1> HIDE DEF new
<1>4. /\ \A m \in queue' : m.seq <= seq'
      /\ \A m, k \in queue' : m.seq = k.seq => m = k
  BY <1>1, <1>2, <1>3 DEF NumbersSound
<1>5. call' = call /\ done' = done /\ shown' = shown /\ overtaken' = overtaken
  BY DEF handlerVars
<1>6. done'.seq <= seq'
  BY <1>1, <1>5 DEF NumbersSound, ExportTyped, ExportTypeOK
<1> QED BY <1>4, <1>5, <1>6 DEF NumbersSound, Outdated

(* A message of an earlier stage leaves the outcome as it was. *)
LEMMA EnqueueKeepsOutcome ==
  ASSUME ExportTyped, NumbersSound, OutcomeKnown, UNCHANGED handlerVars, UNCHANGED stage,
         NEW target \in {"awaiting_shipment", "delivering"}, NEW keys, Enqueue(target, keys)
  PROVE  OutcomeKnown'
<1> DEFINE new == [target |-> target, seq |-> seq + 1]
<1>1. queue \subseteq queue' /\ queue' \subseteq queue \cup {new}
  BY DEF Enqueue
<1>2. ~LastStage(new)
  BY DEF LastStage, Rank
<1>3. call' = call /\ done' = done /\ shown' = shown /\ overtaken' = overtaken
  BY DEF handlerVars
<1> HIDE DEF new
<1>4. ASSUME NEW t, Awaited(t) PROVE Awaited(t)'
  <2>1. PICK m \in queue : /\ m.target = t
                           /\ \A k \in queue : LastStage(k) => k.seq <= m.seq
                           /\ done.rank = 3 => done.seq < m.seq
    BY <1>4 DEF Awaited
  <2>2. m \in queue' /\ \A k \in queue' : LastStage(k) => k.seq <= m.seq
    BY <1>1, <1>2, <2>1
  <2> QED BY <1>3, <2>1, <2>2 DEF Awaited
<1>5. ASSUME NEW t, Settled(t) PROVE Settled(t)'
  <2>1. \A k \in queue' : LastStage(k) => k.seq <= done.seq
    BY <1>1, <1>2, <1>5 DEF Settled
  <2> QED BY <1>3, <1>5, <2>1 DEF Settled
<1> QED BY <1>4, <1>5 DEF OutcomeKnown

(* The message of an outcome is later than any other. *)
LEMMA OutcomeIsAwaited ==
  ASSUME ExportTyped, NumbersSound, NEW target \in {"completed", "cancelled"}, Enqueue(target, {}),
         UNCHANGED handlerVars
  PROVE  Awaited(target)'
<1> DEFINE new == [target |-> target, seq |-> seq + 1]
<1>1. queue' = queue \cup {new} /\ new.target = target /\ new.seq = seq + 1 /\ seq \in Nat
  BY DEF Enqueue, ExportTyped, ExportTypeOK
<1>2. \A m \in queue : m.seq \in Nat /\ m.seq <= seq
  BY ExportAssumption DEF ExportTyped, ExportTypeOK, StateMessage, NumbersSound
<1>3. done' = done /\ done.seq \in Nat /\ done.seq <= seq
  BY DEF handlerVars, ExportTyped, ExportTypeOK, NumbersSound
<1> HIDE DEF new
<1>4. new \in queue' /\ \A k \in queue' : k.seq <= new.seq
  BY <1>1, <1>2
<1>5. done'.seq < new.seq
  BY <1>1, <1>3
<1> QED BY <1>1, <1>4, <1>5 DEF Awaited

LEMMA EventKeepsOutcome ==
  ASSUME ExportTyped, NumbersSound, OutcomeKnown,
         \/ Assemble \/ Reassemble \/ DeliverOrder \/ CancelOrder \/ SilentStep
         \/ \E r \in Sheet : ShipOrder(r)
  PROVE  NumbersSound' /\ OutcomeKnown'
<1>1. CASE Assemble
  BY <1>1, EnqueueNumbers, EnqueueKeepsOutcome DEF Assemble, Target
<1>2. CASE DeliverOrder
  BY <1>2, EnqueueNumbers, OutcomeIsAwaited DEF DeliverOrder, Target, OutcomeKnown
<1>3. CASE CancelOrder
  BY <1>3, EnqueueNumbers, OutcomeIsAwaited DEF CancelOrder, Target, OutcomeKnown
<1>4. ASSUME NEW r \in Sheet, ShipOrder(r) PROVE NumbersSound' /\ OutcomeKnown'
  BY <1>4, EnqueueNumbers DEF ShipOrder, Target, OutcomeKnown
<1>5. CASE Reassemble \/ SilentStep
  <2>1. /\ queue' = queue /\ seq' = seq
        /\ call' = call /\ done' = done /\ shown' = shown /\ overtaken' = overtaken
    BY <1>5 DEF Reassemble, SilentStep, handlerVars
  <2>2. stage' = stage \/ stage' \in {"home", "away", "failed"}
    BY <1>5 DEF Reassemble, SilentStep
  <2> QED BY <2>1, <2>2 DEF NumbersSound, Outdated, OutcomeKnown, Awaited, Settled
<1> QED BY <1>1, <1>2, <1>3, <1>4, <1>5

LEMMA QueueRecord ==
  ASSUME ExportTyped, NEW m \in queue
  PROVE  /\ m \in StateMessage /\ m.target \in Target /\ m.seq \in 1..MaxSeq
         /\ Rank[m.target] \in 1..3
         /\ [target |-> m.target, seq |-> m.seq] = m
BY DEF ExportTyped, ExportTypeOK, StateMessage, Target, Rank

LEMMA CallRecord ==
  ASSUME ExportTyped, call # NoCall
  PROVE  /\ call.target \in Target /\ call.seq \in 1..MaxSeq
         /\ [target |-> call.target, seq |-> call.seq] \in queue
         /\ Rank[call.target] \in 1..3
<1>1. [target |-> call.target, seq |-> call.seq] \in queue
  BY DEF ExportTyped, ExportTypeOK
<1> QED BY <1>1, QueueRecord

(* TakeMessage: an outdated message is never the awaited one, and after    *)
(* the outcome nothing is passed on any more.                              *)
LEMMA TakeKeepsOutcome ==
  ASSUME ExportTyped, NumbersSound, OutcomeKnown, NEW m \in queue, TakeMessage(m)
  PROVE  NumbersSound' /\ OutcomeKnown'
<1>0. /\ done' = done /\ shown' = shown /\ overtaken' = overtaken /\ seq' = seq /\ stage' = stage
      /\ call = NoCall
  BY DEF TakeMessage, erpVars
<1>1. CASE Outdated(m)
  <2>1. queue' = queue \ {m} /\ call' = call
    BY <1>1 DEF TakeMessage
  <2>2. NumbersSound'
    BY <1>0, <2>1 DEF NumbersSound, Outdated
  <2>3. ASSUME NEW t, Rank[t] = 3, Awaited(t) PROVE Awaited(t)'
    <3>1. PICK k \in queue : /\ k.target = t
                             /\ \A i \in queue : LastStage(i) => i.seq <= k.seq
                             /\ done.rank = 3 => done.seq < k.seq
      BY <2>3 DEF Awaited
    <3>2. k.seq \in Nat /\ done.seq \in Nat /\ done.rank \in 0..3
      BY QueueRecord, ExportAssumption DEF ExportTyped, ExportTypeOK
    <3>3. ~Outdated(k)
      BY <2>3, <3>1, <3>2 DEF Outdated
    <3>4. k \in queue'
      BY <1>1, <2>1, <3>3
    <3> QED BY <1>0, <2>1, <3>1, <3>4 DEF Awaited
  <2>4. ASSUME NEW t, Settled(t) PROVE Settled(t)'
    BY <1>0, <2>1, <2>4 DEF Settled
  <2> QED BY <1>0, <2>2, <2>3, <2>4 DEF OutcomeKnown, Rank
<1>2. CASE ~Outdated(m)
  <2> DEFINE c == [step |-> "sending", target |-> m.target, seq |-> m.seq]
  <2>1. call' = c /\ queue' = queue
    BY <1>2 DEF TakeMessage
  <2>2. c.step = "sending" /\ [target |-> c.target, seq |-> c.seq] = m
    BY QueueRecord
  <2> HIDE DEF c
  <2>3. ~Outdated(m)'
    BY <1>0, <1>2 DEF Outdated
  <2>4. NumbersSound'
    BY <1>0, <2>1, <2>2, <2>3 DEF NumbersSound
  <2>5. ASSUME NEW t, Awaited(t) PROVE Awaited(t)'
    BY <1>0, <2>1, <2>5 DEF Awaited
  <2>6. ASSUME NEW t, Settled(t) PROVE FALSE
    <3>1. m.seq \in Nat /\ done.seq \in Nat /\ Rank[m.target] \in 1..3
      BY QueueRecord, ExportAssumption DEF ExportTyped, ExportTypeOK
    <3> QED BY <1>2, <2>6, <3>1 DEF Settled, Outdated, LastStage
  <2> QED BY <1>0, <2>4, <2>5, <2>6 DEF OutcomeKnown
<1> QED BY <1>1, <1>2

LEMMA LandKeepsOutcome ==
  ASSUME ExportTyped, NumbersSound, OutcomeKnown,
         Land \/ AbortState \/ \E target \in late : LandLate(target)
  PROVE  NumbersSound' /\ OutcomeKnown'
<1>0. done' = done /\ queue' = queue /\ seq' = seq /\ stage' = stage
  BY DEF Land, AbortState, LandLate, erpVars
<1>1. ASSUME NEW t, Awaited(t) PROVE Awaited(t)'
  BY <1>0, <1>1 DEF Awaited
<1>2. CASE Land
  <2>1. call # NoCall
    BY <1>2 DEF Land, NoCall
  <2>2. /\ call'.step = "landed" /\ call'.target = call.target /\ call'.seq = call.seq
        /\ shown' = call.target
    BY <1>2 DEF Land, ExportTyped, Calls
  <2>3. ~Outdated([target |-> call.target, seq |-> call.seq])
    BY <2>1 DEF NumbersSound
  <2>4. (~Outdated([target |-> call.target, seq |-> call.seq]))'
    BY <1>0, <2>2, <2>3 DEF Outdated
  <2>5. NumbersSound'
    BY <1>0, <2>2, <2>4 DEF NumbersSound
  <2>6. \A t : ~Settled(t)
    BY <2>1 DEF Settled
  <2> QED BY <1>0, <1>1, <2>5, <2>6 DEF OutcomeKnown
<1>3. CASE AbortState
  <2>1. call' = NoCall /\ shown' = shown /\ overtaken' = overtaken
    BY <1>3 DEF AbortState
  <2>2. NumbersSound'
    BY <1>0, <2>1 DEF NumbersSound, NoCall, Outdated
  <2>3. ASSUME NEW t, Settled(t) PROVE Settled(t)'
    BY <1>0, <2>1, <2>3 DEF Settled
  <2> QED BY <1>0, <1>1, <2>2, <2>3 DEF OutcomeKnown
<1>4. ASSUME NEW target \in late, LandLate(target) PROVE NumbersSound' /\ OutcomeKnown'
  <2>1. call' = call /\ overtaken' = TRUE
    BY <1>4 DEF LandLate
  <2>2. NumbersSound'
    BY <1>0, <2>1 DEF NumbersSound, Outdated
  <2>3. ASSUME NEW t, Settled(t) PROVE Settled(t)'
    BY <1>0, <2>1, <2>3 DEF Settled
  <2> QED BY <1>0, <1>1, <2>2, <2>3 DEF OutcomeKnown
<1> QED BY <1>2, <1>3, <1>4

(* CommitState: the awaited message settles the outcome, any other leaves  *)
(* it waiting.                                                             *)
LEMMA CommitKeepsOutcome ==
  ASSUME ExportTyped, NumbersSound, OutcomeKnown, CommitState
  PROVE  NumbersSound' /\ OutcomeKnown'
<1> DEFINE c == [target |-> call.target, seq |-> call.seq]
<1>0. /\ call' = NoCall /\ shown' = shown /\ overtaken' = overtaken /\ seq' = seq /\ stage' = stage
      /\ call # NoCall /\ call.step = "landed"
  BY DEF CommitState, erpVars, NoCall
<1>1. /\ done'.seq = c.seq /\ done'.rank = Rank[c.target]
      /\ queue' = queue \ {c}
      /\ c.target = call.target
  BY DEF CommitState
<1>2. c \in queue /\ c.seq \in Nat /\ Rank[c.target] \in 1..3
  BY <1>0, CallRecord
<1>3. shown = call.target \/ overtaken
  BY <1>0 DEF NumbersSound
<1> HIDE DEF c
<1>4. NumbersSound'
  <2>1. call'.step # "landed"
    BY <1>0 DEF NoCall
  <2>2. done'.seq <= seq'
    BY <1>0, <1>1, <1>2 DEF NumbersSound
  <2> QED BY <1>0, <1>1, <2>1, <2>2 DEF NumbersSound
<1>5. ASSUME NEW t, Rank[t] = 3, Awaited(t) PROVE Awaited(t)' \/ Settled(t)'
  <2>1. PICK m \in queue : /\ m.target = t
                           /\ \A k \in queue : LastStage(k) => k.seq <= m.seq
                           /\ done.rank = 3 => done.seq < m.seq
    BY <1>5 DEF Awaited
  <2>2. CASE m = c
    <3>1. done'.rank = 3 /\ \A k \in queue' : LastStage(k) => k.seq <= done'.seq
      BY <1>1, <1>5, <2>1, <2>2
    <3>2. shown' = t \/ overtaken'
      BY <1>0, <1>1, <1>3, <2>1, <2>2
    <3> QED BY <1>0, <3>1, <3>2 DEF Settled
  <2>3. CASE m # c
    <3>1. m \in queue' /\ \A k \in queue' : LastStage(k) => k.seq <= m.seq
      BY <1>1, <2>1, <2>3
    <3>2. m.seq # c.seq /\ m.seq \in Nat
      BY <1>2, <2>3, QueueRecord DEF NumbersSound
    <3>3. done'.rank = 3 => done'.seq < m.seq
      BY <1>1, <1>2, <2>1, <3>2 DEF LastStage
    <3> QED BY <2>1, <3>1, <3>3 DEF Awaited
  <2> QED BY <2>2, <2>3
<1>6. \A t : ~Settled(t)
  BY <1>0 DEF Settled
<1> QED BY <1>0, <1>4, <1>5, <1>6 DEF OutcomeKnown, Rank

(* Types; numbers are drawn once; while the ERP shows an outcome, its      *)
(* message is the latest of the last stage, waiting or committed.          *)
THEOREM ExportSafe == ExportSpec => []ExportInv
<1>1. ExportInit => ExportInv
  <2> SUFFICES ASSUME ExportInit PROVE ExportInv
    OBVIOUS
  <2>1. NumbersSound
    BY DEF ExportInit, NumbersSound, NoCall
  <2> QED BY <2>1, ExportBegins DEF ExportInit, ExportInv, OutcomeKnown
<1>2. ExportInv /\ [ExportNext]_exportVars => ExportInv'
  <2> SUFFICES ASSUME ExportInv, [ExportNext]_exportVars PROVE ExportInv'
    OBVIOUS
  <2>0. ExportTyped /\ NumbersSound /\ OutcomeKnown
    BY DEF ExportInv
  <2>1. CASE UNCHANGED exportVars
    BY <2>0, <2>1 DEF exportVars, erpVars, handlerVars, ExportInv, ExportTyped, ExportTypeOK,
                      NumbersSound, Outdated, OutcomeKnown, Awaited, Settled
  <2>2. CASE \/ Assemble \/ Reassemble \/ DeliverOrder \/ CancelOrder \/ SilentStep
             \/ \E r \in Sheet : ShipOrder(r)
    BY <2>0, <2>2, EventTyped, EventKeepsOutcome DEF ExportInv
  <2>3. ASSUME NEW m \in queue, TakeMessage(m) PROVE ExportInv'
    BY <2>0, <2>3, HandlerTyped, TakeKeepsOutcome DEF ExportInv
  <2>4. CASE Land \/ AbortState \/ \E target \in late : LandLate(target)
    BY <2>0, <2>4, HandlerTyped, LandKeepsOutcome DEF ExportInv
  <2>5. CASE CommitState
    BY <2>0, <2>5, HandlerTyped, CommitKeepsOutcome DEF ExportInv
  <2> QED BY <2>1, <2>2, <2>3, <2>4, <2>5 DEF ExportNext
<1> QED BY <1>1, <1>2, PTL DEF ExportSpec

(* Once every message is processed MoySklad shows the outcome the ERP has  *)
(* (handleOrderStateSync), for any number of events, sheets and late       *)
(* requests.                                                               *)
THEOREM OutcomeReachesMoySklad == ExportSpec => []OutcomeIsShown
<1>1. ExportInv => OutcomeIsShown
  BY DEF ExportInv, OutcomeKnown, Awaited, Settled, OutcomeIsShown
<1> QED BY <1>1, ExportSafe, PTL

-----------------------------------------------------------------------------
(* Payouts: types *)

Rows == [Row -> PreviewRow]

Screens == [step : {"idle", "shown", "queued", "assessed"}, file : File \cup {NoPayee},
            shown : Rows \cup {<<>>}, accepted : SUBSET Row, found : Rows \cup {<<>>}]

(* A row that may be paid has somebody to be paid. *)
Matched(rows) == \A n \in Row : rows[n].state \in Payable => rows[n].payee # NoPayee

(* What a screen that is not empty shows. *)
Shows(s) ==
  /\ s.file \in File /\ s.shown \in Rows
  /\ Matched(s.shown)
  /\ \A n \in s.accepted : s.shown[n].state = "possible_duplicate"

ScreenTyped(s) ==
  /\ s \in Screens
  /\ IF s.step = "idle" THEN s = Blank ELSE Shows(s)
  /\ s.step = "assessed" => s.found \in Rows

PayoutTyped ==
  /\ payeeOf \in [Phone -> Payee \cup {NoPayee}]
  /\ payouts \subseteq PayoutEntry /\ reversed \subseteq payouts
  /\ imports \subseteq Form \X File
  /\ screen \in [Form -> Screens]
  /\ \A x \in Form : ScreenTyped(screen[x])
  /\ inQueue \subseteq Form

LEMMA AssessedTyped ==
  ASSUME PayoutTyped, NEW f \in File
  PROVE  /\ Assessed(f, payeeOf) \in Rows
         /\ Matched(Assessed(f, payeeOf))
         /\ \A n \in Row : /\ Assessed(f, payeeOf)[n].state = StateOf(f, n, payeeOf[n[1]])
                           /\ Assessed(f, payeeOf)[n].payee = payeeOf[n[1]]
<1>1. \A n \in Row, c \in Payee \cup {NoPayee} :
        StateOf(f, n, c) \in RowState /\ (StateOf(f, n, c) \in Payable => c # NoPayee)
  BY DEF StateOf, RowState, Payable
<1>2. \A n \in Row : payeeOf[n[1]] \in Payee \cup {NoPayee}
  BY DEF PayoutTyped, Row
<1>3. \A n \in Row :
        [state |-> StateOf(f, n, payeeOf[n[1]]), payee |-> payeeOf[n[1]]] \in PreviewRow
  BY <1>1, <1>2 DEF PreviewRow
<1> QED BY <1>1, <1>2, <1>3 DEF Assessed, Rows, Matched

LEMMA ScreenSteps ==
  ASSUME NEW s, ScreenTyped(s)
  PROVE  /\ s.step = "shown" => ScreenTyped([s EXCEPT !.step = "queued"])
         /\ \A rows \in Rows : s.step = "queued" =>
              ScreenTyped([s EXCEPT !.step = "assessed", !.found = rows])
         /\ s.step \in {"queued", "assessed"} =>
              ScreenTyped([s EXCEPT !.step = "shown", !.found = <<>>])
BY DEF ScreenTyped, Screens, Shows

LEMMA BlankTyped == ScreenTyped(Blank) /\ Blank.step = "idle"
BY DEF ScreenTyped, Screens, Blank

(* One screen changes, and only the given one. *)
LEMMA OneScreen ==
  ASSUME PayoutTyped, NEW x \in Form, NEW s, ScreenTyped(s), screen' = [screen EXCEPT ![x] = s]
  PROVE  screen' \in [Form -> Screens] /\ \A y \in Form : ScreenTyped(screen'[y])
BY DEF PayoutTyped, ScreenTyped

LEMMA PreviewTyped ==
  ASSUME PayoutTyped, NEW x \in Form, NEW f \in File, Preview(x, f)
  PROVE  PayoutTyped'
<1> DEFINE rows == Assessed(f, payeeOf)
<1>1. rows \in Rows /\ Matched(rows)
  BY AssessedTyped
<1>2. PICK accepted \in SUBSET {n \in Row : rows[n].state = "possible_duplicate"} :
        screen' = [screen EXCEPT ![x] =
          [Blank EXCEPT !.step = "shown", !.file = f, !.shown = rows, !.accepted = accepted]]
  BY DEF Preview
<1> HIDE DEF rows
<1> DEFINE s == [Blank EXCEPT !.step = "shown", !.file = f, !.shown = rows, !.accepted = accepted]
<1>3. ScreenTyped(s)
  BY <1>1 DEF ScreenTyped, Screens, Blank, Shows
<1> HIDE DEF s
<1> QED BY <1>2, <1>3, OneScreen DEF Preview, PayoutTyped, s

(* The assessment has the approved rows as they were shown. *)
LEMMA ApprovedRows ==
  ASSUME PayoutTyped, NEW x \in Form, Post(x)
  PROVE  /\ screen[x].file \in File /\ screen[x].found \in Rows /\ screen[x].shown \in Rows
         /\ \A n \in Approved(x) :
              /\ n \in Row /\ screen[x].found[n] = screen[x].shown[n]
              /\ screen[x].found[n].state \in Payable
              /\ screen[x].found[n].payee \in Payee
         /\ payouts' = payouts \cup Posting(x)
<1>1. screen[x].step = "assessed" /\ ScreenTyped(screen[x])
  BY DEF Post, PayoutTyped
<1>2. Shows(screen[x]) /\ screen[x].found \in Rows /\ screen[x].accepted \in SUBSET Row
  BY <1>1 DEF ScreenTyped, Screens
<1>3. \A n \in Approved(x) : screen[x].found[n] = screen[x].shown[n]
  BY DEF Post, IsStale
<1>4. \A n \in Approved(x) : n \in Row /\ screen[x].shown[n].state \in Payable
  BY <1>2 DEF Approved, Shows, Payable
<1>5. \A n \in Approved(x) : screen[x].shown[n].payee \in Payee
  BY <1>2, <1>4 DEF Shows, Matched, Rows, PreviewRow
<1>6. payouts' = payouts \cup Posting(x)
  BY DEF Post
<1> QED BY <1>2, <1>3, <1>4, <1>5, <1>6 DEF Shows

LEMMA PostTyped ==
  ASSUME PayoutTyped, NEW x \in Form, Post(x)
  PROVE  PayoutTyped'
<1>1. Posting(x) \subseteq PayoutEntry
  <2> SUFFICES ASSUME NEW n \in Approved(x)
               PROVE  [row |-> <<screen[x].file, n>>, payee |-> screen[x].found[n].payee,
                       as |-> screen[x].found[n].state, promised |-> screen[x].shown[n].payee, by |-> x]
                        \in PayoutEntry
    BY DEF Posting
  <2> QED BY ApprovedRows DEF PayoutEntry
<1>2. payouts' \subseteq PayoutEntry /\ reversed' \subseteq payouts'
  BY <1>1, ApprovedRows DEF Post, PayoutTyped
<1>3. imports' \subseteq Form \X File
  <2>1. imports' = imports \cup {<<x, screen[x].file>>}
    BY DEF Post
  <2>2. screen[x].file \in File /\ imports \subseteq Form \X File
    BY ApprovedRows DEF PayoutTyped
  <2> QED BY <2>1, <2>2
<1> DEFINE s == [screen[x] EXCEPT !.step = "shown", !.found = <<>>]
<1>4. ScreenTyped(s)
  <2>1. ScreenTyped(screen[x]) /\ screen[x].step = "assessed"
    BY DEF Post, PayoutTyped
  <2> QED BY <2>1, ScreenSteps
<1>5. screen' = [screen EXCEPT ![x] = s]
  BY DEF Post
<1> HIDE DEF s
<1>6. screen' \in [Form -> Screens] /\ \A y \in Form : ScreenTyped(screen'[y])
  BY <1>4, <1>5, OneScreen
<1> QED BY <1>2, <1>3, <1>6 DEF Post, Leave, PayoutTyped

LEMMA ConfirmTyped ==
  ASSUME PayoutTyped, NEW x \in Form, EnterQueue(x) \/ AssessAnew(x) \/ GiveUpPosting(x),
         x \in inQueue => screen[x].step \in {"queued", "assessed"}
  PROVE  PayoutTyped'
<1>1. CASE EnterQueue(x)
  <2> DEFINE s == IF KeyUsed(x) THEN Blank ELSE [screen[x] EXCEPT !.step = "queued"]
  <2>1. ScreenTyped(s)
    BY <1>1, ScreenSteps, BlankTyped DEF EnterQueue, PayoutTyped
  <2>2. screen' = [screen EXCEPT ![x] = s]
    BY <1>1 DEF EnterQueue
  <2> HIDE DEF s
  <2>3. screen' \in [Form -> Screens] /\ \A y \in Form : ScreenTyped(screen'[y])
    BY <2>1, <2>2, OneScreen
  <2> QED BY <1>1, <2>3 DEF EnterQueue, PayoutTyped
<1>2. CASE AssessAnew(x)
  <2> DEFINE rows == Assessed(screen[x].file, payeeOf)
             s == [screen[x] EXCEPT !.step = "assessed", !.found = rows]
  <2>0. ScreenTyped(screen[x]) /\ screen[x].step = "queued"
    BY <1>2 DEF AssessAnew, PayoutTyped
  <2>1. rows \in Rows
    BY <2>0, AssessedTyped DEF ScreenTyped, Shows
  <2>2. screen' = [screen EXCEPT ![x] = s]
    BY <1>2 DEF AssessAnew
  <2> HIDE DEF rows
  <2>3. ScreenTyped(s)
    BY <2>0, <2>1, ScreenSteps
  <2> HIDE DEF s
  <2>4. screen' \in [Form -> Screens] /\ \A y \in Form : ScreenTyped(screen'[y])
    BY <2>2, <2>3, OneScreen
  <2> QED BY <1>2, <2>4 DEF AssessAnew, PayoutTyped
<1>3. CASE GiveUpPosting(x)
  <2> DEFINE s == [screen[x] EXCEPT !.step = "shown", !.found = <<>>]
  <2>1. ScreenTyped(s)
    BY <1>3, ScreenSteps DEF GiveUpPosting, PayoutTyped
  <2>2. screen' = [screen EXCEPT ![x] = s]
    BY <1>3 DEF GiveUpPosting
  <2> HIDE DEF s
  <2>3. screen' \in [Form -> Screens] /\ \A y \in Form : ScreenTyped(screen'[y])
    BY <2>1, <2>2, OneScreen
  <2> QED BY <1>3, <2>3 DEF GiveUpPosting, Leave, PayoutTyped
<1> QED BY <1>1, <1>2, <1>3

LEMMA MeanwhileTyped ==
  ASSUME PayoutTyped,
         \/ \E n \in Phone : TakePhone(n) \/ \E c \in Payee : GivePhone(n, c)
         \/ \E h \in ByHand, c \in Payee : EnterByHand(h, c)
         \/ \E e \in payouts : ReverseEntry(e)
  PROVE  PayoutTyped'
<1>1. ASSUME NEW n \in Phone, TakePhone(n) \/ \E c \in Payee : GivePhone(n, c)
      PROVE  PayoutTyped'
  <2>1. payeeOf' \in [Phone -> Payee \cup {NoPayee}]
    BY <1>1 DEF TakePhone, GivePhone, PayoutTyped
  <2> QED BY <1>1, <2>1 DEF TakePhone, GivePhone, PayoutTyped
<1>2. ASSUME NEW h \in ByHand, NEW c \in Payee, EnterByHand(h, c) PROVE PayoutTyped'
  <2>1. [row |-> <<"manual", h>>, payee |-> c, as |-> "manual", promised |-> c, by |-> h]
          \in PayoutEntry
    BY DEF PayoutEntry
  <2> QED BY <1>2, <2>1 DEF EnterByHand, PayoutTyped
<1>3. ASSUME NEW e \in payouts, ReverseEntry(e) PROVE PayoutTyped'
  BY <1>3 DEF ReverseEntry, PayoutTyped
<1> QED BY <1>1, <1>2, <1>3

-----------------------------------------------------------------------------
(* Payouts: one confirmation at a time *)

(* Confirmations are inside the queue one at a time, and only there is     *)
(* anything assessed or posted.                                            *)
OneConfirms ==
  /\ \A x \in Form : x \in inQueue <=> screen[x].step \in {"queued", "assessed"}
  /\ \A x, y \in inQueue : x = y

InForce == {e \in payouts \ reversed : e.as # "manual"}

(* A row found payable without reserve: nothing from the statements is in  *)
(* force for its courier, until it is posted.                              *)
FoundHolds ==
  \A x \in Form : screen[x].step = "assessed" =>
    \A n \in Row : screen[x].found[n].state = "ready" =>
      \A e \in InForce : e.payee # screen[x].found[n].payee

PayoutInv ==
  PayoutTyped /\ OneConfirms /\ FoundHolds /\ PostedAsApproved

LEMMA PayoutsBegin == PayoutInit => PayoutInv
<1> SUFFICES ASSUME PayoutInit PROVE PayoutInv
  OBVIOUS
<1>1. PayoutTyped
  <2>1. payeeOf \in [Phone -> Payee \cup {NoPayee}]
    BY DEF PayoutInit
  <2>2. screen = [x \in Form |-> Blank]
    BY DEF PayoutInit
  <2>3. Blank \in Screens /\ ScreenTyped(Blank)
    BY BlankTyped DEF ScreenTyped
  <2>4. screen \in [Form -> Screens] /\ \A x \in Form : ScreenTyped(screen[x])
    BY <2>2, <2>3
  <2> QED BY <2>1, <2>4 DEF PayoutInit, PayoutTyped
<1>2. \A x \in Form : screen[x].step = "idle"
  BY BlankTyped DEF PayoutInit
<1>3. OneConfirms /\ FoundHolds
  BY <1>2 DEF PayoutInit, OneConfirms, FoundHolds
<1>4. PostedAsApproved
  BY DEF PayoutInit, PostedAsApproved
<1> QED BY <1>1, <1>3, <1>4 DEF PayoutInv

(* How a screen's step changes. *)
LEMMA ScreenFields ==
  ASSUME PayoutTyped, NEW x \in Form
  PROVE  /\ EnterQueue(x) =>
              /\ \A y \in Form : y # x => screen'[y] = screen[y]
              /\ screen'[x].step = IF KeyUsed(x) THEN "idle" ELSE "queued"
         /\ AssessAnew(x) =>
              /\ \A y \in Form : y # x => screen'[y] = screen[y]
              /\ screen'[x].step = "assessed"
              /\ screen'[x].found = Assessed(screen[x].file, payeeOf)
         /\ Post(x) \/ GiveUpPosting(x) =>
              /\ \A y \in Form : y # x => screen'[y] = screen[y]
              /\ screen'[x].step = "shown"
         /\ \A f \in File : Preview(x, f) =>
              /\ \A y \in Form : y # x => screen'[y] = screen[y]
              /\ screen'[x].step = "shown"
<1>0. screen \in [Form -> Screens]
  BY DEF PayoutTyped
<1>a. screen[x] \in Screens
  BY <1>0
<1>b. ASSUME NEW s, screen' = [screen EXCEPT ![x] = s]
      PROVE  screen'[x] = s /\ \A y \in Form : y # x => screen'[y] = screen[y]
  BY <1>0, <1>b
<1>1. ASSUME EnterQueue(x)
      PROVE  /\ \A y \in Form : y # x => screen'[y] = screen[y]
             /\ screen'[x].step = IF KeyUsed(x) THEN "idle" ELSE "queued"
  <2> DEFINE s == IF KeyUsed(x) THEN Blank ELSE [screen[x] EXCEPT !.step = "queued"]
  <2>1. screen' = [screen EXCEPT ![x] = s]
    BY <1>1 DEF EnterQueue
  <2>2. s.step = IF KeyUsed(x) THEN "idle" ELSE "queued"
    BY <1>a DEF Blank, Screens
  <2> HIDE DEF s
  <2> QED BY <1>b, <2>1, <2>2
<1>2. ASSUME AssessAnew(x)
      PROVE  /\ \A y \in Form : y # x => screen'[y] = screen[y]
             /\ screen'[x].step = "assessed"
             /\ screen'[x].found = Assessed(screen[x].file, payeeOf)
  <2> DEFINE rows == Assessed(screen[x].file, payeeOf)
             s == [screen[x] EXCEPT !.step = "assessed", !.found = rows]
  <2>1. screen' = [screen EXCEPT ![x] = s]
    BY <1>2 DEF AssessAnew
  <2> HIDE DEF rows
  <2>2. s.step = "assessed" /\ s.found = rows
    BY <1>a DEF Screens
  <2> HIDE DEF s
  <2>3. screen'[x] = s /\ \A y \in Form : y # x => screen'[y] = screen[y]
    BY <1>b, <2>1
  <2> QED BY <2>2, <2>3 DEF rows
<1>3. ASSUME Post(x) \/ GiveUpPosting(x)
      PROVE  /\ \A y \in Form : y # x => screen'[y] = screen[y]
             /\ screen'[x].step = "shown"
  <2> DEFINE s == [screen[x] EXCEPT !.step = "shown", !.found = <<>>]
  <2>1. screen' = [screen EXCEPT ![x] = s]
    BY <1>3 DEF Post, GiveUpPosting
  <2>2. s.step = "shown"
    BY <1>a DEF Screens
  <2> HIDE DEF s
  <2> QED BY <1>b, <2>1, <2>2
<1>4. ASSUME NEW f \in File, Preview(x, f)
      PROVE  /\ \A y \in Form : y # x => screen'[y] = screen[y]
             /\ screen'[x].step = "shown"
  <2> DEFINE rows == Assessed(f, payeeOf)
  <2>1. PICK accepted \in SUBSET {n \in Row : rows[n].state = "possible_duplicate"} :
          screen' = [screen EXCEPT ![x] =
            [Blank EXCEPT !.step = "shown", !.file = f, !.shown = rows, !.accepted = accepted]]
    BY <1>4 DEF Preview
  <2> HIDE DEF rows
  <2> DEFINE s == [Blank EXCEPT !.step = "shown", !.file = f, !.shown = rows, !.accepted = accepted]
  <2>2. s.step = "shown"
    BY DEF Blank
  <2>3. screen' = [screen EXCEPT ![x] = s]
    BY <2>1
  <2> HIDE DEF s
  <2> QED BY <1>b, <2>2, <2>3
<1> QED BY <1>1, <1>2, <1>3, <1>4

LEMMA QueueStep ==
  ASSUME PayoutTyped, OneConfirms, PayoutNext
  PROVE  OneConfirms'
<1> USE DEF OneConfirms
<1>1. ASSUME NEW x \in Form, NEW f \in File, Preview(x, f) PROVE OneConfirms'
  BY <1>1, ScreenFields DEF Preview
<1>2. ASSUME NEW x \in Form, EnterQueue(x) PROVE OneConfirms'
  BY <1>2, ScreenFields DEF EnterQueue, QueueFree
<1>3. ASSUME NEW x \in Form, AssessAnew(x) PROVE OneConfirms'
  BY <1>3, ScreenFields DEF AssessAnew
<1>4. ASSUME NEW x \in Form, Post(x) \/ GiveUpPosting(x) PROVE OneConfirms'
  <2>1. inQueue' = inQueue \ {x}
    BY <1>4 DEF Post, GiveUpPosting, Leave
  <2> QED BY <1>4, <2>1, ScreenFields DEF PayoutTyped
<1>5. ASSUME UNCHANGED <<screen, inQueue>> PROVE OneConfirms'
  BY <1>5
<1>6. ASSUME NEW n \in Phone, TakePhone(n) \/ \E c \in Payee : GivePhone(n, c) PROVE OneConfirms'
  BY <1>5, <1>6 DEF TakePhone, GivePhone
<1>7. ASSUME NEW h \in ByHand, NEW c \in Payee, EnterByHand(h, c) PROVE OneConfirms'
  BY <1>5, <1>7 DEF EnterByHand
<1>8. ASSUME NEW e \in payouts, ReverseEntry(e) PROVE OneConfirms'
  BY <1>5, <1>8 DEF ReverseEntry
<1> HIDE DEF OneConfirms
<1> QED BY <1>1, <1>2, <1>3, <1>4, <1>6, <1>7, <1>8 DEF PayoutNext

LEMMA FoundStep ==
  ASSUME PayoutInv, PayoutNext
  PROVE  FoundHolds'
<1> DEFINE Holds(rows, entries) ==
        \A n \in Row : rows[n].state = "ready" => \A e \in entries : e.payee # rows[n].payee
<1>0. PayoutTyped /\ OneConfirms
  BY DEF PayoutInv
<1>a. \A x \in Form : screen[x].step = "assessed" => Holds(screen[x].found, InForce)
  BY DEF PayoutInv, FoundHolds
<1>b. FoundHolds' <=> \A x \in Form : screen'[x].step = "assessed" => Holds(screen'[x].found, InForce')
  BY DEF FoundHolds
<1>c. ASSUME NEW rows, NEW E, NEW F, Holds(rows, E), F \subseteq E PROVE Holds(rows, F)
  BY <1>c
<1>1. ASSUME NEW x \in Form, InForce' \subseteq InForce,
             screen'[x].step # "assessed", \A y \in Form : y # x => screen'[y] = screen[y]
      PROVE  FoundHolds'
  <2> SUFFICES ASSUME NEW y \in Form, screen'[y].step = "assessed"
               PROVE  Holds(screen'[y].found, InForce')
    BY <1>b
  <2>1. screen'[y] = screen[y]
    BY <1>1
  <2> HIDE DEF Holds
  <2> QED BY <1>1, <1>a, <1>c, <2>1
<1>2. ASSUME NEW x \in Form, NEW f \in File, Preview(x, f) PROVE FoundHolds'
  <2>1. InForce' = InForce
    BY <1>2 DEF Preview, InForce
  <2> QED BY <1>0, <1>1, <1>2, <2>1, ScreenFields
<1>3. ASSUME NEW x \in Form, EnterQueue(x) \/ GiveUpPosting(x) PROVE FoundHolds'
  <2>1. InForce' = InForce
    BY <1>3 DEF EnterQueue, GiveUpPosting, InForce
  <2> QED BY <1>0, <1>1, <1>3, <2>1, ScreenFields
<1>4. ASSUME NEW x \in Form, AssessAnew(x) PROVE FoundHolds'
  <2> DEFINE rows == Assessed(screen[x].file, payeeOf)
  <2>1. InForce' = InForce
    BY <1>4 DEF AssessAnew, InForce
  <2>2. screen[x].file \in File
    BY <1>0, <1>4 DEF AssessAnew, PayoutTyped, ScreenTyped, Shows
  <2>3. \A n \in Row : /\ rows[n].state = StateOf(screen[x].file, n, payeeOf[n[1]])
                      /\ rows[n].payee = payeeOf[n[1]]
    BY <1>0, <2>2, AssessedTyped
  <2>4. screen'[x].found = rows /\ \A y \in Form : y # x => screen'[y] = screen[y]
    BY <1>0, <1>4, ScreenFields
  <2> HIDE DEF rows
  <2>5. \A n \in Row : rows[n].state = "ready" => Repeats(payeeOf[n[1]]) = {}
    BY <2>3 DEF StateOf
  <2>7. Holds(rows, InForce)
    BY <2>3, <2>5 DEF InForce, Repeats
  <2> HIDE DEF Holds
  <2> QED BY <1>a, <1>b, <2>1, <2>4, <2>7
<1>5. ASSUME NEW x \in Form, Post(x) PROVE FoundHolds'
  <2>1. x \in inQueue
    BY <1>0, <1>5 DEF Post, OneConfirms
  <2>2. \A y \in Form : screen'[y].step # "assessed"
    BY <1>0, <1>5, <2>1, ScreenFields DEF OneConfirms
  <2> QED BY <2>2 DEF FoundHolds
<1>6. ASSUME UNCHANGED screen, InForce' \subseteq InForce PROVE FoundHolds'
  <2> HIDE DEF Holds
  <2> QED BY <1>6, <1>a, <1>b, <1>c
<1>7. ASSUME NEW n \in Phone, TakePhone(n) \/ \E c \in Payee : GivePhone(n, c) PROVE FoundHolds'
  <2>1. UNCHANGED <<screen, payouts, reversed>>
    BY <1>7 DEF TakePhone, GivePhone
  <2> QED BY <1>6, <2>1 DEF InForce
<1>8. ASSUME NEW h \in ByHand, NEW c \in Payee, EnterByHand(h, c) PROVE FoundHolds'
  <2>1. UNCHANGED screen /\ InForce' \subseteq InForce
    BY <1>8 DEF EnterByHand, InForce
  <2> QED BY <1>6, <2>1
<1>9. ASSUME NEW e \in payouts, ReverseEntry(e) PROVE FoundHolds'
  <2>1. UNCHANGED screen /\ InForce' \subseteq InForce
    BY <1>9 DEF ReverseEntry, InForce
  <2> QED BY <1>6, <2>1
<1> QED BY <1>2, <1>3, <1>4, <1>5, <1>7, <1>8, <1>9 DEF PayoutNext

Promised(entries) ==
  /\ \A e \in entries : e.payee = e.promised
  /\ \A e, g \in entries :
       e # g /\ e.payee = g.payee => e.by = g.by \/ "possible_duplicate" \in {e.as, g.as}

LEMMA PromiseStep ==
  ASSUME PayoutInv, PayoutNext
  PROVE  PostedAsApproved'
<1>0. PayoutTyped /\ FoundHolds
  BY DEF PayoutInv
<1>a. Promised(InForce)
  BY DEF PayoutInv, PostedAsApproved, Promised, InForce
<1>b. Promised(InForce') => PostedAsApproved'
  BY DEF PostedAsApproved, Promised, InForce
<1>1. CASE InForce' \subseteq InForce
  BY <1>a, <1>b, <1>1 DEF Promised
<1>2. ASSUME NEW x \in Form, Post(x) PROVE PostedAsApproved'
  <2> DEFINE found == screen[x].found
             offered == screen[x].shown
             Paid(n) == [row |-> <<screen[x].file, n>>, payee |-> found[n].payee,
                         as |-> found[n].state, promised |-> offered[n].payee, by |-> x]
  <2>1. \A e \in InForce' : e \in InForce \/ \E n \in Approved(x) : e = Paid(n)
    BY <1>0, <1>2, ApprovedRows DEF Posting, InForce, Post
  <2>2. \A n \in Approved(x) :
          /\ n \in Row /\ found[n] = offered[n]
          /\ found[n].state \in {"ready", "possible_duplicate"} /\ found[n].payee \in Payee
    BY <1>0, <1>2, ApprovedRows DEF Payable
  <2>4. \A n \in Row : found[n].state = "ready" => \A e \in InForce : e.payee # found[n].payee
    BY <1>0, <1>2 DEF FoundHolds, Post
  <2> HIDE DEF found, offered
  <2>5. \A n : /\ Paid(n).payee = found[n].payee /\ Paid(n).as = found[n].state
               /\ Paid(n).promised = offered[n].payee /\ Paid(n).by = x
    OBVIOUS
  <2> HIDE DEF Paid
  <2>6. \A e \in InForce' : e.payee = e.promised
    BY <1>a, <2>1, <2>2, <2>5 DEF Promised
  <2>7. ASSUME NEW e \in InForce', NEW g \in InForce', e # g, e.payee = g.payee
        PROVE  e.by = g.by \/ "possible_duplicate" \in {e.as, g.as}
    <3>1. CASE e \in InForce /\ g \in InForce
      BY <1>a, <2>7, <3>1 DEF Promised
    <3>2. ASSUME e \in InForce, NEW n \in Approved(x), g = Paid(n)
          PROVE  "possible_duplicate" \in {e.as, g.as}
      BY <2>2, <2>4, <2>5, <2>7, <3>2
    <3>3. ASSUME g \in InForce, NEW n \in Approved(x), e = Paid(n)
          PROVE  "possible_duplicate" \in {e.as, g.as}
      BY <2>2, <2>4, <2>5, <2>7, <3>3
    <3>4. ASSUME NEW n \in Approved(x), NEW k \in Approved(x), e = Paid(n), g = Paid(k)
          PROVE  e.by = g.by
      BY <2>5, <3>4
    <3> QED BY <2>1, <3>1, <3>2, <3>3, <3>4
  <2> QED BY <1>b, <2>6, <2>7 DEF Promised
<1>3. ASSUME NEW x \in Form,
             \/ \E f \in File : Preview(x, f)
             \/ EnterQueue(x) \/ AssessAnew(x) \/ GiveUpPosting(x)
      PROVE  InForce' \subseteq InForce
  BY <1>3 DEF Preview, EnterQueue, AssessAnew, GiveUpPosting, InForce
<1>4. ASSUME NEW n \in Phone, TakePhone(n) \/ \E c \in Payee : GivePhone(n, c)
      PROVE  InForce' \subseteq InForce
  BY <1>4 DEF TakePhone, GivePhone, InForce
<1>5. ASSUME NEW h \in ByHand, NEW c \in Payee, EnterByHand(h, c) PROVE InForce' \subseteq InForce
  BY <1>5 DEF EnterByHand, InForce
<1>6. ASSUME NEW e \in payouts, ReverseEntry(e) PROVE InForce' \subseteq InForce
  BY <1>6 DEF ReverseEntry, InForce
<1> QED BY <1>1, <1>2, <1>3, <1>4, <1>5, <1>6 DEF PayoutNext

(* Types; confirmations one at a time; what an assessment has found stays  *)
(* true until it is posted.                                                *)
THEOREM PayoutsSafe == PayoutSpec => []PayoutInv
<1>1. PayoutInv /\ [PayoutNext]_payoutVars => PayoutInv'
  <2> SUFFICES ASSUME PayoutInv, [PayoutNext]_payoutVars PROVE PayoutInv'
    OBVIOUS
  <2>1. CASE UNCHANGED payoutVars
    BY <2>1 DEF payoutVars, PayoutInv, PayoutTyped, OneConfirms, FoundHolds, InForce,
                PostedAsApproved
  <2>2. CASE PayoutNext
    <3>1. PayoutTyped'
      <4>1. PayoutTyped /\ OneConfirms
        BY DEF PayoutInv
      <4>2. \A x \in Form : x \in inQueue => screen[x].step \in {"queued", "assessed"}
        BY <4>1 DEF OneConfirms
      <4> QED BY <2>2, <4>1, <4>2, PreviewTyped, ConfirmTyped, PostTyped, MeanwhileTyped DEF PayoutNext
    <3>2. OneConfirms'
      BY <2>2, QueueStep DEF PayoutInv
    <3>3. FoundHolds' /\ PostedAsApproved'
      BY <2>2, FoundStep, PromiseStep
    <3> QED BY <3>1, <3>2, <3>3 DEF PayoutInv
  <2> QED BY <2>1, <2>2
<1> QED BY <1>1, PayoutsBegin, PTL DEF PayoutSpec

(* A payout is posted to the courier the administrator saw, and a second   *)
(* one from the statements to the same courier is in force only if it was  *)
(* confirmed together with the first or accepted as a possible repeat      *)
(* (confirmPayoutImport), for any number of files, equal rows,             *)
(* confirmations and couriers.                                             *)
THEOREM PaidAsApproved == PayoutSpec => []PostedAsApproved
BY PayoutsSafe, PTL DEF PayoutInv

-----------------------------------------------------------------------------
(* The composition *)

LEMMA ExchangeBegins ==
  ExchangeInit => GeoInit /\ SyncInit /\ ExportInit /\ LedgerInit /\ PayoutInit
BY DEF ExchangeInit

LEMMA ExchangeSteps ==
  [ExchangeNext]_exchangeVars
    => /\ [GeoNext]_geoVars /\ [SyncNext]_syncVars /\ [ExportNext]_exportVars
       /\ [LedgerNext]_ledgerVars /\ [PayoutNext]_payoutVars
       /\ UNCHANGED part
BY Zenon DEF ExchangeNext, exchangeVars

(* Whichever component a behaviour of the instance explores, every one of  *)
(* them behaves as its own specification says, so what is proved of the    *)
(* components holds of what the run explores.                              *)
THEOREM ExchangeComposes ==
  ExchangeSpec => GeoSpec /\ SyncSpec /\ ExportSpec /\ LedgerSpec /\ PayoutSpec
BY ExchangeBegins, ExchangeSteps, PTL
   DEF ExchangeSpec, GeoSpec, SyncSpec, ExportSpec, LedgerSpec, PayoutSpec

(* The variables of the components keep their types, in the instance that  *)
(* is model-checked and for every value of its constants.                  *)
THEOREM ExchangeTypes == ExchangeSpec => []ExchangeTypeOK
<1>1. GeoTyped /\ SyncTypeOK /\ ExportInv /\ LedgerInv /\ PayoutInv /\ part \in Part => ExchangeTypeOK
  <2>1. PayoutInv => PayoutTypeOK
    BY DEF PayoutInv, PayoutTyped, PayoutTypeOK, ScreenTyped, Screens, Shows, Rows
  <2>2. GeoTyped => GeoTypeOK
    BY DEF GeoTyped
  <2>3. (ExportInv => ExportTypeOK) /\ (LedgerInv => LedgerTypeOK)
    BY DEF ExportInv, ExportTyped, LedgerInv
  <2> SUFFICES ASSUME GeoTypeOK, SyncTypeOK, ExportTypeOK, LedgerTypeOK, PayoutTypeOK, part \in Part
               PROVE  ExchangeTypeOK
    BY <2>1, <2>2, <2>3
  <2>4. CASE part = "geocoding"
    BY <2>4 DEF ExchangeTypeOK
  <2>5. CASE part = "sync"
    BY <2>5 DEF ExchangeTypeOK
  <2>6. CASE part = "export"
    BY <2>6 DEF ExchangeTypeOK
  <2>7. CASE part = "ledger"
    BY <2>7 DEF ExchangeTypeOK
  <2>8. CASE part = "payouts"
    BY <2>8 DEF ExchangeTypeOK
  <2> QED BY <2>4, <2>5, <2>6, <2>7, <2>8 DEF Part
<1>2. ExchangeSpec => [](part \in Part)
  <2>1. ExchangeInit => part \in Part
    BY DEF ExchangeInit
  <2>2. part \in Part /\ [ExchangeNext]_exchangeVars => (part \in Part)'
    BY ExchangeSteps
  <2> QED BY <2>1, <2>2, PTL DEF ExchangeSpec
<1> QED BY <1>1, <1>2, ExchangeComposes, GeoTypeCorrect, SyncTypeCorrect, ExportSafe, LedgerSafe,
           PayoutsSafe, PTL
=============================================================================
