------------------------------ MODULE Geocoding ------------------------------
(***************************************************************************)
(* The point of an order (modules/orders/geocoding, orders/geo.ts,         *)
(* orders/address-service.ts and the import of MoySklad orders).  A new or *)
(* changed address opens a job of the next generation; a worker claims     *)
(* jobs under a lease, asks the geocoder outside any transaction and, with *)
(* the order's row locked again, applies the answer if nothing changed     *)
(* meanwhile.  Logists and the import change the order at any time.        *)
(*                                                                         *)
(* Orders are of the structured-address contract (version 2), where the    *)
(* working address is the query.  A pass holds an advisory lock on a       *)
(* connection of its own; the connection, the process and the lease may    *)
(* all be lost at any moment.                                              *)
(***************************************************************************)
EXTENDS Naturals, FiniteSets

CONSTANTS
  Order,        \* imported orders
  Address,      \* addresses a geocoder can be asked for
  Geocoder,     \* processes that run the geocoding worker
  Unknown,      \* no address, no process
  MaxGen,       \* bound: generations of an order
  MaxTries      \* OrderGeocodeJob.maxAttempts

ASSUME GeoAssumption ==
  /\ Unknown \notin Address \cup Geocoder
  /\ MaxGen \in Nat \ {0} /\ MaxTries \in Nat \ {0}

VARIABLES
  source,     \* structuredAddress
  local,      \* localAddress
  scope,      \* "ours": to be delivered; "away": pickup, archived or missing
  geo,        \* geoState, geoSource and the query the point belongs to
  gen,        \* geoGeneration
  job,        \* OrderGeocodeJob by order and generation
  pass,       \* the pass of a worker
  passLock,   \* holder of the advisory lock of a pass
  provider    \* GeocodingProviderState: "open", or "shut" by a pause or a halt

orderVars == <<source, local, scope>>
worker    == <<pass, passLock, provider>>
geoVars   == <<orderVars, geo, gen, job, worker>>

Gen == 1..MaxGen
Job == Order \X Gen
MaybeAddress == Address \cup {Unknown}

(* Ripe: a pending job is due, the lease of a job in work is over. *)
JobState == [st : {"none", "PENDING", "PROCESSING", "DONE", "FAILED"},
             by : Geocoder \cup {Unknown}, tries : 0..MaxTries, ripe : BOOLEAN]
Unmade == [st |-> "none", by |-> Unknown, tries |-> 0, ripe |-> FALSE]
Fresh  == [st |-> "PENDING", by |-> Unknown, tries |-> 0, ripe |-> TRUE]

Point(st, by, at) == [st |-> st, by |-> by, at |-> at]
NoPoint(st) == Point(st, "none", Unknown)
Points == [st : {"RESOLVED"}, by : {"photon", "suggestion", "manual"}, at : MaybeAddress]
            \cup {NoPoint(st) : st \in {"UNRESOLVED", "PENDING", "NEEDS_REVIEW", "FAILED"}}

NoPass == [rest |-> {}, cur |-> {}, asked |-> Unknown, on |-> FALSE]

GeoTypeOK ==
  /\ source \in [Order -> MaybeAddress] /\ local \in [Order -> MaybeAddress]
  /\ scope \in [Order -> {"ours", "away"}]
  /\ geo \in [Order -> Points] /\ gen \in [Order -> 0..MaxGen]
  /\ job \in [Job -> JobState]
  /\ pass \in [Geocoder ->
       [rest : SUBSET Job, cur : SUBSET Job, asked : MaybeAddress, on : BOOLEAN]]
  /\ passLock \in Geocoder \cup {Unknown}
  /\ provider \in {"open", "shut"}

-----------------------------------------------------------------------------
(* Queries and jobs *)

(* geocodingAddress of an order with these two addresses. *)
QueryOf(loc, src) == IF loc # Unknown THEN loc ELSE src
Query(o) == QueryOf(local[o], source[o])

(* isGeocodable *)
Geocodable(query, sc, point) ==
  query # Unknown /\ sc = "ours" /\ point.by # "manual"

OpenJob(o) == \E g \in Gen : job[<<o, g>>].st \in {"PENDING", "PROCESSING"}

(* enqueueGeocoding: the next generation, no point, a job.  Otherwise the  *)
(* caller's point stays.                                                   *)
EnqueueGeocoding(o, wanted, point) ==
  IF wanted
    THEN /\ gen[o] < MaxGen
         /\ gen' = [gen EXCEPT ![o] = @ + 1]
         /\ geo' = [geo EXCEPT ![o] = NoPoint("PENDING")]
         /\ job' = [job EXCEPT ![<<o, gen[o] + 1>>] = Fresh]
    ELSE /\ geo' = [geo EXCEPT ![o] = point]
         /\ UNCHANGED <<gen, job>>

(* createOrder: with geocoding on, an order with an address is enqueued.   *)
GeoInit ==
  /\ source \in [Order -> MaybeAddress]
  /\ local = [o \in Order |-> Unknown]
  /\ scope \in [Order -> {"ours", "away"}]
  /\ gen \in [Order -> {0, 1}]
  /\ \A o \in Order : gen[o] = 1 => source[o] # Unknown /\ scope[o] = "ours"
  /\ geo = [o \in Order |-> NoPoint(IF gen[o] = 1 THEN "PENDING" ELSE "UNRESOLVED")]
  /\ job = [j \in Job |-> IF j[2] <= gen[j[1]] THEN Fresh ELSE Unmade]
  /\ pass = [w \in Geocoder |-> NoPass]
  /\ passLock = Unknown
  /\ provider = "open"

-----------------------------------------------------------------------------
(* The order changes *)

(* The point after a change of the query: a point found for the former     *)
(* query is worth nothing (invalidateGeoOnAddressChange).                  *)
Invalidated(point, before, after) ==
  IF before # after /\ point.st = "RESOLVED" THEN NoPoint("NEEDS_REVIEW") ELSE point

ImportKeepingPoint(o, a, s) ==   \* mutant: the old point stays
  LET after == QueryOf(local[o], a) IN
  /\ a # source[o] \/ s # scope[o]
  /\ source' = [source EXCEPT ![o] = a]
  /\ scope' = [scope EXCEPT ![o] = s]
  /\ EnqueueGeocoding(o, after # Query(o) /\ Geocodable(after, s, geo[o]), geo[o])
  /\ UNCHANGED <<local, worker>>

(* updateOrder: a new snapshot of the order.  Only a changed query is      *)
(* enqueued; a local address outlives every change of the source.          *)
Import(o, a, s) ==
  LET after == QueryOf(local[o], a)
      point == Invalidated(geo[o], Query(o), after) IN
  /\ a # source[o] \/ s # scope[o]
  /\ source' = [source EXCEPT ![o] = a]
  /\ scope' = [scope EXCEPT ![o] = s]
  /\ EnqueueGeocoding(o, after # Query(o) /\ Geocodable(after, s, point), point)
  /\ UNCHANGED <<local, worker>>

(* markSourceMissing *)
SourceMissing(o) ==
  /\ scope[o] = "ours"
  /\ scope' = [scope EXCEPT ![o] = "away"]
  /\ UNCHANGED <<source, local, geo, gen, job, worker>>

(* setManualPoint *)
SetPoint(o) ==
  /\ scope[o] = "ours"
  /\ geo' = [geo EXCEPT ![o] = Point("RESOLVED", "manual", Query(o))]
  /\ UNCHANGED <<orderVars, gen, job, worker>>

(* setLocalAddress with the exact point of a suggestion, or without; an    *)
(* order that is away is taken for a pickup, which may be edited.          *)
SetLocal(o, a, exact) ==
  /\ local' = [local EXCEPT ![o] = a]
  /\ LET point == IF exact THEN Point("RESOLVED", "suggestion", a) ELSE NoPoint("NEEDS_REVIEW") IN
     EnqueueGeocoding(o, ~exact /\ Geocodable(a, scope[o], point), point)
  /\ UNCHANGED <<source, scope, worker>>

(* clearLocalAddress, and resolveAddressConflict in favour of the source.  *)
ClearLocal(o) ==
  /\ local[o] # Unknown
  /\ local' = [local EXCEPT ![o] = Unknown]
  /\ EnqueueGeocoding(o, Geocodable(source[o], scope[o], NoPoint("NEEDS_REVIEW")), NoPoint("NEEDS_REVIEW"))
  /\ UNCHANGED <<source, scope, worker>>

(* backfillGeocoding.  The candidate is read without its structured        *)
(* address, so an order whose address was never parsed is enqueued too.    *)
Backfill(o) ==
  /\ geo[o].st = "UNRESOLVED" /\ scope[o] = "ours"
  /\ ~OpenJob(o)
  /\ EnqueueGeocoding(o, TRUE, geo[o])
  /\ UNCHANGED <<orderVars, worker>>

-----------------------------------------------------------------------------
(* The worker *)

Owns(w, j) == job[j].st = "PROCESSING" /\ job[j].by = w
Closed(j, st, n) == [job EXCEPT ![j] = [st |-> st, by |-> Unknown, tries |-> n, ripe |-> FALSE]]

Returned(r) == [r EXCEPT !.st = "PENDING", !.by = Unknown, !.ripe = TRUE]

(* Jobs back to the queue, no attempt counted (releaseJobs). *)
Released(w, js) ==
  [j \in Job |-> IF j \in js /\ Owns(w, j)
                   THEN Returned(job[j]) ELSE job[j]]

Freed(w) == IF passLock = w THEN Unknown ELSE passLock
EndPass(w) == pass' = [pass EXCEPT ![w] = NoPass] /\ passLock' = Freed(w)

(* processGeocodingOnce up to the claim: stalled jobs are recovered, and   *)
(* every job that is due is claimed.                                       *)
StartPass(w) ==
  LET mine == {j \in Job : job[j].st \in {"PENDING", "PROCESSING"} /\ job[j].ripe} IN
  /\ ~pass[w].on /\ provider = "open"
  /\ passLock = Unknown
  /\ mine # {}
  /\ passLock' = w
  /\ pass' = [pass EXCEPT ![w] = [NoPass EXCEPT !.on = TRUE, !.rest = mine]]
  /\ job' = [j \in Job |-> IF j \in mine
               THEN [job[j] EXCEPT !.st = "PROCESSING", !.by = w, !.ripe = FALSE]
               ELSE job[j]]
  /\ UNCHANGED <<orderVars, geo, gen, provider>>

StaleKeepingManual(j, asked) ==   \* mutant: a manual point is not looked at
  LET o == j[1] IN
  \/ gen[o] # j[2]
  \/ Query(o) # asked
  \/ scope[o] # "ours"

(* staleReason *)
Stale(j, asked) ==
  LET o == j[1] IN
  \/ geo[o].by = "manual"
  \/ gen[o] # j[2]
  \/ Query(o) # asked
  \/ scope[o] # "ours"

(* markStale: the job is done, the order is left as it is. *)
MarkStale(w, j) == job' = IF Owns(w, j) THEN Closed(j, "DONE", job[j].tries + 1) ELSE job

(* On to the next job; after the last one the pass is over. *)
Proceed(w, j) ==
  IF pass[w].rest = {j}
    THEN EndPass(w)
    ELSE /\ pass' = [pass EXCEPT ![w] =
              [on |-> TRUE, rest |-> pass[w].rest \ {j}, cur |-> {}, asked |-> Unknown]]
         /\ UNCHANGED passLock

(* processJob up to the request.  A job out of date is closed; without a   *)
(* slot the pass stops and gives its jobs back; the provider's state it    *)
(* found is written once more.                                             *)
Begin(w, j) ==
  /\ pass[w].on /\ pass[w].cur = {} /\ j \in pass[w].rest
  /\ \/ /\ Stale(j, Query(j[1])) \/ Query(j[1]) = Unknown
        /\ MarkStale(w, j)
        /\ Proceed(w, j)
        /\ UNCHANGED provider
     \/ /\ ~Stale(j, Query(j[1])) /\ Query(j[1]) # Unknown
        /\ provider # "open"
        /\ job' = Released(w, pass[w].rest)
        /\ EndPass(w)
        /\ UNCHANGED provider
     \/ /\ ~Stale(j, Query(j[1])) /\ Query(j[1]) # Unknown
        /\ provider = "open"
        /\ pass' = [pass EXCEPT ![w] = [@ EXCEPT !.cur = {j}, !.asked = Query(j[1])]]
        /\ UNCHANGED <<job, passLock, provider>>
  /\ UNCHANGED <<orderVars, geo, gen>>

ApplyUnfenced(w, j, found) ==   \* mutant: a lost lease does not roll back
  LET o == j[1] IN
  /\ pass[w].cur = {j}
  /\ IF Stale(j, pass[w].asked)
       THEN MarkStale(w, j) /\ UNCHANGED geo
       ELSE /\ geo' = [geo EXCEPT ![o] =
                 IF found THEN Point("RESOLVED", "photon", pass[w].asked) ELSE NoPoint("NEEDS_REVIEW")]
            /\ job' = IF Owns(w, j) THEN Closed(j, "DONE", job[j].tries + 1) ELSE job
  /\ Proceed(w, j)
  /\ UNCHANGED <<orderVars, gen, provider>>

(* applyResult: everything that may have changed is read again; a job      *)
(* somebody else has taken over rolls the transaction back.                *)
Apply(w, j, found) ==
  LET o == j[1] IN
  /\ pass[w].cur = {j}
  /\ IF Stale(j, pass[w].asked)
       THEN MarkStale(w, j) /\ UNCHANGED geo
       ELSE IF Owns(w, j)
       THEN /\ geo' = [geo EXCEPT ![o] =
                 IF found THEN Point("RESOLVED", "photon", pass[w].asked) ELSE NoPoint("NEEDS_REVIEW")]
            /\ job' = Closed(j, "DONE", job[j].tries + 1)
       ELSE UNCHANGED <<geo, job>>
  /\ Proceed(w, j)
  /\ UNCHANGED <<orderVars, gen, provider>>

(* handleFailure, the geocoder misconfigured: nobody is to ask again until *)
(* the application is restarted.                                           *)
FailConfig(w, j) ==
  /\ pass[w].cur = {j}
  /\ job' = Released(w, pass[w].rest)
  /\ provider' = "shut"
  /\ EndPass(w)
  /\ UNCHANGED <<orderVars, geo, gen>>

(* A job whose attempt failed, to be tried again later. *)
TriedAgain(r) == [r EXCEPT !.st = "PENDING", !.by = Unknown, !.tries = @ + 1, !.ripe = FALSE]
Retried(w, j) == IF Owns(w, j) THEN [job EXCEPT ![j] = TriedAgain(@)] ELSE job

(* handleFailure, an attempt is left: the job waits.  An outage of the     *)
(* service also pauses it (startCooldown) and ends the pass; the other     *)
(* jobs are given back.                                                    *)
FailRetry(w, j, outage) ==
  /\ pass[w].cur = {j}
  /\ job[j].tries + 1 < MaxTries \/ ~Owns(w, j)
  /\ IF outage
       THEN /\ job' = [i \in Job |-> IF i # j /\ i \in pass[w].rest /\ Owns(w, i)
                         THEN Returned(job[i]) ELSE Retried(w, j)[i]]
            /\ EndPass(w)
            /\ provider' = "shut"
       ELSE /\ job' = Retried(w, j)
            /\ Proceed(w, j)
            /\ UNCHANGED provider
  /\ UNCHANGED <<orderVars, geo, gen>>

(* failOrder: the attempts are used up.  A lost lease is an exception here *)
(* that nobody catches: the pass ends and leaves its jobs to their leases. *)
FailOrder(w, j, outage) ==
  LET o == j[1]
      stale == Stale(j, pass[w].asked)
      done == IF stale THEN "DONE" ELSE "FAILED" IN
  /\ pass[w].cur = {j}
  /\ job[j].tries + 1 >= MaxTries
  /\ geo' = IF ~stale /\ Owns(w, j) THEN [geo EXCEPT ![o] = NoPoint("FAILED")] ELSE geo
  /\ IF ~stale /\ ~Owns(w, j)
       THEN EndPass(w) /\ UNCHANGED <<job, provider>>
       ELSE LET closed == IF Owns(w, j) THEN Closed(j, done, MaxTries) ELSE job IN
            IF outage
              THEN /\ job' = [i \in Job |-> IF i # j /\ i \in pass[w].rest /\ Owns(w, i)
                                THEN Returned(job[i]) ELSE closed[i]]
                   /\ EndPass(w)
                   /\ provider' = "shut"
              ELSE /\ job' = closed
                   /\ Proceed(w, j)
                   /\ UNCHANGED provider
  /\ UNCHANGED <<orderVars, gen>>

(* The process dies, or an error of the database ends its pass. *)
Crash(w) ==
  /\ pass[w].on
  /\ EndPass(w)
  /\ UNCHANGED <<orderVars, geo, gen, job, provider>>

(* The connection that carries the advisory lock is lost; the pass goes on. *)
LockLost(w) ==
  /\ passLock = w
  /\ passLock' = Unknown
  /\ UNCHANGED <<orderVars, geo, gen, job, pass, provider>>

(* Nobody renewed the lease in time: the holder is dead or stalled. *)
JobLeaseLapses(j) ==
  /\ job[j].st = "PROCESSING" /\ ~job[j].ripe
  /\ job' = [job EXCEPT ![j].ripe = TRUE]
  /\ UNCHANGED <<orderVars, geo, gen, worker>>

(* renewLeases, while nobody else has taken the jobs. *)
Renew(w) ==
  LET late == {j \in pass[w].rest : Owns(w, j) /\ job[j].ripe} IN
  /\ late # {}
  /\ job' = [j \in Job |-> IF j \in late THEN [job[j] EXCEPT !.ripe = FALSE] ELSE job[j]]
  /\ UNCHANGED <<orderVars, geo, gen, worker>>

FallsDue(j) ==
  /\ job[j].st = "PENDING" /\ ~job[j].ripe
  /\ job' = [job EXCEPT ![j].ripe = TRUE]
  /\ UNCHANGED <<orderVars, geo, gen, worker>>

(* The pause is over, or clearHalt when the application starts. *)
ProviderOpens ==
  /\ provider # "open"
  /\ provider' = "open"
  /\ UNCHANGED <<orderVars, geo, gen, job, pass, passLock>>

-----------------------------------------------------------------------------
GeoNext ==
  \/ \E o \in Order :
       \/ \E a \in MaybeAddress, s \in {"ours", "away"} : Import(o, a, s)
       \/ SourceMissing(o) \/ SetPoint(o) \/ ClearLocal(o) \/ Backfill(o)
       \/ \E a \in Address, exact \in BOOLEAN : SetLocal(o, a, exact)
  \/ \E w \in Geocoder :
       \/ StartPass(w) \/ Crash(w) \/ LockLost(w) \/ Renew(w)
       \/ \E j \in Job :
            \/ Begin(w, j) \/ FailConfig(w, j)
            \/ \E b \in BOOLEAN : Apply(w, j, b) \/ FailRetry(w, j, b) \/ FailOrder(w, j, b)
  \/ \E j \in Job : JobLeaseLapses(j) \/ FallsDue(j)
  \/ ProviderOpens

GeoSpec == GeoInit /\ [][GeoNext]_geoVars

-----------------------------------------------------------------------------
(* Properties *)

(* No courier is sent by a point of another address: a point belongs to    *)
(* the query the order has now, however late the answer came.              *)
PointIsForQuery ==
  \A o \in Order : geo[o].st = "RESOLVED" => geo[o].at = Query(o)

(* No worker ever replaces or drops a point a person has set. *)
ManualPointStays ==
  [][\A o \in Order :
       geo[o].by = "manual" /\ geo'[o] # geo[o] => UNCHANGED pass]_geoVars

(* An answer and the end of its job are one: a worker whose lease is gone  *)
(* changes nothing, and no order is given up before its last attempt.      *)
AnswerClosesJob ==
  \A o \in Order :
    /\ geo[o].by = "photon" => job[<<o, gen[o]>>].st = "DONE"
    /\ geo[o].st = "FAILED" => job[<<o, gen[o]>>].st = "FAILED" /\ job[<<o, gen[o]>>].tries = MaxTries

(* An order of ours that waits for its point has a job that may bring it.  *)
PendingHasJob ==
  \A o \in Order : geo[o].st = "PENDING" /\ scope[o] = "ours" => OpenJob(o)
=============================================================================
