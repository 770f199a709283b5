# A TLA+ development of flowers-logistics

flowers-logistics is a modular monolith (TypeScript, Fastify, React, PostgreSQL
through Prisma) that takes flower orders from MoySklad, lets florists assemble
them, the warehouse store and hand them over, logisticians plan routes and
decide about failures, and couriers deliver them. One Node.js process serves the
API and runs the background workers; during a deployment two of them overlap.
Every operation is one PostgreSQL transaction at READ COMMITTED. What makes it
hard is therefore not parallel code but the interleaving of transactions that
lock different rows, values read before the lock that protects them, leases that
lapse under a live holder, answers of other systems that come late or twice, and
long legal sequences of operations by people who do not see one another.

This directory holds one specification per component, the abstract
specifications that some of them implement (`OnceQueue`; `Sheets` and
`OrderCase`), the model-checking modules (`MC*.tla`,
`*.cfg`) and the proofs (`*_proofs.tla`). `PROJECT.json` lists components,
hazards, runs, the lines of code behind each definition, mutations of the model
that each property detects, and the theorems.

## 1. Inventory

Paths below are under `src/apps/api/src/modules/` unless they say otherwise.

| Component | State | Operations | Correct when | Module |
|---|---|---|---|---|
| routing: lifecycle, composition (`routing/lifecycle.ts`, `service.ts`) | `DeliveryRoute` (state, courier, version), `RouteOrder` (participation, `removedAt`) | create, add, return, move, reorder, confirm, ship by hand, cancel shipment, split, cancel, complete | an order is on one active route at most; a route is complete exactly when its orders are resolved; a shipped route is not edited | `Delivery`, `RouteIssue`, `Sheets` |
| routing: leases (`lease.ts`) | `RouteEditLease`, route version | acquire, heartbeat, release, take over, edit | only the holder writes; a late holder is refused | `RouteLeases` |
| delivery (`delivery/service.ts`) | `DeliveryAttempt` with `activeKey`, cancellations | record a result, cancel it | one standing result per participation; a failure opens a task and a return in the same transaction | `Delivery`, `OrderCase` |
| returns (`returns/service.ts`) | `OrderReturn`, `OrderResolution` | mark returning, accept, four decisions | the courier is responsible for a box until the warehouse accepts it; one decision per task | `Delivery`, `OrderCase` |
| warehouse issue (`warehouse/route-flow.ts`, `issue-guard.ts`, `route-cells.ts`) | `RouteIssueSession`, `RouteIssueCheck`, `RouteCellBinding` | bind a cell, pick, confirm the courier, scan, reset, cancel, ship | a sheet leaves whole, as scanned, to the confirmed courier | `RouteIssue` |
| placements (`warehouse/placement.ts`) | `OrderPlacement` | receive, move, withdraw | a box is in one cell | `RouteIssue`, `Delivery` |
| source cancellation (`integrations/moysklad/cancellation.ts`) | `cancelledInSource`, tasks | cancel, withdraw the cancellation | a cancelled delivered order becomes a task | `Delivery`, `RouteIssue` |
| outbox (`outbox/worker.ts`, `producer.ts`, `routes.ts`) | `OutboxMessage`, `OutboxProcessedMessage` | enqueue, recover, claim, renew, handle, finish, fail, retry by hand, start, stop | effects at most once; every message resolved; stop returns | `Outbox`, `OnceQueue` |
| auth (`auth/sessions.ts`, `service.ts`) | `RefreshSession` families | create, rotate, replay in grace, revoke | one live chain per family; whoever is locked out has none | `Sessions` |
| users (`users/service.ts`, `auth/service.ts`, `bootstrap.ts`) | `User`, activation codes, PIN | create, activate, freeze, reset, change role or phone | an administrator is left; no session under an old secret | `Accounts` |
| planning (`planning/service.ts`, `runner.ts`, `apply.ts`) | `RoutePlanRun` with a lease | request, claim, heartbeat, compute, expire, apply | one active run per day; an applied run is not overwritten | `PlanRuns` |
| printing (`fulfillment/print.ts`, `printing/`, `src/agent`) | `OrderPrintJob` with a lease, the agent's files | claim, report, retry | a job that says "sent" was printed | `Printing` |
| fulfillment (`fulfillment/assembly.ts`, `shifts.ts`, `queue-service.ts`, `dispatch*.ts`, `no-flowers.ts`) | process state of an order, shifts, dispatch, refusals | claim, release, assemble, reopen, reassign, dispatch, refuse, quarantine | an order is finished by a florist on duty; what the customer has is not produced again | `Assembly` |
| geocoding (`orders/geocoding/`, `orders/geo.ts`, `address-service.ts`) | jobs, generation of the address, provider state | enqueue, claim, resolve, retry, pause | an old answer never lands on a new address | `Geocoding` |
| MoySklad import (`integrations/moysklad/sync.ts`, `import-service.ts`) | cursor, checkpoint, revisions, orders | full load, delta, reconciliation, backfill of compositions | a change that was not read will be asked for | `SourceSync` |
| MoySklad state export (`integrations/moysklad/state-sync.ts`) | rank and sequence of the last state sent | draw a message, handle it | the state shown is that of the latest event | `StateExport` |
| finance: ledger (`finance/accrual.ts`, `order-sync.ts`, `ledger.ts`, `mkad-auto.ts`) | append-only entries | accrue, reverse, restate, correct, strip | a cancelled order is worth nothing | `CourierLedger` |
| finance: payouts (`finance/payout-import.ts`) | imports, rows, queue positions | preview, confirm, enter by hand | what is posted is what was approved | `PayoutImport` |
| realtime (`realtime/`, `platform/maintenance.ts`, web `realtime/`) | event log, streams, position of a tab | publish, connect, drain, resync, delete, close | a position never passes an event that has not arrived; nothing after the end of the session | `Realtime` |
| couriers, pickup, depots, settings, notifications, audit, history, reports, geo, health | records and read models | administrative writes and lists | - | - |
| web client (`src/apps/web/src`) | screens, scanner state | - | - | - |

Interactions: a sheet that is confirmed by routing is loaded by the warehouse
(`shipRoute` calls the same `activateRouteWithinTransaction` as the manual
shipment), delivered by the courier, and each failure calls
`openAfterFailedDelivery` of returns inside the transaction of delivery.
Decisions and the import close participations of routes whose lock they do not
take. Business transactions insert outbox messages and print jobs; the workers
and the print agents apply them later. A frozen user loses his sessions in the
transaction that freezes him. All operations publish realtime events in their
own transaction.

Hard behaviours, each listed with its line under "hazards" in `PROJECT.json`:
values read before the lock that protects them (`removedAt`, the PIN, a preview,
a report, an order a florist refuses); two operations under different locks
(acceptance and correction of a failure, restating and cancelling a fee);
completion re-examined in several places; shipments cancelled after results were
given; sessions of the warehouse against edits of the same sheet; leases that
lapse while the holder is alive; processes killed in the middle of a pass;
lists read page by page while they change; answers that come late, twice, out of
order or not at all; retries by hand.

## 2. Plan

Done: `Outbox` with `OnceQueue`, `Delivery` with `OrderCase`, `RouteIssue`,
`Sheets`, which both of them implement, `RouteLeases`,
`PlanRuns`, `Sessions`, `Accounts`, `Printing`, `Assembly`, `Geocoding`,
`SourceSync`, `StateExport`, `CourierLedger`, `PayoutImport`, `Realtime`, with the
proofs section 5 names.

Left, in this order:

1. Positions of the orders in a sheet and `moveOrders`: a gap left by
   `returnToUnassigned` (`cancellation.ts` 226-250) meets the unique key
   `RouteOrder_active_position_unique`.
2. A lock-order model of the transactions that lock several orders or shelves.
3. The other finances: opening debts, transfers between cash desks, cash
   corrections against corrections of results, closing of a day.

## 3. The modules

### Delivery

A participation is a pair route, order (`RouteOrder`). `open` is the set with
`removedAt` null; `result` is the outcome of the attempt that has an `activeKey`;
`task` and `ret` belong to that attempt. When a result is taken back and given
again, the new attempt takes the place of the old one in these functions; a task
that outlives its attempt is in `orphan`, and that some return of an order was
ever accepted is in `accepted`. `routeState` is `DeliveryRoute.state`, with FREE
for identifiers not used yet; the draft stage is not a state here, because a
draft has no results (RouteIssue has it).

Each operation is an action of the name it has in the code. Two operations are
split where the code reads a value before it holds the lock that protects it:
`BeginResult` reads the participation, `RecordDelivered`, `RecordNotDelivered`
and `RefuseResult` act on it under the route's lock (variable `sending`);
`BeginAcceptReturn` reads the return under the order's lock and
`FinishAcceptReturn` writes it (variable `accepting`; `OrderLocked` makes the
operations wait that lock or reference that order). A unique violation or a
violated CHECK (`AllowedTransition`) rolls the transaction back and is a
disabled step.

Left out: idempotency keys of requests, the five-minute window of the courier,
money, notes and reasons, notifications, the date and eligibility of an order.

### OrderCase and Sheets

What delivery, returns and routing together promise about an order, without the
states of routes, couriers, locks and requests in flight. `Sheets` says who may
carry it: `promised` is the set of attempts somebody is to make or has made; a
route takes orders that nobody carries (`Take`), passes some to a route that
carries nobody (`Move`), and an attempt ends alone (`Leave`) or with its whole
route (`GiveUp`). `OrderCase` adds what a failure leaves behind: `owed` are the
failed attempts whose bouquet is not back, `asked` those that await the
logistician. A failure opens both, and only if nothing of the order is owed or
asked; an acceptance ends the debt, an answer the question, taking the failure
back ends both.

In `Delivery` the mapping is `promised <- open`, `owed <- Owed` (the return is with
the courier or on its way), `asked <- Asked` (an open task, an orphaned one too),
and `KeepsCase` is the specification. In `RouteIssue` it is `promised <- open` with
`KeepsSheets`. Both modules have their own view of routes, with drafts in one and
results in the other; `Sheets` is what they agree on.

### RouteIssue

The same routes seen by the warehouse, from draft to shipment: sessions, scan
marks, shelves and placements. ACTIVE stands for COMPLETED as well. `shipRoute`
is two steps, `BeginShip` (lock, session, courier, composition, marks) and
`FinishShip` or `AbortShip` (orders locked one by one, cancellations read, boxes
released, route activated): whatever takes the route's lock waits (`Unlocked`),
decisions, import and scans of boxes into cells do not. Results are reduced to
failures that await a decision; delivered orders may be removed here, which only
adds behaviours.

### Outbox and OnceQueue

A row per idempotency key, a worker per process start. `stale` and `due` abstract
the clock: a lease lapses when nobody renews it (`LeaseLapses`) or when a live
process stalls (`Stall`); a failed message becomes due after its back-off.
The handler, its mark (`OutboxProcessedMessage`) and the verdict commit in one
transaction (`Succeed`), except that the verdict is written only while the lease
is held (`Finalize`). `Kill` and `AbortPass` are the crashes; `Stop` is the
graceful end. `OnceQueue` is what a producer may rely on: no workers, no leases,
an effect applied at most once, done is final. `Promise == INSTANCE OnceQueue
WITH ...` is the refinement mapping and `KeepsPromise` its specification.

### RouteLeases

`lease` is the row of `RouteEditLease` of one route (holder and the tick at which
it ends), `tick` the clock, `version` the version of the route, `tab` what each
editor's screen remembers: the lease and the version it has seen. Acquiring,
renewing, releasing and taking over are the operations of `lease.ts`; a take-over
carries the holder its screen showed. `LeaseIsExclusive` has two halves: what may
end the lease of somebody who works (`TakenOnSight`), and who may save or end a
draft at all (`SavedByHolder`). Edits and changes of state need a lease that
is the editor's and the version he has seen; both are compared inside one
transaction that holds the route's lock, so an edit is one step. Time passes at
any moment, up to `MaxLag` beyond the end of a lease.

### Sessions and Accounts

`Sessions` has a record per refresh token: family, parent, whether it is used,
revoked or replaced, and whether the grace period is over. A refresh is the
sequence of its statements with the row locks it takes (`Open`, `UserLocked`),
because freezing takes the user's row first and the sessions after it, and a
rotation the other way round: a deadlock is an aborted request. The copy of the
successor that a repeated refresh is given within the grace period lives in the
old row and goes with it.

`Accounts` has the standing of every person, role, PIN, activation code and
phone, each secret being a number that is never used twice. Freezing, demoting
and resetting read whether another active administrator is left before they
write (`Pass` is the gate they share: an advisory lock). A sign-in compares the
PIN first and opens the session in a later transaction, under the row's lock,
against what is in force by then. That two accounts may not have one phone and
the throttling of sign-ins are left out.

### PlanRuns

`plan`, `holder`, `overdue` and `recoveries` are the columns of `RoutePlanRun`; a
change of the input since the request, whichever of the many it is, is the one
fact `outdated`. A planner process first lists the exhausted runs
(`ListExhausted`) and closes each without looking at it again (`CloseExhausted`),
then claims, computes and writes under its lease. An expiry by hand or by a new
request reads the preview unlocked (`ReadPreview`) and writes afterwards
(`ExpirePreview`), or is refused by a CHECK or by the key of the day
(`ExpireRefused`). What a plan contains is not modelled: the draft routes of an
applied run are one element of `drafts`.

### Printing

The server's jobs (`delivery`, `over`, `tries`), the agent beside one printer
(`agent`, its files `journal` and `pendingMark`, which survive a power cut, and
`memory`, which does not) and the reports between them. A report is read and
written by the server in two steps without a lock; a request may be handled after
the agent has given it up, which is a report that nobody awaits. `labels` counts
what the spooler took. One print point with one agent is modelled, of the job
only the automatic delivery.

### Assembly

An order is its process state, its florist and the shift it was taken in. Because
`lockActiveShift` holds the row of a shift to the end of the transaction, an
operation under a shift is two steps: `LockShift`, then the operation or
`GiveUp`; `Held` is what everybody who wants that row waits for. The
administrator acts without a shift of his own. A refusal reads the order without a
lock (`AskToLeave`) and records a request or a quarantine later. The automatic
dispatch finds free florists (`BeginDispatch`) and gives them orders one by one
(`Dispatch`). An order can be handed over whether its composition is ready or not.
The transfer of a refusal is the one operation that gives an order away without
looking whether the customer has it already, and `IssuedIsNoWork` allows it that
and nothing else. The world outside production changes compositions, cancels, hands
over at the counter and returns orders for another assembly. Left out: versions
of the card, the order of the queue, the priority of an order that comes back.

### Geocoding

Per order the address as the source gives it, the local address, the generation
`gen`, and the point with where it comes from and the question it answers; per
order a job with state, owner and lease. A pass of a worker takes the lock and
the request slot of the provider, asks outside any transaction and stores the
answer under lease and generation (`Apply`, `Stale`). Answers may fail or come
after the lease lapsed, processes die at every step, and an administrator resets
a job or a failing provider is put into quarantine. Addresses are those of the V2
contract; that two orders share a cached answer is left out.

### SourceSync

MoySklad is a list of documents in the order of their last change, and every
document an edition and a moment; a pass reads it by offset, one document to a
page, while it goes on changing. The three passes (full load with its checkpoint,
delta from the cursor minus `Overlap`, daily reconciliation) and the backfill of
compositions break off anywhere. The cursor, the editions that were imported, and
which of them have a composition are what the database knows. Scopes, the import
cutoff, back-off, rate limits and a lost lock connection are left out; the clocks
of both systems are equal.

### StateExport

Events of one order (assembled, shipped, delivered, failed, cancelled) draw a
sequence number and leave a message; messages are handled in any order, again,
and broken off after the request. `sent` is what the database knows of the last
state (rank and sequence), `shown` what MoySklad shows. `Outdated` is the
comparison of both. `overtaken` says that MoySklad last changed by a request that
outlived its handler. The switched-off mode, the pickup target and ranks derived
for rows older than a migration are left out; messages that were given up stay.

### CourierLedger

Entries of one order: sums per order, per distance and in cash, for attempts on
two sheets, each booked into a day. Results and their corrections, restated
distances (a job that reads the attempt and writes later), corrections of payment,
entries by hand, reversals by hand, and the cancellation in the source, which
strips the order (`Strip`). A distance costs its number of kilometres and is
computed once per participation; cash can always be collected. `MaxCancels`,
`MaxPayments`, `MaxRestated` and `MaxByHand` bound the source's cancellations, its
growths of the payment, the fees booked for an attempt and the reversals by hand.

### PayoutImport

A bank file is a set of rows, several of them to one phone (`Copy`), which are all
meant; a preview assesses them (`StateOf`), and confirmations wait in one queue
for all files (`QueueFree`). Confirmations
race (`Form`), files are exported again and overlap, phones change hands, payouts
are entered by hand and reversed. All payouts of the instance have one day and
one sum, which is the case in which they can be mixed up; a preview is one step.

### Realtime

The channel of one tab. `events` is the journal; a row is open (its transaction
goes on), committed, undone or deleted, with the stamp `occurredAt`, the moment by
which its transaction ends, the moment it may be deleted, and whether this viewer
sees it. `occurredAt` is a default that is evaluated before the row draws its id,
so a stamp may be up to `Skew` older than the moment of its id, and stamps need not
follow the ids. `stream` is the connection and the cursor of `startEventStream`, `drain`
the snapshot of the transaction in flight (REPEATABLE READ: the session and the
rows of one moment; the clock is read later, at most `MaxGap`), `tab` the hook
`useRealtime` with its `lastEventIdRef`. `got` and `base` are what the tab has
handled and from where on it relies on the channel, before which its screens have
asked for everything; `postEnd` is what was committed after the session had ended.
What is written and what of it arrives is one step (`HandOver`), in which the
connection may break after any event. A drain may begin at any moment, so the
notifier and the poll need no state. `Cleanup` does not overtake a stream that has
no position yet, because such a stream reads every few seconds and rows live a
day. A tab whose session was lost does not sign in again: its screen, and the hook
with it, is another one then. Left out: how events are addressed to roles, what a
screen does with an event.

## 4. Runs

| Run | Instance | Distinct states | Shows |
|---|---|---|---|
| one_order | 1 order, 2 routes, 2 couriers | 1,625,607 | one promise, one obligation, obligations of a failure, custody only freed by acceptance, final decisions, refinement of `OrderCase` |
| two_orders | 2 orders, 2 routes, 1 courier, `FewTroubles` | 1,584,276 | completion and splitting with another order on the same route |
| route_issue | 2 orders, 2 routes, 2 couriers, 1 shelf, `OneCancellation` | 1,174,650 | the five properties of the hand-over, refinement of `Sheets` |
| outbox | 2 messages, 2 workers, 1 fault, 1 manual retry | 53,798 | once-only effects, fencing, refinement of `OnceQueue`, every message is resolved, every stop returns |
| operations | `MCOperations`: sessions, accounts, planning, leases, printing, assembly, realtime | 1,956,383 | one live token of a family, nobody locked out has a session, an administrator is left, sessions are current, drafts belong to applied runs, "sent" was printed, no event that commits late is passed over, none is shown after the end of the session, assembled on duty, issued is no work, leases are exclusive |
| exchange | `MCExchange`: geocoding, sync, export, ledger, payouts | 1,464,711 | points answer their question, answers close jobs, manual points stay, the next delta asks for what is missing, compositions are awaited, the outcome is shown, a cancelled order is worth nothing, posted as approved |
| removed_participation, redeliver, accept_race, freed_shelf, last_resolved, cancel_all | small instances | - | six statements of the code's comments and documents that the code does not keep (section 7) |

`MCOperations` and `MCExchange` hold components that share no state. A behaviour
explores one of them, chosen in the initial state by `part`; the others rest, and
the VIEW leaves them out. So one run checks what would otherwise be a run for
each, and the state spaces add up. The view also drops what can no longer matter:
of a row of the journal the deadline of a transaction that has ended (`RowView`),
of the ledger the day and sum of entries that count on no day any more and what is
known of the distance of results that do not stand (`LedgerView`), of the payouts
the screen of a confirmation whose key is used and all but the rows of reversed
payouts (`PayoutView`).

Bounds of the delivery modules. `Route` limits how many routes are ever created.
Two are enough for every pair of sheets an order can be on, a split included, and
the second is used up after the first failed; a third route would repeat the first
step. In `one_order` there is no further bound: everything that happens to one
order is covered, and most of these properties speak of one order. `two_orders`
is for completion and splitting, which need a second order on the route;
`FewTroubles` keeps the warehouse empty, leaves out the logistician's cancellation
and allows two tasks and one source cancellation. In `route_issue` at most one
order is cancelled (`OneCancellation`); the other order is the one that still has
to be shipped or refused.

Bounds of the outbox. `MaxFaults` = 1 is one crash or lost lease, `MaxRetries` = 1
one manual retry, `MaxAttempts` = 2 one failure before the last; `Limit` bounds the
batch; `Another` keeps one process alive or to be started. The theorems hold for
any number of workers, faults and retries; the liveness properties rest on the run.

Bounds of the others. Two actors of each kind, since every hazard above is one of
two actors: two requests, two people, two planners, two editors, two florists
(one of them the chief), two workers of the geocoder, two files with two
confirmations. Four tokens allow a rotation after a repeated one; `MaxSecret` = 3
a reset after a reset; `MaxRecoveries` = 1 a recovery and an exhaustion;
`MaxDeliveries` = `MaxClaims` = 2 a label handed out again; `MaxOpen` = 1 one open
transaction of the assembly against whole ones of everybody else (the theorems
hold for any number); `Ttl` = 3, `MaxLag` = 2 a lease renewed, lapsed and taken
over. `MaxGen` = 2 an address changed twice, `MaxTries` = 2 a failure before the
last; two documents whose two editions fall on two moments, so that a document is
changed behind, at and before the page being read; `MaxSeq` = 5 all kinds of event
of an order and one more, `MaxLate` = 1 one late request; one attempt on each of
two sheets, two days, two cancellations in the source (`MaxCancels` = 2: cancelled,
restored and cancelled again), one growth of the payment, two fees (`MaxRestated`
= 2: the fee of the delivery and a restatement that takes it back, or two
restatements), one reversal by hand; longer sequences are covered by
`CancelledOrderCountsNothing`, for any bounds. Two files with two equal rows each,
and one payout by hand. Three events, pages of two and a clock of six moments are a
transaction that outlasts another one, stamps against ids, a page that is cut,
events deleted unread and a position that has become stale; the window (4) is
longer than stamping, a transaction and a drain together (1 + 1 + 1), as it is
meant to be. Larger
instances were explored once: `SourceSync` with (Overlap, LastMoment, MaxEdition)
= (1, 3, 3), 23 million states, (1, 3, 2) and (0, 2, 2); `StateExport` with
`MaxSeq` = 6 and no late request; `PayoutImport` with two phones.

Symmetry is used where no liveness is checked. Deadlock is not checked: people
stop acting, all identifiers get used, and a queue whose messages are done has
nothing to do.

Fairness. Only `Outbox!FairSpec` has it: passes start and claim again and again
(the interval timer), a message in the batch is processed (sequential loop; the
handler's transaction has a time limit), a started process starts, a stop that may
return returns, back-off and abandoned leases run out. Nothing is assumed of
renewals, retries, crashes or enqueueing, and nothing about the success of a
handler: `Fail` may be chosen every time. The other modules claim safety only:
their steps are taken by people, or by timers whose progress depends on other
systems.

## 5. Proofs

`*_proofs.tla` are checked by tlapm; every theorem holds for all values of the
constants that satisfy the named assumptions (`NoneAssumption`,
`DistinctAssumption`, `BoundAssumption`, `SessionAssumption`, `AccountAssumption`,
`PlanAssumption`, `PrintAssumption`, `AssemblyAssumption`, `LeaseAssumption`,
`RealtimeAssumption`, `GeoAssumption`, `SyncAssumption`, `ExportAssumption`,
`LedgerAssumption`, `PayoutAssumption`: the null values are distinct, bounds are
numbers, the documents of a list are finitely many).

* `Delivery_proofs`: the type invariant and every invariant of the passing
  runs, each inductive together with `TypeOK`. `OneObligation` needed its first
  conjunct (an orphaned task is not also the open task of the participation):
  without it the two tasks of one participation would be counted as one.
  The action properties use `FailureHasObligations`: a return that is with
  the courier has its failure, so cancelling a result is the only way that
  frees him without the warehouse. `SplitMovesEverything` uses types only.
  Refinement of `OrderCase` (`OrdersKeepTheirCase`) is proved action by action:
  every transaction is one step of the abstract case or a stutter. Two more
  invariants are needed to name that step. `FreeCarriesNobody` (a route that is
  not used yet has no orders) is why a split is a `Move`, and `DebtIsNoOrphan` (a
  debt has no orphaned task) why taking a result back closes the question it
  opened. `OneObligation` makes an acceptance and a decision speak of one attempt,
  `OnePromise` a decision close one participation. `DeliveryKeepsSheets` drops
  debts and questions.
* `RouteIssue_proofs`: the properties are not inductive because `FinishShip`
  trusts what `BeginShip` read. The strengthening adds `MarksInSession` (marks
  live in open sessions only) and `LoadStands` (while a shipment is in flight its
  session is open, what it loads is marked, and nothing has joined the sheet).
  The last conjunct is what the route's lock is for. `IssueKeepsSheets` needs none
  of it, only that an order is on one sheet and that an unused route is empty
  (`SheetInv`); the first of these is preserved by every step of `Sheets`
  (`SheetsKeepOne`), so it is not proved for each action of the warehouse.
* `Outbox_proofs`: `Marked` (the mark counts the committed effects, DONE is never
  without it), `Remembered` (a worker that owns a message of its batch remembers
  its present attempts - the fencing argument) and `Budgeted`. Refinement of
  `OnceQueue` is proved from it step by step.
* `Access_proofs`. Sessions: the invariant relates the live leaf of a family, the
  copies of successors and what each open request holds: a request that locked a
  session is the only one that can replace it, and a request that found its user
  active before the freeze cannot write after it. Accounts: an open check that has
  found another administrator keeps the gate until it writes, so what it found is
  still true; a session carries the secrets it was opened with, and whoever
  changes them ends it.
* `Operations_proofs`: for planning, what an open expiry relies on after its read
  (`PlanSound`: the row is still not new, the row it will put in its place is not
  used); for printing, that a report of success and an agent that has printed
  stand for a label the spooler took, and that copies are counted by the times a
  job was handed out; for the assembly `DutyHeld`: a transaction under a shift
  holds the florist's present shift; for the leases nothing more than types: a
  save by anybody but the editor it was granted to last, or on a version he has not
  seen, is impossible, because lease and version are compared in the step that
  writes, and the end of a lease is excluded operation by operation.
  `OperationsCompose`: every behaviour of `MCOperations` is a behaviour of each
  component, so what is proved of the components holds in the run's module.
* `Realtime_proofs`: `NothingAfterTheEnd` because whatever a valid drain has seen
  was committed before the end. `LateCommitsArrive` under `WindowIsEnough` (stamping,
  a transaction and a drain together are shorter than the window), with stamps in
  any order: `RowsInOrder` says that transactions keep their time and what a
  deletion tells of the rows with lower ids, `SnapshotIsComplete` that below a row
  old enough to be handed over the snapshot misses only what was undone or deleted
  - a transaction still open would be too old -, `PositionIsSound` that nothing
  below the tab's position is open and that the cursor stands where the tab does.
  An event in step with its id (`InStep`) is stamped no later than any event above
  it, so it leaves the window no later. `PageHasNoHoles` is the cut of the batch.

* `Exchange_proofs`, one section per component. Geocoding: a job still open has an
  attempt left (so a job that fails at its last attempt is really given up), and an
  order's answer and the job of its generation are in step (`EveryAnswer`). Reading
  of orders: `SnapshotInv` (an order is never ahead of its document, and what waits in the queue is the order's own version), and for
  `NextDeltaAsks` the invariant `LossInv`. A change made during a pass has a stamp
  not before its start (`RowAsRead`, `ReadIsFresh`), so only older changes can be
  lost, and those are in the list of the pass. `Paging` is the argument about the
  pages: the list of a delta pass only shrinks, since a document that changes leaves
  the window; while it has the size of its first page it is the same list, and
  everything before the reader's place has been read (`Passed`); once it is smaller,
  the reader meets an empty page too early and the pass fails. It needs that places
  in the list are distinct and below its length (`PlaceInside`, `PlacesDiffer`).
  Reconciliation needs no paging: it ends only when it has come across every order
  that is not missing. State export (`ExportInv`): a number is drawn once, and the outcome
  of the order is either still in the queue as its latest message (`Awaited`) or was
  the last to be committed (`Settled`). Payouts: one confirmation at a time, what it
  found while holding the queue holds until it posts (`FoundHolds`): two equal rows
  without reserve are therefore rows of one confirmation.
  `ExchangeComposes` and `ExchangeTypes` carry all of it, the ledger included, over
  to `MCExchange`.
* `CourierLedger_proofs`, in two halves. The invariant `LedgerInv` says that the book
  is a finite set of entries, that an open correction has read entries that were not
  reversed, and that every entry of a cancelled order is neutral once its jobs are
  done: reversed in its own day, or moved away. The other half is that a sum over
  neutral entries is zero, for any finite book. `MapThenSumSet` is a recursive
  function on the subsets of the book, and the library's induction theorems take an
  operator as a parameter, so the induction is done with sets: a set of
  counterexamples has a smallest member, because the strict-subset order of a finite
  set is well-founded (`SmallestSubset`), and that member without one element is
  a smaller one. `SumExists` shows in this way that the recursion has a solution at
  all (the library takes it by CHOOSE), `SumStaysIn` that a sum stays in every set
  closed under adding a weight: {0} for neutral entries, the integers for
  `SumOfAmounts`, which corrections of a payment need.

Every safety property of the passing runs is a theorem. Only model-checked are the
liveness properties `Resolves` and `StopCompletes`, since fairness is out of the
prover's reach. `BudgetIsKept` (attempts stay within the limit), `DoneWasApplied`
and the inductive invariants are proved and in no run.

## 6. What the properties detect

Each property has a mutation of the model, written as a plausible bug of the
code, that the run rejects: completion counted before the write, a correction that
does not close the obligations, a decision that forgets the check for an earlier
one, a split that closes without moving, an edit that does not look at the open
session, an order in a draft taken for another sheet, a task forgotten with its
result, marks that outlive their session, a verdict without the lease condition, a
recovery that compares the wrong way round, a row read without FOR UPDATE, a sign-in that trusts the PIN it compared, a gate that is
not taken, a lease recognized by its name after it lapsed, an unknown outcome counted as
printed, a changed address that keeps its point, a cursor moved to the end of the
pass instead of its beginning, a state compared by rank alone, a queue of payouts
counted per file, a page without its window, a session that is checked on connecting only.
They stand before the definition they change, marked "mutant".

## 7. Where code and documents disagree

With a run of their own:

1. *A result on a removed participation* (`delivery/service.ts:503`). `removedAt` is
   read before the route lock and used after it.
2. *Redelivery on an earlier acceptance* (`returns/service.ts:484`). Any accepted
   return of the order is enough, though the present one is with the courier.
3. *Acceptance against correction* (`returns/service.ts:767`,
   `delivery/service.ts:859`). Different locks; a return can be accepted although
   its failure has just been taken back.
4. *A freed shelf with boxes* (`warehouse/route-flow.ts:762`). A manual shipment
   releases the bindings and leaves the placements.
5. *The last unresolved order* (`integrations/moysklad/cancellation.ts:227`). A
   withdrawn source cancellation closes a participation without completing the
   route.
6. *A task without its result* (`routing/lifecycle.ts:571`). Cancelling a shipment
   with all its results does not close the correction task of a delivered order
   cancelled in the source; it then blocks the next failure of that order.

Stated in the modules and violated there, each found by checking the module on its
own; no run repeats them:

* `EndsAllSessions` (`Sessions`): a logout everywhere ends all sessions
  (`auth/sessions.ts:84`), but a sign-in whose transaction was open survives it.
* `PreviewStays` (`PlanRuns`): a preview goes away only by a person's hand;
  `failExhaustedRuns` may overwrite one that was stored after it made its list.
* `PrintedOnce` (`Printing`): "better no label than two" (`agent.cjs` 22-27); an
  agent that loses the answer to its report reports a failure, and gets the job
  again before it restarts and reads its journal.
* `QuarantinedIsNew`, `ApprovedIsFree` (`Assembly`): an order in quarantine can be
  claimed by hand, and a refusal approved after a new round does not free anybody.
* `PendingHasJob` (`Geocoding`): an order that waits for a point has a job; a V2
  order without a structured address has none.
* `CancelledResultIsZero` (`CourierLedger`, `finance/accrual.ts:10-11`): a
  distance restated while the result is taken back leaves its difference.
* `NothingUnread`, `MissingWasDeleted`, `LoadLosesNothing` (`SourceSync`): a list
  read by offset slides under the reader, so a document may be passed over and
  even be declared missing until the next reconciliation.
* `NothingPassedOver` (`Realtime`, `realtime/reader.ts:9-12`, `77-98`): "with
  transactions as long as ours the window is enough" to lose no event. It is not,
  however short they are: `occurredAt` is a default that is evaluated before the row
  draws its id, and the query filters row by row. Of two committed rows the one with
  the lower id may be stamped later, and a drain whose bound falls between the two
  stamps takes the tab past it. TLC finds it at the bounds of the run `operations`
  (`Skew` = 1), in thirteen states. `LateCommitsArrive`, which that run checks and
  `LateCommitsArriveHolds` proves, is what the window does give.
* The transfer of a refusal gives an order the customer already has to another
  florist (`fulfillment/dispatch-florist.ts:408-421`), though `issued-pickup.ts:10-11`
  says that an issued order cannot become a florist's work again and that the rule is
  one for all operations. `IssuedIsNoWork` names this way as its only exception.
* `ShownOnlyAdvances` (`StateExport`, `state-sync.ts:16-19`): a request that
  outlived its handler turns MoySklad back.

Met while reading, not in a model: a courier frozen between the check and the
commit of a shipment (`route-flow.ts:1388`); marks of an issue that block every
edit after the shipment was cancelled (`issue-guard.ts:52`); failed results that
survive a cancelled shipment and forbid a new result (`lifecycle.ts:721`); a
manual shipment that leaves placements, so that the return is refused
(`returns/service.ts:890`); a message that kills its process in the handler and is
never counted (`outbox/worker.ts:340`); a lost lease while a geocoding failure is
stored, which ends the whole pass (`geocoding/worker.ts:565`); an exact local
point that does not raise the generation; a resumed full load that counts from
the moment of its resumption; a lost lock connection under which two passes write
one after the other; a manual distance overwritten by the automatic one
(`mkad-auto.ts`); a correction key that stays taken after a reversal by hand; a tab
whose connection breaks before its first event comes back without a position and
starts at the newest event, so what was committed in between is not shown
(`realtime/routes.ts:233-240`); that start does not wait for transactions that hold
a lower id (`reader.ts:152`); `ARCHITECTURE.md:233` lets `session.revoked` end a
session, `web/src/realtime/stream.ts:536` only `session-closed`.

## 8. Not modelled

The components marked `not_modelled` in `PROJECT.json`. The planning solver and
geography are calls of external programs and numerical data; what becomes of their
answers is in `PlanRuns` and `Geocoding`. Audit, history, notifications, settings
and health are append-only records or single short writes. The read models of the
warehouse, the reports and the lists of one order have no state. The web client
keeps no state the server relies on; the parts that do interact with it, the
editor's screen, the print agent and the position of the event channel, are in
`RouteLeases`, `Printing` and `Realtime`.

PostgreSQL is not modelled beyond what transactions rely on: row locks, unique
keys, CHECKs and atomic commits. Deadlocks between transactions are modelled in
`Sessions` only; elsewhere the database ends one of them, which is a rolled-back
transaction. Wall-clock times are out of the models except for the leases of
`RouteLeases`, the moments of `SourceSync` and the windows of `Realtime`.
