# TowDispatch: specifications, model checking and proofs

TLA+ specifications of the write paths of the TowDispatch platform: job dispatch and driver
shifts, the invoice ledger, card payments, the accounting synchronisation, outbound webhooks,
notifications, auctions, impound storage and the truck app's outbox. TLC checks them on small
instances, TLAPS proves the theorems listed below for every value of the constants.
`PROJECT.json` maps every definition to the lines it translates, and lists hazards, runs and
mutants.

    tlc -workers 2 -config dispatch_serial.cfg MCJobDispatch.tla
    tlapm JobDispatchProofs.tla

Contents: [inventory](#1-inventory), [what is hard](#2-what-is-hard-in-this-code),
[modules](#3-modules-and-the-code), [runs](#4-runs), [disagreements](#5-where-code-and-documentation-disagree),
[proofs](#6-proofs), [not modelled](#7-what-is-not-modelled), [plan](#8-plan).

## 1. Inventory

A NestJS API (`apps/api`) over PostgreSQL, Redis and BullMQ serves a Next.js web
board (`apps/web`), two driver apps (`apps/driver-android`, `apps/driver-ios`),
portals, partner APIs and webhooks. Several API instances may run. Every request
of a tenant runs in one transaction on a pooled connection
(`TenantAwareDb.runInTenantContext`), at PostgreSQL's default isolation, READ
COMMITTED: each statement sees the rows committed before *it* began, and an UPDATE
locks its row until the transaction ends. Few statements use `FOR UPDATE` (the claim
of sync rows, auctions, a retention job) and few UPDATEs repeat in their WHERE what
an earlier SELECT checked. That is the source
of most hazards below.

| Component | State | Operations | Talks to | Correct when |
|---|---|---|---|---|
| Job dispatch (`jobs`) | `jobs`, `job_status_transitions` | assign, unassign, transition, cancel | shifts (same transaction), event bus | legal moves only, one driver and that driver's shift, a faithful history |
| Driver shifts (`dispatch`) | `driver_shifts` | start, end, status, location | jobs | one open shift per driver and truck, nobody clocks off with a job |
| Tenant transactions (`database`) | connection pool, session settings | begin, commit, rollback, release | everything | all or nothing, connections are returned |
| Job intake (`jobs`) | `jobs`, job numbers | create, createIntake, public intake | customers, vehicles, rates, events | a number per job, no half intake |
| Event bus (`dispatch`) | an in-process emitter, socket rooms | emit | billing and accounting listeners, webhooks, sockets | nobody acts on what was rolled back; nobody misses what committed |
| Billing (`billing`) | `invoices`, `invoice_line_items`, `payments`, `invoice_number_sequences` | drafts, lines, issue, send, void, payments, credit memos, daily sweep, review, recurring | jobs, accounting, Stripe, mail | totals add up, unique and gapless numbers, frozen lines, one invoice per job |
| Stripe payments (`payments`) | `stripe_events`, payment rows | intents, refunds, webhooks, public pay page | billing, Stripe | an event is handled once, what was collected is credited and nothing else |
| Accounting sync (`accounting`) | `accounting_connections`, `sync_jobs` | enqueue, processBatch, retry, connect, provider webhooks | billing, QuickBooks | one document per entity, the provider ends with what is committed |
| Outbound webhooks, public API | deliveries, endpoints, API keys | publish, sweep, attempt, retry | event bus | the log is what the consumer saw; a delivery ends |
| Auctions (`auction`) | lots, bids | bid, open, close, withdraw, award | yard, impound | bids increase, the highest wins, the end is not brought forward, every lot closes |
| Sessions (`auth`) | sessions, refresh tokens | login, refresh, revoke, MFA | users | a token is used once, reuse ends the user's sessions |
| Driver app services (`driver-experience`, `driver-android`) | the phone's outbox, replay ledger, inspections, briefings, evidence | call, queue, drain, replay | dispatch | what counts as applied took effect, a retry enters nothing twice, a queued action ends |
| Impound, yard | impounds, fees, holds, stalls, releases | take in, edit, hold, accrue, release | billing, auctions | every day billed once and a total that agrees with the rows |
| Notifications | `notifications`, `notification_deliveries`, dead letters, a queue per channel | dispatch, handle, record, provider callbacks, send a dead letter again | BullMQ, push, SMS, mail, webhooks | one notification per key, no copy nobody owes, every delivery ends, the status is what the deliveries come to |
| Tier offers | offers, responses | send, accept, expire | jobs, customers | one acceptance, none after expiry |
| Receivables, reporting, dashboard | caches, alerts | queries, recomputation | billing, jobs | agree with the tables |
| Rates, rate cards, dynamic pricing | configuration, quotes | price | intake, billing | a deterministic price |
| Imports | runs, staged rows | parse, validate, apply | most tables | a row is imported once |
| Capacity sharing | counters, partners | compute, push | dispatch | best effort |
| Lien, repossession, DOT, compliance | cases, deadlines, notices | advance a case | impound | no step before its deadline |
| Fleet, heavy duty, EV | trucks, maintenance, job attachments | row edits | dispatch | an inactive unit is not dispatched |
| AI dispatch, voice, damage, fraud | scores, transcripts | score, recommend | external models, dispatch | decisions pass through dispatch |
| Tracking, chat, portals | links, messages | read, post | jobs, payments | the link shows its own job |
| SSO, marketplace, onboarding, users, tenants, admin, mail, storage, Redis, health | configuration rows | row edits, external calls | external services | access control |
| Web, mobile apps, `packages/shared`, `packages/ui` | client caches | call the API | API | they supply the inputs |
| `packages/db` | schema, migrations, row-level security | | all | constraints and indexes match the code's assumptions |

Three of these carry the product: a job is dispatched to a driver (dispatch and
shifts), billed (billing), and booked (accounting). They and the six beside them
where money, a third party or a driver waits on a race are modelled.

    dispatch board / driver app
            | assign, transition                 clicks, completion event
            v                                            v
      [ jobs  <-> driver_shifts ] --event--> [ invoices, lines, payments, numbers ]
             JobDispatch     |                      InvoiceLedger     ^
                             | event                     |            | charges, refunds
                             v                           | enqueue    |
                  [ webhook_deliveries ]                 v       [ payments, stripe_events ]
                  WebhookDelivery -> consumers  [ sync_jobs ]    StripePayments <-> Stripe
                                                AccountingSync
      clerks, daily sweep                             |          bidders, closing sweep
            v                                         v                 v
      [ impound_records, fees, holds ]           QuickBooks     [ auction_listings, bids ]
             ImpoundStorage                                        AuctionLot

      driver in the truck --> [ outbox of the phone ] --batches--> [ driver_offline_actions,
             |  a call of its own        OfflineReplay               inspections, briefings ]
             +--------------------------------------------------------------^

      dispatch(event, key) --> [ notifications, deliveries, dead letters ] <-- callbacks
                                   ^  NotificationDelivery  | jobs              ^
                                   +------- workers <-------+--> providers -----+

## 2. What is hard in this code

`PROJECT.json` lists forty hazards at their lines. By kind:

* **Read, then write by id.** `assign`, `transition`, `issue`, `recomputeTotals`
  read a row in one statement and write it in another, `WHERE id = ...` alone.
  Any request that commits in between is overwritten.
* **Two tables, one fact.** A job names its shift, a shift names its current job;
  each is written by several handlers, from what they read on the other.
* **Effects before COMMIT.** Events are emitted, and accounting's `enqueue` is
  called without await, inside transactions that may yet roll back.
* **Claims without an owner.** `sync_jobs` rows go to `processing` with no worker,
  lease or timeout; the timer does not wait for the previous run.
* **An external system without idempotency.** A created document whose answer is
  lost is created again.
* **Lock order.** Reassigns take two shift rows in the order of the drivers; a review
  takes the invoice before its lines, every other edit of the ledger the invoice last.
* **A time or a list read before the wait.** A bid is timed before it waits for its
  lot; the closing sweep lists lots and closes them later, by status alone.
* **Running totals beside rows.** `accrued_fees_cents` and `paid_cents` are computed
  from what an earlier statement read, while the rows are protected by indexes.
* **Retried after a lost answer.** The truck app queues what it could not see succeed, and
  sends a batch again while the API may still be at the first delivery of it.
* **Rolled up from a snapshot.** A notification is settled by whoever finds that it is
  the last to record a result; two who record at once both find that they are not. A first
  failure counts as a result, with its retry still to come.
* **Queued before COMMIT.** The jobs of a notification are added while its transaction is open.
* **Recorded before it is done.** `stripe_events` and the claim of a webhook
  delivery are committed first: whoever stops afterwards leaves them behind.

## 3. Modules and the code

| Module | Lines | Models |
|---|---|---|
| `JobStateMachine` | 29 | the status map of `jobs/job-state-machine.ts`, as operators |
| `JobLifecycle` | 21 | abstract specification: a job's status makes legal moves only |
| `JobDispatch` | 445 | `jobs.service.ts` assign, unassign, transition; `drivers.service.ts` shifts |
| `RowLocks` | 35 | a table under row locks: `row` committed, `new` and `lock` of the writer |
| `InvoiceLedger` | 461 | `billing/invoices.service.ts`, `invoice-number.ts`, `invoice-state-machine.ts`, the edit of `invoice-review.service.ts` |
| `AccountingSync` | 347 | `sync-engine.service.ts` and the push handlers of `accounting.service.ts` |
| `StripePayments` | 338 | `payments/payments.service.ts`: intents, refunds, the webhook and its event log |
| `WebhookDelivery` | 257 | `public-api/webhooks`: publisher, worker, cron; the operators' `webhooks.service.ts` |
| `AuctionLot` | 333 | `auction/auction.service.ts`, `auction-bid.logic.ts`, `auction-lifecycle.cron.ts` |
| `OfflineReplay` | 288 | `driver-experience/driver-offline-sync.service.ts`; `driver-android` `DriverSyncEngine.kt` and two repositories |
| `ImpoundStorage` | 327 | `impound/impound.service.ts`, `impound-fees.logic.ts`, `impound-fee-accrual.cron.ts` |
| `NotificationDelivery` | 414 | `notifications/notifications.service.ts`, its workers and queue, `dead-letters.service.ts`, `delivery-tracking` |
| `MC...` | | instances for TLC, symmetry sets, restricted next-state relations |
| `...Proofs` | | theorems and their proofs; `SweepProofs` has those of `AccountingSync` and of `ImpoundStorage`, the two jobs that the timer of every API instance starts |

Operators whose comment says *Mutant* are changed versions of the definition after
them; no specification uses them. They show that each property can fail: with the
mutated body the run that checks the property finds a violation.

### JobDispatch

A **step is one statement** of one transaction; `tx[c]` is the request that
connection `c` serves: the operation, the statement it is at, and what it has read
(`from`, `prev`, `shift`). With one connection the specification is the sequential
program; with two it is every interleaving READ COMMITTED allows.

| Code | Actions |
|---|---|
| `assign`, `jobs.service.ts` | `BeginAssign` (SELECT, 404/409 guards), `LookupShift`, `AssignJob`, `ClearPrev`, `TakeShift`, `Emit` |
| `unassign` | `BeginUnassign`, `UnassignJob`, `FreePrev`, `Emit` |
| `transition`, `cancel` | `BeginTransition`, `MoveJob`, `FreeShift` or `MirrorShift`, `Emit` |
| `startShift` | `BeginStartShift` (its two SELECTs), `InsertShift` (the partial unique indexes) |
| `endShift`, `updateShiftStatus` | `BeginEndShift`/`EndShift`, `BeginShiftStatus`/`ReportStatus` |
| end of `runInTenantContext` | `Commit`, `Rollback`, `Abort` |
| PostgreSQL | `Free`, `WriteJob`, `WriteShift`; `DeadlockVictim` after `deadlock_timeout` |

`job` and `shift` are the committed rows, `jobNew`/`shiftNew` the versions of the
lock holder. `job.moved` is where the newest history row ends, `announced` the
status subscribers saw last, `phantom` the jobs whose last event was rolled back.
Abstracted: ids, timestamps, reasons, the acting user and the payload of events but
for the status. External (modelled from its use): row locks and the waiting
of an INSERT on a unique index.

### InvoiceLedger

The same step and transaction discipline over four tables, with `RowLocks` supplying locks,
versions, COMMIT and ROLLBACK. Every operation that changes a line or a payment continues
through the whole of `recomputeTotals`: `ReadInvoice`, `ReadLines`, `ReadPayments`,
`WriteTotals`, each a statement with its own snapshot. `issue` is the status check,
`allocateInvoiceNumber` (the upsert that locks the sequence row) and `WriteStatus`.
`updateReview` may write its notes to the invoice (`WriteHeader`), then any lines in any order
(`NextEdit`, `ChangeLine`), then recomputes. `FallDue` lets a due date pass; `markOverdueSweep`
is the daily UPDATE. A deleted line comes to 0; a draft's number is 0; a soft deleted payment is
`refunded`, as the code sets it. Taxes are zero and numbers belong to one tenant and one year.

### AccountingSync

`version[i]` counts the committed writes of an invoice, `writing[i]` is what its open
transaction writes, `calls` the enqueue calls in flight. `row` is `sync_jobs`. A
**worker** is one run of `processBatch`: `claimReadyJobs`, then per row `ReadEntity`
(the handler's SELECTs), `findCompletedJob`, `Push` (the provider call), and
`markCompleted` or `markFailed` with its second transaction `Promote`. `Throw` and
`PushUnanswered` are failures before and after the provider acted; `Abandon` is a
process that stops. `books` is the provider: documents created and the version of the
last push. Operators call `manualSync` and `retrySync`; the connection is started,
completed and disconnected. A payment's push first pushes its invoice, as
`pushPayment` does.

### StripePayments

`intent`, `refunded` and `sent` are Stripe's side: an intent is *made* by a request,
*open* once the client secret left with the request's answer, *collected* when the
customer or a card on file has paid; every event sent may be delivered again and again,
to any connection. `pay` holds the rows of an intent (charge, refund of a request, refund
of the webhook), `paid` is `paid_cents`, `ev` is `stripe_events`.

| Code | Actions |
|---|---|
| `createInvoicePaymentIntent`, `publicView` | `CreateIntent` (the call of the provider, inside the transaction), `FindCharge`, `InsertCharge` (the unique index) |
| `refundPayment` | `refundPayment` (the call), `InsertRefund`, the recompute |
| `handleWebhookEvent` | `Deliver`, `RecordEvent` (INSERT ON CONFLICT, a transaction of its own), then a handler, `markEventProcessed` |
| `onPaymentIntentSucceeded`, `onPaymentIntentFailed`, `onChargeRefunded` | `FindCharge`/`InsertCharge`/`ClearCharge`; `FailCharge`; `InsertWebhookRefund` |
| `recomputeTotals` | `ReadPayments`, `WriteTotals` |
| end of a transaction, a process that stops | `Commit`, `Abort`, `Crash` |

### WebhookDelivery

A worker is the cron job of an API instance or an operator's request; `work[w]` is the
attempt it is at. `publish` inserts a row per active endpoint; `sweep` lists what is due
and `AttemptNext` takes one of the list; `Claim` is the conditional UPDATE, then
`FindEndpoint`, `Post` (the consumer may take it although the answer is lost) and
`finalize`. `AttemptThrows` is a statement that fails, `Crash` the process that stops.
`waiting` holds the deliveries in their backoff. `posts` and `taken` are what the consumer
knows; `forced` marks what an operator has sent or retried.

### AuctionLot

A bid is `placeBid` (the time is taken), `LockLot` (`FOR UPDATE`), `JudgeBid` (the checks,
the INSERT and the extension) and `Commit`; a close, by staff or by the sweep
(`tick`, `CloseDue`), is `LockLot`, `JudgeClose`, `Commit`. Staff requests read without a
lock and write by id: `WriteLot` sets the columns the request names; an award first moves
the winning flag (`ClearWinning`, `FlagWinning`). Time is counted in anti-snipe windows: a
bid with at most one window left (`end - now \in {0, 1}`) moves the end to `Extension`
from its own time.

### ImpoundStorage

Time is counted in days. A sweep (`tick`) lists the stored records and visits each in a
transaction (`accrueOne`): `InsertDays` is INSERT ON CONFLICT DO NOTHING for the days
`planDailyAccrual` owes, `WriteAccrual` writes the total from what `accrueOne` read plus what
was inserted. Clerks take in, edit, close and release: the release reads the record and
its holds, inserts the release row (unique) and writes the status by id. Holds are
single statements.

### OfflineReplay

`outbox[a]` is the phone's row of an action, `ledger[a]` the API's row of it
(`driver_offline_actions`, keyed by the uuid the phone made), `done[a]` counts what the
action has entered. A request is a slot of `request`; `awaited` says whether the phone still
listens. The steps are the statements the API commits: each is a transaction of its own.

| Code | Actions |
|---|---|
| `PretripRepository.submit`, `BriefingRepository.acknowledge` | `submit` (the call), `ServeDirect`, `ReceiveDirect`, `GiveUpDirect`; what failed is queued |
| `DriverSyncEngine.drain` | `StartDrain` (the oldest `BatchSize` pending rows), `Receive`, `HungUp` or `GiveUp` (the rows' new statuses), `Prune` |
| `replayOne` | `Record` (INSERT ON CONFLICT), `Check`, `Apply`, `Settle`, in the order of the batch (`Advance`) |
| the process stops, a statement fails | `Die` |

`MaxDrains` drains run at once: the worker's (unique by name) and that of the offline
screen's button, which calls `drain` itself. A row's status is written by whichever drain
hears last, so a row one drain has marked and not yet deleted is pending again when the other
one failed. `unguarded[a]` counts the deliveries that the row of an inspection could not
stop; it is kept for `RetriesEnterOnce` only. Inspections are inserted, an acknowledgment
is ON CONFLICT DO NOTHING.

### NotificationDelivery

`request[r]` is a call of `dispatch`; `r` is the id of the notification it inserts, so at most
one. `note` and `delivery` are the tables of `RowLocks`, by status; a delivery is a pair of
notification and channel, an address or a device; `QueueOf` gives the channel's queue and
`Serves` the one a worker takes jobs from, since each has its own. `job[d]` is BullMQ's job of a
delivery (its id is the delivery's), `work[c]` what a worker or a callback is at.

| Code | Actions |
|---|---|
| `dispatch` | `BeginDispatch` (the SELECT by the key), `InsertNotification` (the unique index; the re-read after a violation is refused, the transaction is aborted), `WriteDeliveries`, `CommitDispatch`, `AbortDispatch` |
| `DeadLettersService.retry` | `retry`, the steps of `dispatch` under a fresh key, to every recipient and device on the dead letter's queue, `Stamp`; nothing looks at the stamp |
| `enqueueMany` by setImmediate | `Enqueue`: from `WriteDeliveries` on, so before or after the COMMIT; or lost |
| `NotificationsWorkersService.handle` | `Take`, `Send` (accepted, accepted and the answer lost, refused, refused for good), `Acknowledge` |
| `recordChannelResult` | `Record`, `ReadDeliveries` and `SettleNotification` (`maybeSettleParent`, in the same transaction), `CommitResult` with the dead letter |
| a statement fails, the process stops | `HandleThrows`, `Stop`: BullMQ counts an attempt, or runs the stalled job once more |
| `DeliveryTrackingService.apply` | `Report`, `ReadCommitted` and `SettleApart` on a second connection, `EndReport` |

`copies[d]` counts what the provider accepted, `faults[d]` what went wrong on the way, `missed`
the deliveries whose job was lost or taken before the COMMIT; the code keeps none of the
three, the properties need them. A callback reports once (`done`).

## 4. Runs

Distinct states, depth and time with two workers:

| Run | Instance | States | Depth | Time |
|---|---|---|---|---|
| `dispatch_serial` | 1 connection, 2 jobs, 2 drivers, 2 shifts, every app status | 591,209 | 85 | 14 s |
| `dispatch_concurrent` | 2 connections, 2 jobs, 2 drivers, 1 truck, 2 shifts; no status moves, no failure after an event | 841,403 | 73 | 27 s |
| `sync_claims` | 2 runs, 1 invoice with a payment, 2 rows, connection up | 750,952 | 52 | 14 s |
| `sync_drain` | 2 runs, 2 invoices, 2 rows, connection comes and goes, fairness | 698,427 | 36 | 62 s |
| `billing_serial` | 1 connection, 2 invoices, 2 lines, 2 payments, 1 job | 1,428,361 | 91 | 50 s |
| `billing_concurrent` | 2 connections, 2 invoices, 1 line, 1 payment | 3,733,857 | 75 | 115 s |
| `payments` | 2 connections, 1 invoice, 1 intent, all its events, fairness | 98,771 | 36 | 50 s |
| `webhooks` | 2 instances, 1 operator, 1 endpoint, 1 delivery, 5 attempts, fairness | 143,468 | 74 | 20 s |
| `auction` | 2 bidders, 1 member of staff, 1 sweep, 1 lot, 2 bids, fairness | 377,565 | 29 | 70 s |
| `impound` | 2 sweeps, 1 clerk, 1 record, 1 hold, 3 days, fairness | 158,363 | 46 | 48 s |
| `notifications` | 2 calls, 1 key, 2 channels with a queue and a worker each, 1 callback, 2 attempts, 1 fault, fairness | 430,129 | 51 | 125 s |
| `offline` | 3 actions, batches of 2, 2 drains, 2 requests, 1 fault, 1 failure, fairness | 725,755 | 58 | 77 s |

**Dispatch.** `dispatch_serial` asks whether the sequential program keeps jobs,
shifts and history in agreement, every statement able to fail: `JobRowsAgree`,
`ShiftPinnedByOwnJob`, and `ImplementsLifecycle`, the refinement of `JobLifecycle` by
`status <- job[j].status`. `dispatch_concurrent` asks what survives every race:
`OneOpenShift` (the indexes do what the SELECTs cannot), `FeedCurrent` (events leave under
the row lock, so the last event of a job nobody is writing carries its committed status,
unless it was rolled back), `AssignedShiftIsDrivers`, and who can deadlock
(`DeadlocksAreSwaps`): only reassigns that swap drivers, each with the shift cleared that
another waits for. A lookup of the shift that locked it, before the job, would add the first
assign of a job and the end of a shift to the victims.

**Accounting.** `sync_claims`: overlapping runs never hold the same row
(`ExclusiveClaim`) and an entity has one active row (`OneActiveRow`). Runs fail and stop
anywhere, operators retry meanwhile. `sync_drain`: every pending row is pushed or
dead-lettered (`EveryRowSettles`) although the provider fails at will and the connection
drops.

**Billing.** `billing_serial`: totals, status and numbers agree after any sequence of
requests, rollbacks and sweeps, and a void, a number and an issued invoice's lines are
final (`IssuedIsFrozen`). `billing_concurrent`: no interleaving hands out a number twice
(`NumbersUnique`), and who can deadlock is known too (`DeadlocksAreReviews`): a review, which
locks the invoice before its lines, and an edit of a line it waits for. An issue, a void, a
payment and a credit take the invoice last and are never in a circle. This model has
no detector: a circle stands, so that the invariant sees it, until one of its requests
fails (`Abort`).

**Payments.** However events are delivered and requests fail: an event is handled once
(`HandledOnce`), a cleared charge and `paid_cents` never exceed what Stripe collected
(`CreditedWasCollected`), an event marked processed is in the ledger
(`ProcessedIsApplied`), and a charge that was collected gets there, unless its event was
recorded and not handled (`NoChargeForgotten`).

**Webhooks.** Two sweeps, an operator, lost answers and crashes: the log of a delivery is
what the consumer saw (`LogMatchesConsumer`: one attempt at a time, as many POSTs as are
counted, five at most, delivered only if taken), and no delivery stays pending
(`EveryDeliverySettles`).

**Auction.** Bids of a lot increase in the order in which they commit (`BidsIncrease`), a
close sells to the highest of them (`SoldToHighest`), the end is never brought forward
(`EndOnlyExtends`), and every live lot is closed (`EveryLotCloses`) although each bid may
extend it and the sweep's transactions may fail.

**Impound.** The total is the sum of the day's rows, one for every day from arrival to
`last_accrued_on` (`AccruedMatchesRows`), and every day a vehicle is stored at a fee is
billed in the end (`EveryDayBilled`), days whose sweep crashed or never ran included.

**Offline.** Answers are lost, requests die between any two statements and two drains
overlap. What the ledger or the phone takes for applied is in the tables
(`AppliedTookEffect`). An inspection is entered twice only after one of three things: its own
call, which carries no uuid, was answered too late; a request stopped between the
INSERT and the update of the ledger; or another delivery was at it before either settled
(`RetriesEnterOnce`). Every queued action leaves the phone or is failed in the ledger
(`EveryActionSettles`), although the older ones are always sent first.

**Notifications.** Calls, two workers, a callback and the clerk of the dead letters, with one
fault anywhere: the calls under a key that are answered name one notification that is in the
table (`AnswersAgree`), a notification is closed by one of several only when every delivery of
it has been tried, is `delivered` only when the provider of each accepted it and
`partially_failed` only when that of one did (`ClosedIsEarned`), every copy after the first is
owed to a fault (`NoSpareCopies`), what is in the dead letters did not go out, faults aside
(`DeadLettersUndelivered`), a delivery that is not final has a job (`NothingForgotten`) and
comes to an end (`EveryDeliveryEnds`).

### What holds one request at a time only

`JobRowsAgree`, `ShiftPinnedByOwnJob`, `ImplementsLifecycle`, and the properties of
`billing_serial` describe the sequential program. They are checked, and proved, with one
connection because with two they do not hold: section 5 shows how. `ExclusiveClaim` is checked
and proved, and `CompletedIsFinal` (a completed row is not written again) proved, with the
connection up: a run that finds no connection calls `markFailed` inside its try block, and when
the promotion is refused the catch block marks the same row once more, by when it may have been
retried and claimed by another run.

`sync_drain` shows settling without `Abandon`, since a process that stops with claimed
rows leaves them in `processing`, for which no query looks; and with each invoice
enqueued once, since a promotion refused by a second row of the entity ends the run with
the rest of its batch claimed. Both are hazards of the code that the run sets aside.

`SoldToHighest` and `EndOnlyExtends` are checked, and proved, with one member of staff: two
publishes of one draft may both pass their SELECT, and the later UPDATE brings the end
of a live lot forward. `LogMatchesConsumer` speaks of deliveries no operator forced: a retry
of one that is under way sets it to pending, and two POSTs overlap. `EveryDeliverySettles`
and `NoChargeForgotten` except what the code leaves behind after a crash, and say so in
their conclusion: a delivery in `delivering`, an event recorded and not processed.
`ProcessedIsApplied` leaves out intents whose failure has been delivered: a late
`payment_failed` undoes the charge.

### Bounds and why they are enough

* *Rows* (`Shifts`, `Rows`, `Invoices`, `Lines`, `Payments`): inserts stop when none is
  left (`RowsLeft`; ids are used once). Two of each is what a conflict needs: two
  shifts of one driver, two rows of one entity, two numbers of one sequence, two payments
  of one sum. Two jobs and two drivers give the swap, the double assignment and the
  chain of reassigns.
* *Connections and workers*: two. A lost update, a stale read or a claim race has two
  parties; the proofs cover any number for the properties they state.
* `MaxVersion`, `MaxDocs`, `MaxNumber` (with `NumbersLeft`) cap counters; two writes are
  a write and a later one, and `MaxNumber` is no smaller than the number of invoices.
  `MaxDocs` stops further creations once the case of interest has happened.
* `MAX_RETRY_COUNT` is 2 instead of the code's value: one retry and the last try.
  Backoff delays are left out, a pending row may be claimed at any time.
* `Amounts = {1}`: with two lines and two payments the totals 0, 1, 2 give under-, exact
  and overpayment.
* `Targets` is empty in `dispatch_concurrent`: two jobs reassigned between two drivers need
  the states, and a move takes the job's row and one shift, as an assign does. `OneOpenShift` and
  `FeedCurrent` are proved with the moves. `dispatch_serial` uses all the statuses the apps
  send; `new` is left out, see section 5.
* `ConcurrentSpec` of `MCJobDispatch`: in `dispatch_concurrent` no request whose event is out
  fails any more. An event that was rolled back takes its job out of `FeedCurrent` (the last
  event is then nobody's) and the rollback itself is the one of every other failure;
  `dispatch_serial` has the failures after the event, and the proof of `FeedCurrent` has
  them under any interleaving.
* `BoardShifts = {NoShift}`: the board and the app let `assign` find the shift.

* `LastBid`, `Hours` in `auction`: bids come in at times 0 to 2, lots run from 0 to 2, so a
  bid is before, in and after the last window, and an extended lot is bid on again. Time
  goes on to `Horizon`, when every lot is due. A lot may also be published to end
  before the first bid. Two prices give a bid that is too low, and a reserve that is not
  met.
* `LastDay`, `MAX_BACKFILL_DAYS`: three days and two per run, instead of 3,660 per run, so
  that a sweep that missed days needs two runs to catch up. `Dispositions` has one member:
  the code treats `transferred` and `disposed` alike here.
* `MaxAttempts = 5` is the code's. An operator forces a delivery once (`forced`): every
  forced retry adds an attempt.
* `offline`: three actions and batches of two, so that a failed action shares the batch with
  the newer ones; fewer failures than a batch holds, see the hazards. One fault between two
  drains: every pair of overlapping deliveries needs none or one. The same properties hold
  with two faults and one drain, and with two faults, two drains and two actions.
* `notifications`: two calls under one key are one that commits and one that waits or comes
  later, or a call and the retry of its dead letter. Two channels, each with a queue and a
  worker, and a callback: results race for one notification, and redelivered jobs for one
  delivery. `MCNext` keeps the run small: a notification that goes to the second channel goes to
  the first as well, is the only one and has no key (`PhoneAlone`), and the callback is about a
  notification that goes to the first channel alone (`DeviceReports`). So workers of two
  channels race in some behaviours and a worker and a callback in others, never all three in
  one. These bounds are on what calls and callbacks begin, not on what workers do, so the
  fairness is that of `FairSpec`. What more workers, channels or calls could do to the
  invariants is covered by their proofs, which fix none of the numbers and have no such bound.
  Two attempts are a retry and the last one; the code's are 1 to 5. One fault, anywhere: each
  property says what it owes to a fault.
* `payments` has one intent: its rows, its events and its requests are where the races are;
  an invoice's second intent is a second charge, which the code allows (section 5).

`CHECK_DEADLOCK FALSE` is set because the rows of an instance get used up and every job
may be finished: the system then rightly has nothing to do.

### Fairness

* Dispatch: none. `DeadlocksAreSwaps` is an invariant over who waits for whom; that a deadlock
  ends is PostgreSQL's detector (`DeadlockVictim`).
* Accounting: weak fairness of each run's `Work`, since the timer starts a run every five
  seconds and a run that has claimed rows goes on until it ends. None on billing,
  operators, failures or the connection: `EveryRowSettles` counts on the retry limit,
  not on the provider getting better.

* Payments: weak fairness of each connection's statements; strong fairness of the delivery
  of each event and of its recording, since Stripe delivers an event until it is answered.
  None on customers, requests or failures.
* Webhooks: weak fairness of the cron jobs, of attempts (a POST ends after ten seconds) and
  of the end of a backoff; strong fairness of an instance's claim, since a statement does
  not fail every time.
* Notifications: weak fairness of a worker's handling, since a worker takes what waits and a
  call of a provider ends (in ten seconds for webhooks), and of the statements of a callback
  that has begun. None on calls, callbacks, failures or stops.
* Offline: weak fairness of the API's statements, of the phone's hearing of the answer, and
  of `StartDrain`: a drain is started when the network comes back, at app start, after
  a mutation and by the work manager's retry. None on actions, faults or failures.
* Auction and impound: weak fairness of time (auction), of statements and of the cron job;
  strong fairness of the sweep's lock, judgement and COMMIT, since waiters of a row lock
  are served in turn and a statement does not fail every time. Impound asks it of one
  instance (`Steady`) only; the other may be gone for good, but gets the lock it waits for.

## 5. Where code and documentation disagree

These were seen while modelling; the runs stay clear of them and say where:

* Assign reads a job; cancel commits; assign's UPDATE, by id alone, dispatches the
  cancelled job, although `job-state-machine.ts:11-13` calls the status terminal.
* A driver gets two jobs, `current_job_id` holds the second; finishing either clears it;
  `endShift` passes with the other in flight, although `drivers.service.ts:258` says
  "Cannot end a shift with an in-flight job".
* A sync run reads an invoice; a second write commits and its enqueue finds an active row;
  the run pushes the first version and nothing records the second, which
  `sync-engine.service.ts:7-8` calls a "safe no-op". A payment's push creates the invoice's
  document but records its id on no invoice row; the invoice's own row creates another.
* Two payments of an invoice recorded at once: each sum misses the other and the later
  UPDATE stands. So do two recomputes after webhooks.
* Concurrent dispatch: of two reassigns of one job to different drivers, neither clears
  the other's shift, and the history can miss the move between them.
  `jobs.service.ts:729-735` announces protection against stale states that is not there.
* `POST transition` to `new` is legal in the status map but keeps driver, shift and
  `current_job_id`; only `unassign` clears them. The apps do not send it.
* A reassign leaves the previous driver's shift `en_route`. A `shiftId` supplied to
  assign is not checked to be the driver's or open. The web board explains a 409 as
  "Already assigned by another dispatcher", which the code never answers.
* Billing with two requests: an issue and a line edit, a void and a payment, or two
  issues of one draft overwrite each other's status or number (`recomputeTotals` writes
  back the status it read), although `invoices.service.ts:13-15` says issuing twice is a
  no-op. `statusAfterPayment` takes a paid invoice back to partially paid, which the
  transition map beside it does not list.
* A review and an edit of one of its lines lock in opposite orders
  (`invoice-review.service.ts:126` the invoice and `:158` its lines; `invoices.service.ts:540` the
  line and then, at the end of `recomputeTotals`, the invoice), and so do two reviews that
  name two lines in opposite orders: PostgreSQL rolls one of them back, and no caller
  retries. `DeadlocksAreReviews` says that it can happen to nobody else.
* Accounting: enqueue may run before its transaction commits, or for one that rolls
  back; a promotion the unique index refuses ends the run with its batch claimed;
  `retrySync` of an entity with two dead rows is refused by the index; while the
  connection is not connected each run spends a retry, so rows are dead-lettered within
  half a minute; `PHASE_0_AUDIT_2026-05-14.md:216` says redelivered webhooks collapse,
  each gets a fresh id.

* Payments: an event whose handler fails after it was recorded is lost, since Stripe's next
  delivery is taken for a duplicate. The mark is made inside the try (`payments.service.ts:703`):
  when it fails, an event that was applied is marked as failed (`Abort`, then
  `markEventProcessed` once more). A refund made through the API is counted twice, by
  the row the request writes and the one `charge.refunded` adds (`..._webhook`); what may
  be refunded is always the full amount. A late `payment_failed` marks a cleared charge
  failed without a recompute. Every view of the public page makes an intent, and several
  of one invoice may all be paid.
* Webhooks: the publisher is said to run after the COMMIT (`webhook-publisher.service.ts:9-14`);
  `setImmediate` does not wait for it, so a consumer may be told of what is rolled back. A
  delivery whose worker stops or throws after the claim stays in `delivering`. The claim
  checks the status, not `next_retry_at`: a second sweep that listed the delivery before
  attempts it again without its backoff. Inactive endpoints still get what was queued.
* Auctions: `auction-lifecycle.cron.ts:4-5` closes lots "whose end has passed", but a lot a bid
  extended after it was listed is closed before its end (`:72`). Two awards at once flag two
  bids, although migration 0038 says `is_winning` is set on exactly one.
* Impound: `pending_release` is a status nothing writes. `addHold` and `addFee` accept released
  records, a hold may be added between the gate's check and the release, and close and
  release overwrite one another by id. The yard's gate release
  (`yard/release/release-workflow.service.ts:125-190`) looks at no holds, although migration
  0036 (lines 457-462) says the service layer enforces them. The total a sweep writes is safe only
  because sweeps that overlap plan the same days; two that overlap across midnight would
  lose a day of the total, which `DayPasses` sets aside.
* Notifications: `docs/notifications.md:114` calls the key "race-safe: the service catches the 23505
  unique-violation and re-reads", but PostgreSQL refuses the re-read in the aborted
  transaction: the second of two calls fails, as `InsertNotification` has it. The window of 24
  hours (`:99`, `docs/notifications.md:100-102`) does not end: neither the SELECT nor the index of
  migration 0038 looks at the expiry. "The tx commits first" (`:265`) is not so: a job that is
  taken before the COMMIT finds no row and is done. A callback settles the notification on another
  connection, which sees the delivery as it was before the callback.
* Notifications again: `notifications.service.ts:339` says "Roll up parent notification status if
  every delivery has settled". Two workers write the results of the last two deliveries, each in
  its transaction; each then reads the other's as queued, so neither settles the
  notification. It stays `dispatched` without its `completed_at`, the "final settled state
  timestamp" (`schema/notifications.ts:101`), until a callback or a retry looks at it again.
* A notification is closed too early as well. A first failure is written as `failed` with
  its retry still to come (`recordChannelResult`, `:316-340`), and `maybeSettleParent` takes `failed`
  for terminal (`:676-678`): with every other delivery settled it sets `failed` or
  `partially_failed` and `completed_at`, while BullMQ will send again; the retry may then make
  it `delivered` and move `completed_at`. Neither `:339` nor the schema's comment holds.
  `ClosedIsEarned` counts such a failure as an attempt, so it holds; it does not say that a
  closed notification stays as it is.
* A dead letter is sent again to everybody: `dead-letters.service.ts:134-144` dispatches to
  the recipient or the whole role on that channel, every device included, not to the one
  delivery that failed, and never looks at `retried_at`. Those who had their copy get another, and
  a letter may be retried any number of times. `NoSpareCopies` counts by notification, and
  each retry is a new one.
* The truck app: `OutboxRepository.kt:14-17` says every mutating action is queued before it
  touches the network, so that it survives the death of the process; `submit` and `acknowledge`
  call first and queue in the catch. `DriverSyncEngine.kt:23` calls a failed action "eligible
  for retry", but a ledger row that failed is final: the phone sends it for ever and gets the
  same answer. `driver-offline-sync.service.ts:7` has a known action's status returned
  untouched, but one that is still pending is applied again. Fifty of them fill the batch, newer
  actions are never sent, and `drain` does not leave its loop (`:38-100`).
* A queued `job_status_transition` always fails: `job_status_transitions.actor_user_id`
  refers to `users` (`0005_drivers_trucks_shifts.sql:191`), the replay passes the driver's
  id, and a driver has no row there; `apps/web/src/lib/driver/transitions.ts:13` counts on it.
  `looksLikeConflict` reads the text of the error, and that of a failed statement quotes the
  statement: one with ON CONFLICT in it is a conflict, and the phone drops the action.

## 6. Proofs

| Theorem | States | Inductive invariant |
|---|---|---|
| `JobDispatchProofs!TypeCorrect` | `Spec => []TypeOK` | `TypeInv`: types, and that a request at a statement has the fields it needs (`WellFormed`) |
| `...!OneOpenShiftHolds` | `Spec => []OneOpenShift` | `ShiftInv`: with `Versions` (a row nobody locks has no other version) and `Exclusive` (over committed *and* uncommitted rows) |
| `...!DeadlocksAreSwapsHold` | `Spec => []DeadlocksAreSwaps` | `OrderInv` of that module, below |
| `...!FeedCurrentHolds` | `Spec => []FeedCurrent` | `FeedInv`: with `Holding` (a request past its job UPDATE holds the lock) and `Feed` |
| `...!AssignedShiftHolds` | for callers that send no shift: `Spec => []AssignedShiftIsDrivers` | `HandsInv`: a shift never changes hands, and a request's shift is its driver's |
| `...!ImplementsLifecycleHolds` | with `OneConnection`: `Spec => ImplementsLifecycle` | `SerialInv`, below |
| `...!JobRowsAgreeHolds`, `...!ShiftPinnedByOwnJobHolds` | with `OneConnection` and `AppsCalls`: `Spec => []JobRowsAgree`, `Spec => []ShiftPinnedByOwnJob` | `PinsInv`, below |
| `SweepProofs!TypeCorrect` (accounting) | `Spec => []TypeOK` | `TypeInv`: with `WellFormed`, that a run works on rows in use and has an entity left to push |
| `...!OneActiveRowHolds` | `Spec => []OneActiveRow` | `TypeInv`; the inserts, the retry and the promotion are each one statement under the partial unique index |
| `...!ExclusiveClaimHolds`, `...!CompletedIsFinalHolds` | for `SteadySpec` | `ClaimInv`: with the row in hand out of the run's batch, and every failure caught, so that a refused promotion ends the run |
| `...!StorageTypeCorrect`, `...!AccruedMatchesRowsHolds` (impound) | `StorageSpec => []StorageTypeOK`, `StorageSpec => []AccruedMatchesRows` | `YardInv`, below |
| `InvoiceLedgerProofs!NumbersUniqueHolds` | `Spec => []NumbersUnique` | `IInv`, below |
| `...!TypeCorrect` | `Spec => []TypeOK` | `TypedInv`: a request is on an invoice that exists or that it inserts and has locked, items and payments are of invoices that exist; with the sums, below |
| `...!DeadlocksAreReviewsHold` | `Spec => []DeadlocksAreReviews` | `OrderInv` of that module, below |
| `...!TotalsMatchHolds`, `...!PaidIffSettledHolds`, `...!NumbersGaplessHolds`, `...!IssuedIsFrozenHolds` | with `OneConnection`: `Spec => []TotalsMatch`, `[]PaidIffSettled`, `[]NumbersGapless`, `IssuedIsFrozen` | `SerialInv` of that module, below |
| `WebhookDeliveryProofs!TypeCorrect`, `...!LogMatchesConsumerHolds` | `Spec => []TypeOK`, `Spec => []LogMatchesConsumer` | `LogInv`: with what each attempt under way knows of its delivery (its number, whether it has posted) |
| `StripePaymentsProofs!HandledOnceHolds` | `Spec => []HandledOnce` | `HandledInv`: an event is recorded while a connection handles it |
| `...!ProcessedIsAppliedHolds` | `Spec => []ProcessedIsApplied` | `AppliedInv`: with `Kept` (a charge row stays), `Cleared` (what a transaction under way has written) and `Applied` |
| `...!TypeCorrect`, `...!CreditedWasCollectedHolds` | `Spec => []TypeOK`, `Spec => []CreditedWasCollected` | `CreditInv`, below |
| `AuctionLotProofs!TypeCorrect` | `Spec => []TypeOK` | `TypeInv`: with `WellFormed` |
| `...!BidsIncreaseHolds` | `Spec => BidsIncrease` | `BidsInv`, below |
| `...!SoldToHighestHolds`, `...!EndOnlyExtendsHolds` | with `OneMemberOfStaff`: `Spec => SoldToHighest`, `Spec => EndOnlyExtends` | `SaleInv`, below |
| `OfflineReplayProofs!TypeCorrect`, `...!AppliedTookEffectHolds` | `Spec => []TypeOK`, `Spec => []AppliedTookEffect` | `ReplayInv`: with what a request knows of an action that took effect (`RowInv`) |
| `...!RetriesEnterOnceHolds` | `Spec => []RetriesEnterOnce` | `OnceInv`, below |
| `NotificationDeliveryProofs!TypeCorrect` | `Spec => []TypeOK` | `TypeInv`: with how far a call is (`CallInv`), and that only notifications in the table are worked on (`KnownInv`) |
| `...!AnswersAgreeCorrect` | `Spec => []AnswersAgree` | `AnswerInv`: with `OneOwner`, below |
| `...!StampedWasResentCorrect` | `Spec => []StampedWasResent` | `ResentInv`: a notification in the table stays there (`Grows`) |
| `...!NoSpareCopiesCorrect` | `Spec => []NoSpareCopies` | `SpareInv`, below |
| `...!ClosedIsEarnedCorrect` | `Spec => []ClosedIsEarned` | `EarnedInv` over `ClosedInv`, below |
| `...!DeadLettersUndeliveredCorrect`, `...!NothingForgottenCorrect` | `Spec => []DeadLettersUndelivered`, `Spec => []NothingForgotten` | `TrackInv`, below |

**Dispatch, one connection.** The refinement is not a fact about single steps: a handler reads
the job, and its UPDATE writes by id what it decided then. `SerialInv` says that with
one connection nothing has come in between: what a request has read of its job is what the
table says (`Fresh`), the version it writes differs from the committed rows in its own columns
only (`JobsSeen`), and the history is booked (`Booking`). The COMMIT is then the step of the
abstract machine and every other step stutters. `PinsInv` adds the crew of a job
(`Crewed`), that a shift's current job is on that shift and in flight (`Pinned`), before
and after a request's writes, and which writes have been made at each statement
(`ShiftsSeen`); it needs `ShiftInv`, since a driver's shift is found as his one open shift, and
`HandsInv`. `AppsCalls` says what the apps send: no shift with an assign, and neither
`new` nor `dispatched` as the target of a move, which have calls of their own; the instance of
`dispatch_serial` makes the same choices. `PinsInv` was checked there first.

**Billing, sums.** `MapThenSumSet` folds with a function that is recursive over the subsets of
the set. For a finite set that function exists, is the only one and has naturals for values:
`AddsTo`, `AddsOnce` and `SumIs` show it by taking a least subset for which it would fail
(`LeastSubset`, the library's theorem that the subsets of a finite set are well-founded),
so no induction theorem is needed. From there on sums are values that two tables share
when they share the rows (`SameCharges`, `SameReceipts`).

**Billing, one connection.** `SerialInv` has the books (`Books`: the four properties, and that
an invoice before its issue has no number and no payment), what the transaction has locked
(`Held`), what its first SELECT established (`Suits`), what the recompute has read (`Recomputed`: the
sums of what the connection sees, its own writes included), and of the row it will commit
that it is marked as its sums say and takes nothing back (`Rewritten`, `Closing`). At the COMMIT
what the connection saw becomes the table, and the lines and payments of other invoices
are those of before. The sweep may run between any two statements: it changes the status of
rows that nobody has locked, so `Recomputed` keeps of the status it read only whether it
was draft or void, which the sweep never touches. An issue cannot settle an invoice, because
a draft has no payments. `TypedInv` and `SerialInv` were checked by TLC on the instance of
`billing_serial`, `TypedInv` on that of `billing_concurrent`.

**Payments.** A charge is cleared by a connection that handles Stripe's news of it or has
charged a card at once: `Knows` says that either knows the intent as collected, since Stripe
sends that news of no other (`Reported`), and `Backed` says so of the rows, the uncommitted ones
included. Charges are named by their intents, so the cleared ones of an invoice are among the
collected intents of it and their sum is at most `Credit` (`SumBelow`, by the same argument on
least subsets as in billing). Nothing lowers `Credit`, so a sum that was read (`ReadWithin`) and
what a recompute writes of it later (`PaidWithin`) stay below it, however stale they are: no
lock is used. The invariant was checked on the instance of `payments`, and with two
intents for ten million states, before it was proved.

**Impound.** A sweep reads a record, plans days, inserts rows and writes the total from what
it has read; it holds no lock over all this, and a second sweep may be anywhere in the same.
Nothing in the code compares the total with the rows. `YardInv` says why they agree: a sweep that
has inserted days holds every day of its plan, none of which was billed, and what it has
read is still what is committed (`Holding`); every storage row that is inserted and not
committed is a day of such a plan (`BilledBy`); the uncommitted version of a record has the
totals of the sweep that wrote it, or those of before if a clerk did (`Writing`). A sweep that
has still to insert has read what is committed, or finds all its days billed: two
sweeps that read the same on one day plan the same days (`SamePlan`), so that INSERT ... ON
CONFLICT DO NOTHING inserts all of them or none (`AllOrNone`). This is where it is needed that a
sweep ends on the day it began (`DayPasses`); a tick that ran past midnight UTC would be outside the
theorem. At the COMMIT the plan goes on where the days billed end (`DaysAdded`), and the sum
of the rows grows by its length times the fee (`SumRaise`, over the sums of billing). `YardInv`
was checked on the instance of `impound` (158,363 states) before it was proved.

**Offline.** `RetriesEnterOnce` needs a count of what may still enter an inspection. `OnceInv`
says (`Bounded`) that the rows entered, the requests that will enter another unless they
die (`Entering`), and the phone, when it may send the action to an API at which neither a
request nor a settled row of the ledger would stop it (`Waits`), are together at most one more than
`unguarded`. Settling, checking and marking add nothing; a request that dies having
entered, a batch sent beside another that is still at the action, and the phone's
timeout of its own call are the steps that add one, and each is a delivery that `unguarded`
counts. `PhoneInv` says what the phone knows: one call of its own is out for an action,
and what a batch carries or the ledger has is queued. It was checked on the instance of
`offline` (725,755 states), and for 21 million states of a larger one with two inspections, three
requests and two faults.

**Notifications.** `TrackInv` extends `SpareInv`: a delivery's row is locked by the worker or callback
that is recording its result (`Holds`); a worker carries the result it will write, and has not
seen the delivery lettered (`Keeping`); a letter beyond the first, or one of a delivery that went
out, is owed to a fault, and one whose job may still run has not been written (`Lettered`); and
what waits for a result has a job or a reporter (`Kept`), from the statement on that writes its
row, which is why the not yet committed rows of a call are in it (`Awaited`). It was
checked with two workers and two channels before it was proved.

`OneOwner` counts a call as the owner of its key from its INSERT on, before its row is
committed: the index lets no second one own it, and an answer has the key of who asked.
`NoSpareCopies` needs to know who may send: a job is added once (`AddedOnce`), one worker has it
(`OneWorker`), and wherever the job may start again every copy there is has been paid for by
a fault (`CopiesPaid`). For the first part of `ClosedIsEarned`, who is about to close a notification has seen a
result of each of its deliveries (`Sound`): a worker in its own version of the rows,
which COMMIT makes everybody's, a callback among the committed ones. No step of another
connection takes a result away (`NeverBack`), so the locks are not what it rests on. For the
rest, `EarnedInv` says what every row, committed or not, may say: that a delivery is sent only
with a copy behind it, and never that one to be sent was suppressed (`Honest`), and of a
notification what those rows earn it (`Earned`). Copies are not taken back and what was to be sent
is settled with the COMMIT of dispatch (`Steady`), so that a status that was read stays
true until it is written, however late.

`AppliedTookEffect` is not inductive: the ledger and the phone copy what a request says. `RowInv`
says when a request says so truly: at the update that will settle the row, in
the results of its answer, in the answer to a call of its own. Nothing takes an effect back
(`Kept`), so none of it needs the ledger to stop anybody.

`BidsIncreaseHolds` rests on the lot's lock: a bid that is inserted and not committed
belongs to a request that holds its lot, has found it live and has seen every bid on it
(`Uncommitted`), so nobody else's bid on the lot can come in before it. `SaleInv` adds
what every uncommitted lot row may make of a live lot (`Sale`), that one bid is above all
others (`HasTop`: no finiteness of the bids is needed, since they come in one above the
other), and that what a staff request has read of the status is still so (`Unchanged`),
which is where one member of staff is needed.

`NumbersUniqueHolds` is of the same kind. Uniqueness alone is not
inductive: a second issue may be between its upsert and its UPDATE with a number no
row shows yet. `IInv` adds: a connection with a number in flight holds the lock on the
sequence row and its number is one above the committed counter (`NumberInFlight`); the
only changes to numbers in an uncommitted invoice are those of the issue that holds the
number (`Uncommitted`; a draft's is 0); every committed number is at most the committed
counter (`Issued`). The argument is the lock on `invoice_number_sequences`: it does not use the
unique index on invoice numbers (`0013_billing.sql:42`), which the model leaves out. The
invariant was checked by TLC before it was proved.

**Deadlocks.** Both theorems follow from an order of the locks. In dispatch, `OrderInv` says which
rows a request may hold at each statement: a request that waits for a job holds nothing,
one that waits for a shift holds its job, and only a reassign past `ClearPrev` holds a shift while
it waits for one. A circle of waiting requests then consists of those alone. In billing a
request that is no review holds no invoice before its last UPDATE, at most one line or
payment or counter before it, and waits for none of these while it holds another; so in a
circle somebody holds an invoice and waits for a line, and that is a review. Neither fixes the
number of connections; crossing reviews of two lines, for which the run has too few lines,
are in the theorem. Both invariants were checked by TLC on the instances of the runs.

*Assumptions*: the named ASSUMEs of the modules. Nulls are not members of the sets they stand
beside (`NullsAreDistinct`, `NoConnIsNone`), requests use statuses that exist
(`InputsAreLegal`), a payment has an invoice, limits are numbers (`SyncConstants`), lines and
payments have different ids and are finitely many, amounts are positive (`LedgerConstants`),
cron jobs and operators are different workers (`WebhookConstants`), an invoice has a total
(`StripeConstants`), workers and callbacks are different connections (`NotificationConstants`),
prices and times are numbers and an extension is longer than the window it is added in
(`AuctionConstants`), intents of payments and slots for requests of the truck app are finitely
many (`StripeConstants`, `ReplayConstants`), the days begin with day 1 (`LastDay`,
`ImpoundConstants`). The theorems of the sequential program have `OneConnection` and, where the
table says so, `AppsCalls` as hypotheses; the `_serial` instances satisfy both. The other sets
may have any size, infinite included; `RowsLeft`, `NumbersLeft` and the other bounds are guards
that the proofs do not use.

Where `TypeCorrect` is proved and other invariants fill the run, the run leaves `TypeOK` out
(dispatch, accounting, webhooks, auction, offline, notifications).

*Model-checked only*: liveness (`EveryRowSettles`, `NoChargeForgotten`,
`EveryDeliverySettles`, `EveryLotCloses`, `EveryDayBilled`, `EveryActionSettles`,
`EveryDeliveryEnds`), which is outside what TLAPS handles here. Every invariant and action property
that a run checks is proved.

## 7. What is not modelled

In the modelled components: job intake and crew edits, duty class, board queries,
deletion of an invoice and its header edits, taxes, commissions, recurring schedules, the
review screen's post and the drivers and commissions of a review (`invoice-review.service.ts:164-287`),
the importers and portals that also write `invoices` and
`payments` (`portal-account.service.ts:128`,
`payment.importer.ts:62`, `invoice.importer.ts:71`), driver telemetry and the importers that
write `jobs` and `driver_shifts`, fleet's soft delete of a driver on shift, the pull side of
accounting and token refresh. Two `addLineItem`s of one invoice meet on the index over
(invoice, line number); the wait is not modelled, the failure is (`Abort`). Foreign-key
locks do not conflict with the UPDATEs modelled. The pool's limit (20 connections, five
seconds) belongs to the intake module of the plan. Row-level security and tenants: one
tenant is modelled, and no modelled row belongs to another.

In the newer ones: partial refunds, disputes, cards on file, void and draft invoices at the
pay page, payouts and onboarding (payments); the choice of events, signatures, payloads and
batches of a hundred (webhooks); photos, bidders' standing, notifications and whether an
impound record may be auctioned (auctions); fees other than storage, yards, photos, forms
and the yard's own gate workflow (impound). Days are UTC days and every sweep of a day ends
in it (`DayPasses`). The truck app's queued transitions, field
payments and notes, which the API refuses, the evidence upload with a worker of its own,
the fallback for an API without the endpoint (`drainPerItem`), the death of the app between a
call and its queueing, and the queues of the web and iOS apps (offline); recipients,
preferences, quiet hours and the delays they give a job, templates, device tokens (two devices
of a recipient are two channels of one queue), the feed, subscriptions and the retention of dead
letters (notifications).

Other components: see `PROJECT.json`, each with its reason. In short, reads and reports
change no state; record keeping (lien cases, fleet, users, attachments) is sequential row
edits; single sign-on, mail, storage and AI scoring are external protocols; the clients
supply inputs.

## 8. Plan

1. `SessionRotation`: refresh, reuse detection, revocation (`auth.service.ts`). A token is
   exchanged once; a reuse ends the user's sessions.
2. `JobIntake`: numbering, the pool's limit and nested connections. Numbers unique; a
   request never waits for itself.
3. `EventFanout`: emit before COMMIT, the listeners that generate invoices, enqueue syncs and
   publish webhooks. It composes `JobDispatch` with `InvoiceLedger` and `WebhookDelivery` at the
   completion of a job.
4. `StripePayments` with `InvoiceLedger`: one recompute for both; partial refunds and disputes.
5. Tier offers, the yard's gate with the holds of `ImpoundStorage`.

Abstract specifications: an auction as a sequence of rising bids closed once, which
`AuctionLot` should refine; a delivery as a counter that ends, for `WebhookDelivery` and the
sync rows alike.

Proofs to come with them: that the two refine it. Runs of new modules keep to the sizes above,
two or three actors and one or two rows; where two runs ask about the same cause, the stronger
one stays.
