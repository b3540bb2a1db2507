# A TLA+ model of the flash-core order engine

flash-core is a NestJS engine for flash sales: an API that sells a few units to
many buyers at once, and a worker that expires orders, settles payments, sends
mails and closes sale events. State lives in PostgreSQL (Read Committed), in
Redis (stock counters, rate limits) and in a BullMQ queue on Redis that delivers
jobs at least once. What is hard about it is not any single statement but what
happens *between* statements: each handler is a chain of small transactions, and
API processes, workers and repeated jobs interleave between them or die.

This directory holds the specifications, the TLC configurations that check them
and the proofs. `PROJECT.json` maps every definition to the lines it stands for.

## The system's parts

| Part | State it keeps | Operations | Talks to | What makes it correct |
|---|---|---|---|---|
| Direct orders (`modules/order`) | `orders`, `order_items`, `product_skus.stock` | place, cancel, `order.expire`, `order.expire.sweep` | outbox (same transaction), queue, payments | a unit is in the row or with one order; one order per key; PAID and CANCELLED are final; overdue orders are resolved |
| Payments (`modules/payment`, `order-payment.service.ts`) | `refund_requests`, `processed_events`, `orders.payment_intent_id` | create intent, webhook, settle | gateway, queue, orders | money is kept for its order or put down for refund; an event acts once |
| Sale events (`modules/sale-event`) | `sale_events`, `sale_event_skus`, `sale_event_purchases` | publish, buy, release, settle | product stock, orders | units move without being made or lost; no buyer over the limit |
| Outbox (`modules/outbox`, `order.notifier.ts`) | `outbox_events`, `processed_events` | relay a batch, record its failure, send a mail | queue, mail | no event is lost; no mail is sent twice |
| Redis reserver (`strategies/redis.reserver.ts`) | `stock:<sku>` | reserve, release, load | Redis, product stock | counter and row differ only by what is on its way and what others have moved since, or the counter is too low; a unit leaves the row once and comes back once |
| Authentication (`modules/auth`) | `users`, `refresh_tokens` | register, login, refresh, logout | rate counters | a refresh token is used once; reuse revokes its family for good |
| Rate limits (`common/security`, `auth.service.ts`) | counters with an expiry in Redis | count, ask, reset | authentication | wrong passwords are bounded also when tried at once; a lock ends |
| Retention (`modules/retention`) | deletes old outbox rows and marks | an hourly sweep in rounds | outbox, notifier | only what nobody works on or needs is deleted, and that in the end |
| Catalogue (`modules/product`, `prisma/seed`) | `products`, `product_skus` | create, add, archive, seed, PATCH | orders | lists that can be walked to the end while rows come and go; that a slug, a variant and a code have one row is left to UNIQUE constraints |
| Pagination (`common/pagination/cursor.ts`) | none: the cursor is with the client | first page, next page | products, SKUs, orders | no row twice, none missed |
| Worker and queue (`worker.ts`, `worker-once.ts`, `infra/queue`) | jobs in Redis | take, retry, give up, repeat, stop | all of the above | an added job ends, with a bounded number of tries; periodic works go on, whoever dies or stops |
| API process (`main.ts`, health) | listening, shutting down, connections | start, outage, shut down | page, load balancer | as its clients meet it |
| CSRF (`common/csrf`) | a signed token in a cookie | issue, check | page | a good token comes back after the secret has changed |
| Demo page (`public/app.js`) | screen, timers, calls in flight | poll, refresh, buy, pay, cancel | API | one refresh, one timer, the chosen product in the end |
| HTTP shell, infrastructure, documentation build, load tests | none the properties are about | | | |

Hard behaviours, each with its line and its properties, are the `hazards` of
`PROJECT.json`: races of the three cancellation paths and the payment, deaths
between two statements, repeated and late events, statuses read before they are
used, batches that fail half-way, clocks that disagree, leftovers read without a
lock, clients that present a token twice, pages whose answers overtake each other.

## Modules

    StockLedger  <-- implemented by --  OrderFlow  <-- EXTENDS, implements --  OrderPayments
        ^------------ implemented by --  SaleEvent (the quota of each buyer)
        ^------------ implemented by --  RedisReserver (the row)
    StockUnits  <-- EXTENDS --  StockLedger, RedisReserver
    Outbox     <-- EXTENDS --  Retention  -- implements -->  MailDelivery
    ApiServer  <-- EXTENDS --  Page
    Sessions      Catalogue      Worker

A step of every module is one committed statement or transaction of PostgreSQL,
one call of Redis or one call of the queue; a handler that runs is a value of
`phase`, `task`, `settling`, `step`, `relay`, `notifier`, `call` or `request`, so
handlers interleave between any two of their statements. A transaction of several statements is one step where its row
locks make it one, and two steps where Read Committed lets others in
(`OrderPayments`: `SettleBegin` and `SettlePaid`; `SaleEvent`: `SettleRead` and
`SettleReturn`; `Outbox`: `Blame` and `RecordFailure`). Deaths and errors are
steps of their own, bounded by `MaxFaults`, `MaxCrashes` or `MaxDeaths`.

**StockLedger** is what the engine promises of one stock row: a claim takes its
units once and only if they are there, and then gives them back, is sold, or is
lost when a process dies. `Balanced`: every unit is in the row or with one claim. **StockUnits** has what
it shares with the reserver: who wants how many units, and what a set of units is.

**OrderFlow** is the direct order. `Reserve`, `CreateOrder`, `ReleaseDuplicate`,
`AnswerExisting` and `ScheduleExpiry` follow `placeDirectOrder` and
`finishOrder`; `phase[r]` is where the call stands. The optimistic and the
pessimistic reserver are one action: both decide on the latest version of the
row, in one transaction. (The pessimistic one also names the reason of a refusal
in it; `DiagnoseRefusal`, the second query of the optimistic one, allows all of
its answers.) `UserCancels`, `JobFires`/`CancelExpired` and
`SweepSelects`/`CancelExpired` are the three ways to `cancelPendingOrder`, each
followed by `ReleaseStock` in a step of its own. `appClock` is `Date.now()`, by
which orders get `expires_at` and the sweeper and the queue choose; `dbClock` is
`now()`, by which the UPDATE decides. An order is named after the request that
inserted it. `HoldOf` maps an order to what the ledger knows of it, and
`KeepsLedger` says that the flow implements the ledger.

**RedisReserver** is the third strategy, which decides in Redis and then writes
the row: `counter` is `stock:<sku>`, `step[c]` is where a call stands, or later the
release of its order. Four others write the row and never tell the counter:
`Publish` and `SettleEnded` of a sale event, and an administrator's `SetStock`
and `SetActive`. So the two differ also when nothing has failed, and the
properties say by how much. `away` is the history of what others have taken out
of the row, `told` what it was when the counter's first value was read, and
`asOf[c]` the same for a call that has read and not loaded. `CountedUnits` adds
to the counter what calls have taken from it and not yet from the row; `RowUnits`
adds to the row what releases have given to the counter and not yet to it, and
what others have moved since (`away - told`). `InStep` says that these are equal,
whoever loads the counter and wherever another's write falls between the read
and `SET NX`. `failures` records which kinds of failure there have been, since
what can be promised depends on it: with statements that throw and edits of the
stock the promise stands; a swallowed `INCRBY` or a death before the row leaves
the counter lower (`OnlyLower`), as the comment in `releaseRedis` says; a death
between the two halves of a release, a commit whose answer is lost, or a lost key
can leave it higher, and then only the row stands. A row that refuses what the
counter allowed is taken by the code for a sign that the two had drifted apart
before; it also happens without any failure, between `ReleaseCounter` and
`ReleaseRow`, and after a publication.

That the row stands is `RowKeepsLedger`. The ledger's free units are those in the
row and those that others have out of it (`stock + away`), and `HoldOf` tells from
`step` alone what a call has: a call that is refused or fails must give back to
the counter only, a release to both, and a slip between the two ways of giving
back moves units the ledger does not allow to move. A call is "unsure" when the
row gave units up and the answer was lost: it compensates the counter, and its
units are `lost`.

**OrderPayments** extends `OrderFlow` with intents, the gateway, the webhook and the
settlement, in the place of `MarkPaid`; `KeepsFlow` says that it is still the
flow. A unique violation inside of the transaction, by the mark or by the refund,
rolls it back and is taken for a repeat, as in `runOnceInTransaction`.
`DeleteProcessedEvents` is the retention's DELETE as this consumer meets it: it
takes any marks at any time, which covers every age, and all that is stated of
payments holds in spite of it. An event that comes back after its mark has gone
is stopped by the status of the order or by the UNIQUE refund. (For mails the mark
is the only thing that stops a repeat, as `env.schema.ts:153-156` says; see
`Retention`.)

**SaleEvent** is one SKU of one event: `Publish` cuts its units, a purchase
claims the quota and then the units, and settling returns what is left. The races
that decide an order are those of `OrderFlow`; here `Decide` is their result.
`missed` counts the units a settlement overwrote: `UnitsAccounted` says that
nothing else makes or loses any, and that a settlement does is what the run
`SaleSettleRace` shows. `Publish` leaves out `is_active`: where the SKU is off sale
the code refuses to publish and the model may go on. `Quota(u)` is a second instance of the
ledger: a buyer's limit is a stock of that buyer alone.

**Outbox** is the way of an event to the mail. `Blame` and `RecordFailure` are
the snapshot and the effect of one UPDATE, which waits for the rows that other
relays hold and then acts on whatever they have become.

**Retention** adds the sweep to `Outbox`, so that relays, notifiers and deletions
interleave. The DELETEs ask for status and age alone. Age is not counted: a row gets old
(`RowGetsOld`) and a mark gets old (`MarkGetsOld`), and two assumptions about time,
which no code enforces, say when. `OutlastsStatements`: no statement that blames
a row runs for `DATA_RETENTION_DAYS`. `OutlastsResends`: an event whose mark is
that old comes back no more by itself, which is what `env.schema.ts:153-163` asks
of that number. The marks of payments, which the same statement deletes, are in
`OrderPayments`, without any such assumption. `olderThan` is taken
once, so nothing gets old during a sweep. `Rounds` are the sets of rows one DELETE
may take, `NextRound` decides between another round, the next table and the end.

**MailDelivery** is what the buyer is promised about the mail, with nothing of how
it is done: it is asked for once the order is there, it goes out after it was
asked for, and it goes out once. In `Retention` an order is there when its row is
(`row` is not `NONE`), its mail is asked for from the first push on, and `sent`
is `sent`; `KeepsDelivery` says that relays, queue, notifiers and sweep implement
the promise. That the mail was given up or not is not part of it.

**Sessions** is the account: `LoginBegins` asks the limit, and `LoginFails` or
`LoginPasses` and `LoginIssues` come later; `RefreshReads` reads the token, and
rotating it (`RotateRefreshToken`) or revoking its family (`RevokeFamily`) comes
later too. `raced` and `late` are history: tokens issued for one that was revoked
since it was read, and those of them issued after their family was burned. What
the code promises holds up to these, and the properties say so. Access tokens are
signatures with no state behind them.

**Catalogue** is both who writes rows and who reads them page by page. A request
looks (`FindProductBySlug`, `FindSkuByVariant`) and inserts later; only `Unique`,
the constraints of the tables, stands between the two. That it does is the
database's promise, so it is taken as given and no property states it again. `created_at` may be older
than the commit by any time since the look. A walk keeps nothing but the cursor
of its last page; `steady` is the history it is measured by: what was listed when
it began and ever since. Products, SKUs and orders share one paging, so a list is
a parameter.

**ApiServer** and **Page** are the two ends of the browser's connection. In the
page what stands between two awaits is one step, and `calls` is a bag of the
answers still to come. Two things begin at one signal in the server, the grace of
`main.ts` and the hooks of Nest, and the page meets calls refused in between.

**Worker** is the life of a job in BullMQ and of the processes that take jobs:
`worker.ts`, which runs until it is told to stop, and turns of `worker-once.ts`,
each of which first calls the four periodic works in order. What a job does is in
the other modules; here it passes, throws, or throws what no retry can mend.
`connected` has the processes whose connections are open: at the signal Nest's
hooks close them (`ModulesDestroyed`) beside `worker.close`, which waits for the
jobs at work, so an attempt may still throw, or even pass, without them.

Definitions that end in words like `Unchecked`, `Forgotten`, `Once` or `Again`
stand before the definition they vary: they are what a plausible mistake in that
code would do, and `PROJECT.json` names for each property the one that breaks it.

## Runs

| Run | Instance | Shows |
|---|---|---|
| `Orders` | three calls: two of one buyer with one key, another buyer's with the same string; one cancellation at a time, two clocks, one fault; a sweep takes one order at a time and jobs get lost | `OneOrderPerKey`, `DuplicateFindsOrder`, `KeepsLedger`, `NoEarlyExpiry`; `OverdueIsResolved`, `CancelledIsReturned` under `FairSpec` |
| `RedisReserver` | three calls, five units wanted and three there, sale events and an administrator that write the row, two failures of any kind or edits of the stock | `InStep`, `OnlyLower`, `RowKeepsLedger` |
| `Payments` | one order, two cancellations at a time, two intents, one charged with a wrong sum, an event of each that comes again, two workers, one failed transaction, marks deleted at any time | `PaidByItsCharge`, `KeptOrRefunded`, `EndIsFinal`, `KeepsLedger`, `ChargeIsDecided`, `KeepsFlow`; `LateChargeIsRefunded` under `FairPaySpec` |
| `SaleEvent` | three calls, two of them a buyer's repeat that together pass the limit, direct sales, one death, a settlement that may fail | `UnitsAccounted`, `KeepsQuota`; `EndedIsSettled`, `NothingStaysHeld` under `FairSaleSpec` |
| `Retention` | two events, one of which cannot be mailed, two relays, one notifier, a sweep of one row a round, two faults | `DeletedIsDone`, `PushedTwiceByFailure`, `MailIsNotLost`, `KeepsDelivery`; `OldGoesAway`, `MailGoesOut`, `PendingIsResolved` under `FairRetainSpec` |
| `Sessions` | one account, one address, three tokens, two requests at a time, a limit of two, one death | `OneLiveUnlessRaced`, `BurnedIsDead`, `AttemptsBounded`; `LockEnds` under `FairSessSpec` |
| `Catalogue` | two requests of administrators, two slugs whose SKUs yield one code, one buyer, three rows, two instants, pages of one row | `PagesGoDown`, `NothingMissed` |
| `Page` | two products, two calls in flight, outages, restarts with a new secret | `OneRefresh`, `PollsItsScreen`; `ShownIsChosen`, `TokenComesBack` under `FairPageSpec` |
| `Worker` | two jobs, of two attempts and of one, one of which may be hopeless, a long worker and a turn, two deaths | `RetriesRunOut`; `JobsEnd`, `EveryWorkIsTried` under `WorkerSpec` |

Three runs find a property violated, each a sentence of the repository that the
code does not keep:

| Run | What happens |
|---|---|
| `PaymentsTwice` | a second intent is charged for an order that is paid: the charge is neither kept nor refunded |
| `SaleSettleRace` | a purchase or a release commits between the SELECT and the UPDATE of `settleEnded`: it is overwritten |
| `WorkerShutdown` | `worker.ts` gets its signal with a job at work: its connections are closed and the job has not ended, against the comment at `worker.ts:83-85` |

### Differences found without a run

The modules state more sentences that the code does not keep, under the line
"What the repository says of the program and the program does not do". TLC finds
each of them violated on the instance of the run of its module, when that run is
given this property alone and the specification without fairness.

- `OrderFlow!RetryIsAnswered`: a repeat of the call that bought the last units is
  refused as out of stock, because the stock is asked first
  (`order.service.ts:58`; `docs/specs/phase3-order-concurrency.md:237`).
- `OrderPayments!CancelledChargeIsRefunded`: an order is cancelled between the
  read and `markPaid`; the charge is neither kept nor refunded
  (`order-payment.service.ts:54`; `order.repository.ts:393-395`).
- `SaleEvent!SettledIsEmpty`: an order is cancelled after its event was settled;
  its units stay in the event (`order.expiry.service.ts:87`;
  `sale-event.repository.ts:88-90`).
- `Outbox!DispatchedIsFinal`: a failure is counted against a row that another
  relay has just dispatched, and the row is PENDING again
  (`outbox.repository.ts:101`; `schema.prisma:262`).
- `Sessions!SecondUseIsCaught`: two refreshes that overlap both pass the check of
  `revokedAt`, so one second use is not found out
  (`auth.service.ts:109`; `docs/specs/phase1-auth.md:100-101`).
- `Sessions!LimitIsStrict`: attempts that were let in before the limit was reached
  are counted after their passwords are verified, so a minute can see more wrong
  passwords than the limit, by as many as were in flight; the comment claims
  exactly the limit (`auth.service.ts:226-227`). `AttemptsBounded` is what holds.
- `RedisReserver!ReturnedIsForSale`: what a settlement returns to the row cannot be
  bought while a counter stands that was loaded before
  (`sale-event.repository.ts:119`; `sale-event.service.ts:63-65`). No failure is
  needed: with `MaxFaults` 0 it is violated too.
- `Page!PollingNotDoubled`: a tab that is left and entered while its start is in
  flight has two timers (`app.js:353`; `docs/specs/phase5-ui-demo.md:78`).

Met while reading, and visible in the models though no property asks for it:

- The page's own refresh (`app.js:66`) sends no `X-CSRF-Token`, so `CsrfGuard`
  answers 403 and `refreshed` stays true, against the comment at `app.js:44-45`:
  `RefreshRefused` has no good answer beside it.
- Coming back to the sale tab with a product chosen polls the SKUs once and sets
  no timer (`app.js:170`; `StartSale`).
- In the API too Nest's hooks close the connections at the signal (`main.ts:207`)
  and not after the grace the comments describe (`main.ts:230-243`;
  `ShutdownHooks` of `ApiServer`).
- A turn of `worker-once.ts` ends with code 0 though each of its four works failed
  (`worker-once.ts:58-61`, `105-115`).
- `updateSku` does not raise `version`, though `schema.prisma:160` says what
  changes a row does.
- A process that dies after a cancellation and before the release, and an insert
  that fails with anything but P2002, leave units in `lost` (`CancellerDies`,
  `InsertThrows`); `docs/specs/phase4-async-queue-payment.md` wanted the release
  in the transaction of the cancellation.
- Where two slots run the same job, which the queue may do when the first run
  stalls, `SkipRepeat` ends the second by the mark of the first, whose mail may
  still fail. This is why `MailGoesOut` is asked of one slot only, and
  `MailIsNotLost` of several only as long as nothing fails.

### Bounds

The bounds are constants of the modules and are given in each `.cfg`. Two or
three requests are enough for a call, its repeat and a bystander; quantities of 1
and 2 against a stock of 3 make a refusal, a release that makes room and the last
unit happen. Two cancellers (or workers, relays, refreshes) are enough for every
race of the code, which are all between two; `Orders` has one canceller at a time
and three calls, `Payments` two cancellers and one order. `Horizon` and `Hold` are
1: an order is before or at its deadline, on each of two clocks. An event that
comes again after its mark was deleted does what a second event of the same
charge would, so each intent of `Payments` has one; the instance with two was
checked too and takes too long to be kept. The deletions of marks have no bound.
In `RedisReserver` a sale event or an edit moves up to `Total` units. One or two faults
let a process die at every point of every handler, and once more while another
repairs nothing. `MaxAttempts` of the outbox is 5 in the code; 2 reaches the
FAILED rows with fewer faults. `SweepBatch`, `BatchSize`, `RetentionBatch` and
`MaxRounds` are 1, so that there are rows beyond the batch and beyond the sweep.

In `Sessions` three tokens are a login, its rotation and a second rotation or a
second family; two requests and a limit of two let the limit be passed by one
that was in flight.
In `Catalogue` `PageLimit` is 1 and there are three rows, so that a list has pages
before and after a cursor and two rows have one `created_at`; the instance with
four rows and pages of two was checked too and takes too long to be kept.
Administrators and slugs are symmetric there; that run has no liveness property.
In `Page` two calls in flight are one and the one that overtakes it. `MaxDeaths` of
`Worker` is 2, so that a job can stall once more than `maxStalledCount`, the
1 that BullMQ has when nothing is set.

Runs of `SaleEvent` and `Retention` do stop, when every call has been answered
and nothing more can happen; their configurations switch the check for deadlock
off. In the others something can always happen. Runs that check liveness take
nothing as symmetric.

### Fairness

- `OrderFlow`: a canceller that has begun goes on (`CancelExpired`,
  `ReleaseStock`), and the sweep comes back: BullMQ repeats it every minute. No
  fairness for the delayed jobs, which may be lost, nor for buyers.
- `OrderPayments`: a job that waits is handed out (strongly fair, since slots are
  busy now and then) and a transaction that began ends.
- `SaleEvent`: the settler comes back every five minutes; its second half is
  strongly fair because it fails at times; a handler with something to give back
  goes on.
- `Outbox`: the relay comes back every interval, a relay or notifier that runs
  goes on, and a job that waits is handed out.
- `Retention`: the sweep is queued every hour and goes on; no fairness for
  getting old.
- `Sessions`: time goes by and a request that has begun goes on; nobody is made
  to log in, or to stop trying.
- `Page`: timers fire, calls are answered somehow, and a poll that can be answered
  well again and again is, some time. No fairness for the user, nor for the
  server to come back.
- `Worker`: Cloud Scheduler goes on starting turns and a turn goes through its
  steps; an attempt ends and a delay runs out; a turn now and then gets to a job
  that waits or was left (strongly fair), since `BUDGET_MS` is long against the
  time that takes. `worker.ts` need never be started.

## Proofs

TLAPS checks these for every value of the constants, under the assumptions the
modules name (`RequestAssumption`, `BoundAssumption`, `NoOrderAssumption`,
`PaymentAssumption`, `LedgerAssumption`, `RedisAssumption`, `SaleAssumption`,
`OutboxAssumption`, `RetentionAssumption`, `SessionAssumption`, `CatalogueAssumption`,
`PageAssumption`, `WorkerAssumption`), which TLC evaluates in the runs. Every
safety property, action property and refinement of a passing run is one of them;
so are the types of each module, which no run asks for on their own.

- `StockLedgerProofs`: `LedgerBalanced`, `LedgerNotOversold`. The units of a set
  of claims are a set of pairs, so that a sum is a cardinality and taking or
  giving back is a disjoint union or a difference (`UnitsAdd`).
- `OrderProofs`, of `OrderFlow`: `FlowInvariant` proves `FlowInv`, from which
  `TypeCorrect`, `KeyMakesOneOrder` and `DuplicateIsAnswered` follow;
  `EndIsForever` and `NothingExpiresEarly` prove the action properties
  `EndIsFinal` and `NoEarlyExpiry`; `ImplementsLedger` proves the refinement
  `KeepsLedger`, and `StockIsConserved` carries the ledger's balance over to the
  flow.
- `RedisReserverProofs`: `RedisKeepsLedger` proves that the row is a ledger to the
  calls, whatever fails and whoever else writes it, and `RedisNotOversold`
  follows; `RedisInvariant` proves `RedisInv`, and from it `RedisTypes`,
  `CounterIsInStep` and `CounterIsNeverAbove`, for any number of calls, failures
  and writes of others.
- `OrderProofs`, of `OrderPayments`: `PayInvariant` proves `PayInv`, and from it
  `PayTypes`, `OrdersArePaidByTheirCharge`, `NothingIsRefundedAndKept`, `RefundsAreDue` and
  `MarksAreDecided`; `PaymentsKeepFlow` proves the refinement `KeepsFlow`, by which
  everything proved of `OrderFlow` holds with payments too: `PaymentsConserveStock`
  and `PaymentsKeepEnds` say so of the stock and of the ends of an order.
  `ChargesAreDecided` proves the action property `ChargeIsDecided`.
- `SaleEventProofs`: `SaleInvariant` proves `SaleInv`, and from it `SaleTypes`,
  `UnitsAreAccounted`, `EventIsNotOversold` and `LimitIsKept` (what a buyer's
  purchases hold together, not only the number kept of it); `QuotaIsKept` proves that the quota
  of each buyer is a ledger.
- `RetentionProofs`: `RetainInvariant` proves `RetainInv`, and from it
  `RetainTypes`, `DispatchedIsInQueue`, `OneMailPerEvent` and
  `SweepTakesWhatIsDone`; `PushedTwiceOnlyByFailure` and `MailsAreNotLost` rest on
  it, each with an invariant of its own; `ImplementsDelivery` proves the
  refinement `KeepsDelivery`. All are for any number of relays and of slots.
- `SessionsProofs`: `SessInvariant` proves `SessInv`, and from it `SessionTypes`,
  `FamilyHasOneLive`, `BurnedStaysDead` and `AttemptsAreBounded`.
- `CatalogueProofs`: `CatalogueInvariant` proves `CatalogueInv`, and from it
  `ListsGoDown` and `ListsAreComplete`, for every page limit.
- `EndsProofs`, of `Page`: `PageInvariant` proves `PageInv`, and from it
  `OneRefreshAtATime` and `PollsBelong`, for any number of products and calls in
  flight. Of `Worker`: `WorkerInvariant` proves `WorkerInv`, and from it
  `JobsAreGivenUpInTime`, and the action property `RetriesRunOut`
  (`TriesRunOut`), for any number of jobs, processes and attempts.

`FlowInv` is needed because none of its parts is inductive alone. The ledger can
only let units go back once if a handler that owes them is the only one that does
and its order is CANCELLED (`OwedOnce`), which in turn needs that a cancellation
moves the order out of PENDING; that a lost claim stays lost needs that nobody
owes it (`OwedOnce`, `LostIsOver`); that an order's call does not hold the units
a second time needs `PhaseMatchesOrder`. The proof of each part goes through the
actions one by one; that of the ledger has four lemmas, one for each way in which
the ledger can look at a step.

`PayInv` needs two parts besides the properties themselves. `ReadIsBehind` says
how far the status a settlement has read can be out of date: a decision it read
still stands (this is `EndIsFinal` at work, through the lemma `FlowStep`), so a
refund written for CANCELLED is due when it commits; a PENDING it read says
nothing, which is why `PaidKeepsPay` splits on what the UPDATE finds. The same
part gives `ChargesAreDecided`: when a mark commits and the charge is neither kept
nor refunded, either the order is paid by another charge (the run `PaymentsTwice`)
or a cancellation came after the read (`CancelledChargeIsRefunded`, above); no
third way is left. A mark that is deleted takes nothing from what is said of the
others (`DeletingKeepsPay`). And an
intent exists only for an order that does, so a mark that commits without having
changed a row leaves an order that somebody else has decided.

`RedisInv` adds two parts to the two promises. `FirstLoad`: until the key is lost,
a missing counter means that no call has touched the row, so that what a loading
call has read differs from the row by what others have moved since, and by
nothing else (this is what `SET NX` gives). `UnsureIsUnknown`: the row gives up
units without telling only where an answer was lost. `StepCall` says how the units
on their way change when one call goes from one place to another, and `Drift`
leaves three ways to keep the promises: both sums move alike, the counter's moves
less after a failure, or the failure is one after which nothing is promised.
A write of another moves `stock` and `away` against each other, so it changes
neither sum.

`SaleInv` adds to types and the account of units where units can be before the
event is published (`UnpublishedIsEmpty`) and that an event never holds more than
its allocation. Since the units of a purchase are a set of pairs, each step of a
purchase adds to one term of the account what it takes from another.

`RetainInv` joins three groups of processes. `RelaysHold`: a batch that is being
pushed is locked, so its rows are PENDING and nobody else's, and what has been pushed
has a job. `NotifiersHold`: a notifier has its event alone, with the mark there,
and before it sends nothing was sent. `MarkIsNotMissed`: a mark that is old, or
gone although the mail went out, is one of an event that never comes back. What
is DISPATCHED or FAILED and in no relay's hands stays so (`RelayLeavesAlone`), on
which both the deletion of rows and that of marks rest.

Three more invariants stand on `RetainInv`. `PushedOnce`: while nothing has failed,
a row that was pushed is DISPATCHED, or in the hands of the relay that pushed it,
so nobody can take it up again. `MailInv`: a mark has a reason, which is a mail, a
job given up or a notifier at work (`MarkHasReason`), so that a job which ends
because of a mark loses nothing; and a notifier that lets go of its event has met
a failure, or leaves the job in the queue when it is the only slot
(`NotifiersKnow`). `ComesFromPush`: a job, an event in a notifier's hands and a
mail come from a push and a push from a row, which is the order of the promise.
`DeliveryStep` then names the four ways in which a step may look to the buyer.

`SessInv` counts wrong passwords together with the requests that were let in and
have not been counted yet (`AttemptsCounted`): letting one in needs a count below
the limit, and counting moves it from one term to the other.

`CatalogueInv` says of a walk that all it has shown is newer than its cursor or
is the cursor, and that of the rows listed all the while those not shown come
after the cursor. `PageFacts` carries it from page to page: a page shows something
when there is more to come, everything when not, and with a row everything newer.
It rests on two facts about finite sets of rows in the order of (`created_at`, `id`): a
page has a last row (`Oldest`), and the number of rows before a row grows along
the list (`BeforeGrows`).

`PageInv` has, besides the two properties, why they hold. A call that refreshes
means that `refreshed` is set, and only a call that finds it unset begins one
(`RefreshIsMarked`). And until the screen has changed under a start, the starts in
flight are the screen's, and one of orders is alone and its timer not yet set
(`StartsBelong`). Since the calls are a bag, what a step takes from it and adds is
said by `Within` and `WithinPlus`; a new secret outdates the tokens of the calls
in flight and may put two calls in one, but never two that refresh
(`TokensOutdated`).

`WorkerInv` joins who holds a job with where it is, and counts: a job with no
attempt left, or stalled too often, is in the DLQ in the same step, so each job a
process gets back has a try to spend. `TriesLeft` is then the bound that
`TriesRunOut` shows to go down, which is why retries end.

Only model-checked: liveness (`OverdueIsResolved`, `CancelledIsReturned`,
`LateChargeIsRefunded`, `EndedIsSettled`, `NothingStaysHeld`, `OldGoesAway`,
`MailGoesOut`, `PendingIsResolved`, `LockEnds`, `ShownIsChosen`, `TokenComesBack`,
`JobsEnd`, `EveryWorkIsTried`). Each rests on weak or strong fairness and so on
when an action is ENABLED, which the prover cannot reason about. For two of them the part that is
safety is proved: `MailsAreNotLost` says where a mail is until it goes out, and
`TriesRunOut` that a job cannot be retried without end. That what the three violated
runs find can be reached is TLC's too.

## Not modelled, and why

- The PATCH of prices. That of the stock is in `RedisReserver` (`SetStock`), where
  it is measured by what it moves; in `OrderFlow` it is not, since an absolute
  write obeys no ledger and the code says nowhere what it should be worth against
  reservations made since the form was read.
- The drafts of sale events and their listing: rows one administrator edits.
  Several SKUs of one event are several instances of `SaleEvent` whose only
  common state is the event's two flags.
- A transaction that fails and is retried by the optimistic reserver: a stutter.
- Validation, error texts, headers, correlation ids, logging, configuration,
  metrics (the gauge of FAILED rows included), the encoding of a cursor, prices,
  mail texts, the signature of the webhook: no state a property here is about.
- What the page draws, and its countdown.
- The exit code of `worker-once.ts`, deployment, the documentation build and the
  load tests.
- The mail sender in the code only logs; one that fails after it has sent is not
  modelled, nor are the ends of a PostgreSQL or Redis server but as outages.

## Plan

1. `OrderFlow`, `OrderPayments`, `RedisReserver` over `StockLedger`, with proofs: done.
2. `SaleEvent`, `Outbox` with `Retention`, `Sessions`, `Catalogue`, with proofs: done.
3. `Page` over `ApiServer`, `Worker`, with proofs: done.
4. `MailDelivery` over `Retention`, with proofs: done.
5. Next: restocking in `OrderFlow`, once it is decided what an edit of the stock
   may do; the drafts of sale events; a promise for `Worker`
   like `MailDelivery`, with several slots.
