# Billing simulator: a TLA+ model of its concurrent core

The repository is a Stripe-like billing simulator in Go: a REST API over
Postgres, a virtual clock that requests may move forward, background workers
that renew subscriptions and chase overdue invoices, a transactional outbox
towards Kafka and webhooks, and a Redis lock. It has no tests. What makes it
hard is not any one function: every operation reads rows, decides, and later
overwrites whole rows, and several of them run at once, in several goroutines
and, by design, in several instances of the application.

This directory holds the specifications of that behaviour (`*.tla`), the
instances TLC checks (`MC*.tla`, `*.cfg`), the proofs TLAPS checks
(`*Proofs.tla`) and `PROJECT.json`, which lists the runs, the mapping from
definitions to source lines, the hazards and the theorems. Paths
below are relative to `src/`.

    tlc -workers 2 -config Billing_races.cfg MCBilling      one run
    tlapm BillingProofs.tla                                 the proofs of a module

## 1. Inventory

| Component | State | Operations | Hard about it |
|---|---|---|---|
| Renewal lock (`internal/repository/cache.go`) | one Redis key per subscription, with a token and a TTL | `Lock`, the returned release | lost replies, releases that run late or never, leases that lapse while the holder works |
| Billing and renewal (`internal/service/billing.go`, `time.go`, `internal/worker/subscription_renewal.go`, `invoice_due.go`, `internal/entity/subscription.go`, `invoice.go`) | `subscriptions`, `invoices`, `outbox_events` | create, renew, cancel, advance time, mark overdue | five actors overwrite the same rows without row locks; the recheck, the skip over missed periods, transactions that are run again |
| Payments (`internal/service/payment.go`, `internal/entity/payment_intent.go`) | `payment_intents`, `invoices` | create intent, confirm | confirmations of one invoice through several intents, at once, and after it is settled |
| Outbox and notification (`internal/service/event_dispatcher.go`, `notification.go`, `internal/worker/outbox_worker.go`, `cleanup.go`) | `outbox_events` | dispatch, take a batch, send, mark, clean up | row locks that end with the statement, attempt numbers computed from stale rows, two receivers of which one may fail |
| Webhook delivery (`internal/service/webhook*.go`, `internal/worker/webhook_retry.go`) | `webhook_endpoints`, `webhook_logs` | register, delete, deliver, poll and retry | several workers hold one row; rows nobody updates stay first in the queue |
| Transaction manager (`pkg/storage/postgres/transaction`) | none of its own | run a function in a transaction, again on some errors | a commit reported as an error took effect |
| Virtual clock (`internal/clock`) | an offset per instance, a Redis key, a channel | advance, set, reset, sync | the offset changes before it is saved; saves and messages out of order; restarts read the key |
| Kafka consumer, dead-letter queue (`pkg/kafka`) | an in-memory buffer, the group's offsets | fetch, handle, retry, park, commit, drain | several workers commit one partition; a full buffer; what is parked lives in memory |
| Dashboard hub (`internal/transport/ws/hub.go`, `client.go`) | registered clients and their channels | register, unregister, broadcast, the pumps | full queues, connections that break while a message is under way |
| Catalogue, customers, creating requests (`internal/service/product.go`, `price.go`, `customer.go`, `internal/transport/http`) | the tables of the catalogue, `customers`, `outbox_events` | look up, create in a transaction, delete | a row looked up and deleted before it is used; an attempt repeated after a commit that took effect |
| Application wiring (`cmd`, `internal/app/app.go`, `internal/transport/http/http_server.go`) | which goroutines and connections are alive | connect, start, signal, drain, close | the order of the shutdown, its deadlines, signals during startup |
| API request log, configuration, logging, metrics, tracing, docs | appended rows, or nothing | single statements, forwarding | nothing interacts |

How they interact:

* API handlers call the services. A service runs its operation through the
  transaction manager; the repositories find the transaction in the context.
  Operations that do not open one (the overdue worker, webhook delivery, the
  outbox workers) commit every statement on its own.
* `RenewSubscription` has two callers: `SubscriptionRenewalWorker`, which takes
  no lock, and the ten goroutines of `TimeService.CheckAndRenewSubscriptions`,
  which take the Redis lock `renewal:<id>`.
* Operations on aggregates raise domain events; `EventDispatcher` writes them to
  `outbox_events` in the same transaction. `OutboxProcessor` hands each event to
  `NotificationService`: first Kafka, then `WebhookDeliveryService.Deliver`,
  which writes `webhook_logs` rows. `WebhookRetryWorker` sends these.
* Everything that compares times asks the virtual clock. Each instance has one;
  a request changes it in its own memory, saves the offset in Redis and publishes
  it to all instances, the sender included.
* The HTTP handlers look up what a new row refers to; the services build and
  insert it in a transaction, with its events.
* `app.New` connects, `Run` starts the HTTP server and the workers under one
  context, `Shutdown` stops them and closes the dead-letter queue and the producer
  it sends through. Kafka's consumer is a library no component starts yet.

What makes each of them correct:

* **lock**: two holders only after a lapsed lease; a release frees only the
  holder's own lock.
* **billing**: nobody is charged before the period paid for has ended, nor twice
  for one period; every charge is announced exactly once; nobody is demoted
  without a declined payment; what is due is renewed.
* **payments**: captured money is booked; declines are counted; nothing is
  written off early; nothing is paid twice.
* **outbox**: at-least-once delivery: what counts as processed was received, and
  what was not is processed or given up after all its attempts.
* **webhooks**: delivered means accepted; attempts are requests; every log is
  delivered or tried as often as configured.
* **clock**: requests that do not overlap add up, over restarts too; when changes
  are over, all clocks stop at one offset.
* **consumer**: what is committed was handled or is in the dead-letter topic or on
  its way there, but for the messages the code itself gives up as lost or overtakes;
  what was fetched is never forgotten.
* **hub**: a dashboard sees every message its channel had room for, once and in
  order; a peer that is gone leaves no goroutine and no entry behind.
* **catalogue**: a request leaves exactly the row it answers for, and its event;
  nobody subscribes to what is deleted.
* **wiring**: a signal ends the process, and nothing is cut off that was not
  waited for.

## 2. Modules

| Module | Models | Proofs | Runs |
|---|---|---|---|
| `RedisLock` | `CacheRepository.Lock` and Redis | in `RedisProofs` | `redislock_safety` |
| `Billing` | subscriptions and invoices under all their writers | `BillingProofs` | `billing_*` |
| `Payments` | `PaymentService` | `PaymentsProofs` | `payments_races` |
| `Outbox` | dispatcher, workers, notification, cleanup | `OutboxProofs` | `outbox_delivery` |
| `Delivery` | abstract: what an outbox promises | in `OutboxProofs` | refined in `outbox_delivery` |
| `Webhooks` | endpoints, `Deliver`, retry workers | `WebhooksProofs` | `webhooks_*` |
| `VirtualClock` | the clocks of several instances, the key, the channel | `RedisProofs` | `clock_sync` |
| `Processor` | Kafka consumer and dead-letter queue | `ProcessorProofs` | `processor_delivery` |
| `Catalogue` | the creating requests, the transaction manager, deletions | `CatalogueProofs` | `catalogue_retries` |
| `Hub` | the dashboards' feed | in `AppProofs` | in `app_lifecycle` |
| `App` | the process from connecting to closing; EXTENDS `Hub` | `AppProofs` | `app_lifecycle` |

`RedisProofs` extends both `VirtualClock` and `RedisLock`, whose specification is
`LockSpec`: the clock and the lock meet in Redis under different keys, so each is
proved on its own.

Conventions. A table is a function from ids to records that hold the columns
the properties tell apart. A request or worker in progress is a record holding
what it has read; a step boundary lies where the code leaves the database and
other actors may run: a SELECT is one step, the writes of a transaction, which
become visible together, are another. Definitions are named after the function
they translate, and `PROJECT.json` gives the lines. Definitions marked `Slip`
are deliberate mistakes; each replaces the definition after it to show that a
property notices.

### RedisLock

`store` is Redis, `session[c]` what a goroutine believes it holds, `wire` the
release scripts that Redis may still run, `lapsed` (history) the tokens whose TTL
ran out. `Acquire` is SETNX and its reply; `AcquireReplyLost` leaves a key that
nobody will release. `Unlock` sends the script and forgets the token, because
the closure discards the script's error after its two-second timeout. `RunRelease`
may run it late, and may leave it on the wire: the client library sends a command
whose reply is lost again, so that a script can run more than once. `LoseRelease`
is the one that never runs, `Expire` the TTL.

### Billing

Actors are `Pollers` (renewal workers), `Advancers` (AdvanceTime requests) and
`Callers` (CancelSubscription requests); the overdue worker is a singleton per
subscription. `job[d][s]` is one `RenewSubscription` in progress: *listed*,
*ready* (for an advancer: the Redis lock is taken), *read* (the row and the time
it was read), gone. `RenewRead` is the SELECT, `RenewCommit` everything from the
recheck in `billing.go:214` to the commit: invoice, outcome of the simulated
payment, full-row UPDATE, outbox rows. `RenewRollback` ends an attempt without
effect; `Again` is the transaction manager, which also repeats an attempt whose
commit went through and was reported as an error. `CancelRead`/`CancelCommit` and
`OverdueList`/`OverdueRead`/`OverdueWrite` have the same shape. A price can be
deleted while subscriptions refer to it (`DeletePrice`, `unpriced`): every renewal
of these then fails at the price look-up (`RenewUnpriced`), for good. The row's update
is `Overwrite`: no version, no status condition. `clobbered` (history) notes a
commit over a row that had changed since it was read.

### Payments

Two or more intents of one invoice; `confirm[c][p]` is one `ConfirmPayment`:
*begin*, *intent* read, *invoice* read. `Commit` writes both rows and the event;
`Refuse` is the error of `MarkPaid`; `Rollback` and `Again` are as above.
`events` counts the outbox rows per invoice and outcome: it is what the outside
world has been told, and the properties compare the tables with it.

### Outbox and Delivery

`rows` is `outbox_events`, `worker[w]` a batch with the attempt number each row
had when it was taken. `FOR UPDATE SKIP LOCKED` runs outside a transaction, so
`GetUnprocessed` locks nothing beyond its own step. `Send` may store a message
and still report an error; `Deliver` (webhooks) runs whatever Kafka said;
`MarkProcessed` and `MarkFailed` may fail. `Delivery` has two variables: an
event's status (none, pending, complete, abandoned) and who received it.
`Outbox!AtLeastOnce` maps the rows onto it. `Malformed` are events without a
customer id: `ExtractFails` marks them as failed before anything is sent, whatever
their type, so that of the `Unsupported` ones only the `Skipped` count as handled.

### Webhooks

`due` is the result of the WHERE and ORDER BY of `GetPendingForRetry`, `worker[w]`
a polled batch with copied attempts. The steps of `retryWebhook` are
`EndpointFound`/`EndpointMissing`, `Send`, and one of `MarkDelivered`, `GiveUp`,
`MarkFailed`, `RecordFails`. A row's place among the due rows is left open when
it becomes due: rows of one call tie, and a request may outlast its backoff.
`attempt` starts at 1 and counts what was recorded, so `TriedOrDone` speaks of the
requests made (`sends`): there are `MaxAttempts` of them, unless one is accepted, the
endpoint is deleted, or other rows that nobody updates any more (`Stuck`) fill every
batch.

### VirtualClock

`offset[i]` is the memory of instance *i*, `stored` the key
`virtual_clock_offset`, `inbox[i]` the messages on their way to its sync goroutine.
`Advance`, `SetTime` and `Reset` are the critical sections; what follows without
the mutex, `Save` and `Publish`, is two more steps, each of which may fail
(`SaveFails` of a SET that took effect or did not; `Reset` only logs it and goes
on). `Sync` takes the offset that arrives, whatever it is. `Disconnect` and
`Reconnect` lose what is published meanwhile, `Restart` kills an instance with its
requests and reads the key, and until `StartSync` it hears nothing. The histories
say when a divergence has a cause the code cannot help: `stray` (a change was
never announced, or a message missed) and `serial` (no two requests overlapped,
failed, or met an instance that lagged).

### Processor

`next` is the reader's position, `committed` the group's offset, `worker[w]` where
`Processor.worker` is with which message, `buffer` and `sender` the channel and
the goroutine of the dead-letter queue. After a failed fetch the loop falls
through with an empty `kafka.Message` (`PauseEnds`), which is handled, perhaps
parked, and whose commit fails. `Enqueue`, `SendNow` (the buffer is full) and
`PublishErrorFails` are `PublishError`; the worker commits in each case. A send that
fails is repeated: `PutBack` puts the message at the end of the buffer, or drops it
when that has filled up during the backoff. `Stop`, `Close` and the drain are the
orderly end, `Restart` the return from it or from a crash. Two histories name the
messages a delivery guarantee does not reach, one by one. `lost` are those the
dead-letter queue had or was to have and no longer has: `PublishErrorFails`, the drop
in `PutBack`, `LastSendFails` in the drain, `AbandonBuffer` (closed during a backoff)
and `Restart` (the process died with them in memory) are the only steps that add to
it. `overtaken` are those another worker still held when `Commit` moved the offset
past them. A failed send alone loses nothing.

### Catalogue

A request is *resolve* (the handler's look-ups, each a SELECT outside any
transaction), *begin*, *check* (the service's own look-ups), *write*, *commit*,
*backoff*, *done*. `tx[r]` is what its open transaction has written. `Fails` and
`CommitFails` are errors, retried or not by `Retry` as `isRetryableError` says;
a commit reported as an error may have been `Applied`, which `lost` counts.
An id names the request and the attempt that drew it, since every attempt draws
new ones. `Cancelled` is a context that ends during the backoff. Each `Create...`
action gives the rows and the events its service writes, and `NotFound` which
status the two error mappers choose.

### Hub and App

`Hub` has the hub's goroutine (`Register`, `Unregister`, `HandOut`), each client's
two (`ReadFails`, `ReaderCloses`; `Write`, `WriteIsLost`, `WriteFails`,
`SendClosed`) and the callers of `Broadcast`. A channel at its capacity drops the
message, for that client (`missed`) or for all. `App` adds `main` (the startup's
connection attempts, `Run`, the steps of `Shutdown`), the server's listener and
drain, requests, and one `task` per goroutine of a worker. `Signal` may come at
any moment. A `select` with several ready cases may take any (`Tick` when the
context is canceled already). `deadlines` (history) names the waits that ended
by their deadline.

## 3. Runs

Each run asks one question. Deadlock is not checked where time, requests or
events are bounded and a behaviour may end, and the `.cfg` says so.

| Run | Instance | Shows |
|---|---|---|
| `redislock_safety` | 3 goroutines, 2 keys, 4 acquisitions, symmetric | mutual exclusion but for lapsed leases; releases that run late or twice free nobody else's lock |
| `billing_races` | 1 subscription, clock to 5, 1 poller, 1 advancer, 1 cancellation, the overdue worker, crashes, leases may lapse | `ChargedInPeriod`, `NoDoubleBilling`, `PastDueWasDeclined` |
| `billing_locked` | 2 advancers, 2 subscriptions, a confirmed payment, 2 attempts per transaction, leases hold | `NoLostUpdate`: the lock alone prevents lost updates among renewals; `ChargesAnnounced`: an event per charge and a charge per event |
| `billing_live` | 2 subscriptions of period 1, one of which may lose its price, 1 poller, 1 advancer, crashes of both | `DueIsRenewed` |
| `payments_races` | 2 intents of 1 invoice, 2 clients, 3 confirmations, 2 attempts | `WrittenOffAfterThree`, `DeclinesCounted`, `CapturedIsBooked` |
| `outbox_delivery` | 3 events (one without a customer id, one of an unsupported type), 2 workers, batch 2, 2 attempts, a crash | `ProcessedWasReceived`, `GivenUpLate`, the refinement of `Delivery`, `EverySettles` |
| `webhooks_safety` | 2 endpoints, 2 workers, batch 2, 2 attempts, symmetric | `DeliveredWasAccepted`, `AttemptsAreSends` |
| `webhooks_live` | 2 endpoints, 1 worker, batch 1, 3 attempts, a crash | `TriedOrDone`, where LIMIT hides a row |
| `clock_sync` | 2 instances, 3 requests, a failure, a restart | `SerialChangesAddUp`, `ClocksConverge` |
| `processor_delivery` | 2 workers, 2 messages, 2 attempts, buffer of 1, a restart | `GuaranteedDelivery`, `FetchedIsAccountedFor`, `EveryMessageSettles` |
| `catalogue_retries` | 2 requests of any kind, 2 attempts, 2 deletions | `RowsAreAccountedFor`, `AnswerNamesRow`, `EventsMatchRows`, `SubscribedToLiveRows` |
| `app_lifecycle` | a request, a loop, an outbox worker, a dashboard, 3 messages, queue 2, channel 1, 2 connection attempts | `FeedIsComplete`, `NothingIsCutOff`, `GoneAreReleased`, `StopsWhenTold` |

The safety run of every module also checks its inductive invariant `IInv`
(`LockInv` in `RedisLock`), of which `TypeOK` is a part: an invariant is checked
before it is proved. The largest run has 2.5 million states; the longest take two to three
minutes.

### Bounds, and why they are enough

* *Billing.* A period of 2 days and a clock to 4 or 5 let a subscription be
  renewed on time, a day late, exactly at a boundary and after a missed period,
  so both branches of the skip in `Subscription.Renew` run; a renewal invoice is
  overdue at 5. Subscriptions share
  nothing but the poller's one-after-the-other order, so one is enough for the
  races and two for the lock and for liveness. A lost update needs two writers;
  `billing_races` has four kinds. `billing_live` has a period of 1 and a clock to 2:
  a subscription falls due, is renewed and falls due again, and one day is missed
  when the clock jumps.
* *Payments.* Write-off takes three declines: the one an open invoice is born
  with, and two of the three confirmations; the third is there to overwrite.
* *Outbox.* An attempt number can go back only with two workers. With
  `MaxRetries` 1 an event passes through a first and a last attempt. Two events that
  fail at every attempt, one of them malformed, fill a batch of two, and the third has
  to be settled all the same.
* *Webhooks.* Two copies of one row, a row beside it in the batch, and both
  sides of the last attempt. With 3 attempts a log has to come back from two
  backoffs; with a batch of 1 the other log hides it while it is due, and one stuck
  row is enough for starvation. `MaxSends` bounds how far requests are counted; what
  is said of the counts is said below it.
* *VirtualClock.* Two requests in two orders at two instances, and a third that
  meets what they left behind; one failure or dropped connection, one restart.
* *Processor.* Overtaking takes two workers and two messages; a buffer of one is
  full while a message is in it, so `SendNow` and the drop in `PutBack` happen; there
  is no end of empty messages to fill it with.
* *Catalogue.* One request is enough for repeated commits, the second creates or
  refers to rows of the first (an intent for its invoice); two deletions can hit
  a customer and a price between look-up and transaction.
* *App.* One of each kind of goroutine; three messages fill a queue of two and a
  channel of one.
* `MaxTime`, `MaxToken`, `MaxConfirms`, `MaxCrashes`, `MaxSends`, `MaxRequests`,
  `MaxFailures`, `MaxRestarts`, `MaxMessage`, `MaxRequest`, `MaxDeletions` and
  `MaxMessages` are bounds of the model; `MaxAttempts`, `MaxRetries`, `BatchSize`,
  `BufferSize`, `QueueSize`, `SendBuffer`, `PostgresAttempts` and `RedisAttempts`
  are settings of the code with smaller values.

The proofs of section 4 hold for all values of these constants.

### Fairness

Liveness is checked under `FairSpec` only. Tickers tick and calls return (weak
fairness of the workers' steps: every database call carries a context, an HTTP
request the sender's ten-second timeout). A statement that is repeated at every
tick succeeds in the end (strong fairness of its success, for each row where rows
may compete, otherwise for any), since the code's answer to errors is to try again
at the next tick. Crashes are bounded: an
instance that keeps dying does nothing. Receivers, customers and requests have
no fairness: Kafka, webhooks and payments may fail for ever. Nor is a price that was
deleted assumed to come back: a renewal that fails for want of it fails every time.

* `VirtualClock`: a request's Redis calls end, if need be by their five-second
  timeout; the sync goroutine runs; the client library reconnects. Successes have
  no fairness.
* `Processor`: the goroutines run and handlers return (weak); of fetches that are
  tried for ever one works in the end, and so does one send of messages that
  `DLQ.worker` puts back for ever (strong). Nothing is assumed of a single send, nor
  of commits.
* `App`: a wait ends, by its deadline if nothing else; a task's calls end once their
  context is canceled; the hub takes a registration that waits, and a pump whose
  connection is broken sees it by its read or write deadline. `TaskStops` is
  strongly fair because a `select` that is reached again and again takes each of
  its ready cases in the end. Nothing is assumed of handlers, peers and signals.

### Disagreements

Where the repository says one thing of itself and the code does another. Each
is visible in a few lines, and the models follow the code.

* *Cancellation.* "Further write-offs are stopped"
  (`internal/transport/http/handlers.go:98`): a renewal that read the row before the
  cancellation writes *active* back. `cancel_at_period_end` should keep the
  subscription active until the end of the period
  (`internal/entity/subscription.go:118`) and end it then: nothing reads it, and the
  next period is charged.
* *Payments.* "invoice is already paid" (`internal/entity/errors.go:23`): a declined
  confirmation through a second intent reopens a paid invoice, and the next one
  charges it again.
* *Webhook queue.* The sender's timeout is there so that one endpoint does not hold
  up the retry queue (`internal/transport/ws/sender.go:19`): rows of deleted
  endpoints stay first under LIMIT and starve all others (`Stuck` in `Webhooks`).
* *Order of events.* `internal/transport/kafka/event_sender.go:54` wants the events
  of one customer in order: a failed send lets later ones overtake.
* *Swallowed errors.* A failed INSERT is swallowed by `Deliver`, which returns `nil`
  (`internal/service/webhook.go:70-93`). At the last attempt the retry worker logs
  "marking as failed" and writes nothing (`internal/worker/webhook_retry.go:149-155`).
  Event types without a case are marked processed
  (`internal/service/notification.go:67`).
* *Guaranteed delivery.* "DLQ is required for guaranteed delivery"
  (`pkg/kafka/processor.go:37`): when the dead-letter queue refuses a message it is
  logged as "message LOST" and committed (`processor.go:162-175`); one that finds no
  room after a backoff is logged as "message lost" (`pkg/kafka/dlq/dlq.go:108`); what
  is in the buffer is committed and dies with the process. After a failed fetch the
  loop falls through and handles, parks and commits an empty message
  (`processor.go:79-102`).
* *Deleted prices.* A price is deleted without a look at the subscriptions that refer
  to it (`internal/repository/price.go:156`): their renewals fail from then on
  (`internal/service/billing.go:210`), and they stay active and due.
* *Statuses.* `internal/transport/http/handlers.go:48` documents 404 for an unknown
  price; `handleServiceError` does not know `ErrPriceNotFound` and answers 500, as
  `respondServiceError` does for `ErrInvoiceNotFound`. The documented 409 for a
  customer's e-mail never happens, since nothing makes it unique. `GET` of a
  subscription parses a public id as a UUID and answers 400.
* *Startup.* `redis.New` does not clear `lastErr` (`pkg/storage/redis/redis.go:74-89`):
  a ping that succeeds after a failure is an error. `MaxAttempts` 0 and
  `BaseRetryDelay` 0 are not rejected; with the latter `rand.Int64N(0)` panics.
* *Shutdown.* `internal/app/app.go:183-185` stops HTTP first; the workers' context is
  canceled by the same signal. `internal/transport/ws/hub.go:72-73` says that a slow
  dashboard's connection is dropped: only the message is. Nothing stops the hub,
  and dashboards get no close frame.
* *Endpoints.* `NewWebhookEndpoint` never sets `SecretEncrypted`.

## 4. Proofs

For every value of the constants, TLAPS proves

* `RedisProofs`, the lock: `LockTypeOK`, `HolderOwnsKey`, `MutualExclusion`. The
  inductive invariant adds that tokens in use were drawn and belong to one holder,
  and that no release on the wire carries one (`TokensDistinct`): otherwise an old
  release could free a new holder's lock.
* `RedisProofs`, the clock: `TypeOK`, `SerialChangesAddUp`. A change is in memory,
  then in the key, then on the channel, then in the inboxes, and a restart or an
  absolute change may come in at any point. What is inductive is where a clock is
  *heading*, its offset once its inbox is empty: at what was published last, or the
  instance has a request under way (`HeadingForPublished`). That holds of
  overlapping requests as well; of requests that do not overlap, what is published
  is what is wanted (`OneChangeAtATime`, `PublishedIsWanted`).
* `BillingProofs`: `TypeOK`, `ChargedInPeriod`, `NoDoubleBilling`,
  `PastDueWasDeclined`. A copy of a row may be written at any later time, so
  what holds of the table has to hold of every copy in flight (`RowsWellFormed`,
  `DeclineBehindCopies`). With `InvoicesAhead` (no invoice reaches further than
  the period after the current one) a renewal's new period begins where the
  last one ended at the earliest. The arithmetic of the skip over missed
  periods is lemma `RenewedRow`, for any period length and delay.
  `EveryChargeAnnounced` proves `ChargesAnnounced`, an equality of two
  cardinalities, from the fact that one commit adds one to each.
  `LockPreventsLostUpdates` proves `NoLostUpdate`: if no lease lapses
  (`~LeaseMayLapse`), and none of the writers that take no lock is in the middle of
  an operation (`[]OnlyLockedWriters`, the situation of `billing_locked`), every
  copy a lock holder has read is still the row (`CopiesFresh`). So the lock does
  what it is for; what breaks it is the unlocked writers.
* `PaymentsProofs`: `WrittenOffAfterThree`, `DeclinesCounted`,
  `CapturedIsBooked`. No copy counts more declines than were announced
  (`CopiesBehind`), and an intent copied as captured is booked (`CopiedIsBooked`).
* `OutboxProofs`: `ProcessedWasReceived`, `GivenUpLate`, and
  `Spec => AtLeastOnceSpec`, the refinement of `Delivery`. A worker acts on a copy
  that others may have made stale; but rows never become absent again, failures
  are only counted up and receivers forget nothing (`Forward`), so that what a
  worker knows (`KnowsWhatItDid`: its copies' rows exist and have failed as often
  as their numbers say; what it is about to mark was received) survives every
  other's step. For the refinement a lemma per action (`...Maps`) shows which step
  of `Delivery` it is, or that it is none.
* `WebhooksProofs`: `DeliveredWasAccepted`, `AttemptsAreSends`. `Update` writes a
  copy's attempt back and `MarkFailed` adds one to whatever is in the row, so the
  plain bound is not inductive: every copy and the row stay behind the requests
  made *less the failures not recorded yet* (`Counted`). A request adds one to
  both sides, a recorded failure takes one from the set and adds it to the row.
  `Forward` again says what no step undoes.
* `ProcessorProofs`: `GuaranteedDelivery`, `FetchedIsAccountedFor`. Whoever commits
  a message has handled it or given it to the dead-letter queue, which has sent it,
  still has it or has lost it (`HandsOver`), and no step takes a message out of one of
  these places but into another (`Disposed` only grows). `OneWorkerDelivers`: with
  `WorkersCount` 1 nobody is overtaken, so only the dead-letter queue loses anything.
* `AppProofs`: `NothingIsCutOff`, `FeedIsComplete`. How far the shutdown has come
  says what has ended or outlasted a deadline; the queue holds the numbers that
  follow those handed out (`HubInv`).
* `CatalogueProofs`: `TypeOK`, `RowsAreAccountedFor`, `AnswerNamesRow`,
  `EventsMatchRows` and the action property `SubscribedToLiveRows`. An attempt's ids
  are new because only attempts that are over have left rows (`RowsOfAttemptsOver`);
  the transaction about to commit holds one row of its request's kind, and the events
  of all it holds (`WrittenTogether`); what had been deleted when it began is found
  by the second look-up (`GoneIsFound`). Every step either moves one request and its
  transaction on (`MovesTo`), or applies a transaction (`Applies`), with the answer
  201 or as a lost commit, or deletes a row; each kind is one lemma.

In each, `Inductive` (`ClockInductive`, `LockInductive` in `RedisProofs`) is
`Spec => []IInv`; a lemma per action (`...Keeps`, `Keeps...`) shows that it preserves
`IInv`, which the runs check as well, and the last step is propositional temporal
logic. The only assumptions are the constants' (named `...Assumption`, evaluated by
TLC in every run).

`NoDoubleBilling`, `DeclinesCounted` and `CapturedIsBooked` are conditional on
`~clobbered`: lost updates do happen, with a cancellation among the writers for
one, and what is proved is that nothing else, neither retries nor crashes nor
stale lists, breaks them.

Only model-checked: liveness (`DueIsRenewed`, `EverySettles`, `TriedOrDone`,
`ClocksConverge`, `EveryMessageSettles`, `GoneAreReleased`, `StopsWhenTold`), which
needs ENABLED, and that the prover does not support. Every invariant a run checks is
proved. No module declares a RECURSIVE operator.

## 5. What is assumed and what is left out

The tree at this commit does not compile: constructor calls in
`internal/app/app.go:50-157` do not match, two `VirtualClock` interfaces differ,
`OutboxPoller.MarkFailed` has no attempt parameter while the repository's has one,
`GetByInvoiceID` is missing from the subscription repository. The models take
the evident intent: `MarkFailed` is given `event.Attempt + 1`; the overdue worker
finds the subscription of its invoice; the cancel handler, which no route
registers, is called. `AggregateRoot.Raise` (`internal/entity/aggregate.go:7-9`)
calls itself; the models let it append the event. `OutboxRepository` is built
without its clock; the models give it one.

Simplifications, each an omission that a later module may remove:

* one fixed `PeriodLen`; calendar months and years are not modelled;
* in `Billing`, `CreateSubscription` and `CancelSubscription` run once; what their
  repetition leaves behind is in `Catalogue`, for the former;
* missed periods are skipped, not invoiced, as in the code; discounts and
  amounts are not modelled beyond "covered";
* in `Billing` and `Webhooks` the virtual clock only moves forward, in all
  instances alike;
* in `Webhooks` the failed INSERT of an event and of a log are one action;
* the HMAC signature, event filters and payloads are data;
* in `Processor` one partition, one process; a rebalance is a restart;
* in `App` the cleanup and due loops are alike, and requests do nothing but take
  time; `cmd/bill-stripe-sim/main.go` calls an `app.Run(ctx, &cfg, log)` that does
  not exist, and is taken to mean `New`, `Run`, `Shutdown`;
* broadcasts come from requests and outbox workers, as `hub.go:82-83` says of its
  callers, though the notification service's constructor takes no broadcaster.

Not modelled:

* the API request log: rows that are appended and listed, and nothing reads them;
* configuration, logging, metrics, tracing and the generated API docs;
* updates of one catalogue row by its id, and list queries: one statement each, on
  which nothing else depends;
* the payment rate: a float behind a mutex, which the models replace by "accepted
  or declined, any time";
* discounts, proration and amounts, which no operation in the tree ties together.

## 6. Plan

What is left, in this order:

1. A composition of `Outbox` and `Webhooks`: an event taken twice is delivered as
   two calls of `Deliver`; and of `Billing` with `RedisLock` in place of its own
   lock variable, by refinement of that variable.
2. `Calendar`: `NextBillingDate` and the period arithmetic as functions, against a
   reference definition, and `Billing` with periods of unequal length
   (`internal/entity/price.go:74`).
3. `Billing` with a clock that is set back, taken from `VirtualClock`.
4. The retries of `CancelSubscription` after an ambiguous commit.
