# Formal model of Saganet

TLA+ modules, TLC configurations and TLAPS proofs about the Saganet services:
an e-commerce back end of NestJS services over one PostgreSQL database, Kafka
and Redis. Its centre is a saga orchestrated by order-service that reserves
stock in inventory-service and charges a customer in payment-service, with a
transactional outbox between each service and Kafka. Around it stand accounts
and sessions (auth-service and the gateway), the catalog, and the mails.

## The system

| Component | State | Operations | Hard behaviour | What makes it correct |
|---|---|---|---|---|
| order-service | `orders`, `saga_states`, rows in `outbox` | create (idempotency key), cancel, handlers of four reply topics, a timeout sweep every 30 s | every handler reads without a lock and writes after an await; replies duplicated and reordered; the sweep races the reply it waits for | order, saga and announcement agree; every saga settles; commands follow causality |
| inventory-service | `inventory`, `stock_ledger`, rows in `outbox` | reserve, release (commands); upsert, adjust (administrator) | several row locks per transaction, deadlocks, idempotency check outside the transaction, an ORM save of a stale row | no unit sold twice, ledger explains stock, reservations all or nothing |
| payment-service | `payments`, rows in `outbox`; the provider | charge, refund (commands); simulated webhook | an external effect inside a transaction that may roll back | charged once, row and answer tell the truth |
| outbox and relays | `outbox` (one table, shared) | write with business data; poll, send, mark | overlapping runs, crash between send and mark, commit order other than `createdAt` order, refused messages | committed messages and only those are published, each in the end |
| auth-service: sessions | `user_sessions`; Redis `session:{id}`, `user:{id}:sessions`; cookies and access tokens of clients | login, refresh with rotation and reuse detection, logout, logoutAll; the gateway's check | two stores without a common transaction, handlers of many single commands | a revoked session stays revoked and is shut out; an honest client is never taken for a thief |
| auth-service: accounts | `users` | register, verify, login, lockout, forgotten password, reset, profile and avatar, seeded administrator | counters and tokens read, changed in memory and written back; `save()` of a stale entity | the last password counts, a link is used once, failures are counted |
| auth-service: address book | `user_addresses` | create, update, set default, remove | count, clear and save in separate statements | limit and single default |
| rate limits | Redis counters of auth-service and gateway | one pipeline (INCR, TTL), one EXPIRE, DEL on success | EXPIRE may be lost | a window ends for everybody |
| catalog-service: products | `products`, Redis `product:{id}` | create, edit, approve, reject, suspend, soft and hard delete; cached page | `save()` of an entity that is out of date; cache filled from a stale read | only approved content and pictures are public, deleted stays deleted, page and database agree |
| catalog-service: listing | `products` | pages by offset and by cursor | the listing changes between the pages, and within one | nothing shown twice, nothing missed |
| catalog-service: pictures | `product_images`, object storage | upload, deletion with the product | count before insert, keys made of the time | rows show their own picture, in a place of their own |
| catalog-service: categories | `categories` | create, update, delete | `save()` of an entity that is out of date | a request changes what it names |
| notification-service | Kafka offset, BullMQ queue | one handler per topic, one worker | swallowed errors at each hand-over, deaths, rejected commits | every event subscribed to is mailed, and not often |
| api-gateway | Redis counters and session keys | authenticate, limit, proxy | as above | modelled with sessions and limits |
| packages/redis, packages/kafka | lock, limiter, cache; wrappers | | | most of it has no caller |

Order, inventory and payment interact by messages only: a service writes a row
to `outbox` in the transaction that changes its data, a relay sends the row to
Kafka, a consumer group of another service takes it. kafkajs delivers at least
once; a consumer that throws would be redelivered, but all saga consumers catch
every error and log it, so an error loses the message while the death of a
process repeats it. The subscriptions of the saga consumers use one topic per
message type and the message key is the outbox row's id: there is no order
between messages of one order. auth-service and the gateway meet in Redis: the
gateway accepts an access token while `session:{id}` exists. notification-service
hears of everything through the same outbox. catalog-service shares no state
with the others.

## Modules

| Module | Models | Variables and code |
|---|---|---|
| `OrderService` | apps/order-service | `status`, `placedBy`: `orders`; `saga`, `expired`: `saga_states` (`step`, `status`, `timeoutAt` passed or not); `events`: every row ever written to the outbox; `request`, `delivery`, `sweep`: what handlers in progress have read. `CreateLookup`/`CreateCommit`/`CreateConflict`: `createOrder`; `CancelLookup`/`CancelCommit`: `cancelOrder`; `Receive` and `On...`: the consumer and `OrderSagaService`; `SweepFind`, `SweepRead`, `CompensateTimedOut`: `checkTimeouts` |
| `OrderLifecycle` | abstract: what order-service promises about an order: it is confirmed and settled while its saga runs, cancelled while it is PENDING or CONFIRMED, and after that changed only by who had read it before | implemented by `OrderService`; `late` and `lateCancel` are the orders that have a stale reader |
| `Inventory` | apps/inventory-service | `row`, `lock`, `draft`: committed and uncommitted version of each `inventory` row and who holds its lock; `reserves`, `releases`, `booked`: `stock_ledger`; `work`, `edit`: handlers in progress. One action per item of `reserve` and `release`, since each item takes a lock |
| `Payment` | apps/payment-service | `payment`, `lock`: `payments` and the uncommitted insert; `charges`, `refunds`: what the provider has done, rolled back or not |
| `OutboxRelay` | the outbox table and all relays | `outbox`: each row's state; `run`: rows a run of `relay` holds; `tentative`: rows marked in a transaction that was left open |
| `ReliableDelivery` | abstract: what services count on from the outbox | implemented by `OutboxRelay` |
| `Saganet` | the three services composed over one outbox | instances of `OrderService`, `Inventory`, `Payment` |
| `Sessions` | auth-service `auth.service.ts` (login to logoutAll), the gateway's guard | `status`, `token`: a row of `user_sessions`; `key`, `listed`: Redis; `cookie`, `jwt`: what clients hold; `work`: the command each handler sends next |
| `Accounts` | auth-service `auth.service.ts`, `profile.service.ts`, the seed | `row`: a row of `users`; `work`: entities and tokens requests hold; `links`: mailed links |
| `Addresses` | auth-service `address.service.ts` | `row`, `work`: one action per statement |
| `RateLimits` | `rate-limiter.service.ts` and the gateway's guard | `count`, `ttl`: Redis; `work`: counters a request has yet to bump and to give an expiry |
| `Products` | catalog-service `product.service.ts`, changes and cache, and what `image-upload.service.ts` does to the public page | `row`: status, content, deletion; `pictures`: the product's rows of `product_images`; `cache`: the page, of a content and pictures; `work`: the entity a request holds, with the pictures read with it, and, in the middle of `save()`, the columns and pictures it found |
| `ProductListing` | `findAll` and a client that walks through it | `time`, `listed`: the products; `walk`: next page or cursor, and the ids selected by the first statement of a page |
| `ProductImages` | `image-upload.service.ts` | `object`: the storage by key; `rows`; `now` |
| `Categories` | `category.service.ts` | `row`, `work`, as in `Products` |
| `Notifications` | notification-service and `KafkaConsumer` of packages/kafka | `next`, `committed`: position and offset; `waiting`, `stalled`, `active`: the queue; `mails` |
| `MCInventory`, `MCSaganet` | instances for TLC: items of orders, deltas | |
| `MCParts`, `MCCatalog` | several small components in one run | a behaviour runs the part chosen in its initial state, the others rest |
| `...Proofs` | theorems for TLAPS, of the module they are named after; those of the small parts and of catalog-service are in `PartsProofs` and `CatalogProofs` | |

Definitions whose comment begins with "Wrong:" are not part of a specification.
Each is a plausible bug in the definition below it, which some property must
detect; PROJECT.json pairs them.

Many modules keep *history* variables, named so where they are declared, which
no guard reads. They record what happened (the versions an administrator let
through, the sessions a command left in Redis), so that a property can say
exactly when the code keeps a promise, and name each exception instead of
dropping the promise.

### Decisions of the model

- **Steps.** A JavaScript handler can be interleaved at each await. A step of
  the model ends where another process can see or change something: at an
  unlocked read whose result is used later, at a lock that must be waited for,
  at COMMIT, at a Redis command, at a call of another system. A transaction whose
  updates are visible at COMMIT only and wait for nobody is one step.
- **Partitions.** Messages are keyed by their outbox row: duplicates of one
  message are in one partition and in order, different messages are not.
  `Inventory` can tell the two apart (`Rebalances`); `OrderService` and `Payment`
  allow any overlap, and their properties hold under it. `Notifications` has one
  partition, since every property of it names one event.
- **READ COMMITTED.** An unlocked read returns the committed row. `UPDATE` and
  `SELECT ... FOR UPDATE` wait for the row's lock and then see the new row.
- **`save()`.** TypeORM's `save(entity)` reads the row again, compares it column
  by column with the entity, and writes those that differ, or inserts the entity
  if the row has gone. Reading and writing are two steps. The read of `save()`
  finds rows that were deleted softly. Where a handler calls `update()`, it writes
  the columns it names. The pictures of a product are saved with the entity they
  were loaded with: those that have gone are inserted again, and those the entity
  does not know would lose their product, which the column forbids, so the save
  fails.
- **Messages.** `events` never shrinks. A consumer may take any message of its
  topics at any time and again: that is what duplicated sends, rebalances and
  unordered topics amount to. `OutboxRelay` looks behind this abstraction.
- **Failures.** A handler may fail between its read and its COMMIT, or die at any
  step; a transaction under way is rolled back, Redis commands stay done.
  `MaxAborts`, `MaxFailures`, `MaxCrashes`, `MaxErrors`, `MaxLosses` and
  `MaxRejections` bound how often. The commit of a Kafka offset may be rejected
  while the process lives on, whether or not the broker has stored it; the message
  is read again. A process that dies is a handler that fails and a message that is
  delivered again.
- **Leaked transactions.** The saga handlers return from inside `try` when the
  saga is not RUNNING: the pooled connection is released with its transaction
  open. Statements outside a transaction that later run on it are not committed
  until another transaction on that connection ends. In order-service these are
  the relay's updates of `sentAt` (`MarkInLeak`, `LeakCommits`,
  `LeakRollsBack` in `OutboxRelay`).
- **Two statements per page.** `findAll` joins the pictures and uses `take`, for
  which TypeORM selects the ids of a page first and the rows after that, with
  all conditions again. A product withdrawn between the two is missing from the
  page, which then looks like the last one.
- **Time.** PostgreSQL's `createdAt` has microseconds and a JavaScript `Date`
  has milliseconds (`MicrosPerMilli`): a cursor is truncated. Process and
  database are assumed to agree on the time zone. `timeoutAt` is a flag that
  rises at any time after the order was created. Keys of Redis, tokens and
  sessions may expire at any time, except in `RateLimits`, which counts ticks.
- **Abstracted data.** Addresses, card details, reasons and profile fields do not
  influence control. A product's content is a version number, a picture the
  upload it came from (its two rows are one picture in `Products`), a refresh token, its hash and the cookie are one value.
  An order's items are a constant (`Items`).
- **Orders without items.** `CreateOrderDto` asks for an array and not for a
  length: an order may be empty. Its reservation succeeds, leaves no ledger rows
  and holds nothing, and every duplicate of the command is answered again.
  `OutcomeIsBacked` speaks of held stock for orders that have items.
- **SagaStep.** Two of the steps in the enum (`INVENTORY_RESERVE_SENT`,
  `PAYMENT_COMPLETED`) are never written, and `INVENTORY_RESERVED` is
  overwritten in the transaction that writes it.

## What the runs check

### The saga

| Run | Question | Bounds |
|---|---|---|
| `OrderRaces` | Do commands follow causality, does the service implement `OrderLifecycle`, and does every saga settle, whether or not anybody answers? | 1 order, 2 consumers, 1 sweep, 2 requests, 1 failure, webhooks |
| `InventoryStock` | Do rows, ledger and reservations add up, and does every command end in spite of circular waits? | 2 orders of the same 2 products in opposite orders, 2 workers, 2 administrators, stock up to 2, 1 failure |
| `InventoryRestock` | When an existing product's stock is set, when exactly is a unit that an order holds for sale again? | 1 product, an order that names it twice and one that wants one unit, stock up to 2, 1 failure |
| `PaymentConsumers` | Is a customer charged once, do row and answer tell the truth, and is every charge command answered? | 2 orders, 2 workers, 1 failure, a simulated answer for one order |
| `SagaTogether` | Is what order-service shows covered by stock and money, do orders follow their lifecycle one at a time, and do the participants keep to what `OrderService` assumes of them? | 2 orders, 2 products, stock 0 or 1 of each, a sweep, a request, payments accepted or declined |
| `SagaAllOrNothing` | Does an order end paid and reserved, or neither? | 1 order, no timeouts |

*OrderRaces.* One order is enough for the races: every handler, and each of the
properties, names one order only, and two orders share nothing but a sweep's
batch and idempotency keys. Two consumers and a sweep give all pairs and triples
of handlers that hold a stale read at a time. `ImplementsLifecycle` says which
transitions an order may make: one that is past its end is changed only by a
handler, a sweep or a cancellation that had read it before, and such readers never
become more. That a step changes one order at a time says something with two of
them: `FollowsLifecycle` checks the lifecycle in `SagaTogether`, whose sweep may
fail both, and `Refinement` proves it for any number. That order, saga and
announcement agree is part of the refinement; the proofs state it by itself
(`StatusAgrees`, `OutcomesAreAnnounced`), remove the bounds, and prove what takes
two orders: that an idempotency key belongs to one of them (`KeysAreUnique`). Why
an order failed (`FailureHasCause`) is proved only.

*Inventory.* A worker is a consumer; kafkajs runs one handler at a time per
consumer, and two workers stand for two replicas. The duplicates of a command
share its partition, so one worker executes them one after the other; only
around a rebalance (`Rebalances`) do two execute one command at a time. The
exact accounting of `InventoryStock` needs `Rebalances = FALSE` (the ledger is
consulted outside the transaction, and two executions may both find nothing)
and `Restock = FALSE` (an upsert of an existing product records its total as a
delta, and clamps `available` at zero). `MaxQuantity` and `MaxLedger` bound what
administrators add; two units are enough for a reservation that fails on its
second item, one that succeeds, and one left over. `InventoryRestock` has such
upserts. `NeverOversold` says of every step that, if what is for sale and what the
orders hold fitted the quantity before, it does after, unless the step is an
upsert whose row changed since it read it, or one that sets less than is held:
columns alone do not show it, since a unit that is sold twice leaves all of them
nonnegative.

*PaymentConsumers.* Two workers may execute one command at a time here, as
around a rebalance: it is the unique `orderId` that keeps the second from the
provider.

*Saganet.* `SagaTogether` checks, as a refinement, that the composition is a
behaviour of `OrderService`: so the properties proved of that module, whose
environment is two actions that answer anything, hold of the system.
`SagaAllOrNothing` has one order because with two it does not hold: a refused
reservation that is delivered again finds the stock another order has given
back, and is granted before order-service has read the refusal.

### Accounts and sessions

| Run | Question | Bounds |
|---|---|---|
| `SessionRaces` | Is an honest client never taken for a thief, which revoked sessions stay in Redis, does logoutAll end them all, is revocation final, and does the gateway shut revoked sessions out in the end? | 1 session, 2 requests at a time, 2 user agents, 5 tokens, 1 death |
| `AccountRaces` | Does the password set last count, are failures counted, does a verified address stay verified? | 1 account, 2 requests at a time, 2 failures to the lock, 2 links, 2 resets |

One session is enough since each property names one and a family is one row;
what `logoutAll` does is the same for each session it finds, and the proofs are
for any number. Five tokens are enough for two overlapping refreshes and a
replay of each. Two requests at a time give every pair of a stale reader and a
writer; each property's exception arises from such a pair.

### Catalog

`Catalog` runs one of four parts.

| Part | Question | Bounds |
|---|---|---|
| product | Are an active product's content and pictures approved, is the cached page the one the database holds, does a deleted product come back? | 2 requests at a time, 2 versions of the content, 1 picture uploaded |
| listing | Is a product shown twice, is one missed? | 3 products, two of one price, created in two milliseconds, pages of one |
| pictures | Does each row show its picture, in a place of its own? | 3 uploads, 2 milliseconds |
| categories | Does a request change what it names only? | 2 categories, 2 administrators, 2 slugs |

Requests are symmetric in the first part and in the last (`Symmetry`); no liveness
is checked here. The parts do not meet: `Products` has pictures of its own, without places and objects,
and `ProductImages` says nothing of status and page. One picture is enough for an
upload before, between and after the halves of any other request.

`CacheIsCurrent` compares the cached page, content and pictures, with the page the
database gives. What it excuses is recorded when it happens, not when it shows: a
fill whose page changed after it was read (`outdated`), a deletion of the copy that
was lost, and the pictures added since the copy was stored (`missed`), since
an upload does not delete it. A fill that was not overtaken must be right.

Three products and pages of one give a walk with a page before, between and after
any change, and a cursor that points into a millisecond that two of them share.

### Small parts

`SmallParts` runs one of five parts: two kinds of rate limit are instances of one
module.

| Part | Question | Bounds |
|---|---|---|
| relay | Do only committed messages travel, is `sentAt` a receipt, is every message the broker does not refuse published, and does the backlog drain? | 3 rows, 2 runs, batch of 2, 1 refused row, 1 failure |
| login, gateway | Does who is over a limit get in again? | 2 requests at a time, limits of 1 and 2, a window of 2 ticks, 1 death |
| address book | By how much can the limit be overrun, and can two addresses be the default? | 2 requests at a time, limit 2, 4 addresses |
| mail | Is every event of auth-service that is subscribed to mailed, and how often at most is a message? | 3 events, 2 of them of an order, 2 deaths, 1 refusal, 1 rejected commit |

Three rows and a batch of two are the smallest instance with a backlog that
exceeds the batch, a refused row that takes a place in it, and a row that
becomes visible after a younger one was sent. Two deaths and a rejected commit
reach a mail that is repeated by each of its causes. A message is repeated; an
event that its relay sends twice is two messages, and mailed for each.

Deadlock is not checked where a system may stop: clients need not send
anything, and every bound on failures, edits or events ends in a state of rest.

## Disagreements

Two runs each violate one property, which states what the quoted line says.

| Run | What the code does |
|---|---|
| `OrderCancelled` | cancelling does not stop the saga: the order is charged and becomes COMPLETED (docs/order-saga-flow.md:9-13,41-44) |
| `ProductPictures` | "Any edit requires re-approval" (product.service.ts:188), but a picture that a vendor uploads to an ACTIVE product is public at once, or when the cached page expires, which the upload does not delete |

More properties are stated in their modules and do not hold. No run stands for
them; TLC finds a counterexample in the instance named.

| Property | What the code does |
|---|---|
| `OrderService`, `OneOutcome` | a timeout and a reply that have both found the saga RUNNING both settle it: order.completed and order.failed are both sent, though docs/order-saga-flow.md:38-45 has the timeout start from PENDING or CONFIRMED alone (one order, one consumer, one sweep) |
| `OrderService`, `CompletedIsNotCancelled` | an order that completes while it is being cancelled ends CANCELLED, past the check that answers "Cannot cancel order in status" (order.service.ts:136-138; one order, one consumer, one request) |
| `Inventory`, `AvailableIsComputed` with `Restock = TRUE` | an upsert writes columns it read before a reservation: `available` is no longer "quantity - reserved" (inventory.entity.ts:18), and a reserved unit is for sale again with every column nonnegative; todos/inventory-service.todo.md:36 has locking as done (one product, one order of one unit, stock of 1 and 2) |
| `Notifications`, `OrderIsMailed` | the mails about orders and payments are addressed to `payload.userEmail`, which nobody sends: no such mail is ever sent, though todos/notification-service.todo.md:32 has it as done (one event, which is of an order) |
| `Notifications`, `RefusedIsRetried` | a mail that is refused once is never sent: jobs have one attempt (notification.service.ts:191) and nothing reads the failed ones, against "max 3 deneme, exponential backoff" and "Dead letter queue" (todos/notification-service.todo.md:26-27; two events, one refusal) |
| `Saganet`, `FailedIsNotCharged` | a payment that completes after the timeout is kept, the order failed; nothing compensates it, although todos/order-service.todo.md:27 has the compensation as done |
| `Payment`, `ProviderChargesOnce` | a death between the provider's answer and COMMIT charges twice: the row rolls back, and the provider in the repository does not recognise the order it is given again, as todos/payment-service.todo.md:38 has it |
| `OutboxRelay`, `OthersAreDelivered` | as many refused rows as a batch holds stop all delivery, which docs/auth-flow.md:123 and todos/pkg-kafka.todo.md:27,31 call guaranteed |
| `Sessions`, `RevokedIsRefused` | reuse detection leaves the Redis keys, and a refresh may write a deleted one back: the gateway accepts a revoked session until the access token expires, not "anlık" (todos/auth-service.todo.md:94) |

Smaller ones, which the properties admit as named exceptions or which the
hazards of PROJECT.json name at their lines:

- a concurrent duplicate of POST /orders gets an error instead of the order;
- `user.password-changed` (auth.service.ts:391) has no subscriber: nobody is told that
  his password was changed;
- the total of an upsert is recorded in the ledger as a delta;
- two executions of one refund both refund;
- two resets that hold one link at a time both set a password (`raced`), and a
  profile or avatar that was read before a reset and saved after it restores the
  old password, since `save()` compares all columns (`clobbered`);
- failures counted at the same time count once;
- the limiter calls itself a sliding window (rate-limiter.service.ts:11,
  docs/auth-flow.md:118) and is a fixed one, and its "atomic enough"
  (rate-limiter.service.ts:70) leaves a counter that never expires when EXPIRE
  is lost: on auth-service a success clears it for the address, nothing clears it
  for an IP (`lost`);
- a product that was deleted comes back when an administrator who had it open
  approves, rejects or suspends it;
- a walk by cursor ignores `sortBy` after the first page, so one that began by
  price guarantees nothing; it also misses products created in the millisecond of
  the last product of a page, and ends early after a page that shrank;
- categories can be their own ancestors, and children of a deleted category, or
  below the second level, are not in the list that calls itself a nested tree
  (category.controller.ts:19).

## Fairness

- `OrderService`: time passes (`Expire`), and `setInterval` starts sweeps that
  run to their end for as long as the process lives. Nothing is assumed of
  clients, participants or Kafka: `SagaSettles` must come from the timeout.
- `Inventory`: a worker that has begun goes on. Weak fairness for steps that
  wait for nobody; strong fairness for steps that wait for a row lock, because
  PostgreSQL queues the waiters of a lock; weak fairness for the deadlock
  detector, which is a timer.
- `Payment`: a handler goes on, the provider answers, and a charge that is not
  acknowledged is delivered again: strong fairness, because a consumer may take
  other messages in between.
- `OutboxRelay`: timers keep starting runs and each await of a run returns;
  a connection that was returned to the pool with an open transaction is used
  again.
- `Saganet`: messages are delivered and handlers go on, as above. No fairness
  of the timeout: `AllOrNothing` is about sagas that are answered.
- `Sessions`: a handler goes on until it answers, and access tokens expire. The
  keys of Redis need not: seven days are not what shuts a session out.
- `RateLimits`: a request is carried out, and keys with an expiry expire.
  Nothing is assumed of a counter without one: `BlockedRecovers` excepts it.
- `Notifications`: the process is started again, and while it is up consumer and
  worker go on. No commit has to be rejected. BullMQ moves the job of a dead worker back to the queue.

Failures are bounded, so fairness is never asked to outlast endless failures.

## Proofs

TLAPS checks every theorem for all values of the constants that satisfy the
module's `ConstantsAssumption`, which says no more than that bounds are
numbers, that null values differ from values, and, where something is counted or
summed, that the orders, products or requests in question are finitely many.
Each component has an inductive invariant, which the runs have checked before it
was proved, one lemma for each part of it and, below that, one step per action; a
temporal step at the end concludes. `MCParts` and `MCCatalog` put several
components into one run. For the address book, the mails, the listing, the
pictures and the categories it is proved that a behaviour of the run is one of
the component (`PartsBook`, `PartsMail`, `PartsListing`, `PartsImages`,
`PartsTree`), so that the theorem is about the property the run checks; the
theorems on products, the relay and the rate limits are about the component's
own specification, whose property the run checks.

- **OrderServiceProofs.** `IInv` is the conjunction of the safety invariants;
  they are inductive together, not alone. `StatusMatchesSaga` survives a late
  handler because a handler that holds a message implies the message was sent
  (`HandlersGrounded`); `OutcomeAnnounced` needs `StatusMatchesSaga` for orders
  that do not exist; `StepTellsCommands` needs `SagaCausality`. Steps are
  grouped by who acts, after a lemma that says which facts a step that only adds
  events leaves alone. `Refinement` maps every step to a step of
  `OrderLifecycle` or a stutter. The abstract machine settles and confirms what is
  `Open` and cancels what is `Cancellable`; the mapping makes `late` the settled
  orders whose saga a handler or a sweep has read as RUNNING, and `lateCancel` those
  past cancelling that a request has read in time, so the proof shows that these
  sets never grow by an order past its end: a handler that finds the saga settled
  cannot begin.
  `KeysAreUnique` adds that nothing but the commit of `createOrder` brings an
  order into existence: the lookup before it proves nothing, the index does.
- **InventoryProofs.** The invariants say what is committed; the induction
  needs what transactions in progress are about to commit. `IInv` adds: a
  locked row exists and its transaction is at work (`LocksAreHeld`); the draft
  of a row differs from the row by exactly the ledger rows pending
  (`DeltasPending`), so COMMIT adds the same number to both; an order that was
  reserved has rows for all its items (`RowsExist`), so the `UPDATE` of a
  release never misses; an upsert that holds a stale row holds one with a
  nonnegative `reserved` (`EditsKnow`). `NeverNegative` (no column is) is proved with upserts of
  existing products, `LedgerExplainsStock` and `StockAccounted` without, which is
  where they hold. `OnceInv` adds, for duplicates that do not overlap, that two
  workers are never at one command of an order (`OneExecution`) and that what the
  ledger showed when a command began is true until it ends (`LedgerFollowed`);
  `ReservedOnce` follows, and a release needs an answered reservation.
  `HeldInv` adds what `ReservedIsHeld` takes: the sum of what the orders hold of a
  product is `reserved` in its row (`HeldHasRows`), `available` follows in rows
  and drafts (`AvailableFollows`), and the ledger rows a transaction has pending
  are those of the items it has done (`ItemsPending`), so that at COMMIT the row
  and the one summand that changes move by the same number. A release is covered
  by the sum (`ReleaseIsCovered`), which is why `GREATEST(0, ...)` never hides a
  unit and `AvailableIsComputed` holds. The library gives no theorem about sums: a
  section of lemmas (`SumIsCardinality`, `SumSplit`, `SumChange`, `SumSubset`)
  derives what is needed from the cardinality of a disjoint union.
- **PaymentProofs.** `IInv` adds that the handlers between insert and COMMIT
  are exactly the holders of the lock of their order's row (`RowIsLocked`),
  and that an order without a row has been charged by failed handlers only,
  or by the one that holds the lock (`ChargesKnown`).
- **SaganetProofs.** Each service is an instance of its own module: `OrderPart`,
  `StockPart` and `MoneyPart` see the part of the common outbox that their topics
  make up. `SystemInv` is the conjunction of the services' own invariants, taken
  from their proof modules with the lemmas about their steps, and of what holds
  between them: a handler at work was asked (`AskedFor`), and without failing
  handlers money is taken for a charge that was asked for and not declined
  (`MoneyIsTaken`). A step of one service is shown to be a step of it in its own
  module, and to be a reply or nothing in the others'. `Refinement`: order-service
  hears nothing its module does not assume. `PaymentRefinement`: nor does
  payment-service, which is never asked for a refund. `Backed`: an order that
  shows as completed is paid for, once, and its stock is held, because the outbox is
  causal in order-service (`SagaCausality`) and the replies in it tell the truth
  about the tables of the other two (`RepliesAreBacked`). inventory-service
  starts with posted stock in the composition, so it is not its whole
  specification that is implemented: `StockSteps` shows its steps, `StockIsRight`
  that its invariant is true at the start and what follows for the system.
- **SessionsProofs.** `OneRefresh` is why `HonestIsNotReuse` holds: a session
  whose refreshes have not crossed has one at a time, which holds the token of
  the row, and of the client until it is rotated. `OnlyKnownLeaks` needs
  `DeletedStays`: what a `logoutAll` has deleted is not written again unnoticed.
  `RevocationIsFinal` needs `RowsKnown` only: a login takes a session that has no
  row, and every other write names `revokedAt` or rows that exist.
- **AccountsProofs.** A spent link is not in the row (`SpentGone`) and whoever
  still holds one held it together with another request (`SpentRaced`,
  `SharedRaced`), which needs links to be new when mailed (`TokensFresh`).
  `VerifiedForGood` rests on `SessionsVerified`: nobody has a profile to save
  before the address is verified, so no entity with an older value exists.
- **PartsProofs**, one part after the other.
  *Relay.* `IInv` adds that the row a run is about to mark has been published.
  `Refinement` shows the safety half of `ReliableDelivery`, which `SmallParts`
  checks with its liveness.
  *Rate limits.* `CountersExpire`: a counter without an expiry is one whose EXPIRE
  is about to be sent or was lost, in spite of a success that deletes the key, or
  a window that ends, between the two commands.
  *Address book.* `BoundedOverrun` is not inductive: a request that has passed the
  check inserts whatever has happened since. `FewProspects` counts the rows
  together with those the requests under way may still write. `SoleDefault` says
  that, unless requests have overlapped, one that is past its clear meets no
  other default.
  *Mails.* `FewJobs` adds up what has been sent of a message, what is queued, in
  hand or stalled, and what the consumer has yet to make of it; a death adds at
  most two, by the job it interrupts and the offset it loses, and a rejected commit
  at most one. It rests on `Position`: while the process runs, no offset behind the
  consumer's position is stored, so to join the group again repeats one message.
- **CatalogProofs**, one part after the other.
  *Products.* `EntitiesApproved`: who holds an ACTIVE entity has the right
  to save it. `ComparedStands`: unless writes crossed, the row a save writes to is
  the one it compared, so what is not written agrees, and the pictures it did not
  see were added while the product was ACTIVE. `FillsFresh`: a fill that no change
  of the page has overtaken is the page, which is why `CacheIsCurrent` need not
  excuse it. `OnlyHolders`: of a product
  that is gone only those have an entity who read it before.
  *Listing.* By cursor (`CursorInv`): what has been shown is not behind the cursor,
  so the next page cannot show it again; what has not is behind it, or is one of
  the exceptions. That rests on two facts about what a `Date` keeps
  of a time (`TruncatedIs`): it is not later, and the times it stands for are an
  interval. By offset (`OffsetInv`): the order is total, since TypeORM orders by the
  primary key last, so while the listing stays as it is a product's rank is its
  place, and a page holds exactly the ranks from its offset on (`PageByRank`).
  *Pictures.* An object carries the millisecond of its upload (`Stamped`), a row
  comes after its objects (`Stored`), and places are taken up to the number of
  rows (`Placed`): who has counted goes behind all rows but those of uploads it has
  overlapped, also when the product is deleted with its rows in between.
  *Categories.* `Current`: until another request writes the row, an entity differs
  from it in the columns asked for only.

Model-checked only:

- `NeverOversold`: with upserts of existing products the sums of the proofs of
  `ReservedIsHeld` do not hold, and those it needs are not proved yet;
- liveness (`SagaSettles`, `CommandsFinish`, `ChargeAnswered`, `BacklogDrains`,
  `RevokedIsShutOut`, `BlockedRecovers`, `UserIsMailed`, the fairness half of
  `ImplementsReliableDelivery`, `AllOrNothing`): out of the prover's reach.

Every other safety invariant and action property that a passing run checks has a
theorem. Of `ImplementsReliableDelivery` the safety half has one
(`ImplementsSafeDelivery`); of `AllOrNothing` what it says of completed orders
is part of `Backed`.

## Not modelled

- Events of catalog-service: sent after the row was saved, without an outbox,
  by a wrapper that swallows errors; no service consumes them. Its stock
  consumer logs what it receives, on a topic nobody writes.
- packages/redis (lock, sliding window, cache) and the producer helpers of
  packages/kafka (`sendWithRetry`, `sendToDLQ`): no service calls them. The
  consumer of packages/kafka is in `Notifications`.
- Tables without code: OAuth accounts, notifications.
- The gateway's proxy, queries, DTO mapping, metrics, logging, tracing, health
  checks, the web front end, deployment, migrations other than the constraints
  they create. The lists of vendors and administrators are pages by offset.
- Kafka below "at least once, in any order", except for the offsets of
  `Notifications`. The consumers subscribe with `fromBeginning: false`, so a
  message sent before a group first joins is lost; the saga's model starts when
  the groups exist, `Notifications` has the loss.
- What a release without a reservation does to stock. It needs a simulated
  webhook (`POST /payments/webhook/simulate`, administrators only) for a saga that
  has not reserved yet. `OrderService` admits the webhook; `Inventory` assumes
  that a release follows a reservation.
- In `ProductImages`, that a stale `save()` of the product may bring it back after a
  hard delete, with the pictures it had loaded: `Products` has that.
- Duplicate consumers and aborts in `Saganet`: they are checked in the services'
  own modules, and would multiply the states of the composition.
- `inventory.version`, which the code never increments.

## What is left

1. A proof of `NeverOversold`.
2. The safety halves of the liveness properties, where they say something by
   themselves: that a saga which has been answered can only end in the way
   `AllOrNothing` names.
3. `Saganet` with handlers that fail and duplicate consumers: the services'
   invariants hold with them, `MoneyIsTaken` does not and needs a weaker form.
