# TLA+ verification of the ticketing platform

Specifications of the platform's transactional core, TLC configurations that model-check them on small instances, and
proofs that TLAPS checks for every value of the constants.

- [Inventory](#inventory) – the parts of the system, their state, operations and hazards
- [Modules](#modules) – which module models which part, and how it corresponds to the code
- [Runs](#runs) – what TLC checks, on which instances, and why they are large enough
- [Fairness](#fairness)
- [Where the code and its comments disagree](#where-the-code-and-its-comments-disagree)
- [Proofs](#proofs)
- [What is not modelled](#what-is-not-modelled)
- [Plan](#plan)

Paths are relative to the repository; `repo` is
`services/ticket-service/internal/repository/mongo_ticket_repository.go`.

## Inventory

### The system

The platform sells tickets, by quantity (general admission) or by seat. A purchase crosses four services:

```
 client ── HTTP ──> order-service ── gRPC reserve / release / finalize ──> ticket-service   (quota)
                      │      ▲                                             venue-service    (seats)
             outbox → Kafka  │ Kafka
                      ▼      │
              payment-service  expiration-service            attendance-service (credentials, after the sale)
                 │      ▲
              Stripe  webhooks
```

1. order-service reserves with the inventory owner by gRPC, then inserts the order and an outbox event in one database
   transaction. No transaction spans the two.
2. A relay polls the outbox and publishes to Kafka, at least once. expiration-service schedules a timer for
   `orders.order.created`.
3. The buyer pays at payment-service, which calls Stripe and hears from it again by webhook; `payments.payment.*`
   events go through another outbox.
4. `payments.payment.captured` makes order-service finalize the reservation and complete the order. Cancellation,
   payment failure, the timer and a sweep end it otherwise; `orders.order.cancelled` makes the owner release.
5. A capture that cannot be honoured any more (cancelled order, refused finalize) becomes
   `orders.order.unfulfillable`, and payment-service pays the buyer back.

Every service runs in several replicas, so each handler, consumer, scheduled job and reconciler below races with
copies of itself.

### Components

| Component | State | Operations | Hard behaviour | Correct when |
|---|---|---|---|---|
| **ticket-service, quota inventory** (`repo`, `internal/cache/quota_manager.go`, `internal/reconciler`, `internal/grpc/server.go`) | MongoDB: ticket document with `reserved`, `sold`, version; a document per reservation. Redis: availability, per-user counter, leader lock | ReserveQuota, ReleaseReservation, FinalizeReservation, UpdateTicket, reconcile pass, sweep | two MongoDB writes without a transaction and a compensation; stale snapshots; a lock that expires under its holder | never oversold, no user over the limit, counters cover the documents, expired reservations end, cache converges |
| **ticket-service, catalogue and outbox** (`repo`, `internal/service/ticket_service.go`, `internal/outbox/relay.go`) | ticket document with its version and embedded outbox; claim tokens and leases | edit, claim, publish, acknowledge, requeue | an edit works on an old copy; leases that expire during a slow send; an event that fails is overtaken by later ones | nothing reserved is edited, no plan taken back, no event lost, repeats explained |
| **ticket-service, SWR cache and search** (`caching_ticket_repository.go`, `internal/cache/swr_cache.go`, `internal/search`) | Redis entry, its two expiries and refresh lock; search documents | read, refresh, invalidate; index, reindex | a load or a refresh that overtakes an invalidation; late, repeated and dead-lettered events | copies converge, the search document never goes back |
| ticket-service, Kafka consumer | offsets, DLQ | release and finalize on order events | redelivery, poison records | every record handled or dead-lettered |
| **order-service, orders** (`service/OrderService.java`, `kafka/*`, `scheduling/*`) | order rows with `@Version`, outbox rows | create, cancel, on-read expiry, payment-initiated / failed / captured, expiration-complete, expiry sweep | optimistic and pessimistic writers of one row; a remote call inside a transaction; bounded redelivery | one outcome per order; COMPLETE ⇒ sold; captured ⇒ completed or refunded; everything ends |
| **order-service and payment-service, outbox relays** (`outbox/*`, `outbox-relay.service.ts`) | outbox table, broker log | claim page, send, mark, stop, commit, purge | crash after send and before commit; timed-out sends delivered late; SKIP LOCKED | nothing lost, bounded duplicates, no event before one of its key that was committed first |
| order-service, ticket replica and read API | ticket snapshot table | upsert, queries | reordered ticket events | never goes back (it may, see below) |
| **payment-service, payments and refunds** (`payments.service.ts`, `refund-executor.service.ts`) | payments, refunds, outbox; Stripe's intent and idempotency store | charge, webhooks, refund request, unfulfillable consumer, refund executor | reply against webhook; lost replies; the provider is called inside a transaction | no invented capture or refund, no double pay-out, captures reported, refunds end |
| payment-service, orders consumer and order client | attempts, DLQ, circuit | consume, look up orders | bounded retries | events handled or dead-lettered |
| **venue-service, seat holds** (`internal/hold`, `repository/postgres/section_repo.go`, `internal/reconciler`) | PostgreSQL seat rows; Redis hash and TTL markers | hold, release hold, sweep, reseed | two stores, two clocks, rollback in one of them | a live hold is kept; Redis never blocks a free seat for ever |
| **venue-service, seat reservations** (`repository/postgres/reservation_repo.go`, `internal/grpc`) | reservation ledger and items | reserve, release, finalize, sweep, auto-assign | repeated and late calls; the limit counted over rows others are writing | no seat given twice, no release frees another's seat, limit kept |
| venue-service, plans and live map | venues, plans, sections; SSE versions | CRUD, deltas | version gaps | clients converge |
| **expiration-service** (`internal/kafka`, `internal/scheduler`, `internal/worker`) | delayed tasks (Redis), offsets | schedule, retry, dead-letter, fire, shut down | offset committed though nothing was written; a task id that stays taken | fires after the deadline; a record tried to the end has its task or is a dead letter |
| **attendance-service** (`internal/kafka/consumer.go`, `internal/service`, `internal/repository/postgres/credential_repo.go`) | credentials, outbox, transfers, scan audit | issue, relay, transfer, recall, accept, check in | redelivered orders on several consumers; two gates scan one credential; transfers race | no order skipped, one admission per unit, ended transfers stay ended |
| auth-service | refresh sessions, OAuth codes, sign-in counters | rotate, revoke, exchange | concurrent rotations of one token | a revoked session stays revoked |
| queue-service | Redis sorted sets, admission clock | enqueue, draw, admit, redeem | join at the instant of the draw | one position each, passes used once |
| user-service, mcp-service, web client, gateways, infrastructure | profiles / none | CRUD / forwarding | – | – |

`PROJECT.json` lists the hazards of each part with the line where they bite and the properties that cover them.
Components in bold are modelled, in full or in the part that keeps state.

## Modules

| Module | Models | Lines of TLA+ |
|---|---|---|
| `TicketQuota` | quota inventory of one ticket, with its Redis gate, reconcilers and sweep | 727 |
| `QuotaLedger` | abstract: a ledger of reservations whose claims stay within the quota | 48 |
| `Tally` | sums of bounded quantities as cardinalities, so that proofs need no recursion | 15 |
| `TicketDocument` | one ticket document: its version, its editable fields, its embedded outbox | 86 |
| `TicketCatalogue` | extends it: edits through the stale-while-revalidate cache | 240 |
| `TicketFeed` | extends it: the leased outbox, Kafka, the search index and the replica of order-service | 308 |
| `OrderSaga` | the life of orders, with the inventory owner, payments and clock around them | 671 |
| `PurchaseContract` | abstract: what the buyer is promised about an order and its money | 64 |
| `ExpirationTimer` | extends OrderSaga: the expiration-service, composed with the orders it ends | 262 |
| `OutboxRelay` | the relays and cleanup jobs of three outboxes, and the broker log | 250 |
| `PaymentFlow` | the payment of one order: charges, Stripe, webhooks, refunds | 489 |
| `SeatInventory` | the seats of one plan in PostgreSQL and Redis | 565 |
| `SeatLedger` | abstract: seats held by users, booked by reservations, sold or returned | 56 |
| `CredentialIssuance` | attendance-service: credentials for completed orders; instantiates OutboxRelay | 253 |
| `Admission` | extends it: transfers and check-ins | 283 |
| `MC…` | instances for TLC: model values and symmetry | |
| `…Proofs` | theorems of the module they are named after | |

Every module starts with a comment on its unit of atomicity. Operators whose name ends in `Mutant` are plausible bugs;
no specification uses them. Each is there to show that a property fails when the code is changed that way.

### TicketQuota

A step is one round trip to MongoDB or Redis. `job[h].pc` says what a handler does next and follows the order of calls
in `grpc/server.go` and `repo`:

| Model | Code |
|---|---|
| `ReserveQuota` → `GateAbsent`, `GateRefuses`, `GateGrants` | gRPC handler, Lua script of `quota_manager.go` |
| `Check`, `Limit`, `Increment`, `Insert`, `Undo`, `Ungate` | `CreateReservation`: duplicate lookup, per-user sum, conditional `$inc`, insert, compensating `$inc`, then the Redis release of the handler |
| `Release`, `Decrement`, `Restore` | `ReleaseReservation`: status write, counter write, Redis |
| `Finalize`, `Move`, `Clear` | `FinalizeReservation` |
| `UpdateTicket`, `CommitUpdate`, `UpdateConflict` | optimistic edit that may attach a seating plan |
| `AcquireLeader`, `SweepExpired`, `SweepNext`, `ListTicket`, `Compare`, `Reseed`, `EndPass` | one reconciler pass |
| `LeaderKeyExpires` | the lock's TTL: the holder is not told |
| faults `crash`, `mongo`, `lostAck`, `redis`, `redisLoss`, `seed` | a process dies between two calls (a cancelled context behaves the same); a MongoDB call fails without effect; it is applied but reported as failed; a Redis call fails or its reply is lost; Redis loses its data; the availability key is absent at the start |

A stale cached read of the ticket equals an earlier MongoDB read, which a slow handler can already have; so there is no
cache here (TicketCatalogue has it). Redelivered records are covered because any handler may release or finalize any reservation at any time, again
and again. `UpdateTicket` changes neither quota nor limit in a way that the inventory reads back, so they are constants.
Rejections that change no state (seated, malformed, unknown ticket) are left out.

### OrderSaga

An order stands for one reservation id. `status`, `reason` and `events` are the row and the outbox rows written with it;
`fresh` is the set of workers whose copy of the row has the current `@Version`; `lock` is the row lock of
`markComplete`. Cancel, payment-failed and payment-initiated read the row (`ReadRow`) and write it in a later step if
the version still matches (`CommitCancel`, `CommitPaymentFailed`, `CommitAwaiting`, else `WriteConflict`). `LockRow`,
`Finalize`, `Complete`, `Refuse` are `markComplete`, which calls the owner between the lock and the commit. Expiry by
event, on read and by sweep are single transactions under the lock (`OnExpirationComplete`, `GetOrderExpires`,
`Sweep`). Events are counted and never removed, so a consumer may meet each of them late, out of order and repeatedly.

The environment is the inventory owner (`ReserveWrite`, `FinalizeWrite`, `ReleaseCancelled`, `ReclaimExpired`), the
payment-service (`Charge`, `Capture`, `Decline`, `Refund`) and a clock (`Tick`). A payment has one outcome, and a refund
that is owed happens; PaymentFlow shows where that assumption breaks. Time passes between transactions only, not
between a reservation and its insert, and ages saturate at `MaxAge`, past the last comparison the code makes.

Left out because they change no state: replays with their fingerprint check, and the completed-event consumer, whose
finalize meets a reservation that is already SOLD. Also left out: orders from before reservations existed, and the mock
payment mode.

`Contract == INSTANCE PurchaseContract WITH outcome <- Outcome, money <- Money` is the refinement mapping.

### ExpirationTimer

OrderSaga lets the expiration event come at any time after the deadline, or never. Here it comes from the timer: the
consumer's record (`record`, `tries`), the dead letters, the asynq task under the order's id, and the event that has
been published (`fired`). `ScheduleExpiration`, `ScheduleFails`, `PublishToDLQ`, `PublishToDLQFails`, `Shutdown` and
`Unreadable` are `processMessage` and the commit after it; `ProcessTask`, `ProcessTaskFails`, `Retry` the worker;
`ExpirationArrives` is `expireOrder`. Every other step of the orders is OrderSaga's own. Redis keeps a task id while
the task waits, has run or is archived, so a repeated schedule is a no-op. Clock skew between the services and the 24
hours after which Redis forgets a finished task are left out.

A shutdown is one mishap. It cancels the context the handler enqueues with (`cmd/server/main.go:96-104`), so even the
first try of a record just read may fail with it, the wait for the second returns at once (`consumer.go:135-138`), and
the offset is committed (`:99`): `record` is then "dropped", as it is after an event that cannot be unmarshalled
(`:112-122`). A record that was tried to the end, whatever came of it, is "passed".

### TicketDocument, TicketCatalogue, TicketFeed

A document is its version, title, plan and reserved count; the embedded outbox keeps one event per edit, known by the
version it was written with. Edits match on the version; reservations increment it and write no event.

TicketCatalogue puts the cache between edits and document: `Hit`, `Miss`, `Load`, `Answer` are `FindByID` with its
coalesced load per pod; `TryLock`, `RefreshRead`, `RefreshWrite`, `Unlock` the refresh of a stale entry, with a lock
that expires; `SoftExpires` and `HardExpires` the two ages; `Edit` is `UpdateTicket` on whatever copy was found, and
`Invalidate` what the caching repository does after the write. A failed call leaves the entry or the lock to its expiry.

TicketFeed follows the events: `Claim` (a batch, event by event, among what is due and unclaimed or claimed under a
lease that ran out), `Publish`, `Acknowledge`, `Requeue` are `processBatch`; `LeaseExpires` while the claim's relay is
still at work is counted as a fault (a Kafka slower than the lease). Creations and edits are different topics, each in
order. A behaviour has one consumer: the indexer, whose upsert is guarded by the version, next to the reindex command;
or order-service's replica, which overwrites.

### CredentialIssuance and Admission

A consumer reads the messages of one partition (`Fetch`), looks up and inserts each unit (`LookUp`, `Create`,
`CreateDuplicate`), dead-letters what fails for good, and commits its position. Committing a later offset passes every
message before it, so `committed` and `position` are separate, and a restart or a rebalance goes back to `committed`. The
relay of the outbox is an instance of OutboxRelay in which every credential is a row with a key of its own, so none is
`ahead` of another.

At the doors, each call reads in one step and writes in a later one: `AskTransfer`/`CreateTransfer`,
`AskRecall`/`RecallTransfer`, `AskAccept`/`AcceptTransfer`, and `CheckIn` or `CheckInByBuyer`, then `ConsumeIssued`,
`Record` and `Answer`. The doors open when issuance has finished: issuance only inserts rows and the doors insert none,
so the two phases meet in the rows alone, and the product of both would say no more. `admissions` is a history variable: whom
the scanner let in.

### OutboxRelay

A row is its place in `created_at` order (ties, which rows of one transaction may have, are broken in either order by
the numbering). Rows become visible in any order (`Write`): `created_at` is the begin of the transaction in
payment-service (`schema.ts:124`) and the insert in order-service (`OutboxMessage.java:51-54`), not the commit, and not
every transaction locks the entity of its key. `ahead` is a history variable: the earlier rows of its key that were committed
when a row was. `Claim` takes a page with FOR UPDATE SKIP LOCKED; `Publish` sends the next row
and marks it in memory; `Commit` ends the transaction; `StopAt` is the stop at the first failure; `SendTimesOut` leaves
a record that the producer may still deliver (`LateAccept`) or not (`Drop`). `Rollback` and `Crash` lose the marks.
`Purge` is the cleanup job. One module stands for the relays of order-service,
payment-service and attendance-service: they follow the same protocol. `running` is the set of replicas deployed, any
nonempty set, so that one run covers both the order of a single replica and the overlap of two.

### PaymentFlow

The row of one order's payment, its refunds, the Stripe intent with the idempotency store, and each handler between its
reads and writes. `ChargeNew`, `ChargePending`, `CreateRow`, `Initiate`, `CallStripe`, `Resolve…` are `charge`;
`WebhookReads`, `WebhookSucceeded`, `WebhookFailed` the webhook; `UnfulfillableReads`, `RequestRefund`, `Enqueue` the
two ways to ask for a refund; `Execute`, `ExecuteCommit`, `ExecuteFails`, `ExecuteLost`, `GiveUp` the executor, whose
provider call happens inside the transaction. Stripe and the refund provider are external and are modelled by what the
code relies on: one reply per idempotency key, and at most one pay-out per refund id. A database failure inside a call
behaves as a crash of its handler. Payments share only the executor's batch, so one is enough. The back-off time of a
refund is abstracted to "later".

### SeatInventory

PostgreSQL is the truth and Redis an advisory gate. A transaction that takes seats locks its buyer (advisory lock) and
its seat rows in one step and writes in a later one, so every overlap of two transactions occurs; everything else is
one statement or script. `RedisHold`, `HoldDb`, `HoldWrite`, `Rollback` are `HoldSeats`; `RedisUnhold`, `UnholdDb` are
`ReleaseHold`; `AtomicReserve`, `ReserveWrite`, `MarkReserved` are `ReserveHeldSeats` and its copy to Redis (automatic
assignment is the same call for seats it has picked); `ReleaseWrite`, `FreeInRedis`, `FinalizeWrite`, `SellInRedis` end
a reservation. The two clocks are independent: `HoldLapses` and `ReservationLapses` are PostgreSQL's, `MarkerExpires`
is Redis's. `SweepExpiredHolds`, `SweepExpiredReservations` and the `Reconcile…` steps are the background jobs.

Left out: the advisory set of a user's holds, `GetAvailability` and the versions of the live map (read-only), blocked
seats, and the older `ReserveSeats`, `ReleaseReservedSeats` and `SellSeats`, which nothing calls.
`Ledger == INSTANCE SeatLedger WITH holder <- heldBy, booking <- Booking` is the refinement mapping.

## Runs

| Run | Instance | Distinct states | Properties |
|---|---|---|---|
| `quota_safety` | 2 handlers, 2 reservations of one user of ≤ 2 units, quota 3, limit 2, 1 fault | 684 k | `CountersCover`, `NoOversell`, `PerUserCap`, `LedgerSpec` |
| `recovery` | 1 handler, 2 reconcilers, 1 reservation, 1 fault | 370 k | `ExpiredEnds`, `CacheConverges` |
| `lost_insert` | 1 handler, 2 reservations, 1 lost reply | – | `NoOversell` is violated |
| `catalogue` | 2 requests, 2 pods, 3 versions, quota 1 | 887 k | `CopiesAreTrue`, `EditsUnreserved`, `PlanStays`, `CacheCatchesUp` |
| `feed` | 2 relays, 3 versions, batches of 2, 1 fault | 687 k | `RepeatsExplained`, `SearchForward`, `SearchCatchesUp` |
| `orders` | 2 workers, an order with or without key, 2 of 7 kinds of faults, 4 deliveries | 75 k | `OneOutcome`, `SaleStands`, `ReservationKept`, `ContractSpec`, `CaptureSettled`, `OrderEnds`, `ReservationEnds` |
| `timers` | 1 worker, 1 order, 1 fault of order-service, 2 tries of the consumer, 1 retry of the task, 3 mishaps | 622 k | `KeepsSaga`, `TimerKept`, `TimerEnds` |
| `relay` | 1 or 2 replicas, 3 rows of 2 keys, pages of 2, 2 faults | 136 k | `NeverLost`, `DuplicatesBounded`, `KeyOrdered`, `EventuallySent` |
| `payment_safety` | 2 handlers, 2 charges, 2 refunds of 2 attempts, 3 faults | 79 k | `MoneyHonest`, `ReturnedOnce`, `UnreportedWasFailed`, `RefundEnds` |
| `seat_races` | 1 seat, 2 users, 2 reservations, 2 handlers, 1 fault | 344 k | `SeatsMatchLedger`, `HoldKept` |
| `seat_offered` | 1 seat, 1 user, 2 handlers, 1 reconciler, 1 fault | 185 k | `SoldMarkIsSold`, `FreeSeatOffered` |
| `admission` | 2 consumers, 1 relay, an order of 2 units behind a malformed one, 2 gates, 1 transfer, 2 of 9 kinds of faults | 847 k | `NothingSkipped`, `UnitAdmitsOne`, `UsedIsAdmitted`, `TransferFinal`, `OrdersHonoured` |

No run repeats the type invariants: each is part of an inductive invariant proved for every instance, except
`TimedTypeOK`, which TLC has checked on the instance of `timers`.

Why the bounds are enough to meet the interesting cases:

- **Two actors.** Every race in the code is about one document or row with a read and a later write, which takes two
  actors. In `orders` the sweep, the owner and the clock act next to the two workers.
- **Quota 3, quantities 1 and 2, limit 2.** Two requests may both fit, exclude each other by quota or by limit, or fit
  only after a release; the increment's off-by-one shows at `Quota + 1`.
- **Faults are counted, over all kinds.** One fault is enough for each single partial failure. Two in the order saga
  let a crash meet a failed compensation, and in `admission` a refused dead letter meet a restart; three in the payment
  flow let lost replies use up a refund's attempts and one more. `MaxFaults` less than `MaxAttempts` in `orders` is the
  assumption that an outage does not outlast the redeliveries. A mishap in `timers` is a failed call, a
  shutdown, an unreadable event or a repeat around the expiration-service; three let both tries and the dead letter fail
  and are one more than the tries. One of three kinds of faults of order-service may join them; the rest are left to
  `orders`.
- **Three versions of a ticket.** The least that lets an edit or an event be older than one and newer than another.
- **Pages and batches smaller than the table.** A page boundary falls between rows of one key, and a stop inside a page
  leaves rows behind.
- **A malformed message before a good one.** The commit of the second passes the first.
- **Runs are split where the product is too large.** Two seats together with two users exceed 8 million states, so the
  limit of a buyer over several seats is left to the theorem, which holds for any number of both.
- **Symmetry** permutes handlers, reservations of one user and seats, and is used only in runs without liveness
  properties.
- Deadlock is checked for the inventories and the catalogue, where a request is always possible. It is off for the
  others: they stop when every order, row, payment, event or unit has settled.

## Fairness

- **TicketQuota** `Fairness`: a process with a call in flight goes on (goroutines are scheduled; a crash is a fault,
  not an unfair schedule); the leader key has a TTL; some replica's ticker fires while no one is leader. Nobody owes a
  request.
- **OrderSaga** `Fairness`: workers finish what they began; an event that is due is delivered (Kafka redelivers until
  the offset is committed); the sweep runs (`@Scheduled`); the owner releases for `orders.order.cancelled` and reclaims
  what expires; an owed refund is paid; time passes. Buyers, the bank and the expiration-service owe nothing:
  `OrderEnds` rests on the sweep alone.
- **OutboxRelay** `FairSpec`: every replica polls (`@Scheduled`, `setInterval`), and a timed-out send is delivered or
  dropped.
- **PaymentFlow** `FairSpec`: weak fairness of handlers and executor; strong fairness of webhook and event delivery,
  because Stripe and Kafka keep retrying though a handler is not free all the time.
- **SeatInventory** `FairSpec`: handlers finish, clocks advance, both sweeps tick. Neither the reconciler nor the users
  owe anything.
- **TicketCatalogue** `Fairness`: a load and a refresh come back, with the document or with an error, and an entry has a
  TTL. The refresh lock, the requests and the soft expiry owe nothing.
- **TicketFeed** `Fairness`: each relay's ticker fires, leases and back-offs run out, consumers read their topics.
- **Admission** `FairSpec`: before the doors open, consumers read and the relay polls. Nobody owes a transfer or a scan.
- **ExpirationTimer** `TimedFairSpec`: workers finish, time passes, and relay, consumer and asynq's worker go on. The
  sweep of order-service owes nothing, so that `TimerEnds` rests on the timer alone, as `OrderEnds` on the sweep alone.

## Where the code and its comments disagree

### A lost reply oversells (run `lost_insert`)

`repo:946-949` says that the reservation insert "is best-effort — if it fails the ticket counter is compensated via a
follow-up decrement", and that over-reservation is prevented at the document level. An error of `InsertOne` (`repo:1067`)
does not mean that nothing was inserted. TLC shows the insert applied, its reply lost, the decrement taking the units
off the counter, and a second reservation taking them again while the first document is live. This is why the
theorems about counters and ledger assume `"lostAck" \notin Faults`, and why `quota_safety` leaves that fault out; `recovery`
keeps it in. `OversellIsBounded` says how far it goes, with every fault allowed: each failure oversells by the units of
one call at most (`Quota + MaxQty * faultCount`).

### Further statements that do not hold

Those named are defined in the modules, TLC refutes each on the instance given, and no run lists them. The others can be
read off the actions.

| Statement | Said by | Instance and scenario |
|---|---|---|
| `RetryAccepted` (TicketQuota) | "reservationId is already used (idempotent: same params → OK)", `grpc/server.go:118` | 1 handler, no fault: a repeated call with its own reservation counted against it is refused at the Redis gate, before the duplicate lookup |
| `CounterReconciled` (TicketQuota) | "until reconciled", `repo:1075-1076` | a failed MongoDB call: no reconciler recomputes `reserved`. The drift undersells, never oversells (`CountersCover`) |
| `UserKeysReconciled` (TicketQuota) | "Reconciliation workers correct drift on restart", `quota_manager.go:17` | a crash: the reconciler rewrites the availability key only, the per-user key stays inflated |
| `PerUserCap` after a fault (TicketQuota) | `repo:953` | the availability key is absent, the gate lets two calls through, both read the sum before either inserts. The property as stated excludes faults |
| `SeatedNotReserved` (TicketQuota) | "seated tickets must not be reserved via the GA quota path", `grpc/server.go:156` | 2 handlers, no fault: a seating plan is attached between the check and the increment |
| `FinalizedNotCancelled`, part of `SaleStands`, with a crash inside `markComplete` (OrderSaga) | `OrderService.java:591-592`; known gap in `docs/16-session-progress-log.md:111-113` | SOLD survives the rollback, and an expiry before the redelivery cancels the order; the capture is then refunded. The property as stated excludes faults: races alone cannot do it |
| `ReservationOutlivesOrder`, part of `ReservationKept`, with a key and a failed transaction (OrderSaga) | `OrderService.java:97-101` | a late retry gets the old reservation with its old expiry and a new order with a new one |
| `CaptureSettled` with as many failures as deliveries (OrderSaga) | `OrderService.java:587-588`, `KafkaConfig.java:73-76` | finalize fails `MaxAttempts` times, the capture is parked in the dead letter topic: neither completed nor refunded |
| `KeyOrdered` with 2 replicas (OutboxRelay) | "Stopping rather than skipping is what preserves per-entity ordering", `OutboxRelay.java:32-34`, `outbox-relay.service.ts:120-122` | no fault: SKIP LOCKED (`OutboxRepository.java:43`) gives the later event of a key to the other replica. The property as stated is about a single replica |
| order of `created_at` per key with 1 replica (OutboxRelay) | the same; "typically the orderId for per-order ordering", payment-service `schema.ts:121` | no fault: `payments.payment.initiated` is inserted in a transaction that locks nothing (`payments.service.ts:348-358`); another call captures the payment, commits later-created `captured` first, and the relay sends it before `initiated` is visible. `KeyOrdered` therefore speaks of rows created and committed before |
| `CaptureReported` (PaymentFlow) | "Non-terminal Stripe states remain `pending` until the webhook settles them", payment-service `README.md:58` | no fault: a second charge call of a pending payment is refused by Stripe, the row becomes FAILED (`payments.service.ts:1212`), and the webhook of the capture finds it terminal. `UnreportedWasFailed` is what remains true |
| `NothingTaken` (PaymentFlow) | "Nothing was taken (or it has already been given back), so nothing to refund", `payments.service.ts:558` | no fault: a late PENDING write (`payments.service.ts:1257`, no condition) overwrites COMPLETED, and the unfulfillable event is then ignored |
| `ReprocessingSafe` (TicketFeed) | "re-processing the same event is safe", `TicketEventConsumer.java:26` | one fault: an event sent twice overwrites the replica of order-service with an older ticket |
| one relay at a time per event (TicketFeed) | "so multiple workers do not process the same event concurrently", `repo:1299-1300` | a lease of 30 s covers a batch of 20 sends: `LeaseExpires` during a slow batch gives an event to a second relay. `RepeatsExplained` counts these |
| per-ticket order of the feed (TicketFeed) | – | `Requeue` of one event does not stop the later ones of its ticket; `SearchForward` holds because of the version guard of the index. From attempt 36 the doubling of the back-off (`relay.go`) overflows; attempts are not counted in the model |
| a refused message is redelivered (Admission) | "do not commit — offset will be redelivered", attendance-service `consumer.go:154` | dead-lettering fails, the next message's commit passes the offset: `refused` in `NothingSkipped` |
| the record waits for task or dead letter (ExpirationTimer) | "Commit offset after processing (success or DLQ)", expiration-service `consumer.go:97`; "so the message is never silently lost", `:149` | one shutdown that cancels the first enqueue, one event that cannot be unmarshalled, or every try and then the dead letter failing: the offset is committed with neither. `TimerKept` is what remains true; the sweep of order-service (`OrderEnds`) is what ends the order |
| one pending transfer per credential (Admission) | – | two pending transfers of one credential are both accepted, the second from the first recipient's hands; a USED credential can be transferred; the ADMITTED audit row may be missing after a crash. Nothing sets REVOKED or EXPIRED |

## Proofs

TLAPS proves the following for every value of the constants that the named assumptions allow: any number of handlers,
replicas, orders, seats, users, rows, versions, gates and faults.

| Module | Theorem | Establishes |
|---|---|---|
| `TicketQuotaProofs` | `TypeCorrect`, `CountersHold`, `NeverOversold`, `ImplementsLedger`, `LimitHolds`, `OversellIsBounded` | types; `CountersCover`; `NoOversell`; `Spec => Ledger!Spec`; `PerUserCap`; `OversellBounded` |
| `OrderSagaProofs` | `TypeCorrect`, `OutcomeIsOne`, `SalesStand`, `ReservationsKept`, `ImplementsContract` | types; `OneOutcome`; `SaleStands`; `ReservationKept`; `Spec => Contract!Spec` |
| `OrderSagaProofs` (ExpirationTimer) | `TimerTypes`, `TimerImplements`, `TimersKept`, `MoneyStaysWithOrder` | types; `TimedSpec => Spec` (`KeepsSaga`); `TimerKept`; `MoneyFollowsOrder` |
| `OutboxRelayProofs` | `TypeCorrect`, `NothingLost`, `OneRelayKeepsOrder`, `RepeatsTakeFaults` | types and disjoint claims; `NeverLost`; `KeyOrdered`; `DuplicatesBounded` |
| `SeatInventoryProofs` | `TypeCorrect`, `NoSeatTwice`, `NobodyOverLimit`, `ImplementsLedger`, `SoldMarksTrue`, `HoldsKept` | types; `SeatsMatchLedger`; `BuyerCap`; `Spec => Ledger!Spec`; `SoldMarkIsSold`; `HoldKept` |
| `TicketCatalogueProofs` | `TypeCorrect`, `CopiesTrusted`, `ReservedNotEdited`, `PlanNotLost` | types; `CopiesAreTrue`; `EditsUnreserved`; `PlanStays` |
| `TicketFeedProofs` | `TypeCorrect`, `NothingLost`, `SearchShowsLast`, `SearchOnlyForward`, `RepeatsTakeFaults` | types; `NeverLost`; `SearchShows`; `SearchForward`; `RepeatsExplained` |
| `AdmissionProofs` | `TypeCorrect`, `NoMessageSkipped`, `OnePersonPerUnit`, `TransfersFinal`, `UsedAdmits` | types; `NothingSkipped`; `UnitAdmitsOne`; `TransferFinal`; `UsedIsAdmitted` |
| `PaymentFlowProofs` | `TypeCorrect`, `MoneyIsHonest`, `ReturnedAtMostOnce` | types; `MoneyHonest`; `ReturnedOnce` |

`BuyerCap`, `NeverLost` and `SearchShows` of TicketFeed, the refinement of SeatLedger, `OversellBounded` and
`MoneyFollowsOrder` (both defined next to their proofs) are in no run: the proof says more than an instance would.
Every other theorem states a property of a run, or types.

**TicketQuota.** Assumed: the module's assumptions on its constants and, for `CountersHold`, `NeverOversold` and
`ImplementsLedger`, `"lostAck" \notin Faults`. `NoOversell` is not
inductive: between the counter's increment and the insert the units are in no document. `CountersCover` adds what jobs
in flight owe: RESERVED documents plus the jobs that have incremented and not yet inserted, undone or moved stay
below `reserved`; RESERVED and SOLD documents plus what is owed stay below `reserved + sold`; and that is at most the
quota because of the condition of the increment. Every write moves both sides by the same quantity, or only the right one up.
Sums are cardinalities of sets of pairs (`Tally`), since an inductive definition of a sum could not be reasoned about.
The lemmas are stated for counters that cover all but `e` units (`Covers(e)`): with `e = 0` they give `CountersHold`; with
lost replies allowed `e` grows by `MaxQty` a fault, since the only harmful one is that of the insert, whose document
stays while its job goes on to take the same units off the counter. `LimitHolds` has `GateCovers`: without a fault the
availability key is there, so no call passes the gate uncounted, and a user's counter covers the user's RESERVED documents
and calls in flight and is at most `MaxPerUser` because of the gate's condition.

**OrderSaga.** Assumed: the module's assumptions (a payment grace below the buffer, as the constructor enforces). The
inductive invariant is `TypeOK`, `OneOutcome`, `CompleteIsSold` and: whoever is between lock and commit holds the row
lock, a worker with the current version still sees an open order, a reservation is SOLD before the completing commit,
a payment exists before its events. Steps are classified by their effect on row, reservation and payment
(lemma `StepEffect`), and each invariant is shown for each class. All faults are allowed, lost commit replies included.
`SalesStand` adds that a SOLD reservation is of a COMPLETE order, or of one whose completing transaction has its row
lock, as long as nothing has failed (`SaleHeld`). `ReservationsKept` adds what each creator knows between its calls
(`Seen`): the first one without a key has a reservation of age zero or none, a keyed one never compensates; and that a
reservation is no older than its order (`NoOlder`), so that with the buffer it outlives the payment window.

**ExpirationTimer.** Every step of the timer must be a step of the orders or none (`TimedIsNext`). The one that moves an
order is the arrival of the event, and OrderSaga allows it only to an order past its `Life`; the invariant is that an
event under way is of such an order (`FiredIsDue`), which stays so because no step opens an order again or makes it younger
(`OrderGrowsOld`), and that records, tasks and events exist only for existing orders (`TimerFollows`). The invariant of
OrderSaga is carried along. `TimersKept` needs that each failed try is a mishap of its own (`TriesFailed`), so that giving
up the dead letter of a record tried to the end is one more than `MaxTries`; nothing takes a task's id or a dead letter
away again (`KeptTimer`), and only a step of the consumer moves its record (`RecordMoves`). `MoneyStaysWithOrder` is a theorem about both together by `TimerImplements`.

**OutboxRelay.** `NeverLost` needs that a row marked by an open transaction has been sent. `KeyOrdered` speaks of
deployments with a single replica and of the rows `ahead`: those of its key created and committed before a row. It needs
that these are in the table (`AheadWritten`), that a page leaves out none of them that is unsent (`PageClosed`), and
that none of them is unsent while the row is in flight (`FlightReady`). A commit in any order adds nothing to what is
`ahead` of a row already claimed or sent (`WriteOrdered`).
`DuplicatesBounded` is not inductive, as it does not see the repeats already on their way. `RepeatInv` counts the
acceptances to come: what is in the log, one for each row that waits to be sent and one for each record still in flight
are together at most the rows written and a page for each fault. A send moves a row from the second term to the first; a
rolled back transaction adds its page, which has `BatchSize` rows at most, to the second.

**SeatInventory.** Row and advisory locks are part of the invariant: two transactions between look and write have no
seat and no buyer in common (`LocksExclude`, `BuyersExclude`), so what the first step saw still holds at the write
(`TakesUnbooked`, `RoomLeft`). From it follow `SeatsMatchLedger` (a booked seat is listed by exactly its reservation
with the same status), `BuyerCap` and the refinement. `SoldMarksTrue`: a sale is final, and what Redis, a handler on its
way to Redis (`SellsSold`) and a reconciler's snapshot (`SeedsSold`) call sold was sold when they looked. `HoldsKept`: a
transaction that has looked and not yet written still finds each of its seats free, lapsed or held by its own buyer
(`TakesNoHold`), because the row locks keep the others out, so its write takes no live hold of another.

**TicketCatalogue.** The document's version only grows, and whoever holds a copy took it from the document or from
another copy: a copy of the current version is therefore the document (`AllTrue`). The write matches on the version, so
what the edit saw in its copy is what it overwrites.

**TicketFeed.** `Past` says of every event, message, read copy and search document that it is of a version up to the
document's and shows the title of the last edit up to that version; `SentFirst`, that only a sent event is acknowledged. The
upsert's version guard then orders titles as it orders versions. `RepeatsExplained` is proved like `DuplicatesBounded`:
`Debts` are the messages to come without a fault, one for each event a relay is yet to send and one for each event no relay
keeps under a lease; messages and debts together are at most the events and the faults (`Budget`).

**Admission.** Issuance: a unit has one row at most because the insert is refused for a key that exists (`OneEach`),
and a consumer that is past its look-ups has found or inserted every unit before the current one (`Works`), so a commit
passes issued messages only. Doors: the consuming update is conditional on ISSUED, so a used row is at one gate at most (`OneGate`).
`UsedIsAdmitted` adds that a gate records a scan once and after the update (`Audited`); a row joins `Barred` only in a
step that is a fault.

**PaymentFlow.** What Stripe has answered or announced is so, and the intent is never taken back from SUCCEEDED
(`Charged`); a refund is asked for only when a captured payment cannot be honoured or the buyer of a completed order
asks, a second one only after the first was given up, and the executor says "paid" only after the provider was called
(`Refunds`). Together with the types they are inductive.

Only model-checked: the liveness properties, which are out of the prover's reach with their fairness (`ExpiredEnds`,
`CacheConverges`, `CaptureSettled`, `OrderEnds`, `ReservationEnds`, `EventuallySent`, `UnreportedWasFailed`, `RefundEnds`,
`FreeSeatOffered`, `SearchCatchesUp`, `CacheCatchesUp`, `OrdersHonoured`, `TimerEnds`). They hold on the instances above. Every
invariant and every action property of a passing run, and every refinement, is proved.

## What is not modelled

- **auth-service**: refresh sessions, sign-in counters, OAuth codes. **queue-service**: the waiting room. Both are
  planned below; their hazards are listed in `PROJECT.json` without a property.
- **venue-service**: plans and sections (CRUD), the choice of seats by automatic assignment, the live map's versions, and
  the older seat operations that nothing calls.
- **ticket-service**: the list cache, search queries and listings, which write nothing; the legacy `ReserveTicket`; bounded
  retries and dead letters of its order consumer. **payment-service**: those of its consumer, the circuit of its order
  client, mock mode, saved payment methods.
- **attendance-service**: attendance policies (`UpdateAttendancePolicy` is one statement), signatures and expiry of QR tokens.
- Events from before reservations existed; clock skew between services.
- user-service (one SQL statement per operation), mcp-service, client, gateways (stateless), infrastructure, and the
  generated GraphQL and protobuf code, which is the larger part of the Go files and holds no logic of the platform.

## Plan

Done, in this order: TicketQuota, OrderSaga, OutboxRelay, PaymentFlow, SeatInventory, TicketCatalogue, TicketFeed,
CredentialIssuance with Admission, ExpirationTimer. What is left:

1. `RefreshSessions`: rotation and revocation; a revoked session is never written back.
2. `WaitingRoom`: join, draw, late positions, passes; positions are unique and a pass is redeemed once. The admission
   formula as an operator, checked against a reference definition.
3. The seat assignment as a pure operator; the versions of the live map with resynchronisation.
4. Composition of PaymentFlow with OrderSaga, replacing the environment of each by the other, to state end to end that
   a captured payment is a completed order or a refund, except where the table above says.
5. Theorems still to state: the safety part of liveness, as invariants that say which step is enabled next (a busy
   reconciler, relay or executor is never without one), and contracts for PaymentFlow and TicketFeed like those of the
   orders and the ledgers.
