# Payments: TLA+ models, checks and proofs

This directory specifies the asynchronous payment service of this repository:
`POST /api/v1/payments` stores a payment and an outbox row in one transaction, a
scheduler relays outbox rows to RabbitMQ, and a consumer process charges the
payment gateway and calls the merchant's webhook. TLC checks the models on small
instances; TLAPS proves their safety properties and refinements for every
instance.

Paths below are relative to `src/payments/` of the repository; "the repository's
README" is the `README.md` at its root.

## 1. The system

| Part | State it keeps | Operations | Interacts with |
|---|---|---|---|
| Payment creation (`application/commands/payments`, `presentation/api/payments.py`, `payments_gw.py`) | `payments`, new rows of `outbox_events`, row locks, entries of the unique index on `idempotency_key` | look up the key `FOR UPDATE`, insert payment and event, commit, answer | other requests through PostgreSQL; the relay through `outbox_events` |
| Outbox relay (`application/commands/outbox_processor`, `outbox_processor_gw.py`, `presentation/outbox_scheduler.py`) | `outbox_events` (status, `sent_at`, `next_retry_at`, `retry_times`, error columns), row locks, the batch a tick has loaded | `get_waiting`, publish, `update_sent_status` or `mark_failed` with a commit per row, `delete_old` | other schedulers through the table; RabbitMQ through `publish` |
| Payment processing (`application/commands/process_payment`, `payment_gateway.py`) | `payments.status`, webhook rows | read the payment, charge, commit outcome and webhook event | RabbitMQ (`payments.new`), gateway, outbox |
| Webhook delivery (`application/commands/send_webhook`, `webhook.py`) | retry rows and dead-lettered rows in `outbox_events` | read the payment, call the merchant, on failure store the next try | RabbitMQ (`payments.webhook`), merchant, outbox |
| RabbitMQ topology (`infrastructure/faststream`, `presentation/faststream`) | queues, unacknowledged messages, delivery counts | deliver, ack, return, dead-letter | publisher and consumer |
| Entities (`entities/`) | `OutboxEvent`, `Payment` | `mark_failed`, `update_sent_status`, `mark_processed` | all of the above |
| Money (`entities/value_objects.py`) | none | arithmetic, rounding, comparison | creation |
| Schema and migrations (`tables.py`, `alembic`) | tables, enum types, `alembic_version` | upgrade, downgrade, each in one transaction | all |
| Composition root (`__init__.py`, `ioc.py`, `config.py`, the compose file) | processes, one engine with a connection pool in each, sessions | start and stop; a scheduler in the API process when `DEBUG` is on; open and close a session per request | all |
| Queries and health check (`application/queries`, `presentation/api/health.py`) | none | read a payment, `SELECT 1` | creation, through the table and the pool |
| HTTP schemas (`presentation/api/schemas.py`) | none | validate an amount; copy fields | creation |

**What is hard here.** There are at least two schedulers by default (the
`outbox-scheduler` service, and one inside the API process), and the row locks of a
batch end with its first commit while the rest of the batch is handled from
copies. Requests with the same new key find no row to lock. The consumer awaits
the gateway for seconds between the test of a payment's status and the write of
it, and RabbitMQ may hand out the message again meanwhile. Every process can die
between two awaits, and the services start in any order, while only the consumer
binds the queues. Handlers and requests wait for locks and for each other's
connections. `PROJECT.json` lists these hazards, each at its line.

**What makes each part correct.** Creation: a key has one payment, a payment has
its event, answers are true, nobody waits for ever. Relay: no stored event is
forgotten, `sent_at` is written only after RabbitMQ has the message and is final,
retries end. Processing and webhook: no pending payment is lost, the merchant is
told only committed outcomes and is told at all, effects are repeated only for
messages that were repeated. API process: what a 202 has named can be read, and
every request is answered. Schema: it is there as a whole or not at all. System:
in whatever order services start and stop, a pending payment is on its way, or is
lost in one of the ways listed in section 5.

## 2. Modules

| Module | Models | Role |
|---|---|---|
| `Outbox` | the relay, any number of schedulers | component |
| `AtLeastOnce` | what the relay promises | abstract specification, implemented by `Outbox` |
| `OutboxProofs` | - | theorems about `Outbox`, with any number of schedulers and with one |
| `PaymentCreation` | the create endpoint under concurrent requests | component |
| `IdempotentCreate` | a map from keys to payments that is filled once | abstract specification, implemented by `PaymentCreation` |
| `PaymentCreationProofs` | - | theorems about `PaymentCreation` |
| `ApiProcess` | requests, reads and health checks of the API process on its connection pool | composition around `PaymentCreation` |
| `ApiProofs` | - | theorems about `ApiProcess`, from those of `PaymentCreationProofs` |
| `PaymentConsumer` | both subscribers, the queues, and the relay reduced to what `AtLeastOnce` promises | composition of processing, webhook and broker |
| `PaymentConsumerProofs` | - | theorems about `PaymentConsumer`: what is kept and what is told |
| `PaymentEffectsProofs` | - | theorems about `PaymentConsumer`: how often the gateway and the merchant are called |
| `PaymentLife` | what becomes of a payment: created, decided, announced | abstract specification, implemented by `PaymentConsumer` and `PaymentSystem` |
| `Migration` | `alembic upgrade head` and `downgrade base` | component |
| `MigrationProofs` | - | the invariant of `Migration` and its lemmas |
| `PaymentSystem` | the services of the compose file from an empty database and broker on | composition of `PaymentConsumer`, `Migration`, start and stop, and the bindings |
| `PaymentSystemProofs` | - | theorems about `PaymentSystem` (and the migrations in it), from those of the three modules above |
| `Money` | the constructor and operators of the value object; an amount's way from the request through the table to the response | pure algorithm, used by calculations |
| `Backoff` | the delays between retries, which `Outbox` abstracts | pure algorithm |
| `EntityProofs` | - | theorems about `Money` and `Backoff` |
| `MCOutbox`, `MCPaymentCreation`, `MCPaymentConsumer`, `MCPaymentSystem`, `MCEntities` | - | constants and symmetry for TLC |

Definitions that a comment calls *faulty* are slips such as a dropped guard or a
missing reset. No specification uses them: `PROJECT.json` puts each in place of
the definition that follows it to show that a property notices the slip.

### Outbox

One database transaction or one await on RabbitMQ is one action.

| Code | Model |
|---|---|
| row of `outbox_events` | `outbox[e]`, a record of the columns the statements read. `sent_at` is null, recent or old (30 days), `next_retry_at` null, future or past; `failure_reason` and `last_error_at` are one flag |
| `FOR UPDATE SKIP LOCKED` | `rowLock[e]`, released by the first commit of the batch (`Unlocked`) |
| ORM objects of a batch | `loaded[s]`, kept across commits since sessions are made with `expire_on_commit=False` |
| `for event in waiting` | `pc[s]`, and `IsNext` (batches are ordered by `created_at`, which is the order of `EventId`) |
| UPDATE at a commit | `UpdateSentStatus(row, mine)`, `MarkFailed(row, mine)`: SQLAlchemy writes only the columns in which the copy `mine` changed, so a stale copy leaves the others as another scheduler wrote them. There is no version column |
| `publish` | `PublishAccepted`; `PublishFails`, in which RabbitMQ may have the message all the same |
| exceptions outside the `try` around `publish` | `Raise`: the session rolls back, `run_scheduler_loop` ends |
| kill, task cancellation, start | `Crash`, `Restart` |
| transactions of the interactors | `Insert`: a new event, or the row `send_webhook` makes by `mark_failed` |
| time | `RetryDue`, `Age` |

Assumptions: a batch takes less than the 30 days after which `delete_old` removes
a sent row (`Age` has that guard); `created_at` orders rows; PostgreSQL runs at
READ COMMITTED.

### PaymentCreation

One statement is one action. `holder[k]` is whoever has the row of key `k` locked
or has an uncommitted entry of the unique index for it; in both cases others wait.
`LookupFinds`, `LookupMisses` are the two results of `get_by_idempotency_key`;
`Flush` is the INSERT, `FlushConflicts` the IntegrityError, for which `create_app`
registers no handler (500). `Fails` is a database error or a dead worker at any
step, with the commit possibly carried out. Payments are named by the requests
that draw their uuid. Validation of header and body comes before any of this and
changes nothing; what it accepts as an amount is in `Money`.

### ApiProcess

The engine is made with the defaults of SQLAlchemy (5 connections and 10 more). A
session takes a connection for its first statement (`Checkout`) and gives it back
when it commits or when the request's container closes it (`Returned`), so a
request that waits for a row lock keeps one. `Reads` is `GET
/api/v1/payments/{payment_id}` (`get_by_id` takes no lock), `Probes` the health
check, `QueryFails` and `CreateFails` a statement that raises or 30 seconds without a
connection. The answer is sent just before the session is closed; no other step
depends on which comes first, so one action does both. `known` remembers which reads
asked for a payment that some 202 had named by then.

### PaymentConsumer

The consumer sets no prefetch limit, so every delivered message is handled by a
task of its own (`Worker`). Each await ends an action: `LoadNew`, `GatewayAnswers`,
`CommitProcessed`, `LoadWebhook`, `PostSucceeds`/`PostFails`, `CommitRetry`, `Ack`.
A raise returns the message (`NACK_ON_ERROR`); a lost connection returns all
unacknowledged messages while their handlers go on; a kill does both and forgets
the handlers. `GiveBack` counts returns and applies `x-delivery-limit`, and then
the bindings the code declares. RabbitMQ, FastStream, the gateway and the merchant
are outside the repository and modelled as the code uses and configures them.
The module starts with queues that are already declared and bound.

A handler's session has a connection from its first statement until its commit, or
until the handler returns without one: it keeps it while it waits for the gateway
or the merchant. `PoolIsFull` makes the others wait, and `PoolTimeout` is their
30-second limit, which raises and returns the message without any fault.

### Migration

A command is the list of its statements; `Runs` says what PostgreSQL needs for one
and `After` what it leaves. The statements run on `draft`, the transaction that
`run_sync_migrations` opens, and reach `database` with its commit. A killed command
(`AbortMigration`) leaves nothing. Of a table the model keeps the enum types, which
PostgreSQL keeps apart from tables, and the unique columns; `Mapped` is the same of
`tables.py`. One command runs at a time.

### PaymentSystem

`PaymentConsumer` with its actions guarded by who runs: requests need the API, the
relay needs a scheduler loop (`outbox-scheduler`, and the API when `DEBUG` is on),
deliveries need a consumer that has subscribed. `Start` waits for the migration, as
`depends_on` does, and an upgrade may run again beside services that are up; `End` stops a service at any point, `LoopEnds` is an exception
that ends the API's loop while the API goes on. `Subscribe` declares and binds a
queue, as a FastStream subscriber does when it starts; before that `PublishUnrouted`
is what a publish comes to: the publisher declares the queues but does not bind
them, RabbitMQ confirms the message, and the row is marked as published. Bindings
are durable and outlive the consumer. The relay is again what `AtLeastOnce`
promises; that `Outbox` keeps this promise is checked and proved there.

`PaymentLife` lists the three things that may happen to a payment. That a decision
is final is not among them (section 5, 4).

### Money and Backoff

`Money` counts cents (every scale is 0.01) and takes decimal factors as fractions;
`Make` is the constructor, which tests the sign before it rounds half up. A
calculation applies the operators one after the other to `held`; one that raises
leaves it. Division is taken as exact before the rounding: the 28 digits of the
decimal context are enough for amounts of 18 digits and factors of ordinary size.
The application itself only constructs amounts so far. `Accepted`, `Stored` and
`Loaded` follow an amount from the request's validation (`max_digits=18,
decimal_places=2`) through the constructor and the column `Numeric(18, 2)` back to
the response. `Backoff` computes delays in
seconds; the jitter is sampled at even steps from none to half of the base. With
the default of three tries only the first two delays occur; the module goes on to
the cap.

## 3. Runs

| Run | Instance | Shows |
|---|---|---|
| `outbox_one` | 1 scheduler, 3 events, 2 retries, batches of 2, a raise and a kill | columns of a row agree; outcomes are final; a second copy of a message has a counted failure or a stop as its cause; every event is finally sent or dead-lettered, also one that the LIMIT leaves behind rows that keep failing |
| `outbox_two` | 2 schedulers, 2 events, 2 retries, a raise and a kill | with stale writes: no event is stranded, a locked copy is fresh, `sent_at` is final, `AtLeastOnce` is implemented; `IndInv` holds; every event is finally sent or dead-lettered if a scheduler is left running, whatever locks and stale copies the other had |
| `create_all` | 3 requests with one key, 1 with another, a read and a probe, 2 connections, a fault | one payment per key, payment with event, true answers, errors have a cause, `IdempotentCreate` is implemented; connections are given back, a payment named by a 202 can be read, everything is answered |
| `consumer_safe` | 1 payment, 3 workers on 2 connections, 2 tries, delivery limit 1, a fault, a second copy of a message, at most two repeated messages | with two handlers between their statements at once and a third waiting for a connection: no payment and no webhook is forgotten; merchants hear committed outcomes only; repeated calls stay within what was repeated; an outcome is replaced only by a handler that was already past its test |
| `system` | the three services, 1 payment, 2 workers on 1 connection, 1 try, delivery limit 1, a fault, a second copy of a message, 3 alembic commands | payments settle while a consumer and a scheduler run, also when a message is returned and its work redone; every loss is a named one; `PaymentLife` is implemented; the schema is whole or absent and no statement of a migration fails, whatever services run beside the commands |
| `entities` | amounts up to 24 cents in 2 currencies, factors -1/8 to 3; 10 failures | products are the nearest cents (against a definition by exhaustive search), shares add up, accepted amounts are stored and shown as sent, delays grow until the cap whatever the jitter |
| `outbox_stale`, `outbox_raise`, `create_race`, `consumer_flip`, `consumer_dlq`, `system_start` | see section 5 | what the repository's README says and the code does not do |

### Bounds

* *Two schedulers* are what the compose file starts with `DEBUG` on, and every
  property relates one scheduler's copy to what others wrote; the proofs need no
  bound. *Three events with batches of two* (`outbox_one`) make the LIMIT bite, so
  that an event waits outside a batch. With two schedulers (`outbox_two`) two events
  are enough for one row that is locked and one whose lock is gone; the batch has
  to hold both, since with batches of one no copy is ever stale.
* `MaxRetries = 2` (3 in the code) has a failure that is retried and one that
  dead-letters. `MaxRaises`, `MaxCrashes` and `MaxFaults` bound the faults; with
  one scheduler a raise and a kill can hit the same event.
* Three requests with one key have a winner, a loser at the index and one that
  finds the row; a second key shows that keys do not disturb each other.
* One payment is enough for the consumer: handlers share nothing but the row of
  their payment and its messages. In `consumer_safe` and `consumer_flip` two handlers
  have a connection each, so that one may commit while the other is past its test of
  the status: two copies of a message, or a new message and its webhook, race. The
  third worker of `consumer_safe` finds the pool full (15 in the code), waits and may
  time out. `FewRepeats` leaves out behaviours with a third repeated message: a copy
  and a return, or two returns, are enough for each race and for the limit. In
  `system` two workers share one connection: one handler waits, and may time out,
  while the other is with the gateway or the merchant, and a message that was
  returned by a fault and then by a timeout is past its limit.
  In the API two connections for six requests let a lock's holder and one that
  waits for it use up the pool.
* `DeliveryLimit = 1` (3 in the code) lets a message be returned once, so that its
  work is redone, and be dead-lettered at the second return; `consumer_dlq` has the
  code's 3. `MaxCopies` bounds the duplicates of the relay. `MaxRetries = 1` in
  `system` keeps it small: a failed webhook is dead-lettered at once there, and
  `consumer_safe` has the rows of the next try.
* One fault in `system` is an end of any service, a loop, a raise or a lost
  connection, at any point; three alembic commands are an upgrade, a downgrade and
  another upgrade, each of which may also be cut short.
* `CentsEnd`, the first number of cents that has too many digits, is 20 instead of
  10^18, so that the calculations pass it; the theorem has no such bound.
* Amounts up to 24 cents with denominators up to 8 have ties, roundings up and
  down, and shares that do not divide evenly; the theorems have no such bound.

`CHECK_DEADLOCK FALSE` stands in the runs of creation, consumer and system: with
finitely many requests and payments they end. The relay never stops and is checked for
deadlock.

### Fairness

* Outbox: a loop that is not stopped goes on; `publish` returns or raises (weak
  fairness on the disjunction, never on success); due times pass. `Restart` has no
  fairness: only PostgreSQL and RabbitMQ have a restart policy in the compose file.
  `EventSettledWhileRelaying` therefore has the premise that from some time on a
  scheduler is not stopped.
* ApiProcess: the event loop continues every request, and the pool hands a free
  connection to whoever waits. A request takes a lock and a connection once, so
  weak fairness is enough for a waiting one.
* PaymentSystem: nobody is obliged to start a service again, so `PaymentSettles` has
  the premise that from some time on a consumer and a scheduler run. Then a started
  consumer subscribes, the relay publishes what it does not give up (what
  `Outbox` has as `EventSettledWhileRelaying`), RabbitMQ delivers, and the event loop runs every task; the gateway's
  sleep and the HTTP client's timeout end their awaits.

## 4. Theorems

TLAPS checks them for every number of schedulers, events, requests, keys, payments
and workers, every batch size, limit, pool size and number of faults. The
assumptions are `OutboxAssumption`, `CreationAssumption`, `ApiAssumption`,
`ConsumerAssumption`, `MigrationAssumption`, `SystemAssumption`, `MoneyAssumption`
and `BackoffAssumption`: constants are natural numbers, the consumer's tasks are
finitely many, limits and denominators are positive, `Nobody` is nobody, requests,
reads and probes are different things, none of them is named like an answer
("error", "not found"), and `DEBUG` is set to yes, to no, or not at all. Two
hypotheses are stated with the theorems that need them: `AtMostOneScheduler` and
`CapIsFar`, both explained below.

**`OutboxProofs`.** `IndInvHolds` proves `IndInv`, the conjunction of `TypeOK` and

* `RowInv`: a sent row was accepted by RabbitMQ, PUBLISHED rows are sent, waiting
  rows have retries left;
* `CopyInv`: a copy was eligible when loaded, and its row is still in the table;
* `StepInv`: copies exist only in the middle of a batch, and a scheduler at
  `accepted` has had its message accepted;
* `LockedCopyIsFresh`.

None is inductive alone: what a commit writes depends on the copy (`CopyInv` keeps
a stale `mark_failed` from pushing a waiting row past its limit), the copy on where
the scheduler is (`StepInv`). From it follow `TypeCorrect`, `NothingStranded`,
`LockedCopiesFresh`, `SentFinal` (a step never resets `sent_at`) and
`RelayImplementsAtLeastOnce` (every step is a step of `AtLeastOnce` or a stutter,
with `Stage` and `Sent` as the mapping). Lemmas on `FailedEvent`,
`UpdateSentStatus` and `MarkFailed` say once what the UPDATEs may do.

Four properties are false of two schedulers (section 5, 1) and proved of one, under
`AtMostOneScheduler`. `config.py` turns `DEBUG` on when it is not set, and then the
API runs a second loop; the hypothesis is a deployment that sets `DEBUG` to "no".
`SingleInvariant` proves `SingleInv`, which is `IndInv`, `RowCoherent` and

* `CopyIsFresh`: every copy that is still to be handled is its row, though its lock
  ended with the batch's first commit;
* `CopiesInv`: retries, raises and kills account for every copy RabbitMQ has but
  one, and for that one too unless the event is in flight or recorded as sent.

`RowsAreCoherent`, `DuplicatesHaveCauses`, `DeadLettersStay` and `PublishedMarksStay`
follow. `NoSpuriousDuplicate` is not inductive: in the state before a publish it
would allow the copy that the publish adds, which `CopiesInv` does not.

**`PaymentCreationProofs`.** `CreationInvariant` proves `CreationIndInv`: the
properties together with what a request knows at each step (a flushed request
holds its key and the key is free; an answering request has found a payment of its
key). `KeysAreUnique`, `StoredTogether`, `TrueReplies` and
`CreationImplementsIdempotentCreate` follow. `FailuresHaveCauses` (`ErrorHasCause`)
needs one more fact, that a request whose payment is stored has passed its commit:
the row that makes an insert conflict is therefore another request's.

**`ApiProofs`.** A step of the process is a step of `PaymentCreation`, at most one
more fault, or leaves the payments alone (`ApiStep`), so `CreationIndInv` carries over. `ApiInv`
adds the types of the pool and the reads, `ConnectionsAreUsed`, and `KnownIsStored`: a
read that follows a 202 asks for a stored payment, which stays stored. `PoolStep` says
once what taking and returning a connection does to the count. `PoolNeverLeaks` and
`NamedPaymentsCanBeRead` follow.

**`PaymentConsumerProofs`.** `ConsumerInvariant` proves `ConsumerInv`: the types and
`WebhookIsTrue` with

* `HandlerInv`: a worker handles a message of the type its place in the handler is
  for, and one that posts has a committed outcome in its session;
* `EverInv`: the status is among those the payment has had;
* `MessageInv`: a message exists only for a stored payment, a webhook's only after
  an outcome;
* `PendingKept`, `OutcomeKept`: the message that is left to handle is in the outbox, in a
  queue, with a worker that has not *finished*, or given up. `PendingIsInHand` and
  `MerchantIsInformed` count finished workers too and are not inductive: the
  acknowledgement would lose the message.

`GiveBackKeeps` shows that what RabbitMQ takes back it keeps, from the counts of
equal deliveries, and `GiveBackStep` uses it for raises, timeouts of the pool, lost
connections and kills alike; `WorkerMoves` says what all steps of a handler have in
common. `WebhooksAreTrue`, `NoPendingPaymentIsLost`, `MerchantsAreInformed`,
`DecisionsAreFinal` and `ConsumerImplementsPaymentLife` follow.

**`PaymentEffectsProofs`.** `CallsAreCounted` proves `EffectsAreCounted`: the gateway
is called at most `1 + again` times for a payment, the merchant at most
`MaxRetries` times as often, where `again` counts messages that were returned or
published twice. Messages are counters (`rows[m]`, `queue[d]`), so the invariant has
to sum over all of them; it does so by counting *tickets*. A `payments.new` message
entitles its holder to one call of the gateway and to `MaxRetries` calls of the
merchant, a webhook's to the tries that are left of it, a worker to what its
delivery allows and it has not used. `Tickets(S, c, h)` is the set of numbered
tickets of `c[x]` things with `h[x]` tickets each; `TicketsAdd`, `TicketsFewer`,
`TicketsReturn` and `TicketsChange` say how its cardinality changes with a counter.
`EffectInv` is, for both kinds of calls: what has been spent, what a payment that is
not yet created will start with, and the tickets in the outbox, in the queues and
in hand together never exceed the budget of `1 + again` messages. Each step moves
tickets, tears some up, or is a return or a copy that enlarges the budget by a whole
message (`CreateBudget`, `RelayBudget`, `DeliverBudget`, `HandlerBudget`,
`GiveBackBudget`). The bound on calls alone is not inductive: it says nothing of the
calls that waiting messages will cause.

**`MigrationProofs`.** `MigrationInv` says that between two commands the committed
schema is whole or absent, and that within a command the transaction's draft is what
the statements before the next one have made of it: entry `i` of `UpgradeDrafts` or
`DowngradeDrafts`. `AtUpgrade` and `AtDowngrade` follow the lists statement by
statement. It is stronger than `SchemaIsWholeOrNone`, which does not tell what a
commit will publish. The theorems are in the next module.

**`PaymentSystemProofs`.** `SystemInvariant` proves `SystemInv`:

* `Core`, what `PaymentConsumerProofs` keeps of types, handlers and messages: a step
  of the system is one of the consumer, the end of a service, or a message that
  reaches no queue (`SystemSteps`), and `EndOfService` and `UnroutedStep` add the
  last two;
* `PaymentsKept`: `PendingKept` and `OutcomeKept` of each payment, or its message is
  among the unrouted;
* `TopologyInv`: loops live in services that run, and queues that are consumed are
  bound;
* `MigrationInv`: only commands change the schema, whatever runs beside them
  (`SchemaStep`).

From it follow `NoPaymentIsLostOtherwise` (`NoOtherLoss`), `SchemaWhole`,
`StatementsNeverFail`, `SystemImplementsPaymentLife`, and, with `EffectInv`,
`CallsAreCountedInSystem` (the run `consumer_safe` checks the same bound of the
consumer by itself).

**`EntityProofs`.** `HalfUpIsNear` bounds the rounding error of every fraction by half
a cent, from the defining property of integer division. `AmountsStayWhole` proves
`MoneyTypeOK` for every calculation, and `SharesNeverDrift` proves `SharesAddUp`.
`AcceptedIsStored` proves `StoredAsSent`: neither the constructor's rounding nor the column's changes an
amount that has passed the validation. `ProductsNeverDrift` proves
`ProductsAreNearest`: what the search finds is what the formula computes.

`DelaysStayCapped` (`BackoffTypeOK`) and `DelaysGrowToTheCap` (`DelaysGrow`) hold for any
number of failures. `Powers` takes what it needs of powers of two (positive, each
twice the one before, never falling) from the sets that have them as cardinality,
since an induction is out of reach; of the library's `FS_SUBSET` it uses the
cardinality of a set of subsets. `DelaysGrowToTheCap` assumes `CapIsFar`: a
base below the cap with its longest jitter stays below the next base. With a cap of
33 minutes, say, the delay after 32 and a jitter of 16 minutes may be followed by
33, and `DelaysGrow` is false; `SixtyIsFar` proves the assumption of the code's 60
minutes.

Only model-checked: what holds under fairness, which is out of the prover's reach
(`EventSettledWhileRelaying`, `EverythingIsAnswered`, `PaymentSettles`). The other
properties of the passing runs are theorems.

## 5. Where the code and its README disagree

1. `outbox_stale`: a published row loses its mark. Scheduler A loads rows 1 and 2
   and commits row 1, which ends its lock on row 2; B publishes row 2 and marks it;
   A publishes it again, fails, and writes FAILED over the mark. The row keeps
   `sent_at`, so it is not sent a third time, but its status is wrong. The same
   overlap publishes events twice without a fault.
2. `outbox_raise`: an exception of any statement ends the scheduler's loop, and
   with a single scheduler events stay unpublished.
3. `create_race`: of two simultaneous requests with one new key the second is
   answered 500 instead of with the payment.
4. `consumer_flip`: two copies of a `payments.new` message handled at once charge
   twice, and the second outcome replaces the first.
5. `consumer_dlq`: nothing binds the dead-letter queues to `payments.dlx`, so an
   exhausted message is dropped.
6. `system_start`: nothing binds `payments.new` before the consumer has first
   started. An event that is relayed earlier is confirmed, marked as published, and
   lost; the payment stays pending.

Read, without a run: the README lists `OUTBOX_SCHEDULER_BATCH_SIZE` (README.md:47),
which `Config.from_env` does not read. It says that a failed webhook call is nacked
and ends in `payments.new.dlq` (README.md:125-127), and that an outbox row is
dead-lettered when it could not be published (README.md:128-129); the code stores
the next try as an outbox row, and the last failed try as a dead-lettered one, which
is what `CommitRetry` models.

## 6. Not modelled

* The comparisons of `Money`, its conversions to float, integer and text, and the copying of the
  other fields between request, entity, DTO and response: they only read.
* Environment variables besides `DEBUG`: host names, ports, intervals. The API key
  and header checks: they end a request before it has done anything.
* `transactional_inbox`: a table no code path uses.
* A downgrade under running services, which nothing in the repository prevents, or
  of a database that has payments: it takes their tables away, by what it is for.
  `Migrates` has that as a guard of the downgrade alone; an upgrade may run beside
  anything, as the compose file runs one on every `up`. Two alembic commands at once,
  which nothing in the repository does.
* A restart of RabbitMQ. The exchange, the queues and their bindings are durable.
* Composed in one module, the detailed relay and the consumer are too many states;
  `PaymentSystem` uses what `AtLeastOnce` promises instead.

## 7. Plan

Done, in this order: `Outbox` with `AtLeastOnce` and its proofs, since the whole
system rests on the relay; `PaymentCreation` with `IdempotentCreate` and its
proofs; `PaymentConsumer` with its proofs; `Money` and `Backoff`; `ApiProcess` with its
proofs; `Migration`; `PaymentSystem` with `PaymentLife`; the proofs of the single
scheduler, of the entities, of the migrations, of the calls that are made, and of
the system.

Next:

1. That the relay of `PaymentSystem` is the relay `Outbox` describes: `PaymentConsumer`
   takes what `AtLeastOnce` promises, per message, and the step from one to the
   other is an argument in this file.
2. The outbox rows that the consumer dead-letters at their last try (`deadRows`)
   against what `MarkFailed` does at the same counter.
