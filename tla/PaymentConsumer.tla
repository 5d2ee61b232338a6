-------------------------- MODULE PaymentConsumer --------------------------
(***************************************************************************)
(* From a stored payment to the merchant's webhook: the two subscribers of *)
(* the consumer process (ProcessPaymentInteractor, SendWebhookInteractor), *)
(* the RabbitMQ queues they read, and of the outbox relay what AtLeastOnce *)
(* promises.                                                               *)
(*                                                                         *)
(* The consumer sets no prefetch limit: every delivered message gets a     *)
(* task of its own, a `worker' here.  An await is the end of an action.    *)
(* The consumer has run once, so its queues and bindings exist.            *)
(***************************************************************************)
EXTENDS Naturals, FiniteSets

CONSTANTS
  Payment,        \* payments
  HasUrl,         \* those with a webhook_url
  Worker,         \* tasks of the consumer that handle a message
  MaxRetries,     \* max_retries of a webhook
  DeliveryLimit,  \* x-delivery-limit: how often a message may be returned
  PoolSize,       \* connections of the engine's pool: pool_size + max_overflow
  MaxFaults,      \* bound: raises, lost connections and kills
  MaxCopies,      \* bound: second copies of a message that the relay publishes
  Nothing         \* the job of an idle worker

ASSUME ConsumerAssumption ==
  /\ HasUrl \subseteq Payment
  /\ IsFiniteSet(Worker)
  /\ MaxRetries \in Nat \ {0}
  /\ DeliveryLimit \in Nat
  /\ PoolSize \in Nat \ {0}
  /\ MaxFaults \in Nat
  /\ MaxCopies \in Nat

Terminal == {"succeeded", "failed"}

\* A message: the event_type that routes it and its payload.
Message ==
  [type : {"payments.new"}, payment : Payment, tries : {0}]
    \cup [type : {"payments.webhook"}, payment : Payment, tries : 0..MaxRetries - 1]
New(p) == [type |-> "payments.new", payment |-> p, tries |-> 0]
Webhook(p, n) == [type |-> "payments.webhook", payment |-> p, tries |-> n]

\* A message in a queue, with how often it has been returned.
Delivery == [msg : Message, returns : 0..DeliveryLimit]

ASSUME NothingAssumption == Nothing \notin Delivery

VARIABLES
  status,   \* the status column of each payment
  rows,     \* outbox rows that wait to be relayed, counted by message
  deadRows, \* dead-lettered outbox rows, counted by message
  queue,    \* messages ready in RabbitMQ, counted
  dlq,      \* messages in the dead-letter queues, counted
  dropped,  \* dead-lettered messages that reached no queue, counted
  pc,       \* where each worker is in its handler
  job,      \* the message each worker handles
  held,     \* the workers whose message RabbitMQ still waits for
  copy,     \* the status of the payment as the worker's session has it
  charges,  \* calls of the payment gateway that came back
  posts,    \* webhook calls, counted by payment
  told,     \* the statuses that the merchant has received
  ever,     \* the statuses that each payment has had
  faults,   \* raises, lost connections and kills so far
  again     \* messages that got a second life: returned or published again

paymentVars == <<status, ever>>
rowVars == <<rows, deadRows>>
brokerVars == <<queue, dlq, dropped>>
workerVars == <<pc, job, held, copy>>
outsideVars == <<charges, posts, told>>
vars == <<paymentVars, rowVars, brokerVars, workerVars, outsideVars, faults, again>>

Location == {"idle", "loading", "charging", "committing", "posting", "retrying", "finished"}

ConsumerTypeOK ==
  /\ status \in [Payment -> Terminal \cup {"absent", "pending"}]
  /\ rows \in [Message -> Nat] /\ deadRows \in [Message -> Nat]
  /\ queue \in [Delivery -> Nat]
  /\ dlq \in [Message -> Nat] /\ dropped \in [Message -> Nat]
  /\ pc \in [Worker -> Location]
  /\ job \in [Worker -> Delivery \cup {Nothing}]
  /\ held \subseteq Worker
  /\ copy \in [Worker -> Terminal \cup {"absent", "pending"}]
  /\ charges \in [Payment -> Nat] /\ posts \in [Payment -> Nat]
  /\ told \in [Payment -> SUBSET Terminal]
  /\ ever \in [Payment -> SUBSET (Terminal \cup {"pending"})]
  /\ faults \in 0..MaxFaults
  /\ again \in Nat

Init ==
  /\ status = [p \in Payment |-> "absent"]
  /\ rows = [m \in Message |-> 0] /\ deadRows = [m \in Message |-> 0]
  /\ queue = [d \in Delivery |-> 0]
  /\ dlq = [m \in Message |-> 0] /\ dropped = [m \in Message |-> 0]
  /\ pc = [w \in Worker |-> "idle"]
  /\ job = [w \in Worker |-> Nothing]
  /\ held = {}
  /\ copy = [w \in Worker |-> "absent"]
  /\ charges = [p \in Payment |-> 0] /\ posts = [p \in Payment |-> 0]
  /\ told = [p \in Payment |-> {}]
  /\ ever = [p \in Payment |-> {}]
  /\ faults = 0 /\ again = 0

Plus(count, m, n) == [count EXCEPT ![m] = @ + n]

-----------------------------------------------------------------------------
(* The sides of the consumer: creation, relay and broker.                  *)

\* CreatePaymentInteractor commits a payment and its event.
Create(p) ==
  /\ status[p] = "absent"
  /\ status' = [status EXCEPT ![p] = "pending"]
  /\ ever' = [ever EXCEPT ![p] = {"pending"}]
  /\ rows' = Plus(rows, New(p), 1)
  /\ UNCHANGED <<deadRows, brokerVars, workerVars, outsideVars, faults, again>>

\* The relay publishes a waiting row and records it as sent.
Publish(m) ==
  /\ rows[m] > 0
  /\ rows' = [rows EXCEPT ![m] = @ - 1]
  /\ queue' = Plus(queue, [msg |-> m, returns |-> 0], 1)
  /\ UNCHANGED <<paymentVars, deadRows, dlq, dropped, workerVars, outsideVars, faults, again>>

\* The relay publishes a row that stays waiting: a second copy will follow.
PublishCopy(m) ==
  /\ rows[m] > 0
  /\ again < MaxCopies
  /\ again' = again + 1
  /\ queue' = Plus(queue, [msg |-> m, returns |-> 0], 1)
  /\ UNCHANGED <<paymentVars, rowVars, dlq, dropped, workerVars, outsideVars, faults>>

\* The relay gives a row up.
GiveUp(m) ==
  /\ rows[m] > 0
  /\ rows' = [rows EXCEPT ![m] = @ - 1]
  /\ deadRows' = Plus(deadRows, m, 1)
  /\ UNCHANGED <<paymentVars, brokerVars, workerVars, outsideVars, faults, again>>

\* The queues bound to an exchange: the subscribers bind theirs to
\* `payments', and nothing binds the dead-letter queues to `payments.dlx'.
BoundTo(exchange) ==
  IF exchange = "payments" THEN {"payments.new", "payments.webhook"} ELSE {}
DeadLetterQueue(type) ==
  IF type = "payments.new" THEN "payments.new.dlq" ELSE "payments.webhook.dlq"

\* RabbitMQ takes back what the workers of W hold.  A message that has been
\* returned DeliveryLimit times goes to the exchange payments.dlx, and from
\* there to the queues bound to it.
GiveBack(W) ==
  LET Back(d) == Cardinality({w \in W \cap held : job[w] = d})
      Over(m) == Back([msg |-> m, returns |-> DeliveryLimit])
      Bound(m) == DeadLetterQueue(m.type) \in BoundTo("payments.dlx")
  IN  /\ queue' = [d \in Delivery |->
                     queue[d] + IF d.returns = 0 THEN 0 ELSE Back([d EXCEPT !.returns = @ - 1])]
      /\ dlq' = [m \in Message |-> dlq[m] + IF Bound(m) THEN Over(m) ELSE 0]
      /\ dropped' = [m \in Message |-> dropped[m] + IF Bound(m) THEN 0 ELSE Over(m)]
      /\ again' = again + Cardinality(W \cap held)
      /\ held' = held \ W

-----------------------------------------------------------------------------
(* The handlers.                                                           *)

P(w) == job[w].msg.payment

\* The workers whose session has taken a connection: from the first statement
\* until the commit, or until the handler returns without one.  They keep it
\* while they wait for the gateway or the merchant.
Connected == {w \in Worker : pc[w] \in {"charging", "committing", "posting", "retrying"}}
PoolIsFull == Cardinality(Connected) >= PoolSize

\* Faulty variants, each the slip a mutant puts in place of the definition
\* after it: the message is acknowledged before it is handled.
DeliverAckFirst(w, d) ==
  /\ pc[w] = "idle"
  /\ queue[d] > 0
  /\ queue' = [queue EXCEPT ![d] = @ - 1]
  /\ job' = [job EXCEPT ![w] = d]
  /\ pc' = [pc EXCEPT ![w] = "loading"]
  /\ UNCHANGED <<paymentVars, rowVars, dlq, dropped, held, copy, outsideVars, faults, again>>

Deliver(w, d) ==
  /\ pc[w] = "idle"
  /\ queue[d] > 0
  /\ queue' = [queue EXCEPT ![d] = @ - 1]
  /\ job' = [job EXCEPT ![w] = d]
  /\ held' = held \cup {w}
  /\ pc' = [pc EXCEPT ![w] = "loading"]
  /\ UNCHANGED <<paymentVars, rowVars, dlq, dropped, copy, outsideVars, faults, again>>

\* Faulty: the test on the status missing, or inverted.
LoadNewUnchecked(w) ==
  /\ pc[w] = "loading"
  /\ ~PoolIsFull
  /\ job[w].msg.type = "payments.new"
  /\ copy' = [copy EXCEPT ![w] = status[P(w)]]
  /\ pc' = [pc EXCEPT ![w] = "charging"]
  /\ UNCHANGED <<paymentVars, rowVars, brokerVars, job, held, outsideVars, faults, again>>
LoadNewInverted(w) ==
  /\ pc[w] = "loading"
  /\ ~PoolIsFull
  /\ job[w].msg.type = "payments.new"
  /\ copy' = [copy EXCEPT ![w] = status[P(w)]]
  /\ pc' = [pc EXCEPT ![w] = IF status[P(w)] = "pending" THEN "finished" ELSE "charging"]
  /\ UNCHANGED <<paymentVars, rowVars, brokerVars, job, held, outsideVars, faults, again>>

\* process_payment: gw.get_by_id takes no lock; a payment that is no longer
\* pending is skipped.
LoadNew(w) ==
  /\ pc[w] = "loading"
  /\ ~PoolIsFull
  /\ job[w].msg.type = "payments.new"
  /\ copy' = [copy EXCEPT ![w] = status[P(w)]]
  /\ pc' = [pc EXCEPT ![w] = IF status[P(w)] = "pending" THEN "charging" ELSE "finished"]
  /\ UNCHANGED <<paymentVars, rowVars, brokerVars, job, held, outsideVars, faults, again>>

\* Faulty: the entity is not marked, or the merchant is told at once.
GatewayAnswersUnmarked(w) ==
  /\ pc[w] = "charging"
  /\ charges' = Plus(charges, P(w), 1)
  /\ pc' = [pc EXCEPT ![w] = "committing"]
  /\ UNCHANGED <<paymentVars, rowVars, brokerVars, job, held, copy, posts, told, faults, again>>
GatewayAnswersAndTells(w) ==
  /\ pc[w] = "charging"
  /\ \E outcome \in Terminal :
       /\ copy' = [copy EXCEPT ![w] = outcome]
       /\ told' = [told EXCEPT ![P(w)] = @ \cup {outcome}]
  /\ charges' = Plus(charges, P(w), 1)
  /\ pc' = [pc EXCEPT ![w] = "committing"]
  /\ UNCHANGED <<paymentVars, rowVars, brokerVars, job, held, posts, faults, again>>

\* payment_gateway.process answers after seconds; the entity is marked.
GatewayAnswers(w) ==
  /\ pc[w] = "charging"
  /\ \E outcome \in Terminal : copy' = [copy EXCEPT ![w] = outcome]
  /\ charges' = Plus(charges, P(w), 1)
  /\ pc' = [pc EXCEPT ![w] = "committing"]
  /\ UNCHANGED <<paymentVars, rowVars, brokerVars, job, held, posts, told, faults, again>>

\* The commit writes the new status over whatever the row has by now, and
\* adds the webhook's event in the same transaction.
CommitProcessed(w) ==
  /\ pc[w] = "committing"
  /\ status' = [status EXCEPT ![P(w)] = copy[w]]
  /\ ever' = [ever EXCEPT ![P(w)] = @ \cup {copy[w]}]
  /\ rows' = IF P(w) \in HasUrl THEN Plus(rows, Webhook(P(w), 0), 1) ELSE rows
  /\ pc' = [pc EXCEPT ![w] = "finished"]
  /\ UNCHANGED <<deadRows, brokerVars, job, held, copy, outsideVars, faults, again>>

\* send_payment_webhook: the payment is read once, before the call.
LoadWebhook(w) ==
  /\ pc[w] = "loading"
  /\ ~PoolIsFull
  /\ job[w].msg.type = "payments.webhook"
  /\ copy' = [copy EXCEPT ![w] = status[P(w)]]
  /\ pc' = [pc EXCEPT ![w] = IF P(w) \in HasUrl THEN "posting" ELSE "finished"]
  /\ UNCHANGED <<paymentVars, rowVars, brokerVars, job, held, outsideVars, faults, again>>

\* The merchant gets the webhook and says so.
PostSucceeds(w) ==
  /\ pc[w] = "posting"
  /\ told' = [told EXCEPT ![P(w)] = @ \cup {copy[w]}]
  /\ posts' = Plus(posts, P(w), 1)
  /\ pc' = [pc EXCEPT ![w] = "finished"]
  /\ UNCHANGED <<paymentVars, rowVars, brokerVars, job, held, copy, charges, faults, again>>

\* The call times out or is answered with an error; the merchant may have it.
PostFails(w) ==
  /\ pc[w] = "posting"
  /\ told' \in {told, [told EXCEPT ![P(w)] = @ \cup {copy[w]}]}
  /\ posts' = Plus(posts, P(w), 1)
  /\ pc' = [pc EXCEPT ![w] = "retrying"]
  /\ UNCHANGED <<paymentVars, rowVars, brokerVars, job, held, copy, charges, faults, again>>

\* Faulty: the except branch only logs, or starts the count again.
CommitRetrySwallowed(w) ==
  /\ pc[w] = "retrying"
  /\ pc' = [pc EXCEPT ![w] = "finished"]
  /\ UNCHANGED <<paymentVars, rowVars, brokerVars, job, held, copy, outsideVars, faults, again>>
CommitRetryUncounted(w) ==
  /\ pc[w] = "retrying"
  /\ rows' = Plus(rows, Webhook(P(w), 0), 1)
  /\ pc' = [pc EXCEPT ![w] = "finished"]
  /\ UNCHANGED <<paymentVars, deadRows, brokerVars, job, held, copy, outsideVars, faults, again>>

\* The except branch commits a row for the next try, or a dead-lettered one.
CommitRetry(w) ==
  /\ pc[w] = "retrying"
  /\ LET n == job[w].msg.tries + 1
     IN  IF n < MaxRetries
         THEN rows' = Plus(rows, Webhook(P(w), n), 1) /\ UNCHANGED deadRows
         ELSE deadRows' = Plus(deadRows, job[w].msg, 1) /\ UNCHANGED rows
  /\ pc' = [pc EXCEPT ![w] = "finished"]
  /\ UNCHANGED <<paymentVars, brokerVars, job, held, copy, outsideVars, faults, again>>

Idle(W) ==
  /\ pc' = [w \in Worker |-> IF w \in W THEN "idle" ELSE pc[w]]
  /\ job' = [w \in Worker |-> IF w \in W THEN Nothing ELSE job[w]]
  /\ copy' = [w \in Worker |-> IF w \in W THEN "absent" ELSE copy[w]]

\* The handler has returned: the message is acknowledged, if RabbitMQ still
\* waits for that.
Ack(w) ==
  /\ pc[w] = "finished"
  /\ held' = held \ {w}
  /\ Idle({w})
  /\ UNCHANGED <<paymentVars, rowVars, brokerVars, outsideVars, faults, again>>

\* The handler raises, its transaction is rolled back, and NACK_ON_ERROR
\* returns the message.  send_webhook catches what the call itself raises.
Raise(w) ==
  /\ pc[w] \notin {"idle", "posting"}
  /\ faults < MaxFaults
  /\ faults' = faults + 1
  /\ GiveBack({w})
  /\ Idle({w})
  /\ UNCHANGED <<paymentVars, rowVars, outsideVars>>

\* The pool has had no connection for the handler in 30 seconds: the first
\* statement raises TimeoutError.  This takes no fault, only many messages:
\* nothing bounds how many handlers wait.
PoolTimeout(w) ==
  /\ pc[w] = "loading"
  /\ PoolIsFull
  /\ GiveBack({w})
  /\ Idle({w})
  /\ UNCHANGED <<paymentVars, rowVars, outsideVars, faults>>

\* The connection is lost: RabbitMQ takes back every unacknowledged message,
\* but the handlers go on.
ConnectionLost ==
  /\ held # {}
  /\ faults < MaxFaults
  /\ faults' = faults + 1
  /\ GiveBack(Worker)
  /\ UNCHANGED <<paymentVars, rowVars, pc, job, copy, outsideVars>>

\* The consumer is killed and started again.
Crash ==
  /\ \E w \in Worker : pc[w] # "idle"
  /\ faults < MaxFaults
  /\ faults' = faults + 1
  /\ GiveBack(Worker)
  /\ Idle(Worker)
  /\ UNCHANGED <<paymentVars, rowVars, outsideVars>>

Handle(w) ==
  \/ LoadNew(w) \/ GatewayAnswers(w) \/ CommitProcessed(w)
  \/ LoadWebhook(w) \/ PostSucceeds(w) \/ PostFails(w) \/ CommitRetry(w)
  \/ Ack(w)

Next ==
  \/ \E p \in Payment : Create(p)
  \/ \E m \in Message : Publish(m) \/ PublishCopy(m) \/ GiveUp(m)
  \/ \E w \in Worker, d \in Delivery : Deliver(w, d)
  \/ \E w \in Worker : Handle(w) \/ Raise(w) \/ PoolTimeout(w)
  \/ ConnectionLost
  \/ Crash

Spec == Init /\ [][Next]_vars

-----------------------------------------------------------------------------
\* Messages of payment p and of a type that are on their way or given up.
OnTheirWay(p, type) ==
  \/ \E m \in Message : m.payment = p /\ m.type = type /\ rows[m] > 0
  \/ \E d \in Delivery : d.msg.payment = p /\ d.msg.type = type /\ queue[d] > 0
  \/ \E w \in held : job[w].msg.payment = p /\ job[w].msg.type = type
GivenUp(p, type) ==
  \E m \in Message : m.payment = p /\ m.type = type /\ deadRows[m] + dlq[m] + dropped[m] > 0

\* A payment stays pending only as long as a message still says to process
\* it, or after the relay or RabbitMQ has given that message up: no raise,
\* kill or lost connection loses the work, and no handler acknowledges a
\* message without having done it.
PendingIsInHand ==
  \A p \in Payment : status[p] = "pending" =>
    OnTheirWay(p, "payments.new") \/ GivenUp(p, "payments.new")

\* Of a processed payment with a webhook_url the merchant knows, or is still
\* to be told, or the webhook has been given up and leaves a trace of it.
MerchantIsInformed ==
  \A p \in HasUrl : status[p] \in Terminal =>
    told[p] # {} \/ OnTheirWay(p, "payments.webhook") \/ GivenUp(p, "payments.webhook")

\* The merchant is only told what has been committed as the payment's
\* outcome, never "pending" and never an outcome that was rolled back.
WebhookIsTrue == \A p \in Payment : told[p] \subseteq ever[p] \ {"pending"}

\* The gateway is called again, and the merchant beyond its retries, only
\* for messages that were returned or published twice.
EffectsAreCounted ==
  \A p \in Payment :
    /\ charges[p] <= 1 + again
    /\ posts[p] <= MaxRetries * (1 + again)

\* No handler of p is between its test of the status and its commit.
Decided(p) ==
  status[p] \in Terminal /\ \A w \in Worker : pc[w] \in {"charging", "committing"} => P(w) # p

\* What remains of the skip of processed payments: an outcome is only ever
\* replaced by a handler that had passed its test before the outcome was
\* committed.  Once these are done, no copy and no redelivery changes it.
DecidedIsFinal ==
  [][\A p \in Payment : Decided(p) => Decided(p)' /\ status'[p] = status[p]]_vars

\* What the consumer and its merchants see of a payment is the life that
\* PaymentLife promises.
Life == INSTANCE PaymentLife WITH Outcome <- Terminal,
                                  decided <- [p \in Payment |-> ever[p] \ {"pending"}]
ImplementsPaymentLife == Life!Spec

\* What the README says: processed payments are skipped, so an outcome is
\* final.
OutcomeIsFinal ==
  [][\A p \in Payment : status[p] \in Terminal => status'[p] = status[p]]_vars

\* What the README says: after the delivery limit RabbitMQ routes a message
\* to the dead-letter queue through payments.dlx.
ExhaustedReachDlq == \A m \in Message : dropped[m] = 0
=============================================================================
