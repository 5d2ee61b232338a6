------------------------ MODULE PaymentConsumerProofs ------------------------
(***************************************************************************)
(* Theorems about PaymentConsumer, for any payments, workers, limits,      *)
(* faults and copies: no payment and no webhook is forgotten, merchants    *)
(* hear committed outcomes only, and a decision no handler is still        *)
(* working on is final.                                                    *)
(***************************************************************************)
EXTENDS PaymentConsumer, FiniteSetTheorems, TLAPS

\* Every worker that is not idle handles a message of the type that its
\* place in the handler is for.
HandlerInv ==
  /\ \A w \in held : pc[w] # "idle"
  /\ \A w \in Worker :
       /\ pc[w] # "idle" => job[w] \in Delivery
       /\ pc[w] \in {"charging", "committing"} => job[w].msg.type = "payments.new"
       /\ pc[w] \in {"posting", "retrying"} => job[w].msg.type = "payments.webhook"
       /\ pc[w] = "committing" => copy[w] \in Terminal
       /\ pc[w] = "posting" => copy[w] \in Terminal \cap ever[P(w)]

EverInv ==
  \A p \in Payment : IF status[p] = "absent" THEN ever[p] = {} ELSE status[p] \in ever[p]

\* A message exists only after its payment has been stored, and a webhook
\* message only after an outcome has been committed.
Ready(m) ==
  /\ status[m.payment] # "absent"
  /\ m.type = "payments.webhook" => status[m.payment] \in Terminal
MessageInv ==
  /\ \A m \in Message : rows[m] > 0 => Ready(m)
  /\ \A d \in Delivery : queue[d] > 0 => Ready(d.msg)
  /\ \A w \in Worker : pc[w] # "idle" => Ready(job[w].msg)

\* A message still to be handled: in the outbox, in a queue, or with a worker
\* that has not finished and that RabbitMQ waits for.
Queued(m) == \E d \in Delivery : d.msg = m /\ queue[d] > 0
InWork(m) == \E w \in held : pc[w] # "finished" /\ job[w].msg = m
Lost(m) == deadRows[m] > 0 \/ dlq[m] > 0 \/ dropped[m] > 0
Here(m) == rows[m] > 0 \/ Queued(m) \/ InWork(m) \/ Lost(m)
Kept(p, type) == \E m \in Message : m.payment = p /\ m.type = type /\ Here(m)

PendingKept(p) == status[p] = "pending" => Kept(p, "payments.new")
OutcomeKept(p) ==
  p \in HasUrl /\ status[p] \in Terminal => told[p] # {} \/ Kept(p, "payments.webhook")

\* A step forgets nothing: what is kept of a payment stays kept.  This is
\* said of each payment by itself, for a composition in which a message of
\* another payment may be lost.
NothingForgotten ==
  \A p \in Payment : (PendingKept(p) => PendingKept(p)') /\ (OutcomeKept(p) => OutcomeKept(p)')

Core == ConsumerTypeOK /\ HandlerInv /\ EverInv /\ MessageInv /\ WebhookIsTrue
ConsumerInv == Core /\ \A p \in Payment : PendingKept(p) /\ OutcomeKept(p)

-----------------------------------------------------------------------------
(* Messages and counters.                                                  *)

\* The fields of a message.
LEMMA MessageFields ==
  ASSUME NEW m \in Message
  PROVE  /\ m.payment \in Payment /\ m.tries \in 0..MaxRetries - 1
         /\ m.type \in {"payments.new", "payments.webhook"}
BY ConsumerAssumption DEF Message

\* What the creation of a payment sends.
LEMMA NewMessage ==
  ASSUME NEW p \in Payment
  PROVE  New(p) \in Message /\ New(p).payment = p /\ New(p).type = "payments.new"
BY DEF New, Message

\* What a processed payment or a failed call sends.
LEMMA WebhookMessage ==
  ASSUME NEW p \in Payment, NEW n \in 0..MaxRetries - 1
  PROVE  /\ Webhook(p, n) \in Message /\ Webhook(p, n).payment = p
         /\ Webhook(p, n).type = "payments.webhook"
BY DEF Webhook, Message

\* A delivery is a message and how often it was returned.
LEMMA DeliveryFields ==
  /\ \A d \in Delivery : d.msg \in Message /\ d.returns \in 0..DeliveryLimit
  /\ \A m \in Message, n \in 0..DeliveryLimit :
       /\ [msg |-> m, returns |-> n] \in Delivery
       /\ [msg |-> m, returns |-> n].msg = m
       /\ [msg |-> m, returns |-> n].returns = n
BY DEF Delivery

\* Counting one more keeps counters counters, and nothing falls to zero.
LEMMA PlusCounts ==
  ASSUME NEW S, NEW c \in [S -> Nat], NEW m \in S
  PROVE  /\ Plus(c, m, 1) \in [S -> Nat]
         /\ Plus(c, m, 1)[m] > 0
         /\ \A k \in S : c[k] > 0 => Plus(c, m, 1)[k] > 0
         /\ \A k \in S : k # m => Plus(c, m, 1)[k] = c[k]
BY DEF Plus

\* One less keeps counters counters, and touches no other.
LEMMA MinusCounts ==
  ASSUME NEW S, NEW c \in [S -> Nat], NEW m \in S, c[m] > 0
  PROVE  /\ [c EXCEPT ![m] = @ - 1] \in [S -> Nat]
         /\ \A k \in S : [c EXCEPT ![m] = @ - 1][k] > 0 => c[k] > 0
         /\ \A k \in S : k # m => [c EXCEPT ![m] = @ - 1][k] = c[k]
OBVIOUS

\* What RabbitMQ takes back it keeps: in a queue, in a dead-letter queue or
\* dropped; and it takes back nothing else.
LEMMA GiveBackKeeps ==
  ASSUME ConsumerTypeOK, HandlerInv, NEW W \in SUBSET Worker, GiveBack(W)
  PROVE  /\ queue' \in [Delivery -> Nat] /\ dlq' \in [Message -> Nat] /\ dropped' \in [Message -> Nat]
         /\ again' \in Nat /\ held' = held \ W
         /\ \A d \in Delivery : queue[d] > 0 => queue'[d] > 0
         /\ \A m \in Message : (dlq[m] > 0 => dlq'[m] > 0) /\ (dropped[m] > 0 => dropped'[m] > 0)
         /\ \A d \in Delivery : queue'[d] > 0 =>
              queue[d] > 0 \/ \E w \in W \cap held : job[w].msg = d.msg
         /\ \A w \in W \cap held : \/ \E d \in Delivery : d.msg = job[w].msg /\ queue'[d] > 0
                                   \/ dlq'[job[w].msg] > 0 \/ dropped'[job[w].msg] > 0
<1> DEFINE Back(d) == Cardinality({w \in W \cap held : job[w] = d})
           Over(m) == Back([msg |-> m, returns |-> DeliveryLimit])
           Bound(m) == DeadLetterQueue(m.type) \in BoundTo("payments.dlx")
           Less(d) == [d EXCEPT !.returns = @ - 1]
<1>1. /\ queue' = [d \in Delivery |-> queue[d] + IF d.returns = 0 THEN 0 ELSE Back(Less(d))]
      /\ dlq' = [m \in Message |-> dlq[m] + IF Bound(m) THEN Over(m) ELSE 0]
      /\ dropped' = [m \in Message |-> dropped[m] + IF Bound(m) THEN 0 ELSE Over(m)]
      /\ again' = again + Cardinality(W \cap held)
      /\ held' = held \ W
  BY DEF GiveBack
<1>2. IsFiniteSet(W \cap held)
  BY ConsumerAssumption, FS_Subset
<1>3. ASSUME NEW d PROVE Back(d) \in Nat /\ ((\E w \in W \cap held : job[w] = d) <=> Back(d) > 0)
  <2>1. IsFiniteSet({w \in W \cap held : job[w] = d})
    BY <1>2, FS_Subset
  <2>2. Back(d) \in Nat /\ (Back(d) = 0 <=> {w \in W \cap held : job[w] = d} = {})
    BY <2>1, FS_CardinalityType, FS_EmptySet
  <2> QED
    BY <2>2
<1>4. \A d : Back(d) \in Nat /\ ((\E w \in W \cap held : job[w] = d) <=> Back(d) > 0)
  BY <1>3
<1>5. Cardinality(W \cap held) \in Nat
  BY <1>2, FS_CardinalityType
<1>6. \A w \in W \cap held : job[w] \in Delivery
  BY DEF ConsumerTypeOK, HandlerInv
<1>7. /\ queue \in [Delivery -> Nat] /\ dlq \in [Message -> Nat] /\ dropped \in [Message -> Nat]
      /\ again \in Nat /\ DeliveryLimit \in Nat
  BY ConsumerAssumption DEF ConsumerTypeOK
<1> HIDE DEF Back, Bound
<1>8. /\ queue' \in [Delivery -> Nat] /\ dlq' \in [Message -> Nat] /\ dropped' \in [Message -> Nat]
      /\ again' \in Nat /\ held' = held \ W
  BY <1>1, <1>4, <1>5, <1>7
<1>9. \A d \in Delivery : queue[d] > 0 => queue'[d] > 0
  BY <1>1, <1>4, <1>7
<1>10. \A m \in Message : (dlq[m] > 0 => dlq'[m] > 0) /\ (dropped[m] > 0 => dropped'[m] > 0)
  BY <1>1, <1>4, <1>7
<1>11. ASSUME NEW d \in Delivery, queue'[d] > 0
       PROVE  queue[d] > 0 \/ \E w \in W \cap held : job[w].msg = d.msg
  <2>1. Less(d).msg = d.msg
    BY DEF Delivery
  <2>2. queue[d] > 0 \/ Back(Less(d)) > 0
    BY <1>1, <1>4, <1>7, <1>11
  <2> QED
    BY <1>4, <2>1, <2>2
<1>12. ASSUME NEW w \in W \cap held
       PROVE  \/ \E d \in Delivery : d.msg = job[w].msg /\ queue'[d] > 0
              \/ dlq'[job[w].msg] > 0 \/ dropped'[job[w].msg] > 0
  <2> DEFINE m == job[w].msg
             n == job[w].returns
  <2>1. m \in Message /\ n \in 0..DeliveryLimit /\ job[w] = [msg |-> m, returns |-> n]
    BY <1>6 DEF Delivery
  <2>2. Back([msg |-> m, returns |-> n]) > 0
    BY <1>4, <2>1
  <2> HIDE DEF m, n
  <2>3. CASE n = DeliveryLimit
    <3>1. dlq'[m] > 0 \/ dropped'[m] > 0
      BY <1>1, <1>4, <1>7, <2>1, <2>2, <2>3
    <3> QED
      BY <3>1 DEF m
  <2>4. CASE n < DeliveryLimit
    <3> DEFINE d == [msg |-> m, returns |-> n + 1]
    <3>1. d \in Delivery /\ d.msg = m /\ d.returns # 0 /\ Less(d) = [msg |-> m, returns |-> n]
      BY <1>7, <2>1, <2>4 DEF Delivery
    <3>2. queue'[d] = queue[d] + Back([msg |-> m, returns |-> n])
      BY <1>1, <3>1
    <3>3. queue'[d] > 0
      BY <1>4, <1>7, <2>2, <3>1, <3>2
    <3> QED
      BY <3>1, <3>3 DEF m
  <2> QED
    BY <1>7, <2>1, <2>3, <2>4
<1> QED
  BY <1>8, <1>9, <1>10, <1>11, <1>12

\* As long as messages stay where they can be found, NothingForgotten needs
\* only a look at the payments whose status has changed.
LEMMA KeptStays ==
  ASSUME NEW type, NEW p, \A m \in Message : m.type = type /\ m.payment = p /\ Here(m) => Here(m)',
         Kept(p, type)
  PROVE  Kept(p, type)'
BY DEF Kept

\* A step that moves messages without dropping one, and changes no payment.
LEMMA AllStays ==
  ASSUME UNCHANGED <<status, told>>,
         \A m \in Message : Here(m) => Here(m)'
  PROVE  NothingForgotten
<1>1. \A p, type : Kept(p, type) => Kept(p, type)'
  BY KeptStays
<1> QED
  BY <1>1 DEF NothingForgotten, PendingKept, OutcomeKept

-----------------------------------------------------------------------------
(* One lemma for each kind of step.                                        *)

\* RabbitMQ takes back the messages of some workers, which become idle or go
\* on all the same.
LEMMA GiveBackStep ==
  ASSUME Core, NEW W \in SUBSET Worker, GiveBack(W),
         UNCHANGED <<paymentVars, rowVars, outsideVars>>,
         UNCHANGED <<pc, job, copy>> \/ Idle(W),
         faults' \in 0..MaxFaults
  PROVE  Core' /\ NothingForgotten
<1> USE DEF paymentVars, rowVars, outsideVars
<1>1. ConsumerTypeOK /\ HandlerInv /\ MessageInv /\ EverInv /\ WebhookIsTrue
  BY DEF Core
<1>2. /\ queue' \in [Delivery -> Nat] /\ dlq' \in [Message -> Nat] /\ dropped' \in [Message -> Nat]
      /\ again' \in Nat /\ held' = held \ W
      /\ \A d \in Delivery : queue[d] > 0 => queue'[d] > 0
      /\ \A m \in Message : (dlq[m] > 0 => dlq'[m] > 0) /\ (dropped[m] > 0 => dropped'[m] > 0)
      /\ \A d \in Delivery : queue'[d] > 0 =>
           queue[d] > 0 \/ \E w \in W \cap held : job[w].msg = d.msg
      /\ \A w \in W \cap held : \/ \E d \in Delivery : d.msg = job[w].msg /\ queue'[d] > 0
                                \/ dlq'[job[w].msg] > 0 \/ dropped'[job[w].msg] > 0
  BY <1>1, GiveBackKeeps
<1>3. \A w \in Worker :
        \/ w \in W /\ pc'[w] = "idle" /\ job'[w] = Nothing /\ copy'[w] = "absent"
        \/ pc'[w] = pc[w] /\ job'[w] = job[w] /\ copy'[w] = copy[w]
  BY DEF Idle
<1>4. \A w \in Worker \ W : pc'[w] = pc[w] /\ job'[w] = job[w]
  BY DEF Idle
<1>5. ConsumerTypeOK'
  <2>1. pc' \in [Worker -> Location] /\ job' \in [Worker -> Delivery \cup {Nothing}]
        /\ copy' \in [Worker -> Terminal \cup {"absent", "pending"}]
    BY <1>1 DEF Idle, ConsumerTypeOK, Location
  <2> QED
    BY <1>1, <1>2, <2>1 DEF ConsumerTypeOK
<1>6. HandlerInv'
  BY <1>1, <1>2, <1>3, <1>4 DEF HandlerInv, ConsumerTypeOK, P
<1>7. EverInv' /\ WebhookIsTrue'
  BY <1>1 DEF EverInv, WebhookIsTrue
<1>8. MessageInv'
  <2>1. \A m : Ready(m)' = Ready(m)
    BY DEF Ready
  <2>2. \A w \in W \cap held : Ready(job[w].msg)
    BY <1>1 DEF MessageInv, HandlerInv
  <2> QED
    BY <1>1, <1>2, <1>3, <2>1, <2>2 DEF MessageInv
<1>9. ASSUME NEW m \in Message, Here(m)
      PROVE  Here(m)'
  <2>1. CASE Queued(m)
    BY <1>2, <2>1 DEF Here, Queued
  <2>2. CASE Lost(m)
    BY <1>2, <2>2 DEF Here, Lost
  <2>3. ASSUME NEW w \in held, pc[w] # "finished", job[w].msg = m
        PROVE  Here(m)'
    <3>1. CASE w \in W
      BY <1>2, <2>3, <3>1 DEF Here, Queued, Lost
    <3>2. CASE w \notin W
      BY <1>1, <1>2, <1>4, <2>3, <3>2 DEF Here, InWork, ConsumerTypeOK
    <3> QED
      BY <3>1, <3>2
  <2> QED
    BY <1>9, <2>1, <2>2, <2>3 DEF Here, InWork
<1>10. NothingForgotten
  BY <1>1, <1>9, AllStays
<1> QED
  BY <1>5, <1>6, <1>7, <1>8, <1>10 DEF Core

\* The relay moves a message, doubles it or gives it up.
LEMMA RelayStep ==
  ASSUME Core, NEW m \in Message, Publish(m) \/ PublishCopy(m) \/ GiveUp(m)
  PROVE  Core' /\ NothingForgotten
<1>1. ConsumerTypeOK /\ HandlerInv /\ MessageInv /\ EverInv /\ WebhookIsTrue
  BY DEF Core
<1>2. UNCHANGED <<paymentVars, workerVars, outsideVars, faults, dlq, dropped>>
  BY DEF Publish, PublishCopy, GiveUp, brokerVars
<1>3. rows \in [Message -> Nat] /\ deadRows \in [Message -> Nat] /\ queue \in [Delivery -> Nat]
      /\ again \in Nat /\ rows[m] > 0
  BY <1>1 DEF ConsumerTypeOK, Publish, PublishCopy, GiveUp
<1> DEFINE d == [msg |-> m, returns |-> 0]
<1>4. d \in Delivery /\ d.msg = m
  BY DeliveryFields, ConsumerAssumption
<1> HIDE DEF d
<1>5. /\ rows' = rows \/ rows' = [rows EXCEPT ![m] = @ - 1]
      /\ queue' = queue \/ queue' = Plus(queue, d, 1)
      /\ deadRows' = deadRows \/ deadRows' = Plus(deadRows, m, 1)
      /\ queue' = Plus(queue, d, 1) \/ deadRows' = Plus(deadRows, m, 1)
      /\ again' \in Nat
  BY <1>3 DEF Publish, PublishCopy, GiveUp, brokerVars, rowVars, d
<1>6. /\ rows' \in [Message -> Nat] /\ queue' \in [Delivery -> Nat] /\ deadRows' \in [Message -> Nat]
      /\ \A k \in Message : (rows'[k] > 0 => rows[k] > 0) /\ (deadRows[k] > 0 => deadRows'[k] > 0)
      /\ \A k \in Message : rows[k] > 0 => rows'[k] > 0 \/ k = m
      /\ \A k \in Delivery : queue[k] > 0 => queue'[k] > 0
      /\ \A k \in Delivery : queue'[k] > 0 => queue[k] > 0 \/ k = d
      /\ queue'[d] > 0 \/ deadRows'[m] > 0
  <2>1. /\ [rows EXCEPT ![m] = @ - 1] \in [Message -> Nat]
        /\ \A k \in Message : [rows EXCEPT ![m] = @ - 1][k] > 0 => rows[k] > 0
        /\ \A k \in Message : k # m => [rows EXCEPT ![m] = @ - 1][k] = rows[k]
    BY <1>3, MinusCounts
  <2>2. /\ Plus(queue, d, 1) \in [Delivery -> Nat] /\ Plus(queue, d, 1)[d] > 0
        /\ \A k \in Delivery : queue[k] > 0 => Plus(queue, d, 1)[k] > 0
        /\ \A k \in Delivery : k # d => Plus(queue, d, 1)[k] = queue[k]
    BY <1>3, <1>4, PlusCounts
  <2>3. /\ Plus(deadRows, m, 1) \in [Message -> Nat] /\ Plus(deadRows, m, 1)[m] > 0
        /\ \A k \in Message : deadRows[k] > 0 => Plus(deadRows, m, 1)[k] > 0
    BY <1>3, PlusCounts
  <2>4. \A k \in Message : (rows'[k] > 0 => rows[k] > 0) /\ (rows[k] > 0 => rows'[k] > 0 \/ k = m)
    BY <1>5, <2>1
  <2>5. \A k \in Delivery : (queue[k] > 0 => queue'[k] > 0) /\ (queue'[k] > 0 => queue[k] > 0 \/ k = d)
    BY <1>5, <2>2
  <2>6. \A k \in Message : deadRows[k] > 0 => deadRows'[k] > 0
    BY <1>5, <2>3
  <2> QED
    BY <1>3, <1>5, <2>1, <2>2, <2>3, <2>4, <2>5, <2>6
<1>7. ConsumerTypeOK'
  BY <1>1, <1>2, <1>5, <1>6
  DEF ConsumerTypeOK, paymentVars, workerVars, outsideVars
<1>8. HandlerInv' /\ EverInv' /\ WebhookIsTrue'
  BY <1>1, <1>2 DEF HandlerInv, EverInv, WebhookIsTrue, paymentVars, workerVars, outsideVars, P
<1>9. MessageInv'
  <2>1. \A k : Ready(k)' = Ready(k)
    BY <1>2 DEF Ready, paymentVars
  <2> QED
    BY <1>1, <1>2, <1>3, <1>4, <1>6, <2>1 DEF MessageInv, workerVars
<1>10. ASSUME NEW k \in Message, Here(k)
       PROVE  Here(k)'
  <2>1. Queued(k) => Queued(k)'
    BY <1>6 DEF Queued
  <2>2. Lost(k) => Lost(k)'
    BY <1>2, <1>6 DEF Lost
  <2>3. InWork(k) => InWork(k)'
    BY <1>2 DEF InWork, workerVars
  <2>4. k = m => Queued(k)' \/ Lost(k)'
    BY <1>4, <1>6 DEF Queued, Lost
  <2> QED
    BY <1>6, <1>10, <2>1, <2>2, <2>3, <2>4 DEF Here
<1>11. NothingForgotten
  BY <1>1, <1>2, <1>10, AllStays DEF paymentVars, outsideVars
<1> QED
  BY <1>7, <1>8, <1>9, <1>11 DEF Core

\* A payment is stored together with the message to process it.
LEMMA CreateStep ==
  ASSUME Core, NEW p \in Payment, Create(p)
  PROVE  Core' /\ NothingForgotten
<1>1. ConsumerTypeOK /\ HandlerInv /\ MessageInv /\ EverInv /\ WebhookIsTrue
  BY DEF Core
<1>2. /\ status[p] = "absent" /\ status' = [status EXCEPT ![p] = "pending"]
      /\ ever' = [ever EXCEPT ![p] = {"pending"}]
      /\ rows' = Plus(rows, New(p), 1)
      /\ UNCHANGED <<deadRows, brokerVars, workerVars, outsideVars, faults, again>>
  BY DEF Create
<1>3. New(p) \in Message /\ New(p).payment = p /\ New(p).type = "payments.new"
  BY NewMessage
<1>4. /\ rows' \in [Message -> Nat] /\ rows'[New(p)] > 0
      /\ \A k \in Message : rows[k] > 0 => rows'[k] > 0
      /\ \A k \in Message : rows'[k] > 0 => rows[k] > 0 \/ k = New(p)
  <2>1. rows \in [Message -> Nat]
    BY <1>1 DEF ConsumerTypeOK
  <2>2. /\ Plus(rows, New(p), 1) \in [Message -> Nat] /\ Plus(rows, New(p), 1)[New(p)] > 0
        /\ \A k \in Message : rows[k] > 0 => Plus(rows, New(p), 1)[k] > 0
        /\ \A k \in Message : k # New(p) => Plus(rows, New(p), 1)[k] = rows[k]
    BY <1>3, <2>1, PlusCounts
  <2> QED
    BY <1>2, <2>2
<1>5. \A q \in Payment \ {p} : status'[q] = status[q] /\ ever'[q] = ever[q]
  BY <1>1, <1>2 DEF ConsumerTypeOK
<1>6. status'[p] = "pending" /\ ever'[p] = {"pending"}
  BY <1>1, <1>2 DEF ConsumerTypeOK
<1>7. ever[p] = {}
  BY <1>1, <1>2 DEF EverInv
<1>8. ConsumerTypeOK'
  <2>1. status' \in [Payment -> Terminal \cup {"absent", "pending"}]
        /\ ever' \in [Payment -> SUBSET (Terminal \cup {"pending"})]
    BY <1>1, <1>2 DEF ConsumerTypeOK
  <2> QED
    BY <1>1, <1>2, <1>4, <2>1 DEF ConsumerTypeOK, brokerVars, workerVars, outsideVars
<1>9. HandlerInv'
  <2>1. \A w \in Worker : pc[w] = "posting" => P(w) \in Payment /\ P(w) # p
    BY <1>1, <1>7, DeliveryFields, MessageFields DEF HandlerInv, P
  <2> QED
    BY <1>1, <1>2, <1>5, <2>1 DEF HandlerInv, P, workerVars
<1>10. EverInv' /\ WebhookIsTrue'
  BY <1>1, <1>2, <1>5, <1>6, <1>7 DEF EverInv, WebhookIsTrue, outsideVars
<1>11. MessageInv'
  <2>1. \A m \in Message : Ready(m) => Ready(m)'
    BY <1>2, <1>5, MessageFields DEF Ready
  <2>2. Ready(New(p))'
    BY <1>3, <1>6 DEF Ready
  <2>3. \A d \in Delivery : d.msg \in Message
    BY DeliveryFields
  <2> QED
    BY <1>1, <1>2, <1>4, <2>1, <2>2, <2>3
    DEF MessageInv, HandlerInv, brokerVars, workerVars
<1>12. \A m \in Message : Here(m) => Here(m)'
  BY <1>2, <1>4 DEF Here, Queued, InWork, Lost, brokerVars, workerVars
<1>13. \A q, type : Kept(q, type) => Kept(q, type)'
  BY <1>12, KeptStays
<1>14. NothingForgotten
  <2>1. Kept(p, "payments.new")'
    BY <1>3, <1>4 DEF Kept, Here
  <2>2. "pending" \notin Terminal
    BY DEF Terminal
  <2> QED
    BY <1>2, <1>5, <1>6, <1>13, <2>1, <2>2 DEF NothingForgotten, PendingKept, OutcomeKept, outsideVars
<1> QED
  BY <1>8, <1>9, <1>10, <1>11, <1>14 DEF Core

\* A message goes from its queue to a worker.
LEMMA DeliverStep ==
  ASSUME Core, NEW w \in Worker, NEW d \in Delivery, Deliver(w, d)
  PROVE  Core' /\ NothingForgotten
<1>1. ConsumerTypeOK /\ HandlerInv /\ MessageInv /\ EverInv /\ WebhookIsTrue
  BY DEF Core
<1>2. /\ pc[w] = "idle" /\ queue[d] > 0
      /\ queue' = [queue EXCEPT ![d] = @ - 1] /\ job' = [job EXCEPT ![w] = d]
      /\ held' = held \cup {w} /\ pc' = [pc EXCEPT ![w] = "loading"]
      /\ UNCHANGED <<paymentVars, rowVars, dlq, dropped, copy, outsideVars, faults, again>>
  BY DEF Deliver
<1>3. /\ queue' \in [Delivery -> Nat]
      /\ \A k \in Delivery : queue'[k] > 0 => queue[k] > 0
      /\ \A k \in Delivery : k # d => queue'[k] = queue[k]
  <2>1. queue \in [Delivery -> Nat]
    BY <1>1 DEF ConsumerTypeOK
  <2> QED
    BY <1>2, <2>1, MinusCounts
<1>4. pc'[w] = "loading" /\ job'[w] = d
      /\ \A v \in Worker \ {w} : pc'[v] = pc[v] /\ job'[v] = job[v]
  BY <1>1, <1>2 DEF ConsumerTypeOK
<1>5. ConsumerTypeOK'
  BY <1>1, <1>2, <1>3 DEF ConsumerTypeOK, Location, paymentVars, rowVars, outsideVars
<1>6. HandlerInv'
  BY <1>1, <1>2, <1>4 DEF HandlerInv, ConsumerTypeOK, P, paymentVars
<1>7. EverInv' /\ WebhookIsTrue'
  BY <1>1, <1>2 DEF EverInv, WebhookIsTrue, paymentVars, outsideVars
<1>8. MessageInv'
  <2>1. \A m : Ready(m)' = Ready(m)
    BY <1>2 DEF Ready, paymentVars
  <2> QED
    BY <1>1, <1>2, <1>3, <1>4, <2>1 DEF MessageInv, rowVars
<1>9. ASSUME NEW m \in Message, Here(m)
      PROVE  Here(m)'
  <2>1. InWork(m) => InWork(m)'
    BY <1>1, <1>2, <1>4 DEF InWork, HandlerInv, ConsumerTypeOK
  <2>2. Queued(m) => Queued(m)' \/ InWork(m)'
    BY <1>2, <1>3, <1>4 DEF Queued, InWork
  <2>3. Lost(m) = Lost(m)'
    BY <1>2 DEF Lost, rowVars
  <2> QED
    BY <1>2, <1>9, <2>1, <2>2, <2>3 DEF Here, rowVars
<1>10. NothingForgotten
  BY <1>1, <1>2, <1>9, AllStays DEF paymentVars, outsideVars
<1> QED
  BY <1>5, <1>6, <1>7, <1>8, <1>10 DEF Core

-----------------------------------------------------------------------------
(* The steps of a handler.                                                 *)

\* A payment's status never goes back to absent, or from an outcome to
\* pending, and what it has had is not forgotten.
Onward ==
  \A p \in Payment :
    /\ ever[p] \subseteq ever'[p]
    /\ status[p] # "absent" => status'[p] # "absent"
    /\ status[p] \in Terminal => status'[p] \in Terminal

\* What a handler's step does to its worker, and to the messages in work.
LEMMA WorkerMoves ==
  ASSUME ConsumerTypeOK, HandlerInv, MessageInv, Onward,
         NEW w \in Worker, NEW where \in Location \ {"idle"},
         NEW c \in Terminal \cup {"absent", "pending"},
         pc[w] # "idle", pc' = [pc EXCEPT ![w] = where], copy' = [copy EXCEPT ![w] = c],
         UNCHANGED <<job, held, brokerVars>>,
         where \in {"charging", "committing"} => job[w].msg.type = "payments.new",
         where \in {"posting", "retrying"} => job[w].msg.type = "payments.webhook",
         where = "committing" => c \in Terminal,
         where = "posting" => c \in Terminal \cap ever[P(w)],
         \A m \in Message : rows'[m] > 0 => rows[m] > 0 \/ Ready(m)'
  PROVE  /\ pc' \in [Worker -> Location] /\ copy' \in [Worker -> Terminal \cup {"absent", "pending"}]
         /\ HandlerInv' /\ MessageInv'
         /\ \A m \in Message : InWork(m) => InWork(m)' \/ (where = "finished" /\ m = job[w].msg)
         /\ \A m \in Message : Queued(m) = Queued(m)'
<1>1. /\ pc' \in [Worker -> Location] /\ copy' \in [Worker -> Terminal \cup {"absent", "pending"}]
      /\ pc'[w] = where /\ copy'[w] = c
      /\ \A v \in Worker \ {w} : pc'[v] = pc[v] /\ copy'[v] = copy[v]
  BY DEF ConsumerTypeOK
<1>2. \A v \in Worker : pc[v] # "idle" => P(v) \in Payment
  BY DeliveryFields, MessageFields DEF HandlerInv, P
<1>3. held' = held /\ job' = job
  OBVIOUS
<1>4. HandlerInv'
  BY <1>1, <1>2, <1>3 DEF HandlerInv, P, Onward
<1>5. MessageInv'
  <2>1. \A m \in Message : Ready(m) => Ready(m)'
    BY MessageFields DEF Ready, Onward
  <2>2. \A d \in Delivery : d.msg \in Message
    BY DeliveryFields
  <2>3. \A v \in Worker : pc'[v] # "idle" => pc[v] # "idle"
    BY <1>1
  <2> QED
    BY <1>3, <2>1, <2>2, <2>3 DEF MessageInv, HandlerInv, brokerVars
<1>6. \A m \in Message : InWork(m) => InWork(m)' \/ (where = "finished" /\ m = job[w].msg)
  BY <1>1, <1>3 DEF InWork, ConsumerTypeOK
<1>7. \A m \in Message : Queued(m) = Queued(m)'
  BY DEF Queued, brokerVars
<1> QED
  BY <1>1, <1>4, <1>5, <1>6, <1>7

\* A handler reads its payment: one of payments.new goes on only with a
\* pending payment, one of payments.webhook only with a webhook_url.
LEMMA LoadStep ==
  ASSUME Core, NEW w \in Worker, LoadNew(w) \/ LoadWebhook(w)
  PROVE  Core' /\ NothingForgotten
<1>1. ConsumerTypeOK /\ HandlerInv /\ MessageInv /\ EverInv /\ WebhookIsTrue
  BY DEF Core
<1>2. /\ pc[w] = "loading"
      /\ copy' = [copy EXCEPT ![w] = status[P(w)]]
      /\ UNCHANGED <<paymentVars, rowVars, brokerVars, job, held, outsideVars, faults, again>>
  BY DEF LoadNew, LoadWebhook
<1>3. PICK where \in {"charging", "posting", "finished"} :
        /\ pc' = [pc EXCEPT ![w] = where]
        /\ where = "charging" => job[w].msg.type = "payments.new"
        /\ where = "posting" => job[w].msg.type = "payments.webhook"
        /\ where = "finished" =>
             \/ job[w].msg.type = "payments.new" /\ status[P(w)] # "pending"
             \/ job[w].msg.type = "payments.webhook" /\ P(w) \notin HasUrl
  <2>1. CASE LoadNew(w)
    BY <2>1 DEF LoadNew
  <2>2. CASE LoadWebhook(w)
    BY <2>2 DEF LoadWebhook
  <2> QED
    BY <2>1, <2>2
<1>4. P(w) \in Payment /\ job[w].msg \in Message
  BY <1>1, <1>2, DeliveryFields, MessageFields DEF HandlerInv, P
<1>5. status[P(w)] \in Terminal \cup {"absent", "pending"}
  BY <1>1, <1>4 DEF ConsumerTypeOK
<1>6. where = "posting" => status[P(w)] \in Terminal \cap ever[P(w)]
  <2>1. "absent" \notin Terminal
    BY DEF Terminal
  <2> QED
    BY <1>1, <1>2, <1>3, <1>4, <2>1 DEF MessageInv, Ready, EverInv, P
<1>7. Onward
  BY <1>2 DEF Onward, paymentVars
<1>8. /\ pc' \in [Worker -> Location] /\ copy' \in [Worker -> Terminal \cup {"absent", "pending"}]
      /\ HandlerInv' /\ MessageInv'
      /\ \A m \in Message : InWork(m) => InWork(m)' \/ (where = "finished" /\ m = job[w].msg)
      /\ \A m \in Message : Queued(m) = Queued(m)'
  <2>1. where \in Location \ {"idle"} /\ pc[w] # "idle" /\ where # "committing" /\ where # "retrying"
    BY <1>2, <1>3 DEF Location
  <2>2. rows' = rows
    BY <1>2 DEF rowVars
  <2> QED
    BY <1>1, <1>2, <1>3, <1>5, <1>6, <1>7, <2>1, <2>2, WorkerMoves
<1>9. ConsumerTypeOK'
  BY <1>1, <1>2, <1>8 DEF ConsumerTypeOK, paymentVars, rowVars, brokerVars, outsideVars
<1>10. EverInv' /\ WebhookIsTrue'
  BY <1>1, <1>2 DEF EverInv, WebhookIsTrue, paymentVars, outsideVars
<1>11. \A m \in Message : Here(m) => Here(m)' \/ (where = "finished" /\ m = job[w].msg)
  BY <1>2, <1>8 DEF Here, Lost, rowVars, brokerVars
<1>12. ASSUME NEW p \in Payment, PendingKept(p)
       PROVE  PendingKept(p)'
  <2>1. ASSUME status[p] = "pending", Kept(p, "payments.new")
        PROVE  Kept(p, "payments.new")'
    <3>1. \A m \in Message : m.type = "payments.new" /\ m.payment = p /\ Here(m) => Here(m)'
      BY <1>3, <1>11, <2>1 DEF P
    <3> QED
      BY <2>1, <3>1, KeptStays
  <2> QED
    BY <1>2, <1>12, <2>1 DEF PendingKept, paymentVars
<1>13. ASSUME NEW p \in Payment, OutcomeKept(p)
       PROVE  OutcomeKept(p)'
  <2>1. ASSUME p \in HasUrl, Kept(p, "payments.webhook")
        PROVE  Kept(p, "payments.webhook")'
    <3>1. \A m \in Message : m.type = "payments.webhook" /\ m.payment = p /\ Here(m) => Here(m)'
      BY <1>3, <1>11, <2>1 DEF P
    <3> QED
      BY <2>1, <3>1, KeptStays
  <2> QED
    BY <1>2, <1>13, <2>1 DEF OutcomeKept, paymentVars, outsideVars
<1> QED
  BY <1>8, <1>9, <1>10, <1>12, <1>13 DEF Core, NothingForgotten

\* The gateway answers: an outcome in the session, and nowhere else yet.
LEMMA GatewayStep ==
  ASSUME Core, NEW w \in Worker, GatewayAnswers(w)
  PROVE  Core' /\ NothingForgotten
<1>1. ConsumerTypeOK /\ HandlerInv /\ MessageInv /\ EverInv /\ WebhookIsTrue
  BY DEF Core
<1>2. PICK c \in Terminal : copy' = [copy EXCEPT ![w] = c]
  BY DEF GatewayAnswers
<1>3. /\ pc[w] = "charging" /\ pc' = [pc EXCEPT ![w] = "committing"]
      /\ charges' = Plus(charges, P(w), 1)
      /\ UNCHANGED <<paymentVars, rowVars, brokerVars, job, held, posts, told, faults, again>>
  BY DEF GatewayAnswers
<1>4. P(w) \in Payment /\ job[w].msg.type = "payments.new"
  BY <1>1, <1>3, DeliveryFields, MessageFields DEF HandlerInv, P
<1>5. Onward
  BY <1>3 DEF Onward, paymentVars
<1>6. /\ pc' \in [Worker -> Location] /\ copy' \in [Worker -> Terminal \cup {"absent", "pending"}]
      /\ HandlerInv' /\ MessageInv'
      /\ \A m \in Message : InWork(m) => InWork(m)'
      /\ \A m \in Message : Queued(m) = Queued(m)'
  <2>1. "committing" \in Location \ {"idle"} /\ pc[w] # "idle" /\ rows' = rows
    BY <1>3 DEF Location, rowVars
  <2> QED
    BY <1>1, <1>2, <1>3, <1>4, <1>5, <2>1, WorkerMoves
<1>7. charges' \in [Payment -> Nat]
  BY <1>1, <1>3, <1>4, PlusCounts DEF ConsumerTypeOK
<1>8. ConsumerTypeOK'
  BY <1>1, <1>3, <1>6, <1>7 DEF ConsumerTypeOK, paymentVars, rowVars, brokerVars
<1>9. EverInv' /\ WebhookIsTrue'
  BY <1>1, <1>3 DEF EverInv, WebhookIsTrue, paymentVars
<1>10. \A m \in Message : Here(m) => Here(m)'
  BY <1>3, <1>6 DEF Here, Lost, rowVars, brokerVars
<1>11. NothingForgotten
  BY <1>1, <1>3, <1>10, AllStays DEF paymentVars
<1> QED
  BY <1>6, <1>8, <1>9, <1>11 DEF Core

\* The outcome is committed together with the webhook's message.
LEMMA CommitStep ==
  ASSUME Core, NEW w \in Worker, CommitProcessed(w)
  PROVE  Core' /\ NothingForgotten
<1>1. ConsumerTypeOK /\ HandlerInv /\ MessageInv /\ EverInv /\ WebhookIsTrue
  BY DEF Core
<1>a. pc[w] = "committing" /\ P(w) \in Payment /\ job[w].msg.type = "payments.new" /\ copy[w] \in Terminal
  BY <1>1, DeliveryFields, MessageFields DEF CommitProcessed, HandlerInv, P
<1>b. PICK p \in Payment : p = P(w)
  BY <1>a
<1>2. /\ pc[w] = "committing" /\ pc' = [pc EXCEPT ![w] = "finished"]
      /\ status' = [status EXCEPT ![p] = copy[w]]
      /\ ever' = [ever EXCEPT ![p] = @ \cup {copy[w]}]
      /\ rows' = IF p \in HasUrl THEN Plus(rows, Webhook(p, 0), 1) ELSE rows
      /\ UNCHANGED <<deadRows, brokerVars, job, held, copy, outsideVars, faults, again>>
  BY <1>b DEF CommitProcessed
<1>3. copy[w] \in Terminal
  BY <1>a
<1>4. PICK hook \in Message : hook = Webhook(p, 0) /\ hook.payment = p /\ hook.type = "payments.webhook"
  <2>1. 0 \in 0..MaxRetries - 1
    BY ConsumerAssumption
  <2> QED
    BY <2>1, WebhookMessage
<1>5. /\ status'[p] = copy[w] /\ ever'[p] = ever[p] \cup {copy[w]}
      /\ \A q \in Payment \ {p} : status'[q] = status[q] /\ ever'[q] = ever[q]
  BY <1>1, <1>2, <1>3 DEF ConsumerTypeOK
<1>6. /\ rows' \in [Message -> Nat]
      /\ p \in HasUrl => rows'[hook] > 0
      /\ \A k \in Message : rows[k] > 0 => rows'[k] > 0
      /\ \A k \in Message : rows'[k] > 0 => rows[k] > 0 \/ k = hook
  <2>1. rows \in [Message -> Nat]
    BY <1>1 DEF ConsumerTypeOK
  <2>2. /\ Plus(rows, hook, 1) \in [Message -> Nat] /\ Plus(rows, hook, 1)[hook] > 0
        /\ \A k \in Message : rows[k] > 0 => Plus(rows, hook, 1)[k] > 0
        /\ \A k \in Message : k # hook => Plus(rows, hook, 1)[k] = rows[k]
    BY <1>4, <2>1, PlusCounts
  <2> QED
    BY <1>2, <1>4, <2>1, <2>2
<1>7. "absent" \notin Terminal /\ "pending" \notin Terminal /\ HasUrl \subseteq Payment
  BY ConsumerAssumption DEF Terminal
<1>8. Onward
  BY <1>3, <1>5, <1>7 DEF Onward
<1>9. Ready(hook)'
  BY <1>3, <1>4, <1>5, <1>7 DEF Ready
<1>10. /\ pc' \in [Worker -> Location] /\ copy' \in [Worker -> Terminal \cup {"absent", "pending"}]
       /\ HandlerInv' /\ MessageInv'
       /\ \A m \in Message : InWork(m) => InWork(m)' \/ m = job[w].msg
       /\ \A m \in Message : Queued(m) = Queued(m)'
  <2>1. "finished" \in Location \ {"idle"} /\ pc[w] # "idle"
    BY <1>2 DEF Location
  <2>2. copy' = [copy EXCEPT ![w] = copy[w]] /\ copy[w] \in Terminal \cup {"absent", "pending"}
    BY <1>1, <1>2 DEF ConsumerTypeOK
  <2>3. \A m \in Message : rows'[m] > 0 => rows[m] > 0 \/ Ready(m)'
    BY <1>6, <1>9
  <2> QED
    BY <1>1, <1>2, <1>8, <2>1, <2>2, <2>3, WorkerMoves
<1>11. ConsumerTypeOK'
  <2>1. status' \in [Payment -> Terminal \cup {"absent", "pending"}]
        /\ ever' \in [Payment -> SUBSET (Terminal \cup {"pending"})]
    BY <1>1, <1>2, <1>3 DEF ConsumerTypeOK
  <2> QED
    BY <1>1, <1>2, <1>6, <1>10, <2>1 DEF ConsumerTypeOK, brokerVars, outsideVars
<1>12. EverInv' /\ WebhookIsTrue'
  BY <1>1, <1>2, <1>3, <1>5, <1>7 DEF EverInv, WebhookIsTrue, outsideVars
<1>13. \A m \in Message : m.type = "payments.webhook" \/ m.payment # p => (Here(m) => Here(m)')
  BY <1>a, <1>b, <1>2, <1>6, <1>10 DEF Here, Lost, brokerVars, P
<1>14. ASSUME NEW q \in Payment, PendingKept(q)
       PROVE  PendingKept(q)'
  <2>1. status'[q] = "pending" => q # p /\ status[q] = "pending"
    BY <1>3, <1>5, <1>7
  <2>2. ASSUME q # p, Kept(q, "payments.new")
        PROVE  Kept(q, "payments.new")'
    <3>1. \A m \in Message : m.type = "payments.new" /\ m.payment = q /\ Here(m) => Here(m)'
      BY <1>13, <2>2
    <3> QED
      BY <2>2, <3>1, KeptStays
  <2> QED
    BY <1>14, <2>1, <2>2 DEF PendingKept
<1>15. ASSUME NEW q \in Payment, OutcomeKept(q)
       PROVE  OutcomeKept(q)'
  <2>1. CASE q = p
    <3>1. q \in HasUrl => Kept(q, "payments.webhook")'
      BY <1>4, <1>6, <2>1 DEF Kept, Here
    <3> QED
      BY <3>1 DEF OutcomeKept
  <2>2. CASE q # p
    <3>1. \A m \in Message : m.type = "payments.webhook" /\ m.payment = q /\ Here(m) => Here(m)'
      BY <1>13
    <3>2. Kept(q, "payments.webhook") => Kept(q, "payments.webhook")'
      BY <3>1, KeptStays
    <3> QED
      BY <1>2, <1>5, <1>15, <2>2, <3>2 DEF OutcomeKept, outsideVars
  <2> QED
    BY <2>1, <2>2
<1> QED
  BY <1>10, <1>11, <1>12, <1>14, <1>15 DEF Core, NothingForgotten

\* The merchant has been called; it may know although the call failed.
LEMMA PostStep ==
  ASSUME Core, NEW w \in Worker, PostSucceeds(w) \/ PostFails(w)
  PROVE  Core' /\ NothingForgotten
<1>1. ConsumerTypeOK /\ HandlerInv /\ MessageInv /\ EverInv /\ WebhookIsTrue
  BY DEF Core
<1> DEFINE p == P(w)
<1>2. /\ pc[w] = "posting" /\ posts' = Plus(posts, p, 1)
      /\ UNCHANGED <<paymentVars, rowVars, brokerVars, job, held, copy, charges, faults, again>>
  BY DEF PostSucceeds, PostFails
<1>3. PICK where \in {"finished", "retrying"} :
        /\ pc' = [pc EXCEPT ![w] = where]
        /\ told' = told \/ told' = [told EXCEPT ![p] = @ \cup {copy[w]}]
        /\ where = "finished" => told' = [told EXCEPT ![p] = @ \cup {copy[w]}]
  <2>1. CASE PostSucceeds(w)
    BY <2>1 DEF PostSucceeds
  <2>2. CASE PostFails(w)
    BY <2>2 DEF PostFails
  <2> QED
    BY <2>1, <2>2
<1>4. p \in Payment /\ job[w].msg.type = "payments.webhook" /\ copy[w] \in Terminal \cap ever[p]
  BY <1>1, <1>2, DeliveryFields, MessageFields DEF HandlerInv, P
<1> HIDE DEF p
<1>5. /\ told' \in [Payment -> SUBSET Terminal]
      /\ \A q \in Payment : told[q] \subseteq told'[q] /\ told'[q] \subseteq told[q] \cup {copy[w]}
      /\ \A q \in Payment \ {p} : told'[q] = told[q]
      /\ where = "finished" => told'[p] # {}
  <2>1. told \in [Payment -> SUBSET Terminal]
    BY <1>1 DEF ConsumerTypeOK
  <2> QED
    BY <1>3, <1>4, <2>1
<1>6. Onward
  BY <1>2 DEF Onward, paymentVars
<1>7. /\ pc' \in [Worker -> Location]
      /\ HandlerInv' /\ MessageInv'
      /\ \A m \in Message : InWork(m) => InWork(m)' \/ (where = "finished" /\ m = job[w].msg)
      /\ \A m \in Message : Queued(m) = Queued(m)'
  <2>1. where \in Location \ {"idle"} /\ pc[w] # "idle" /\ rows' = rows
        /\ where \notin {"charging", "committing", "posting"}
    BY <1>2, <1>3 DEF Location, rowVars
  <2>2. copy' = [copy EXCEPT ![w] = copy[w]] /\ copy[w] \in Terminal \cup {"absent", "pending"}
    BY <1>1, <1>2 DEF ConsumerTypeOK
  <2> QED
    BY <1>1, <1>2, <1>3, <1>4, <1>6, <2>1, <2>2, WorkerMoves
<1>8. ConsumerTypeOK'
  <2>1. posts' \in [Payment -> Nat]
    BY <1>1, <1>2, <1>4, PlusCounts DEF ConsumerTypeOK
  <2> QED
    BY <1>1, <1>2, <1>5, <1>7, <2>1 DEF ConsumerTypeOK, paymentVars, rowVars, brokerVars
<1>9. EverInv'
  BY <1>1, <1>2 DEF EverInv, paymentVars
<1>10. WebhookIsTrue'
  <2>1. "pending" \notin Terminal
    BY DEF Terminal
  <2> QED
    BY <1>1, <1>2, <1>4, <1>5, <2>1 DEF WebhookIsTrue, paymentVars
<1>11. \A m \in Message : Here(m) => Here(m)' \/ (where = "finished" /\ m = job[w].msg)
  BY <1>2, <1>7 DEF Here, Lost, rowVars, brokerVars
<1>12. ASSUME NEW q \in Payment, PendingKept(q)
       PROVE  PendingKept(q)'
  <2>1. \A m \in Message : m.type = "payments.new" /\ Here(m) => Here(m)'
    BY <1>4, <1>11
  <2>2. Kept(q, "payments.new") => Kept(q, "payments.new")'
    BY <2>1, KeptStays
  <2> QED
    BY <1>2, <1>12, <2>2 DEF PendingKept, paymentVars
<1>13. ASSUME NEW q \in Payment, OutcomeKept(q)
       PROVE  OutcomeKept(q)'
  <2>1. told'[q] = {} => told[q] = {} /\ (q = p => where # "finished")
    BY <1>5
  <2>2. ASSUME told'[q] = {}, Kept(q, "payments.webhook")
        PROVE  Kept(q, "payments.webhook")'
    <3>1. \A m \in Message : m.type = "payments.webhook" /\ m.payment = q /\ Here(m) => Here(m)'
      BY <1>11, <2>1, <2>2 DEF P, p
    <3> QED
      BY <2>2, <3>1, KeptStays
  <2> QED
    BY <1>2, <1>13, <2>1, <2>2 DEF OutcomeKept, paymentVars
<1> QED
  BY <1>7, <1>8, <1>9, <1>10, <1>12, <1>13 DEF Core, NothingForgotten

\* A failed call leaves a row: the next try, or a dead-lettered one.
LEMMA RetryStep ==
  ASSUME Core, NEW w \in Worker, CommitRetry(w)
  PROVE  Core' /\ NothingForgotten
<1>1. ConsumerTypeOK /\ HandlerInv /\ MessageInv /\ EverInv /\ WebhookIsTrue
  BY DEF Core
<1> DEFINE n == job[w].msg.tries + 1
<1>a. job[w].msg \in Message /\ job[w].msg.payment = P(w)
  BY <1>1, DeliveryFields DEF CommitRetry, HandlerInv, P
<1>b. PICK own \in Message, p \in Payment : own = job[w].msg /\ p = P(w) /\ own.payment = p
  BY <1>a, MessageFields
<1>2. /\ pc[w] = "retrying" /\ pc' = [pc EXCEPT ![w] = "finished"]
      /\ IF n < MaxRetries
         THEN rows' = Plus(rows, Webhook(p, n), 1) /\ deadRows' = deadRows
         ELSE deadRows' = Plus(deadRows, own, 1) /\ rows' = rows
      /\ UNCHANGED <<paymentVars, brokerVars, job, held, copy, outsideVars, faults, again>>
  BY <1>b DEF CommitRetry
<1>3. own.type = "payments.webhook" /\ own.payment = p /\ own.tries \in 0..MaxRetries - 1
  BY <1>1, <1>b, <1>2, MessageFields DEF HandlerInv
<1>4. n < MaxRetries => n \in 0..MaxRetries - 1
  BY <1>b, <1>3, ConsumerAssumption
<1>5. PICK k \in Message :
        /\ k.type = "payments.webhook" /\ k.payment = p
        /\ \/ rows' = Plus(rows, k, 1) /\ deadRows' = deadRows
           \/ rows' = rows /\ deadRows' = Plus(deadRows, k, 1)
  <2>1. CASE n < MaxRetries
    BY <1>2, <1>3, <1>4, <2>1, WebhookMessage
  <2>2. CASE ~(n < MaxRetries)
    BY <1>2, <1>3, <2>2
  <2> QED
    BY <2>1, <2>2
<1> HIDE DEF n
<1>6. /\ rows' \in [Message -> Nat] /\ deadRows' \in [Message -> Nat]
      /\ rows'[k] > 0 \/ deadRows'[k] > 0
      /\ \A m \in Message : (rows[m] > 0 => rows'[m] > 0) /\ (deadRows[m] > 0 => deadRows'[m] > 0)
      /\ \A m \in Message : rows'[m] > 0 => rows[m] > 0 \/ m = k
  <2>1. rows \in [Message -> Nat] /\ deadRows \in [Message -> Nat]
    BY <1>1 DEF ConsumerTypeOK
  <2>2. /\ Plus(rows, k, 1) \in [Message -> Nat] /\ Plus(rows, k, 1)[k] > 0
        /\ \A m \in Message : rows[m] > 0 => Plus(rows, k, 1)[m] > 0
        /\ \A m \in Message : m # k => Plus(rows, k, 1)[m] = rows[m]
    BY <2>1, PlusCounts
  <2>3. /\ Plus(deadRows, k, 1) \in [Message -> Nat] /\ Plus(deadRows, k, 1)[k] > 0
        /\ \A m \in Message : deadRows[m] > 0 => Plus(deadRows, k, 1)[m] > 0
    BY <2>1, PlusCounts
  <2>4. CASE rows' = Plus(rows, k, 1) /\ deadRows' = deadRows
    BY <2>1, <2>2, <2>4
  <2>5. CASE rows' = rows /\ deadRows' = Plus(deadRows, k, 1)
    BY <2>1, <2>3, <2>5
  <2> QED
    BY <1>5, <2>4, <2>5
<1>7. Ready(own)
  BY <1>1, <1>b, <1>2 DEF MessageInv
<1>8. Ready(k)'
  BY <1>2, <1>3, <1>5, <1>7 DEF Ready, paymentVars
<1>9. Onward
  BY <1>2 DEF Onward, paymentVars
<1>10. /\ pc' \in [Worker -> Location]
       /\ HandlerInv' /\ MessageInv'
       /\ \A m \in Message : InWork(m) => InWork(m)' \/ m = own
       /\ \A m \in Message : Queued(m) = Queued(m)'
  <2>1. "finished" \in Location \ {"idle"} /\ pc[w] # "idle"
    BY <1>2 DEF Location
  <2>2. copy' = [copy EXCEPT ![w] = copy[w]] /\ copy[w] \in Terminal \cup {"absent", "pending"}
    BY <1>1, <1>2 DEF ConsumerTypeOK
  <2>3. \A m \in Message : rows'[m] > 0 => rows[m] > 0 \/ Ready(m)'
    BY <1>6, <1>8
  <2> QED
    BY <1>1, <1>b, <1>2, <1>9, <2>1, <2>2, <2>3, WorkerMoves
<1>11. ConsumerTypeOK'
  BY <1>1, <1>2, <1>6, <1>10 DEF ConsumerTypeOK, paymentVars, brokerVars, outsideVars
<1>12. EverInv' /\ WebhookIsTrue'
  BY <1>1, <1>2 DEF EverInv, WebhookIsTrue, paymentVars, outsideVars
<1>13. \A m \in Message : Here(m) => Here(m)' \/ m = own
  BY <1>2, <1>6, <1>10 DEF Here, Lost, brokerVars
<1>14. ASSUME NEW q \in Payment, PendingKept(q)
       PROVE  PendingKept(q)'
  <2>1. \A m \in Message : m.type = "payments.new" /\ Here(m) => Here(m)'
    BY <1>3, <1>13
  <2>2. Kept(q, "payments.new") => Kept(q, "payments.new")'
    BY <2>1, KeptStays
  <2> QED
    BY <1>2, <1>14, <2>2 DEF PendingKept, paymentVars
<1>15. ASSUME NEW q \in Payment, OutcomeKept(q)
       PROVE  OutcomeKept(q)'
  <2>1. CASE q = p
    <3>1. Kept(q, "payments.webhook")'
      BY <1>5, <1>6, <2>1 DEF Kept, Here, Lost
    <3> QED
      BY <3>1 DEF OutcomeKept
  <2>2. CASE q # p
    <3>1. \A m \in Message : m.type = "payments.webhook" /\ m.payment = q /\ Here(m) => Here(m)'
      BY <1>3, <1>13, <2>2
    <3>2. Kept(q, "payments.webhook") => Kept(q, "payments.webhook")'
      BY <3>1, KeptStays
    <3> QED
      BY <1>2, <1>15, <3>2 DEF OutcomeKept, paymentVars, outsideVars
  <2> QED
    BY <2>1, <2>2
<1> QED
  BY <1>10, <1>11, <1>12, <1>14, <1>15 DEF Core, NothingForgotten

\* A message is acknowledged only by a handler that has finished.
LEMMA AckStep ==
  ASSUME Core, NEW w \in Worker, Ack(w)
  PROVE  Core' /\ NothingForgotten
<1>1. ConsumerTypeOK /\ HandlerInv /\ MessageInv /\ EverInv /\ WebhookIsTrue
  BY DEF Core
<1>2. /\ pc[w] = "finished" /\ held' = held \ {w}
      /\ UNCHANGED <<paymentVars, rowVars, brokerVars, outsideVars, faults, again>>
  BY DEF Ack
<1>3. /\ pc' \in [Worker -> Location] /\ job' \in [Worker -> Delivery \cup {Nothing}]
      /\ copy' \in [Worker -> Terminal \cup {"absent", "pending"}]
      /\ pc'[w] = "idle"
      /\ \A v \in Worker \ {w} : pc'[v] = pc[v] /\ job'[v] = job[v] /\ copy'[v] = copy[v]
  BY <1>1 DEF Ack, Idle, ConsumerTypeOK, Location
<1>4. ConsumerTypeOK'
  BY <1>1, <1>2, <1>3 DEF ConsumerTypeOK, paymentVars, rowVars, brokerVars, outsideVars
<1>5. HandlerInv'
  BY <1>1, <1>2, <1>3 DEF HandlerInv, ConsumerTypeOK, P, paymentVars
<1>6. EverInv' /\ WebhookIsTrue'
  BY <1>1, <1>2 DEF EverInv, WebhookIsTrue, paymentVars, outsideVars
<1>7. MessageInv'
  <2>1. \A m : Ready(m)' = Ready(m)
    BY <1>2 DEF Ready, paymentVars
  <2> QED
    BY <1>1, <1>2, <1>3, <2>1 DEF MessageInv, rowVars, brokerVars
<1>8. \A m \in Message : Here(m) => Here(m)'
  <2>1. \A m : InWork(m) => InWork(m)'
    BY <1>1, <1>2, <1>3 DEF InWork, ConsumerTypeOK
  <2> QED
    BY <1>2, <2>1 DEF Here, Queued, Lost, rowVars, brokerVars
<1>9. NothingForgotten
  BY <1>1, <1>2, <1>8, AllStays DEF paymentVars, outsideVars
<1> QED
  BY <1>4, <1>5, <1>6, <1>7, <1>9 DEF Core

-----------------------------------------------------------------------------
(* The theorems.                                                           *)

\* No payments, no messages, idle workers.
LEMMA ConsumerInitially == Init => ConsumerInv
<1> SUFFICES ASSUME Init PROVE ConsumerInv
  OBVIOUS
<1> USE DEF Init
<1>1. ConsumerTypeOK
  BY ConsumerAssumption DEF ConsumerTypeOK, Location
<1>2. HandlerInv /\ EverInv /\ WebhookIsTrue
  BY DEF HandlerInv, EverInv, WebhookIsTrue
<1>3. MessageInv
  BY DEF MessageInv
<1>4. \A p \in Payment : PendingKept(p) /\ OutcomeKept(p)
  BY DEF PendingKept, OutcomeKept, Terminal
<1> QED
  BY <1>1, <1>2, <1>3, <1>4 DEF ConsumerInv, Core

\* A step that moves nothing of the consumer forgets nothing.
LEMMA StutterStep ==
  ASSUME Core, UNCHANGED <<paymentVars, rowVars, brokerVars, workerVars, outsideVars>>,
         faults' \in 0..MaxFaults, again' \in Nat
  PROVE  Core' /\ NothingForgotten
<1> USE DEF paymentVars, rowVars, brokerVars, workerVars, outsideVars
<1>1. Core'
  BY DEF Core, ConsumerTypeOK, HandlerInv, EverInv, MessageInv, Ready, WebhookIsTrue, P
<1>2. \A m \in Message : Here(m) => Here(m)'
  BY DEF Here, Queued, InWork, Lost
<1> QED
  BY <1>1, <1>2, AllStays

\* Every step keeps the invariant and forgets no message that is left to
\* handle.
LEMMA ConsumerStep ==
  ASSUME Core, [Next]_vars
  PROVE  Core' /\ NothingForgotten
<1>1. faults \in 0..MaxFaults /\ MaxFaults \in Nat
  BY ConsumerAssumption DEF Core, ConsumerTypeOK
<1>2. ASSUME NEW w \in Worker, Handle(w)
      PROVE  Core' /\ NothingForgotten
  BY <1>2, LoadStep, GatewayStep, CommitStep, PostStep, RetryStep, AckStep DEF Handle
<1>3. ASSUME NEW w \in Worker, Raise(w)
      PROVE  Core' /\ NothingForgotten
  <2>1. GiveBack({w}) /\ Idle({w}) /\ UNCHANGED <<paymentVars, rowVars, outsideVars>>
        /\ faults' = faults + 1 /\ faults < MaxFaults
    BY <1>3 DEF Raise
  <2>2. faults' \in 0..MaxFaults
    BY <1>1, <2>1
  <2> QED
    BY <2>1, <2>2, GiveBackStep
<1>4. ASSUME NEW w \in Worker, PoolTimeout(w)
      PROVE  Core' /\ NothingForgotten
  <2>1. GiveBack({w}) /\ Idle({w}) /\ UNCHANGED <<paymentVars, rowVars, outsideVars, faults>>
    BY <1>4 DEF PoolTimeout
  <2> QED
    BY <1>1, <2>1, GiveBackStep
<1>5. CASE ConnectionLost
  <2>1. GiveBack(Worker) /\ UNCHANGED <<paymentVars, rowVars, outsideVars>>
        /\ UNCHANGED <<pc, job, copy>> /\ faults' = faults + 1 /\ faults < MaxFaults
    BY <1>5 DEF ConnectionLost
  <2>2. faults' \in 0..MaxFaults
    BY <1>1, <2>1
  <2> QED
    BY <2>1, <2>2, GiveBackStep
<1>6. CASE Crash
  <2>1. GiveBack(Worker) /\ Idle(Worker) /\ UNCHANGED <<paymentVars, rowVars, outsideVars>>
        /\ faults' = faults + 1 /\ faults < MaxFaults
    BY <1>6 DEF Crash
  <2>2. faults' \in 0..MaxFaults
    BY <1>1, <2>1
  <2> QED
    BY <2>1, <2>2, GiveBackStep
<1>7. CASE UNCHANGED vars
  <2>1. UNCHANGED <<paymentVars, rowVars, brokerVars, workerVars, outsideVars, faults, again>>
    BY <1>7 DEF vars
  <2>2. again \in Nat
    BY DEF Core, ConsumerTypeOK
  <2> QED
    BY <1>1, <2>1, <2>2, StutterStep
<1> QED
  BY <1>2, <1>3, <1>4, <1>5, <1>6, <1>7, CreateStep, RelayStep, DeliverStep DEF Next

\* The same, as the induction step.
LEMMA ConsumerInductive == ConsumerInv /\ [Next]_vars => ConsumerInv'
BY ConsumerStep DEF ConsumerInv, NothingForgotten

\* The inductive invariant of the consumer holds of every behaviour.
THEOREM ConsumerInvariant == Spec => []ConsumerInv
BY ConsumerInitially, ConsumerInductive, PTL DEF Spec

\* Type correctness, of the counters of messages in particular.
THEOREM ConsumerTypeCorrect == Spec => []ConsumerTypeOK
<1>1. ConsumerInv => ConsumerTypeOK
  BY DEF ConsumerInv, Core
<1> QED
  BY <1>1, ConsumerInvariant, PTL

\* Merchants are only told outcomes that were committed.
THEOREM WebhooksAreTrue == Spec => []WebhookIsTrue
<1>1. ConsumerInv => WebhookIsTrue
  BY DEF ConsumerInv, Core
<1> QED
  BY <1>1, ConsumerInvariant, PTL

\* A message that is here is on its way or given up.
LEMMA KeptMessages ==
  ASSUME Core, NEW p, NEW type, Kept(p, type)
  PROVE  OnTheirWay(p, type) \/ GivenUp(p, type)
<1>1. PICK m \in Message : m.payment = p /\ m.type = type /\ Here(m)
  BY DEF Kept
<1>2. CASE rows[m] > 0 \/ Queued(m) \/ InWork(m)
  BY <1>1, <1>2 DEF OnTheirWay, Queued, InWork
<1>3. CASE Lost(m)
  <2>1. deadRows[m] \in Nat /\ dlq[m] \in Nat /\ dropped[m] \in Nat
    BY DEF Core, ConsumerTypeOK
  <2>2. deadRows[m] + dlq[m] + dropped[m] > 0
    BY <1>3, <2>1 DEF Lost
  <2> QED
    BY <1>1, <2>2 DEF GivenUp
<1> QED
  BY <1>1, <1>2, <1>3 DEF Here

\* No raise, kill, lost connection or exhausted pool loses a pending
\* payment, unless RabbitMQ or the relay gives its message up.
THEOREM NoPendingPaymentIsLost == Spec => []PendingIsInHand
<1>1. ConsumerInv => PendingIsInHand
  BY KeptMessages DEF ConsumerInv, PendingKept, PendingIsInHand
<1> QED
  BY <1>1, ConsumerInvariant, PTL

\* The merchant of a processed payment knows, or is still to be told, or the
\* webhook has been given up.
THEOREM MerchantsAreInformed == Spec => []MerchantIsInformed
<1>1. ConsumerInv => MerchantIsInformed
  BY KeptMessages, ConsumerAssumption DEF ConsumerInv, OutcomeKept, MerchantIsInformed
<1> QED
  BY <1>1, ConsumerInvariant, PTL

\* A decision is undisturbed by anything but the handlers that had passed
\* their test before it.
LEMMA DecidedStep ==
  ASSUME Core, [Next]_vars, NEW p \in Payment, Decided(p)
  PROVE  Decided(p)' /\ status'[p] = status[p]
<1>1. /\ pc \in [Worker -> Location] /\ job \in [Worker -> Delivery \cup {Nothing}]
      /\ status \in [Payment -> Terminal \cup {"absent", "pending"}]
      /\ "absent" \notin Terminal /\ "pending" \notin Terminal
  BY DEF Core, ConsumerTypeOK, Terminal
<1>2. status[p] \in Terminal /\ \A w \in Worker : pc[w] \in {"charging", "committing"} => P(w) # p
  BY DEF Decided
<1> DEFINE Quiet == \A w \in Worker : pc'[w] \in {"charging", "committing"} =>
                      pc[w] \in {"charging", "committing"} /\ job'[w] = job[w]
<1>3. ASSUME Quiet, status'[p] = status[p]
      PROVE  Decided(p)' /\ status'[p] = status[p]
  BY <1>2, <1>3 DEF Decided, P
<1>4. ASSUME NEW w \in Worker, LoadNew(w)
      PROVE  Decided(p)' /\ status'[p] = status[p]
  BY <1>1, <1>2, <1>4 DEF LoadNew, Decided, P, paymentVars
<1>5. ASSUME NEW w \in Worker, CommitProcessed(w)
      PROVE  Decided(p)' /\ status'[p] = status[p]
  <2>1. P(w) # p
    BY <1>2, <1>5 DEF CommitProcessed
  <2> QED
    BY <1>1, <1>3, <1>5, <2>1 DEF CommitProcessed
<1>6. ASSUME NEW q \in Payment, Create(q)
      PROVE  Decided(p)' /\ status'[p] = status[p]
  BY <1>1, <1>2, <1>3, <1>6 DEF Create, workerVars
<1>7. ASSUME NEW m \in Message, Publish(m) \/ PublishCopy(m) \/ GiveUp(m)
      PROVE  Decided(p)' /\ status'[p] = status[p]
  BY <1>3, <1>7 DEF Publish, PublishCopy, GiveUp, workerVars, paymentVars
<1>8. ASSUME NEW w \in Worker,
             \/ LoadWebhook(w) \/ GatewayAnswers(w) \/ PostSucceeds(w) \/ PostFails(w)
             \/ CommitRetry(w) \/ Ack(w) \/ \E d \in Delivery : Deliver(w, d)
      PROVE  Decided(p)' /\ status'[p] = status[p]
  <2>1. UNCHANGED paymentVars
    BY <1>8 DEF LoadWebhook, GatewayAnswers, PostSucceeds, PostFails, CommitRetry, Ack, Deliver
  <2>2. CASE LoadWebhook(w) \/ GatewayAnswers(w) \/ PostSucceeds(w) \/ PostFails(w) \/ CommitRetry(w)
    <3>1. Quiet
      BY <1>1, <2>2 DEF LoadWebhook, GatewayAnswers, PostSucceeds, PostFails, CommitRetry
    <3> QED
      BY <1>3, <2>1, <3>1 DEF paymentVars
  <2>3. CASE Ack(w) \/ \E d \in Delivery : Deliver(w, d)
    <3>1. Quiet
      BY <1>1, <2>3 DEF Ack, Idle, Deliver
    <3> QED
      BY <1>3, <2>1, <3>1 DEF paymentVars
  <2> QED
    BY <1>8, <2>2, <2>3
<1>9. ASSUME (\E w \in Worker : Raise(w) \/ PoolTimeout(w)) \/ ConnectionLost \/ Crash \/ UNCHANGED vars
      PROVE  Decided(p)' /\ status'[p] = status[p]
  <2>1. UNCHANGED paymentVars
    BY <1>9 DEF Raise, PoolTimeout, ConnectionLost, Crash, vars
  <2>2. Quiet
    BY <1>9 DEF Raise, PoolTimeout, ConnectionLost, Crash, Idle, vars, workerVars
  <2> QED
    BY <1>3, <2>1, <2>2 DEF paymentVars
<1> QED
  BY <1>4, <1>5, <1>6, <1>7, <1>8, <1>9 DEF Next, Handle

\* A decision that no handler is working on any more is final.
THEOREM DecisionsAreFinal == Spec => DecidedIsFinal
<1>1. ConsumerInv /\ [Next]_vars
        => [\A p \in Payment : Decided(p) => Decided(p)' /\ status'[p] = status[p]]_vars
  BY DecidedStep DEF ConsumerInv
<1> QED
  BY <1>1, ConsumerInvariant, PTL DEF Spec, DecidedIsFinal

-----------------------------------------------------------------------------
(* The refinement of PaymentLife.                                          *)

DecidedOf == [p \in Payment |-> ever[p] \ {"pending"}]

\* Each step is one of PaymentLife, or none.
LEMMA LifeStep ==
  ASSUME Core, [Next]_vars
  PROVE  [Life!Next]_<<status, DecidedOf, told>>
<1>1. ConsumerTypeOK /\ HandlerInv /\ MessageInv /\ EverInv
  BY DEF Core
<1>2. \A w \in Worker : pc[w] # "idle" => P(w) \in Payment
  BY <1>1, DeliveryFields, MessageFields DEF HandlerInv, P
<1>3. CASE UNCHANGED <<status, ever, told>>
  BY <1>3 DEF DecidedOf
<1>4. ASSUME NEW p \in Payment, Create(p)
      PROVE  Life!Next
  <2>1. /\ status[p] = "absent" /\ status' = [status EXCEPT ![p] = "pending"]
        /\ ever' = [ever EXCEPT ![p] = {"pending"}] /\ told' = told
    BY <1>4 DEF Create, outsideVars
  <2>2. ever[p] = {}
    BY <1>1, <2>1 DEF EverInv
  <2>3. DecidedOf' = DecidedOf
    BY <1>1, <2>1, <2>2 DEF DecidedOf, ConsumerTypeOK
  <2>4. Life!Create(p)
    BY <2>1, <2>3 DEF Life!Create, DecidedOf
  <2> QED
    BY <2>4 DEF Life!Next
<1>5. ASSUME NEW w \in Worker, CommitProcessed(w)
      PROVE  Life!Next
  <2>1. PICK p \in Payment, o \in Terminal : p = P(w) /\ o = copy[w]
    BY <1>1, <1>2, <1>5 DEF CommitProcessed, HandlerInv
  <2>2. /\ status[p] # "absent" /\ status' = [status EXCEPT ![p] = o]
        /\ ever' = [ever EXCEPT ![p] = @ \cup {o}] /\ told' = told
    BY <1>1, <1>5, <2>1 DEF CommitProcessed, outsideVars, MessageInv, Ready, P
  <2>3. o # "pending"
    BY <2>1 DEF Terminal
  <2>4. DecidedOf' = [DecidedOf EXCEPT ![p] = @ \cup {o}]
    BY <1>1, <2>2, <2>3 DEF DecidedOf, ConsumerTypeOK
  <2>5. Life!Decide(p, o)
    BY <2>2, <2>4 DEF Life!Decide, DecidedOf
  <2> QED
    BY <2>1, <2>5 DEF Life!Next
<1>6. ASSUME NEW w \in Worker, PostSucceeds(w) \/ PostFails(w)
      PROVE  [Life!Next]_<<status, DecidedOf, told>>
  <2>1. PICK p \in Payment, o \in Terminal : p = P(w) /\ o = copy[w] /\ o \in ever[p]
    BY <1>1, <1>2, <1>6 DEF PostSucceeds, PostFails, HandlerInv
  <2>2. UNCHANGED <<status, ever>> /\ (told' = told \/ told' = [told EXCEPT ![p] = @ \cup {o}])
    BY <1>6, <2>1 DEF PostSucceeds, PostFails, paymentVars
  <2>3. CASE told' = told
    BY <1>3, <2>2, <2>3
  <2>4. CASE told' = [told EXCEPT ![p] = @ \cup {o}]
    <3>1. DecidedOf' = DecidedOf /\ o \in DecidedOf[p]
      BY <2>1, <2>2 DEF DecidedOf, Terminal
    <3>2. Life!Announce(p, o)
      BY <2>2, <2>4, <3>1 DEF Life!Announce, DecidedOf
    <3> QED
      BY <2>1, <3>2 DEF Life!Next
  <2> QED
    BY <2>2, <2>3, <2>4
<1>7. ASSUME NEW w \in Worker,
             \/ LoadNew(w) \/ LoadWebhook(w) \/ GatewayAnswers(w) \/ CommitRetry(w) \/ Ack(w)
             \/ Raise(w) \/ PoolTimeout(w) \/ \E d \in Delivery : Deliver(w, d)
      PROVE  UNCHANGED <<status, ever, told>>
  BY <1>7 DEF LoadNew, LoadWebhook, GatewayAnswers, CommitRetry, Ack, Raise, PoolTimeout, Deliver,
              paymentVars, outsideVars
<1>8. ASSUME (\E m \in Message : Publish(m) \/ PublishCopy(m) \/ GiveUp(m))
                \/ ConnectionLost \/ Crash \/ UNCHANGED vars
      PROVE  UNCHANGED <<status, ever, told>>
  BY <1>8 DEF Publish, PublishCopy, GiveUp, ConnectionLost, Crash, vars, paymentVars, outsideVars
<1> QED
  BY <1>3, <1>4, <1>5, <1>6, <1>7, <1>8 DEF Next, Handle

\* Every step of the consumer is a step in the life of one payment, or none:
\* created once, decided only after that, announced only as decided.
THEOREM ConsumerImplementsPaymentLife == Spec => ImplementsPaymentLife
<1>1. Init => Life!Init
  BY DEF Init, Life!Init
<1>2. ConsumerInv /\ [Next]_vars => [Life!Next]_Life!lifeVars
  BY LifeStep DEF ConsumerInv, Life!lifeVars, DecidedOf
<1> QED
  BY <1>1, <1>2, ConsumerInvariant, PTL DEF Spec, ImplementsPaymentLife, Life!Spec
=============================================================================
