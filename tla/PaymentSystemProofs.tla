-------------------------- MODULE PaymentSystemProofs --------------------------
(***************************************************************************)
(* Theorems about PaymentSystem: what is proved of the consumer by itself  *)
(* survives services that start, stop and migrate in any order, but for    *)
(* the messages that were published before their queue was bound; and the  *)
(* commands keep the schema whole, whatever runs beside them.              *)
(***************************************************************************)
EXTENDS PaymentSystem, PaymentEffectsProofs, MigrationProofs

\* Services and the topology: a loop lives in a service that runs, and the
\* consumer is the only one to handle messages, from queues that are bound.
TopologyInv ==
  /\ running \subseteq Service
  /\ loops \subseteq running
  /\ bound \subseteq Queue
  /\ subscribed \subseteq bound
  /\ unrouted \in [Message -> Nat]

\* What PaymentConsumer keeps of each payment, or it was published unrouted.
PaymentsKept ==
  \A p \in Payment :
    /\ PendingKept(p) \/ Unrouted(p, "payments.new")
    /\ OutcomeKept(p) \/ Unrouted(p, "payments.webhook")

SystemInv == Core /\ TopologyInv /\ MigrationInv /\ PaymentsKept

-----------------------------------------------------------------------------
(* The steps: most are steps of the consumer, or of none of its variables.  *)

\* A message that reaches no queue, as a step of the consumer's variables.
Unroutes(m) == Relays(m) /\ m.type \notin bound

\* A step of the system is one of the consumer by itself, the end of a
\* service or of its loop, or a message that reaches no queue.
LEMMA SystemSteps ==
  ASSUME [SystemNext]_systemVars
  PROVE  \/ [Next]_vars /\ unrouted' = unrouted
         \/ (\E s \in Service : End(s)) \/ LoopEnds
         \/ \E m \in Message : Unroutes(m)
<1>1. CASE UNCHANGED systemVars
  BY <1>1 DEF systemVars, topologyVars
<1>2. CASE Migrates
  BY <1>2 DEF Migrates, topologyVars
<1>3. ASSUME NEW s \in Service, Start(s)
      PROVE  [Next]_vars /\ unrouted' = unrouted
  BY <1>3 DEF Start, topologyVars
<1>4. ASSUME NEW q \in Queue, Subscribe(q)
      PROVE  [Next]_vars /\ unrouted' = unrouted
  BY <1>4 DEF Subscribe
<1>5. ASSUME NEW p \in Payment, ApiCreates(p)
      PROVE  [Next]_vars /\ unrouted' = unrouted
  BY <1>5 DEF ApiCreates, Next, Unchanged, topologyVars
<1>6. ASSUME NEW m \in Message, Relays(m) \/ RelayGivesUp(m)
      PROVE  ([Next]_vars /\ unrouted' = unrouted) \/ Unroutes(m)
  BY <1>6 DEF Relays, RelayGivesUp, Next, Unchanged, topologyVars, Unroutes
<1>7. ASSUME NEW w \in Worker, NEW d \in Delivery, Delivers(w, d)
      PROVE  [Next]_vars /\ unrouted' = unrouted
  BY <1>7 DEF Delivers, Next, Unchanged, topologyVars
<1>8. ASSUME NEW w \in Worker, Handles(w) \/ ((Raise(w) \/ PoolTimeout(w)) /\ Unchanged)
      PROVE  [Next]_vars /\ unrouted' = unrouted
  BY <1>8 DEF Handles, Next, Unchanged, topologyVars
<1>9. CASE ConnectionLost /\ Unchanged
  BY <1>9 DEF Next, Unchanged, topologyVars
<1> QED
  BY <1>1, <1>2, <1>3, <1>4, <1>5, <1>6, <1>7, <1>8, <1>9 DEF SystemNext

\* A stopped consumer gives its messages back; any other service has none.
LEMMA EndOfService ==
  ASSUME Core, (\E s \in Service : End(s)) \/ LoopEnds
  PROVE  Core' /\ NothingForgotten /\ unrouted' = unrouted
<1>1. faults' \in 0..MaxFaults /\ unrouted' = unrouted
  <2>1. faults \in 0..MaxFaults /\ MaxFaults \in Nat
    BY ConsumerAssumption DEF Core, ConsumerTypeOK
  <2>2. faults < MaxFaults /\ faults' = faults + 1 /\ unrouted' = unrouted
    BY DEF End, LoopEnds, topologyVars
  <2> QED
    BY <2>1, <2>2
<1>2. ASSUME End("consumer")
      PROVE  Core' /\ NothingForgotten
  <2>1. GiveBack(Worker) /\ Idle(Worker) /\ UNCHANGED <<paymentVars, rowVars, outsideVars>>
    BY <1>2 DEF End
  <2> QED
    BY <1>1, <2>1, GiveBackStep
<1>3. ASSUME LoopEnds \/ \E s \in Service \ {"consumer"} : End(s)
      PROVE  Core' /\ NothingForgotten
  <2>1. UNCHANGED <<paymentVars, rowVars, brokerVars, workerVars, outsideVars, again>>
    BY <1>3 DEF End, LoopEnds
  <2>2. again \in Nat
    BY DEF Core, ConsumerTypeOK
  <2> QED
    BY <1>1, <2>1, <2>2, StutterStep
<1> QED
  BY <1>1, <1>2, <1>3

\* A message that reaches no queue is counted, and no other is touched.
LEMMA UnroutedStep ==
  ASSUME Core, TopologyInv, NEW m \in Message, Unroutes(m)
  PROVE  /\ Core'
         /\ unrouted' \in [Message -> Nat] /\ unrouted'[m] > 0
         /\ \A k \in Message : unrouted[k] > 0 => unrouted'[k] > 0
         /\ UNCHANGED <<paymentVars, outsideVars>>
         /\ \A k \in Message : k # m => (Here(k) => Here(k)')
<1>1. /\ rows[m] > 0 /\ unrouted' = Plus(unrouted, m, 1)
      /\ \/ rows' = [rows EXCEPT ![m] = @ - 1] /\ again' = again
         \/ again' = again + 1 /\ rows' = rows
      /\ UNCHANGED <<paymentVars, deadRows, brokerVars, workerVars, outsideVars, faults>>
  BY DEF Unroutes, Relays, PublishUnrouted
<1>2. /\ ConsumerTypeOK /\ HandlerInv /\ EverInv /\ MessageInv /\ WebhookIsTrue
      /\ unrouted \in [Message -> Nat]
  BY DEF Core, TopologyInv
<1>3. rows \in [Message -> Nat] /\ again \in Nat
  BY <1>2 DEF ConsumerTypeOK
<1>4. /\ unrouted' \in [Message -> Nat] /\ unrouted'[m] > 0
      /\ \A k \in Message : unrouted[k] > 0 => unrouted'[k] > 0
  BY <1>1, <1>2, PlusCounts
<1>5. /\ rows' \in [Message -> Nat] /\ again' \in Nat
      /\ \A k \in Message : (rows'[k] > 0 => rows[k] > 0) /\ (k # m => rows'[k] = rows[k])
  <2>1. /\ [rows EXCEPT ![m] = @ - 1] \in [Message -> Nat]
        /\ \A k \in Message : [rows EXCEPT ![m] = @ - 1][k] > 0 => rows[k] > 0
        /\ \A k \in Message : k # m => [rows EXCEPT ![m] = @ - 1][k] = rows[k]
    BY <1>1, <1>3, MinusCounts
  <2> QED
    BY <1>1, <1>3, <2>1
<1>6. Core'
  <2> USE DEF paymentVars, brokerVars, workerVars, outsideVars
  <2>1. ConsumerTypeOK'
    BY <1>1, <1>2, <1>5 DEF ConsumerTypeOK
  <2>2. HandlerInv' /\ EverInv' /\ WebhookIsTrue'
    BY <1>1, <1>2 DEF HandlerInv, EverInv, WebhookIsTrue, P
  <2>3. MessageInv'
    BY <1>1, <1>2, <1>5 DEF MessageInv, Ready
  <2> QED
    BY <2>1, <2>2, <2>3 DEF Core
<1>7. \A k \in Message : k # m => (Here(k) => Here(k)')
  BY <1>1, <1>5 DEF Here, Queued, InWork, Lost, brokerVars, workerVars
<1> QED
  BY <1>1, <1>4, <1>6, <1>7

\* Every step keeps the types of what is bound, subscribed and unrouted.
LEMMA TopologyStep ==
  ASSUME Core, TopologyInv, [SystemNext]_systemVars
  PROVE  TopologyInv'
<1>1. unrouted' \in [Message -> Nat]
  <2>1. CASE \E m \in Message : Unroutes(m)
    BY <2>1, UnroutedStep
  <2>2. CASE unrouted' = unrouted
    BY <2>2 DEF TopologyInv
  <2> QED
    BY <2>1, <2>2, SystemSteps, EndOfService
<1>2. /\ running' \subseteq Service /\ loops' \subseteq running'
      /\ bound' \subseteq Queue /\ subscribed' \subseteq bound'
  <2>1. CASE \E s \in Service : Start(s)
    BY <2>1 DEF TopologyInv, Start, topologyVars
  <2>2. CASE \E s \in Service : End(s)
    BY <2>2 DEF TopologyInv, End
  <2>3. CASE LoopEnds
    BY <2>3 DEF TopologyInv, LoopEnds, topologyVars
  <2>4. CASE \E q \in Queue : Subscribe(q)
    BY <2>4 DEF TopologyInv, Subscribe, serviceVars
  <2>5. CASE UNCHANGED <<serviceVars, bound, subscribed>>
    BY <2>5 DEF TopologyInv, serviceVars
  <2>6. ASSUME \/ Migrates \/ UNCHANGED systemVars
               \/ \E p \in Payment : ApiCreates(p)
               \/ \E m \in Message : Relays(m) \/ RelayGivesUp(m)
               \/ \E w \in Worker, d \in Delivery : Delivers(w, d)
               \/ \E w \in Worker : Handles(w) \/ ((Raise(w) \/ PoolTimeout(w)) /\ Unchanged)
               \/ ConnectionLost /\ Unchanged
        PROVE  UNCHANGED <<serviceVars, bound, subscribed>>
    BY <2>6 DEF Migrates, systemVars, topologyVars, ApiCreates, Relays, PublishUnrouted, RelayGivesUp,
                Delivers, Handles, Unchanged
  <2> QED
    BY <2>1, <2>2, <2>3, <2>4, <2>5, <2>6 DEF SystemNext
<1> QED
  BY <1>1, <1>2 DEF TopologyInv

-----------------------------------------------------------------------------
(* Commands.                                                               *)

\* Only a command changes the schema, whatever services run beside it.
LEMMA SchemaStep ==
  ASSUME MigrationInv, [SystemNext]_systemVars
  PROVE  MigrationInv'
<1>1. CASE Migrates
  BY <1>1, BeginStep, ExecuteStep, EndStep DEF Migrates
<1>2. ASSUME ~Migrates
      PROVE  UNCHANGED migrationVars
  BY <1>2 DEF SystemNext, Unchanged, systemVars, Start, End, LoopEnds, Subscribe, ApiCreates, Relays,
              PublishUnrouted, RelayGivesUp, Delivers, Handles
<1>3. ASSUME UNCHANGED migrationVars
      PROVE  MigrationInv'
  BY <1>3 DEF MigrationInv, At, migrationVars
<1> QED
  BY <1>1, <1>2, <1>3

-----------------------------------------------------------------------------
(* Payments.                                                               *)

\* Every step keeps the messages that are left to handle, the unrouted ones
\* included.
LEMMA PaymentsStep ==
  ASSUME Core, TopologyInv, PaymentsKept, [SystemNext]_systemVars
  PROVE  Core' /\ PaymentsKept'
<1>1. ASSUME Core', NothingForgotten, unrouted' = unrouted
      PROVE  Core' /\ PaymentsKept'
  <2>1. \A p, type : Unrouted(p, type) => Unrouted(p, type)'
    BY <1>1 DEF Unrouted
  <2> QED
    BY <1>1, <2>1 DEF PaymentsKept, NothingForgotten
<1>2. ASSUME NEW m \in Message, Unroutes(m)
      PROVE  Core' /\ PaymentsKept'
  <2>1. /\ Core'
        /\ unrouted'[m] > 0
        /\ \A k \in Message : unrouted[k] > 0 => unrouted'[k] > 0
        /\ status' = status /\ told' = told
        /\ \A k \in Message : k # m => (Here(k) => Here(k)')
    BY <1>2, UnroutedStep DEF paymentVars, outsideVars
  <2>2. \A p, type : Unrouted(p, type) => Unrouted(p, type)'
    BY <2>1 DEF Unrouted
  <2>3. \A p, type : Kept(p, type) => Kept(p, type)' \/ Unrouted(p, type)'
    BY <2>1 DEF Kept, Unrouted
  <2> QED
    BY <2>1, <2>2, <2>3 DEF PaymentsKept, PendingKept, OutcomeKept
<1>3. CASE [Next]_vars /\ unrouted' = unrouted
  BY <1>1, <1>3, ConsumerStep
<1>4. CASE (\E s \in Service : End(s)) \/ LoopEnds
  BY <1>1, <1>4, EndOfService
<1> QED
  BY <1>2, <1>3, <1>4, SystemSteps

\* Nothing has been migrated, started or declared.
LEMMA SystemInitially == SystemInit => SystemInv
<1> SUFFICES ASSUME SystemInit PROVE SystemInv
  OBVIOUS
<1>1. Core /\ \A p \in Payment : PendingKept(p) /\ OutcomeKept(p)
  BY ConsumerInitially DEF SystemInit, ConsumerInv
<1>2. TopologyInv
  BY DEF SystemInit, TopologyInv
<1>3. MigrationInv
  BY MigrationInitially DEF SystemInit
<1> QED
  BY <1>1, <1>2, <1>3 DEF SystemInv, PaymentsKept

\* Every step of the system keeps its invariant.
LEMMA SystemInductive == SystemInv /\ [SystemNext]_systemVars => SystemInv'
BY TopologyStep, SchemaStep, PaymentsStep DEF SystemInv

\* The inductive invariant of the whole system: payments, topology, schema.
THEOREM SystemInvariant == SystemSpec => []SystemInv
BY SystemInitially, SystemInductive, PTL DEF SystemSpec

-----------------------------------------------------------------------------
(* The theorems.                                                           *)

\* In whatever order the services start and stop: a pending payment is lost
\* to nothing but a dead letter or a queue that was not yet bound, and
\* neither is the word to the merchant of a processed one.
THEOREM NoPaymentIsLostOtherwise == SystemSpec => []NoOtherLoss
<1>1. SystemInv => NoOtherLoss
  BY KeptMessages DEF SystemInv, PaymentsKept, PendingKept, OutcomeKept, NoOtherLoss, Accounted
<1> QED
  BY <1>1, SystemInvariant, PTL

\* Starts, stops and unrouted messages keep within the budget of calls.
LEMMA SystemEffectsStep ==
  ASSUME Core, TopologyInv, PaymentsKept, EffectInv, [SystemNext]_systemVars
  PROVE  EffectInv'
<1>1. Core'
  BY PaymentsStep
<1>2. ASSUME NEW m \in Message, Unroutes(m)
      PROVE  EffectInv'
  <2>1. /\ rows[m] > 0 /\ UNCHANGED <<paymentVars, workerVars, outsideVars>>
        /\ \/ rows' = [rows EXCEPT ![m] = @ - 1] /\ again' = again
           \/ rows' = rows /\ again' = again + 1
        /\ queue' = queue
    BY <1>2 DEF Unroutes, Relays, PublishUnrouted, brokerVars
  <2> QED
    BY <1>1, <2>1, RelayBudget DEF EffectInv
<1>3. ASSUME NEW s \in Service, End(s)
      PROVE  EffectInv'
  <2>1. CASE s = "consumer"
    <3>1. GiveBack(Worker) /\ Idle(Worker) /\ UNCHANGED <<paymentVars, rowVars, outsideVars>>
      BY <1>3, <2>1 DEF End
    <3> QED
      BY <1>1, <3>1, GiveBackBudget DEF EffectInv
  <2>2. CASE s # "consumer"
    BY <1>3, <2>2, BudgetStutters DEF End
  <2> QED
    BY <2>1, <2>2
<1>4. CASE LoopEnds
  BY <1>4, BudgetStutters DEF LoopEnds
<1>5. CASE [Next]_vars
  BY <1>5, EffectsStep
<1> QED
  BY <1>2, <1>3, <1>4, <1>5, SystemSteps

\* However often the services are stopped and started again: only a message
\* that was returned or published twice makes the consumer call the gateway
\* or the merchant again.
THEOREM CallsAreCountedInSystem == SystemSpec => []EffectsAreCounted
<1>1. SystemInit => EffectInv
  BY EffectsInitially DEF SystemInit
<1>2. SystemInv /\ EffectInv /\ [SystemNext]_systemVars => EffectInv'
  BY SystemEffectsStep DEF SystemInv
<1>3. SystemInv /\ EffectInv => EffectsAreCounted
  BY BudgetBounds DEF SystemInv
<1> QED
  BY <1>1, <1>2, <1>3, SystemInvariant, PTL DEF SystemSpec

\* Whenever a command is cut short, the committed schema is whole or none.
THEOREM SchemaWhole == SystemSpec => []SchemaIsWholeOrNone
<1>1. SystemInv => SchemaIsWholeOrNone
  BY DEF SystemInv, MigrationInv, SchemaIsWholeOrNone
<1> QED
  BY <1>1, SystemInvariant, PTL

\* No statement of a migration fails, however often the schema is made and
\* removed.
THEOREM StatementsNeverFail == SystemSpec => []NoStatementFails
<1>1. SystemInv => NoStatementFails
  BY StatementsRun DEF SystemInv
<1> QED
  BY <1>1, SystemInvariant, PTL

\* A step of the system is a step in the life of one payment, or none.
LEMMA SystemLifeStep ==
  ASSUME Core, TopologyInv, [SystemNext]_systemVars
  PROVE  [Life!Next]_<<status, DecidedOf, told>>
<1>1. ASSUME UNCHANGED <<paymentVars, outsideVars>>
      PROVE  UNCHANGED <<status, DecidedOf, told>>
  BY <1>1 DEF paymentVars, outsideVars, DecidedOf
<1>2. ASSUME NEW m \in Message, Unroutes(m)
      PROVE  UNCHANGED <<paymentVars, outsideVars>>
  BY <1>2, UnroutedStep
<1>3. CASE (\E s \in Service : End(s)) \/ LoopEnds
  BY <1>1, <1>3 DEF End, LoopEnds
<1> QED
  BY <1>1, <1>2, <1>3, LifeStep, SystemSteps

\* The system as a whole implements the life of a payment: no start, stop or
\* migration lets a payment be created twice, decided before it is created,
\* or announced before it is decided.
THEOREM SystemImplementsPaymentLife == SystemSpec => ImplementsPaymentLife
<1>1. SystemInit => Life!Init
  BY DEF SystemInit, Init, Life!Init
<1>2. SystemInv /\ [SystemNext]_systemVars => [Life!Next]_Life!lifeVars
  BY SystemLifeStep DEF SystemInv, Life!lifeVars, DecidedOf
<1> QED
  BY <1>1, <1>2, SystemInvariant, PTL DEF SystemSpec, ImplementsPaymentLife, Life!Spec
=============================================================================
