---------------------------- MODULE PaymentSystem ----------------------------
(***************************************************************************)
(* The processes of docker-compose.yml around PaymentConsumer, from an     *)
(* empty database and an empty broker: the migration, the API, the outbox  *)
(* scheduler and the consumer start in any order that depends_on allows,   *)
(* stop, and are started again by somebody.                                *)
(*                                                                         *)
(* Queues and bindings are durable.  The publisher declares the queues,    *)
(* but only the subscribers of the consumer bind them: a message that is   *)
(* published before that is confirmed and reaches no queue.                *)
(***************************************************************************)
EXTENDS PaymentConsumer, Migration

CONSTANT DebugEnv  \* the variable DEBUG: "unset", "yes" or "no"

ASSUME SystemAssumption == DebugEnv \in {"unset", "yes", "no"}

Service == {"api", "outbox-scheduler", "consumer"}
Queue == {"payments.new", "payments.webhook"}

VARIABLES
  running,     \* the services that run
  loops,       \* those whose run_scheduler_loop goes on
  bound,       \* the queues bound to the exchange `payments'
  subscribed,  \* the queues the consumer reads
  unrouted     \* messages that were published to no queue, counted

serviceVars == <<running, loops>>
topologyVars == <<bound, subscribed, unrouted>>
systemVars == <<vars, migrationVars, serviceVars, topologyVars>>

SystemInit ==
  /\ Init
  /\ MigrationInit
  /\ running = {}
  /\ loops = {}
  /\ bound = {}
  /\ subscribed = {}
  /\ unrouted = [m \in Message |-> 0]

-----------------------------------------------------------------------------
(* Processes.                                                              *)

\* Config.from_env: _env_bool with the default of the class.
EnvBool(value, default) == IF value = "unset" THEN default ELSE value = "yes"
Debug == EnvBool(DebugEnv, TRUE)

\* The services whose process runs a scheduler.
WithLoop == {"outbox-scheduler"} \cup IF Debug THEN {"api"} ELSE {}

\* Somebody starts a service; the compose file waits for the migration.
Start(s) ==
  /\ s \notin running
  /\ database.revision # "base"
  /\ command = "none"
  /\ running' = running \cup {s}
  /\ loops' = loops \cup ({s} \cap WithLoop)
  /\ UNCHANGED <<vars, migrationVars, topologyVars>>

\* app.run starts the subscribers one by one: each declares its queue and
\* the exchange, binds the queue and consumes from it.
Subscribe(q) ==
  /\ "consumer" \in running
  /\ q \notin subscribed
  /\ bound' = bound \cup {q}
  /\ subscribed' = subscribed \cup {q}
  /\ UNCHANGED <<vars, migrationVars, serviceVars, unrouted>>

\* A process is killed, or raises to its end.  None has a restart policy.
End(s) ==
  /\ s \in running
  /\ faults < MaxFaults
  /\ faults' = faults + 1
  /\ running' = running \ {s}
  /\ loops' = loops \ {s}
  /\ IF s = "consumer"
     THEN GiveBack(Worker) /\ Idle(Worker) /\ subscribed' = {}
     ELSE UNCHANGED <<brokerVars, workerVars, subscribed, again>>
  /\ UNCHANGED <<paymentVars, rowVars, outsideVars, migrationVars, bound, unrouted>>

\* An exception ends the loop in the API process; the API goes on.
LoopEnds ==
  /\ "api" \in loops
  /\ faults < MaxFaults
  /\ faults' = faults + 1
  /\ loops' = loops \ {"api"}
  /\ UNCHANGED <<paymentVars, rowVars, brokerVars, workerVars, outsideVars, again,
                 migrationVars, running, topologyVars>>

-----------------------------------------------------------------------------
(* What the processes do.                                                  *)

Unchanged == UNCHANGED <<migrationVars, serviceVars, topologyVars>>

ApiCreates(p) == "api" \in running /\ Create(p) /\ Unchanged

\* The confirmation of an unrouted message does not raise (on_return_raises
\* is off), so the row is marked as published; or it stays, as after a stop.
PublishUnrouted(m) ==
  /\ rows[m] > 0
  /\ unrouted' = Plus(unrouted, m, 1)
  /\ \/ rows' = [rows EXCEPT ![m] = @ - 1] /\ UNCHANGED again
     \/ again < MaxCopies /\ again' = again + 1 /\ UNCHANGED rows
  /\ UNCHANGED <<paymentVars, deadRows, brokerVars, workerVars, outsideVars, faults,
                 migrationVars, serviceVars, bound, subscribed>>

Relays(m) ==
  /\ loops # {}
  /\ IF m.type \in bound THEN (Publish(m) \/ PublishCopy(m)) /\ Unchanged
                         ELSE PublishUnrouted(m)
RelayGivesUp(m) == loops # {} /\ GiveUp(m) /\ Unchanged

Delivers(w, d) == d.msg.type \in subscribed /\ Deliver(w, d) /\ Unchanged

Handles(w) == Handle(w) /\ Unchanged

\* The compose file upgrades on every `up', whatever else runs.  A downgrade
\* is somebody's command, here one on a database that nothing uses.
Migrates ==
  /\ \/ BeginMigration("upgrade")
     \/ BeginMigration("downgrade") /\ running = {} /\ \A p \in Payment : status[p] = "absent"
     \/ Execute \/ CommitMigration \/ AbortMigration
  /\ UNCHANGED <<vars, serviceVars, topologyVars>>

SystemNext ==
  \/ Migrates
  \/ \E s \in Service : Start(s) \/ End(s)
  \/ LoopEnds
  \/ \E q \in Queue : Subscribe(q)
  \/ \E p \in Payment : ApiCreates(p)
  \/ \E m \in Message : Relays(m) \/ RelayGivesUp(m)
  \/ \E w \in Worker, d \in Delivery : Delivers(w, d)
  \/ \E w \in Worker : Handles(w) \/ ((Raise(w) \/ PoolTimeout(w)) /\ Unchanged)
  \/ ConnectionLost /\ Unchanged

SystemSpec == SystemInit /\ [][SystemNext]_systemVars

\* As PaymentConsumer has it, and a started consumer subscribes.  Nothing
\* promises that a service is ever started.
SystemFairSpec ==
  /\ SystemSpec
  /\ \A q \in Queue : WF_systemVars(Subscribe(q))
  /\ \A m \in Message : WF_systemVars(Relays(m))
  /\ WF_systemVars(\E w \in Worker, d \in Delivery : Delivers(w, d))
  /\ \A w \in Worker : WF_systemVars(Handles(w))

-----------------------------------------------------------------------------
Unrouted(p, type) == \E m \in Message : m.payment = p /\ m.type = type /\ unrouted[m] > 0

\* In whatever order services start, stop and start again, a payment is
\* pending only while a message to process it is on its way, was given up,
\* or was published before its queue was bound; and the merchant of a
\* processed one knows, unless the same holds of the webhook's message.
\* There is no other loss.
Accounted(p, type) == OnTheirWay(p, type) \/ GivenUp(p, type) \/ Unrouted(p, type)
NoOtherLoss ==
  \A p \in Payment :
    /\ status[p] = "pending" => Accounted(p, "payments.new")
    /\ p \in HasUrl /\ status[p] \in Terminal => told[p] # {} \/ Accounted(p, "payments.webhook")

\* While a consumer and a scheduler are left running, every payment is
\* finally processed and its merchant told, or a message of it was given up
\* or unrouted.
Serving == "consumer" \in running /\ loops # {}
PaymentSettles ==
  <>[]Serving => \A p \in Payment : status[p] = "pending" ~>
    \/ \E type \in Queue : GivenUp(p, type) \/ Unrouted(p, type)
    \/ status[p] \in Terminal /\ (p \in HasUrl => told[p] # {})

\* What the README says: the event is published, the row is marked, and the
\* consumer processes the payment.
PublishedReachesItsQueue == \A m \in Message : unrouted[m] = 0
=============================================================================
