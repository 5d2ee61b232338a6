---------------------------- MODULE AtLeastOnce ----------------------------
(***************************************************************************)
(* What the outbox relay promises of an event once its transaction has     *)
(* committed, whatever the number of schedulers and whenever they stop:    *)
(* the event is never forgotten, it is recorded as sent only after the     *)
(* broker has it, and that record is final.  It does not promise that the  *)
(* broker gets the event once, nor that giving up is final.                *)
(***************************************************************************)
CONSTANT Event

VARIABLES
  stage,  \* what the table says of an event
  sent    \* the events the broker has had

Init ==
  /\ stage = [e \in Event |-> "unknown"]
  /\ sent = {}

\* An event is stored, to be relayed or already given up.
Store(e) ==
  /\ stage[e] = "unknown"
  /\ \E st \in {"waiting", "dead"} : stage' = [stage EXCEPT ![e] = st]
  /\ UNCHANGED sent

\* The broker gets the event, possibly again.
Send(e) ==
  /\ stage[e] # "unknown"
  /\ sent' = sent \cup {e}
  /\ UNCHANGED stage

\* The event is recorded as sent.
Settle(e) ==
  /\ e \in sent
  /\ stage[e] \in {"waiting", "dead"}
  /\ stage' = [stage EXCEPT ![e] = "done"]
  /\ UNCHANGED sent

\* An event that waits is given up, or one given up waits again.
GiveUpOrRevive(e) ==
  /\ stage[e] \in {"waiting", "dead"}
  /\ stage' = [stage EXCEPT ![e] = IF @ = "dead" THEN "waiting" ELSE "dead"]
  /\ UNCHANGED sent

Next == \E e \in Event : Store(e) \/ Send(e) \/ Settle(e) \/ GiveUpOrRevive(e)

Spec == Init /\ [][Next]_<<stage, sent>>
=============================================================================
