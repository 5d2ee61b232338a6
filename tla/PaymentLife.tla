---------------------------- MODULE PaymentLife ----------------------------
(***************************************************************************)
(* What the service promises of each payment: it is created once, decided  *)
(* after that, and the merchant hears only what has been decided.          *)
(*                                                                         *)
(* That a decision is final is not promised: of two handlers that have     *)
(* both found the payment pending, the later one decides again (see        *)
(* PaymentConsumer!OutcomeIsFinal).                                        *)
(***************************************************************************)
CONSTANTS Payment, Outcome

VARIABLES
  status,   \* the status of each payment
  decided,  \* the outcomes that each payment has had
  told      \* the outcomes that its merchant has been told of

lifeVars == <<status, decided, told>>

Init ==
  /\ status = [p \in Payment |-> "absent"]
  /\ decided = [p \in Payment |-> {}]
  /\ told = [p \in Payment |-> {}]

Create(p) ==
  /\ status[p] = "absent"
  /\ status' = [status EXCEPT ![p] = "pending"]
  /\ UNCHANGED <<decided, told>>

Decide(p, o) ==
  /\ status[p] # "absent"
  /\ status' = [status EXCEPT ![p] = o]
  /\ decided' = [decided EXCEPT ![p] = @ \cup {o}]
  /\ UNCHANGED told

Announce(p, o) ==
  /\ o \in decided[p]
  /\ told' = [told EXCEPT ![p] = @ \cup {o}]
  /\ UNCHANGED <<status, decided>>

Next ==
  \E p \in Payment : Create(p) \/ \E o \in Outcome : Decide(p, o) \/ Announce(p, o)

Spec == Init /\ [][Next]_lifeVars
=============================================================================
