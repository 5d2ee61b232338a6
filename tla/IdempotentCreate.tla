-------------------------- MODULE IdempotentCreate --------------------------
(***************************************************************************)
(* What the create endpoint promises: a key gets at most one payment, in   *)
(* one step and together with the event that announces it; a request is    *)
(* answered once, with that payment or with no payment at all.             *)
(***************************************************************************)
CONSTANTS Request, Key, KeyOf

VARIABLES
  payments,  \* the payments, named by the requests that made them
  events,    \* the payments that an event announces
  reply      \* what each request has been answered

Init ==
  /\ payments = {}
  /\ events = {}
  /\ reply = [r \in Request |-> "none"]

Free(k) == \A p \in payments : KeyOf[p] # k

\* The request makes its payment.
Create(r) ==
  /\ reply[r] = "none"
  /\ Free(KeyOf[r])
  /\ payments' = payments \cup {r}
  /\ events' = events \cup {r}
  /\ UNCHANGED reply

\* It is told which payment its key has.
Accept(r) ==
  /\ reply[r] = "none"
  /\ \E p \in payments : KeyOf[p] = KeyOf[r] /\ reply' = [reply EXCEPT ![r] = p]
  /\ UNCHANGED <<payments, events>>

\* It fails; whether its payment was made the client is not told.
Refuse(r) ==
  /\ reply[r] = "none"
  /\ \E answer \in {"error", "gone"} : reply' = [reply EXCEPT ![r] = answer]
  /\ \/ UNCHANGED <<payments, events>>
     \/ Free(KeyOf[r]) /\ payments' = payments \cup {r} /\ events' = events \cup {r}

Next == \E r \in Request : Create(r) \/ Accept(r) \/ Refuse(r)

Spec == Init /\ [][Next]_<<payments, events, reply>>
=============================================================================
