-------------------------- MODULE PaymentCreation --------------------------
(***************************************************************************)
(* POST /api/v1/payments: concurrent requests, each in a session of its    *)
(* own, create a payment or find the one that their idempotency key        *)
(* already has (CreatePaymentInteractor, SAPGPaymentGateway, the unique    *)
(* index of payments_t and the exception handlers of create_app).          *)
(*                                                                         *)
(* A request draws the uuid of the payment it may insert, so payments are  *)
(* named by the requests that inserted them.  One statement on the         *)
(* database is one action.  A transaction sees what others have committed  *)
(* (READ COMMITTED); what it has inserted itself stays its own, holding    *)
(* the entry of the unique index, until it commits.                        *)
(***************************************************************************)
EXTENDS Naturals

CONSTANTS
  Request,    \* requests, a client's retries included
  Key,        \* idempotency keys
  KeyOf,      \* the Idempotency-Key header of each request
  MaxFaults,  \* bound: database errors and killed workers
  Nobody      \* the holder of a free lock

\* Answers that are not a payment.  "error" is any status from 429 to 503,
\* "gone" a connection that dies with the worker.
NoPayment == {"none", "error", "gone"}

ASSUME CreationAssumption ==
  /\ KeyOf \in [Request -> Key]
  /\ MaxFaults \in Nat
  /\ Nobody \notin Request
  /\ Request \cap NoPayment = {}

VARIABLES
  payments,  \* committed rows of payments
  events,    \* committed payments.new rows of outbox_events, by payment
  holder,    \* per key, who locks its row or holds its uncommitted index entry
  pc,        \* where each request is in create_payment / execute
  found,     \* the payment each request is to answer with
  reply,     \* what the client has been answered
  faults     \* database errors and kills so far

vars == <<payments, events, holder, pc, found, reply, faults>>

CreationTypeOK ==
  /\ payments \subseteq Request
  /\ events \subseteq Request
  /\ holder \in [Key -> Request \cup {Nobody}]
  /\ pc \in [Request -> {"received", "new", "flushed", "answering", "done"}]
  /\ found \in [Request -> Request \cup {Nobody}]
  /\ reply \in [Request -> Request \cup NoPayment]
  /\ faults \in 0..MaxFaults

Init ==
  /\ payments = {}
  /\ events = {}
  /\ holder = [k \in Key |-> Nobody]
  /\ pc = [r \in Request |-> "received"]
  /\ found = [r \in Request |-> Nobody]
  /\ reply = [r \in Request |-> "none"]
  /\ faults = 0

-----------------------------------------------------------------------------
Of(k) == {p \in payments : KeyOf[p] = k}
Released(r) == [k \in Key |-> IF holder[k] = r THEN Nobody ELSE holder[k]]

\* Faulty variants, each the slip a mutant puts in place of the definition
\* after it: the query without its filter, the test on None inverted.
LookupFindsAnyKey(r) ==
  /\ pc[r] = "received"
  /\ holder[KeyOf[r]] = Nobody
  /\ \E p \in payments : found' = [found EXCEPT ![r] = p]
  /\ holder' = [holder EXCEPT ![KeyOf[r]] = r]
  /\ pc' = [pc EXCEPT ![r] = "answering"]
  /\ UNCHANGED <<payments, events, reply, faults>>
LookupMissesAnswers(r) ==
  /\ pc[r] = "received"
  /\ Of(KeyOf[r]) = {}
  /\ pc' = [pc EXCEPT ![r] = "answering"]
  /\ UNCHANGED <<payments, events, holder, found, reply, faults>>

\* get_by_idempotency_key finds a committed row and locks it FOR UPDATE,
\* waiting for whoever has it locked.
LookupFinds(r) ==
  /\ pc[r] = "received"
  /\ holder[KeyOf[r]] = Nobody
  /\ \E p \in Of(KeyOf[r]) : found' = [found EXCEPT ![r] = p]
  /\ holder' = [holder EXCEPT ![KeyOf[r]] = r]
  /\ pc' = [pc EXCEPT ![r] = "answering"]
  /\ UNCHANGED <<payments, events, reply, faults>>

\* get_by_idempotency_key returns None: there is no row to lock, and an
\* insert that is not committed is not seen.
LookupMisses(r) ==
  /\ pc[r] = "received"
  /\ Of(KeyOf[r]) = {}
  /\ pc' = [pc EXCEPT ![r] = "new"]
  /\ UNCHANGED <<payments, events, holder, found, reply, faults>>

\* Faulty: no unique index on the key.
FlushWithoutIndex(r) ==
  /\ pc[r] = "new"
  /\ pc' = [pc EXCEPT ![r] = "flushed"]
  /\ UNCHANGED <<payments, events, holder, found, reply, faults>>

\* The flush in tx.commit() inserts the payment and its event.  An
\* uncommitted insert of the same key makes it wait.
Flush(r) ==
  /\ pc[r] = "new"
  /\ Of(KeyOf[r]) = {}
  /\ holder[KeyOf[r]] = Nobody
  /\ holder' = [holder EXCEPT ![KeyOf[r]] = r]
  /\ pc' = [pc EXCEPT ![r] = "flushed"]
  /\ UNCHANGED <<payments, events, found, reply, faults>>

\* Faulty: the event is left to a transaction of its own.
CommitPaymentOnly(r) ==
  /\ pc[r] = "flushed"
  /\ payments' = payments \cup {r}
  /\ found' = [found EXCEPT ![r] = r]
  /\ holder' = Released(r)
  /\ pc' = [pc EXCEPT ![r] = "answering"]
  /\ UNCHANGED <<events, reply, faults>>

\* The commit makes both rows visible.
Commit(r) ==
  /\ pc[r] = "flushed"
  /\ payments' = payments \cup {r}
  /\ events' = events \cup {r}
  /\ found' = [found EXCEPT ![r] = r]
  /\ holder' = Released(r)
  /\ pc' = [pc EXCEPT ![r] = "answering"]
  /\ UNCHANGED <<reply, faults>>

\* 202 with the DTO of the payment; the session closes.
Answer(r) ==
  /\ pc[r] = "answering"
  /\ reply' = [reply EXCEPT ![r] = found[r]]
  /\ holder' = Released(r)
  /\ pc' = [pc EXCEPT ![r] = "done"]
  /\ UNCHANGED <<payments, events, found, faults>>

\* The request ends without a payment: its transaction is rolled back.
End(r, answer) ==
  /\ reply' = [reply EXCEPT ![r] = answer]
  /\ holder' = Released(r)
  /\ pc' = [pc EXCEPT ![r] = "done"]
  /\ UNCHANGED found

\* Faulty: IntegrityError is swallowed, or the index is not on the key.
FlushConflictSwallowed(r) ==
  /\ pc[r] = "new"
  /\ Of(KeyOf[r]) # {}
  /\ End(r, r)
  /\ UNCHANGED <<payments, events, faults>>
FlushConflictsOnAnyKey(r) ==
  /\ pc[r] = "new"
  /\ payments # {}
  /\ End(r, "error")
  /\ UNCHANGED <<payments, events, faults>>

\* The unique index refuses the insert: IntegrityError, which no handler
\* of create_app takes, so 500.
FlushConflicts(r) ==
  /\ pc[r] = "new"
  /\ Of(KeyOf[r]) # {}
  /\ End(r, "error")
  /\ UNCHANGED <<payments, events, faults>>

\* A statement raises or the worker dies.  The commit may have been carried
\* out by then.
Fails(r, answer) ==
  /\ pc[r] # "done"
  /\ faults < MaxFaults
  /\ faults' = faults + 1
  /\ End(r, answer)
  /\ \/ UNCHANGED <<payments, events>>
     \/ pc[r] = "flushed" /\ payments' = payments \cup {r} /\ events' = events \cup {r}

Step(r) == \/ LookupFinds(r) \/ LookupMisses(r) \/ Flush(r) \/ FlushConflicts(r)
           \/ Commit(r) \/ Answer(r)

Next == \E r \in Request : Step(r) \/ \E answer \in {"error", "gone"} : Fails(r, answer)

Spec == Init /\ [][Next]_vars

-----------------------------------------------------------------------------
\* However the requests interleave, a key never has two payments.
OnePaymentPerKey == \A p, q \in payments : KeyOf[p] = KeyOf[q] => p = q

\* A payment and its payments.new event are stored together or not at all,
\* also when the commit is cut short.
PaymentIffEvent == payments = events

\* A 202 names a stored payment of the request's own key, so all requests
\* with a key that are answered 202 are told of one payment.
RepliesAreTrue ==
  \A r \in Request : reply[r] \notin NoPayment =>
    reply[r] \in payments /\ KeyOf[reply[r]] = KeyOf[r]

\* Only a fault or a competitor with the same key makes a request fail.
ErrorHasCause ==
  \A r \in Request : reply[r] \in {"error", "gone"} =>
    faults > 0 \/ \E p \in payments \ {r} : KeyOf[p] = KeyOf[r]

\* What the README says of a duplicate: it is answered with the payment that
\* the key has, unless something breaks.
DuplicateGetsThePayment ==
  faults = 0 => \A r \in Request : reply[r] # "error"

\* What a request knows at each step: the inductive strengthening.
CreationIndInv ==
  /\ CreationTypeOK /\ OnePaymentPerKey /\ PaymentIffEvent /\ RepliesAreTrue
  /\ \A r \in Request :
       /\ pc[r] = "flushed" => holder[KeyOf[r]] = r /\ Of(KeyOf[r]) = {}
       /\ pc[r] = "answering" => found[r] \in Of(KeyOf[r])
       /\ pc[r] # "done" => reply[r] = "none"

\* The interactor implements a map from keys to payments that is filled once.
Service == INSTANCE IdempotentCreate

ImplementsIdempotentCreate == Service!Spec
=============================================================================
