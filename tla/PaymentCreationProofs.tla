----------------------- MODULE PaymentCreationProofs -----------------------
(***************************************************************************)
(* Theorems about the creation of payments, for any requests, keys and     *)
(* faults.  All rest on CreationIndInv.                                    *)
(***************************************************************************)
EXTENDS PaymentCreation, TLAPS

USE CreationAssumption DEF Of, NoPayment

\* No request has begun.
LEMMA InitIndInv == Init => CreationIndInv
<1> SUFFICES ASSUME Init PROVE CreationIndInv
  OBVIOUS
<1>1. CreationTypeOK
  BY DEF Init, CreationTypeOK
<1>2. OnePaymentPerKey /\ PaymentIffEvent /\ RepliesAreTrue
  BY DEF Init, OnePaymentPerKey, PaymentIffEvent, RepliesAreTrue
<1> QED
  BY <1>1, <1>2 DEF Init, CreationIndInv

\* Giving up the locks of one request leaves those of the others.
LEMMA ReleasedLocks ==
  ASSUME CreationTypeOK, NEW r \in Request
  PROVE  /\ Released(r) \in [Key -> Request \cup {Nobody}]
         /\ \A s \in Request \ {r}, k \in Key : holder[k] = s => Released(r)[k] = s
BY DEF Released, CreationTypeOK

\* A request that has not inserted anything moves on, taking the lock of its
\* key or not, with the payment it is to answer with.
LEMMA ReadStep ==
  ASSUME CreationIndInv, NEW r \in Request, LookupFinds(r) \/ LookupMisses(r) \/ Flush(r)
  PROVE  CreationIndInv'
<1>1. UNCHANGED <<payments, events, reply, faults>>
  BY DEF LookupFinds, LookupMisses, Flush
<1>2. CreationTypeOK'
  BY DEF CreationIndInv, CreationTypeOK, LookupFinds, LookupMisses, Flush
<1>3. OnePaymentPerKey' /\ PaymentIffEvent' /\ RepliesAreTrue'
  BY <1>1 DEF CreationIndInv, OnePaymentPerKey, PaymentIffEvent, RepliesAreTrue
<1>4. ASSUME NEW s \in Request
      PROVE  /\ pc'[s] = "flushed" => holder'[KeyOf[s]] = s /\ Of(KeyOf[s])' = {}
             /\ pc'[s] = "answering" => found'[s] \in Of(KeyOf[s])'
             /\ pc'[s] # "done" => reply'[s] = "none"
  <2>1. CASE s = r
    BY <2>1, <1>1 DEF CreationIndInv, CreationTypeOK, LookupFinds, LookupMisses, Flush
  <2>2. CASE s # r
    BY <2>2, <1>1 DEF CreationIndInv, CreationTypeOK, LookupFinds, LookupMisses, Flush
  <2> QED
    BY <2>1, <2>2
<1> QED
  BY <1>2, <1>3, <1>4 DEF CreationIndInv

\* The end of a request, with whatever answer is true by then.
LEMMA EndStep ==
  ASSUME CreationIndInv, NEW r \in Request, NEW answer \in Request \cup {"error", "gone"},
         pc' = [pc EXCEPT ![r] = "done"],
         reply' = [reply EXCEPT ![r] = answer],
         holder' = Released(r),
         UNCHANGED <<payments, events, found>>,
         faults' \in 0..MaxFaults,
         answer \in {"error", "gone"} \/ answer \in Of(KeyOf[r])
  PROVE  CreationIndInv'
<1>1. CreationTypeOK'
  BY ReleasedLocks DEF CreationIndInv, CreationTypeOK
<1>2. OnePaymentPerKey' /\ PaymentIffEvent'
  BY DEF CreationIndInv, OnePaymentPerKey, PaymentIffEvent
<1>3. RepliesAreTrue'
  BY DEF CreationIndInv, CreationTypeOK, RepliesAreTrue
<1>4. ASSUME NEW s \in Request
      PROVE  /\ pc'[s] = "flushed" => holder'[KeyOf[s]] = s /\ Of(KeyOf[s])' = {}
             /\ pc'[s] = "answering" => found'[s] \in Of(KeyOf[s])'
             /\ pc'[s] # "done" => reply'[s] = "none"
  <2>1. CASE s = r
    BY <2>1 DEF CreationIndInv, CreationTypeOK
  <2>2. CASE s # r
    <3>1. pc'[s] = pc[s] /\ reply'[s] = reply[s]
      BY <2>2 DEF CreationIndInv, CreationTypeOK
    <3>2. pc[s] = "flushed" => holder'[KeyOf[s]] = s
      BY <2>2, ReleasedLocks DEF CreationIndInv
    <3> QED
      BY <3>1, <3>2 DEF CreationIndInv
  <2> QED
    BY <2>1, <2>2
<1> QED
  BY <1>1, <1>2, <1>3, <1>4 DEF CreationIndInv

\* What a commit makes visible: the first payment of its key, and its event.
\* The request may then go on, or end without an answer that names it.
LEMMA StoreStep ==
  ASSUME CreationIndInv, NEW r \in Request, pc[r] = "flushed",
         payments' = payments \cup {r}, events' = events \cup {r},
         holder' = Released(r),
         faults' \in 0..MaxFaults,
         \/ /\ pc' = [pc EXCEPT ![r] = "answering"]
            /\ found' = [found EXCEPT ![r] = r]
            /\ UNCHANGED reply
         \/ /\ pc' = [pc EXCEPT ![r] = "done"]
            /\ \E answer \in {"error", "gone"} : reply' = [reply EXCEPT ![r] = answer]
            /\ UNCHANGED found
  PROVE  CreationIndInv'
<1>1. holder[KeyOf[r]] = r /\ Of(KeyOf[r]) = {}
  BY DEF CreationIndInv
<1>2. CreationTypeOK'
  <2>1. pc' \in [Request -> {"received", "new", "flushed", "answering", "done"}]
    BY DEF CreationIndInv, CreationTypeOK
  <2>2. reply' \in [Request -> Request \cup NoPayment]
    BY DEF CreationIndInv, CreationTypeOK
  <2>3. found' \in [Request -> Request \cup {Nobody}]
    BY DEF CreationIndInv, CreationTypeOK
  <2>4. payments' \subseteq Request /\ events' \subseteq Request
    BY DEF CreationIndInv, CreationTypeOK
  <2> QED
    BY <2>1, <2>2, <2>3, <2>4, ReleasedLocks DEF CreationIndInv, CreationTypeOK
<1>3. OnePaymentPerKey' /\ PaymentIffEvent'
  BY <1>1 DEF CreationIndInv, OnePaymentPerKey, PaymentIffEvent
<1>4. RepliesAreTrue'
  BY DEF CreationIndInv, CreationTypeOK, RepliesAreTrue
<1>5. ASSUME NEW s \in Request
      PROVE  /\ pc'[s] = "flushed" => holder'[KeyOf[s]] = s /\ Of(KeyOf[s])' = {}
             /\ pc'[s] = "answering" => found'[s] \in Of(KeyOf[s])'
             /\ pc'[s] # "done" => reply'[s] = "none"
  <2>1. CASE s = r
    BY <2>1 DEF CreationIndInv, CreationTypeOK
  <2>2. CASE s # r
    <3>1. pc'[s] = pc[s] /\ found'[s] = found[s] /\ reply'[s] = reply[s]
      BY <2>2 DEF CreationIndInv, CreationTypeOK
    <3>2. ASSUME pc[s] = "flushed"
          PROVE  holder'[KeyOf[s]] = s /\ Of(KeyOf[s])' = {}
      <4>1. holder[KeyOf[s]] = s /\ Of(KeyOf[s]) = {}
        BY <3>2 DEF CreationIndInv
      <4>2. KeyOf[s] # KeyOf[r]
        BY <1>1, <2>2, <4>1
      <4>3. holder'[KeyOf[s]] = s
        BY <2>2, <4>1, ReleasedLocks DEF CreationIndInv
      <4> QED
        BY <4>1, <4>2, <4>3
    <3> QED
      BY <3>1, <3>2 DEF CreationIndInv
  <2> QED
    BY <2>1, <2>2
<1> QED
  BY <1>2, <1>3, <1>4, <1>5 DEF CreationIndInv

\* Every step of a request keeps CreationIndInv.
LEMMA NextIndInv == CreationIndInv /\ [Next]_vars => CreationIndInv'
<1> SUFFICES ASSUME CreationIndInv, [Next]_vars PROVE CreationIndInv'
  OBVIOUS
<1>1. faults \in 0..MaxFaults
  BY DEF CreationIndInv, CreationTypeOK
<1>2. ASSUME NEW r \in Request, LookupFinds(r) \/ LookupMisses(r) \/ Flush(r)
      PROVE  CreationIndInv'
  BY <1>2, ReadStep
<1>3. ASSUME NEW r \in Request, Commit(r)
      PROVE  CreationIndInv'
  BY <1>1, <1>3, StoreStep DEF Commit
<1>4. ASSUME NEW r \in Request, Answer(r)
      PROVE  CreationIndInv'
  <2>1. found[r] \in Of(KeyOf[r]) /\ found[r] \in Request
    BY <1>4 DEF Answer, CreationIndInv, CreationTypeOK
  <2> QED
    BY <1>1, <1>4, <2>1, EndStep DEF Answer
<1>5. ASSUME NEW r \in Request, FlushConflicts(r)
      PROVE  CreationIndInv'
  BY <1>1, <1>5, EndStep DEF FlushConflicts, End
<1>6. ASSUME NEW r \in Request, NEW answer \in {"error", "gone"}, Fails(r, answer)
      PROVE  CreationIndInv'
  <2>1. faults' \in 0..MaxFaults
    BY <1>1, <1>6 DEF Fails
  <2>2. CASE UNCHANGED <<payments, events>>
    BY <1>6, <2>1, <2>2, EndStep DEF Fails, End
  <2>3. CASE pc[r] = "flushed" /\ payments' = payments \cup {r} /\ events' = events \cup {r}
    BY <1>6, <2>1, <2>3, StoreStep DEF Fails, End
  <2> QED
    BY <1>6, <2>2, <2>3 DEF Fails
<1>7. CASE UNCHANGED vars
  BY <1>7 DEF vars, CreationIndInv, CreationTypeOK, OnePaymentPerKey, PaymentIffEvent, RepliesAreTrue
<1> QED
  BY <1>2, <1>3, <1>4, <1>5, <1>6, <1>7 DEF Next, Step

\* The inductive invariant holds in every state of every instance.
THEOREM CreationInvariant == Spec => []CreationIndInv
BY InitIndInv, NextIndInv, PTL DEF Spec

\* However requests interleave, a key never has two payments.
THEOREM KeysAreUnique == Spec => []OnePaymentPerKey
<1>1. CreationIndInv => OnePaymentPerKey
  BY DEF CreationIndInv
<1> QED
  BY <1>1, CreationInvariant, PTL

\* No payment is stored without the event that starts its processing.
THEOREM StoredTogether == Spec => []PaymentIffEvent
<1>1. CreationIndInv => PaymentIffEvent
  BY DEF CreationIndInv
<1> QED
  BY <1>1, CreationInvariant, PTL

\* A 202 names a stored payment of the request's key.
THEOREM TrueReplies == Spec => []RepliesAreTrue
<1>1. CreationIndInv => RepliesAreTrue
  BY DEF CreationIndInv
<1> QED
  BY <1>1, CreationInvariant, PTL

-----------------------------------------------------------------------------
(* Why requests fail.                                                      *)

\* A request whose payment is stored has committed.
OwnIsCommitted == \A r \in Request : r \in payments => pc[r] \in {"answering", "done"}

CauseInv == CreationIndInv /\ OwnIsCommitted /\ ErrorHasCause

\* Every step of a request keeps the causes of its error.
LEMMA NextCauseInv == CauseInv /\ [Next]_vars => CauseInv'
<1> SUFFICES ASSUME CauseInv, [Next]_vars PROVE CauseInv'
  OBVIOUS
<1> USE DEF CauseInv, OwnIsCommitted, ErrorHasCause
<1>1. CreationIndInv /\ CreationIndInv'
  BY NextIndInv
<1>2. /\ pc \in [Request -> {"received", "new", "flushed", "answering", "done"}]
      /\ reply \in [Request -> Request \cup NoPayment]
      /\ faults \in Nat /\ payments \subseteq Request
      /\ \A r \in Request : pc[r] # "done" => reply[r] = "none"
  BY <1>1 DEF CreationIndInv, CreationTypeOK
<1>3. ASSUME NEW r \in Request, LookupFinds(r) \/ LookupMisses(r) \/ Flush(r)
      PROVE  OwnIsCommitted' /\ ErrorHasCause'
  BY <1>2, <1>3 DEF LookupFinds, LookupMisses, Flush
<1>4. ASSUME NEW r \in Request, Commit(r)
      PROVE  OwnIsCommitted' /\ ErrorHasCause'
  BY <1>2, <1>4 DEF Commit
<1>5. ASSUME NEW r \in Request, Answer(r)
      PROVE  OwnIsCommitted' /\ ErrorHasCause'
  <2>1. OwnIsCommitted'
    BY <1>2, <1>5 DEF Answer
  <2>2. found[r] \notin {"error", "gone"}
    BY <1>1, <1>5 DEF Answer, CreationIndInv, CreationTypeOK
  <2>3. ErrorHasCause'
    BY <1>2, <1>5, <2>2 DEF Answer
  <2> QED
    BY <2>1, <2>3
<1>6. ASSUME NEW r \in Request, FlushConflicts(r)
      PROVE  OwnIsCommitted' /\ ErrorHasCause'
  <2>1. \E p \in payments \ {r} : KeyOf[p] = KeyOf[r]
    BY <1>6 DEF FlushConflicts
  <2> QED
    BY <1>2, <1>6, <2>1 DEF FlushConflicts, End
<1>7. ASSUME NEW r \in Request, NEW answer \in {"error", "gone"}, Fails(r, answer)
      PROVE  OwnIsCommitted' /\ ErrorHasCause'
  BY <1>2, <1>7 DEF Fails, End
<1>8. ASSUME UNCHANGED vars
      PROVE  OwnIsCommitted' /\ ErrorHasCause'
  BY <1>8 DEF vars
<1> QED
  BY <1>1, <1>3, <1>4, <1>5, <1>6, <1>7, <1>8 DEF Next, Step

\* Only a fault, or a competitor with the same key, makes a request fail.
THEOREM FailuresHaveCauses == Spec => []ErrorHasCause
<1>1. Init => CauseInv
  BY InitIndInv DEF Init, CauseInv, OwnIsCommitted, ErrorHasCause
<1>2. CauseInv => ErrorHasCause
  BY DEF CauseInv
<1> QED
  BY <1>1, <1>2, NextCauseInv, PTL DEF Spec

-----------------------------------------------------------------------------
(* The refinement of IdempotentCreate.                                     *)

\* Each step is one of IdempotentCreate, or none.
LEMMA RefinesNext ==
  CreationIndInv /\ [Next]_vars => [Service!Next]_<<payments, events, reply>>
<1> SUFFICES ASSUME CreationIndInv, [Next]_vars
             PROVE  Service!Next \/ UNCHANGED <<payments, events, reply>>
  OBVIOUS
<1> USE DEF Service!Next
<1>1. ASSUME NEW r \in Request, LookupFinds(r) \/ LookupMisses(r) \/ Flush(r)
      PROVE  UNCHANGED <<payments, events, reply>>
  BY <1>1 DEF LookupFinds, LookupMisses, Flush
<1>2. ASSUME NEW r \in Request, pc[r] = "flushed"
      PROVE  Service!Free(KeyOf[r])
  BY <1>2 DEF CreationIndInv, Service!Free
<1>3. ASSUME NEW r \in Request, pc[r] # "done"
      PROVE  reply[r] = "none"
  BY <1>3 DEF CreationIndInv
<1>4. ASSUME NEW r \in Request, Commit(r)
      PROVE  Service!Create(r)
  BY <1>2, <1>3, <1>4 DEF Commit, Service!Create
<1>5. ASSUME NEW r \in Request, Answer(r)
      PROVE  Service!Accept(r)
  <2>1. found[r] \in payments /\ KeyOf[found[r]] = KeyOf[r]
    BY <1>5 DEF Answer, CreationIndInv
  <2> QED
    BY <1>3, <1>5, <2>1 DEF Answer, Service!Accept
<1>6. ASSUME NEW r \in Request, FlushConflicts(r)
      PROVE  Service!Refuse(r)
  BY <1>3, <1>6 DEF FlushConflicts, End, Service!Refuse
<1>7. ASSUME NEW r \in Request, NEW answer \in {"error", "gone"}, Fails(r, answer)
      PROVE  Service!Refuse(r)
  BY <1>2, <1>3, <1>7 DEF Fails, End, Service!Refuse
<1>8. CASE UNCHANGED vars
  BY <1>8 DEF vars
<1> QED
  BY <1>1, <1>4, <1>5, <1>6, <1>7, <1>8 DEF Next, Step

\* The endpoint implements the map that is filled once per key.
THEOREM CreationImplementsIdempotentCreate == Spec => ImplementsIdempotentCreate
<1>1. Init => Service!Init
  BY DEF Init, Service!Init
<1> QED
  BY <1>1, RefinesNext, CreationInvariant, PTL DEF Spec, ImplementsIdempotentCreate, Service!Spec
=============================================================================
