----------------------------- MODULE ApiProofs -----------------------------
(***************************************************************************)
(* Theorems about the API process, for any requests, reads, probes, faults *)
(* and any size of the pool.  What concerns payments alone comes from      *)
(* PaymentCreationProofs.                                                  *)
(***************************************************************************)
EXTENDS ApiProcess, PaymentCreationProofs, FiniteSetTheorems

User == Request \cup Read \cup Probe

QueryTypeOK ==
  /\ IsFiniteSet(conn) /\ conn \subseteq User
  /\ asked \in [Read -> Request \cup {Nobody}]
  /\ known \subseteq Read
  /\ answer \in [Read \cup Probe -> Request \cup {"none", "not found", "error", "ok"}]
  /\ \A g \in Read : asked[g] = Nobody => answer[g] = "none"

\* A read of a payment that a 202 has named asks for a stored one.
KnownIsStored == \A g \in known : asked[g] \in payments /\ answer[g] # "not found"

ApiInv == CreationIndInv /\ QueryTypeOK /\ ConnectionsAreUsed /\ KnownIsStored

USE DEF User, Of

\* What the steps do to the payments and their requests: a step of
\* PaymentCreation, or at most one more fault.
LEMMA ApiStep ==
  ASSUME ApiInv, [ApiNext]_apiVars
  PROVE  CreationIndInv' /\ payments \subseteq payments'
<1>1. CreationIndInv
  BY DEF ApiInv
<1>2. ASSUME [Next]_vars
      PROVE  CreationIndInv' /\ payments \subseteq payments'
  <2>1. CreationIndInv'
    BY <1>1, <1>2, NextIndInv
  <2>2. payments \subseteq payments'
    BY <1>2 DEF Next, Step, LookupFinds, LookupMisses, Flush, FlushConflicts, Commit, Answer,
                Fails, End, vars
  <2> QED
    BY <2>1, <2>2
<1>3. ASSUME NEW r \in Request, Creates(r) \/ CreateFails(r)
      PROVE  Next
  BY <1>3 DEF Creates, CreateFails, Next, Step
<1>4. ASSUME NEW u \in User, Checkout(u) \/ (u \in Read /\ (Ask(u) \/ Reads(u))) \/ Probes(u)
      PROVE  UNCHANGED vars
  BY <1>4 DEF Checkout, Ask, Reads, Probes
<1>5. ASSUME NEW u \in User, QueryFails(u)
      PROVE  CreationIndInv' /\ payments \subseteq payments'
  <2>1. UNCHANGED <<payments, events, holder, pc, found, reply>>
    BY <1>5 DEF QueryFails
  <2>2. faults' \in 0..MaxFaults
    <3>1. faults \in 0..MaxFaults
      BY <1>1 DEF CreationIndInv, CreationTypeOK
    <3>2. faults < MaxFaults /\ faults' = faults + 1
      BY <1>5 DEF QueryFails
    <3>3. MaxFaults \in Nat
      BY CreationAssumption
    <3> QED
      BY <3>1, <3>2, <3>3
  <2>3. CreationTypeOK'
    BY <1>1, <2>1, <2>2 DEF CreationIndInv, CreationTypeOK
  <2> QED
    BY <1>1, <2>1, <2>3
    DEF CreationIndInv, OnePaymentPerKey, PaymentIffEvent, RepliesAreTrue
<1>6. CASE UNCHANGED apiVars
  BY <1>2, <1>6 DEF apiVars
<1> QED
  BY <1>2, <1>3, <1>4, <1>5, <1>6 DEF ApiNext

\* Taking and returning a connection keeps the count.
LEMMA PoolStep ==
  ASSUME NEW S, IsFiniteSet(S), Cardinality(S) <= PoolSize, NEW u, NEW T,
         T = S \/ T = S \ {u} \/ (T = S \cup {u} /\ Cardinality(S) < PoolSize)
  PROVE  IsFiniteSet(T) /\ Cardinality(T) <= PoolSize
<1>1. PoolSize \in Nat
  BY ApiAssumption
<1>2. Cardinality(S) \in Nat
  BY FS_CardinalityType
<1>3. IsFiniteSet(S \ {u}) /\ Cardinality(S \ {u}) <= Cardinality(S)
  <2>1. IsFiniteSet(S \ {u})
        /\ Cardinality(S \ {u}) = IF u \in S THEN Cardinality(S) - 1 ELSE Cardinality(S)
    BY FS_RemoveElement
  <2> QED
    BY <1>2, <2>1
<1>4. IsFiniteSet(S \cup {u}) /\ Cardinality(S \cup {u}) <= Cardinality(S) + 1
  <2>1. IsFiniteSet(S \cup {u})
        /\ Cardinality(S \cup {u}) = IF u \in S THEN Cardinality(S) ELSE Cardinality(S) + 1
    BY FS_AddElement
  <2> QED
    BY <1>2, <2>1
<1>5. Cardinality(S \ {u}) \in Nat /\ Cardinality(S \cup {u}) \in Nat
  BY <1>3, <1>4, FS_CardinalityType
<1> QED
  BY <1>1, <1>2, <1>3, <1>4, <1>5
-----------------------------------------------------------------------------
(* One step of each kind preserves ApiInv.  The part on the payments is    *)
(* ApiStep; the others are proved from what ApiInv says before the step.   *)

Before ==
  /\ CreationIndInv /\ QueryTypeOK /\ ConnectionsAreUsed /\ KnownIsStored
  /\ CreationIndInv' /\ payments \subseteq payments'

After == QueryTypeOK' /\ ConnectionsAreUsed' /\ KnownIsStored'

\* What a step of the pool may take from the creation it surrounds.
LEMMA BeforeStep ==
  ASSUME Before
  PROVE  CreationTypeOK /\ RepliesAreTrue /\ payments \subseteq Request /\ (CreationTypeOK)'
BY DEF Before, CreationIndInv, CreationTypeOK

\* A connection is taken from the pool only while one is free.
LEMMA CheckoutStep ==
  ASSUME Before, NEW u \in User, Checkout(u)
  PROVE  After
<1>1. u \in Starting /\ conn' = conn \cup {u} /\ Cardinality(conn) < PoolSize
  BY DEF Checkout
<1>2. UNCHANGED <<vars, queryVars>>
  BY DEF Checkout
<1>3. IsFiniteSet(conn') /\ Cardinality(conn') <= PoolSize
  BY <1>1, PoolStep DEF QueryTypeOK, ConnectionsAreUsed, Before
<1>4. Starting' = Starting
  BY <1>2 DEF Starting, vars, queryVars
<1>5. QueryTypeOK'
  BY <1>1, <1>2, <1>3 DEF QueryTypeOK, Before, queryVars
<1>6. ConnectionsAreUsed'
  BY <1>1, <1>2, <1>3, <1>4 DEF ConnectionsAreUsed, Before, vars
<1> QED
  BY <1>2, <1>5, <1>6 DEF KnownIsStored, vars, queryVars, Before, After

\* A request that creates a payment or fails keeps its connection as long as
\* it may use it, and a lock no longer than its connection.
LEMMA RequestStep ==
  ASSUME Before, NEW r \in Request, Creates(r) \/ CreateFails(r)
  PROVE  After
<1>0. CreationTypeOK /\ ConnectionsAreUsed
  BY BeforeStep DEF Before
<1>1. UNCHANGED queryVars
  BY DEF Creates, CreateFails
<1>2. conn' = conn \/ conn' = conn \ {r}
  BY DEF Creates, CreateFails, Returned
<1>3. IsFiniteSet(conn') /\ Cardinality(conn') <= PoolSize
  BY <1>2, PoolStep DEF QueryTypeOK, ConnectionsAreUsed, Before
<1>4. \/ /\ conn' = conn /\ r \in conn
         /\ LookupFinds(r) \/ LookupMisses(r) \/ Flush(r)
      \/ /\ conn' = conn \ {r}
         /\ Commit(r) \/ FlushConflicts(r) \/ Answer(r) \/ \E reason \in {"error", "gone"} : Fails(r, reason)
  BY DEF Creates, CreateFails, Returned
<1>5. \E where : pc' = [pc EXCEPT ![r] = where]
  BY <1>4 DEF LookupFinds, LookupMisses, Flush, Commit, FlushConflicts, Answer, Fails, End
<1>6. ASSUME conn' = conn, r \in conn,
             LookupFinds(r) \/ LookupMisses(r) \/ Flush(r)
      PROVE  ConnectionsAreUsed'
  <2> USE <1>6
  <2>1. pc'[r] \in {"new", "flushed", "answering"}
    BY <1>0 DEF LookupFinds, LookupMisses, Flush, CreationTypeOK
  <2>2. holder' = holder \/ holder' = [holder EXCEPT ![KeyOf[r]] = r]
    BY DEF LookupFinds, LookupMisses, Flush
  <2>3. \A k \in Key : holder'[k] # Nobody => holder'[k] \in conn'
    BY <1>0, <2>2 DEF ConnectionsAreUsed, CreationTypeOK
  <2>4. \A u \in conn' : u \in Starting' \/ (u \in Request /\ pc'[u] \in {"new", "flushed", "answering"})
    BY <1>0, <1>1, <1>5, <2>1 DEF ConnectionsAreUsed, Starting, queryVars, CreationTypeOK
  <2>5. \A q \in Request : pc'[q] = "new" => q \in conn'
    BY <1>0, <1>5 DEF ConnectionsAreUsed, CreationTypeOK
  <2> QED
    BY <1>3, <2>3, <2>4, <2>5 DEF ConnectionsAreUsed
<1>7. ASSUME conn' = conn \ {r},
             Commit(r) \/ FlushConflicts(r) \/ Answer(r) \/ \E reason \in {"error", "gone"} : Fails(r, reason)
      PROVE  ConnectionsAreUsed'
  <2> USE <1>7
  <2>1. holder' = Released(r)
    BY DEF Commit, FlushConflicts, Answer, Fails, End
  <2>2. \A k \in Key : holder'[k] # Nobody => holder'[k] \in conn'
    BY <1>0, <2>1, CreationAssumption DEF ConnectionsAreUsed, Released
  <2>3. \A u \in conn' : u \in Starting' \/ (u \in Request /\ pc'[u] \in {"new", "flushed", "answering"})
    BY <1>0, <1>1, <1>5 DEF ConnectionsAreUsed, Starting, queryVars, CreationTypeOK
  <2>4. pc'[r] # "new"
    BY <1>0 DEF Commit, FlushConflicts, Answer, Fails, End, CreationTypeOK
  <2>5. \A q \in Request : pc'[q] = "new" => q \in conn'
    BY <1>0, <1>5, <2>4 DEF ConnectionsAreUsed, CreationTypeOK
  <2> QED
    BY <1>3, <2>2, <2>3, <2>5 DEF ConnectionsAreUsed
<1>8. ConnectionsAreUsed'
  BY <1>4, <1>6, <1>7
<1>9. QueryTypeOK'
  BY <1>1, <1>2, <1>3 DEF QueryTypeOK, Before, queryVars
<1> QED
  BY <1>1, <1>8, <1>9 DEF KnownIsStored, queryVars, Before, After

\* A client that asks for a payment after a 202 has named it asks for a
\* stored one.
LEMMA AskStep ==
  ASSUME Before, NEW g \in Read, Ask(g)
  PROVE  After
<1>1. PICK p \in Request :
        /\ asked' = [asked EXCEPT ![g] = p]
        /\ known' = IF \E r \in Request : reply[r] = p THEN known \cup {g} ELSE known
  BY DEF Ask
<1>2. asked[g] = Nobody /\ UNCHANGED <<vars, conn, answer>>
  BY DEF Ask
<1>3. (\E r \in Request : reply[r] = p) => p \in payments
  BY BeforeStep, CreationAssumption DEF RepliesAreTrue, NoPayment
<1>4. answer[g] = "none"
  BY <1>2 DEF Before, QueryTypeOK
<1>5. QueryTypeOK'
  BY <1>1, <1>2, <1>4 DEF Before, QueryTypeOK
<1>6. KnownIsStored'
  <2>1. answer' = answer /\ payments' = payments
    BY <1>2 DEF vars
  <2>2. \A h \in known' : h # g => h \in known /\ asked'[h] = asked[h]
    BY <1>1 DEF Before, QueryTypeOK
  <2>3. g \in known' => asked'[g] \in payments
    <3>1. g \notin known
      <4>1. Nobody \notin payments
        BY BeforeStep, CreationAssumption
      <4> QED
        BY <1>2, <4>1 DEF Before, KnownIsStored
    <3> QED
      BY <1>1, <1>3, <3>1 DEF Before, QueryTypeOK
  <2> QED
    BY <1>4, <2>1, <2>2, <2>3 DEF Before, KnownIsStored
<1>7. Starting \subseteq Starting'
  BY <1>1, <1>2 DEF Before, QueryTypeOK, Starting, vars
<1>8. ConnectionsAreUsed'
  BY <1>2, <1>7 DEF Before, ConnectionsAreUsed, vars
<1> QED
  BY <1>5, <1>6, <1>8 DEF After

\* A read or probe gives back its connection with its answer; only a read of
\* an absent payment is answered with 404.
LEMMA QueryStep ==
  ASSUME Before, NEW u \in Read \cup Probe,
         (u \in Read /\ Reads(u)) \/ (u \in Probe /\ Probes(u)) \/ QueryFails(u)
  PROVE  After
<1>1. UNCHANGED <<payments, events, holder, pc, found, reply, asked, known>>
  BY DEF Reads, Probes, QueryFails, vars
<1>2. conn' = conn \ {u} /\ u \in Starting
  BY ApiAssumption DEF Reads, Probes, QueryFails, Returned, Before, ConnectionsAreUsed
<1>3. PICK a \in Request \cup {"not found", "error", "ok"} :
        answer' = [answer EXCEPT ![u] = a] /\ (a = "not found" => u \in Read /\ asked[u] \notin payments)
  <2>1. CASE u \in Read /\ Reads(u)
    <3>1. payments \subseteq Request /\ "not found" \notin Request
      BY BeforeStep, ApiAssumption
    <3> QED
      BY <2>1, <3>1 DEF Reads
  <2>2. CASE u \in Probe /\ Probes(u)
    <3>1. answer' = [answer EXCEPT ![u] = "ok"]
      BY <2>2 DEF Probes
    <3> WITNESS "ok" \in Request \cup {"not found", "error", "ok"}
    <3> QED
      BY <3>1
  <2>3. CASE QueryFails(u)
    <3>1. answer' = [answer EXCEPT ![u] = "error"]
      BY <2>3 DEF QueryFails
    <3> WITNESS "error" \in Request \cup {"not found", "error", "ok"}
    <3> QED
      BY <3>1
  <2> QED
    BY <2>1, <2>2, <2>3
<1>4. IsFiniteSet(conn') /\ Cardinality(conn') <= PoolSize
  BY <1>2, PoolStep DEF QueryTypeOK, ConnectionsAreUsed, Before
<1>5. QueryTypeOK'
  <2>1. u \in Read => asked[u] # Nobody
    BY <1>2, ApiAssumption DEF Starting
  <2>2. answer' \in [Read \cup Probe -> Request \cup {"none", "not found", "error", "ok"}]
    BY <1>3 DEF Before, QueryTypeOK
  <2>3. \A g \in Read : asked[g] = Nobody => answer'[g] = "none"
    BY <1>3, <2>1 DEF Before, QueryTypeOK
  <2> QED
    BY <1>1, <1>2, <1>4, <2>2, <2>3 DEF Before, QueryTypeOK
<1>6. KnownIsStored'
  BY <1>1, <1>3 DEF Before, QueryTypeOK, KnownIsStored
<1>7. Starting \ {u} \subseteq Starting'
  BY <1>1, <1>3 DEF Before, QueryTypeOK, Starting
<1>8. u \notin Request
  BY ApiAssumption
<1>9. \A k \in Key : holder'[k] # Nobody => holder'[k] \in conn'
  <2>1. \A k \in Key : holder[k] # Nobody => holder[k] \in Request
    BY BeforeStep DEF CreationTypeOK
  <2> QED
    BY <1>1, <1>2, <1>8, <2>1 DEF Before, ConnectionsAreUsed
<1>10. ConnectionsAreUsed'
  BY <1>1, <1>2, <1>4, <1>7, <1>8, <1>9 DEF Before, ConnectionsAreUsed
<1> QED
  BY <1>5, <1>6, <1>10 DEF After
-----------------------------------------------------------------------------
\* ApiInv is inductive.
LEMMA ApiInitially == ApiInit => ApiInv
<1> SUFFICES ASSUME ApiInit PROVE ApiInv
  OBVIOUS
<1>1. CreationIndInv
  BY InitIndInv DEF ApiInit
<1>2. IsFiniteSet(conn) /\ Cardinality(conn) = 0
  BY FS_EmptySet DEF ApiInit
<1>3. QueryTypeOK /\ KnownIsStored
  BY <1>2 DEF ApiInit, QueryTypeOK, KnownIsStored
<1>4. ConnectionsAreUsed
  <2>1. PoolSize \in Nat
    BY ApiAssumption
  <2>2. /\ conn = {}
        /\ \A k \in Key : holder[k] = Nobody
        /\ \A r \in Request : pc[r] = "received"
    BY DEF ApiInit, Init
  <2> QED
    BY <1>2, <2>1, <2>2 DEF ConnectionsAreUsed
<1> QED
  BY <1>1, <1>3, <1>4 DEF ApiInv

\* Every step of the API process keeps its invariant.
LEMMA ApiInductive == ApiInv /\ [ApiNext]_apiVars => ApiInv'
<1> SUFFICES ASSUME ApiInv, [ApiNext]_apiVars PROVE ApiInv'
  OBVIOUS
<1>1. Before
  BY ApiStep DEF Before, ApiInv
<1>2. ASSUME UNCHANGED apiVars PROVE After
  BY <1>1, <1>2 DEF apiVars, vars, queryVars, Before, After, QueryTypeOK, ConnectionsAreUsed,
                    Starting, KnownIsStored
<1>3. ASSUME ApiNext PROVE After
  BY <1>1, <1>3, CheckoutStep, RequestStep, AskStep, QueryStep DEF ApiNext
<1> QED
  BY <1>1, <1>2, <1>3 DEF Before, After, ApiInv

\* The inductive invariant of the API process holds of every behaviour.
THEOREM ApiInvariant == ApiSpec => []ApiInv
BY ApiInitially, ApiInductive, PTL DEF ApiSpec

\* However requests end, whatever the pool's size, finished ones keep no
\* connection, and whoever has a lock or waits for one in its flush has a
\* connection.
THEOREM PoolNeverLeaks == ApiSpec => []ConnectionsAreUsed
BY ApiInvariant, PTL DEF ApiInv

\* No client gets 404 for a payment that a 202 had named when it asked.
THEOREM NamedPaymentsCanBeRead == ApiSpec => []ReadYourPayment
<1>1. ApiInv => ReadYourPayment
  BY DEF ApiInv, KnownIsStored, ReadYourPayment
<1> QED
  BY <1>1, ApiInvariant, PTL
=============================================================================
