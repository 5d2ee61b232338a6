----------------------------- MODULE ApiProcess -----------------------------
(***************************************************************************)
(* The API process: the requests of PaymentCreation next to reads of a     *)
(* payment and health checks, on the connection pool of one engine.        *)
(*                                                                         *)
(* A session takes a connection for its first statement and gives it back  *)
(* when it commits or closes.  A request that gets none in 30 seconds ends *)
(* like one whose statement raises: 429 for a payment, 503 for a probe.    *)
(***************************************************************************)
EXTENDS PaymentCreation, FiniteSets

CONSTANTS
  Read,      \* GET /api/v1/payments/{payment_id}
  Probe,     \* GET /api/v1/health/
  PoolSize   \* pool_size + max_overflow

ASSUME ApiAssumption ==
  /\ PoolSize \in Nat \ {0}
  /\ "not found" \notin Request
  /\ Read \cap Request = {} /\ Probe \cap (Request \cup Read) = {}

VARIABLES
  conn,    \* the requests whose session has a connection
  asked,   \* the payment that each read asks for
  known,   \* the reads that ask for a payment some 202 had named by then
  answer   \* what reads and probes are answered

queryVars == <<asked, known, answer>>
apiVars == <<vars, conn, queryVars>>

ApiInit ==
  /\ Init
  /\ conn = {}
  /\ asked = [g \in Read |-> Nobody]
  /\ known = {}
  /\ answer = [u \in Read \cup Probe |-> "none"]

-----------------------------------------------------------------------------
\* The requests that are about to execute their first statement.
Starting ==
  {r \in Request : pc[r] = "received"}
    \cup {g \in Read : asked[g] # Nobody /\ answer[g] = "none"}
    \cup {h \in Probe : answer[h] = "none"}

Checkout(u) ==
  /\ u \in Starting \ conn
  /\ Cardinality(conn) < PoolSize
  /\ conn' = conn \cup {u}
  /\ UNCHANGED <<vars, queryVars>>

\* Faulty: the session is closed only after a commit.
ReturnedOnCommit(u) == IF u \in Request /\ pc[u] = "flushed" THEN conn \ {u} ELSE conn

\* The connections once the session of u has committed or closed.
Returned(u) == conn \ {u}

\* POST: a commit returns the connection; the end of the request does too.
Creates(r) ==
  /\ \/ r \in conn /\ (LookupFinds(r) \/ LookupMisses(r) \/ Flush(r)) /\ UNCHANGED conn
     \/ (Commit(r) \/ FlushConflicts(r) \/ Answer(r)) /\ conn' = Returned(r)
  /\ UNCHANGED queryVars

CreateFails(r) ==
  /\ \E reason \in {"error", "gone"} : Fails(r, reason)
  /\ conn' = Returned(r)
  /\ UNCHANGED queryVars

\* A client asks for a payment, whether it has been told of it or not.
Ask(g) ==
  /\ asked[g] = Nobody
  /\ \E p \in Request :
       /\ asked' = [asked EXCEPT ![g] = p]
       /\ known' = IF \E r \in Request : reply[r] = p THEN known \cup {g} ELSE known
  /\ UNCHANGED <<vars, conn, answer>>

\* get_by_id without a lock: the payment, or ObjectNotFoundError and 404.
Reads(g) ==
  /\ g \in conn
  /\ answer' = [answer EXCEPT ![g] = IF asked[g] \in payments THEN asked[g] ELSE "not found"]
  /\ conn' = Returned(g)
  /\ UNCHANGED <<vars, asked, known>>

\* SELECT 1.
Probes(h) ==
  /\ h \in conn
  /\ answer' = [answer EXCEPT ![h] = "ok"]
  /\ conn' = Returned(h)
  /\ UNCHANGED <<vars, asked, known>>

\* A read or probe whose statement raises, or that gets no connection;
\* check_database turns every exception into 503.
QueryFails(u) ==
  /\ u \in Starting
  /\ faults < MaxFaults
  /\ faults' = faults + 1
  /\ answer' = [answer EXCEPT ![u] = "error"]
  /\ conn' = Returned(u)
  /\ UNCHANGED <<payments, events, holder, pc, found, reply, asked, known>>

ApiNext ==
  \/ \E u \in Request \cup Read \cup Probe : Checkout(u)
  \/ \E r \in Request : Creates(r) \/ CreateFails(r)
  \/ \E g \in Read : Ask(g) \/ Reads(g)
  \/ \E h \in Probe : Probes(h)
  \/ \E u \in Read \cup Probe : QueryFails(u)

ApiSpec == ApiInit /\ [][ApiNext]_apiVars

\* The event loop goes on with every request, and a free connection goes to
\* one that waits: each asks once, so weak fairness is enough.
ApiFairSpec ==
  /\ ApiSpec
  /\ \A u \in Request \cup Read \cup Probe : WF_apiVars(Checkout(u))
  /\ \A r \in Request : WF_apiVars(Creates(r))
  /\ \A g \in Read : WF_apiVars(Reads(g))
  /\ \A h \in Probe : WF_apiVars(Probes(h))

-----------------------------------------------------------------------------
\* However requests end, no finished one keeps a connection, and whoever has
\* a row lock or an index entry, or waits for one in its flush, has a
\* connection of its own: the pool is never eaten up, and no chain of
\* requests that wait for each other's locks ends at the pool.
ConnectionsAreUsed ==
  /\ Cardinality(conn) <= PoolSize
  /\ \A u \in conn : u \in Starting \/ (u \in Request /\ pc[u] \in {"new", "flushed", "answering"})
  /\ \A k \in Key : holder[k] # Nobody => holder[k] \in conn
  /\ \A r \in Request : pc[r] = "new" => r \in conn

\* A client that has a payment's id from a 202, from whichever request, never
\* gets 404 for it.
ReadYourPayment == \A g \in known : answer[g] # "not found"

Unanswered == {r \in Request : reply[r] = "none"} \cup Starting

\* Requests, reads and probes are all answered in the end, however few
\* connections the pool has: waits for locks and waits for connections form
\* no cycle.
EverythingIsAnswered == <>[](Unanswered = {})
=============================================================================
