------------------------------- MODULE Backoff -------------------------------
(***************************************************************************)
(* How long an outbox row waits after a failure: a base that doubles up to *)
(* a cap, and a random jitter on top (OutboxEvent.next_retry_delay).       *)
(* Outbox abstracts these delays to "future" and "past".                   *)
(***************************************************************************)
EXTENDS Naturals

CONSTANTS
  MaxMinutes,  \* OUTBOX_BACKOFF_MAX_MINUTES
  MaxFailures, \* max_retries: the last failure is not followed by a delay
  Steps        \* bound: values of the jitter that are tried, less one

ASSUME BackoffAssumption == MaxMinutes \in Nat /\ MaxFailures \in Nat /\ Steps \in Nat \ {0}

VARIABLES
  failures,  \* retry_times
  delay      \* seconds between the last failure and next_retry_at

backoffVars == <<failures, delay>>

BackoffInit == failures = 0 /\ delay = 0

\* Faulty variants, each the slip a mutant puts in place of the definition
\* after it: no cap, a jitter of up to one and a half bases.
UncappedBase(n) == 60 * 2 ^ (IF n = 0 THEN 0 ELSE n - 1)

\* _backoff_delay, in seconds.
Base(n) ==
  LET doubled == 2 ^ (IF n = 0 THEN 0 ELSE n - 1)
  IN  60 * (IF doubled < MaxMinutes THEN doubled ELSE MaxMinutes)

WideDelays(n) == {Base(n) + (3 * Base(n) * i) \div (2 * Steps) : i \in 0..Steps}

\* next_retry_delay: the jitter is uniform from 0 to half of the base.
Delays(n) == {Base(n) + (Base(n) * i) \div (2 * Steps) : i \in 0..Steps}

\* mark_failed below the limit.
Fail ==
  /\ failures + 1 < MaxFailures
  /\ failures' = failures + 1
  /\ delay' \in Delays(failures + 1)

BackoffSpec == BackoffInit /\ [][Fail]_backoffVars

\* No delay is longer than the cap and its jitter.
BackoffTypeOK == failures \in 0..MaxFailures /\ delay \in 0..90 * MaxMinutes

\* However the jitter falls, a row waits longer after each failure until the
\* base has reached its cap: a long jitter is never followed by a shorter
\* wait.
DelaysGrow == [][delay' > delay \/ Base(failures) = 60 * MaxMinutes]_backoffVars
=============================================================================
