------------------------------- MODULE Outbox -------------------------------
(***************************************************************************)
(* The transactional outbox relay: the outbox_events table and the         *)
(* scheduler processes that read it, publish its rows to RabbitMQ and      *)
(* record the outcome (OutboxProcessorInteractor, its PostgreSQL gateway,  *)
(* OutboxEvent and run_scheduler_loop).                                    *)
(*                                                                         *)
(* One database transaction or one await on RabbitMQ is one action.  A     *)
(* scheduler keeps the rows of its batch as ORM objects across its commits *)
(* (the session is made with expire_on_commit=False), while the row locks  *)
(* of SELECT ... FOR UPDATE end with its first commit: `loaded' holds      *)
(* those objects, `rowLock' those locks.                                   *)
(***************************************************************************)
EXTENDS Naturals, FiniteSets

CONSTANTS
  Scheduler,   \* the processes that run run_scheduler_loop
  EventId,     \* outbox rows: numbers in the order of created_at
  MaxRetries,  \* OutboxEvent.max_retries
  BatchLimit,  \* OUTBOX_SCHEDULER_BATCH_SIZE
  MaxRaises,   \* bound: scheduler loops ended by an exception
  MaxCrashes,  \* bound: schedulers killed or cancelled
  Nobody       \* the holder of a free row lock

ASSUME OutboxAssumption ==
  /\ EventId \subseteq Nat
  /\ MaxRetries \in Nat \ {0}
  /\ BatchLimit \in Nat \ {0}
  /\ MaxRaises \in Nat
  /\ MaxCrashes \in Nat
  /\ Nobody \notin Scheduler

VARIABLES
  outbox,    \* the table: one row per event
  rowLock,   \* who holds the FOR UPDATE lock of a row
  pc,        \* where each scheduler is in run_scheduler_loop / execute
  loaded,    \* the rows of each scheduler's batch, as it loaded them
  accepted,  \* how many copies of an event's message RabbitMQ has accepted
  raises,    \* exceptions that have left execute
  crashes    \* schedulers killed or cancelled

vars == <<outbox, rowLock, pc, loaded, accepted, raises, crashes>>
faultVars == <<raises, crashes>>

-----------------------------------------------------------------------------
(* Rows.  ABSENT and DELETED stand for a row that is not in the table.  A  *)
(* time column is abstracted to what the statements compare it with.       *)

Waiting == {"PENDING", "FAILED"}
OutboxStatus == Waiting \cup {"PUBLISHED", "DEAD_LETTER"}

Row == [status      : OutboxStatus \cup {"ABSENT", "DELETED"},
        sentAt      : {"null", "recent", "old"},    \* old: 30 days ago
        nextRetryAt : {"null", "future", "past"},
        error       : BOOLEAN,         \* failure_reason and last_error_at
        retryTimes  : 0..MaxRetries]

NoRow == [status |-> "ABSENT", sentAt |-> "null", nextRetryAt |-> "null",
          error |-> FALSE, retryTimes |-> 0]

\* OutboxEvent(event_type, payload): what create and process_payment add.
NewEvent == [NoRow EXCEPT !.status = "PENDING"]

\* Faulty variants, each the slip a mutant puts in place of the definition
\* after it: the limit of the retries missed by one, retries never counted.
FailedEventOffByOne(n) ==
  [NoRow EXCEPT !.status = IF n + 1 > MaxRetries THEN "DEAD_LETTER" ELSE "FAILED",
                !.nextRetryAt = IF n + 1 > MaxRetries THEN "null" ELSE "future",
                !.error = TRUE,
                !.retryTimes = n + 1]
FailedEventNotCounted(n) ==
  [NoRow EXCEPT !.status = "FAILED", !.nextRetryAt = "future", !.error = TRUE, !.retryTimes = n]

\* mark_failed on an event whose counter stands at n: the row that
\* send_webhook adds after a failed call.
FailedEvent(n) ==
  [NoRow EXCEPT !.status = IF n + 1 >= MaxRetries THEN "DEAD_LETTER" ELSE "FAILED",
                !.nextRetryAt = IF n + 1 >= MaxRetries THEN "null" ELSE "future",
                !.error = TRUE,
                !.retryTimes = n + 1]

InTable(row) == row.status \in OutboxStatus

\* Faulty: the filters on status and counter missing; all but that on time.
EligibleByTime(row) == InTable(row) /\ row.sentAt = "null" /\ row.nextRetryAt # "future"
EligibleThoughSent(row) ==
  InTable(row) /\ row.retryTimes < MaxRetries /\ row.nextRetryAt # "future"

\* The WHERE clause of get_waiting.
Eligible(row) ==
  /\ row.sentAt = "null"
  /\ row.status \in Waiting
  /\ row.retryTimes < MaxRetries
  /\ row.nextRetryAt # "future"

\* Faulty: the assignments reach an object that no session tracks.
UpdateSentStatusDetached(row, mine) == row

\* The UPDATE that follows update_sent_status on the loaded copy `mine':
\* a column that ends as it was loaded is not in the statement.
UpdateSentStatus(row, mine) ==
  [row EXCEPT !.status = "PUBLISHED",
              !.sentAt = "recent",
              !.nextRetryAt = IF mine.nextRetryAt # "null" THEN "null" ELSE @,
              !.error = IF mine.error THEN FALSE ELSE @]

\* Faulty: the UPDATE writes every column of the loaded copy.
MarkFailedWholeRow(row, mine) == [FailedEvent(mine.retryTimes) EXCEPT !.sentAt = mine.sentAt]

\* The UPDATE that follows mark_failed on the loaded copy `mine': its time
\* columns get a new time, so they always change.
MarkFailed(row, mine) ==
  LET new == FailedEvent(mine.retryTimes)
  IN  [row EXCEPT !.status = IF new.status # mine.status THEN new.status ELSE @,
                  !.nextRetryAt = IF new.nextRetryAt # "null" \/ mine.nextRetryAt # "null"
                                  THEN new.nextRetryAt ELSE @,
                  !.error = TRUE,
                  !.retryTimes = new.retryTimes]

-----------------------------------------------------------------------------
Working == {"publishing", "accepted", "failed"}
Location == Working \cup {"asleep", "deleting", "stopped"}

TypeOK ==
  /\ outbox \in [EventId -> Row]
  /\ rowLock \in [EventId -> Scheduler \cup {Nobody}]
  /\ pc \in [Scheduler -> Location]
  /\ loaded \in [Scheduler -> [EventId -> Row]]
  /\ accepted \in [EventId -> Nat]
  /\ raises \in 0..MaxRaises
  /\ crashes \in 0..MaxCrashes

Init ==
  /\ outbox = [e \in EventId |-> NoRow]
  /\ rowLock = [e \in EventId |-> Nobody]
  /\ pc = [s \in Scheduler |-> "asleep"]
  /\ loaded = [s \in Scheduler |-> [e \in EventId |-> NoRow]]
  /\ accepted = [e \in EventId |-> 0]
  /\ raises = 0
  /\ crashes = 0

-----------------------------------------------------------------------------
(* The loop of one scheduler.                                              *)

\* The events `for event in waiting' has still to handle, and the next one.
Batch(s) == {e \in EventId : loaded[s][e].status # "ABSENT"}
IsNext(s, e) == e \in Batch(s) /\ \A f \in Batch(s) : e <= f

\* Unlocked(s): the row locks once the transaction of s has ended.
Unlocked(s) == [e \in EventId |-> IF rowLock[e] = s THEN Nobody ELSE rowLock[e]]

\* Faulty: the LIMIT in a subquery over all rows, before the filters.
SelectedLimitFirst(B) ==
  LET T == {e \in EventId : InTable(outbox[e])}
      F == {e \in T : Cardinality({f \in T : f < e}) < BatchLimit}
  IN  B = {e \in F : Eligible(outbox[e]) /\ rowLock[e] = Nobody}

\* The rows SELECT ... ORDER BY created_at LIMIT n FOR UPDATE SKIP LOCKED
\* may return: the oldest n of those that match and that nobody has locked.
Selected(B) ==
  LET W == {e \in EventId : Eligible(outbox[e]) /\ rowLock[e] = Nobody}
  IN  /\ B \subseteq W
      /\ Cardinality(B) <= BatchLimit
      /\ B # W => Cardinality(B) = BatchLimit
      /\ \A e \in B, f \in W \ B : e < f

\* A tick of the loop: resolve the interactor, then get_waiting.
GetWaiting(s) ==
  /\ pc[s] = "asleep"
  /\ \E B \in SUBSET EventId :
       /\ Selected(B)
       /\ loaded' = [loaded EXCEPT ![s] = [e \in EventId |-> IF e \in B THEN outbox[e] ELSE NoRow]]
       /\ rowLock' = [e \in EventId |-> IF e \in B THEN s ELSE rowLock[e]]
       /\ pc' = [pc EXCEPT ![s] = IF B = {} THEN "deleting" ELSE "publishing"]
  /\ UNCHANGED <<outbox, accepted, faultVars>>

\* publish returns: RabbitMQ has confirmed the message.
PublishAccepted(s, e) ==
  /\ pc[s] = "publishing"
  /\ IsNext(s, e)
  /\ accepted' = [accepted EXCEPT ![e] = @ + 1]
  /\ pc' = [pc EXCEPT ![s] = "accepted"]
  /\ UNCHANGED <<outbox, rowLock, loaded, faultVars>>

\* publish raises: the message was not accepted, or it was and the
\* confirmation was lost.
PublishFails(s, e) ==
  /\ pc[s] = "publishing"
  /\ IsNext(s, e)
  /\ \E n \in {0, 1} : accepted' = [accepted EXCEPT ![e] = @ + n]
  /\ pc' = [pc EXCEPT ![s] = "failed"]
  /\ UNCHANGED <<outbox, rowLock, loaded, faultVars>>

\* Faulty: the UPDATE does not wait for the row's lock.
CommitRowNoWait(s, e, row) ==
  /\ IsNext(s, e)
  /\ outbox' = [outbox EXCEPT ![e] = row]
  /\ rowLock' = Unlocked(s)
  /\ loaded' = [loaded EXCEPT ![s][e] = NoRow]
  /\ pc' = [pc EXCEPT ![s] = IF Batch(s) = {e} THEN "deleting" ELSE "publishing"]
  /\ UNCHANGED <<accepted, faultVars>>

\* tx.commit() writes the row of e and ends the transaction, and with it
\* every row lock the batch still had.  An UPDATE waits for the lock that
\* another transaction holds on its row.
CommitRow(s, e, row) ==
  /\ IsNext(s, e)
  /\ rowLock[e] \in {s, Nobody}
  /\ outbox' = [outbox EXCEPT ![e] = row]
  /\ rowLock' = Unlocked(s)
  /\ loaded' = [loaded EXCEPT ![s][e] = NoRow]
  /\ pc' = [pc EXCEPT ![s] = IF Batch(s) = {e} THEN "deleting" ELSE "publishing"]
  /\ UNCHANGED <<accepted, faultVars>>

CommitPublished(s, e) ==
  /\ pc[s] = "accepted"
  /\ CommitRow(s, e, UpdateSentStatus(outbox[e], loaded[s][e]))

\* Faulty: the except branch falls through to update_sent_status.
CommitFailedFallsThrough(s, e) ==
  /\ pc[s] = "failed"
  /\ CommitRow(s, e, UpdateSentStatus(outbox[e], loaded[s][e]))

CommitFailed(s, e) ==
  /\ pc[s] = "failed"
  /\ CommitRow(s, e, MarkFailed(outbox[e], loaded[s][e]))

\* delete_old and the commit after it.
DeleteOld(s) ==
  /\ pc[s] = "deleting"
  /\ outbox' = [e \in EventId |-> IF outbox[e].sentAt = "old"
                                  THEN [outbox[e] EXCEPT !.status = "DELETED"]
                                  ELSE outbox[e]]
  /\ pc' = [pc EXCEPT ![s] = "asleep"]
  /\ UNCHANGED <<rowLock, loaded, accepted, faultVars>>

\* The session closes without a commit: rollback, and the loop is over.
Stop(s) ==
  /\ pc' = [pc EXCEPT ![s] = "stopped"]
  /\ loaded' = [loaded EXCEPT ![s] = [e \in EventId |-> NoRow]]
  /\ rowLock' = Unlocked(s)
  /\ UNCHANGED <<outbox, accepted>>

\* Resolving the interactor or a statement on the database raises.  Only
\* publish is inside a try, so the exception ends the loop.
Raise(s) ==
  /\ pc[s] \in {"asleep", "accepted", "failed", "deleting"}
  /\ raises < MaxRaises
  /\ raises' = raises + 1
  /\ Stop(s)
  /\ UNCHANGED crashes

\* The process is killed, or the task is cancelled at shutdown.
Crash(s) ==
  /\ pc[s] # "stopped"
  /\ crashes < MaxCrashes
  /\ crashes' = crashes + 1
  /\ Stop(s)
  /\ UNCHANGED raises

\* Somebody starts the process again.
Restart(s) ==
  /\ pc[s] = "stopped"
  /\ pc' = [pc EXCEPT ![s] = "asleep"]
  /\ UNCHANGED <<outbox, rowLock, loaded, accepted, faultVars>>

-----------------------------------------------------------------------------
(* The other transactions on the table, and time.                          *)

\* A transaction of create, process_payment or send_webhook commits a row.
Insert(e, row) ==
  /\ outbox[e].status = "ABSENT"
  /\ outbox' = [outbox EXCEPT ![e] = row]
  /\ UNCHANGED <<rowLock, pc, loaded, accepted, faultVars>>

Insertable == {NewEvent} \cup {FailedEvent(n) : n \in 0..MaxRetries - 1}

\* next_retry_at passes.
RetryDue(e) ==
  /\ InTable(outbox[e])
  /\ outbox[e].nextRetryAt = "future"
  /\ outbox' = [outbox EXCEPT ![e].nextRetryAt = "past"]
  /\ UNCHANGED <<rowLock, pc, loaded, accepted, faultVars>>

\* 30 days pass since sent_at; a batch does not last that long.
Age(e) ==
  /\ InTable(outbox[e])
  /\ outbox[e].sentAt = "recent"
  /\ \A s \in Scheduler : e \notin Batch(s)
  /\ outbox' = [outbox EXCEPT ![e].sentAt = "old"]
  /\ UNCHANGED <<rowLock, pc, loaded, accepted, faultVars>>

-----------------------------------------------------------------------------
Next ==
  \/ \E s \in Scheduler : GetWaiting(s) \/ DeleteOld(s) \/ Raise(s) \/ Crash(s) \/ Restart(s)
  \/ \E s \in Scheduler, e \in EventId :
       \/ PublishAccepted(s, e) \/ PublishFails(s, e)
       \/ CommitPublished(s, e) \/ CommitFailed(s, e)
  \/ \E e \in EventId : RetryDue(e) \/ Age(e) \/ (\E row \in Insertable : Insert(e, row))

Spec == Init /\ [][Next]_vars

\* A loop that is not stopped goes on, publish ends one way or the other,
\* and time passes.  Nothing promises a restart.
Fairness ==
  /\ \A s \in Scheduler :
       /\ WF_vars(GetWaiting(s))
       /\ WF_vars(\E e \in EventId : PublishAccepted(s, e) \/ PublishFails(s, e))
       /\ WF_vars(\E e \in EventId : CommitPublished(s, e) \/ CommitFailed(s, e))
       /\ WF_vars(DeleteOld(s))
  /\ \A e \in EventId : WF_vars(RetryDue(e))

FairSpec == Spec /\ Fairness

-----------------------------------------------------------------------------
(* Properties of any number of schedulers.                                 *)

WasSent(e) == outbox[e].sentAt # "null"

\* An event that the table has ever held is either recorded as sent, and
\* then RabbitMQ has accepted it (so delete_old drops nothing that was not
\* relayed), or get_waiting can still return it once its retry is due, or it
\* is dead-lettered.  Stale UPDATEs of several schedulers, lost
\* confirmations and stops in between leave no fourth case.
NoEventStranded ==
  \A e \in EventId :
    outbox[e].status # "ABSENT" =>
      \/ WasSent(e) /\ accepted[e] > 0
      \/ ~WasSent(e) /\ outbox[e].status \in Waiting /\ outbox[e].retryTimes < MaxRetries
      \/ ~WasSent(e) /\ outbox[e].status = "DEAD_LETTER"

\* While a scheduler holds the lock that get_waiting took on a row, its copy
\* of the row is the row: what it decides from the copy is up to date.
LockedCopyIsFresh ==
  \A s \in Scheduler, e \in EventId :
    rowLock[e] = s => e \in Batch(s) /\ loaded[s][e] = outbox[e]

\* sent_at, once set, is never reset, whatever a scheduler with an older copy
\* writes: get_waiting does not select a relayed event again.
SentIsFinal == [][\A e \in EventId : WasSent(e) => WasSent(e)']_vars

Settled(e) == WasSent(e) \/ outbox[e].status = "DEAD_LETTER"

\* Every stored event is eventually sent or dead-lettered for good, whatever
\* the schedulers meet: what the README says of the scheduler.
EventSettled == \A e \in EventId : outbox[e].status # "ABSENT" ~> []Settled(e)

\* As long as one scheduler is left: retries end, no row that the LIMIT has
\* left out of a batch starves behind older ones, and neither a lock nor a
\* stale copy of another scheduler keeps a row from being settled.
EventSettledWhileRelaying ==
  <>[](\E s \in Scheduler : pc[s] # "stopped") => EventSettled

\* What the abstract relay sees of a row, and of RabbitMQ.
StageOf(row) ==
  CASE row.sentAt # "null" -> "done"
    [] row.sentAt = "null" /\ row.status = "ABSENT" -> "unknown"
    [] row.sentAt = "null" /\ row.status = "DEAD_LETTER" -> "dead"
    [] OTHER -> "waiting"
Stage == [e \in EventId |-> StageOf(outbox[e])]
Sent == {e \in EventId : accepted[e] > 0}

Relay == INSTANCE AtLeastOnce WITH Event <- EventId, stage <- Stage, sent <- Sent

\* The relay implements at-least-once delivery.
RelayIsAtLeastOnce == Relay!Spec

-----------------------------------------------------------------------------
(* The inductive invariant behind NoEventStranded, LockedCopyIsFresh,      *)
(* SentIsFinal and the refinement (see OutboxProofs).                      *)

\* What a row says agrees with what RabbitMQ has, whatever stale copies
\* have been written over it.
RowInv ==
  \A e \in EventId :
    /\ WasSent(e) => accepted[e] > 0
    /\ outbox[e].status \in {"PUBLISHED", "DELETED"} => WasSent(e)
    /\ outbox[e].status \in Waiting => outbox[e].retryTimes < MaxRetries
    /\ outbox[e].status = "ABSENT" => ~WasSent(e)

\* A copy was eligible when it was loaded, and its row is still there.
CopyInv ==
  \A s \in Scheduler : \A e \in Batch(s) :
    Eligible(loaded[s][e]) /\ InTable(outbox[e]) /\ outbox[e].sentAt # "old"

\* A scheduler has copies only while it works through its batch, and it
\* marks as sent only what RabbitMQ has.
StepInv ==
  \A s \in Scheduler :
    /\ pc[s] \notin Working => Batch(s) = {}
    /\ pc[s] = "accepted" => \A e \in EventId : IsNext(s, e) => accepted[e] > 0

\* The four parts and the types make each other inductive: what a commit
\* writes depends on the copy, the copy on the lock and on the step.
IndInv == TypeOK /\ RowInv /\ CopyInv /\ StepInv /\ LockedCopyIsFresh

-----------------------------------------------------------------------------
(* Properties that only hold when one scheduler runs.                      *)

\* The columns of a row agree: a published row carries sent_at and no trace
\* of an error, a failed one a retry time and a counter below the limit, a
\* dead-lettered one the full counter and no retry time.
RowCoherent ==
  \A e \in EventId :
    LET row == outbox[e] IN
    /\ row.status = "PENDING" => row = NewEvent
    /\ row.status = "PUBLISHED" => row.sentAt # "null" /\ row.nextRetryAt = "null" /\ ~row.error
    /\ row.status = "FAILED" =>
         row.sentAt = "null" /\ row.nextRetryAt # "null" /\ row.retryTimes \in 1..MaxRetries - 1
    /\ row.status = "DEAD_LETTER" =>
         row.sentAt = "null" /\ row.nextRetryAt = "null" /\ row.retryTimes = MaxRetries

\* A second copy of a message has a cause: a failed publish that the row
\* counts, or a stop between publish and commit.
NoSpuriousDuplicate ==
  \A e \in EventId : accepted[e] <= 1 + outbox[e].retryTimes + raises + crashes

\* A dead-lettered row stays dead-lettered.
DeadLetterIsFinal ==
  [][\A e \in EventId : outbox[e].status = "DEAD_LETTER" => outbox'[e].status = "DEAD_LETTER"]_vars

\* A row marked as published keeps the mark until delete_old drops it.
PublishedMarkStays ==
  [][\A e \in EventId : outbox[e].status = "PUBLISHED"
                          => outbox'[e].status \in {"PUBLISHED", "DELETED"}]_vars
=============================================================================
