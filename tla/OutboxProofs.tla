---------------------------- MODULE OutboxProofs ----------------------------
(***************************************************************************)
(* Theorems about the outbox relay, for any number of schedulers, events,  *)
(* retries and faults, and any batch size: all rest on IndInv.  Then those *)
(* that only hold while a single scheduler runs, which rest on SingleInv.  *)
(***************************************************************************)
EXTENDS Outbox, TLAPS

USE DEF Batch, IsNext, WasSent, Eligible, InTable, OutboxStatus, Waiting, Working, Location

-----------------------------------------------------------------------------
(* What the row operators yield.                                           *)

\* A row that was never stored is a row of the type.
LEMMA NoRowType == NoRow \in Row
BY OutboxAssumption DEF NoRow, Row

\* What create and process_payment insert is a row that waits for its first
\* publish.
LEMMA NewEventRow ==
  NewEvent \in Row /\ NewEvent.sentAt = "null" /\ NewEvent.status = "PENDING" /\ NewEvent.retryTimes = 0
<1>1. NewEvent \in Row
  BY NoRowType DEF NewEvent, Row
<1>2. NewEvent.sentAt = "null" /\ NewEvent.status = "PENDING" /\ NewEvent.retryTimes = 0
  BY DEF NewEvent, NoRow
<1> QED
  BY <1>1, <1>2

\* The row that a failure at counter n makes never looks sent, and it is
\* dead-lettered exactly when the counter reaches the limit.
LEMMA FailedEventRow ==
  ASSUME NEW n \in 0..MaxRetries - 1
  PROVE  /\ FailedEvent(n) \in Row
         /\ FailedEvent(n).sentAt = "null"
         /\ FailedEvent(n).retryTimes = n + 1
         /\ FailedEvent(n).status = IF n + 1 >= MaxRetries THEN "DEAD_LETTER" ELSE "FAILED"
<1>1. n \in Nat /\ n + 1 \in 0..MaxRetries
  BY OutboxAssumption
<1>2. FailedEvent(n) \in Row
  BY <1>1, NoRowType DEF FailedEvent, Row
<1>3. /\ FailedEvent(n).sentAt = "null"
      /\ FailedEvent(n).retryTimes = n + 1
      /\ FailedEvent(n).status = IF n + 1 >= MaxRetries THEN "DEAD_LETTER" ELSE "FAILED"
  BY DEF FailedEvent, NoRow
<1> QED
  BY <1>2, <1>3

\* update_sent_status on any copy of a row leaves a published, sent row.
LEMMA UpdateSentStatusRow ==
  ASSUME NEW row \in Row, NEW mine \in Row
  PROVE  /\ UpdateSentStatus(row, mine) \in Row
         /\ UpdateSentStatus(row, mine).status = "PUBLISHED"
         /\ UpdateSentStatus(row, mine).sentAt = "recent"
BY DEF UpdateSentStatus, Row

\* mark_failed on a copy that was eligible, however stale, leaves sent_at as
\* it is in the table, and a waiting row keeps retries.
LEMMA MarkFailedRow ==
  ASSUME NEW row \in Row, NEW mine \in Row, Eligible(mine)
  PROVE  /\ MarkFailed(row, mine) \in Row
         /\ MarkFailed(row, mine).sentAt = row.sentAt
         /\ MarkFailed(row, mine).status \in {row.status, "FAILED", "DEAD_LETTER"}
         /\ MarkFailed(row, mine).status \in Waiting
              => MarkFailed(row, mine).retryTimes < MaxRetries
<1> DEFINE n == mine.retryTimes
           f == FailedEvent(n)
           new == MarkFailed(row, mine)
<1>1. n \in 0..MaxRetries - 1
  BY OutboxAssumption DEF Row
<1>2. /\ f \in Row /\ f.retryTimes = n + 1
      /\ f.status = IF n + 1 >= MaxRetries THEN "DEAD_LETTER" ELSE "FAILED"
  BY <1>1, FailedEventRow
<1> HIDE DEF f
<1>3. /\ new.sentAt = row.sentAt /\ new.retryTimes = f.retryTimes
      /\ new.status = IF f.status # mine.status THEN f.status ELSE row.status
  BY DEF MarkFailed, Row, f
<1>4. new \in Row
  BY <1>2 DEF MarkFailed, Row, f
<1> HIDE DEF new
<1>5. new.status \in {row.status, "FAILED", "DEAD_LETTER"}
  BY <1>2, <1>3
<1>6. ASSUME new.status \in Waiting PROVE new.retryTimes < MaxRetries
  BY <1>1, <1>2, <1>3, <1>6, OutboxAssumption
<1> QED
  BY <1>3, <1>4, <1>5, <1>6 DEF new

-----------------------------------------------------------------------------
(* IndInv is inductive: one lemma per action.                              *)

\* The empty table, with no scheduler at work.
LEMMA InitIndInv == Init => IndInv
<1> SUFFICES ASSUME Init PROVE IndInv
  OBVIOUS
<1>1. \A e \in EventId : outbox[e] = NoRow /\ rowLock[e] = Nobody
  BY DEF Init
<1>2. \A s \in Scheduler, e \in EventId : loaded[s][e] = NoRow
  BY DEF Init
<1>3. NoRow.status = "ABSENT" /\ NoRow.sentAt = "null"
  BY DEF NoRow
<1>4. TypeOK
  BY NoRowType, OutboxAssumption DEF Init, TypeOK
<1>5. RowInv
  BY <1>1, <1>3 DEF RowInv
<1>6. CopyInv /\ StepInv
  BY <1>2, <1>3 DEF CopyInv, StepInv, Init
<1>7. LockedCopyIsFresh
  BY <1>1, OutboxAssumption DEF LockedCopyIsFresh
<1> QED
  BY <1>4, <1>5, <1>6, <1>7 DEF IndInv

\* get_waiting copies rows that are eligible, and only rows nobody has locked.
LEMMA GetWaitingStep ==
  ASSUME IndInv, NEW s \in Scheduler, GetWaiting(s)
  PROVE  IndInv'
<1>1. PICK B \in SUBSET EventId :
        /\ Selected(B)
        /\ loaded' = [loaded EXCEPT ![s] = [e \in EventId |-> IF e \in B THEN outbox[e] ELSE NoRow]]
        /\ rowLock' = [e \in EventId |-> IF e \in B THEN s ELSE rowLock[e]]
        /\ pc' = [pc EXCEPT ![s] = IF B = {} THEN "deleting" ELSE "publishing"]
  BY DEF GetWaiting
<1>2. pc[s] = "asleep" /\ UNCHANGED <<outbox, accepted, raises, crashes>>
  BY DEF GetWaiting, faultVars
<1>3. \A e \in B : Eligible(outbox[e]) /\ rowLock[e] = Nobody
  BY <1>1 DEF Selected
<1>4. NoRow.status = "ABSENT"
  BY DEF NoRow
<1>5. TypeOK'
  BY <1>1, <1>2, NoRowType DEF IndInv, TypeOK
<1>6. RowInv'
  BY <1>2 DEF IndInv, RowInv
<1>7. \A e \in EventId : loaded'[s][e] = IF e \in B THEN outbox[e] ELSE NoRow
  BY <1>1 DEF IndInv, TypeOK
<1>8. \A t \in Scheduler \ {s} : loaded'[t] = loaded[t] /\ pc'[t] = pc[t]
  BY <1>1 DEF IndInv, TypeOK
<1>9. CopyInv'
  BY <1>2, <1>3, <1>4, <1>7, <1>8 DEF IndInv, CopyInv
<1>10. StepInv'
  <2>1. pc'[s] = IF B = {} THEN "deleting" ELSE "publishing"
    BY <1>1 DEF IndInv, TypeOK
  <2> QED
    BY <1>2, <1>4, <1>7, <1>8, <2>1 DEF IndInv, StepInv
<1>11. LockedCopyIsFresh'
  <2> SUFFICES ASSUME NEW t \in Scheduler, NEW e \in EventId, rowLock'[e] = t
               PROVE  e \in Batch(t)' /\ loaded'[t][e] = outbox'[e]
    BY DEF LockedCopyIsFresh
  <2>1. CASE e \in B
    BY <1>1, <1>2, <1>3, <1>7, <2>1
  <2>2. CASE e \notin B
    <3>1. rowLock[e] = t /\ e \in Batch(t) /\ loaded[t][e] = outbox[e]
      BY <1>1, <2>2 DEF IndInv, LockedCopyIsFresh
    <3>2. t # s
      BY <1>2, <3>1 DEF IndInv, StepInv
    <3> QED
      BY <1>2, <1>8, <3>1, <3>2
  <2> QED
    BY <2>1, <2>2
<1> QED
  BY <1>5, <1>6, <1>9, <1>10, <1>11 DEF IndInv

\* publish changes nothing in the table: it only sends.
LEMMA PublishStep ==
  ASSUME IndInv, NEW s \in Scheduler, NEW e \in EventId,
         PublishAccepted(s, e) \/ PublishFails(s, e)
  PROVE  IndInv'
<1>1. pc[s] = "publishing" /\ IsNext(s, e) /\ UNCHANGED <<outbox, rowLock, loaded, raises, crashes>>
  BY DEF PublishAccepted, PublishFails, faultVars
<1>2. PICK n \in {0, 1}, l \in {"accepted", "failed"} :
        /\ accepted' = [accepted EXCEPT ![e] = @ + n]
        /\ pc' = [pc EXCEPT ![s] = l]
        /\ l = "accepted" => n = 1
  BY DEF PublishAccepted, PublishFails
<1>3. TypeOK'
  BY <1>1, <1>2 DEF IndInv, TypeOK
<1>4. \A f \in EventId : accepted'[f] \in Nat /\ (accepted[f] > 0 => accepted'[f] > 0)
  BY <1>2 DEF IndInv, TypeOK
<1>5. RowInv'
  BY <1>1, <1>4 DEF IndInv, RowInv
<1>6. CopyInv' /\ LockedCopyIsFresh'
  BY <1>1 DEF IndInv, CopyInv, LockedCopyIsFresh
<1>7. StepInv'
  <2>1. \A t \in Scheduler \ {s} : pc'[t] = pc[t]
    BY <1>2 DEF IndInv, TypeOK
  <2>2. pc'[s] = l
    BY <1>2 DEF IndInv, TypeOK
  <2>3. ASSUME NEW f \in EventId, IsNext(s, f), l = "accepted" PROVE accepted'[f] > 0
    <3>1. e \in Nat /\ f \in Nat /\ e <= f /\ f <= e
      BY <1>1, <2>3, OutboxAssumption
    <3>2. e = f
      BY <3>1
    <3>3. accepted'[f] = accepted[f] + 1 /\ accepted[f] \in Nat
      BY <1>2, <2>3, <3>2 DEF IndInv, TypeOK
    <3> QED
      BY <3>3
  <2> QED
    BY <1>1, <1>4, <2>1, <2>2, <2>3 DEF IndInv, StepInv
<1> QED
  BY <1>3, <1>5, <1>6, <1>7 DEF IndInv

\* A commit that writes a well-formed row keeps the invariant, although the
\* row is computed from a copy that may be stale: no other scheduler can hold
\* the lock of the row it writes.
LEMMA CommitRowStep ==
  ASSUME IndInv, NEW s \in Scheduler, NEW e \in EventId, NEW row \in Row,
         CommitRow(s, e, row),
         row.status \in OutboxStatus,
         row.sentAt # "old",
         row.sentAt # "null" => accepted[e] > 0,
         row.status = "PUBLISHED" => row.sentAt # "null",
         row.status \in Waiting => row.retryTimes < MaxRetries
  PROVE  IndInv'
<1>1. /\ IsNext(s, e) /\ rowLock[e] \in {s, Nobody}
      /\ outbox' = [outbox EXCEPT ![e] = row]
      /\ rowLock' = Unlocked(s)
      /\ loaded' = [loaded EXCEPT ![s][e] = NoRow]
      /\ pc' = [pc EXCEPT ![s] = IF Batch(s) = {e} THEN "deleting" ELSE "publishing"]
      /\ UNCHANGED <<accepted, raises, crashes>>
  BY DEF CommitRow, faultVars
<1>2. TypeOK'
  <2>1. loaded' \in [Scheduler -> [EventId -> Row]]
    BY <1>1, NoRowType DEF IndInv, TypeOK
  <2>2. rowLock' \in [EventId -> Scheduler \cup {Nobody}]
    BY <1>1 DEF IndInv, TypeOK, Unlocked
  <2> QED
    BY <1>1, <2>1, <2>2 DEF IndInv, TypeOK
<1>3. outbox'[e] = row /\ \A f \in EventId \ {e} : outbox'[f] = outbox[f]
  BY <1>1 DEF IndInv, TypeOK
<1>4. RowInv'
  BY <1>1, <1>3 DEF IndInv, RowInv
<1>5. NoRow.status = "ABSENT"
  BY DEF NoRow
<1>6. \A t \in Scheduler, f \in EventId : ~(t = s /\ f = e) => loaded'[t][f] = loaded[t][f]
  BY <1>1 DEF IndInv, TypeOK
<1>7. loaded'[s][e] = NoRow
  BY <1>1 DEF IndInv, TypeOK
<1>8. Batch(s)' = Batch(s) \ {e} /\ \A t \in Scheduler \ {s} : Batch(t)' = Batch(t)
  BY <1>5, <1>6, <1>7
<1>9. CopyInv'
  <2> SUFFICES ASSUME NEW t \in Scheduler, NEW f \in Batch(t)'
               PROVE  Eligible(loaded'[t][f]) /\ InTable(outbox'[f]) /\ outbox'[f].sentAt # "old"
    BY DEF CopyInv
  <2>1. f \in Batch(t) /\ loaded'[t][f] = loaded[t][f]
    BY <1>6, <1>8
  <2> QED
    BY <1>3, <2>1 DEF IndInv, CopyInv
<1>10. StepInv'
  <2>1. pc'[s] = IF Batch(s) = {e} THEN "deleting" ELSE "publishing"
    BY <1>1 DEF IndInv, TypeOK
  <2>2. \A t \in Scheduler \ {s} : pc'[t] = pc[t]
    BY <1>1 DEF IndInv, TypeOK
  <2> HIDE DEF Batch
  <2>3. \A t \in Scheduler \ {s}, f \in EventId : IsNext(t, f)' => IsNext(t, f)
    BY <1>8
  <2> QED
    BY <1>1, <1>8, <2>1, <2>2, <2>3 DEF IndInv, StepInv
<1>11. LockedCopyIsFresh'
  <2> SUFFICES ASSUME NEW t \in Scheduler, NEW f \in EventId, rowLock'[f] = t
               PROVE  f \in Batch(t)' /\ loaded'[t][f] = outbox'[f]
    BY DEF LockedCopyIsFresh
  <2>1. t # s /\ rowLock[f] = t
    BY <1>1, OutboxAssumption DEF Unlocked
  <2>2. f # e
    BY <1>1, <2>1, OutboxAssumption
  <2>3. f \in Batch(t) /\ loaded[t][f] = outbox[f]
    BY <2>1 DEF IndInv, LockedCopyIsFresh
  <2> QED
    BY <1>3, <1>6, <1>8, <2>1, <2>2, <2>3
<1> QED
  BY <1>2, <1>4, <1>9, <1>10, <1>11 DEF IndInv

\* The commit of a published row.
LEMMA CommitPublishedStep ==
  ASSUME IndInv, NEW s \in Scheduler, NEW e \in EventId, CommitPublished(s, e)
  PROVE  IndInv'
<1> DEFINE row == UpdateSentStatus(outbox[e], loaded[s][e])
<1>1. pc[s] = "accepted" /\ CommitRow(s, e, row)
  BY DEF CommitPublished
<1>2. IsNext(s, e) /\ outbox[e] \in Row /\ loaded[s][e] \in Row
  BY <1>1 DEF CommitRow, IndInv, TypeOK
<1>3. row \in Row /\ row.status = "PUBLISHED" /\ row.sentAt = "recent"
  BY <1>2, UpdateSentStatusRow
<1>4. accepted[e] > 0
  BY <1>1, <1>2 DEF IndInv, StepInv
<1> HIDE DEF row
<1> QED
  BY <1>1, <1>3, <1>4, CommitRowStep

\* The commit of a failed publish.
LEMMA CommitFailedStep ==
  ASSUME IndInv, NEW s \in Scheduler, NEW e \in EventId, CommitFailed(s, e)
  PROVE  IndInv'
<1> DEFINE row == MarkFailed(outbox[e], loaded[s][e])
<1>1. CommitRow(s, e, row)
  BY DEF CommitFailed
<1>2. IsNext(s, e) /\ outbox[e] \in Row /\ loaded[s][e] \in Row
  BY <1>1 DEF CommitRow, IndInv, TypeOK
<1>3. Eligible(loaded[s][e]) /\ InTable(outbox[e]) /\ outbox[e].sentAt # "old"
  BY <1>2 DEF IndInv, CopyInv
<1>4. /\ row \in Row
      /\ row.sentAt = outbox[e].sentAt
      /\ row.status \in {outbox[e].status, "FAILED", "DEAD_LETTER"}
      /\ row.status \in Waiting => row.retryTimes < MaxRetries
  BY <1>2, <1>3, MarkFailedRow
<1>5. /\ WasSent(e) => accepted[e] > 0
      /\ outbox[e].status \in {"PUBLISHED", "DELETED"} => WasSent(e)
  BY DEF IndInv, RowInv
<1> HIDE DEF row
<1> QED
  BY <1>1, <1>3, <1>4, <1>5, CommitRowStep

\* delete_old drops only sent rows, and none that a batch holds.
LEMMA DeleteOldStep ==
  ASSUME IndInv, NEW s \in Scheduler, DeleteOld(s)
  PROVE  IndInv'
<1>1. /\ pc[s] = "deleting" /\ pc' = [pc EXCEPT ![s] = "asleep"]
      /\ outbox' = [e \in EventId |-> IF outbox[e].sentAt = "old"
                                      THEN [outbox[e] EXCEPT !.status = "DELETED"]
                                      ELSE outbox[e]]
      /\ UNCHANGED <<rowLock, loaded, accepted, raises, crashes>>
  BY DEF DeleteOld, faultVars
<1>2. TypeOK'
  <2>1. \A row \in Row : [row EXCEPT !.status = "DELETED"] \in Row
    BY DEF Row
  <2>2. outbox' \in [EventId -> Row]
    BY <1>1, <2>1 DEF IndInv, TypeOK
  <2>3. pc' \in [Scheduler -> Location]
    BY <1>1 DEF IndInv, TypeOK
  <2> QED
    BY <1>1, <2>2, <2>3 DEF IndInv, TypeOK
<1>3. \A e \in EventId :
        /\ outbox'[e].sentAt = outbox[e].sentAt
        /\ outbox[e].sentAt # "old" => outbox'[e] = outbox[e]
        /\ outbox[e].sentAt = "old" => outbox'[e].status = "DELETED"
  BY <1>1 DEF IndInv, TypeOK, Row
<1>4. RowInv'
  BY <1>1, <1>3 DEF IndInv, RowInv
<1>5. CopyInv'
  BY <1>1, <1>3 DEF IndInv, CopyInv
<1>6. StepInv'
  <2>1. pc'[s] = "asleep" /\ \A t \in Scheduler \ {s} : pc'[t] = pc[t]
    BY <1>1 DEF IndInv, TypeOK
  <2> QED
    BY <1>1, <2>1 DEF IndInv, StepInv
<1>7. LockedCopyIsFresh'
  BY <1>1, <1>3 DEF IndInv, LockedCopyIsFresh, CopyInv
<1> QED
  BY <1>2, <1>4, <1>5, <1>6, <1>7 DEF IndInv

\* A scheduler that stops takes its copies and its locks with it.
LEMMA StopStep ==
  ASSUME IndInv, NEW s \in Scheduler, Stop(s),
         raises' \in 0..MaxRaises, crashes' \in 0..MaxCrashes
  PROVE  IndInv'
<1>1. /\ pc' = [pc EXCEPT ![s] = "stopped"]
      /\ loaded' = [loaded EXCEPT ![s] = [e \in EventId |-> NoRow]]
      /\ rowLock' = Unlocked(s)
      /\ UNCHANGED <<outbox, accepted>>
  BY DEF Stop
<1>2. TypeOK'
  <2>1. rowLock' \in [EventId -> Scheduler \cup {Nobody}]
    BY <1>1 DEF IndInv, TypeOK, Unlocked
  <2> QED
    BY <1>1, <2>1, NoRowType DEF IndInv, TypeOK
<1>3. RowInv'
  BY <1>1 DEF IndInv, RowInv
<1>4. NoRow.status = "ABSENT"
  BY DEF NoRow
<1>5. pc'[s] = "stopped" /\ \A e \in EventId : loaded'[s][e] = NoRow
  BY <1>1 DEF IndInv, TypeOK
<1>6. \A t \in Scheduler \ {s} : pc'[t] = pc[t] /\ loaded'[t] = loaded[t]
  BY <1>1 DEF IndInv, TypeOK
<1>7. CopyInv' /\ StepInv'
  BY <1>1, <1>4, <1>5, <1>6 DEF IndInv, CopyInv, StepInv
<1>8. LockedCopyIsFresh'
  <2> SUFFICES ASSUME NEW t \in Scheduler, NEW e \in EventId, rowLock'[e] = t
               PROVE  e \in Batch(t)' /\ loaded'[t][e] = outbox'[e]
    BY DEF LockedCopyIsFresh
  <2>1. t # s /\ rowLock[e] = t
    BY <1>1, OutboxAssumption DEF Unlocked
  <2> QED
    BY <1>1, <1>6, <2>1 DEF IndInv, LockedCopyIsFresh
<1> QED
  BY <1>2, <1>3, <1>7, <1>8 DEF IndInv

\* The end of a scheduler's loop or process.
LEMMA RaiseOrCrashStep ==
  ASSUME IndInv, NEW s \in Scheduler, Raise(s) \/ Crash(s)
  PROVE  IndInv'
<1>1. Stop(s)
  BY DEF Raise, Crash
<1>2. raises' \in 0..MaxRaises /\ crashes' \in 0..MaxCrashes
  BY OutboxAssumption DEF Raise, Crash, IndInv, TypeOK
<1> QED
  BY <1>1, <1>2, StopStep

\* The start of a scheduler.
LEMMA RestartStep ==
  ASSUME IndInv, NEW s \in Scheduler, Restart(s)
  PROVE  IndInv'
<1>1. /\ pc[s] = "stopped" /\ pc' = [pc EXCEPT ![s] = "asleep"]
      /\ UNCHANGED <<outbox, rowLock, loaded, accepted, raises, crashes>>
  BY DEF Restart, faultVars
<1>2. pc'[s] = "asleep" /\ \A t \in Scheduler \ {s} : pc'[t] = pc[t]
  BY <1>1 DEF IndInv, TypeOK
<1>3. TypeOK' /\ RowInv' /\ CopyInv' /\ LockedCopyIsFresh'
  BY <1>1 DEF IndInv, TypeOK, RowInv, CopyInv, LockedCopyIsFresh
<1>4. StepInv'
  BY <1>1, <1>2 DEF IndInv, StepInv
<1> QED
  BY <1>3, <1>4 DEF IndInv

\* The steps of the table's other writers and of time change one row that no
\* scheduler has a lock on.
LEMMA RowStep ==
  ASSUME IndInv, NEW e \in EventId, NEW row \in Row,
         outbox' = [outbox EXCEPT ![e] = row],
         UNCHANGED <<rowLock, pc, loaded, accepted, raises, crashes>>,
         \A s \in Scheduler : rowLock[e] # s,
         row.status \in OutboxStatus,
         row.sentAt # "null" => accepted[e] > 0,
         row.status = "PUBLISHED" => row.sentAt # "null",
         row.status \in Waiting => row.retryTimes < MaxRetries,
         (\E s \in Scheduler : e \in Batch(s)) => row.sentAt # "old"
  PROVE  IndInv'
<1>1. outbox'[e] = row /\ \A f \in EventId \ {e} : outbox'[f] = outbox[f]
  BY DEF IndInv, TypeOK
<1>2. TypeOK'
  BY DEF IndInv, TypeOK
<1>3. RowInv'
  BY <1>1 DEF IndInv, RowInv
<1>4. CopyInv' /\ StepInv'
  BY <1>1 DEF IndInv, CopyInv, StepInv
<1>5. LockedCopyIsFresh'
  BY <1>1 DEF IndInv, LockedCopyIsFresh
<1> QED
  BY <1>2, <1>3, <1>4, <1>5 DEF IndInv

\* A new row, or the one a failed webhook leaves.
LEMMA InsertStep ==
  ASSUME IndInv, NEW e \in EventId, NEW row \in Insertable, Insert(e, row)
  PROVE  IndInv'
<1>1. /\ outbox[e].status = "ABSENT" /\ outbox' = [outbox EXCEPT ![e] = row]
      /\ UNCHANGED <<rowLock, pc, loaded, accepted, raises, crashes>>
  BY DEF Insert, faultVars
<1>2. \A s \in Scheduler : e \notin Batch(s) /\ rowLock[e] # s
  BY <1>1 DEF IndInv, CopyInv, LockedCopyIsFresh
<1>3. /\ row \in Row
      /\ row.sentAt = "null"
      /\ row.status \in {"PENDING", "FAILED", "DEAD_LETTER"}
      /\ row.status \in Waiting => row.retryTimes < MaxRetries
  <2>1. CASE row = NewEvent
    BY <2>1, NewEventRow, OutboxAssumption
  <2>2. ASSUME NEW n \in 0..MaxRetries - 1, row = FailedEvent(n)
        PROVE  /\ row \in Row
               /\ row.sentAt = "null"
               /\ row.status \in {"PENDING", "FAILED", "DEAD_LETTER"}
               /\ row.status \in Waiting => row.retryTimes < MaxRetries
    <3>1. n + 1 \in Nat /\ MaxRetries \in Nat
      BY OutboxAssumption
    <3> QED
      BY <2>2, <3>1, FailedEventRow
  <2> QED
    BY <2>1, <2>2 DEF Insertable
<1> QED
  BY <1>1, <1>2, <1>3, RowStep

\* A retry becomes due.
LEMMA RetryDueStep ==
  ASSUME IndInv, NEW e \in EventId, RetryDue(e)
  PROVE  IndInv'
<1> DEFINE row == [outbox[e] EXCEPT !.nextRetryAt = "past"]
<1>1. /\ InTable(outbox[e]) /\ outbox[e].nextRetryAt = "future"
      /\ outbox' = [outbox EXCEPT ![e] = row]
      /\ UNCHANGED <<rowLock, pc, loaded, accepted, raises, crashes>>
  BY DEF RetryDue, faultVars
<1>2. \A s \in Scheduler : rowLock[e] # s
  BY <1>1 DEF IndInv, CopyInv, LockedCopyIsFresh
<1>3. outbox[e] \in Row
  BY DEF IndInv, TypeOK
<1>4. /\ row \in Row /\ row.sentAt = outbox[e].sentAt
      /\ row.status = outbox[e].status /\ row.retryTimes = outbox[e].retryTimes
  BY <1>3 DEF Row
<1> HIDE DEF row
<1> QED
  BY <1>1, <1>2, <1>4, RowStep DEF IndInv, RowInv, CopyInv

\* A sent row grows old.
LEMMA AgeStep ==
  ASSUME IndInv, NEW e \in EventId, Age(e)
  PROVE  IndInv'
<1> DEFINE row == [outbox[e] EXCEPT !.sentAt = "old"]
<1>1. /\ InTable(outbox[e]) /\ outbox[e].sentAt = "recent"
      /\ \A s \in Scheduler : e \notin Batch(s)
      /\ outbox' = [outbox EXCEPT ![e] = row]
      /\ UNCHANGED <<rowLock, pc, loaded, accepted, raises, crashes>>
  BY DEF Age, faultVars
<1>2. \A s \in Scheduler : rowLock[e] # s
  BY <1>1 DEF IndInv, LockedCopyIsFresh
<1>3. outbox[e] \in Row
  BY DEF IndInv, TypeOK
<1>4. /\ row \in Row /\ row.sentAt = "old"
      /\ row.status = outbox[e].status /\ row.retryTimes = outbox[e].retryTimes
  BY <1>3 DEF Row
<1> HIDE DEF row
<1> QED
  BY <1>1, <1>2, <1>4, RowStep DEF IndInv, RowInv

\* Every step of the relay keeps IndInv.
LEMMA NextIndInv == IndInv /\ [Next]_vars => IndInv'
<1> SUFFICES ASSUME IndInv, [Next]_vars PROVE IndInv'
  OBVIOUS
<1>1. ASSUME NEW s \in Scheduler,
             GetWaiting(s) \/ DeleteOld(s) \/ Raise(s) \/ Crash(s) \/ Restart(s)
      PROVE  IndInv'
  BY <1>1, GetWaitingStep, DeleteOldStep, RaiseOrCrashStep, RestartStep
<1>2. ASSUME NEW s \in Scheduler, NEW e \in EventId,
             \/ PublishAccepted(s, e) \/ PublishFails(s, e)
             \/ CommitPublished(s, e) \/ CommitFailed(s, e)
      PROVE  IndInv'
  BY <1>2, PublishStep, CommitPublishedStep, CommitFailedStep
<1>3. ASSUME NEW e \in EventId,
             RetryDue(e) \/ Age(e) \/ (\E row \in Insertable : Insert(e, row))
      PROVE  IndInv'
  BY <1>3, RetryDueStep, AgeStep, InsertStep
<1>4. CASE UNCHANGED vars
  BY <1>4 DEF vars, IndInv, TypeOK, RowInv, CopyInv, StepInv, LockedCopyIsFresh
<1> QED
  BY <1>1, <1>2, <1>3, <1>4 DEF Next

\* The inductive invariant holds in every state of every instance.
THEOREM IndInvHolds == Spec => []IndInv
BY InitIndInv, NextIndInv, PTL DEF Spec

-----------------------------------------------------------------------------
(* What follows from it.                                                   *)

\* Every variable keeps its type; in particular no counter passes
\* max_retries, whatever stale copies schedulers write.
THEOREM TypeCorrect == Spec => []TypeOK
<1>1. IndInv => TypeOK
  BY DEF IndInv
<1> QED
  BY <1>1, IndInvHolds, PTL

\* An event of the table is sent, still selectable or dead-lettered: nothing
\* that schedulers, lost confirmations and stops do strands it.
THEOREM NothingStranded == Spec => []NoEventStranded
<1>1. IndInv => NoEventStranded
  BY DEF IndInv, TypeOK, Row, RowInv, NoEventStranded
<1> QED
  BY <1>1, IndInvHolds, PTL

\* A scheduler that still has the lock of a row works on an up-to-date copy.
THEOREM LockedCopiesFresh == Spec => []LockedCopyIsFresh
<1>1. IndInv => LockedCopyIsFresh
  BY DEF IndInv
<1> QED
  BY <1>1, IndInvHolds, PTL

\* What a commit does to the sent mark of its row.
LEMMA CommitKeepsSent ==
  ASSUME IndInv, NEW s \in Scheduler, NEW e \in EventId,
         CommitPublished(s, e) \/ CommitFailed(s, e)
  PROVE  \E row \in Row :
           /\ outbox' = [outbox EXCEPT ![e] = row]
           /\ row.status \in OutboxStatus
           /\ CommitPublished(s, e) => row.sentAt = "recent" /\ accepted[e] > 0
           /\ CommitFailed(s, e) => row.sentAt = outbox[e].sentAt
           /\ UNCHANGED accepted
<1>1. /\ IsNext(s, e) /\ UNCHANGED accepted
      /\ CommitPublished(s, e) => /\ outbox' = [outbox EXCEPT ![e] = UpdateSentStatus(outbox[e], loaded[s][e])]
                                 /\ pc[s] = "accepted"
      /\ CommitFailed(s, e) => /\ outbox' = [outbox EXCEPT ![e] = MarkFailed(outbox[e], loaded[s][e])]
                              /\ pc[s] = "failed"
  BY DEF CommitPublished, CommitFailed, CommitRow
<1>2. outbox[e] \in Row /\ loaded[s][e] \in Row
  BY DEF IndInv, TypeOK
<1>3. Eligible(loaded[s][e]) /\ InTable(outbox[e])
  BY <1>1 DEF IndInv, CopyInv
<1>4. CASE CommitPublished(s, e)
  <2>1. accepted[e] > 0 /\ ~CommitFailed(s, e)
    BY <1>1, <1>4 DEF IndInv, StepInv, CommitFailed
  <2> QED
    BY <1>1, <1>2, <1>4, <2>1, UpdateSentStatusRow
<1>5. CASE CommitFailed(s, e)
  <2>1. ~CommitPublished(s, e)
    BY <1>1, <1>5 DEF CommitPublished
  <2> QED
    BY <1>1, <1>2, <1>3, <1>5, <2>1, MarkFailedRow
<1> QED
  BY <1>4, <1>5

\* The steps that leave what the abstract relay sees as it is.
LEMMA QuietStep ==
  ASSUME IndInv, [Next]_vars
  PROVE  \/ UNCHANGED accepted /\ \A e \in EventId : StageOf(outbox'[e]) = StageOf(outbox[e])
         \/ \E s \in Scheduler, e \in EventId :
              \/ PublishAccepted(s, e) \/ PublishFails(s, e)
              \/ CommitPublished(s, e) \/ CommitFailed(s, e)
         \/ \E e \in EventId, row \in Insertable : Insert(e, row)
<1> DEFINE Quiet == UNCHANGED accepted /\ \A e \in EventId : StageOf(outbox'[e]) = StageOf(outbox[e])
<1>1. CASE UNCHANGED <<outbox, accepted>>
  BY <1>1
<1>2. ASSUME NEW s \in Scheduler, GetWaiting(s) \/ Raise(s) \/ Crash(s) \/ Restart(s)
      PROVE  Quiet
  BY <1>1, <1>2 DEF GetWaiting, Raise, Crash, Restart, Stop
<1>3. ASSUME NEW s \in Scheduler, DeleteOld(s)
      PROVE  Quiet
  <2>1. UNCHANGED accepted
    BY <1>3 DEF DeleteOld
  <2>2. ASSUME NEW e \in EventId PROVE StageOf(outbox'[e]) = StageOf(outbox[e])
    <3>1. outbox[e] \in Row
      BY DEF IndInv, TypeOK
    <3>2. outbox'[e] = IF outbox[e].sentAt = "old" THEN [outbox[e] EXCEPT !.status = "DELETED"] ELSE outbox[e]
      BY <1>3 DEF DeleteOld
    <3> QED
      BY <3>1, <3>2 DEF StageOf, Row
  <2> QED
    BY <2>1, <2>2
<1>4. ASSUME NEW e \in EventId, RetryDue(e) \/ Age(e)
      PROVE  Quiet
  <2>1. UNCHANGED accepted
    BY <1>4 DEF RetryDue, Age
  <2>2. ASSUME NEW f \in EventId PROVE StageOf(outbox'[f]) = StageOf(outbox[f])
    <3>1. outbox[f] \in Row /\ outbox \in [EventId -> Row]
      BY DEF IndInv, TypeOK
    <3>2. CASE RetryDue(e)
      <4>1. outbox'[f] = IF f = e THEN [outbox[f] EXCEPT !.nextRetryAt = "past"] ELSE outbox[f]
        BY <3>1, <3>2 DEF RetryDue
      <4> QED
        BY <3>1, <4>1 DEF StageOf, Row
    <3>3. CASE Age(e)
      <4>1. /\ outbox[e].sentAt = "recent"
            /\ outbox'[f] = IF f = e THEN [outbox[f] EXCEPT !.sentAt = "old"] ELSE outbox[f]
        BY <3>1, <3>3 DEF Age
      <4> QED
        BY <3>1, <4>1 DEF StageOf, Row
    <3> QED
      BY <1>4, <3>2, <3>3
  <2> QED
    BY <2>1, <2>2
<1> HIDE DEF Quiet
<1>5. CASE UNCHANGED vars
  BY <1>1, <1>5 DEF vars
<1> QED
  BY <1>2, <1>3, <1>4, <1>5 DEF Next, Quiet

\* No step makes a sent event unsent.
LEMMA SentStays ==
  ASSUME IndInv, [Next]_vars, NEW e \in EventId, WasSent(e)
  PROVE  WasSent(e)'
<1> USE DEF StageOf
<1>1. StageOf(outbox[e]) = "done"
  OBVIOUS
<1>2. CASE StageOf(outbox'[e]) = StageOf(outbox[e])
  BY <1>1, <1>2
<1>3. ASSUME NEW s \in Scheduler, NEW f \in EventId, PublishAccepted(s, f) \/ PublishFails(s, f)
      PROVE  WasSent(e)'
  BY <1>3 DEF PublishAccepted, PublishFails
<1>4. ASSUME NEW s \in Scheduler, NEW f \in EventId, CommitPublished(s, f) \/ CommitFailed(s, f)
      PROVE  WasSent(e)'
  BY <1>4, CommitKeepsSent DEF IndInv, TypeOK
<1>5. ASSUME NEW f \in EventId, NEW row \in Insertable, Insert(f, row)
      PROVE  WasSent(e)'
  BY <1>5 DEF Insert, IndInv, TypeOK, RowInv
<1> QED
  BY <1>2, <1>3, <1>4, <1>5, QuietStep

\* A sent event is never taken for unsent again, so it is never selected
\* again.
THEOREM SentFinal == Spec => SentIsFinal
<1>1. IndInv /\ [Next]_vars => [\A e \in EventId : WasSent(e) => WasSent(e)']_vars
  BY SentStays
<1> QED
  BY <1>1, IndInvHolds, PTL DEF Spec, SentIsFinal

-----------------------------------------------------------------------------
(* The refinement of AtLeastOnce.                                          *)

\* The relay starts as AtLeastOnce does.
LEMMA RefinesInit == Init => Relay!Init
<1> SUFFICES ASSUME Init PROVE Relay!Init
  OBVIOUS
<1>1. StageOf(NoRow) = "unknown"
  BY DEF StageOf, NoRow
<1>2. Stage = [e \in EventId |-> "unknown"]
  BY <1>1 DEF Init, Stage
<1>3. Sent = {}
  BY DEF Init, Sent
<1> QED
  BY <1>2, <1>3 DEF Relay!Init

\* Each step of the relay is one of AtLeastOnce, or none.
LEMMA RefinesNext == IndInv /\ [Next]_vars => [Relay!Next]_<<Stage, Sent>>
<1> SUFFICES ASSUME IndInv, [Next]_vars PROVE [Relay!Next]_<<Stage, Sent>>
  OBVIOUS
<1> DEFINE RNext == [Relay!Next]_<<Stage, Sent>>
<1>1. CASE UNCHANGED accepted /\ \A e \in EventId : StageOf(outbox'[e]) = StageOf(outbox[e])
  BY <1>1 DEF Stage, Sent
<1>2. ASSUME NEW s \in Scheduler, NEW e \in EventId, PublishAccepted(s, e) \/ PublishFails(s, e)
      PROVE  RNext
  <2>1. outbox[e].status \in OutboxStatus /\ UNCHANGED outbox
    BY <1>2 DEF PublishAccepted, PublishFails, IndInv, CopyInv
  <2>2. Stage[e] # "unknown" /\ UNCHANGED Stage
    BY <2>1 DEF Stage, StageOf
  <2>3. PICK n \in {0, 1} : accepted' = [accepted EXCEPT ![e] = @ + n]
    BY <1>2 DEF PublishAccepted, PublishFails
  <2>4. CASE n = 0
    <3>1. accepted' = accepted
      BY <2>3, <2>4 DEF IndInv, TypeOK
    <3> QED
      BY <2>2, <3>1 DEF Sent
  <2>5. CASE n = 1
    <3>1. Sent' = Sent \cup {e}
      BY <2>3, <2>5 DEF Sent, IndInv, TypeOK
    <3> QED
      BY <2>2, <3>1 DEF Relay!Next, Relay!Send
  <2> QED
    BY <2>4, <2>5
<1>3. ASSUME NEW s \in Scheduler, NEW e \in EventId, CommitPublished(s, e) \/ CommitFailed(s, e)
      PROVE  RNext
  <2>1. PICK row \in Row :
           /\ outbox' = [outbox EXCEPT ![e] = row]
           /\ row.status \in OutboxStatus
           /\ CommitPublished(s, e) => row.sentAt = "recent" /\ accepted[e] > 0
           /\ CommitFailed(s, e) => row.sentAt = outbox[e].sentAt
           /\ UNCHANGED accepted
    BY <1>3, CommitKeepsSent
  <2>2. InTable(outbox[e])
    BY <1>3 DEF CommitPublished, CommitFailed, CommitRow, IndInv, CopyInv
  <2>3. Stage' = [Stage EXCEPT ![e] = StageOf(row)] /\ UNCHANGED Sent
    BY <2>1 DEF Stage, Sent, IndInv, TypeOK
  <2>4. Stage[e] = StageOf(outbox[e]) /\ Stage[e] \in {"done", "waiting", "dead"}
    BY <2>2 DEF Stage, StageOf
  <2>5. CASE Stage[e] = StageOf(row)
    BY <2>3, <2>5 DEF Stage
  <2>6. CASE Stage[e] # StageOf(row) /\ CommitPublished(s, e)
    <3>1. StageOf(row) = "done" /\ e \in Sent
      BY <2>1, <2>6 DEF StageOf, Sent
    <3> QED
      BY <2>3, <2>4, <2>6, <3>1 DEF Relay!Next, Relay!Settle
  <2>7. CASE Stage[e] # StageOf(row) /\ CommitFailed(s, e)
    <3>1. {Stage[e], StageOf(row)} = {"waiting", "dead"}
      BY <2>1, <2>2, <2>4, <2>7 DEF StageOf
    <3>2. Stage' = [Stage EXCEPT ![e] = IF @ = "dead" THEN "waiting" ELSE "dead"]
      BY <2>3, <3>1
    <3> QED
      BY <2>3, <2>4, <3>1, <3>2 DEF Relay!Next, Relay!GiveUpOrRevive
  <2> QED
    BY <1>3, <2>5, <2>6, <2>7
<1>4. ASSUME NEW e \in EventId, NEW row \in Insertable, Insert(e, row)
      PROVE  RNext
  <2>1. outbox[e].status = "ABSENT" /\ outbox' = [outbox EXCEPT ![e] = row] /\ UNCHANGED accepted
    BY <1>4 DEF Insert
  <2>2. Stage[e] = "unknown"
    BY <2>1 DEF Stage, StageOf, IndInv, RowInv
  <2>3. row.sentAt = "null" /\ row.status \in {"PENDING", "FAILED", "DEAD_LETTER"}
    BY NewEventRow, FailedEventRow DEF Insertable
  <2>4. Stage' = [Stage EXCEPT ![e] = StageOf(row)] /\ UNCHANGED Sent
    BY <2>1 DEF Stage, Sent, IndInv, TypeOK
  <2>5. StageOf(row) \in {"waiting", "dead"}
    BY <2>3 DEF StageOf
  <2> QED
    BY <2>2, <2>4, <2>5 DEF Relay!Next, Relay!Store
<1> QED
  BY <1>1, <1>2, <1>3, <1>4, QuietStep

\* The relay implements at-least-once delivery, for every number of
\* schedulers, events and faults.
THEOREM RelayImplementsAtLeastOnce == Spec => RelayIsAtLeastOnce
BY RefinesInit, RefinesNext, IndInvHolds, PTL DEF Spec, RelayIsAtLeastOnce, Relay!Spec

-----------------------------------------------------------------------------
(* With one scheduler.                                                     *)
(*                                                                         *)
(* DEBUG defaults to TRUE, and then the API process runs a second loop     *)
(* beside the service outbox-scheduler.  With DEBUG set to no, only that   *)
(* service relays: copies are never stale then, so a row's columns agree,  *)
(* marks are final, and every duplicate has a cause.                       *)

AtMostOneScheduler == \A s, t \in Scheduler : s = t

\* The copy of an event that is still to be handled is its row, with or
\* without the lock: with one scheduler nobody else writes it.
CopyIsFresh == \A s \in Scheduler : \A e \in Batch(s) : loaded[s][e] = outbox[e]

Coherent(row) ==
  /\ row.status = "PENDING" => row = NewEvent
  /\ row.status = "PUBLISHED" => row.sentAt # "null" /\ row.nextRetryAt = "null" /\ ~row.error
  /\ row.status = "FAILED" =>
       row.sentAt = "null" /\ row.nextRetryAt # "null" /\ row.retryTimes \in 1..MaxRetries - 1
  /\ row.status = "DEAD_LETTER" =>
       row.sentAt = "null" /\ row.nextRetryAt = "null" /\ row.retryTimes = MaxRetries

\* The event that has been published and is not yet committed.
InFlight(e) == \E s \in Scheduler : pc[s] \in {"accepted", "failed"} /\ IsNext(s, e)

\* What the row counts, and the stops, account for every copy but one; and
\* for that one too, unless it is in flight or recorded as sent.
Excused(e) == IF WasSent(e) \/ InFlight(e) THEN 1 ELSE 0
CopiesInv ==
  \A e \in EventId :
    /\ outbox[e].status = "ABSENT" => accepted[e] = 0
    /\ accepted[e] <= Excused(e) + outbox[e].retryTimes + raises + crashes

SingleInv == IndInv /\ CopyIsFresh /\ RowCoherent /\ CopiesInv

-----------------------------------------------------------------------------
(* Rows.                                                                   *)

\* RowCoherent, row by row.
LEMMA RowsCoherent == RowCoherent <=> \A e \in EventId : Coherent(outbox[e])
BY DEF RowCoherent, Coherent

\* What is inserted is coherent, and does not look sent.
LEMMA InsertableCoherent ==
  ASSUME NEW row \in Insertable
  PROVE  Coherent(row) /\ row.sentAt = "null" /\ row.retryTimes \in Nat
<1>1. CASE row = NewEvent
  BY <1>1, NewEventRow DEF Coherent
<1>2. ASSUME NEW n \in 0..MaxRetries - 1, row = FailedEvent(n)
      PROVE  Coherent(row) /\ row.sentAt = "null" /\ row.retryTimes \in Nat
  <2>1. row.nextRetryAt = IF n + 1 >= MaxRetries THEN "null" ELSE "future"
    BY <1>2 DEF FailedEvent, NoRow
  <2>2. /\ row.sentAt = "null" /\ row.retryTimes = n + 1
        /\ row.status = IF n + 1 >= MaxRetries THEN "DEAD_LETTER" ELSE "FAILED"
    BY <1>2, FailedEventRow
  <2> QED
    BY <2>1, <2>2, OutboxAssumption DEF Coherent
<1> QED
  BY <1>1, <1>2 DEF Insertable

\* An UPDATE from a fresh copy leaves a coherent row.
LEMMA SentCoherent ==
  ASSUME NEW row \in Row
  PROVE  /\ Coherent(UpdateSentStatus(row, row))
         /\ UpdateSentStatus(row, row).sentAt # "null"
         /\ UpdateSentStatus(row, row).retryTimes = row.retryTimes
BY DEF UpdateSentStatus, Row, Coherent

\* A failure written over the row it was read from leaves it coherent and
\* counts one more.
LEMMA FailedCoherent ==
  ASSUME NEW row \in Row, Eligible(row)
  PROVE  /\ Coherent(MarkFailed(row, row))
         /\ MarkFailed(row, row).retryTimes = row.retryTimes + 1
<1> DEFINE n == row.retryTimes
           f == FailedEvent(n)
           new == MarkFailed(row, row)
<1>1. n \in 0..MaxRetries - 1
  BY OutboxAssumption DEF Row
<1>2. /\ f \in Row /\ f.retryTimes = n + 1
      /\ f.status = IF n + 1 >= MaxRetries THEN "DEAD_LETTER" ELSE "FAILED"
  BY <1>1, FailedEventRow
<1>3. f.nextRetryAt = IF n + 1 >= MaxRetries THEN "null" ELSE "future"
  BY DEF FailedEvent, NoRow
<1> HIDE DEF f
<1>4. /\ new.sentAt = "null" /\ new.retryTimes = f.retryTimes /\ new.status = f.status
      /\ new.nextRetryAt = f.nextRetryAt
  BY DEF MarkFailed, Row, f
<1> HIDE DEF new, n
<1>5. Coherent(new)
  <2>1. CASE n + 1 >= MaxRetries
    BY <1>1, <1>2, <1>3, <1>4, <2>1, OutboxAssumption DEF Coherent
  <2>2. CASE n + 1 < MaxRetries
    BY <1>1, <1>2, <1>3, <1>4, <2>2, OutboxAssumption DEF Coherent
  <2> QED
    BY <1>1, <2>1, <2>2, OutboxAssumption
<1> QED
  BY <1>2, <1>4, <1>5 DEF new, n

\* The next event of a batch is one event.
LEMMA NextIsOne ==
  ASSUME NEW s \in Scheduler, NEW e \in EventId, NEW f \in EventId, IsNext(s, e), IsNext(s, f)
  PROVE  e = f
BY OutboxAssumption

-----------------------------------------------------------------------------
(* One lemma per kind of step.                                             *)

\* What the parts of the invariant say of numbers.
LEMMA CountTypes ==
  ASSUME TypeOK
  PROVE  /\ accepted \in [EventId -> Nat] /\ raises \in Nat /\ crashes \in Nat
         /\ \A e \in EventId : outbox[e] \in Row /\ outbox[e].retryTimes \in Nat
         /\ \A e \in EventId : Excused(e) \in {0, 1}
BY OutboxAssumption DEF TypeOK, Row, Excused

\* The empty table has no copies.
LEMMA SingleInitially == Init => SingleInv
<1> SUFFICES ASSUME Init PROVE SingleInv
  OBVIOUS
<1>1. IndInv
  BY InitIndInv
<1>2. NoRow.status = "ABSENT" /\ NoRow.retryTimes = 0 /\ NoRow.sentAt = "null"
  BY DEF NoRow
<1>3. CopyIsFresh
  BY <1>2 DEF Init, CopyIsFresh
<1>4. RowCoherent
  BY <1>2 DEF Init, RowCoherent
<1>5. CopiesInv
  <2>1. \A e \in EventId : ~WasSent(e) /\ ~InFlight(e)
    BY <1>2 DEF Init, InFlight
  <2> QED
    BY <1>2, <2>1 DEF Init, CopiesInv, Excused
<1> QED
  BY <1>1, <1>3, <1>4, <1>5 DEF SingleInv

\* get_waiting copies the rows as they are, and nothing is in flight.
LEMMA SingleGetWaiting ==
  ASSUME AtMostOneScheduler, SingleInv, NEW s \in Scheduler, GetWaiting(s)
  PROVE  CopyIsFresh' /\ RowCoherent' /\ CopiesInv'
<1>1. PICK B \in SUBSET EventId :
        /\ loaded' = [loaded EXCEPT ![s] = [e \in EventId |-> IF e \in B THEN outbox[e] ELSE NoRow]]
        /\ pc' = [pc EXCEPT ![s] = IF B = {} THEN "deleting" ELSE "publishing"]
  BY DEF GetWaiting
<1>2. pc[s] = "asleep" /\ UNCHANGED <<outbox, accepted, raises, crashes>>
  BY DEF GetWaiting, faultVars
<1>3. NoRow.status = "ABSENT"
  BY DEF NoRow
<1>4. \A e \in EventId : loaded'[s][e] = IF e \in B THEN outbox[e] ELSE NoRow
  BY <1>1 DEF SingleInv, IndInv, TypeOK
<1>5. CopyIsFresh'
  BY <1>2, <1>3, <1>4 DEF AtMostOneScheduler, CopyIsFresh
<1>6. RowCoherent'
  BY <1>2 DEF SingleInv, RowCoherent
<1>7. CopiesInv'
  <2>1. \A e \in EventId : ~InFlight(e)
    BY <1>2 DEF AtMostOneScheduler, InFlight
  <2>2. \A e \in EventId : Excused(e)' >= Excused(e) /\ Excused(e)' \in {0, 1}
    BY <1>2, <2>1 DEF Excused
  <2>3. TypeOK /\ CopiesInv
    BY DEF SingleInv, IndInv
  <2> QED
    BY <1>2, <2>2, <2>3, CountTypes DEF CopiesInv
<1> QED
  BY <1>5, <1>6, <1>7

\* A publish puts the next event in flight, which was neither sent nor in
\* flight before.
LEMMA SinglePublish ==
  ASSUME AtMostOneScheduler, SingleInv, NEW s \in Scheduler, NEW e \in EventId,
         PublishAccepted(s, e) \/ PublishFails(s, e)
  PROVE  CopyIsFresh' /\ RowCoherent' /\ CopiesInv'
<1>1. /\ pc[s] = "publishing" /\ IsNext(s, e)
      /\ UNCHANGED <<outbox, loaded, raises, crashes>>
  BY DEF PublishAccepted, PublishFails, faultVars
<1>2. PICK n \in {0, 1}, where \in {"accepted", "failed"} :
        accepted' = [accepted EXCEPT ![e] = @ + n] /\ pc' = [pc EXCEPT ![s] = where]
  BY DEF PublishAccepted, PublishFails
<1>3. TypeOK /\ CopyInv /\ CopiesInv
  BY DEF SingleInv, IndInv
<1>4. CopyIsFresh' /\ RowCoherent'
  BY <1>1 DEF SingleInv, CopyIsFresh, RowCoherent
<1>5. outbox[e].sentAt = "null" /\ outbox[e].status # "ABSENT"
  BY <1>1, <1>3 DEF CopyInv, CopyIsFresh, SingleInv
<1>6. ~InFlight(e)
  BY <1>1 DEF AtMostOneScheduler, InFlight
<1>7. InFlight(e)'
  BY <1>1, <1>2, <1>3 DEF InFlight, TypeOK
<1>8. \A f \in EventId : Excused(f)' \in {0, 1} /\ (f # e => Excused(f)' >= Excused(f))
  <2>1. \A f \in EventId : ~InFlight(f) \/ f = e
    BY <1>1 DEF AtMostOneScheduler, InFlight
  <2> QED
    BY <1>1, <2>1 DEF Excused
<1>9. Excused(e) = 0 /\ Excused(e)' = 1
  BY <1>5, <1>6, <1>7 DEF Excused
<1>10. CopiesInv'
  <2> SUFFICES ASSUME NEW f \in EventId
               PROVE  /\ outbox'[f].status = "ABSENT" => accepted'[f] = 0
                      /\ accepted'[f] <= Excused(f)' + outbox'[f].retryTimes + raises' + crashes'
    BY DEF CopiesInv
  <2>1. CASE f = e
    BY <1>1, <1>2, <1>3, <1>5, <1>9, <2>1, CountTypes DEF CopiesInv
  <2>2. CASE f # e
    BY <1>1, <1>2, <1>3, <1>8, <2>2, CountTypes DEF CopiesInv
  <2> QED
    BY <2>1, <2>2
<1> QED
  BY <1>4, <1>10

\* A commit writes the row from a copy that is the row: as sent, or with the
\* failure counted.
LEMMA SingleCommit ==
  ASSUME AtMostOneScheduler, SingleInv, NEW s \in Scheduler, NEW e \in EventId,
         CommitPublished(s, e) \/ CommitFailed(s, e)
  PROVE  /\ CopyIsFresh' /\ RowCoherent' /\ CopiesInv'
         /\ outbox[e].status \in Waiting
         /\ \A f \in EventId \ {e} : outbox'[f] = outbox[f]
<1>1. TypeOK /\ CopyInv /\ CopiesInv /\ RowCoherent /\ CopyIsFresh
  BY DEF SingleInv, IndInv
<1>2. pc[s] \in {"accepted", "failed"} /\ IsNext(s, e)
  BY DEF CommitPublished, CommitFailed, CommitRow
<1>3. /\ loaded[s][e] = outbox[e] /\ Eligible(outbox[e]) /\ outbox[e] \in Row
      /\ outbox[e].retryTimes \in Nat
  BY <1>1, <1>2, CountTypes DEF CopyInv, CopyIsFresh
<1>4. PICK row :
        /\ CommitRow(s, e, row) /\ Coherent(row)
        /\ \/ row.sentAt # "null" /\ row.retryTimes = outbox[e].retryTimes
           \/ row.retryTimes = outbox[e].retryTimes + 1
        /\ row.status # "ABSENT"
  <2>1. CASE CommitPublished(s, e)
    BY <1>3, <2>1, SentCoherent, UpdateSentStatusRow DEF CommitPublished
  <2>2. CASE CommitFailed(s, e)
    BY <1>3, <2>2, FailedCoherent, MarkFailedRow DEF CommitFailed
  <2> QED
    BY <2>1, <2>2
<1>5. /\ outbox'[e] = row /\ \A f \in EventId \ {e} : outbox'[f] = outbox[f]
      /\ loaded'[s][e].status = "ABSENT"
      /\ \A f \in EventId \ {e} : loaded'[s][f] = loaded[s][f]
      /\ UNCHANGED <<accepted, raises, crashes>>
  BY <1>1, <1>4 DEF CommitRow, TypeOK, NoRow, faultVars
<1>6. CopyIsFresh'
  BY <1>1, <1>5 DEF AtMostOneScheduler, CopyIsFresh
<1>7. RowCoherent'
  <2>1. \A f \in EventId : Coherent(outbox'[f])
    BY <1>1, <1>4, <1>5, RowsCoherent
  <2> QED
    BY <2>1 DEF RowCoherent, Coherent
<1>8. CopiesInv'
  <2>1. \A f \in EventId : Excused(f) \in {0, 1} /\ Excused(f)' \in {0, 1}
    BY DEF Excused
  <2>2. ASSUME NEW f \in EventId, f # e
        PROVE  accepted[f] <= Excused(f)' + outbox[f].retryTimes + raises + crashes
    <3>1. ~InFlight(f)
      BY <1>2, <2>2, NextIsOne DEF AtMostOneScheduler, InFlight
    <3>2. Excused(f)' >= Excused(f)
      BY <1>5, <2>2, <3>1 DEF Excused
    <3> QED
      BY <1>1, <2>1, <3>2, CountTypes DEF CopiesInv
  <2>3. accepted[e] <= Excused(e)' + row.retryTimes + raises + crashes
    <3>1. row.sentAt # "null" => Excused(e)' = 1
      BY <1>5 DEF Excused
    <3>2. /\ accepted[e] \in Nat /\ raises \in Nat /\ crashes \in Nat
          /\ accepted[e] <= Excused(e) + outbox[e].retryTimes + raises + crashes
      BY <1>1, CountTypes DEF CopiesInv
    <3> QED
      BY <1>3, <1>4, <2>1, <3>1, <3>2
  <2>4. \A f \in EventId \ {e} : outbox[f].status = "ABSENT" => accepted[f] = 0
    BY <1>1 DEF CopiesInv
  <2> QED
    BY <1>4, <1>5, <2>2, <2>3, <2>4 DEF CopiesInv
<1> QED
  BY <1>3, <1>5, <1>6, <1>7, <1>8

\* A stop loses the batch; it may lose one record of a publish, and it is
\* counted.
LEMMA SingleStop ==
  ASSUME SingleInv, NEW s \in Scheduler, Raise(s) \/ Crash(s)
  PROVE  CopyIsFresh' /\ RowCoherent' /\ CopiesInv'
<1>1. TypeOK /\ CopiesInv /\ CopyIsFresh
  BY DEF SingleInv, IndInv
<1>2. /\ UNCHANGED <<outbox, accepted>>
      /\ loaded' = [loaded EXCEPT ![s] = [e \in EventId |-> NoRow]]
      /\ \/ raises' = raises + 1 /\ crashes' = crashes
         \/ crashes' = crashes + 1 /\ raises' = raises
  BY DEF Raise, Crash, Stop
<1>3. CopyIsFresh'
  <2>1. \A e \in EventId : loaded'[s][e].status = "ABSENT"
    BY <1>1, <1>2 DEF TypeOK, NoRow
  <2>2. \A t \in Scheduler \ {s} : loaded'[t] = loaded[t]
    BY <1>1, <1>2 DEF TypeOK
  <2> QED
    BY <1>1, <1>2, <2>1, <2>2 DEF CopyIsFresh
<1>4. RowCoherent'
  BY <1>2 DEF SingleInv, RowCoherent
<1>5. CopiesInv'
  <2> SUFFICES ASSUME NEW e \in EventId
               PROVE  /\ outbox[e].status = "ABSENT" => accepted[e] = 0
                      /\ accepted[e] <= Excused(e)' + outbox[e].retryTimes + raises' + crashes'
    BY <1>2 DEF CopiesInv
  <2>1. Excused(e) \in {0, 1} /\ Excused(e)' \in {0, 1}
    BY DEF Excused
  <2>2. /\ outbox[e].status = "ABSENT" => accepted[e] = 0
        /\ accepted[e] <= Excused(e) + outbox[e].retryTimes + raises + crashes
    BY <1>1 DEF CopiesInv
  <2> QED
    BY <1>1, <1>2, <2>1, <2>2, CountTypes
<1> QED
  BY <1>3, <1>4, <1>5

\* Nothing is in flight where a scheduler rests, and a resting scheduler has
\* no copies.
LEMMA SingleRest ==
  ASSUME AtMostOneScheduler, SingleInv, NEW s \in Scheduler, DeleteOld(s) \/ Restart(s)
  PROVE  /\ CopyIsFresh' /\ RowCoherent' /\ CopiesInv'
         /\ \A e \in EventId : \/ outbox'[e] = outbox[e]
                               \/ outbox[e].sentAt = "old" /\ outbox'[e].status = "DELETED"
<1>1. TypeOK /\ CopiesInv /\ StepInv
  BY DEF SingleInv, IndInv
<1>2. pc[s] \in {"deleting", "stopped"} /\ UNCHANGED <<loaded, accepted, raises, crashes>>
  BY DEF DeleteOld, Restart, faultVars
<1>3. \A e \in EventId :
        \/ outbox'[e] = outbox[e]
        \/ /\ outbox[e].sentAt = "old" /\ outbox'[e].sentAt = "old"
           /\ outbox'[e].status = "DELETED" /\ outbox'[e].retryTimes = outbox[e].retryTimes
  <2>1. \A e \in EventId : outbox[e] \in Row
    BY <1>1, CountTypes
  <2>2. CASE DeleteOld(s)
    BY <2>1, <2>2 DEF DeleteOld, Row
  <2>3. CASE Restart(s)
    BY <2>3 DEF Restart
  <2> QED
    BY <2>2, <2>3
<1>4. CopyIsFresh'
  <2>1. \A t \in Scheduler : Batch(t) = {}
    BY <1>1, <1>2 DEF AtMostOneScheduler, StepInv
  <2> QED
    BY <1>2, <2>1 DEF CopyIsFresh
<1>5. RowCoherent'
  <2>1. \A e \in EventId : Coherent(outbox[e])
    BY RowsCoherent DEF SingleInv
  <2>2. \A e \in EventId : Coherent(outbox'[e])
    BY <1>3, <2>1 DEF Coherent
  <2> QED
    BY <2>2 DEF RowCoherent, Coherent
<1>6. CopiesInv'
  <2>1. \A e \in EventId : ~InFlight(e)
    BY <1>2 DEF AtMostOneScheduler, InFlight
  <2>2. \A e \in EventId : Excused(e) \in {0, 1} /\ Excused(e)' \in {0, 1} /\ Excused(e)' >= Excused(e)
    BY <1>3, <2>1 DEF Excused
  <2>3. \A e \in EventId : outbox'[e].retryTimes = outbox[e].retryTimes
    BY <1>3
  <2>4. \A e \in EventId : outbox'[e].status = "ABSENT" => outbox[e].status = "ABSENT"
    BY <1>3
  <2> QED
    BY <1>1, <1>2, <2>2, <2>3, <2>4, CountTypes DEF CopiesInv
<1> QED
  BY <1>3, <1>4, <1>5, <1>6

\* Another transaction, or time, changes one row, of which no copy is in a
\* batch.
LEMMA SingleRow ==
  ASSUME SingleInv, NEW e \in EventId, NEW row,
         outbox' = [outbox EXCEPT ![e] = row], Coherent(row),
         UNCHANGED <<rowLock, pc, loaded, accepted, faultVars>>,
         \A s \in Scheduler : e \notin Batch(s),
         row.status # "ABSENT", row.retryTimes \in Nat,
         WasSent(e) => row.sentAt # "null",
         outbox[e].status = "ABSENT" \/ row.retryTimes = outbox[e].retryTimes
  PROVE  CopyIsFresh' /\ RowCoherent' /\ CopiesInv'
<1>1. TypeOK /\ CopiesInv /\ CopyIsFresh /\ RowCoherent
  BY DEF SingleInv, IndInv
<1>2. outbox'[e] = row /\ \A f \in EventId \ {e} : outbox'[f] = outbox[f]
  BY <1>1 DEF TypeOK
<1>3. UNCHANGED <<raises, crashes>>
  BY DEF faultVars
<1>4. CopyIsFresh'
  BY <1>1, <1>2 DEF CopyIsFresh
<1>5. RowCoherent'
  <2>1. \A f \in EventId : Coherent(outbox'[f])
    BY <1>1, <1>2, RowsCoherent
  <2> QED
    BY <2>1 DEF RowCoherent, Coherent
<1>6. CopiesInv'
  <2>1. \A f \in EventId : Excused(f) \in {0, 1} /\ Excused(f)' \in {0, 1} /\ Excused(f)' >= Excused(f)
    BY <1>2 DEF Excused, InFlight
  <2>2. ASSUME NEW f \in EventId \ {e}
        PROVE  /\ outbox'[f].status = "ABSENT" => accepted[f] = 0
               /\ accepted[f] <= Excused(f)' + outbox'[f].retryTimes + raises + crashes
    BY <1>1, <1>2, <2>1, CountTypes DEF CopiesInv
  <2>3. accepted[e] <= Excused(e)' + row.retryTimes + raises + crashes
    <3>1. /\ accepted[e] \in Nat /\ raises \in Nat /\ crashes \in Nat /\ outbox[e].retryTimes \in Nat
          /\ accepted[e] <= Excused(e) + outbox[e].retryTimes + raises + crashes
          /\ outbox[e].status = "ABSENT" => accepted[e] = 0
      BY <1>1, CountTypes DEF CopiesInv
    <3> QED
      BY <2>1, <3>1
  <2> QED
    BY <1>2, <1>3, <2>2, <2>3 DEF CopiesInv
<1> QED
  BY <1>4, <1>5, <1>6

\* What time and the other transactions do to rows no batch has loaded.
LEMMA SingleOther ==
  ASSUME SingleInv, NEW e \in EventId,
         RetryDue(e) \/ Age(e) \/ \E row \in Insertable : Insert(e, row)
  PROVE  /\ CopyIsFresh' /\ RowCoherent' /\ CopiesInv'
         /\ \A f \in EventId : outbox[f].status = "ABSENT" \/ outbox'[f].status = outbox[f].status
<1>1. TypeOK /\ CopyInv /\ CopyIsFresh /\ Coherent(outbox[e]) /\ outbox[e] \in Row
      /\ outbox[e].retryTimes \in Nat
  BY RowsCoherent, CountTypes DEF SingleInv, IndInv
<1>2. PICK row :
        /\ outbox' = [outbox EXCEPT ![e] = row] /\ Coherent(row)
        /\ UNCHANGED <<rowLock, pc, loaded, accepted, faultVars>>
        /\ \A s \in Scheduler : e \notin Batch(s)
        /\ row.status # "ABSENT" /\ row.retryTimes \in Nat
        /\ WasSent(e) => row.sentAt # "null"
        /\ \/ outbox[e].status = "ABSENT"
           \/ row.retryTimes = outbox[e].retryTimes /\ row.status = outbox[e].status
  <2>1. ASSUME NEW row \in Insertable, Insert(e, row)
        PROVE  /\ outbox' = [outbox EXCEPT ![e] = row] /\ Coherent(row)
               /\ UNCHANGED <<rowLock, pc, loaded, accepted, faultVars>>
               /\ \A s \in Scheduler : e \notin Batch(s)
               /\ row.status # "ABSENT" /\ row.retryTimes \in Nat
               /\ ~WasSent(e)
               /\ outbox[e].status = "ABSENT"
    <3>1. outbox[e].status = "ABSENT" /\ outbox' = [outbox EXCEPT ![e] = row]
          /\ UNCHANGED <<rowLock, pc, loaded, accepted, faultVars>>
      BY <2>1 DEF Insert
    <3>2. row.status # "ABSENT"
      BY NewEventRow, FailedEventRow DEF Insertable
    <3>3. \A s \in Scheduler : e \notin Batch(s)
      BY <1>1, <3>1 DEF CopyInv
    <3>4. ~WasSent(e)
      BY <3>1 DEF SingleInv, IndInv, RowInv
    <3> QED
      BY <3>1, <3>2, <3>3, <3>4, InsertableCoherent
  <2>2. ASSUME RetryDue(e)
        PROVE  /\ outbox' = [outbox EXCEPT ![e] = [outbox[e] EXCEPT !.nextRetryAt = "past"]]
               /\ Coherent([outbox[e] EXCEPT !.nextRetryAt = "past"])
               /\ UNCHANGED <<rowLock, pc, loaded, accepted, faultVars>>
               /\ \A s \in Scheduler : e \notin Batch(s)
               /\ outbox[e].status # "ABSENT"
    <3>1. InTable(outbox[e]) /\ outbox[e].nextRetryAt = "future"
          /\ outbox' = [outbox EXCEPT ![e] = [outbox[e] EXCEPT !.nextRetryAt = "past"]]
          /\ UNCHANGED <<rowLock, pc, loaded, accepted, faultVars>>
      BY <1>1, <2>2 DEF RetryDue, TypeOK
    <3>2. \A s \in Scheduler : e \notin Batch(s)
      BY <1>1, <3>1 DEF CopyInv, CopyIsFresh
    <3>3. outbox[e].status = "FAILED"
      BY <1>1, <3>1 DEF Coherent, NewEvent, NoRow
    <3>4. Coherent([outbox[e] EXCEPT !.nextRetryAt = "past"])
      BY <1>1, <3>3 DEF Coherent, Row
    <3> QED
      BY <3>1, <3>2, <3>3, <3>4
  <2>3. ASSUME Age(e)
        PROVE  /\ outbox' = [outbox EXCEPT ![e] = [outbox[e] EXCEPT !.sentAt = "old"]]
               /\ Coherent([outbox[e] EXCEPT !.sentAt = "old"])
               /\ UNCHANGED <<rowLock, pc, loaded, accepted, faultVars>>
               /\ \A s \in Scheduler : e \notin Batch(s)
               /\ outbox[e].status # "ABSENT"
    <3>1. /\ InTable(outbox[e]) /\ outbox[e].sentAt = "recent"
          /\ outbox' = [outbox EXCEPT ![e] = [outbox[e] EXCEPT !.sentAt = "old"]]
          /\ UNCHANGED <<rowLock, pc, loaded, accepted, faultVars>>
          /\ \A s \in Scheduler : e \notin Batch(s)
      BY <1>1, <2>3 DEF Age, TypeOK
    <3>2. outbox[e].status = "PUBLISHED"
      BY <1>1, <3>1 DEF Coherent, NewEvent, NoRow
    <3>3. Coherent([outbox[e] EXCEPT !.sentAt = "old"])
      BY <1>1, <3>2 DEF Coherent, Row
    <3> QED
      BY <3>1, <3>2, <3>3
  <2>4. /\ [outbox[e] EXCEPT !.nextRetryAt = "past"].status = outbox[e].status
        /\ [outbox[e] EXCEPT !.nextRetryAt = "past"].retryTimes = outbox[e].retryTimes
        /\ [outbox[e] EXCEPT !.nextRetryAt = "past"].sentAt = outbox[e].sentAt
        /\ [outbox[e] EXCEPT !.sentAt = "old"].status = outbox[e].status
        /\ [outbox[e] EXCEPT !.sentAt = "old"].retryTimes = outbox[e].retryTimes
        /\ [outbox[e] EXCEPT !.sentAt = "old"].sentAt = "old"
    BY <1>1 DEF Row
  <2>5. CASE RetryDue(e)
    BY <1>1, <2>2, <2>4, <2>5
  <2>6. CASE Age(e)
    BY <1>1, <2>3, <2>4, <2>6
  <2>7. CASE \E row \in Insertable : Insert(e, row)
    BY <2>1, <2>7
  <2> QED
    BY <2>5, <2>6, <2>7
<1>3. \A f \in EventId : outbox[f].status = "ABSENT" \/ outbox'[f].status = outbox[f].status
  BY <1>1, <1>2 DEF TypeOK
<1>4. CopyIsFresh' /\ RowCoherent' /\ CopiesInv'
  BY <1>2, SingleRow
<1> QED
  BY <1>3, <1>4

-----------------------------------------------------------------------------
(* The theorems.                                                           *)

\* Every step keeps the invariant, and what it does to the status of a row.
LEMMA SingleStep ==
  ASSUME AtMostOneScheduler, SingleInv, [Next]_vars
  PROVE  /\ SingleInv'
         /\ \A e \in EventId : \/ outbox[e].status \in Waiting \cup {"ABSENT"}
                               \/ outbox'[e].status = outbox[e].status
                               \/ outbox[e].sentAt = "old" /\ outbox'[e].status = "DELETED"
<1>1. IndInv'
  BY NextIndInv DEF SingleInv
<1> DEFINE Kept == CopyIsFresh' /\ RowCoherent' /\ CopiesInv'
           Moved == \A e \in EventId : \/ outbox[e].status \in Waiting \cup {"ABSENT"}
                                       \/ outbox'[e].status = outbox[e].status
                                       \/ outbox[e].sentAt = "old" /\ outbox'[e].status = "DELETED"
<1>2. ASSUME NEW s \in Scheduler, GetWaiting(s)
      PROVE  Kept /\ Moved
  <2>1. outbox' = outbox
    BY <1>2 DEF GetWaiting
  <2> QED
    BY <1>2, <2>1, SingleGetWaiting
<1>3. ASSUME NEW s \in Scheduler, NEW e \in EventId, PublishAccepted(s, e) \/ PublishFails(s, e)
      PROVE  Kept /\ Moved
  <2>1. outbox' = outbox
    BY <1>3 DEF PublishAccepted, PublishFails
  <2> QED
    BY <1>3, <2>1, SinglePublish
<1>4. ASSUME NEW s \in Scheduler, NEW e \in EventId, CommitPublished(s, e) \/ CommitFailed(s, e)
      PROVE  Kept /\ Moved
  BY <1>4, SingleCommit
<1>5. ASSUME NEW s \in Scheduler, Raise(s) \/ Crash(s)
      PROVE  Kept /\ Moved
  <2>1. outbox' = outbox
    BY <1>5 DEF Raise, Crash, Stop
  <2> QED
    BY <1>5, <2>1, SingleStop
<1>6. ASSUME NEW s \in Scheduler, DeleteOld(s) \/ Restart(s)
      PROVE  Kept /\ Moved
  BY <1>6, SingleRest
<1>7. ASSUME NEW e \in EventId, RetryDue(e) \/ Age(e) \/ \E row \in Insertable : Insert(e, row)
      PROVE  Kept /\ Moved
  BY <1>7, SingleOther
<1>8. ASSUME UNCHANGED vars
      PROVE  Kept /\ Moved
  <2>1. UNCHANGED <<outbox, pc, loaded, accepted, raises, crashes>>
    BY <1>8 DEF vars
  <2>2. CopyIsFresh' /\ RowCoherent'
    BY <2>1 DEF SingleInv, CopyIsFresh, RowCoherent
  <2>3. CopiesInv'
    BY <2>1 DEF SingleInv, CopiesInv, Excused, InFlight
  <2> QED
    BY <2>1, <2>2, <2>3
<1> HIDE DEF Kept, Moved
<1>9. Kept /\ Moved
  BY <1>2, <1>3, <1>4, <1>5, <1>6, <1>7, <1>8 DEF Next
<1> QED
  BY <1>1, <1>9 DEF SingleInv, Kept, Moved

\* What a single scheduler keeps beyond IndInv: its copies are never stale,
\* so rows stay coherent, and each extra copy of a message has its excuse.
THEOREM SingleInvariant ==
  ASSUME AtMostOneScheduler
  PROVE  Spec => []SingleInv
<1>1. SingleInv /\ [Next]_vars => SingleInv'
  BY SingleStep
<1> QED
  BY <1>1, SingleInitially, PTL DEF Spec

\* With one scheduler the columns of a row agree.
THEOREM RowsAreCoherent ==
  ASSUME AtMostOneScheduler
  PROVE  Spec => []RowCoherent
<1>1. SingleInv => RowCoherent
  BY DEF SingleInv
<1> QED
  BY <1>1, SingleInvariant, PTL

\* With one scheduler every second copy of a message has a cause.
THEOREM DuplicatesHaveCauses ==
  ASSUME AtMostOneScheduler
  PROVE  Spec => []NoSpuriousDuplicate
<1>1. ASSUME SingleInv
      PROVE  NoSpuriousDuplicate
  <2>1. TypeOK /\ CopiesInv
    BY <1>1 DEF SingleInv, IndInv
  <2> QED
    BY <2>1, CountTypes DEF CopiesInv, NoSpuriousDuplicate
<1> QED
  BY <1>1, SingleInvariant, PTL

\* With one scheduler a dead-lettered row stays so.
THEOREM DeadLettersStay ==
  ASSUME AtMostOneScheduler
  PROVE  Spec => DeadLetterIsFinal
<1>1. ASSUME SingleInv, [Next]_vars, NEW e \in EventId, outbox[e].status = "DEAD_LETTER"
      PROVE  outbox'[e].status = "DEAD_LETTER"
  <2>1. outbox[e].sentAt = "null"
    BY <1>1 DEF SingleInv, RowCoherent
  <2> QED
    BY <1>1, <2>1, SingleStep
<1>2. SingleInv /\ [Next]_vars
        => [\A e \in EventId : outbox[e].status = "DEAD_LETTER" => outbox'[e].status = "DEAD_LETTER"]_vars
  BY <1>1
<1> QED
  BY <1>2, SingleInvariant, PTL DEF Spec, DeadLetterIsFinal

\* With one scheduler a published row keeps its mark until it is deleted.
THEOREM PublishedMarksStay ==
  ASSUME AtMostOneScheduler
  PROVE  Spec => PublishedMarkStays
<1>1. ASSUME SingleInv, [Next]_vars, NEW e \in EventId, outbox[e].status = "PUBLISHED"
      PROVE  outbox'[e].status \in {"PUBLISHED", "DELETED"}
  BY <1>1, SingleStep
<1>2. SingleInv /\ [Next]_vars
        => [\A e \in EventId : outbox[e].status = "PUBLISHED"
                                 => outbox'[e].status \in {"PUBLISHED", "DELETED"}]_vars
  BY <1>1
<1> QED
  BY <1>2, SingleInvariant, PTL DEF Spec, PublishedMarkStays
=============================================================================
