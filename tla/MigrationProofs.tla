---------------------------- MODULE MigrationProofs ----------------------------
(***************************************************************************)
(* Lemmas about Migration: what each statement of upgrade and downgrade    *)
(* finds and leaves, and the invariant that the commands keep.  The        *)
(* theorems are in PaymentSystemProofs, as the commands are steps of the   *)
(* whole system.                                                           *)
(***************************************************************************)
EXTENDS Migration, SequenceTheorems, TLAPS

\* The database as the statements of a command leave it, one after the other:
\* what statement i finds is entry i, what the last one leaves is the last.
Database(tables, types, revision) ==
  [tables |-> tables, types |-> types, revision |-> revision]

Currency == Type("payment_currency", {"RUB", "USD", "EUR"})
PaymentStatus == Type("payment_status", {"PENDING", "SUCCEEDED", "FAILED"})
OutboxStatus == Type("outbox_status", {"PENDING", "PUBLISHED", "FAILED", "DEAD_LETTER"})
Payments == Table("payments", {Currency, PaymentStatus}, {"id", "idempotency_key"})
OutboxEvents == Table("outbox_events", {OutboxStatus}, {"id"})
Inbox == Table("transactional_inbox", {}, {"correlation_id"})
AllTypes == {Currency, PaymentStatus, OutboxStatus}
HeadRevision == "609f2b15f56c"

UpgradeDrafts == <<
  Database({}, {}, "base"),
  Database({Payments}, {Currency, PaymentStatus}, "base"),
  Database({Payments, OutboxEvents}, AllTypes, "base"),
  Database({Payments, OutboxEvents, Inbox}, AllTypes, "base"),
  Database({Payments, OutboxEvents, Inbox}, AllTypes, HeadRevision) >>

DowngradeDrafts == <<
  Database({Payments, OutboxEvents, Inbox}, AllTypes, HeadRevision),
  Database({Payments, OutboxEvents}, AllTypes, HeadRevision),
  Database({Payments}, AllTypes, HeadRevision),
  Database({}, AllTypes, HeadRevision),
  Database({}, {Currency, PaymentStatus}, HeadRevision),
  Database({}, {Currency}, HeadRevision),
  Database({}, {}, HeadRevision),
  Database({}, {}, "base") >>

\* A command that has come to statement i of its list.
At(i, statements, drafts) ==
  todo = SubSeq(statements, i, Len(statements)) /\ draft = drafts[i]

\* Outside a command nothing is left to do; inside one, the draft is what the
\* statements before the next one have made of the committed database.
MigrationInv ==
  /\ database \in {Empty, Mapped}
  /\ \/ todo = <<>> /\ (command = "none" \/ draft = database)
     \/ command = "upgrade" /\ \E i \in 1..Len(Upgrade) + 1 : At(i, Upgrade, UpgradeDrafts)
     \/ command = "downgrade" /\ \E i \in 1..Len(Downgrade) + 1 : At(i, Downgrade, DowngradeDrafts)

-----------------------------------------------------------------------------
\* The drafts of a command begin and end with the schemas it leads between.
LEMMA DraftEnds ==
  /\ UpgradeDrafts[1] = Empty /\ UpgradeDrafts[Len(Upgrade) + 1] = Mapped
  /\ DowngradeDrafts[1] = Mapped /\ DowngradeDrafts[Len(Downgrade) + 1] = Empty
  /\ Len(Upgrade) = 4 /\ Len(Downgrade) = 7
<1> USE DEF Database, Currency, PaymentStatus, OutboxStatus, Payments, OutboxEvents, Inbox, AllTypes, HeadRevision
<1>1. Len(Upgrade) = 4 /\ Len(Downgrade) = 7
  BY DEF Upgrade, Downgrade
<1>2. UpgradeDrafts[1] = Empty /\ DowngradeDrafts[8] = Empty
  BY DEF UpgradeDrafts, DowngradeDrafts, Empty
<1>3. UpgradeDrafts[5] = Mapped /\ DowngradeDrafts[1] = Mapped
  BY DEF UpgradeDrafts, DowngradeDrafts, Mapped
<1> QED
  BY <1>1, <1>2, <1>3

\* What the statements need and leave, on any database.
LEMMA StatementLaws ==
  ASSUME NEW T, NEW Y, NEW r
  PROVE  /\ \A t : /\ Runs(CreateTable(t), Database(T, Y, r)) <=>
                        t.name \notin Names(T) /\ Names(t.types) \cap Names(Y) = {}
                   /\ After(CreateTable(t), Database(T, Y, r)) = Database(T \cup {t}, Y \cup t.types, r)
         /\ \A n : /\ Runs(DropTable(n), Database(T, Y, r)) <=> n \in Names(T)
                   /\ After(DropTable(n), Database(T, Y, r)) = Database({t \in T : t.name # n}, Y, r)
         /\ \A n : /\ Runs(DropType(n), Database(T, Y, r)) <=> \A t \in T : n \notin Names(t.types)
                   /\ After(DropType(n), Database(T, Y, r)) = Database(T, {y \in Y : y.name # n}, r)
         /\ \A v : /\ Runs(SetRevision(v), Database(T, Y, r))
                   /\ After(SetRevision(v), Database(T, Y, r)) = Database(T, Y, v)
<1>1. ASSUME NEW t
      PROVE  /\ Runs(CreateTable(t), Database(T, Y, r)) <=>
                  t.name \notin Names(T) /\ Names(t.types) \cap Names(Y) = {}
             /\ After(CreateTable(t), Database(T, Y, r)) = Database(T \cup {t}, Y \cup t.types, r)
  BY DEF Runs, After, CreateTable, Database
<1>2. ASSUME NEW n
      PROVE  /\ Runs(DropTable(n), Database(T, Y, r)) <=> n \in Names(T)
             /\ After(DropTable(n), Database(T, Y, r)) = Database({t \in T : t.name # n}, Y, r)
  BY DEF Runs, After, DropTable, Database
<1>3. ASSUME NEW n
      PROVE  /\ Runs(DropType(n), Database(T, Y, r)) <=> \A t \in T : n \notin Names(t.types)
             /\ After(DropType(n), Database(T, Y, r)) = Database(T, {y \in Y : y.name # n}, r)
  BY DEF Runs, After, DropType, Database
<1>4. ASSUME NEW v
      PROVE  /\ Runs(SetRevision(v), Database(T, Y, r))
             /\ After(SetRevision(v), Database(T, Y, r)) = Database(T, Y, v)
  BY DEF Runs, After, SetRevision, Database
<1> QED
  BY <1>1, <1>2, <1>3, <1>4

\* The names and types that the statements tell the tables apart by.
LEMMA SchemaNames ==
  /\ Payments.name = "payments" /\ Payments.types = {Currency, PaymentStatus}
  /\ OutboxEvents.name = "outbox_events" /\ OutboxEvents.types = {OutboxStatus}
  /\ Inbox.name = "transactional_inbox" /\ Inbox.types = {}
  /\ Currency.name = "payment_currency" /\ PaymentStatus.name = "payment_status"
  /\ OutboxStatus.name = "outbox_status"
BY DEF Payments, OutboxEvents, Inbox, Currency, PaymentStatus, OutboxStatus, Table, Type

\* Each statement of upgrade runs on what the one before it has left.
LEMMA UpgradeStatement ==
  ASSUME NEW i \in 1..4
  PROVE  /\ Runs(Upgrade[i], UpgradeDrafts[i])
         /\ After(Upgrade[i], UpgradeDrafts[i]) = UpgradeDrafts[i + 1]
<1>1. Upgrade = <<CreateTable(Payments), CreateTable(OutboxEvents), CreateTable(Inbox), SetRevision(HeadRevision)>>
  BY DEF Upgrade, Payments, OutboxEvents, Inbox, Currency, PaymentStatus, OutboxStatus, HeadRevision
<1> DEFINE Adds(t, T, Y) ==
             /\ Runs(CreateTable(t), Database(T, Y, "base"))
             /\ After(CreateTable(t), Database(T, Y, "base")) = Database(T \cup {t}, Y \cup t.types, "base")
<1>2. ASSUME NEW t, NEW T, NEW Y, t.name \notin Names(T), Names(t.types) \cap Names(Y) = {}
      PROVE  Adds(t, T, Y)
  BY <1>2, StatementLaws
<1> HIDE DEF Adds
<1>3. Adds(Payments, {}, {})
  BY <1>2 DEF Names
<1>4. Adds(OutboxEvents, {Payments}, {Currency, PaymentStatus})
  <2>1. OutboxEvents.name \notin Names({Payments})
    BY SchemaNames DEF Names
  <2>2. Names(OutboxEvents.types) \cap Names({Currency, PaymentStatus}) = {}
    BY SchemaNames DEF Names
  <2> QED
    BY <1>2, <2>1, <2>2
<1>5. Adds(Inbox, {Payments, OutboxEvents}, AllTypes)
  <2>1. Inbox.name \notin Names({Payments, OutboxEvents})
    BY SchemaNames DEF Names
  <2>2. Names(Inbox.types) \cap Names(AllTypes) = {}
    BY SchemaNames DEF Names
  <2> QED
    BY <1>2, <2>1, <2>2
<1>6. /\ {} \cup {Payments} = {Payments} /\ {} \cup Payments.types = {Currency, PaymentStatus}
      /\ {Payments} \cup {OutboxEvents} = {Payments, OutboxEvents}
      /\ {Currency, PaymentStatus} \cup OutboxEvents.types = AllTypes
      /\ {Payments, OutboxEvents} \cup {Inbox} = {Payments, OutboxEvents, Inbox}
      /\ AllTypes \cup Inbox.types = AllTypes
  BY SchemaNames DEF AllTypes
<1>7. CASE i = 1
  BY <1>1, <1>3, <1>6, <1>7 DEF UpgradeDrafts, Adds
<1>8. CASE i = 2
  BY <1>1, <1>4, <1>6, <1>8 DEF UpgradeDrafts, Adds
<1>9. CASE i = 3
  BY <1>1, <1>5, <1>6, <1>9 DEF UpgradeDrafts, Adds
<1>10. CASE i = 4
  BY <1>1, <1>10, StatementLaws DEF UpgradeDrafts
<1> QED
  BY <1>7, <1>8, <1>9, <1>10

\* Each statement of downgrade runs on what the one before it has left: no
\* type is dropped while a table uses it.
LEMMA DowngradeStatement ==
  ASSUME NEW i \in 1..7
  PROVE  /\ Runs(Downgrade[i], DowngradeDrafts[i])
         /\ After(Downgrade[i], DowngradeDrafts[i]) = DowngradeDrafts[i + 1]
<1>1. Downgrade = <<DropTable("transactional_inbox"), DropTable("outbox_events"), DropTable("payments"),
                    DropType("outbox_status"), DropType("payment_status"), DropType("payment_currency"),
                    SetRevision("base")>>
  BY DEF Downgrade
<1> DEFINE Drops(n, T, U) ==
             /\ Runs(DropTable(n), Database(T, AllTypes, HeadRevision))
             /\ After(DropTable(n), Database(T, AllTypes, HeadRevision)) = Database(U, AllTypes, HeadRevision)
           Removes(n, Y, Z) ==
             /\ Runs(DropType(n), Database({}, Y, HeadRevision))
             /\ After(DropType(n), Database({}, Y, HeadRevision)) = Database({}, Z, HeadRevision)
<1>2. ASSUME NEW n, NEW T, NEW U, n \in Names(T), {t \in T : t.name # n} = U
      PROVE  Drops(n, T, U)
  BY <1>2, StatementLaws
<1>3. ASSUME NEW n, NEW Y, NEW Z, {y \in Y : y.name # n} = Z
      PROVE  Removes(n, Y, Z)
  BY <1>3, StatementLaws
<1> HIDE DEF Drops, Removes
<1>4. Drops("transactional_inbox", {Payments, OutboxEvents, Inbox}, {Payments, OutboxEvents})
  <2>1. "transactional_inbox" \in Names({Payments, OutboxEvents, Inbox})
    BY SchemaNames DEF Names
  <2>2. {t \in {Payments, OutboxEvents, Inbox} : t.name # "transactional_inbox"} = {Payments, OutboxEvents}
    BY SchemaNames
  <2> QED
    BY <1>2, <2>1, <2>2
<1>5. Drops("outbox_events", {Payments, OutboxEvents}, {Payments})
  <2>1. "outbox_events" \in Names({Payments, OutboxEvents})
    BY SchemaNames DEF Names
  <2>2. {t \in {Payments, OutboxEvents} : t.name # "outbox_events"} = {Payments}
    BY SchemaNames
  <2> QED
    BY <1>2, <2>1, <2>2
<1>6. Drops("payments", {Payments}, {})
  <2>1. "payments" \in Names({Payments})
    BY SchemaNames DEF Names
  <2>2. {t \in {Payments} : t.name # "payments"} = {}
    BY SchemaNames
  <2> QED
    BY <1>2, <2>1, <2>2
<1>7. /\ {y \in AllTypes : y.name # "outbox_status"} = {Currency, PaymentStatus}
      /\ {y \in {Currency, PaymentStatus} : y.name # "payment_status"} = {Currency}
      /\ {y \in {Currency} : y.name # "payment_currency"} = {}
  BY SchemaNames DEF AllTypes
<1>8. /\ Removes("outbox_status", AllTypes, {Currency, PaymentStatus})
      /\ Removes("payment_status", {Currency, PaymentStatus}, {Currency})
      /\ Removes("payment_currency", {Currency}, {})
  BY <1>3, <1>7
<1>9. CASE i = 1
  BY <1>1, <1>4, <1>9 DEF DowngradeDrafts, Drops
<1>10. CASE i = 2
  BY <1>1, <1>5, <1>10 DEF DowngradeDrafts, Drops
<1>11. CASE i = 3
  BY <1>1, <1>6, <1>11 DEF DowngradeDrafts, Drops
<1>12. CASE i = 4
  BY <1>1, <1>8, <1>12 DEF DowngradeDrafts, Removes
<1>13. CASE i = 5
  BY <1>1, <1>8, <1>13 DEF DowngradeDrafts, Removes
<1>14. CASE i = 6
  BY <1>1, <1>8, <1>14 DEF DowngradeDrafts, Removes
<1>15. CASE i = 7
  BY <1>1, <1>15, StatementLaws DEF DowngradeDrafts
<1> QED
  BY <1>9, <1>10, <1>11, <1>12, <1>13, <1>14, <1>15

-----------------------------------------------------------------------------
(* The invariant.                                                          *)

\* The empty database, with no command begun.
LEMMA MigrationInitially == MigrationInit => MigrationInv
BY DEF MigrationInit, MigrationInv

\* A command that has come to statement i executes it, and is then at the
\* next one.
LEMMA AtStatement ==
  ASSUME NEW S, NEW statements \in Seq(S), NEW drafts, NEW i \in 1..Len(statements) + 1,
         At(i, statements, drafts)
  PROVE  /\ todo = <<>> <=> i = Len(statements) + 1
         /\ todo # <<>> =>
              /\ i \in 1..Len(statements)
              /\ Head(todo) = statements[i]
              /\ Tail(todo) = SubSeq(statements, i + 1, Len(statements))
<1>1. Len(statements) \in Nat
  BY LenProperties
<1>2. CASE i = Len(statements) + 1
  <2>1. SubSeq(statements, i, Len(statements)) = <<>>
    BY <1>1, <1>2, SubSeqEmpty
  <2> QED
    BY <1>2, <2>1 DEF At
<1>3. CASE i \in 1..Len(statements)
  <2>1. /\ Head(SubSeq(statements, i, Len(statements))) = statements[i]
        /\ Tail(SubSeq(statements, i, Len(statements))) = SubSeq(statements, i + 1, Len(statements))
    BY <1>1, <1>3, HeadTailOfSubSeq
  <2>2. Len(SubSeq(statements, i, Len(statements))) > 0
    <3>1. \A j \in i..Len(statements) : statements[j] \in S
      BY <1>3, ElementOfSeq
    <3> QED
      BY <1>1, <1>3, <3>1, SubSeqProperties
  <2>3. SubSeq(statements, i, Len(statements)) # <<>>
    BY <2>2, EmptySeq
  <2> QED
    BY <1>1, <1>3, <2>1, <2>3 DEF At
<1> QED
  BY <1>1, <1>2, <1>3

\* The lists are sequences of statements.
LEMMA Lists ==
  \E S : Upgrade \in Seq(S) /\ Downgrade \in Seq(S)
<1> DEFINE S == {Upgrade[i] : i \in 1..4} \cup {Downgrade[i] : i \in 1..7}
<1>1. Upgrade \in Seq(S)
  BY DEF Upgrade
<1>2. Downgrade \in Seq(S)
  BY DEF Downgrade
<1> QED
  BY <1>1, <1>2

\* Between two statements of the upgrade the next one runs, and leads to
\* the next draft.
LEMMA AtUpgrade ==
  ASSUME NEW i \in 1..Len(Upgrade) + 1, At(i, Upgrade, UpgradeDrafts)
  PROVE  /\ todo = <<>> => draft = Mapped
         /\ todo # <<>> =>
              /\ Runs(Head(todo), draft)
              /\ i + 1 \in 1..Len(Upgrade) + 1
              /\ todo' = Tail(todo) /\ draft' = After(Head(todo), draft)
                   => At(i + 1, Upgrade, UpgradeDrafts)'
<1>1. /\ todo = <<>> => i = Len(Upgrade) + 1
      /\ todo # <<>> => /\ i \in 1..Len(Upgrade) /\ Head(todo) = Upgrade[i]
                        /\ Tail(todo) = SubSeq(Upgrade, i + 1, Len(Upgrade))
  BY Lists, AtStatement
<1>2. Len(Upgrade) = 4 /\ UpgradeDrafts[Len(Upgrade) + 1] = Mapped /\ draft = UpgradeDrafts[i]
  BY DraftEnds DEF At
<1>3. ASSUME todo # <<>>
      PROVE  Runs(Head(todo), draft) /\ After(Head(todo), draft) = UpgradeDrafts[i + 1]
  BY <1>1, <1>2, <1>3, UpgradeStatement
<1>4. ASSUME todo # <<>>, todo' = Tail(todo), draft' = After(Head(todo), draft)
      PROVE  At(i + 1, Upgrade, UpgradeDrafts)'
  BY <1>1, <1>3, <1>4 DEF At
<1>5. todo # <<>> => i + 1 \in 1..Len(Upgrade) + 1
  BY <1>1, <1>2
<1> QED
  BY <1>1, <1>2, <1>3, <1>4, <1>5

\* The same of the downgrade.
LEMMA AtDowngrade ==
  ASSUME NEW i \in 1..Len(Downgrade) + 1, At(i, Downgrade, DowngradeDrafts)
  PROVE  /\ todo = <<>> => draft = Empty
         /\ todo # <<>> =>
              /\ Runs(Head(todo), draft)
              /\ i + 1 \in 1..Len(Downgrade) + 1
              /\ todo' = Tail(todo) /\ draft' = After(Head(todo), draft)
                   => At(i + 1, Downgrade, DowngradeDrafts)'
<1>1. /\ todo = <<>> => i = Len(Downgrade) + 1
      /\ todo # <<>> => /\ i \in 1..Len(Downgrade) /\ Head(todo) = Downgrade[i]
                        /\ Tail(todo) = SubSeq(Downgrade, i + 1, Len(Downgrade))
  BY Lists, AtStatement
<1>2. Len(Downgrade) = 7 /\ DowngradeDrafts[Len(Downgrade) + 1] = Empty /\ draft = DowngradeDrafts[i]
  BY DraftEnds DEF At
<1>3. ASSUME todo # <<>>
      PROVE  Runs(Head(todo), draft) /\ After(Head(todo), draft) = DowngradeDrafts[i + 1]
  BY <1>1, <1>2, <1>3, DowngradeStatement
<1>4. ASSUME todo # <<>>, todo' = Tail(todo), draft' = After(Head(todo), draft)
      PROVE  At(i + 1, Downgrade, DowngradeDrafts)'
  BY <1>1, <1>3, <1>4 DEF At
<1>5. todo # <<>> => i + 1 \in 1..Len(Downgrade) + 1
  BY <1>1, <1>2
<1> QED
  BY <1>1, <1>2, <1>3, <1>4, <1>5

\* A command begins at the first statement of its list, or has none.
LEMMA BeginStep ==
  ASSUME MigrationInv, NEW c \in {"upgrade", "downgrade"}, BeginMigration(c)
  PROVE  MigrationInv'
<1>1. database \in {Empty, Mapped} /\ database' = database /\ draft' = database
      /\ command' = c /\ c # "none"
  BY DEF MigrationInv, BeginMigration
<1>2. Empty.revision = "base" /\ Mapped.revision # "base"
  BY DEF Empty, Mapped
<1>3. CASE c = "upgrade" /\ database.revision = "base"
  <2>1. todo' = Upgrade /\ database = Empty
    BY <1>1, <1>2, <1>3 DEF BeginMigration
  <2>2. Upgrade = SubSeq(Upgrade, 1, Len(Upgrade))
    BY Lists, SubSeqFull
  <2>3. 1 \in 1..Len(Upgrade) + 1 /\ At(1, Upgrade, UpgradeDrafts)'
    BY <1>1, <2>1, <2>2, DraftEnds DEF At
  <2>4. \E i \in 1..Len(Upgrade) + 1 : At(i, Upgrade, UpgradeDrafts)'
    BY <2>3
  <2> QED
    BY <1>1, <1>3, <2>4 DEF MigrationInv
<1>4. CASE c = "downgrade" /\ database.revision # "base"
  <2>1. todo' = Downgrade /\ database = Mapped
    BY <1>1, <1>2, <1>4 DEF BeginMigration
  <2>2. Downgrade = SubSeq(Downgrade, 1, Len(Downgrade))
    BY Lists, SubSeqFull
  <2>3. 1 \in 1..Len(Downgrade) + 1 /\ At(1, Downgrade, DowngradeDrafts)'
    BY <1>1, <2>1, <2>2, DraftEnds DEF At
  <2>4. \E i \in 1..Len(Downgrade) + 1 : At(i, Downgrade, DowngradeDrafts)'
    BY <2>3
  <2> QED
    BY <1>1, <1>4, <2>4 DEF MigrationInv
<1>5. CASE ~(c = "upgrade" /\ database.revision = "base")
             /\ ~(c = "downgrade" /\ database.revision # "base")
  <2>1. todo' = <<>>
    BY <1>5 DEF BeginMigration
  <2> QED
    BY <1>1, <2>1 DEF MigrationInv
<1> QED
  BY <1>3, <1>4, <1>5

\* A statement keeps the invariant.
LEMMA ExecuteStep ==
  ASSUME MigrationInv, Execute
  PROVE  MigrationInv'
<1>1. /\ todo # <<>> /\ todo' = Tail(todo) /\ draft' = After(Head(todo), draft)
      /\ UNCHANGED <<database, command>>
  BY DEF Execute
<1>2. database \in {Empty, Mapped}
  BY DEF MigrationInv
<1>3. \/ command = "upgrade" /\ \E i \in 1..Len(Upgrade) + 1 : At(i, Upgrade, UpgradeDrafts)
      \/ command = "downgrade" /\ \E i \in 1..Len(Downgrade) + 1 : At(i, Downgrade, DowngradeDrafts)
  BY <1>1, <1>2 DEF MigrationInv
<1>4. ASSUME NEW i \in 1..Len(Upgrade) + 1, At(i, Upgrade, UpgradeDrafts)
      PROVE  \E j \in 1..Len(Upgrade) + 1 : At(j, Upgrade, UpgradeDrafts)'
  BY <1>1, <1>4, AtUpgrade
<1>5. ASSUME NEW i \in 1..Len(Downgrade) + 1, At(i, Downgrade, DowngradeDrafts)
      PROVE  \E j \in 1..Len(Downgrade) + 1 : At(j, Downgrade, DowngradeDrafts)'
  BY <1>1, <1>5, AtDowngrade
<1> QED
  BY <1>1, <1>2, <1>3, <1>4, <1>5 DEF MigrationInv

\* So does the end of a command, by its commit or by a kill.
LEMMA EndStep ==
  ASSUME MigrationInv, CommitMigration \/ AbortMigration
  PROVE  MigrationInv'
<1>1. CASE CommitMigration
  <2>1. command # "none" /\ todo = <<>> /\ todo' = todo /\ command' = "none" /\ database' = draft
    BY <1>1 DEF CommitMigration
  <2>2. draft \in {Empty, Mapped}
    BY <2>1, AtUpgrade, AtDowngrade DEF MigrationInv
  <2> QED
    BY <2>1, <2>2 DEF MigrationInv
<1>2. CASE AbortMigration
  BY <1>2 DEF AbortMigration, MigrationInv
<1> QED
  BY <1>1, <1>2

\* No statement fails, whatever the commands before did.
LEMMA StatementsRun == MigrationInv => NoStatementFails
<1> SUFFICES ASSUME MigrationInv, todo # <<>>
             PROVE  Runs(Head(todo), draft)
  BY DEF NoStatementFails
<1>1. \/ \E i \in 1..Len(Upgrade) + 1 : At(i, Upgrade, UpgradeDrafts)
      \/ \E i \in 1..Len(Downgrade) + 1 : At(i, Downgrade, DowngradeDrafts)
  BY DEF MigrationInv
<1> QED
  BY <1>1, AtUpgrade, AtDowngrade
=============================================================================
