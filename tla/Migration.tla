------------------------------ MODULE Migration ------------------------------
(***************************************************************************)
(* The database schema and the one migration that makes it: `alembic       *)
(* upgrade head' and `alembic downgrade base', each in one transaction of  *)
(* run_sync_migrations.                                                    *)
(*                                                                         *)
(* Of a table the model keeps what the program relies on beyond the names  *)
(* of the columns: the enum types and the unique columns.  PostgreSQL      *)
(* keeps enum types apart from the tables: CREATE TABLE makes them, DROP   *)
(* TABLE does not drop them.                                               *)
(***************************************************************************)
EXTENDS Sequences, Naturals

CONSTANT MaxCommands  \* bound: alembic commands

ASSUME MigrationAssumption == MaxCommands \in Nat

Type(name, labels) == [name |-> name, labels |-> labels]
Table(name, types, unique) == [name |-> name, types |-> types, unique |-> unique]

Empty == [tables |-> {}, types |-> {}, revision |-> "base"]

\* What tables.py maps the entities to.  SQLAlchemy stores the names of an
\* enum's members.
Mapped ==
  LET currency == Type("payment_currency", {"RUB", "USD", "EUR"})
      payment == Type("payment_status", {"PENDING", "SUCCEEDED", "FAILED"})
      outbox == Type("outbox_status", {"PENDING", "PUBLISHED", "FAILED", "DEAD_LETTER"})
  IN  [tables |-> {Table("transactional_inbox", {}, {"correlation_id"}),
                   Table("payments", {currency, payment}, {"id", "idempotency_key"}),
                   Table("outbox_events", {outbox}, {"id"})},
       types |-> {currency, payment, outbox},
       revision |-> "609f2b15f56c"]

-----------------------------------------------------------------------------
(* Statements: what they need and what they leave.                         *)

CreateTable(table) == [op |-> "create table", table |-> table]
DropTable(name) == [op |-> "drop table", name |-> name]
DropType(name) == [op |-> "drop type", name |-> name]
SetRevision(revision) == [op |-> "set revision", revision |-> revision]

Names(things) == {thing.name : thing \in things}

\* op.create_table creates the enum types of the columns first, without
\* looking whether they exist.
Runs(s, db) ==
  CASE s.op = "create table" -> /\ s.table.name \notin Names(db.tables)
                                /\ Names(s.table.types) \cap Names(db.types) = {}
    [] s.op = "drop table" -> s.name \in Names(db.tables)
    [] s.op = "drop type" -> \A table \in db.tables : s.name \notin Names(table.types)
    [] s.op = "set revision" -> TRUE

After(s, db) ==
  CASE s.op = "create table" -> [db EXCEPT !.tables = @ \cup {s.table},
                                           !.types = @ \cup s.table.types]
    [] s.op = "drop table" -> [db EXCEPT !.tables = {table \in @ : table.name # s.name}]
    [] s.op = "drop type" -> [db EXCEPT !.types = {type \in @ : type.name # s.name}]
    [] s.op = "set revision" -> [db EXCEPT !.revision = s.revision]

\* upgrade, and the row of alembic_version.
Upgrade == <<
  CreateTable(Table("payments",
    {Type("payment_currency", {"RUB", "USD", "EUR"}),
     Type("payment_status", {"PENDING", "SUCCEEDED", "FAILED"})},
    {"id", "idempotency_key"})),
  CreateTable(Table("outbox_events",
    {Type("outbox_status", {"PENDING", "PUBLISHED", "FAILED", "DEAD_LETTER"})}, {"id"})),
  CreateTable(Table("transactional_inbox", {}, {"correlation_id"})),
  SetRevision("609f2b15f56c") >>

\* Faulty: downgrade as alembic generates it, without the types.
DowngradeTablesOnly == <<
  DropTable("transactional_inbox"), DropTable("outbox_events"), DropTable("payments"),
  SetRevision("base") >>

\* downgrade.
Downgrade == <<
  DropTable("transactional_inbox"), DropTable("outbox_events"), DropTable("payments"),
  DropType("outbox_status"), DropType("payment_status"), DropType("payment_currency"),
  SetRevision("base") >>

-----------------------------------------------------------------------------
VARIABLES
  database,  \* what is committed
  draft,     \* what the transaction of a running command sees
  todo,      \* the statements that the command has still to run
  command,   \* the running alembic command, or "none"
  commands   \* commands so far

migrationVars == <<database, draft, todo, command, commands>>

MigrationInit ==
  /\ database = Empty /\ draft = Empty
  /\ todo = <<>>
  /\ command = "none"
  /\ commands = 0

\* alembic reads alembic_version: a command at its target has nothing to do.
BeginMigration(c) ==
  /\ command = "none"
  /\ commands < MaxCommands
  /\ commands' = commands + 1
  /\ command' = c
  /\ todo' = CASE c = "upgrade" /\ database.revision = "base" -> Upgrade
               [] c = "downgrade" /\ database.revision # "base" -> Downgrade
               [] OTHER -> <<>>
  /\ draft' = database
  /\ UNCHANGED database

\* Faulty: every statement commits.
ExecuteAutocommitted ==
  /\ todo # <<>>
  /\ Runs(Head(todo), draft)
  /\ draft' = After(Head(todo), draft)
  /\ database' = draft'
  /\ todo' = Tail(todo)
  /\ UNCHANGED <<command, commands>>

\* DDL is transactional in PostgreSQL.
Execute ==
  /\ todo # <<>>
  /\ Runs(Head(todo), draft)
  /\ draft' = After(Head(todo), draft)
  /\ todo' = Tail(todo)
  /\ UNCHANGED <<database, command, commands>>

\* The block of context.begin_transaction() ends.
CommitMigration ==
  /\ command # "none"
  /\ todo = <<>>
  /\ database' = draft
  /\ command' = "none"
  /\ UNCHANGED <<draft, todo, commands>>

\* The process is killed or loses the database: rolled back.
AbortMigration ==
  /\ command # "none"
  /\ draft' = database
  /\ todo' = <<>>
  /\ command' = "none"
  /\ UNCHANGED <<database, commands>>

-----------------------------------------------------------------------------
\* Whenever a command is cut short, and however often the schema is made and
\* removed, the database has the schema that tables.py maps, or nothing:
\* no half of it, and no type that a downgrade left behind.
SchemaIsWholeOrNone == database \in {Empty, Mapped}

\* No statement of a migration meets what an earlier command left, or a type
\* that a table still uses.
NoStatementFails == todo # <<>> => Runs(Head(todo), draft)
=============================================================================
