-------------------------- MODULE SchemaBootstrap --------------------------
(***************************************************************************)
(* migrate(): initializeAllPostgresSchemas and initializeAllSqliteSchemas, *)
(* run again at every start of the application, over a database that is    *)
(* empty or was made by an older version.  On Postgres each slice is one   *)
(* transaction and the statements of row-level security are repeated one   *)
(* by one; on SQLite every statement commits by itself.  The process may   *)
(* stop between two commits.                                               *)
(***************************************************************************)
EXTENDS SchemaCatalog, FiniteSets, TLC

CONSTANTS Rows,        \* the rows of the ledger of an older database
          MaxCrashes,  \* the bound of crashes
          MaxRuns      \* the bound of runs of migrate()

ASSUME BoundsAreNatural == MaxCrashes \in Nat /\ MaxRuns \in Nat

VARIABLES
  dialect,    \* "postgres" or "sqlite"
  objects,    \* the objects of the database
  ledger,     \* the rows of the ledger: the time and the status of each
  twins,      \* whether an organization has two default pipelines
  at,         \* the step that migrate() does next, 0 when it is not running
  completed,  \* whether migrate() has returned once
  outcome,    \* how the last run ended
  refused,    \* the object whose statement made the last run throw, or <<>>
  crashes, runs

vars == <<dialect, objects, ledger, twins, at, completed, outcome, refused, crashes, runs>>

\* The status of a row: null until the column exists and something fills it.
Statuses == {"null", "pending", "applied", "rolled_back", "failed"}
Row == [appliedAt : BOOLEAN, status : Statuses]

-----------------------------------------------------------------------------
(* Statements, over a state of the database.                               *)

Database == [objects |-> objects, ledger |-> ledger, error |-> <<>>]

\* A unique index over two default pipelines of one organization.
Clashes(s) == twins /\ s.object = Index("pipelines_org_default_unique_idx")

\* References to tables that do not exist are an error on Postgres only.
Unmet(s, db) ==
  IF dialect = "sqlite" /\ s.object[1] = "table" THEN {} ELSE s.needs \ db.objects

Throws(s, db) ==
  \/ Unmet(s, db) # {}
  \/ s.kind = "strict" /\ s.object \in db.objects
  \/ Clashes(s) /\ s.object \notin db.objects
  \/ s.kind = "notNull" /\ \E r \in DOMAIN db.ledger : db.ledger[r].status = "null"

\* A new column of SQLite has its default in the rows that are there.
Filled(rows) ==
  IF dialect = "sqlite"
    THEN [r \in DOMAIN rows |-> [rows[r] EXCEPT !.status = "pending"]]
    ELSE rows

\* The same without the coalesce.
CoalescedAnew(row) ==
  [row EXCEPT !.status = IF row.appliedAt THEN "applied" ELSE "pending"]

\* coalesce(status, case when applied_at is not null then 'applied' else 'pending' end)
Coalesced(row) ==
  IF row.status # "null" THEN row
  ELSE [row EXCEPT !.status = IF row.appliedAt THEN "applied" ELSE "pending"]

\* where applied_at is not null and status = 'pending'
BackfillApplied(row) ==
  IF row.appliedAt /\ row.status = "pending" THEN [row EXCEPT !.status = "applied"] ELSE row

Makes(s, db) ==
  IF s.object \in db.objects THEN db
  ELSE [db EXCEPT !.objects = @ \cup {s.object} \cup s.brings,
                  !.ledger = IF s.object = Column("status") THEN Filled(@) ELSE @]

Done(s, db) ==
  CASE s.kind \in {"make", "strict"} -> Makes(s, db)
    [] s.kind = "drop" -> [db EXCEPT !.objects = @ \ {s.object}]
    [] s.kind = "coalesce" ->
         [db EXCEPT !.ledger = [r \in DOMAIN @ |-> Coalesced(@[r])]]
    [] s.kind = "backfillApplied" ->
         [db EXCEPT !.ledger = [r \in DOMAIN @ |-> BackfillApplied(@[r])]]
    [] s.kind = "notNull" -> db

\* Slice E of SQLite goes on after "duplicate column name".
Ignored(s, db) == dialect = "sqlite" /\ s.kind = "strict" /\ s.object \in db.objects

\* One statement, unless an earlier one of the transaction threw.
Executed(db, s) ==
  IF db.error # <<>> \/ Ignored(s, db) THEN db
  ELSE IF Throws(s, db) THEN [db EXCEPT !.error = s.object] ELSE Done(s, db)

\* A transaction: groups of statements, in their order.
Transaction(groups) ==
  LET Group(db, statements) ==
        IF db.error # <<>> THEN db ELSE FoldLeft(Executed, db, statements)
  IN  FoldLeft(Group, Database, groups)

-----------------------------------------------------------------------------
(* The steps of migrate(): what commits together, as groups of statements. *)

Singly(statements) == [i \in DOMAIN statements |-> <<<<statements[i]>>>>]

PostgresSlices ==
  LET a == <<PostgresWave1, PostgresSliceA>>
      c == a \o <<PostgresSliceB, PostgresSliceC>>
      d == Append(c, PostgresSliceD)
      e == d \o <<PostgresSliceE, PostgresLedger, PartialUniqueIndexes, OrgLeadingIndexes>>
             \o RlsStatements
  IN  <<<<PostgresWave1>>, a, Append(a, PostgresSliceB), c, d, e>>

SqliteSlices ==
  LET a == SqliteWave1 \o SqliteSliceA
      b == a \o SqliteSliceB
      c == b \o SqliteSliceC
      d == c \o SqliteSliceD
  IN  <<SqliteWave1, a, b, c, d, d \o SqliteSliceE>>

PostgresSteps == PostgresSlices \o Singly(FlattenSeq(RlsStatements))
SqliteSteps == Singly(FlattenSeq(SqliteSlices))

Steps == [postgres |-> PostgresSteps, sqlite |-> SqliteSteps]

-----------------------------------------------------------------------------
(* The databases that migrate() meets.                                     *)

\* What the statements make, one way or another.
ObjectsOf(statements) ==
  UNION {{s.object} \cup s.brings : s \in ToSet(statements)}

\* The objects of the version before the ledger's second form.
OlderObjects(d) ==
  ObjectsOf(IF d = "postgres" THEN FlattenSeq(PostgresSlices[6]) ELSE SqliteSlices[6])
    \ ({Column(c) : c \in LedgerColumns} \cup ObjectsOf(LedgerIndexes)
        \cup ObjectsOf(PartialUniqueIndexes))

Init ==
  /\ dialect \in {"postgres", "sqlite"}
  /\ \/ /\ objects = {} /\ ledger = <<>> /\ twins = FALSE
     \/ /\ objects = OlderObjects(dialect)
        /\ ledger \in [Rows -> [appliedAt : BOOLEAN, status : {"null"}]]
        /\ twins \in BOOLEAN
  /\ at = 0 /\ completed = FALSE /\ outcome = "none" /\ refused = <<>>
  /\ crashes = 0 /\ runs = 0

-----------------------------------------------------------------------------
(* Actions.                                                                *)

\* migrate() is called.
Start ==
  /\ at = 0 /\ runs < MaxRuns
  /\ at' = 1 /\ runs' = runs + 1 /\ outcome' = "none"
  /\ UNCHANGED <<dialect, objects, ledger, twins, completed, refused, crashes>>

\* The next step commits, or throws and is rolled back; migrate() throws with it.
Step ==
  /\ at # 0
  /\ \E db \in {Transaction(Steps[dialect][at])} :
       IF db.error = <<>>
         THEN /\ objects' = db.objects /\ ledger' = db.ledger
              /\ IF at = Len(Steps[dialect])
                   THEN at' = 0 /\ completed' = TRUE /\ outcome' = "returned"
                   ELSE at' = at + 1 /\ UNCHANGED <<completed, outcome>>
              /\ UNCHANGED refused
         ELSE /\ at' = 0 /\ outcome' = "threw" /\ refused' = db.error
              /\ UNCHANGED <<objects, ledger, completed>>
  /\ UNCHANGED <<dialect, twins, crashes, runs>>

\* The process stops; what committed stays.
Crash ==
  /\ at # 0 /\ crashes < MaxCrashes
  /\ at' = 0 /\ outcome' = "crashed" /\ crashes' = crashes + 1
  /\ UNCHANGED <<dialect, objects, ledger, twins, completed, refused, runs>>

\* The schema engine of a process that has its schema works on the ledger,
\* also while another process migrates.
EngineMoves ==
  /\ completed
  /\ \E r \in Rows :
       \/ /\ r \notin DOMAIN ledger
          /\ ledger' = ledger @@ (r :> [appliedAt |-> FALSE, status |-> "pending"])
       \/ /\ r \in DOMAIN ledger /\ ledger[r].status = "pending"
          /\ \/ ledger' = [ledger EXCEPT ![r] = [appliedAt |-> TRUE, status |-> "applied"]]
             \/ ledger' = [ledger EXCEPT ![r].status = "failed"]
       \/ /\ r \in DOMAIN ledger /\ ledger[r].status = "applied"
          /\ ledger' = [ledger EXCEPT ![r].status = "rolled_back"]
  /\ UNCHANGED <<dialect, objects, twins, at, completed, outcome, refused, crashes, runs>>

Next == Start \/ Step \/ Crash \/ EngineMoves

Spec == Init /\ [][Next]_vars

-----------------------------------------------------------------------------
(* Properties.                                                             *)

\* The type of the state; on SQLite a status that exists is never null.
TypeOK ==
  /\ dialect \in {"postgres", "sqlite"} /\ twins \in BOOLEAN /\ completed \in BOOLEAN
  /\ at \in 0 .. Len(Steps[dialect])
  /\ outcome \in {"none", "returned", "threw", "crashed"}
  /\ DOMAIN ledger \subseteq Rows /\ \A r \in DOMAIN ledger : ledger[r] \in Row
  /\ dialect = "sqlite" /\ Column("status") \in objects =>
       \A r \in DOMAIN ledger : ledger[r].status # "null"
  /\ crashes \in 0 .. MaxCrashes /\ runs \in 0 .. MaxRuns

\* "Calling this repeatedly is safe against existing databases": whatever the
\* database and wherever an earlier run stopped, migrate() throws only at the
\* unique index that the data itself contradicts.
BootstrapIsRepeatable ==
  refused # <<>> => twins /\ refused = Index("pipelines_org_default_unique_idx")

TablesExist == \A d \in Declarations : Table(d.table) \in objects

\* References and unique indexes as declared, and a reference under every
\* relation, in both directions.  The slug of an organization is unique in
\* its table.
DeclarationsHold ==
  /\ \A d \in Declarations :
       /\ \A r \in d.refs : Reference(d.table, r) \in objects
       /\ \A i \in d.uniques \ {"organizations_slug_idx"} : Index(i) \in objects
  /\ \A x \in Relations :
       /\ \A t \in x.one : Reference(x.table, t) \in objects
       /\ \A t \in x.many : Reference(t, x.table) \in objects

Policies == {Policy(t, op) : t \in {d.table : d \in Declarations} \ {"organizations"},
                             op \in {"select", "insert", "update", "delete"}}

\* Once migrate() has returned, the database has what schema/tables.ts and
\* schema/relations.ts say, and on Postgres every table of an organization
\* has its four policies.
CompletedMatchesSchema ==
  completed =>
    /\ TablesExist
    /\ dialect = "postgres" => DeclarationsHold
    /\ dialect = "postgres" /\ outcome = "returned" => Policies \subseteq objects

\* Later runs of migrate() replace the policies one by one outside of a
\* transaction.  At no moment, nor after a crash there, is a table open, or
\* more than one policy missing.
IsolationNeverOpens ==
  completed /\ dialect = "postgres" =>
    /\ \A d \in Declarations : d.table # "organizations" => Security(d.table) \in objects
    /\ Cardinality(Policies \ objects) <= 1

\* The upgrade of the ledger says of every older row what its time of
\* application says, however often it was interrupted, and no run of it
\* changes a status that was decided.
LedgerKeepsItsHistory ==
  /\ [](completed => \A r \in DOMAIN ledger :
           /\ ledger[r].status # "null"
           /\ ledger[r].appliedAt <=> ledger[r].status \in {"applied", "rolled_back"})
  /\ [][at # 0 /\ at' # at => \A r \in DOMAIN ledger :
           ledger[r].status \notin {"null", "pending"} => ledger'[r] = ledger[r]]_vars

=============================================================================
