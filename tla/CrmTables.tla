----------------------------- MODULE CrmTables -----------------------------
(***************************************************************************)
(* The tables of the CRM and what the database itself enforces: foreign    *)
(* keys and unique indexes (packages/core/src/schema/tables.ts and the DDL *)
(* of the two adapters).  A row is a function from the columns that the    *)
(* rules of the services look at; names, amounts, texts and timestamps of  *)
(* bookkeeping are left out.  Rows of one organization: every statement of *)
(* a repository carries `organization_id = ctx.orgId`.                     *)
(***************************************************************************)
EXTENDS Naturals

CONSTANTS Id,       \* record ids; ids are never reused
          TableOf,  \* the table of an id, which its prefix tells
          Null      \* SQL NULL, and FALSE in pipelines.is_default

-----------------------------------------------------------------------------
(* Columns.  "userId" is assigned_to_user_id, logged_by_user_id,           *)
(* created_by_user_id or started_by_user_id; "stamp" is paid_at,           *)
(* signed_at, completed_at or exited_at.                                   *)

UserColumns == {}
CompanyColumns == {"userId"}
ContactColumns == {"companyId", "userId"}
PipelineColumns == {"isDefault"}
StageColumns == {"pipelineId"}
DealColumns == {"stageId", "pipelineId", "contactId", "companyId", "userId"}
ActivityColumns == {"contactId", "dealId", "companyId", "userId"}
NoteColumns == {"contactId", "dealId", "companyId", "userId"}
TaskColumns == {"contactId", "dealId", "companyId", "userId", "status", "stamp"}
PaymentColumns == {"contactId", "dealId", "externalId", "status", "stamp"}
ContractColumns == {"contactId", "dealId", "companyId", "status", "stamp"}
ImportColumns == {"userId", "status", "stamp"}
SequenceColumns == {"name"}
StepColumns == {"sequenceId", "order"}
EnrollmentColumns == {"sequenceId", "contactId", "status", "stamp"}
EventColumns == {"enrollmentId", "stepId"}
TagColumns == {"name"}
EntityTagColumns == {"tagId", "entityId"}

Columns ==
  [users |-> UserColumns, companies |-> CompanyColumns, contacts |-> ContactColumns,
   pipelines |-> PipelineColumns, stages |-> StageColumns, deals |-> DealColumns,
   activities |-> ActivityColumns, notes |-> NoteColumns, tasks |-> TaskColumns,
   payments |-> PaymentColumns, contracts |-> ContractColumns, imports |-> ImportColumns,
   sequences |-> SequenceColumns, steps |-> StepColumns, enrollments |-> EnrollmentColumns,
   events |-> EventColumns, tags |-> TagColumns, entityTags |-> EntityTagColumns]

Tables == DOMAIN Columns

\* The table that a reference is into.
Refers ==
  [companyId |-> "companies", userId |-> "users", pipelineId |-> "pipelines", stageId |-> "stages",
   contactId |-> "contacts", dealId |-> "deals", sequenceId |-> "sequences",
   enrollmentId |-> "enrollments", stepId |-> "steps", tagId |-> "tags"]

ReferenceColumns == DOMAIN Refers

ASSUME TableAssumption == TableOf \in [Id -> Tables] /\ Null \notin Id

-----------------------------------------------------------------------------
(* What the database enforces *)

\* Postgres declares every reference; entity_tags.entity_id is none.
PostgresForeignKeys == [t \in Tables |-> Columns[t] \cap ReferenceColumns]

\* SQLite declares those of the later tables only.
SqliteForeignKeys ==
  [t \in Tables |->
     IF t \in {"imports", "steps", "enrollments", "events", "entityTags"}
       THEN Columns[t] \cap ReferenceColumns ELSE {}]

\* The unique indexes over kept columns, in both dialects.
Indexes ==
  [t \in Tables |->
     CASE t = "pipelines"   -> {{"isDefault"}}
       [] t = "payments"    -> {{"externalId"}}
       [] t = "sequences"   -> {{"name"}}
       [] t = "steps"       -> {{"sequenceId", "order"}}
       [] t = "enrollments" -> {{"sequenceId", "contactId", "status"}}
       [] t = "tags"        -> {{"name"}}
       [] t = "entityTags"  -> {{"tagId", "entityId"}}
       [] OTHER             -> {}]

-----------------------------------------------------------------------------
(* A database is a function from the ids that exist to their rows. *)

Nothing == [column \in {} |-> Null]
Overlay(f, g) == [x \in DOMAIN f \cup DOMAIN g |-> IF x \in DOMAIN f THEN f[x] ELSE g[x]]
With(f, x, value) == [y \in DOMAIN f \cup {x} |-> IF y = x THEN value ELSE f[y]]

Dangles(db, i, col) == db[i][col] # Null /\ db[i][col] \notin DOMAIN db

\* Two rows collide in an index when they agree on its columns, none of them NULL.
Collide(db, i, j) ==
  /\ i # j /\ TableOf[i] = TableOf[j]
  /\ \E index \in Indexes[TableOf[i]] :
       \A col \in index : db[i][col] = db[j][col] /\ db[i][col] # Null

\* A statement that would leave the database otherwise fails.
Accepts(db, foreignKeys) ==
  /\ \A i \in DOMAIN db : \A col \in foreignKeys[TableOf[i]] : ~Dangles(db, i, col)
  /\ \A i, j \in DOMAIN db : ~Collide(db, i, j)

WithRow(db, i, row) == With(db, i, row)
WithoutRow(db, i) == [j \in DOMAIN db \ {i} |-> db[j]]
=============================================================================
