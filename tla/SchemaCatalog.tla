--------------------------- MODULE SchemaCatalog ---------------------------
(***************************************************************************)
(* What the code says its database is, three times over: the tables that   *)
(* schema/tables.ts declares, the relations of schema/relations.ts, and    *)
(* the statements with which adapters/postgres/schema.ts and               *)
(* adapters/sqlite/schema.ts create them.  A statement is a record of the  *)
(* objects it needs and makes; columns count only for the ledger of the    *)
(* schema migrations, the one table that existing databases have in an     *)
(* older form.                                                             *)
(***************************************************************************)
EXTENDS Integers, Sequences, SequencesExt

Table(t)      == <<"table", t>>
Index(i)      == <<"index", i>>
OrgIndex(t)   == <<"orgIndex", t>>
Column(c)     == <<"column", c>>
Reference(t, r) == <<"reference", t, r>>
Security(t)   == <<"security", t>>
Policy(t, op) == <<"policy", t, op>>

Ledger == "schema_migrations"

\* The columns of the ledger that came with its second form.
ColumnOrder == <<"checksum", "adapter", "forward_operations", "reverse_operations",
  "destructive", "status", "sql_statements", "rollback_statements", "applied_by",
  "started_at", "rolled_back_at", "failed_at", "error_code", "error_message">>

LedgerColumns == ToSet(ColumnOrder)

-----------------------------------------------------------------------------
(* Statements.  "make" does nothing when its object exists, "strict" fails *)
(* then.  The other kinds are the two steps of the ledger's upgrade that   *)
(* change rows, and the replacement of a policy.                           *)

Statement(kind, object, needs, brings) ==
  [kind |-> kind, object |-> object, needs |-> needs, brings |-> brings]

CreateTable(t, refs) ==
  Statement("make", Table(t), {Table(r) : r \in refs},
            {Reference(t, r) : r \in refs} \cup
              IF t = Ledger THEN {Column(c) : c \in LedgerColumns} ELSE {})

\* The columns of the ledger's second form that an index is over.
IndexedColumns(i) == IF i = "schema_migrations_target_idx" THEN {"status"} ELSE {}

CreateIndex(i, t) ==
  Statement("make", Index(i),
            {Table(t)} \cup {Column(c) : c \in IndexedColumns(i)}, {})

AddColumn(kind, c) == Statement(kind, Column(c), {Table(Ledger)}, {})

\* A table and, after it, its indexes.
Entity(t, refs, indexes) ==
  <<CreateTable(t, refs)>> \o [i \in DOMAIN indexes |-> CreateIndex(indexes[i], t)]

-----------------------------------------------------------------------------
(* The declarations of schema/tables.ts: what a table refers to, and its   *)
(* unique indexes.                                                         *)

Declared(t, refs, uniques) == [table |-> t, refs |-> refs, uniques |-> uniques]

DeclaredPeople == {
  Declared("organizations", {}, {"organizations_slug_idx"}),
  Declared("users", {"organizations"}, {"users_org_email_idx"}),
  Declared("organization_memberships", {"organizations", "users"},
    {"memberships_org_user_idx"}),
  Declared("api_keys", {"organizations", "users"},
    {"api_keys_hash_idx", "api_keys_prefix_idx"}),
  Declared("companies", {"organizations", "users"}, {"companies_org_domain_idx"}),
  Declared("contacts", {"organizations", "users", "companies"}, {"contacts_org_email_idx"})}

DeclaredDeals == {
  Declared("pipelines", {"organizations"},
    {"pipelines_org_name_idx", "pipelines_org_default_unique_idx"}),
  Declared("stages", {"organizations", "pipelines"},
    {"stages_pipeline_order_idx", "stages_pipeline_name_idx"}),
  Declared("deals",
    {"organizations", "stages", "pipelines", "contacts", "companies", "users"}, {}),
  Declared("activities", {"organizations", "contacts", "deals", "companies", "users"}, {})}

DeclaredWork == {
  Declared("tasks", {"organizations", "contacts", "deals", "companies", "users"}, {}),
  Declared("notes", {"organizations", "contacts", "deals", "companies", "users"}, {}),
  Declared("products", {"organizations"}, {}),
  Declared("payments", {"organizations", "deals", "contacts"}, {"payments_external_id_idx"}),
  Declared("contracts", {"organizations", "deals", "contacts", "companies"}, {})}

DeclaredOutreach == {
  Declared("sequences", {"organizations"}, {"sequences_org_name_idx"}),
  Declared("sequence_steps", {"organizations", "sequences"}, {"sequence_steps_order_idx"}),
  Declared("sequence_enrollments", {"organizations", "sequences", "contacts"},
    {"sequence_enrollments_active_idx"}),
  Declared("sequence_events", {"organizations", "sequence_enrollments", "sequence_steps"}, {}),
  Declared("tags", {"organizations"}, {"tags_org_name_idx"}),
  Declared("entity_tags", {"organizations", "tags"}, {"entity_tags_unique_idx"}),
  Declared("imports", {"organizations", "users"}, {})}

DeclaredPlatform == {
  Declared("webhooks", {"organizations"}, {}),
  Declared("webhook_deliveries", {"organizations", "webhooks"},
    {"webhook_deliveries_event_idx"}),
  Declared("custom_field_definitions", {"organizations"}, {"custom_fields_unique_idx"}),
  Declared("audit_logs", {"organizations", "users", "api_keys"}, {}),
  Declared("schema_migrations", {"organizations", "users"}, {}),
  Declared("idempotency_keys", {"organizations"}, {"idempotency_unique_idx"})}

Declarations ==
  DeclaredPeople \cup DeclaredDeals \cup DeclaredWork \cup DeclaredOutreach \cup DeclaredPlatform

-----------------------------------------------------------------------------
(* The relations of schema/relations.ts: `one` follows a reference of the  *)
(* table, `many` the references of other tables to it.                     *)

Related(t, one, many) == [table |-> t, one |-> one, many |-> many]

RelatedPeople == {
  Related("organizations", {}, {d.table : d \in Declarations} \ {"organizations"}),
  Related("users", {"organizations"},
    {"organization_memberships", "api_keys", "companies", "contacts", "deals",
     "activities", "tasks", "notes"}),
  Related("organization_memberships", {"organizations", "users"}, {}),
  Related("api_keys", {"organizations", "users"}, {}),
  Related("companies", {"organizations", "users"},
    {"contacts", "deals", "activities", "tasks", "notes", "contracts"}),
  Related("contacts", {"organizations", "users", "companies"},
    {"deals", "activities", "tasks", "notes", "payments", "contracts", "sequence_enrollments"})}

RelatedDeals == {
  Related("pipelines", {"organizations"}, {"stages", "deals"}),
  Related("stages", {"organizations", "pipelines"}, {"deals"}),
  Related("deals",
    {"organizations", "stages", "pipelines", "contacts", "companies", "users"},
    {"activities", "tasks", "notes", "payments", "contracts"}),
  Related("activities", {"organizations", "contacts", "deals", "companies", "users"}, {})}

RelatedWork == {
  Related("tasks", {"organizations", "contacts", "deals", "companies", "users"}, {}),
  Related("notes", {"organizations", "contacts", "deals", "companies", "users"}, {}),
  Related("products", {"organizations"}, {}),
  Related("payments", {"organizations", "deals", "contacts"}, {}),
  Related("contracts", {"organizations", "deals", "contacts", "companies"}, {})}

RelatedOutreach == {
  Related("sequences", {"organizations"}, {"sequence_steps", "sequence_enrollments"}),
  Related("sequence_steps", {"organizations", "sequences"}, {"sequence_events"}),
  Related("sequence_enrollments", {"organizations", "sequences", "contacts"},
    {"sequence_events"}),
  Related("sequence_events", {"organizations", "sequence_enrollments", "sequence_steps"}, {}),
  Related("tags", {"organizations"}, {}),
  Related("entity_tags", {"organizations", "tags"}, {}),
  Related("imports", {"organizations", "users"}, {})}

RelatedPlatform == {
  Related("webhooks", {"organizations"}, {"webhook_deliveries"}),
  Related("webhook_deliveries", {"organizations", "webhooks"}, {}),
  Related("custom_field_definitions", {"organizations"}, {}),
  Related("audit_logs", {"organizations", "users", "api_keys"}, {}),
  Related("schema_migrations", {"organizations", "users"}, {}),
  Related("idempotency_keys", {"organizations"}, {})}

Relations ==
  RelatedPeople \cup RelatedDeals \cup RelatedWork \cup RelatedOutreach \cup RelatedPlatform

-----------------------------------------------------------------------------
(* The statements of adapters/postgres/schema.ts.  Each slice begins with  *)
(* all the statements of the slices before it.                             *)

PostgresWave1 ==
  Entity("organizations", {}, <<>>) \o
  Entity("users", {"organizations"}, <<"users_org_email_idx", "users_external_auth_idx">>) \o
  Entity("organization_memberships", {"organizations", "users"},
    <<"memberships_org_user_idx">>) \o
  Entity("api_keys", {"organizations", "users"},
    <<"api_keys_hash_idx", "api_keys_prefix_idx">>) \o
  Entity("companies", {"organizations", "users"},
    <<"companies_org_domain_idx", "companies_assigned_to_idx">>) \o
  Entity("contacts", {"organizations", "users", "companies"},
    <<"contacts_org_email_idx", "contacts_company_idx", "contacts_assigned_to_idx">>) \o
  Entity("pipelines", {"organizations"}, <<"pipelines_org_name_idx">>) \o
  Entity("stages", {"organizations", "pipelines"},
    <<"stages_pipeline_order_idx", "stages_pipeline_name_idx">>) \o
  Entity("deals", {"organizations", "stages", "pipelines", "contacts", "companies", "users"},
    <<"deals_stage_idx", "deals_pipeline_idx", "deals_contact_idx", "deals_company_idx">>)

PostgresSliceA ==
  Entity("activities", {"organizations", "contacts", "deals", "companies", "users"},
    <<"activities_contact_idx", "activities_deal_idx", "activities_company_idx",
      "activities_occurred_at_idx">>) \o
  Entity("tasks", {"organizations", "contacts", "deals", "companies", "users"},
    <<"tasks_due_date_idx", "tasks_assigned_to_idx">>) \o
  Entity("notes", {"organizations", "contacts", "deals", "companies", "users"},
    <<"notes_contact_idx", "notes_deal_idx">>)

PostgresSliceB ==
  Entity("products", {"organizations"}, <<"products_sort_order_idx">>) \o
  Entity("payments", {"organizations", "deals", "contacts"},
    <<"payments_external_id_idx", "payments_status_idx">>) \o
  Entity("contracts", {"organizations", "deals", "contacts", "companies"},
    <<"contracts_status_idx">>)

PostgresSliceC ==
  Entity("sequences", {"organizations"}, <<"sequences_org_name_idx">>) \o
  Entity("sequence_steps", {"organizations", "sequences"}, <<"sequence_steps_order_idx">>) \o
  Entity("sequence_enrollments", {"organizations", "sequences", "contacts"},
    <<"sequence_enrollments_active_idx">>) \o
  Entity("sequence_events", {"organizations", "sequence_enrollments", "sequence_steps"},
    <<"sequence_events_enrollment_idx">>)

PostgresSliceD ==
  Entity("tags", {"organizations"}, <<"tags_org_name_idx">>) \o
  Entity("entity_tags", {"organizations", "tags"},
    <<"entity_tags_unique_idx", "entity_tags_lookup_idx">>) \o
  Entity("imports", {"organizations", "users"}, <<"imports_entity_type_idx">>) \o
  Entity("webhooks", {"organizations"}, <<"webhooks_status_idx">>) \o
  Entity("webhook_deliveries", {"organizations", "webhooks"},
    <<"webhook_deliveries_event_idx", "webhook_deliveries_next_attempt_idx">>)

PostgresSliceE ==
  Entity("custom_field_definitions", {"organizations"}, <<"custom_fields_unique_idx">>) \o
  Entity("audit_logs", {"organizations", "users", "api_keys"},
    <<"audit_logs_entity_idx", "audit_logs_occurred_at_idx">>) \o
  Entity("schema_migrations", {"organizations", "users"}, <<>>) \o
  Entity("idempotency_keys", {"organizations"}, <<"idempotency_unique_idx">>)

\* The upgrade of an older ledger: the columns, then every null in them, then NOT NULL.
PostgresLedgerUpgrade ==
  [i \in 1 .. Len(ColumnOrder) |-> AddColumn("make", ColumnOrder[i])]
    \o <<Statement("coalesce", Column("status"), {Column(c) : c \in LedgerColumns}, {}),
         Statement("notNull", Column("status"), {Column(c) : c \in LedgerColumns}, {})>>

LedgerIndexes ==
  <<CreateIndex("schema_migrations_target_idx", Ledger),
    CreateIndex("schema_migrations_applied_at_idx", Ledger)>>

\* The order that the comment on the ledger's indexes warns against.
PostgresLedgerIndexedFirst == LedgerIndexes \o PostgresLedgerUpgrade

PostgresLedger == PostgresLedgerUpgrade \o LedgerIndexes

PartialUniqueIndexes == <<CreateIndex("pipelines_org_default_unique_idx", "pipelines")>>

OrgLeadingIndexes ==
  LET tables == <<"api_keys", "stages", "deals", "activities", "tasks", "notes", "products",
                  "contracts", "sequence_steps", "sequence_enrollments", "sequence_events",
                  "imports", "webhooks", "webhook_deliveries", "schema_migrations">>
  IN  [i \in DOMAIN tables |-> Statement("make", OrgIndex(tables[i]), {Table(tables[i])}, {})]

-----------------------------------------------------------------------------
(* The statements of adapters/sqlite/schema.ts.  The tables of wave 1 and  *)
(* of slices A and B refer to nothing; slices C and D are those of         *)
(* Postgres, in the types of SQLite.                                       *)

SqliteWave1 ==
  Entity("organizations", {}, <<>>) \o
  Entity("users", {}, <<"users_org_email_idx">>) \o
  Entity("organization_memberships", {}, <<>>) \o
  Entity("api_keys", {}, <<"api_keys_hash_idx", "api_keys_prefix_idx">>) \o
  Entity("companies", {}, <<>>) \o
  Entity("contacts", {}, <<>>) \o
  Entity("pipelines", {}, <<"pipelines_org_default_unique_idx">>) \o
  Entity("stages", {}, <<>>) \o
  Entity("deals", {}, <<>>)

SqliteSliceA ==
  Entity("activities", {},
    <<"activities_contact_idx", "activities_deal_idx", "activities_company_idx",
      "activities_occurred_at_idx">>) \o
  Entity("tasks", {}, <<"tasks_due_date_idx", "tasks_assigned_to_idx">>) \o
  Entity("notes", {}, <<"notes_contact_idx", "notes_deal_idx">>)

SqliteSliceB ==
  Entity("products", {}, <<"products_sort_order_idx">>) \o
  Entity("payments", {}, <<"payments_external_id_idx", "payments_status_idx">>) \o
  Entity("contracts", {}, <<"contracts_status_idx">>)

SqliteSliceC == PostgresSliceC

SqliteSliceD == PostgresSliceD

\* ADD COLUMN has no IF NOT EXISTS here, so a repeated one fails.  A new
\* status column says `pending` of every row.
SqliteLedgerUpgrade ==
  [i \in 1 .. Len(ColumnOrder) |-> AddColumn("strict", ColumnOrder[i])]
    \o <<Statement("backfillApplied", Column("status"), {Column("status")}, {})>>

SqliteSliceE ==
  Entity("custom_field_definitions", {"organizations"}, <<"custom_fields_unique_idx">>) \o
  Entity("audit_logs", {"organizations", "users", "api_keys"},
    <<"audit_logs_entity_idx", "audit_logs_occurred_at_idx">>) \o
  Entity("schema_migrations", {"organizations", "users"}, <<>>)
    \o SqliteLedgerUpgrade \o LedgerIndexes \o
  Entity("idempotency_keys", {"organizations"}, <<"idempotency_unique_idx">>)

-----------------------------------------------------------------------------
(* Row-level security (schema-engine/rls.ts), for the tables that belong   *)
(* to an organization (repositories/tenant-scope.ts).                      *)

TenantTables == <<
  "users", "organization_memberships", "api_keys", "companies", "contacts", "pipelines",
  "stages", "deals", "activities", "tasks", "notes", "products", "payments", "contracts",
  "sequences", "sequence_steps", "sequence_enrollments", "sequence_events", "tags",
  "entity_tags", "imports", "webhooks", "webhook_deliveries", "custom_field_definitions",
  "audit_logs", "schema_migrations", "idempotency_keys">>

\* A table's operations without the last one.
OperationsButDelete == <<"select", "insert", "update">>

Operations == <<"select", "insert", "update", "delete">>

OrgFunction == <<"function", "current_org_id">>

ReplacePolicy(t, op) ==
  <<Statement("drop", Policy(t, op), {Table(t)}, {}),
    Statement("strict", Policy(t, op), {Table(t), OrgFunction}, {})>>

\* Every policy of a table dropped before the first is made again.
TableSecurityAnew(t) ==
  <<Statement("make", Security(t), {Table(t)}, {})>>
    \o FlattenSeq([p \in 1 .. 2 |->
         [o \in DOMAIN Operations |-> ReplacePolicy(t, Operations[o])[p]]])

TableSecurity(t) ==
  <<Statement("make", Security(t), {Table(t)}, {})>>
    \o FlattenSeq([o \in DOMAIN Operations |-> ReplacePolicy(t, Operations[o])])

\* generatePostgresRlsSql, table by table.
RlsStatements ==
  <<<<Statement("make", OrgFunction, {}, {})>>>>
    \o [i \in DOMAIN TenantTables |-> TableSecurity(TenantTables[i])]

=============================================================================
