------------------------------- MODULE Clients -------------------------------
(***************************************************************************)
(* What the SDK, the command line and the MCP tools send.  A program is    *)
(* the sequence of requests that one CLI command, one tool call or one SDK *)
(* call makes; a step of a program is a request and the condition under    *)
(* which the user is asked for consent before it is sent.  Path parameters *)
(* are the literal "id", a contact's address "email".  Query strings and   *)
(* bodies, output formats and the commands that send nothing (init,        *)
(* doctor, report, dashboard, export) are left out.                        *)
(***************************************************************************)
EXTENDS ApiRoutes

-----------------------------------------------------------------------------
(* The resources of the SDK (packages/sdk/src/resources). *)

BaseResource(e) ==
  {Request("POST", <<e>>), Request("GET", <<e>>), Request("GET", <<e, "id">>),
   Request("PATCH", <<e, "id">>), Request("DELETE", <<e, "id">>),
   Request("POST", <<e, "search">>), Request("POST", <<e, "batch">>)}

ContextOf(key) == Request("GET", <<"context", key>>)
LogActivity == Request("POST", <<"activities", "log">>)
MoveDeal    == Request("POST", <<"deals", "id", "move">>)
DealStats   == Request("GET", <<"deals", "stats">>)
Enroll      == Request("POST", <<"sequences", "id", "enroll">>)
Unenroll    == Request("POST", <<"sequence_enrollments", "id", "unenroll">>)
AttachTag   == Request("POST", <<"tags", "id", "attach">>)
DetachTag   == Request("POST", <<"tags", "id", "detach">>)
SearchAll   == Request("POST", <<"search">>)

ListObjects    == Request("GET", <<"objects">>)
DescribeObject == Request("GET", <<"objects", "id">>)
AddField       == Request("POST", <<"objects", "id", "fields">>)
UpdateField    == Request("PATCH", <<"objects", "id", "fields", "id">>)
DeleteField    == Request("DELETE", <<"objects", "id", "fields", "id">>)
PreviewMigration  == Request("POST", <<"schema", "migrations", "preview">>)
ApplyMigration    == Request("POST", <<"schema", "migrations", "apply">>)
RollbackMigration == Request("POST", <<"schema", "migrations", "id", "rollback">>)

ContactResource  == BaseResource("contacts") \cup {ContextOf("id"), ContextOf("email")}
CompanyResource  == BaseResource("companies")
DealResource     == BaseResource("deals") \cup {MoveDeal, DealStats, Request("GET", <<"deals", "pipeline">>)}
PipelineResource == BaseResource("pipelines")
StageResource    == BaseResource("stages")
UserResource     == BaseResource("users")
ActivityResource == BaseResource("activities") \cup {LogActivity}
TaskResource     == BaseResource("tasks")
NoteResource     == BaseResource("notes")
ProductResource  == BaseResource("products")
PaymentResource  == BaseResource("payments")
ContractResource == BaseResource("contracts")
SequenceResource == BaseResource("sequences") \cup {Enroll}
SequenceStepResource       == BaseResource("sequence_steps")
SequenceEnrollmentResource == BaseResource("sequence_enrollments") \cup {Unenroll}
SequenceEventResource == {Request("GET", <<"sequence_events">>), Request("GET", <<"sequence_events", "id">>)}
TagResource     == BaseResource("tags") \cup {AttachTag, DetachTag}
WebhookResource == BaseResource("webhooks") \cup
                     {Request("GET", <<"webhooks", "id", "deliveries">>),
                      Request("POST", <<"webhooks", "id", "redeliver">>)}
ImportResource  == {Request("POST", <<"imports">>), Request("GET", <<"imports">>), Request("GET", <<"imports", "id">>)}
SchemaResource  == {ListObjects, DescribeObject, AddField, UpdateField, DeleteField,
                    PreviewMigration, ApplyMigration, RollbackMigration}
SearchResource  == {SearchAll}

OrbitClient ==
  UNION {ContactResource, CompanyResource, DealResource, PipelineResource, StageResource, UserResource,
         ActivityResource, TaskResource, NoteResource, ProductResource, PaymentResource, ContractResource,
         SequenceResource, SequenceStepResource, SequenceEnrollmentResource, SequenceEventResource,
         TagResource, WebhookResource, ImportResource, SchemaResource, SearchResource}

-----------------------------------------------------------------------------
(* The programs of the command line (packages/cli/src/commands). *)

Step(ask, rq) == [ask |-> ask, rq |-> rq]
Call(rq) == <<Step("never", rq)>>
Calls(rqs) == {Call(rq) : rq \in rqs}

\* list, get, create, update and delete: one call each, and nobody is asked.
RecordCommands(e) == Calls(BaseResource(e) \ {Request("POST", <<e, "search">>), Request("POST", <<e, "batch">>)})

ContactsCommand   == RecordCommands("contacts")
CompaniesCommand  == RecordCommands("companies")
DealsCommand      == RecordCommands("deals") \cup {Call(MoveDeal)}
UsersCommand      == RecordCommands("users")
PipelinesCommand  == RecordCommands("pipelines")
StagesCommand     == RecordCommands("stages")
ActivitiesCommand == RecordCommands("activities")
TasksCommand      == RecordCommands("tasks")
NotesCommand      == RecordCommands("notes")
ProductsCommand   == RecordCommands("products")
PaymentsCommand   == RecordCommands("payments")
ContractsCommand  == RecordCommands("contracts")
SequencesCommand  == RecordCommands("sequences") \cup {Call(Enroll), Call(Unenroll)}
TagsCommand       == RecordCommands("tags")
WebhooksCommand   == RecordCommands("webhooks")
ImportsCommand    == Calls(ImportResource)
LogCommand        == {Call(LogActivity)}
ContextCommand    == Calls({ContextOf("id"), ContextOf("email")})
SearchCommand     == {Call(SearchAll)}
SchemaCommand     == Calls({ListObjects, DescribeObject})
StatusCommand     == {Call(Request("GET", <<"users">>))}

\* Direct mode only: one contact after the other, up to the first that fails.
SeedCommand == {[i \in 1 .. count |-> Step("never", Request("POST", <<"contacts">>))] : count \in 1 .. 2}

FieldsDeleteUnasked == <<Step("never", PreviewMigration), Step("never", DeleteField)>>
FieldsDelete == <<Step("always", PreviewMigration), Step("never", DeleteField)>>
FieldsUpdate == <<Step("never", PreviewMigration), Step("ifDestructive", UpdateField)>>
FieldsCommand == Calls({DescribeObject, AddField}) \cup {FieldsDelete, FieldsUpdate}

\* orbit migrate with any of --preview, --apply and --rollback: the first of them
\* is done, but --rollback asks beforehand whichever it is.
Migrate(flags) ==
  LET first == IF "rollback" \in flags THEN "always" ELSE "never" IN
  CASE "preview" \in flags -> <<Step(first, PreviewMigration)>>
    [] "preview" \notin flags /\ "apply" \in flags ->
         <<Step(first, PreviewMigration), Step("ifDestructive", ApplyMigration)>>
    [] OTHER -> <<Step(first, RollbackMigration)>>
MigrateCommand == {Migrate(flags) : flags \in SUBSET {"preview", "apply", "rollback"} \ {{}}}

CliPrograms ==
  UNION {ContactsCommand, CompaniesCommand, DealsCommand, UsersCommand, PipelinesCommand, StagesCommand,
         ActivitiesCommand, TasksCommand, NotesCommand, ProductsCommand, PaymentsCommand, ContractsCommand,
         SequencesCommand, TagsCommand, WebhooksCommand, ImportsCommand, LogCommand, ContextCommand,
         SearchCommand, SchemaCommand, StatusCommand, FieldsCommand, MigrateCommand}

-----------------------------------------------------------------------------
(* The programs of the MCP tools (packages/mcp/src/tools): delete_record   *)
(* and the deletions of a bulk operation need a confirmation of their own. *)

ObjectTypes == PublicEntities \cup {"webhooks", "imports"}
\* The resource of an object type, which may lack the method a tool calls.
ResourceOf(e) ==
  CASE e = "sequence_events" -> SequenceEventResource
    [] e = "imports" -> ImportResource
    [] OTHER -> BaseResource(e)

SearchRecords == Calls({SearchAll} \cup UNION {ResourceOf(e) \cap {Request("POST", <<e, "search">>)} : e \in ObjectTypes})
GetRecord     == Calls(UNION {ResourceOf(e) \cap {Request("GET", <<e, "id">>)} : e \in ObjectTypes})
CreateRecord  == Calls(UNION {ResourceOf(e) \cap {Request("POST", <<e>>)} : e \in ObjectTypes})
UpdateRecord  == Calls(UNION {ResourceOf(e) \cap {Request("PATCH", <<e, "id">>)} : e \in ObjectTypes})
DeleteRecord  == {<<Step("always", rq)>> :
                    rq \in UNION {ResourceOf(e) \cap {Request("DELETE", <<e, "id">>)} : e \in ObjectTypes}}
CoreRecordTools == UNION {SearchRecords, GetRecord, CreateRecord, UpdateRecord, DeleteRecord}

BulkOperation  == {<<Step(ask, Request("POST", <<e, "batch">>))>> : e \in BatchEntities, ask \in {"never", "always"}}
PipelineTools  == Calls({Request("GET", <<"pipelines">>), MoveDeal, DealStats})
RelateRecords  == Calls({AttachTag, DetachTag, Request("PATCH", <<"contacts", "id">>), Request("PATCH", <<"deals", "id">>)})
SequenceTools  == Calls({Enroll, Unenroll})
ActivityTools  == Calls({LogActivity, Request("GET", <<"activities">>)})
SchemaTools    == Calls({ListObjects, DescribeObject, AddField, UpdateField})
AssignRecord   == Calls({Request("PATCH", <<e, "id">>) : e \in {"contacts", "companies", "deals", "tasks"}})
TeamMembers    == {Call(Request("GET", <<"users">>))}

McpPrograms ==
  UNION {CoreRecordTools, BulkOperation, PipelineTools, RelateRecords, SequenceTools, ActivityTools,
         SchemaTools, AssignRecord, TeamMembers}

-----------------------------------------------------------------------------
(* What a program tells the server about the user's consent. *)

SchemaChanges == {UpdateField, DeleteField, ApplyMigration, RollbackMigration}

\* The confirmation a request carries, given that the preview found the change
\* destructive and that the user agreed.  A caller of the SDK or of the server passes its own.
Confirms(surface, rq, destructive, agreed) ==
  CASE surface = "cli" /\ rq = DeleteField -> TRUE
    [] surface = "cli" /\ rq \in {UpdateField, ApplyMigration} -> destructive /\ agreed
    [] surface = "cli" /\ rq = RollbackMigration -> agreed
    [] surface \in {"sdk", "raw"} /\ rq \in SchemaChanges -> agreed
    [] OTHER -> FALSE

\* The tool update_custom_field passes labels and descriptions only.
MayBeDestructive(surface, program) ==
  /\ surface # "mcp"
  /\ \E i \in DOMAIN program : program[i].rq \in SchemaChanges
=============================================================================
