------------------------------ MODULE ApiRoutes ------------------------------
(***************************************************************************)
(* What the two ways into the service registry do with one request: the    *)
(* HTTP server's route table (packages/api/src/routes), where the first    *)
(* registered route that fits answers and its scopes are required, and     *)
(* DirectTransport.dispatch (packages/sdk/src/transport), which walks the  *)
(* same paths by hand and knows no scopes.                                 *)
(*                                                                         *)
(* A path is the sequence of its segments after /v1; a segment of a route  *)
(* that begins with a colon stands for any one segment.  What a request    *)
(* leads to is an operation <<service, function>> of the registry or one   *)
(* of the three refusals.  Bodies, their validation and the form of the    *)
(* answers are left out.                                                   *)
(***************************************************************************)
EXTENDS Naturals, Sequences

Request(method, path) == [method |-> method, path |-> path]

\* What an index past the end of a path's segments reads.
Absent == "undefined"

\* What arrives as a request: a path has a first segment, and the id of a migration
\* (migration_<ULID>) is no other word of the routes beside it.
Requests ==
  {rq \in [method : STRING, path : Seq(STRING \ {Absent})] :
     /\ rq.path # <<>>
     /\ (Len(rq.path) = 4 /\ rq.path[1] = "schema") => rq.path[3] \notin {"preview", "apply"}}

NotFound       == <<"refused", "RESOURCE_NOT_FOUND">>       \* 404
NotImplemented == <<"refused", "INTERNAL_ERROR">>           \* 501
Forbidden      == <<"refused", "AUTH_INSUFFICIENT_SCOPE">>  \* 403
Refusals == {NotFound, NotImplemented, Forbidden}

-----------------------------------------------------------------------------
(* The service registry. *)

BatchEntities == {"contacts", "companies", "deals", "activities", "tasks", "notes", "products",
                  "payments", "contracts", "sequences", "tags"}
WriteEntities == BatchEntities \cup {"pipelines", "stages", "users", "sequence_steps",
                                     "sequence_enrollments"}
PublicEntities == WriteEntities \cup {"sequence_events"}

\* The camel-case key under which an entity's service is registered.
ServiceOf(entity) ==
  CASE entity = "sequence_steps"       -> "sequenceSteps"
    [] entity = "sequence_enrollments" -> "sequenceEnrollments"
    [] entity = "sequence_events"      -> "sequenceEvents"
    [] OTHER -> entity

Reads == {"list", "get", "search"}
Crud  == Reads \cup {"create", "update", "delete"}

\* The services of CoreServices.system, here by the name of their admin route.
AdminEntities == {"organization_memberships", "api_keys", "custom_field_definitions",
                  "webhook_deliveries", "audit_logs", "schema_migrations", "idempotency_keys",
                  "entity_tags"}

FunctionsOf(service) ==
  CASE service = "deals"          -> Crud \cup {"move", "pipeline", "stats"}
    [] service = "tags"           -> Crud \cup {"attach", "detach"}
    [] service = "sequenceEvents" -> Crud \ {"update", "delete"}
    [] service = "imports"        -> Crud \ {"delete"}
    [] OTHER -> Crud

EntityOperations ==
  UNION {{<<service, f>> : f \in FunctionsOf(service)} :
           service \in {ServiceOf(e) : e \in PublicEntities} \cup {"webhooks", "imports"}}

SpecialOperations ==
  {<<"search", "search">>, <<"contactContext", "getContactContext">>}
    \cup {<<"schema", f>> : f \in {"listObjects", "getObject", "addField", "updateField",
                                   "deleteField", "preview", "apply", "rollback"}}

SystemOperations == (AdminEntities \cup {"organizations"}) \X {"list", "get"}

Offered == EntityOperations \cup SpecialOperations \cup SystemOperations

\* A handler calls the function when the service has it and answers 501 otherwise.
Provided(op) == IF op \in Offered THEN op ELSE NotImplemented
ProvidedOr(op, fallback) == IF op \in Offered THEN op ELSE Provided(fallback)

-----------------------------------------------------------------------------
(* Scopes: a scope is <<resource, verb>>. *)

Everything == <<"*", "*">>
HasScope(held, scope) == held \cap {Everything, scope, <<scope[1], "*">>} # {}

\* What PATCH on a field asks for, once the change has been previewed.
FieldUpdateScope(destructive) == <<"schema", IF destructive THEN "apply" ELSE "write">>

-----------------------------------------------------------------------------
(* The route table of the HTTP server. *)

Parameters == {":id", ":type", ":fieldName", ":contactId"}
Fits(pattern, path) ==
  /\ Len(pattern) = Len(path)
  /\ \A i \in DOMAIN path : pattern[i] \in Parameters \/ pattern[i] = path[i]

Route(method, path, needs, op) == [method |-> method, path |-> path, needs |-> needs, op |-> op]
Read(path, op)  == Route("GET",  path, {<<path[1], "read">>},  op)
Post(path, op)  == Route("POST", path, {<<path[1], "write">>}, op)

StatusRoutes  == {Route("GET", <<"status">>, {}, <<"status", "report">>)}
SearchRoutes  == {Route("POST", <<"search">>, {<<"search", "read">>}, <<"search", "search">>)}
ContextRoutes == {Route("GET", <<"context", ":contactId">>, {<<"contacts", "read">>},
                        <<"contactContext", "getContactContext">>)}

BootstrapRoutes ==
  {Route("POST", <<"bootstrap", kind>>, {<<"platform", "bootstrap">>}, Provided(<<kind, "create">>)) :
     kind \in {"organizations", "api-keys"}}

OrganizationRoutes ==
  {Read(<<"organizations", "current">>, <<"organizations", "get">>),
   Route("PATCH", <<"organizations", "current">>, {<<"organizations", "write">>},
         Provided(<<"organizations", "update">>))}

AdminScope == <<"admin", "*">>
AdminRoutes ==
  UNION {{Route("GET", <<"admin", e>>,        {AdminScope}, <<e, "list">>),
          Route("GET", <<"admin", e, ":id">>, {AdminScope}, <<e, "get">>)} : e \in AdminEntities}

\* A key that may only read can also delete.
RecordRoutesLax(entity, writable) ==
  LET service == ServiceOf(entity) IN
  {Read(<<entity>>, <<service, "list">>), Read(<<entity, ":id">>, <<service, "get">>)}
    \cup IF ~writable THEN {}
         ELSE {Post(<<entity>>, <<service, "create">>),
               Route("PATCH",  <<entity, ":id">>, {<<entity, "write">>}, <<service, "update">>),
               Route("DELETE", <<entity, ":id">>, {<<entity, "read">>},  <<service, "delete">>)}

\* Create, read, change and delete records of one entity.
RecordRoutes(entity, writable) ==
  LET service == ServiceOf(entity) IN
  {Read(<<entity>>, <<service, "list">>), Read(<<entity, ":id">>, <<service, "get">>)}
    \cup IF ~writable THEN {}
         ELSE {Post(<<entity>>, <<service, "create">>),
               Route("PATCH",  <<entity, ":id">>, {<<entity, "write">>}, <<service, "update">>),
               Route("DELETE", <<entity, ":id">>, {<<entity, "write">>}, <<service, "delete">>)}

WebhookRoutes ==
  RecordRoutes("webhooks", TRUE)
    \cup {Read(<<"webhooks", ":id", "deliveries">>, <<"webhook_deliveries", "list">>),
          Post(<<"webhooks", ":id", "redeliver">>, Provided(<<"webhooks", "redeliver">>))}

\* A slip: the route of a single import forgotten.
ImportRoutesListOnly ==
  {Read(<<"imports">>, <<"imports", "list">>), Post(<<"imports">>, <<"imports", "create">>)}

ImportRoutes ==
  {Read(<<"imports">>, <<"imports", "list">>), Read(<<"imports", ":id">>, <<"imports", "get">>),
   Post(<<"imports">>, <<"imports", "create">>)}

WorkflowRoutes ==
  {Post(<<"deals", ":id", "move">>, Provided(<<"deals", "move">>)),
   Read(<<"deals", "pipeline">>, Provided(<<"deals", "pipeline">>)),
   Read(<<"deals", "stats">>, Provided(<<"deals", "stats">>)),
   Post(<<"sequences", ":id", "enroll">>,
        ProvidedOr(<<"sequences", "enroll">>, <<"sequenceEnrollments", "create">>)),
   Post(<<"sequence_enrollments", ":id", "unenroll">>,
        ProvidedOr(<<"sequenceEnrollments", "unenroll">>, <<"sequenceEnrollments", "update">>)),
   Post(<<"tags", ":id", "attach">>, Provided(<<"tags", "attach">>)),
   Post(<<"tags", ":id", "detach">>, Provided(<<"tags", "detach">>)),
   Post(<<"activities", "log">>, ProvidedOr(<<"activities", "log">>, <<"activities", "create">>))}

\* A relation asks for the scope of both of its ends; no service has the function behind it.
Relation(owner, name) ==
  Route("GET", <<owner, ":id", name>>,
        {<<owner, "read">>} \cup IF name = "timeline" THEN {} ELSE {<<name, "read">>},
        Provided(<<owner, name>>))
RelationshipRoutes ==
  {Relation("contacts", name) : name \in {"timeline", "deals", "activities", "tasks", "tags"}}
    \cup {Relation("companies", "contacts"), Relation("companies", "deals"),
          Relation("deals", "timeline")}

\* The scopes of PATCH depend on the change: FieldUpdateScope.
ObjectRoutes ==
  {Route(r[1], r[2], {<<"schema", r[3]>>}, <<"schema", r[4]>>) :
     r \in {<<"GET",    <<"objects">>,                                 "read",  "listObjects">>,
            <<"GET",    <<"objects", ":type">>,                        "read",  "getObject">>,
            <<"POST",   <<"objects", ":type", "fields">>,              "write", "addField">>,
            <<"DELETE", <<"objects", ":type", "fields", ":fieldName">>, "apply", "deleteField">>,
            <<"POST",   <<"schema", "migrations", "preview">>,         "read",  "preview">>,
            <<"POST",   <<"schema", "migrations", "apply">>,           "apply", "apply">>,
            <<"POST",   <<"schema", "migrations", ":id", "rollback">>, "apply", "rollback">>}}
    \cup {Route("PATCH", <<"objects", ":type", "fields", ":fieldName">>, {}, <<"schema", "updateField">>)}

EntityRoutes ==
  (UNION {RecordRoutes(e, e \in WriteEntities)
            \cup {Route("POST", <<e, "search">>, {<<e, "read">>}, <<ServiceOf(e), "search">>)} :
          e \in PublicEntities})
    \cup {Post(<<e, "batch">>, Provided(<<ServiceOf(e), "batch">>)) : e \in BatchEntities}

\* The records' routes before the workflows': /deals/stats is taken for a deal.
RouteTableRecordsFirst == <<StatusRoutes, SearchRoutes, ContextRoutes, BootstrapRoutes, OrganizationRoutes,
                            AdminRoutes, EntityRoutes, WebhookRoutes, ImportRoutes, WorkflowRoutes,
                            RelationshipRoutes, ObjectRoutes>>
\* In the order of registration.
RouteTable == <<StatusRoutes, SearchRoutes, ContextRoutes, BootstrapRoutes, OrganizationRoutes,
                AdminRoutes, WebhookRoutes, ImportRoutes, WorkflowRoutes, RelationshipRoutes,
                ObjectRoutes, EntityRoutes>>

Answering(rq, routes) == {r \in routes : r.method = rq.method /\ Fits(r.path, rq.path)}

\* Everything under /v1/admin asks for its scope, whether a route follows or not.
AdminMayPass(held, rq) == rq.path[1] # "admin" \/ HasScope(held, AdminScope)

\* What the server makes of a request: destructive says what the preview of a field change finds.
HttpServes(held, rq, destructive) ==
  LET ranks == {i \in DOMAIN RouteTable : Answering(rq, RouteTable[i]) # {}}
      first == CHOOSE i \in ranks : \A j \in ranks : i <= j
      route == CHOOSE r \in Answering(rq, RouteTable[first]) : TRUE
      mayCall == \/ /\ route.op # <<"schema", "updateField">>
                    /\ \A scope \in route.needs : HasScope(held, scope)
                 \/ /\ route.op = <<"schema", "updateField">>
                    /\ HasScope(held, FieldUpdateScope(destructive))
  IN IF ~AdminMayPass(held, rq) THEN Forbidden
     ELSE IF ranks = {} THEN NotFound
     ELSE IF mayCall THEN route.op ELSE Forbidden

-----------------------------------------------------------------------------
(* DirectTransport.dispatch: the segments by position. *)

Segment(path, i) == IF i <= Len(path) THEN path[i] ELSE Absent

DirectSpecial(rq, action) ==
  CASE rq.method = "POST" /\ rq.path[1] = "search" -> <<"search", "search">>
    [] rq.method = "GET" /\ rq.path[1] = "context" /\ action # Absent ->
         <<"contactContext", "getContactContext">>
    [] OTHER -> NotFound

DirectObjects(rq, action) ==
  LET onFields == action # Absent /\ Segment(rq.path, 3) = "fields"
      onField  == onFields /\ Segment(rq.path, 4) # Absent
  IN CASE rq.method = "GET" /\ action = Absent -> <<"schema", "listObjects">>
       [] rq.method = "GET" /\ action # Absent /\ Len(rq.path) = 2 -> <<"schema", "getObject">>
       [] rq.method = "POST" /\ onFields  -> <<"schema", "addField">>
       [] rq.method = "PATCH" /\ onField  -> <<"schema", "updateField">>
       [] rq.method = "DELETE" /\ onField -> <<"schema", "deleteField">>
       [] OTHER -> NotFound

DirectMigrations(rq) ==
  LET operation == Segment(rq.path, 3) IN
  CASE rq.method = "POST" /\ operation = "preview" -> <<"schema", "preview">>
    [] rq.method = "POST" /\ operation = "apply"   -> <<"schema", "apply">>
    [] rq.method = "POST" /\ operation \notin {Absent, "preview", "apply"}
                         /\ Segment(rq.path, 4) = "rollback" -> <<"schema", "rollback">>
    [] OTHER -> NotFound

\* The workflows, which dispatch tries before the records; NotFound lets it go on.
DirectWorkflows(rq, action) ==
  LET on(entity, verb) == /\ rq.method = "POST" /\ rq.path[1] = entity
                          /\ action # Absent /\ Segment(rq.path, 3) = verb
      view(name) == rq.method = "GET" /\ rq.path[1] = "deals" /\ action = name
  IN CASE on("deals", "move") -> Provided(<<"deals", "move">>)
       [] view("pipeline")    -> Provided(<<"deals", "pipeline">>)
       [] view("stats")       -> Provided(<<"deals", "stats">>)
       [] on("sequences", "enroll") ->
            ProvidedOr(<<"sequences", "enroll">>, <<"sequenceEnrollments", "create">>)
       [] on("sequence_enrollments", "unenroll") ->
            ProvidedOr(<<"sequenceEnrollments", "unenroll">>, <<"sequenceEnrollments", "update">>)
       [] on("tags", "attach") -> Provided(<<"tags", "attach">>)
       [] on("tags", "detach") -> Provided(<<"tags", "detach">>)
       [] rq.method = "POST" /\ rq.path[1] = "activities" /\ action = "log" ->
            ProvidedOr(<<"activities", "log">>, <<"activities", "create">>)
       [] OTHER -> NotFound

\* The records of any service: what the service does not have is an unknown route.
DirectRecords(rq, action) ==
  LET service == ServiceOf(rq.path[1])
      found(f) == IF <<service, f>> \in Offered THEN <<service, f>> ELSE NotFound
  IN CASE rq.method = "GET" /\ action = Absent     -> found("list")
       [] rq.method = "GET" /\ action \notin {Absent, "search"} -> found("get")
       [] rq.method = "POST" /\ action \in {Absent, "log"} -> found("create")
       [] rq.method = "POST" /\ action = "search" -> found("search")
       [] rq.method = "POST" /\ action = "batch"  -> found("batch")
       [] rq.method = "PATCH" /\ action # Absent  -> found("update")
       [] rq.method = "DELETE" /\ action # Absent -> found("delete")
       [] OTHER -> NotFound

DirectServes(rq) ==
  LET action == Segment(rq.path, 2)
      entity == rq.path[1]
  IN IF DirectSpecial(rq, action) # NotFound THEN DirectSpecial(rq, action)
     ELSE IF entity = "objects" THEN DirectObjects(rq, action)
     ELSE IF entity = "schema" /\ action = "migrations" THEN DirectMigrations(rq)
     ELSE IF DirectWorkflows(rq, action) # NotFound THEN DirectWorkflows(rq, action)
     ELSE IF entity \in AdminEntities \cup {"organizations"} THEN NotFound
     ELSE DirectRecords(rq, action)

-----------------------------------------------------------------------------
(* The operations the server's OpenAPI document lists, as route patterns. *)

Documents(method, path) == [method |-> method, path |-> path]
DocumentedRecords(entity, writable) ==
  {Documents("GET", <<entity>>), Documents("GET", <<entity, ":id">>)}
    \cup IF ~writable THEN {}
         ELSE {Documents("POST", <<entity>>), Documents("PATCH", <<entity, ":id">>),
               Documents("DELETE", <<entity, ":id">>)}
DocumentedEntities == UNION {DocumentedRecords(e, e \in WriteEntities) : e \in PublicEntities}
DocumentedImports ==
  {Documents("GET", <<"imports">>), Documents("POST", <<"imports">>), Documents("GET", <<"imports", ":id">>)}
DocumentedWebhooks ==
  DocumentedRecords("webhooks", TRUE)
    \cup {Documents("GET", <<"webhooks", ":id", "deliveries">>),
          Documents("POST", <<"webhooks", ":id", "redeliver">>)}
DocumentedObjects ==
  {Documents("GET", <<"objects">>), Documents("GET", <<"objects", ":type">>),
   Documents("POST", <<"objects", ":type", "fields">>)}
    \cup {Documents(m, <<"objects", ":type", "fields", ":fieldName">>) : m \in {"PATCH", "DELETE"}}
DocumentedMigrations ==
  {Documents("POST", p) : p \in {<<"schema", "migrations", "preview">>, <<"schema", "migrations", "apply">>,
                                 <<"schema", "migrations", ":id", "rollback">>}}
DocumentedStatus == {Documents("GET", <<"status">>)}

Documented == UNION {DocumentedEntities, DocumentedImports, DocumentedWebhooks, DocumentedObjects,
                     DocumentedMigrations, DocumentedStatus}
=============================================================================
