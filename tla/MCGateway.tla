----------------------------- MODULE MCGateway ------------------------------
(***************************************************************************)
(* Gateway for model checking: one caller may start every program of every *)
(* surface and every request of the route table, the other contends for    *)
(* the pool with a migration under an idempotency key or a plain read.     *)
(***************************************************************************)
EXTENDS Gateway

CONSTANTS c1, c2

\* A request for each route and each documented operation, and two for no route at all.
Literal(pattern) == [i \in DOMAIN pattern |-> IF pattern[i] \in Parameters THEN "id" ELSE pattern[i]]
RouteRequests == UNION {{Request(r.method, Literal(r.path)) : r \in RouteTable[i]} : i \in DOMAIN RouteTable}
RawRequests ==
  RouteRequests \cup {Request(d.method, Literal(d.path)) : d \in Documented}
    \cup {Request("GET", <<"admin", "users">>), Request("GET", <<"nowhere">>)}

AllScopes == {Everything}
Reader == {<<"contacts", "*">>, <<"schema", "write">>, <<"sequences", "write">>, <<"webhooks", "read">>}

Everyone ==
  UNION {Starts("cli", CliPrograms, {AllScopes}), Starts("mcp", McpPrograms, {AllScopes}),
         Starts("sdk", Calls(OrbitClient), {AllScopes}), Starts("seed", SeedCommand, {AllScopes}),
         Starts("raw", Calls(RawRequests \ OrbitClient), {AllScopes}),
         Starts("raw", Calls(RawRequests), {Reader}), Starts("raw", Calls({DealStats, AddField}), {Invalid})}
Contender ==
  {choice \in Starts("sdk", {Call(ApplyMigration)}, {AllScopes}) :
     choice.via = "direct" /\ choice.keyed /\ ~choice.destructive /\ ~choice.agreed}
    \cup Starts("raw", {Call(Request("GET", <<"contacts", "id">>))}, {AllScopes})

MCCallers == {c1, c2}
MCMenu == [c \in MCCallers |-> IF c = c1 THEN Everyone ELSE Contender]
=============================================================================
