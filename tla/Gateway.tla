------------------------------- MODULE Gateway --------------------------------
(***************************************************************************)
(* Users of the SDK, of the command line, of the MCP tools and of the HTTP *)
(* server itself, whose programs reach the service registry through the    *)
(* server's middleware chain or directly, over one pool of Postgres        *)
(* connections.                                                            *)
(*                                                                         *)
(* The tenant context of a request is a transaction that keeps one         *)
(* connection until the request is answered, while every repository call   *)
(* and every migration lock inside it takes another: a request that has    *)
(* one waits for more.                                                     *)
(***************************************************************************)
EXTENDS Clients, Integers, FiniteSets

CONSTANTS
  Callers,      \* the users
  Menu,         \* [Callers -> what each may start: Starts]
  PoolSize,     \* connections of the pool
  MaxRetries    \* OrbitClientOptions.maxRetries

\* A raw request reaches a server and orbit seed runs without one; the rest may do either.
Transports(surface) ==
  CASE surface = "raw" -> {"http"} [] surface = "seed" -> {"direct"} [] OTHER -> {"http", "direct"}

ASSUME PoolAssumption == PoolSize \in Nat \ {0} /\ MaxRetries \in Nat
ASSUME MenuAssumption ==
  \A c \in Callers : \A choice \in Menu[c] :
    DOMAIN choice = {"surface", "todo", "via", "held", "agreed", "destructive", "keyed"}
ASSUME ProgramsAssumption ==
  \A c \in Callers : \A choice \in Menu[c] :
    /\ choice.via \in Transports(choice.surface)
    /\ choice.todo \in Seq([ask : {"never", "ifDestructive", "always"}, rq : Requests]) /\ choice.todo # <<>>
    /\ choice.surface = "cli" => choice.todo \in CliPrograms
    /\ choice.surface = "seed" => choice.todo \in SeedCommand

VARIABLES
  caller,   \* [Callers -> what each is doing]
  free      \* connections of the pool that nobody holds

vars == <<caller, free>>

Invalid == {<<"none", "none">>}   \* what an unknown, revoked or expired key may do

Idle == [at |-> "idle", surface |-> "none", via |-> "none", todo |-> <<>>, held |-> {},
         agreed |-> FALSE, destructive |-> FALSE, keyed |-> FALSE, tries |-> 0, holds |-> 0,
         did |-> <<>>, answer |-> "none"]

Current(c) == Head(caller[c].todo).rq
Over(change, state) == [f \in DOMAIN state |-> IF f \in DOMAIN change THEN change[f] ELSE state[f]]
Put(c, change) == caller' = [caller EXCEPT ![c] = Over(change, @)]

Init == caller = [c \in Callers |-> Idle] /\ free = PoolSize

-----------------------------------------------------------------------------
(* The user's side. *)

\* Whether a program's change is destructive, and whether --yes (or the caller's own
\* confirmation) stands for the user's consent, matters to few programs.
MayConfirm(surface, program) ==
  \/ MayBeDestructive(surface, program)
  \/ \E i \in DOMAIN program : program[i].ask = "always"

Starts(surface, programs, keys) ==
  {choice \in [surface : {surface}, todo : programs, via : Transports(surface), held : keys,
               agreed : BOOLEAN, destructive : BOOLEAN, keyed : BOOLEAN] :
     /\ choice.via = "direct" => choice.held = {Everything}
     /\ choice.agreed => MayConfirm(surface, choice.todo)
     /\ choice.destructive => MayBeDestructive(surface, choice.todo)
     /\ (\E i \in DOMAIN choice.todo : choice.todo[i].rq = DeleteField) => choice.destructive
     /\ choice.keyed => surface = "sdk" /\ choice.todo = Call(ApplyMigration)}

Start(c) ==
  /\ caller[c].at = "idle"
  /\ \E choice \in Menu[c] : caller' = [caller EXCEPT ![c] = Over(choice, [@ EXCEPT !.at = "ready"])]
  /\ UNCHANGED free

MustAsk(c) ==
  /\ ~caller[c].agreed
  /\ \/ Head(caller[c].todo).ask = "always"
     \/ Head(caller[c].todo).ask = "ifDestructive" /\ caller[c].destructive

\* The user says yes, or says no (as a script without a terminal does) and the program ends.
Ask(c) ==
  /\ caller[c].at = "ready" /\ MustAsk(c)
  /\ \/ Put(c, [agreed |-> TRUE])
     \/ caller' = [caller EXCEPT ![c] = Idle]
  /\ UNCHANGED free

Send(c) ==
  /\ caller[c].at = "ready" /\ ~MustAsk(c)
  /\ Put(c, [at |-> IF caller[c].via = "http" THEN "sent" ELSE "entered", tries |-> 0])
  /\ UNCHANGED free

\* After an answer the program goes on to its next request; an error ends it.
Continue(c) ==
  /\ caller[c].at = "answered"
  /\ caller[c].answer # "retryable"
  /\ caller' = [caller EXCEPT ![c] =
       IF caller[c].answer = "done" /\ Len(caller[c].todo) > 1
       THEN Over([at |-> "ready", todo |-> Tail(caller[c].todo), did |-> <<>>, answer |-> "none"], @)
       ELSE Idle]
  /\ UNCHANGED free

\* retry: the same request again, with the idempotency key it had; raw requests are not retried.
Retries(c) == caller[c].surface # "raw" /\ caller[c].via = "http" /\ caller[c].tries < MaxRetries

\* A slip: the tries are not counted.
RetryUncounted(c) ==
  /\ caller[c].at = "answered" /\ caller[c].answer = "retryable"
  /\ IF Retries(c) THEN Put(c, [at |-> "sent", did |-> <<>>, answer |-> "none"])
                   ELSE caller' = [caller EXCEPT ![c] = Idle]
  /\ UNCHANGED free

Retry(c) ==
  /\ caller[c].at = "answered" /\ caller[c].answer = "retryable"
  /\ IF Retries(c) THEN Put(c, [at |-> "sent", tries |-> caller[c].tries + 1, did |-> <<>>, answer |-> "none"])
                   ELSE caller' = [caller EXCEPT ![c] = Idle]
  /\ UNCHANGED free

-----------------------------------------------------------------------------
(* The server's side. *)

Answer(c, answer) ==
  /\ Put(c, [at |-> "answered", answer |-> answer, holds |-> 0])
  /\ free' = free + caller[c].holds

\* authMiddleware looks the key up over a connection that it gives back at once.
Authenticate(c) ==
  /\ caller[c].at = "sent" /\ free > 0
  /\ IF caller[c].held = Invalid THEN Answer(c, "failed")
     ELSE Put(c, [at |-> "entered"]) /\ UNCHANGED free

\* The paths that bypass the tenant context.
Bypasses(c) == caller[c].via = "http" /\ Current(c).path[1] = "bootstrap"

\* tenantContextMiddleware, DirectTransport.request: begin, on a connection of its own.
OpenTenant(c) ==
  /\ caller[c].at = "entered"
  /\ IF Bypasses(c) THEN Put(c, [at |-> "admitted"]) /\ UNCHANGED free
     ELSE /\ free > 0 /\ free' = free - 1
          /\ Put(c, [at |-> "admitted", holds |-> 1])

\* A slip: the tenant transaction is left open.
RateLimitLeftOpen(c) ==
  /\ caller[c].at = "admitted" /\ caller[c].via = "http"
  /\ Put(c, [at |-> "answered", answer |-> "retryable"])
  /\ UNCHANGED free

\* The key's window is used up: an answer the SDK tries again.
RateLimit(c) ==
  /\ caller[c].at = "admitted" /\ caller[c].via = "http"
  /\ Answer(c, "retryable")

Served(c) == IF caller[c].via = "http" THEN HttpServes(caller[c].held, Current(c), caller[c].destructive)
                                       ELSE DirectServes(Current(c))

\* A destructive schema change is refused unless the request confirms it.
Unconfirmed(c, op) ==
  /\ op \in {<<"schema", f>> : f \in {"updateField", "deleteField", "apply", "rollback"}}
  /\ caller[c].destructive
  /\ ~Confirms(caller[c].surface, Current(c), caller[c].destructive, caller[c].agreed)

Dispatch(c) ==
  /\ caller[c].at = "admitted"
  /\ \E op \in {Served(c)} :
       IF op \in Refusals \/ Unconfirmed(c, op)
       THEN /\ Put(c, [at |-> "answered", answer |-> "failed", holds |-> 0,
                       did |-> IF op \in Refusals THEN op ELSE <<"refused", "CONFIRMATION">>])
            /\ free' = free + caller[c].holds
       ELSE Put(c, [at |-> "serving", did |-> op]) /\ UNCHANGED free

\* As if the idempotency recheck under the key's lock took a connection of its own as well.
PeakWithRecheck(op, keyed) ==
  CASE op \in {<<"schema", f>> : f \in {"updateField", "deleteField", "rollback"}} -> 2
    [] op = <<"schema", "apply">> -> IF keyed THEN 4 ELSE 2
    [] op[2] = "report" -> 0
    [] OTHER -> 1

\* The connections an operation nests in that of its tenant context, each taken while the
\* ones before are held: one for a repository call; for a change of the schema its target
\* lock and the ledger's write, and before them the lock of an idempotency key.  What runs
\* side by side counts once: each of the six lists of a search takes a connection and
\* gives it back without waiting for another's.
Peak(op, keyed) ==
  CASE op \in {<<"schema", f>> : f \in {"updateField", "deleteField", "rollback"}} -> 2
    [] op = <<"schema", "apply">> -> IF keyed THEN 3 ELSE 2
    [] op[2] = "report" -> 0
    [] OTHER -> 1

Needs(c) == Peak(caller[c].did, caller[c].keyed) + (IF Bypasses(c) THEN 0 ELSE 1)

\* pool.connect(): waits for a free connection, without a time limit.
TakeConnection(c) ==
  /\ caller[c].at = "serving" /\ caller[c].holds < Needs(c) /\ free > 0
  /\ Put(c, [holds |-> caller[c].holds + 1])
  /\ free' = free - 1

\* The statement on the connection just taken fails (a lock that is held, a
\* constraint, a lost session): everything is rolled back and given back.
Fail(c) ==
  /\ caller[c].at = "serving" /\ caller[c].holds < Needs(c) /\ free > 0
  /\ Answer(c, "failed")

Finish(c) ==
  /\ caller[c].at = "serving" /\ caller[c].holds = Needs(c)
  /\ Answer(c, "done")

-----------------------------------------------------------------------------
Progress(c) ==
  \/ Ask(c) \/ Send(c) \/ Continue(c) \/ Retry(c)
  \/ Authenticate(c) \/ OpenTenant(c) \/ RateLimit(c) \/ Dispatch(c)
  \/ TakeConnection(c) \/ Fail(c) \/ Finish(c)

Next == \E c \in Callers : Start(c) \/ Progress(c)

\* Nobody starts a program of necessity; a started one goes on, and the pool serves those
\* that wait in turn: who finds a connection free again and again takes one.
Spec == Init /\ [][Next]_vars /\ \A c \in Callers : SF_vars(Progress(c))

-----------------------------------------------------------------------------
(* Properties. *)

\* The connections that are taken: one for each that a caller holds.
Taken == {t \in Callers \X (1 .. 4) : t[2] <= caller[t[1]].holds}

\* A caller holds connections (those that Peak counts) only from the admission of its
\* request to the answer, and every connection of the pool is free or held by one caller:
\* no path of a request loses or doubles one.
TypeOK ==
  /\ \A c \in Callers :
       /\ caller[c].at \in {"idle", "ready", "sent", "entered", "admitted", "serving", "answered"}
       /\ caller[c].at \notin {"admitted", "serving"} => caller[c].holds = 0
       /\ caller[c].holds \in 0 .. 4
  /\ free \in 0 .. PoolSize
  /\ Cardinality(Taken) + free = PoolSize

\* The callers whose request the server is executing an operation for.
ServedOverHttp == {c \in Callers : caller[c].at = "serving" /\ caller[c].via = "http"}

\* The two transports do the same with a request that both serve.  (The deliveries of a
\* webhook are the exception: the direct transport answers with the webhook itself.)
TransportsAgree ==
  \A c \in ServedOverHttp :
    \/ DirectServes(Current(c)) \in {caller[c].did} \cup Refusals
    \/ caller[c].did = <<"webhook_deliveries", "list">>

\* The scope that an operation of the registry calls for, whatever path leads to it.
ScopeFor(op) ==
  LET entity == IF \E e \in PublicEntities : ServiceOf(e) = op[1]
                THEN CHOOSE e \in PublicEntities : ServiceOf(e) = op[1] ELSE op[1] IN
  IF op[1] \in AdminEntities THEN AdminScope
  ELSE IF op[1] = "contactContext" THEN <<"contacts", "read">>
  ELSE IF op[1] = "schema" /\ op[2] \in {"apply", "rollback", "deleteField"} THEN <<"schema", "apply">>
  ELSE IF op[1] = "schema" /\ op[2] \in {"listObjects", "getObject", "preview"} THEN <<"schema", "read">>
  ELSE IF op[2] \in Reads \cup {"pipeline", "stats"} THEN <<entity, "read">>
  ELSE <<entity, "write">>

Enrolls(rq) == rq.method = "POST" /\ Fits(<<"sequences", ":id", "enroll">>, rq.path)

\* No key gets the server to do what its scopes do not allow, on any path.  (Enrolling
\* goes by the scope of the sequence, the deliveries of a webhook by that of the webhook,
\* and a field change by what the change destroys.)
ScopesCoverWhatIsDone ==
  \A c \in ServedOverHttp :
    LET op == caller[c].did IN
    \/ op = <<"status", "report">>
    \/ HasScope(caller[c].held, ScopeFor(op))
    \/ Enrolls(Current(c)) /\ HasScope(caller[c].held, <<"sequences", "write">>)
    \/ op = <<"webhook_deliveries", "list">> /\ HasScope(caller[c].held, <<"webhooks", "read">>)
    \/ op = <<"schema", "updateField">> /\ HasScope(caller[c].held, FieldUpdateScope(caller[c].destructive))

\* Every command of the command line, and every request the server documents, leads to
\* an operation: none is sent to a path or a function that does not exist.
\* (Redelivery is documented and not implemented.)
OfferedRequestsAreServed ==
  \A c \in Callers :
    caller[c].at = "answered" /\ caller[c].did \in {NotFound, NotImplemented} =>
      /\ caller[c].surface \notin {"cli", "seed"}
      /\ caller[c].via = "http" => ~\E d \in Documented :
           d.method = Current(c).method /\ Fits(d.path, Current(c).path) /\ caller[c].did = NotFound

\* Nothing is destroyed for a user of any surface who was not asked and did not confirm
\* beforehand: the client's question and the engine's refusal leave no gap between them.
NothingDestroyedUnasked ==
  \A c \in Callers :
    /\ caller[c].at = "serving" /\ caller[c].destructive
    /\ caller[c].did[2] \in {"updateField", "deleteField", "apply", "rollback"}
    => caller[c].agreed /\ caller[c].surface # "mcp"

\* While the pool is empty, one of those that hold its connections has all it needs:
\* they never all wait for each other.
SomeHolderCanProceed ==
  free = 0 => \E c \in Callers :
    \/ caller[c].at = "admitted" /\ caller[c].holds > 0
    \/ caller[c].at = "serving" /\ caller[c].holds = Needs(c)

\* Every program ends, however its requests contend for the pool and are limited.
RequestsEnd == \A c \in Callers : caller[c].at # "idle" ~> caller[c].at = "idle"
=============================================================================
