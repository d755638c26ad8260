--------------------------- MODULE HttpMutations ---------------------------
(***************************************************************************)
(* A mutating request through the API's middleware: the tenant transaction *)
(* opens, the rate limiter admits, the idempotency middleware looks up the *)
(* key, the route handler runs, the response is stored for replay, and the *)
(* tenant transaction commits (packages/api/src/create-api.ts and          *)
(* middleware/).  Requests interleave at every await that stands between   *)
(* two accesses of shared state; an await between a shared access and the  *)
(* private work after it (reading the body, comparing it) is no step of    *)
(* its own.  Each request is one HTTP request: a retry of the SDK or of    *)
(* its caller is another request with the same key.                        *)
(*                                                                         *)
(* On SQLite the requests in flight share one connection and its depth     *)
(* counter (core/src/adapters/sqlite/database.ts): the tenant transaction  *)
(* of a request that finds another's open is a savepoint of it.  A         *)
(* transaction the handler opens within its own is opened and closed in    *)
(* the handler's step; SqliteTransactions has the steps between.           *)
(***************************************************************************)
EXTENDS Integers, Sequences, FiniteSets

CONSTANTS Request,      \* HTTP requests, each sent at most once
          ApiKey, Org,  \* API keys and the organizations they belong to
          OrgOf,        \* the organization of a key
          IdemKey,      \* values of the Idempotency-Key header, with method and path
          Body,         \* request bodies
          Inputs,       \* what a request may ask: [apiKey, idemKey, body]
          Limit,        \* DEFAULT_LIMIT
          Window,       \* WINDOW_MS
          MaxBuckets,   \* MAX_BUCKETS
          TTL,          \* TTL_MS
          MaxStore,     \* MAX_STORE_SIZE
          MaxTime,      \* bound on the clock
          SharedTx,     \* whether all requests share one connection (SQLite:
                        \* TRUE; Postgres, where tenant transactions and
                        \* repositories have a session each: FALSE)
          Faults        \* subset of {"store", "commit", "restart"}

ASSUME ConstantsAssumption ==
  /\ IsFiniteSet(ApiKey)
  /\ OrgOf \in [ApiKey -> Org]
  /\ Inputs \subseteq [apiKey : ApiKey, idemKey : IdemKey, body : Body]
  /\ Limit \in Nat \ {0} /\ Window \in Nat \ {0} /\ TTL \in Nat
  /\ MaxBuckets \in Nat \ {0} /\ MaxStore \in Nat \ {0} /\ MaxTime \in Nat
  /\ SharedTx \in BOOLEAN
  /\ Faults \subseteq {"store", "commit", "restart"}

VARIABLES now,      \* Date.now()
          buckets,  \* the limiter's Map in insertion order: [key, tokens, lastRefill]
          store,    \* the idempotency Map in insertion order: [route, body, by, at]
          pc,       \* the await a request is suspended at
          req,      \* what it asks
          result,   \* how its handler ended: none, created, refused
          answer,   \* the answer sent: [kind, by], or NoAnswer
          records,  \* requests whose record is in the database, as its connection sees it
          disk,     \* those in the database file
          stack,    \* the transaction stack of SQLite's connection
          depth,    \* #transactionDepth
          level,    \* the depth a request's tenant transaction opened at
          mixed,    \* history: requests whose tenant transaction was open on the
                    \* connection together with another's
          before,   \* history: the requests answered when it was sent
          admitted, \* history: when this process's limiter let it pass
          log       \* history: [by, at] of the responses stored since the last restart

server == <<buckets, store>>
file == <<records, disk, stack>>
transactions == <<depth, level, mixed>>
history == <<before, admitted, log>>
vars == <<now, server, pc, req, result, answer, file, transactions, history>>

Conn == INSTANCE SqliteConnection WITH db <- records

NoRequest == [idemKey |-> "none"]
NoAnswer == [kind |-> "none"]
Never == -1

Init ==
  /\ now = 0 /\ buckets = <<>> /\ store = <<>>
  /\ pc = [r \in Request |-> "idle"]
  /\ req = [r \in Request |-> NoRequest]
  /\ result = [r \in Request |-> "none"]
  /\ answer = [r \in Request |-> NoAnswer]
  /\ records = {} /\ disk = {} /\ stack = <<>>
  /\ depth = 0 /\ level = [r \in Request |-> 0] /\ mixed = {}
  /\ before = [r \in Request |-> {}]
  /\ admitted = [r \in Request |-> Never]
  /\ log = <<>>

-----------------------------------------------------------------------------
(* The two Maps *)

\* Map.set: an existing key keeps its place in the insertion order.
Put(map, places, entry) ==
  IF places = {} THEN Append(map, entry)
  ELSE [i \in DOMAIN map |-> IF i \in places THEN entry ELSE map[i]]

\* The entries at some of the places of a Map, in their order.
Rank(places, j) == Cardinality({k \in places : k <= j})
Only(map, places) ==
  [i \in 1..Cardinality(places) |-> map[CHOOSE j \in places : Rank(places, j) = i]]

\* A slip: the bound off by one.
CappedLate(map, max) == IF Len(map) > max + 1 THEN Tail(map) ELSE map

\* Past its size a Map loses the entry it lists first.
Capped(map, max) == IF Len(map) > max THEN Tail(map) ELSE map

\* The route key joins organization, method, path and Idempotency-Key.
RouteOf(r) == <<OrgOf[req[r].apiKey], req[r].idemKey>>

Goto(r, step) == pc' = [pc EXCEPT ![r] = step]

Answer(r, kind, by) ==
  answer' = [answer EXCEPT ![r] = [kind |-> kind, by |-> by]]

-----------------------------------------------------------------------------
(* Tenant transactions *)

\* The requests whose tenant transaction is open.
Opened == {r \in Request : pc[r] \notin {"idle", "done"}}

\* withTenantContext: on SQLite, `begin` or a savepoint of the one connection.
OpenTx(r) ==
  IF SharedTx
    THEN /\ Conn!Opens(depth + 1) /\ Conn!SqlOpen(depth + 1)
         /\ depth' = depth + 1
         /\ level' = [level EXCEPT ![r] = depth + 1]
         /\ mixed' = IF Opened = {} THEN mixed ELSE mixed \cup Opened \cup {r}
    ELSE UNCHANGED <<file, transactions>>

\* Whether the closing statements find the transaction.
TxKnown(r) == SharedTx => Conn!Known(level[r])

\* Whether they end in the commit of the whole, which the database may refuse: on
\* SQLite the file is locked by another process.
Commits(r) == SharedTx => Conn!Entry(level[r]) = 1

\* The finally block.
LeaveTx == /\ depth' = IF SharedTx THEN depth - 1 ELSE depth
           /\ UNCHANGED <<level, mixed>>

-----------------------------------------------------------------------------
(* A request *)

\* The bucket of an API key, and whether its window is over.
Mine(k) == {i \in DOMAIN buckets : buckets[i].key = k}
Expired(k) == \A i \in Mine(k) : now - buckets[i].lastRefill >= Window

\* A slip: an allowance of one more.
RefilledOneMore(k) ==
  IF Expired(k)
    THEN Capped(Put(buckets, Mine(k),
                    [key |-> k, tokens |-> Limit + 1, lastRefill |-> now]), MaxBuckets)
    ELSE buckets

\* The buckets with a fresh one for a key that has none or whose window is over.
Refilled(k) ==
  IF Expired(k)
    THEN Capped(Put(buckets, Mine(k),
                    [key |-> k, tokens |-> Limit, lastRefill |-> now]), MaxBuckets)
    ELSE buckets

\* The tokens this request finds: those of its bucket, or a fresh bucket's when
\* its own was the one evicted.
Tokens(k) ==
  LET kept == {i \in DOMAIN Refilled(k) : Refilled(k)[i].key = k}
  IN  IF kept = {} THEN Limit ELSE Refilled(k)[CHOOSE i \in kept : TRUE].tokens

\* A request arrives, opens its tenant transaction and meets the limiter, which
\* refills, evicts, takes a token, and refuses with 429 when there was none.  That
\* and every later error becomes a response below the tenant middleware, whose
\* callback therefore resolves, and its transaction commits.
Arrive(r) ==
  /\ pc[r] = "idle"
  /\ \E input \in Inputs : LET k == input.apiKey IN
       /\ req' = [req EXCEPT ![r] = input]
       /\ buckets' = [j \in DOMAIN Refilled(k) |->
                        IF Refilled(k)[j].key = k
                          THEN [Refilled(k)[j] EXCEPT !.tokens = @ - 1] ELSE Refilled(k)[j]]
       /\ IF Tokens(k) > 0
            THEN /\ Goto(r, "lookup") /\ UNCHANGED answer
                 /\ admitted' = [admitted EXCEPT ![r] = now]
            ELSE /\ Goto(r, "commit") /\ Answer(r, "limited", r)
                 /\ UNCHANGED admitted
  /\ OpenTx(r)
  /\ before' = [before EXCEPT ![r] = {q \in Request : pc[q] = "done"}]
  /\ UNCHANGED <<now, store, result, log>>

\* A request whose `begin` throws: a savepoint was left open though the depth is 0.
ArriveRefused(r) ==
  /\ pc[r] = "idle"
  /\ SharedTx /\ ~Conn!Opens(depth + 1)
  /\ \E input \in Inputs : req' = [req EXCEPT ![r] = input]
  /\ Goto(r, "done")
  /\ Answer(r, "failed", r)
  /\ before' = [before EXCEPT ![r] = {q \in Request : pc[q] = "done"}]
  /\ UNCHANGED <<now, server, result, file, transactions, admitted, log>>

\* What get() finds among entries.
Hits(r, entries) == {e \in {entries[i] : i \in DOMAIN entries} : e.route = RouteOf(r)}

\* What the lookup decides once the body is read: run the handler, refuse
\* another body with 409, or replay.
Decide(r, entries) ==
  \/ Hits(r, entries) = {} /\ Goto(r, "handle") /\ UNCHANGED answer
  \/ \E e \in Hits(r, entries) :
       /\ e.body # req[r].body
       /\ Goto(r, "commit") /\ Answer(r, "conflict", e.by)
  \/ \E e \in Hits(r, entries) :
       /\ e.body = req[r].body
       /\ Goto(r, "commit") /\ Answer(r, "replay", e.by)

\* evictExpired(), whose failure is only logged, then get(); a failing get skips
\* the check, and nothing will be stored.
Fresh == {i \in DOMAIN store : now - store[i].at <= TTL}
Lookup(r) ==
  /\ pc[r] = "lookup"
  /\ \/ store' = Only(store, Fresh) /\ Decide(r, Only(store, Fresh))
     \/ "store" \in Faults /\ UNCHANGED store /\ Decide(r, store)
     \/ "store" \in Faults /\ UNCHANGED <<store, answer>> /\ Goto(r, "bypass")
  /\ UNCHANGED <<now, buckets, req, result, file, transactions, history>>

\* The record of a handler that succeeds: durable at once with a session of its
\* own, and on a connection whose transaction another request has ended.
Create(r) ==
  IF SharedTx THEN Conn!SqlWrite(r)
  ELSE records' = records \cup {r} /\ disk' = disk \cup {r} /\ UNCHANGED stack

\* What a handler that fails leaves: nothing, or on SQLite the savepoint of its
\* own transaction, which `rollback to` keeps.
Undo == \/ UNCHANGED file
        \/ SharedTx /\ Conn!SqlOpen(depth + 1)

\* The route handler: it creates its record, or ends in an error response, which
\* the framework's error handler turns into a response like any other.
Handle(r) ==
  /\ pc[r] \in {"handle", "bypass"}
  /\ \/ Create(r) /\ result' = [result EXCEPT ![r] = "created"]
     \/ Undo /\ result' = [result EXCEPT ![r] = "refused"]
  /\ IF pc[r] = "handle" THEN Goto(r, "save") /\ UNCHANGED answer
     ELSE Goto(r, "commit") /\ Answer(r, "ran", r)
  /\ UNCHANGED <<now, server, req, transactions, history>>

\* Where the store knows a request's route.
Known(r) == {i \in DOMAIN store : store[i].route = RouteOf(r)}

\* A slip: the size bound enforced one entry too early.
SavedTooFew(r) ==
  Capped(Put(store, Known(r),
             [route |-> RouteOf(r), body |-> req[r].body, by |-> r, at |-> now]), MaxStore - 1)

\* store.set(): insertion, then the size bound.
Saved(r) ==
  Capped(Put(store, Known(r),
             [route |-> RouteOf(r), body |-> req[r].body, by |-> r, at |-> now]), MaxStore)

\* The response is stored; a failing store is logged.
Save(r) ==
  /\ pc[r] = "save"
  /\ \/ /\ store' = Saved(r)
        /\ log' = Append(log, [by |-> r, at |-> now])
     \/ "store" \in Faults /\ UNCHANGED <<store, log>>
  /\ Answer(r, "ran", r)
  /\ Goto(r, "commit")
  /\ UNCHANGED <<now, buckets, req, result, file, transactions, before, admitted>>

\* The callback of the tenant transaction has resolved: it commits, or is released
\* into the transaction it is a savepoint of, and the answer goes out.  At level 1
\* this commits whatever is open.
Commit(r) ==
  /\ pc[r] = "commit" /\ TxKnown(r)
  /\ IF SharedTx THEN Conn!SqlCommit(level[r]) ELSE UNCHANGED file
  /\ LeaveTx
  /\ Goto(r, "done")
  /\ UNCHANGED <<now, server, req, result, answer, history>>

\* A slip: the error of the commit swallowed once rolled back.
CommitFailsQuietly(r) ==
  /\ "commit" \in Faults /\ pc[r] = "commit" /\ TxKnown(r) /\ Commits(r)
  /\ IF SharedTx THEN Conn!SqlRollback(level[r]) ELSE UNCHANGED file
  /\ LeaveTx
  /\ Goto(r, "done")
  /\ UNCHANGED <<now, server, req, result, answer, history>>

\* The commit is refused and the catch block rolls back: the answer becomes a 500.
\* On SQLite every record of the transaction is gone, also those of requests that
\* were released into it and answered, though their responses are stored.
CommitFails(r) ==
  /\ "commit" \in Faults /\ pc[r] = "commit" /\ TxKnown(r) /\ Commits(r)
  /\ IF SharedTx THEN Conn!SqlRollback(level[r]) ELSE UNCHANGED file
  /\ LeaveTx
  /\ Goto(r, "done")
  /\ Answer(r, "failed", r)
  /\ UNCHANGED <<now, server, req, result, history>>

\* Neither the release nor the rollback finds the savepoint, which went with the
\* transaction another request ended: a 500, whatever became of the record.
CommitLost(r) ==
  /\ pc[r] = "commit" /\ ~TxKnown(r)
  /\ LeaveTx
  /\ Goto(r, "done")
  /\ Answer(r, "failed", r)
  /\ UNCHANGED <<now, server, req, result, file, history>>

Tick == /\ now < MaxTime /\ now' = now + 1
        /\ UNCHANGED <<server, pc, req, result, answer, file, transactions, history>>

\* The process restarts: both Maps are empty, requests in flight get no answer, and
\* what was not committed is gone, whoever's it was.
Restart ==
  /\ "restart" \in Faults
  /\ \E r \in Request : pc[r] = "done"
  /\ buckets' = <<>> /\ store' = <<>>
  /\ log' = <<>> /\ admitted' = [r \in Request |-> Never]
  /\ pc' = [r \in Request |-> IF r \in Opened THEN "done" ELSE pc[r]]
  /\ answer' = [r \in Request |-> IF r \in Opened THEN [kind |-> "cut", by |-> r] ELSE answer[r]]
  /\ Conn!SqlLost /\ depth' = 0
  /\ UNCHANGED <<now, req, result, level, mixed, before>>

Next == \/ \E r \in Request :
             \/ Arrive(r) \/ ArriveRefused(r) \/ Lookup(r) \/ Handle(r) \/ Save(r)
             \/ Commit(r) \/ CommitFails(r) \/ CommitLost(r)
        \/ Tick \/ Restart

Spec == Init /\ [][Next]_vars
-----------------------------------------------------------------------------
(* Properties *)

Steps == {"idle", "lookup", "bypass", "handle", "save", "commit", "done"}
Kinds == {"limited", "conflict", "replay", "ran", "failed", "cut"}
Entry == [route : Seq(Org \cup IdemKey), body : Body, by : Request, at : 0..MaxTime]

TypeOK ==
  /\ now \in 0..MaxTime
  /\ buckets \in Seq([key : ApiKey, tokens : Int, lastRefill : 0..MaxTime])
  /\ store \in Seq(Entry)
  /\ Len(buckets) <= MaxBuckets /\ Len(store) <= MaxStore
  /\ pc \in [Request -> Steps]
  /\ req \in [Request -> Inputs \cup {NoRequest}]
  /\ result \in [Request -> {"none", "created", "refused"}]
  /\ answer \in [Request -> [kind : Kinds, by : Request] \cup {NoAnswer}]
  /\ records \subseteq Request /\ disk \subseteq Request /\ mixed \subseteq Request
  /\ stack \in Seq([name : Int, saved : SUBSET Request])
  /\ depth \in Int /\ level \in [Request -> Int]
  /\ before \in [Request -> SUBSET Request]
  /\ admitted \in [Request -> 0..MaxTime \cup {Never}]
  /\ log \in Seq([by : Request, at : 0..MaxTime])

SameRoute(q, r) == OrgOf[req[q].apiKey] = OrgOf[req[r].apiKey] /\ req[q].idemKey = req[r].idemKey

\* A replay repeats the response of a request of the same organization, key and
\* body, whose handler ran; a conflict names a request of the same organization and
\* key with another body.  No tenant sees another's response.  A replayed success
\* names a record in the database, unless the transaction of the request that made
\* it failed to commit after its response was stored, or was open on SQLite's
\* connection together with another's: then the record goes as the other's does.
ReplayIsTrue ==
  \A r \in Request :
    LET q == answer[r].by IN
    /\ answer[r].kind = "replay" =>
         /\ SameRoute(q, r) /\ req[q].body = req[r].body /\ result[q] # "none"
         /\ result[q] = "created" =>
              q \in records \/ answer[q].kind \in {"failed", "cut"} \/ q \in mixed
    /\ answer[r].kind = "conflict" =>
         SameRoute(q, r) /\ req[q].body # req[r].body /\ result[q] # "none"

\* How many other keys were stored since q's key first was, in this process.
First(q) == CHOOSE i \in DOMAIN log :
              /\ SameRoute(log[i].by, q)
              /\ \A j \in 1..(i - 1) : ~SameRoute(log[j].by, q)
Crowd(q) == {RouteOf(log[i].by) : i \in First(q)..Len(log)}

\* Whether the server should still know q's response.
Remembered(q) ==
  /\ \E i \in DOMAIN log : log[i].by = q /\ now - log[i].at <= TTL
  /\ Cardinality(Crowd(q)) <= MaxStore

\* A retry sent after the answer does not run the handler again while the server
\* should remember it: stored, not older than the TTL, in the same process, and
\* not pushed out by MaxStore newer keys.  Only a failing lookup runs it again.
AnsweredOnce ==
  [][\A q, r \in Request :
       /\ pc[r] = "handle" /\ pc'[r] = "save"
       /\ q \in before[r] /\ SameRoute(q, r)
       => ~Remembered(q)]_vars

\* A key never creates two records (docs/testing/security-e2e-matrix.md:60).
KeyCreatesOnce ==
  \A q, r \in records : SameRoute(q, r) /\ req[q].body = req[r].body => q = r

\* What a request was told it did stays done: its tenant transaction is "a real
\* transaction boundary" (core/src/adapters/interface.ts:10-11), not a part of
\* another request's.
AnsweredRecordsStay ==
  [][\A r \in records : pc[r] = "done" /\ answer[r].kind = "ran" => r \in records']_vars

\* The requests of a bucket's key that passed the limiter in its window.
InWindow(b) ==
  {r \in Request : /\ admitted[r] # Never /\ req[r].apiKey = b.key
                   /\ admitted[r] >= b.lastRefill
                   /\ admitted[r] < b.lastRefill + Window}

\* In the window of a bucket at most Limit requests of its key pass the limiter of
\* one process, when no bucket is evicted: an evicted key starts over with a full one.
WindowHoldsLimit ==
  Cardinality(ApiKey) <= MaxBuckets =>
    \A i \in DOMAIN buckets : Cardinality(InWindow(buckets[i])) <= Limit

=============================================================================
