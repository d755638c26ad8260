------------------------- MODULE CrmServicesProofs --------------------------
(***************************************************************************)
(* CrmServices for any number of calls, any organizations and any requests *)
(* that the schemas admit.  The inductive invariant (Inv) says of each     *)
(* call in flight what it knows at the step where it stands: what it will  *)
(* write, what it has read and, while no write has overtaken it, that the  *)
(* rows are still as it read them.                                         *)
(***************************************************************************)
EXTENDS CrmServices, NaturalExtremes, TLAPS

-----------------------------------------------------------------------------
(* Routes *)

\* What the proofs need of a route P of an operation op: it goes on until it writes
\* or deletes; only an update reads its row, before everything that rests on it;
\* what is written by an update has been selected.
Before(P, k, step) == \E j \in DOMAIN P : j < k /\ P[j] = step

GoesOn(P) ==
  /\ DOMAIN P \subseteq Nat \ {0} /\ 1 \in DOMAIN P
  /\ \A k \in DOMAIN P : P[k] \notin {"write", "delete"} => k + 1 \in DOMAIN P
  /\ \A k \in DOMAIN P : P[k] = "read" => \A j \in DOMAIN P : j <= k => P[j] \notin {"events", "select"}
  /\ \A k \in DOMAIN P : P[k] \in {"unique", "children", "defaults", "select", "relations"} => P[k + 1] # "relations"
  /\ \A k \in DOMAIN P : P[k] = "defaults" => \A j \in DOMAIN P : j <= k => P[j] # "select"
  /\ \A k \in DOMAIN P : P[k] = "write" /\ Before(P, k, "defaults") => Before(P, k, "select")

FitsOp(P, op) ==
  /\ op \in {"create", "update", "delete"}
  /\ \A k \in DOMAIN P : P[k] = "read" => op = "update"
  /\ \A k \in DOMAIN P : P[k] = "delete" => op = "delete"
  /\ \A k \in DOMAIN P : P[k] = "write" => op # "delete"
  /\ op = "create" => \A k \in DOMAIN P : P[k] \notin {"read", "events"}
  /\ op = "update" =>
       \A k \in DOMAIN P : /\ P[k] \in {"events", "select", "write"} => Before(P, k, "read")
                           /\ P[k] = "write" => Before(P, k, "select")

FitsTable(P, op, table, given) ==
  /\ \A k \in DOMAIN P : P[k] = "defaults" =>
       table = "pipelines" /\ "isDefault" \in DOMAIN given /\ given.isDefault # Null
  /\ table \in {"steps", "enrollments"} /\ op = "update" =>
       \A k \in DOMAIN P : P[k] = "write" => Before(P, k, "events")
  /\ table = "events" => op = "create" /\ P = <<"relations", "write">>
  /\ table = "deals" =>
       \/ op = "create" /\ P = <<"relations", "write">>
       \/ op = "update" /\ P = <<"read", "relations", "select", "write">>
       \/ op = "delete" /\ P = <<"select", "delete">>

RouteFits(table, given, op) ==
  LET P == Plan(table, given)[op] IN GoesOn(P) /\ FitsOp(P, op) /\ FitsTable(P, op, table, given)

LEMMA RoutesFit ==
  ASSUME NEW table \in Tables, NEW given, NEW op \in DOMAIN Plan(table, given)
  PROVE  RouteFits(table, given, op)
<1> DEFINE plan == Plan(table, given)
<1>1. CASE plan = PaymentPlan /\ table = "payments"
  BY <1>1 DEF RouteFits, PaymentPlan, GoesOn, FitsOp, FitsTable, Before
<1>2. CASE plan = StepPlan /\ table = "steps"
  BY <1>2 DEF RouteFits, StepPlan, GoesOn, FitsOp, FitsTable, Before
<1>3. CASE plan = EnrollmentPlan /\ table = "enrollments"
  BY <1>3 DEF RouteFits, EnrollmentPlan, GoesOn, FitsOp, FitsTable, Before
<1>4. CASE plan = SequencePlan /\ table = "sequences"
  BY <1>4 DEF RouteFits, SequencePlan, GoesOn, FitsOp, FitsTable, Before
<1>5. CASE plan = TagPlan /\ table = "tags"
  BY <1>5 DEF RouteFits, TagPlan, GoesOn, FitsOp, FitsTable, Before
<1>6. CASE plan = EventPlan /\ table = "events"
  BY <1>6 DEF RouteFits, EventPlan, GoesOn, FitsOp, FitsTable, Before
<1>7. CASE plan = EntityTagPlan /\ table = "entityTags"
  BY <1>7 DEF RouteFits, EntityTagPlan, GoesOn, FitsOp, FitsTable, Before
<1>8. CASE plan = DefaultPlan /\ table = "pipelines" /\ "isDefault" \in DOMAIN given /\ given.isDefault # Null
  BY <1>8 DEF RouteFits, DefaultPlan, GoesOn, FitsOp, FitsTable, Before
<1>9. CASE plan = PlainPlan /\ table \notin {"steps", "enrollments", "events"}
  BY <1>9 DEF RouteFits, PlainPlan, GoesOn, FitsOp, FitsTable, Before
<1> QED
  BY <1>1, <1>2, <1>3, <1>4, <1>5, <1>6, <1>7, <1>8, <1>9 DEF Plan, Tables, Columns

-----------------------------------------------------------------------------
(* What the rules decide *)

LEMMA FirstIsIn ==
  ASSUME NEW todo, todo # {}, \A w \in todo : w.col \in ReferenceColumns
  PROVE  /\ FirstOf(todo) \in todo
         /\ \A v \in todo : Place[FirstOf(todo).col] <= Place[v.col]
<1> DEFINE places == {Place[w.col] : w \in todo}
<1>1. places \subseteq Nat /\ places # {}
  BY DEF Place, ReferenceColumns, Refers
<1>2. PICK p \in places : \A q \in places : p <= q
  BY <1>1, LeastOf
<1>3. \E w \in todo : \A v \in todo : Place[w.col] <= Place[v.col]
  BY <1>2
<1> QED
  BY <1>3 DEF FirstOf

LEMMA CreateFits ==
  ASSUME NEW table \in Tables, NEW given, StatusAdmitted(table, given, NoRow)
  PROVE  StampFits(table, FreshRow(table, given))
<1> DEFINE status == After("status", given, NoRow)
           stamp == Stamp(table, given, NoRow)
           row == FreshRow(table, given)
<1>1. CASE table \notin StatusTables
  BY <1>1 DEF StampFits, StatusTables, Dated
<1>2. CASE table \in StatusTables
  <2>1. "status" \in Columns[table] /\ "stamp" \in Columns[table]
    BY <1>2 DEF StatusTables, Columns, TaskColumns, PaymentColumns, ContractColumns, ImportColumns,
                EnrollmentColumns
  <2>2. row.status = status /\ row.stamp = stamp
    BY <1>2, <2>1 DEF FreshRow, StatusPatch, With, After, NoRow
  <2>3. StateFits(table, status, stamp) /\ MoveAllowed(table, Null, status)
    BY <1>2 DEF StatusAdmitted, NoRow
  <2>4. table \in DOMAIN Dated => (stamp # Null <=> status \in Dated[table])
    <3>1. CASE table = "payments"
      BY <3>1, <2>3, ValueAssumption
         DEF Dated, StateFits, Stamp, ResolveDate, NoRow, MoveAllowed, Moves, PaymentMoves
    <3>2. CASE table = "contracts"
      BY <3>2, <2>3, ValueAssumption
         DEF Dated, StateFits, Stamp, ResolveDate, NoRow, MoveAllowed, Moves, ContractMoves
    <3>3. CASE table = "imports"
      BY <3>3, <2>3, ValueAssumption DEF Dated, StateFits, Stamp
    <3> QED
      BY <3>1, <3>2, <3>3 DEF Dated
  <2> QED
    BY <2>2, <2>3, <2>4, <1>2 DEF StampFits
<1> QED
  BY <1>1, <1>2

LEMMA UpdateMoves ==
  ASSUME NEW table \in StatusTables, NEW given, NEW row, DOMAIN row = Columns[table],
         StatusAdmitted(table, given, row)
  PROVE  MoveAllowed(table, row.status, Overlay(Patch(table, given, row), row).status)
<1>1. "status" \in DOMAIN row
  BY DEF StatusTables, Columns, TaskColumns, PaymentColumns, ContractColumns, ImportColumns, EnrollmentColumns
<1>2. Patch(table, given, row) = StatusPatch(table, given, row)
  BY DEF Patch, DealPatch, StatusTables
<1>3. Overlay(Patch(table, given, row), row).status = After("status", given, row)
  BY <1>1, <1>2 DEF Overlay, StatusPatch, With, After
<1> QED
  BY <1>3 DEF StatusAdmitted

LEMMA UpdateFits ==
  ASSUME NEW table \in StatusTables, NEW given, NEW row, DOMAIN row = Columns[table],
         StampFits(table, row), StatusAdmitted(table, given, row)
  PROVE  StampFits(table, Overlay(Patch(table, given, row), row))
<1> DEFINE status == After("status", given, row)
           stamp == Stamp(table, given, row)
           new == Overlay(Patch(table, given, row), row)
<1>1. "status" \in DOMAIN row /\ "stamp" \in DOMAIN row
  BY DEF StatusTables, Columns, TaskColumns, PaymentColumns, ContractColumns, ImportColumns, EnrollmentColumns
<1>2. Patch(table, given, row) = StatusPatch(table, given, row)
  BY DEF Patch, DealPatch, StatusTables
<1>3. new.status = status /\ new.stamp = stamp
  BY <1>1, <1>2 DEF Overlay, StatusPatch, With, After
<1>4. StateFits(table, status, stamp) /\ MoveAllowed(table, row.status, status)
  BY DEF StatusAdmitted
<1>5. table \in DOMAIN Dated => (stamp # Null <=> status \in Dated[table])
  <2>1. CASE table = "payments"
    BY <2>1, <1>4, ValueAssumption
       DEF Dated, StampFits, StateFits, Stamp, ResolveDate, MoveAllowed, Moves, PaymentMoves
  <2>2. CASE table = "contracts"
    BY <2>2, <1>4, ValueAssumption
       DEF Dated, StampFits, StateFits, Stamp, ResolveDate, MoveAllowed, Moves, ContractMoves
  <2>3. CASE table = "imports"
    BY <2>3, <1>4, ValueAssumption DEF Dated, StateFits, Stamp
  <2> QED
    BY <2>1, <2>2, <2>3 DEF Dated
<1> QED
  BY <1>3, <1>4, <1>5 DEF StampFits

\* What an update writes in a column that no rule decides.
LEMMA UpdateGives ==
  ASSUME NEW table \in Tables, table # "deals", NEW given, NEW row, NEW col \in DOMAIN row, col # "stamp"
  PROVE  Overlay(Patch(table, given, row), row)[col] = After(col, given, row)
<1>1. Patch(table, given, row) = StatusPatch(table, given, row)
  BY DEF Patch, DealPatch
<1>2. /\ col \in DOMAIN StatusPatch(table, given, row) <=> col \in DOMAIN given
      /\ col \in DOMAIN given => StatusPatch(table, given, row)[col] = given[col]
  BY DEF StatusPatch, With
<1> QED
  BY <1>1, <1>2 DEF Overlay, After

-----------------------------------------------------------------------------
(* The inductive invariant: a call k of c, over the rows db and the calls that are *)
(* overtaken.                                                                      *)

Kind(k) == TableOf[k.req.id]
Given(k) == k.req.given
Stands(k, step) == k.at # 0 /\ Route(k.req)[k.at] = step
Past(k, step) == Before(Route(k.req), k.at, step)
Updates(k, step) == k.req.op = "update" /\ Past(k, step)

\* A call has what its next step needs.
CallShape(k, asks) ==
  /\ k.req \in asks /\ k.at \in DOMAIN Route(k.req)
  /\ \A w \in k.todo : w.col \in ReferenceColumns
  /\ Stands(k, "relations") => k.todo # {}
  /\ \A j \in DOMAIN k.others : Past(k, "defaults") /\ j \in Id /\ TableOf[j] = "pipelines"
  /\ Past(k, "select") => \A j \in DOMAIN k.others : IsRow(j, k.others[j])
  /\ k.req.op = "create" => IsRow(k.req.id, k.patch)
  /\ Updates(k, "read") => DOMAIN k.patch \subseteq Columns[Kind(k)]
  /\ Updates(k, "select") => IsRow(k.req.id, k.seen)

\* A deal's patch has both columns of its pair or neither; a stage still to be looked
\* up is the one it will write.
Graphs(k) == Kind(k) = "deals" /\ (k.req.op = "create" \/ Updates(k, "read"))

DealShape(k) ==
  Graphs(k) =>
    /\ \A w \in k.todo : w.col = "stageId" => "stageId" \in DOMAIN k.patch /\ w.id = k.patch.stageId
    /\ "stageId" \in DOMAIN k.patch <=> "pipelineId" \in DOMAIN k.patch

\* ... and, when nothing has overtaken it, the stage it has looked up is of the
\* pipeline it will write.
StageFound(k, db) ==
  LET s == k.patch.stageId IN
  /\ s \in DOMAIN db /\ TableOf[s] = "stages" /\ RowRead(s) \in k.watched
  /\ db[s].pipelineId = k.patch.pipelineId

StageToDo(k) == Stands(k, "relations") /\ \E w \in k.todo : w.col = "stageId"

DealHeld(k, db) ==
  Graphs(k) /\ "stageId" \in DOMAIN k.patch =>
    k.patch.stageId = Null \/ StageToDo(k) \/ StageFound(k, db)

\* What a create writes is what its rules admitted.
FreshHeld(k) ==
  k.req.op = "create" =>
    /\ Admitted(Kind(k), Given(k), NoRow)
    /\ Kind(k) # "deals" => k.patch = FreshRow(Kind(k), Given(k))

\* An update that nothing has overtaken: its row is as it was read.
RowHeld(k, db) ==
  LET i == k.req.id IN
  /\ Updates(k, "read") => /\ i \in DOMAIN db /\ RowRead(i) \in k.watched
                           /\ Admitted(Kind(k), Given(k), db[i])
                           /\ Kind(k) # "deals" => k.patch = Patch(Kind(k), Given(k), db[i])
  /\ Updates(k, "select") => k.seen = db[i]

EventsOf(db, i) == {e \in DOMAIN db : TableOf[e] = "events" /\ i \in {db[e].enrollmentId, db[e].stepId}}

\* ... and a step or an enrollment past its guard stays where it is or has no events.
HistoryHeld(k, db) ==
  LET i == k.req.id IN
  Kind(k) \in {"steps", "enrollments"} /\ Updates(k, "events") =>
    \/ ~Reparents(Kind(k), Given(k), db[i])
    \/ EventsRead(i) \in k.watched /\ EventsOf(db, i) = {}

\* An event past a check of a reference has found it in its table.
Lacks(k, col) == \A w \in k.todo : w.col # col
HasStep(k) == "stepId" \in DOMAIN Given(k) /\ Given(k).stepId # Null

EventFound(k) ==
  Kind(k) = "events" =>
    /\ k.todo \subseteq ToCheck("events", Given(k), NoRow)
    /\ ~Stands(k, "relations") => k.todo = {}
    /\ Lacks(k, "enrollmentId") => TableOf[Given(k).enrollmentId] = "enrollments"
    /\ HasStep(k) /\ Lacks(k, "stepId") =>
         Lacks(k, "enrollmentId") /\ TableOf[Given(k).stepId] = "steps"

\* ... and, when nothing has overtaken it, the two are of one sequence.
EventHeld(k, db) ==
  LET en == Given(k).enrollmentId
      st == Given(k).stepId IN
  Kind(k) = "events" /\ Lacks(k, "enrollmentId") =>
    /\ en \in DOMAIN db /\ RowRead(en) \in k.watched
    /\ ~Lacks(k, "stepId") => k.seen = db[en]
    /\ HasStep(k) /\ Lacks(k, "stepId") =>
         st \in DOMAIN db /\ RowRead(st) \in k.watched /\ db[st].sequenceId = db[en].sequenceId

\* What a call knows whatever the others do, and while none has overtaken it.
Sound(k, asks) == CallShape(k, asks) /\ DealShape(k) /\ FreshHeld(k) /\ EventFound(k)
Fresh(k, db) == RowHeld(k, db) /\ HistoryHeld(k, db) /\ EventHeld(k, db) /\ DealHeld(k, db)

CallHeld(c, k, asks, db, overtaken) ==
  /\ DOMAIN k = DOMAIN Idle
  /\ k.at # 0 => Sound(k, asks) /\ (c \notin overtaken => Fresh(k, db))

Creates(k) == k.at # 0 /\ k.req.op = "create"

\* Ids are never reused.
BirthsInv ==
  /\ DOMAIN rows \subseteq born
  /\ \A c \in Call : Creates(call[c]) => Asked(c).id \notin born
  /\ \A c, d \in Call : c # d /\ Creates(call[c]) /\ Creates(call[d]) => Asked(c).id # Asked(d).id

RowsInv ==
  /\ world \in DOMAIN Worlds
  /\ DOMAIN rows \subseteq Id /\ Accepts(rows, Worlds[world].foreignKeys)
  /\ \A i \in DOMAIN rows : IsRow(i, rows[i]) /\ (TableOf[i] = "events" => PointsRight(rows[i]))

Held(c) == CallHeld(c, call[c], Worlds[world].asks, rows, stale)

CallsInv == DOMAIN call = Call /\ \A c \in Call : Held(c)

Inv == RowsInv /\ BirthsInv /\ CallsInv /\ StampFitsStatus

-----------------------------------------------------------------------------
(* A call takes a step *)

LEMMA Overlaid ==
  ASSUME NEW f, NEW g, NEW x
  PROVE  /\ x \in DOMAIN f => Overlay(f, g)[x] = f[x]
         /\ x \in DOMAIN g /\ x \notin DOMAIN f => Overlay(f, g)[x] = g[x]
         /\ DOMAIN Overlay(f, g) = DOMAIN f \cup DOMAIN g
BY DEF Overlay

LEMMA GoesTo ==
  ASSUME NEW c \in Call, DOMAIN call = Call, NEW change, Goes(c, change)
  PROVE  /\ DOMAIN call' = Call
         /\ \A d \in Call : d # c => call'[d] = call[d]
         /\ call'[c] = Overlay(change, call[c])
BY DEF Goes

LEMMA Settled ==
  ASSUME NEW c \in Call, DOMAIN call = Call, NEW result, Settle(c, result)
  PROVE  /\ DOMAIN call' = Call
         /\ \A d \in Call : d # c => call'[d] = call[d]
         /\ DOMAIN call'[c] = DOMAIN Idle /\ call'[c].at = 0
BY DEF Settle, Idle

LEMMA AsksFit ==
  ASSUME RowsInv, NEW ask \in Worlds[world].asks
  PROVE  /\ ask.id \in Id /\ TableOf[ask.id] \in Tables
         /\ DOMAIN ask.given \subseteq Columns[TableOf[ask.id]]
         /\ TableOf[ask.id] = "events" => "enrollmentId" \in DOMAIN ask.given /\ ask.given.enrollmentId # Null
         /\ GoesOn(Route(ask)) /\ FitsOp(Route(ask), ask.op)
         /\ FitsTable(Route(ask), ask.op, TableOf[ask.id], ask.given)
<1>1. Parsed(ask)
  BY WorldAssumption DEF RowsInv
<1>2. TableOf[ask.id] \in Tables
  BY <1>1, TableAssumption DEF Parsed
<1>3. RouteFits(TableOf[ask.id], ask.given, ask.op)
  BY <1>1, <1>2, RoutesFit DEF Parsed
<1> QED
  BY <1>1, <1>2, <1>3 DEF Parsed, RouteFits, Route

\* What was behind a step, and the step itself, are behind the next.
LEMMA BehindNext ==
  ASSUME NEW P, GoesOn(P), NEW k \in DOMAIN P, NEW step
  PROVE  Before(P, k + 1, step) <=> Before(P, k, step) \/ P[k] = step
BY DEF GoesOn, Before

\* A step that writes nothing keeps the invariant when its call does.
LEMMA QuietStep ==
  ASSUME Inv, NEW c \in Call, UNCHANGED Database, DOMAIN call' = Call,
         \A d \in Call : d # c => call'[d] = call[d],
         CallHeld(c, call'[c], Worlds[world].asks, rows, stale),
         Creates(call'[c]) =>
           \/ Creates(call[c]) /\ call'[c].req.id = Asked(c).id
           \/ call'[c].req.id \notin born /\ \A d \in Call : Creates(call[d]) => Asked(d).id # call'[c].req.id
  PROVE  Inv'
<1>1. /\ world' = world /\ rows' = rows /\ stale' = stale /\ born' = born /\ raced' = raced
  BY DEF Database, history
<1>2. RowsInv' /\ StampFitsStatus'
  BY <1>1 DEF Inv, RowsInv, StampFitsStatus
<1>3. CallsInv'
  BY <1>1 DEF Inv, CallsInv, Held
<1>4. BirthsInv'
  <2>1. ASSUME NEW d \in Call, Creates(call'[d]) PROVE call'[d].req.id \notin born
    BY <2>1 DEF Inv, BirthsInv, Asked
  <2>2. ASSUME NEW d \in Call, NEW e \in Call, d # e, Creates(call'[d]), Creates(call'[e])
        PROVE  call'[d].req.id # call'[e].req.id
    BY <2>2 DEF Inv, BirthsInv, Asked
  <2> QED
    BY <1>1, <2>1, <2>2 DEF BirthsInv, Asked, Inv
<1> QED
  BY <1>2, <1>3, <1>4 DEF Inv

\* A call that settles without a write.
LEMMA RefusedStep ==
  ASSUME Inv, NEW c \in Call, UNCHANGED Database, NEW result, Settle(c, result)
  PROVE  Inv'
<1>1. CallHeld(c, call'[c], Worlds[world].asks, rows, stale) /\ ~Creates(call'[c])
  BY Settled DEF CallHeld, Creates, Inv, CallsInv
<1> QED
  BY <1>1, Settled, QuietStep DEF Inv, CallsInv

\* The facts about a call in flight that every step starts from.
LEMMA InFlightFacts ==
  ASSUME Inv, NEW c \in Call, InFlight(c)
  PROVE  LET k == call[c] IN
         /\ DOMAIN k = DOMAIN Idle /\ CallHeld(c, k, Worlds[world].asks, rows, stale)
         /\ CallShape(k, Worlds[world].asks) /\ DealShape(k) /\ FreshHeld(k) /\ EventFound(k)
         /\ c \notin stale =>
              RowHeld(k, rows) /\ HistoryHeld(k, rows) /\ EventHeld(k, rows) /\ DealHeld(k, rows)
         /\ GoesOn(Route(k.req)) /\ FitsOp(Route(k.req), k.req.op)
         /\ FitsTable(Route(k.req), k.req.op, Kind(k), Given(k))
         /\ k.req.id \in Id /\ Kind(k) \in Tables /\ k.at \in DOMAIN Route(k.req)
<1>1. CallHeld(c, call[c], Worlds[world].asks, rows, stale)
  BY DEF Inv, CallsInv, Held
<1>2. Sound(call[c], Worlds[world].asks) /\ (c \notin stale => Fresh(call[c], rows))
  BY <1>1 DEF CallHeld, InFlight
<1> QED
  BY <1>1, <1>2, AsksFit DEF Sound, Fresh, CallHeld, InFlight, CallShape, Inv, Kind, Given
\* ... and the step before the last, which leaves what the call knows as it is.
LEMMA Advanced ==
  ASSUME Inv, NEW c \in Call, InFlight(c), NEW k, DOMAIN k = DOMAIN Idle,
         Route(Asked(c))[call[c].at] \in {"unique", "children", "defaults"}, k.at = call[c].at + 1,
         k.req = call[c].req, k.todo = call[c].todo, k.patch = call[c].patch, k.seen = call[c].seen,
         k.watched = call[c].watched,
         \/ k.others = call[c].others
         \/ /\ Route(Asked(c))[call[c].at] = "defaults"
            /\ \A j \in DOMAIN k.others : j \in Id /\ TableOf[j] = "pipelines"
  PROVE  CallHeld(c, k, Worlds[world].asks, rows, stale)
<1> DEFINE o == call[c]
           P == Route(o.req)
<1>1. /\ CallShape(o, Worlds[world].asks) /\ DealShape(o) /\ FreshHeld(o) /\ EventFound(o)
      /\ c \notin stale =>
           RowHeld(o, rows) /\ HistoryHeld(o, rows) /\ EventHeld(o, rows) /\ DealHeld(o, rows)
      /\ GoesOn(P) /\ FitsOp(P, o.req.op) /\ FitsTable(P, o.req.op, Kind(o), Given(o))
      /\ o.at \in DOMAIN P
  BY InFlightFacts
<1>2. P[o.at] \in {"unique", "children", "defaults"} /\ k.at = o.at + 1 /\ k.at \in DOMAIN P /\ k.at # 0
  BY <1>1 DEF Asked, GoesOn
<1>3. /\ \A step : Past(k, step) <=> Past(o, step) \/ P[o.at] = step
      /\ ~Stands(k, "relations") /\ ~Stands(o, "relations")
      /\ Kind(k) = Kind(o) /\ Given(k) = Given(o)
  BY <1>1, <1>2, BehindNext DEF Past, Stands, Kind, Given, GoesOn
<1>4. P[o.at] = "defaults" => ~Past(k, "select")
  BY <1>1, <1>2, <1>3 DEF GoesOn, Past, Before
<1>5. CallShape(k, Worlds[world].asks)
  BY <1>1, <1>2, <1>3, <1>4 DEF CallShape, Updates, Asked
<1>6. DealShape(k)
  BY <1>1, <1>2, <1>3 DEF DealShape, Graphs, Updates
<1>7. FreshHeld(k) /\ EventFound(k)
  BY <1>1, <1>2, <1>3 DEF FreshHeld, EventFound, HasStep, Lacks
<1>8. ASSUME c \notin stale PROVE Fresh(k, rows)
  <2>1. RowHeld(k, rows) /\ HistoryHeld(k, rows) /\ EventHeld(k, rows)
    BY <1>1, <1>2, <1>3, <1>8 DEF RowHeld, HistoryHeld, EventHeld, HasStep, Lacks, Updates
  <2>2. DealHeld(k, rows)
    BY <1>1, <1>2, <1>3, <1>8 DEF DealHeld, Graphs, StageToDo, StageFound, Updates
  <2> QED
    BY <2>1, <2>2 DEF Fresh
<1> QED
  BY <1>5, <1>6, <1>7, <1>8 DEF CallHeld, Sound, Fresh

LEMMA CheckUniqueKeeps ==
  ASSUME Inv, NEW c \in Call, CheckUnique(c)
  PROVE  Inv'
<1>1. CASE Settle(c, "refused")
  BY <1>1, RefusedStep DEF CheckUnique
<1>2. CASE Advance(c)
  <2>1. DOMAIN call = Call /\ DOMAIN call[c] = DOMAIN Idle /\ InFlight(c)
    BY InFlightFacts DEF CheckUnique, At, Inv, CallsInv
  <2>2. /\ call'[c] = Overlay([at |-> Rest(c)], call[c]) /\ DOMAIN call' = Call
        /\ \A d \in Call : d # c => call'[d] = call[d]
    BY <1>2, <2>1, GoesTo DEF Advance
  <2>3. /\ DOMAIN call'[c] = DOMAIN Idle /\ call'[c].at = call[c].at + 1
        /\ call'[c].req = call[c].req /\ call'[c].todo = call[c].todo /\ call'[c].patch = call[c].patch
        /\ call'[c].seen = call[c].seen /\ call'[c].watched = call[c].watched /\ call'[c].others = call[c].others
    BY <2>1, <2>2 DEF Overlay, Idle, Rest
  <2>4. CallHeld(c, call'[c], Worlds[world].asks, rows, stale)
    BY <2>1, <2>3, Advanced DEF CheckUnique, At
  <2> QED
    BY <2>1, <2>2, <2>3, <2>4, QuietStep DEF CheckUnique, Creates, Asked, InFlight
<1> QED
  BY <1>1, <1>2 DEF CheckUnique
LEMMA CheckChildrenKeeps ==
  ASSUME Inv, NEW c \in Call, CheckChildren(c)
  PROVE  Inv'
<1>1. CASE Settle(c, "refused")
  BY <1>1, RefusedStep DEF CheckChildren
<1>2. CASE Advance(c)
  <2>1. DOMAIN call = Call /\ DOMAIN call[c] = DOMAIN Idle /\ InFlight(c)
    BY InFlightFacts DEF CheckChildren, At, Inv, CallsInv
  <2>2. /\ call'[c] = Overlay([at |-> Rest(c)], call[c]) /\ DOMAIN call' = Call
        /\ \A d \in Call : d # c => call'[d] = call[d]
    BY <1>2, <2>1, GoesTo DEF Advance
  <2>3. /\ DOMAIN call'[c] = DOMAIN Idle /\ call'[c].at = call[c].at + 1
        /\ call'[c].req = call[c].req /\ call'[c].todo = call[c].todo /\ call'[c].patch = call[c].patch
        /\ call'[c].seen = call[c].seen /\ call'[c].watched = call[c].watched /\ call'[c].others = call[c].others
    BY <2>1, <2>2 DEF Overlay, Idle, Rest
  <2>4. CallHeld(c, call'[c], Worlds[world].asks, rows, stale)
    BY <2>1, <2>3, Advanced DEF CheckChildren, At
  <2> QED
    BY <2>1, <2>2, <2>3, <2>4, QuietStep DEF CheckChildren, Creates, Asked, InFlight
<1> QED
  BY <1>1, <1>2 DEF CheckChildren

LEMMA ListDefaultsKeeps ==
  ASSUME Inv, NEW c \in Call, ListDefaults(c)
  PROVE  Inv'
<1> DEFINE defaults == {j \in DOMAIN rows : TableOf[j] = "pipelines" /\ rows[j].isDefault # Null}
           others == [j \in defaults \ {Asked(c).id} |-> Nothing]
<1>1. DOMAIN call = Call /\ DOMAIN call[c] = DOMAIN Idle /\ InFlight(c)
  BY InFlightFacts DEF ListDefaults, At, Inv, CallsInv
<1>2. /\ call'[c] = Overlay([at |-> Rest(c), others |-> others], call[c]) /\ DOMAIN call' = Call
      /\ \A d \in Call : d # c => call'[d] = call[d]
  BY <1>1, GoesTo DEF ListDefaults
<1>3. /\ DOMAIN call'[c] = DOMAIN Idle /\ call'[c].at = call[c].at + 1
      /\ call'[c].req = call[c].req /\ call'[c].todo = call[c].todo /\ call'[c].patch = call[c].patch
      /\ call'[c].seen = call[c].seen /\ call'[c].watched = call[c].watched /\ call'[c].others = others
  BY <1>1, <1>2 DEF Overlay, Idle, Rest
<1>4. \A j \in DOMAIN others : j \in Id /\ TableOf[j] = "pipelines"
  BY DEF Inv, RowsInv
<1>5. Route(Asked(c))[call[c].at] = "defaults"
  BY DEF ListDefaults, At
<1> HIDE DEF others
<1>6. CallHeld(c, call'[c], Worlds[world].asks, rows, stale)
  BY <1>1, <1>3, <1>4, <1>5, Advanced
<1> QED
  BY <1>1, <1>2, <1>3, <1>6, QuietStep DEF ListDefaults, Creates, Asked, InFlight

\* The step from the lookup of references: those still to be looked up, or the next
\* step when there are none.
LEMMA Looked ==
  ASSUME Inv, NEW c \in Call, At(c, "relations"), NEW k, DOMAIN k = DOMAIN Idle,
         k.req = call[c].req, k.others = call[c].others,
         \/ k.at = call[c].at /\ k.todo # {}
         \/ k.at = call[c].at + 1 /\ k.todo = {},
         \A w \in k.todo : w.col \in ReferenceColumns
  PROVE  LET o == call[c] IN
         /\ k.at \in DOMAIN Route(k.req) /\ k.at # 0 /\ Kind(k) = Kind(o) /\ Given(k) = Given(o)
         /\ \A step : step # "relations" => (Past(k, step) <=> Past(o, step))
         /\ Stands(o, "relations") /\ (Stands(k, "relations") => k.todo # {})
         /\ k.todo # {} => Stands(k, "relations")
         /\ k.patch = o.patch /\ (k.seen = o.seen \/ o.req.op = "create") => CallShape(k, Worlds[world].asks)
<1> DEFINE o == call[c]
           P == Route(o.req)
<1>1. /\ CallShape(o, Worlds[world].asks) /\ GoesOn(P) /\ o.at \in DOMAIN P /\ P[o.at] = "relations"
      /\ o.at # 0 /\ FitsOp(P, o.req.op)
  BY InFlightFacts DEF At, Asked, InFlight
<1>2. k.at \in DOMAIN P /\ k.at # 0
  BY <1>1 DEF GoesOn
<1>3. \A step : step # "relations" => (Past(k, step) <=> Past(o, step))
  BY <1>1, BehindNext DEF Past
<1>4. Stands(o, "relations") /\ (k.todo # {} => Stands(k, "relations"))
  BY <1>1 DEF Stands
<1>5. Stands(k, "relations") => k.todo # {}
  BY <1>1, <1>2 DEF Stands, GoesOn
<1>6. Kind(k) = Kind(o) /\ Given(k) = Given(o)
  BY DEF Kind, Given
<1>7. ASSUME k.patch = o.patch, k.seen = o.seen \/ o.req.op = "create" PROVE CallShape(k, Worlds[world].asks)
  BY <1>1, <1>2, <1>3, <1>5, <1>6, <1>7 DEF CallShape, Updates
<1> QED
  BY <1>2, <1>3, <1>4, <1>5, <1>6, <1>7
LEMMA CheckRelationKeeps ==
  ASSUME Inv, NEW c \in Call, CheckRelation(c)
  PROVE  Inv'
<1>1. CASE Settle(c, "refused")
  BY <1>1, RefusedStep DEF CheckRelation
<1>2. CASE Goes(c, [todo |-> Left(c), at |-> Onward(c, Left(c))])
  <2> DEFINE o == call[c]
             k == call'[c]
  <2>1. DOMAIN call = Call /\ DOMAIN o = DOMAIN Idle /\ InFlight(c) /\ At(c, "relations") /\ Plain(c)
    BY InFlightFacts DEF CheckRelation, At, Inv, CallsInv
  <2>2. /\ k = Overlay([todo |-> Left(c), at |-> Onward(c, Left(c))], o) /\ DOMAIN call' = Call
        /\ \A d \in Call : d # c => call'[d] = call[d]
    BY <1>2, <2>1, GoesTo
  <2>3. /\ DOMAIN k = DOMAIN Idle /\ k.at = Onward(c, Left(c)) /\ k.todo = o.todo \ {Sought(c)}
        /\ k.req = o.req /\ k.patch = o.patch /\ k.seen = o.seen /\ k.watched = o.watched /\ k.others = o.others
    BY <2>1, <2>2 DEF Overlay, Idle, Left
  <2>4. \/ k.at = o.at /\ k.todo # {}
        \/ k.at = o.at + 1 /\ k.todo = {}
    BY <2>3 DEF Onward, Left, Rest
  <2>5. /\ CallShape(o, Worlds[world].asks) /\ DealShape(o) /\ FreshHeld(o) /\ EventFound(o)
        /\ c \notin stale =>
             RowHeld(o, rows) /\ HistoryHeld(o, rows) /\ EventHeld(o, rows) /\ DealHeld(o, rows)
    BY <2>1, InFlightFacts
  <2> HIDE DEF k
  <2>6. \A w \in k.todo : w.col \in ReferenceColumns
    BY <2>3, <2>5 DEF CallShape
  <2>7. /\ k.at # 0 /\ Kind(k) = Kind(o) /\ Given(k) = Given(o)
        /\ \A step : step # "relations" => (Past(k, step) <=> Past(o, step))
        /\ k.todo # {} => Stands(k, "relations")
        /\ CallShape(k, Worlds[world].asks)
    BY <2>1, <2>3, <2>4, <2>6, Looked
  <2>8. Kind(o) # "events" /\ (Kind(o) = "deals" => Sought(c).col # "stageId")
    BY <2>1 DEF Plain, Table, Asked, Kind
  <2>9. DealShape(k) /\ (Graphs(k) <=> Graphs(o))
    BY <2>3, <2>5, <2>7 DEF DealShape, Graphs, Updates
  <2>10. FreshHeld(k) /\ EventFound(k)
    BY <2>3, <2>5, <2>7, <2>8 DEF FreshHeld, EventFound
  <2>11. ASSUME c \notin stale PROVE Fresh(k, rows)
    <3>1. RowHeld(k, rows) /\ HistoryHeld(k, rows) /\ EventHeld(k, rows)
      BY <2>3, <2>5, <2>7, <2>8, <2>11 DEF RowHeld, HistoryHeld, EventHeld, Updates
    <3>2. ASSUME Kind(k) = "deals", StageToDo(o) PROVE StageToDo(k)
      BY <2>3, <2>7, <2>8, <3>2 DEF StageToDo
    <3>3. DealHeld(k, rows)
      BY <2>3, <2>5, <2>7, <2>9, <2>11, <3>2 DEF DealHeld, Graphs, StageFound
    <3> QED
      BY <3>1, <3>3 DEF Fresh
  <2>12. CallHeld(c, k, Worlds[world].asks, rows, stale)
    BY <2>3, <2>7, <2>9, <2>10, <2>11 DEF CallHeld, Sound, Fresh
  <2> QED
    BY <2>1, <2>2, <2>3, <2>12, QuietStep DEF CheckRelation, Creates, Asked, InFlight, k
<1> QED
  BY <1>1, <1>2 DEF CheckRelation

LEMMA CheckDealStageKeeps ==
  ASSUME Inv, NEW c \in Call, CheckDealStage(c)
  PROVE  Inv'
<1> DEFINE o == call[c]
           k == call'[c]
           s == Sought(c).id
           p == rows[s].pipelineId
           left == {[col |-> "pipelineId", id |-> p]} \cup {w \in Left(c) : w.col # "pipelineId"}
           patch == [o.patch EXCEPT !.pipelineId = p]
           change == [todo |-> left, patch |-> patch, watched |-> Watching(c, {RowRead(s)})]
<1>1. CASE Settle(c, "refused")
  BY <1>1, RefusedStep DEF CheckDealStage
<1>2. CASE Found(c) /\ o.patch.pipelineId \in {Null, p} /\ Goes(c, change)
  <2>1. /\ DOMAIN call = Call /\ DOMAIN o = DOMAIN Idle /\ InFlight(c) /\ At(c, "relations")
        /\ Kind(o) = "deals" /\ Sought(c).col = "stageId"
    BY InFlightFacts DEF CheckDealStage, At, Inv, CallsInv, Kind, Table, Asked
  <2>2. /\ k = Overlay(change, o) /\ DOMAIN call' = Call
        /\ \A d \in Call : d # c => call'[d] = call[d]
    BY <1>2, <2>1, GoesTo
  <2>3. /\ DOMAIN k = DOMAIN Idle /\ k.at = o.at /\ k.todo = left /\ k.patch = patch
        /\ k.req = o.req /\ k.seen = o.seen /\ k.others = o.others
        /\ k.watched = o.watched \cup {RowRead(s)}
    BY <2>1, <2>2 DEF Overlay, Idle, Watching
  <2>5. /\ CallShape(o, Worlds[world].asks) /\ DealShape(o) /\ FreshHeld(o) /\ EventFound(o)
        /\ c \notin stale =>
             RowHeld(o, rows) /\ HistoryHeld(o, rows) /\ EventHeld(o, rows) /\ DealHeld(o, rows)
        /\ GoesOn(Route(o.req)) /\ FitsTable(Route(o.req), o.req.op, Kind(o), Given(o))
        /\ o.at \in DOMAIN Route(o.req) /\ Route(o.req)[o.at] = "relations" /\ Stands(o, "relations")
    BY <2>1, InFlightFacts DEF At, Asked, Stands, InFlight
  <2>6. \A w \in left : w.col \in ReferenceColumns
    BY <2>5 DEF CallShape, Left, ReferenceColumns, Refers
  <2>7. Sought(c) \in o.todo
    BY <2>5, FirstIsIn DEF CallShape, Sought
  <2>8. o.req.op = "create" \/ Updates(o, "read")
    BY <2>1, <2>5 DEF FitsTable, Updates, Past, Before
  <2>9. Graphs(o)
    BY <2>1, <2>8 DEF Graphs
  <2>10. "stageId" \in DOMAIN o.patch /\ "pipelineId" \in DOMAIN o.patch /\ o.patch.stageId = s
    BY <2>1, <2>5, <2>7, <2>9 DEF DealShape
  <2>11. patch.stageId = s /\ patch.pipelineId = p /\ DOMAIN patch = DOMAIN o.patch
    BY <2>10
  <2>12. s \in DOMAIN rows /\ TableOf[s] = "stages" /\ rows[s].pipelineId = p
    BY <1>2, <2>1 DEF Found, Refers
  <2> HIDE DEF patch, left, k
  <2>13. left # {}
    BY DEF left
  <2>14. /\ k.at # 0 /\ Kind(k) = Kind(o) /\ Given(k) = Given(o) /\ Stands(k, "relations")
         /\ \A step : Past(k, step) <=> Past(o, step)
    BY <2>3, <2>5 DEF Past, Kind, Given, Stands
  <2>15. CallShape(k, Worlds[world].asks)
    BY <2>3, <2>5, <2>6, <2>11, <2>13, <2>14 DEF CallShape, Updates, IsRow
  <2>16. \A w \in left : w.col = "stageId" => w.id = s
    BY <2>5, <2>9, <2>10 DEF DealShape, left, Left
  <2>17. DealShape(k)
    BY <2>3, <2>10, <2>11, <2>16 DEF DealShape
  <2>18. FreshHeld(k) /\ EventFound(k)
    BY <2>1, <2>3, <2>5, <2>14 DEF FreshHeld, EventFound
  <2>19. ASSUME c \notin stale PROVE Fresh(k, rows)
    <3>1. RowHeld(k, rows) /\ HistoryHeld(k, rows) /\ EventHeld(k, rows)
      BY <2>1, <2>3, <2>5, <2>14, <2>19 DEF RowHeld, HistoryHeld, EventHeld, Updates
    <3>2. DealHeld(k, rows)
      BY <2>3, <2>11, <2>12 DEF DealHeld, StageFound
    <3> QED
      BY <3>1, <3>2 DEF Fresh
  <2>20. CallHeld(c, k, Worlds[world].asks, rows, stale)
    BY <2>3, <2>15, <2>17, <2>18, <2>19 DEF CallHeld, Sound, Fresh
  <2> QED
    BY <2>1, <2>2, <2>3, <2>20, QuietStep DEF CheckDealStage, Creates, Asked, InFlight, k
<1> QED
  BY <1>1, <1>2 DEF CheckDealStage
\* The references of an event are those it was given.
LEMMA EventAsks ==
  ASSUME NEW given, NEW w \in ToCheck("events", given, NoRow)
  PROVE  /\ w.col \in {"enrollmentId", "stepId"} /\ w.col \in DOMAIN given
         /\ given[w.col] # Null /\ w = [col |-> w.col, id |-> given[w.col]]
BY DEF ToCheck, Wanted, Checked, Columns, EventColumns, ReferenceColumns, Refers

LEMMA CheckEventRelationKeeps ==
  ASSUME Inv, NEW c \in Call, CheckEventRelation(c)
  PROVE  Inv'
<1> DEFINE o == call[c]
           k == call'[c]
           i == Sought(c).id
           change == [todo |-> Left(c), at |-> Onward(c, Left(c)), seen |-> rows[i],
                      watched |-> Watching(c, {RowRead(i)})]
<1>1. CASE Settle(c, "refused")
  BY <1>1, RefusedStep DEF CheckEventRelation
<1>2. CASE /\ Found(c) /\ (Sought(c).col = "stepId" => rows[i].sequenceId = o.seen.sequenceId)
           /\ Goes(c, change)
  <2>1. /\ DOMAIN call = Call /\ DOMAIN o = DOMAIN Idle /\ InFlight(c) /\ At(c, "relations")
        /\ Kind(o) = "events"
    BY InFlightFacts DEF CheckEventRelation, At, Inv, CallsInv, Kind, Table, Asked
  <2>2. /\ k = Overlay(change, o) /\ DOMAIN call' = Call
        /\ \A d \in Call : d # c => call'[d] = call[d]
    BY <1>2, <2>1, GoesTo
  <2>3. /\ DOMAIN k = DOMAIN Idle /\ k.at = Onward(c, Left(c)) /\ k.todo = o.todo \ {Sought(c)}
        /\ k.req = o.req /\ k.patch = o.patch /\ k.seen = rows[i] /\ k.others = o.others
        /\ k.watched = o.watched \cup {RowRead(i)}
    BY <2>1, <2>2 DEF Overlay, Idle, Left, Watching
  <2>4. \/ k.at = o.at /\ k.todo # {}
        \/ k.at = o.at + 1 /\ k.todo = {}
    BY <2>3 DEF Onward, Left, Rest
  <2>5. /\ CallShape(o, Worlds[world].asks) /\ DealShape(o) /\ FreshHeld(o) /\ EventFound(o)
        /\ c \notin stale =>
             RowHeld(o, rows) /\ HistoryHeld(o, rows) /\ EventHeld(o, rows) /\ DealHeld(o, rows)
        /\ o.req.op = "create" /\ Stands(o, "relations")
    BY <2>1, InFlightFacts DEF FitsTable, At, Asked, Stands, InFlight
  <2> HIDE DEF k
  <2>6. \A w \in k.todo : w.col \in ReferenceColumns
    BY <2>3, <2>5 DEF CallShape
  <2>7. /\ k.at # 0 /\ Kind(k) = Kind(o) /\ Given(k) = Given(o)
        /\ k.todo # {} => Stands(k, "relations")
        /\ CallShape(k, Worlds[world].asks)
    BY <2>1, <2>3, <2>4, <2>5, <2>6, Looked
  <2>8. /\ Sought(c) \in o.todo
        /\ \A v \in o.todo : Place[Sought(c).col] <= Place[v.col]
    BY <2>5, FirstIsIn DEF CallShape, Sought
  <2>9. o.todo \subseteq ToCheck("events", Given(o), NoRow)
    BY <2>1, <2>5 DEF EventFound
  <2>10. /\ Sought(c).col \in {"enrollmentId", "stepId"} /\ i = Given(o)[Sought(c).col]
         /\ Sought(c).col = "stepId" => HasStep(o)
         /\ \A w \in k.todo : w.col # Sought(c).col
    <3>1. ASSUME NEW w \in o.todo
          PROVE  /\ w.col \in {"enrollmentId", "stepId"} /\ w.col \in DOMAIN Given(o)
                 /\ Given(o)[w.col] # Null /\ w = [col |-> w.col, id |-> Given(o)[w.col]]
      BY <2>9, EventAsks
    <3>2. \A w \in k.todo : w.col # Sought(c).col
      BY <2>3, <2>8, <3>1
    <3>3. i = Given(o)[Sought(c).col]
      BY <2>8, <3>1
    <3> QED
      BY <2>8, <3>1, <3>2, <3>3 DEF HasStep
  <2>11. i \in DOMAIN rows /\ TableOf[i] = Refers[Sought(c).col]
    BY <1>2 DEF Found
  <2>12. ASSUME Sought(c).col = "enrollmentId"
         PROVE  EventFound(k) /\ (c \notin stale => EventHeld(k, rows))
    <3>1. i = Given(o).enrollmentId /\ TableOf[i] = "enrollments" /\ Lacks(k, "enrollmentId")
      BY <2>10, <2>11, <2>12 DEF Refers, Lacks
    <3>2. ~Lacks(o, "enrollmentId") /\ (Lacks(k, "stepId") => Lacks(o, "stepId"))
      BY <2>3, <2>8, <2>12 DEF Lacks
    <3>3. HasStep(k) => ~Lacks(k, "stepId")
      BY <2>1, <2>5, <2>7, <3>2 DEF EventFound, HasStep
    <3>4. EventFound(k)
      BY <2>3, <2>7, <2>9, <3>1, <3>3 DEF EventFound
    <3>5. EventHeld(k, rows)
      BY <2>3, <2>7, <2>11, <3>1, <3>3 DEF EventHeld
    <3> QED
      BY <3>4, <3>5
  <2>13. ASSUME Sought(c).col = "stepId"
         PROVE  EventFound(k) /\ (c \notin stale => EventHeld(k, rows))
    <3>1. i = Given(o).stepId /\ TableOf[i] = "steps" /\ Lacks(k, "stepId")
      BY <2>10, <2>11, <2>13 DEF Refers, Lacks
    <3>2. Lacks(o, "enrollmentId") /\ ~Lacks(o, "stepId")
      BY <2>8, <2>13 DEF Lacks, Place
    <3>3. Lacks(k, "enrollmentId")
      BY <2>3, <3>2 DEF Lacks
    <3>4. EventFound(k)
      BY <2>1, <2>3, <2>5, <2>7, <2>9, <3>1, <3>2, <3>3 DEF EventFound
    <3>5. ASSUME c \notin stale PROVE EventHeld(k, rows)
      <4>1. /\ Given(o).enrollmentId \in DOMAIN rows /\ RowRead(Given(o).enrollmentId) \in o.watched
            /\ o.seen = rows[Given(o).enrollmentId]
        BY <2>1, <2>5, <3>2, <3>5 DEF EventHeld
      <4> QED
        BY <1>2, <2>3, <2>7, <2>11, <2>13, <3>1, <4>1 DEF EventHeld
    <3> QED
      BY <3>4, <3>5
  <2>14. DealShape(k) /\ FreshHeld(k)
    BY <2>1, <2>3, <2>5, <2>7 DEF DealShape, Graphs, FreshHeld
  <2>15. ASSUME c \notin stale PROVE RowHeld(k, rows) /\ HistoryHeld(k, rows) /\ DealHeld(k, rows)
    BY <2>1, <2>3, <2>5, <2>7, <2>15 DEF RowHeld, HistoryHeld, DealHeld, Graphs, Updates
  <2>16. CallHeld(c, k, Worlds[world].asks, rows, stale)
    BY <2>3, <2>7, <2>10, <2>12, <2>13, <2>14, <2>15 DEF CallHeld, Sound, Fresh
  <2> QED
    BY <2>1, <2>2, <2>3, <2>16, QuietStep DEF CheckEventRelation, Creates, Asked, InFlight, k
<1> QED
  BY <1>1, <1>2 DEF CheckEventRelation
LEMMA CheckHistoryKeeps ==
  ASSUME Inv, NEW c \in Call, CheckHistory(c)
  PROVE  Inv'
<1> DEFINE o == call[c]
           k == call'[c]
           i == Asked(c).id
           P == Route(o.req)
           change == [at |-> PassRelations(Route(Asked(c)), Rest(c), o.todo),
                      watched |-> Watching(c, {EventsRead(i)})]
<1>1. CASE Settle(c, "refused")
  BY <1>1, RefusedStep DEF CheckHistory
<1>2. CASE HistoryOf(i) = {} /\ Goes(c, change)
  <2>1. DOMAIN call = Call /\ DOMAIN o = DOMAIN Idle /\ InFlight(c) /\ At(c, "events")
    BY InFlightFacts DEF CheckHistory, At, Inv, CallsInv
  <2>2. /\ k = Overlay(change, o) /\ DOMAIN call' = Call
        /\ \A d \in Call : d # c => call'[d] = call[d]
    BY <1>2, <2>1, GoesTo
  <2>3. /\ DOMAIN k = DOMAIN Idle /\ k.at = PassRelations(P, o.at + 1, o.todo) /\ k.todo = o.todo
        /\ k.req = o.req /\ k.patch = o.patch /\ k.seen = o.seen /\ k.others = o.others
        /\ k.watched = o.watched \cup {EventsRead(i)}
    BY <2>1, <2>2 DEF Overlay, Idle, Watching, Rest, Asked
  <2>4. /\ CallShape(o, Worlds[world].asks) /\ DealShape(o) /\ FreshHeld(o) /\ EventFound(o)
        /\ c \notin stale =>
             RowHeld(o, rows) /\ HistoryHeld(o, rows) /\ EventHeld(o, rows) /\ DealHeld(o, rows)
        /\ GoesOn(P) /\ FitsOp(P, o.req.op) /\ FitsTable(P, o.req.op, Kind(o), Given(o))
        /\ o.at \in DOMAIN P /\ P[o.at] = "events"
    BY <2>1, InFlightFacts DEF At, Asked
  <2> HIDE DEF k
  <2>5. /\ o.at + 1 \in DOMAIN P /\ o.at \in Nat
        /\ \/ k.at = o.at + 1 /\ (P[k.at] = "relations" => k.todo # {})
           \/ k.at = o.at + 1 + 1 /\ P[o.at + 1] = "relations" /\ k.at \in DOMAIN P /\ P[k.at] # "relations"
    BY <2>3, <2>4 DEF GoesOn, PassRelations
  <2>6. /\ k.at \in DOMAIN P /\ k.at # 0 /\ Kind(k) = Kind(o) /\ Given(k) = Given(o)
        /\ Stands(k, "relations") => k.todo # {}
    BY <2>3, <2>5 DEF Stands, Kind, Given
  <2>7. \A step : step \notin {"relations", "events"} => (Past(k, step) <=> Past(o, step))
    <3>1. \A step : Before(P, o.at + 1, step) <=> Before(P, o.at, step) \/ P[o.at] = step
      BY <2>4, BehindNext
    <3>2. \A step : Before(P, o.at + 1 + 1, step) <=> Before(P, o.at + 1, step) \/ P[o.at + 1] = step
      BY <2>4, <2>5, BehindNext
    <3> QED
      BY <2>3, <2>4, <2>5, <3>1, <3>2 DEF Past
  <2>8. Kind(o) \notin {"events", "deals"} /\ o.req.op # "create"
    BY <2>4 DEF FitsTable, FitsOp
  <2>9. CallShape(k, Worlds[world].asks)
    BY <2>3, <2>4, <2>6, <2>7 DEF CallShape, Updates
  <2>10. DealShape(k) /\ FreshHeld(k) /\ EventFound(k)
    BY <2>3, <2>6, <2>8 DEF DealShape, Graphs, FreshHeld, EventFound
  <2>11. ASSUME c \notin stale PROVE RowHeld(k, rows)
    BY <2>3, <2>4, <2>6, <2>7, <2>11 DEF RowHeld, Updates
  <2>12. HistoryHeld(k, rows) /\ EventHeld(k, rows) /\ DealHeld(k, rows)
    BY <1>2, <2>3, <2>6, <2>8 DEF HistoryHeld, EventHeld, HistoryOf, EventsOf, Asked, DealHeld, Graphs
  <2>13. CallHeld(c, k, Worlds[world].asks, rows, stale)
    BY <2>3, <2>6, <2>9, <2>10, <2>11, <2>12 DEF CallHeld, Sound, Fresh
  <2> QED
    BY <2>1, <2>2, <2>3, <2>13, QuietStep DEF CheckHistory, Creates, Asked, InFlight, k
<1> QED
  BY <1>1, <1>2 DEF CheckHistory

LEMMA SelectKeeps ==
  ASSUME Inv, NEW c \in Call, Select(c)
  PROVE  Inv'
<1> DEFINE o == call[c]
           k == call'[c]
           i == Asked(c).id
           P == Route(o.req)
           own == IF Asked(c).op = "create" THEN {} ELSE {i}
           there == DOMAIN o.others \cap DOMAIN rows
           change == [at |-> Rest(c), seen |-> IF own = {} THEN Nothing ELSE rows[i],
                      others |-> [j \in there |-> rows[j]],
                      watched |-> Watching(c, {RowRead(j) : j \in there \cup own})]
<1>1. CASE Settle(c, "refused")
  BY <1>1, RefusedStep DEF Select
<1>2. CASE own \subseteq DOMAIN rows /\ Goes(c, change)
  <2>1. DOMAIN call = Call /\ DOMAIN o = DOMAIN Idle /\ InFlight(c) /\ At(c, "select")
    BY InFlightFacts DEF Select, At, Inv, CallsInv
  <2>2. /\ k = Overlay(change, o) /\ DOMAIN call' = Call
        /\ \A d \in Call : d # c => call'[d] = call[d]
    BY <1>2, <2>1, GoesTo
  <2>3. /\ DOMAIN k = DOMAIN Idle /\ k.at = o.at + 1 /\ k.todo = o.todo /\ k.req = o.req /\ k.patch = o.patch
        /\ k.seen = (IF own = {} THEN Nothing ELSE rows[i]) /\ k.others = [j \in there |-> rows[j]]
        /\ o.watched \subseteq k.watched
    BY <2>1, <2>2 DEF Overlay, Idle, Watching, Rest
  <2>4. /\ CallShape(o, Worlds[world].asks) /\ DealShape(o) /\ FreshHeld(o) /\ EventFound(o)
        /\ c \notin stale =>
             RowHeld(o, rows) /\ HistoryHeld(o, rows) /\ EventHeld(o, rows) /\ DealHeld(o, rows)
        /\ GoesOn(P) /\ FitsTable(P, o.req.op, Kind(o), Given(o))
        /\ o.at \in DOMAIN P /\ P[o.at] = "select"
    BY <2>1, InFlightFacts DEF At, Asked
  <2>5. o.req.op = "update" => i \in DOMAIN rows /\ k.seen = rows[i] /\ i = k.req.id
    BY <1>2, <2>3 DEF Asked
  <2> HIDE DEF k
  <2>6. /\ k.at \in DOMAIN P /\ k.at # 0 /\ Kind(k) = Kind(o) /\ Given(k) = Given(o)
        /\ ~Stands(k, "relations") /\ ~Stands(o, "relations")
        /\ \A step : Past(k, step) <=> Past(o, step) \/ step = "select"
    BY <2>3, <2>4, BehindNext DEF Stands, Kind, Given, GoesOn, Past
  <2>7. Kind(o) # "events"
    BY <2>4 DEF FitsTable
  <2>8. CallShape(k, Worlds[world].asks)
    <3>1. \A j \in DOMAIN k.others : j \in DOMAIN o.others /\ IsRow(j, k.others[j])
      BY <2>3 DEF Inv, RowsInv
    <3>2. k.req.op = "update" => IsRow(k.req.id, k.seen)
      BY <2>3, <2>5 DEF Inv, RowsInv
    <3> QED
      BY <2>3, <2>4, <2>6, <3>1, <3>2 DEF CallShape, Updates
  <2>9. DealShape(k)
    BY <2>3, <2>4, <2>6 DEF DealShape, Graphs, Updates
  <2>10. FreshHeld(k) /\ EventFound(k)
    BY <2>3, <2>4, <2>6, <2>7 DEF FreshHeld, EventFound
  <2>11. ASSUME c \notin stale PROVE Fresh(k, rows)
    <3>1. RowHeld(k, rows) /\ HistoryHeld(k, rows) /\ EventHeld(k, rows)
      BY <2>3, <2>4, <2>5, <2>6, <2>7, <2>11 DEF RowHeld, HistoryHeld, EventHeld, Updates
    <3>2. DealHeld(k, rows)
      BY <2>3, <2>4, <2>6, <2>11 DEF DealHeld, Graphs, StageToDo, StageFound, Updates
    <3> QED
      BY <3>1, <3>2 DEF Fresh
  <2>12. CallHeld(c, k, Worlds[world].asks, rows, stale)
    BY <2>3, <2>6, <2>8, <2>9, <2>10, <2>11 DEF CallHeld, Sound, Fresh
  <2> QED
    BY <2>1, <2>2, <2>3, <2>12, QuietStep DEF Select, Creates, Asked, InFlight, k
<1> QED
  BY <1>1, <1>2 DEF Select
LEMMA PatchColumns ==
  ASSUME NEW table \in Tables, NEW given, NEW row, DOMAIN given \subseteq Columns[table]
  PROVE  DOMAIN Patch(table, given, row) \subseteq Columns[table]
<1>1. DOMAIN DealPatch(table, given, row) \subseteq Columns[table]
  BY DEF DealPatch, With, Columns, DealColumns
<1>2. table \in StatusTables => "stamp" \in Columns[table]
  BY DEF StatusTables, Columns, TaskColumns, PaymentColumns, ContractColumns, ImportColumns, EnrollmentColumns
<1> QED
  BY <1>1, <1>2 DEF Patch, StatusPatch, With

\* A wanted reference is looked up.
LEMMA WantedIsLookedUp ==
  ASSUME NEW table, NEW given, NEW row, NEW col \in Checked(table), Wanted(table, col, given, row) # Null
  PROVE  \E w \in ToCheck(table, given, row) : w.col = col
<1> DEFINE w == [col |-> col, id |-> Wanted(table, col, given, row)]
<1>1. w \in ToCheck(table, given, row)
  BY DEF ToCheck
<1>2. w.col = col
  OBVIOUS
<1> QED
  BY <1>1, <1>2

\* A deal's patch has both columns of its graph or neither, and its stage is looked up.
LEMMA DealGraph ==
  ASSUME NEW given, NEW row
  PROVE  LET patch == Patch("deals", given, row)
             refs  == ToCheck("deals", given, row) IN
         /\ "stageId" \in DOMAIN patch <=> "pipelineId" \in DOMAIN patch
         /\ \A w \in refs : w.col = "stageId" => "stageId" \in DOMAIN patch /\ w.id = patch.stageId
         /\ "stageId" \in DOMAIN patch /\ patch.stageId # Null => \E w \in refs : w.col = "stageId"
<1> DEFINE patch == Patch("deals", given, row)
           moved == {"stageId", "pipelineId"} \cap DOMAIN given # {}
<1>1. patch = DealPatch("deals", given, row)
  BY DEF Patch, StatusPatch, StatusTables
<1>2. moved => /\ "stageId" \in DOMAIN patch /\ "pipelineId" \in DOMAIN patch
               /\ patch.stageId = After("stageId", given, row)
  BY <1>1 DEF DealPatch, With
<1>3. ~moved => "stageId" \notin DOMAIN patch /\ "pipelineId" \notin DOMAIN patch
  BY <1>1 DEF DealPatch
<1>4. Wanted("deals", "stageId", given, row) = IF moved THEN After("stageId", given, row) ELSE Null
  BY DEF Wanted
<1>5. "stageId" \in Checked("deals")
  BY DEF Checked, Columns, DealColumns, ReferenceColumns, Refers
<1> HIDE DEF patch, moved
<1>6. \A w \in ToCheck("deals", given, row) :
        w.col = "stageId" => w.id = Wanted("deals", "stageId", given, row) /\ w.id # Null
  BY DEF ToCheck
<1>7. Wanted("deals", "stageId", given, row) # Null =>
        \E w \in ToCheck("deals", given, row) : w.col = "stageId"
  BY <1>5, WantedIsLookedUp
<1> QED
  BY <1>2, <1>3, <1>4, <1>6, <1>7 DEF patch

LEMMA FreshGraph ==
  ASSUME NEW given
  PROVE  LET patch == FreshRow("deals", given)
             refs  == ToCheck("deals", given, NoRow) IN
         /\ "stageId" \in DOMAIN patch /\ "pipelineId" \in DOMAIN patch
         /\ \A w \in refs : w.col = "stageId" => w.id = patch.stageId
         /\ patch.stageId # Null => \E w \in refs : w.col = "stageId"
<1>1. StatusPatch("deals", given, NoRow) = given
  BY DEF StatusPatch, StatusTables
<1>2. /\ "stageId" \in DOMAIN FreshRow("deals", given) /\ "pipelineId" \in DOMAIN FreshRow("deals", given)
      /\ FreshRow("deals", given).stageId = After("stageId", given, NoRow)
  BY <1>1 DEF FreshRow, Columns, DealColumns, After, NoRow
<1>3. /\ Wanted("deals", "stageId", given, NoRow) \in {Null, After("stageId", given, NoRow)}
      /\ After("stageId", given, NoRow) # Null => Wanted("deals", "stageId", given, NoRow) # Null
  BY DEF Wanted, After, NoRow
<1>4. "stageId" \in Checked("deals")
  BY DEF Checked, Columns, DealColumns, ReferenceColumns, Refers
<1>5. \A w \in ToCheck("deals", given, NoRow) :
        w.col = "stageId" => w.id = Wanted("deals", "stageId", given, NoRow) /\ w.id # Null
  BY DEF ToCheck
<1>6. Wanted("deals", "stageId", given, NoRow) # Null =>
        \E w \in ToCheck("deals", given, NoRow) : w.col = "stageId"
  BY <1>4, WantedIsLookedUp
<1> QED
  BY <1>2, <1>3, <1>5, <1>6

\* An event's enrollment and step, when given, are looked up.
LEMMA EventRefs ==
  ASSUME NEW given, NEW col \in {"enrollmentId", "stepId"}, col \in DOMAIN given, given[col] # Null
  PROVE  \E w \in ToCheck("events", given, NoRow) : w.col = col
<1>1. Wanted("events", col, given, NoRow) = given[col]
  BY DEF Wanted
<1>2. col \in Checked("events")
  BY DEF Checked, Columns, EventColumns, ReferenceColumns, Refers
<1> QED
  BY <1>1, <1>2, WantedIsLookedUp

LEMMA RefsAreReferences ==
  ASSUME NEW table, NEW given, NEW row, NEW w \in ToCheck(table, given, row)
  PROVE  w.col \in ReferenceColumns
BY DEF ToCheck, Checked

\* Where a read leads: past the guard of a history that stays, past no selection.
LEMMA ReadLeads ==
  ASSUME NEW P, GoesOn(P), NEW a \in DOMAIN P, P[a] = "read", NEW moves \in BOOLEAN, NEW refs
  PROVE  LET b == PassRelations(P, PassEvents(P, a + 1, moves), refs) IN
         /\ b \in DOMAIN P /\ b > a
         /\ Before(P, b, "read") /\ ~Before(P, b, "select")
         /\ Before(P, b, "events") => ~moves
         /\ P[b] = "relations" => refs # {}
         /\ \A step : Before(P, a, step) => Before(P, b, step)
<1> DEFINE m == PassEvents(P, a + 1, moves)
           b == PassRelations(P, m, refs)
<1>1. a \in Nat /\ a + 1 \in DOMAIN P
  BY DEF GoesOn
<1>2. /\ m \in DOMAIN P
      /\ m = a + 1 \/ (m = a + 2 /\ P[a + 1] = "events" /\ ~moves)
  <2>1. P[a + 1] = "events" => a + 1 + 1 \in DOMAIN P
    BY <1>1 DEF GoesOn
  <2> QED
    BY <1>1, <2>1 DEF PassEvents
<1> HIDE DEF m
<1>3. /\ b \in DOMAIN P /\ m \in Nat
      /\ b = m \/ (b = m + 1 /\ P[m] = "relations")
      /\ P[b] = "relations" => refs # {}
  BY <1>2 DEF GoesOn, PassRelations
<1> HIDE DEF b
<1>4. ASSUME NEW j \in DOMAIN P, j < b
      PROVE  j <= a \/ (j = a + 1 /\ P[j] = "events" /\ ~moves) \/ P[j] = "relations"
  BY <1>1, <1>2, <1>3, <1>4 DEF GoesOn
<1>5. ~Before(P, b, "select") /\ (Before(P, b, "events") => ~moves)
  BY <1>4 DEF GoesOn, Before
<1>6. b > a /\ Before(P, b, "read") /\ \A step : Before(P, a, step) => Before(P, b, step)
  BY <1>1, <1>2, <1>3 DEF Before, GoesOn
<1> QED
  BY <1>3, <1>5, <1>6 DEF b, m
LEMMA ReadKeeps ==
  ASSUME Inv, NEW c \in Call, Read(c)
  PROVE  Inv'
<1> DEFINE o == call[c]
           k == call'[c]
           i == Asked(c).id
           P == Route(o.req)
           given == Asked(c).given
           later == \E j \in DOMAIN P : j > o.at /\ P[j] = "relations"
           refs == IF later THEN ToCheck(Table(c), given, rows[i]) ELSE {}
           moves == Reparents(Table(c), given, rows[i])
           change == [seen |-> rows[i], patch |-> Patch(Table(c), given, rows[i]), todo |-> refs,
                      at |-> PassRelations(P, PassEvents(P, Rest(c), moves), refs),
                      watched |-> Watching(c, {RowRead(i)})]
<1>1. CASE Settle(c, "refused")
  BY <1>1, RefusedStep DEF Read
<1>2. CASE i \in DOMAIN rows /\ Admitted(Table(c), given, rows[i]) /\ Goes(c, change)
  <2>1. DOMAIN call = Call /\ DOMAIN o = DOMAIN Idle /\ InFlight(c) /\ At(c, "read")
    BY InFlightFacts DEF Read, At, Inv, CallsInv
  <2>2. /\ k = Overlay(change, o) /\ DOMAIN call' = Call
        /\ \A d \in Call : d # c => call'[d] = call[d]
    BY <1>2, <2>1, GoesTo
  <2>3. /\ DOMAIN k = DOMAIN Idle /\ k.at = PassRelations(P, PassEvents(P, o.at + 1, moves), refs)
        /\ k.todo = refs /\ k.req = o.req /\ k.patch = Patch(Kind(o), Given(o), rows[i]) /\ k.seen = rows[i]
        /\ k.others = o.others /\ RowRead(i) \in k.watched
    BY <2>1, <2>2, ZenonT(40) DEF Overlay, Idle, Watching, Rest, Kind, Given, Table, Asked
  <2>4. /\ CallShape(o, Worlds[world].asks)
        /\ GoesOn(P) /\ FitsOp(P, o.req.op) /\ FitsTable(P, o.req.op, Kind(o), Given(o))
        /\ o.at \in DOMAIN P /\ P[o.at] = "read"
    BY <2>1, InFlightFacts DEF At, Asked
  <2>5. /\ i = o.req.id /\ given = Given(o) /\ Table(c) = Kind(o)
        /\ Kind(o) \in Tables /\ DOMAIN given \subseteq Columns[Kind(o)]
    BY <2>4, AsksFit DEF Asked, Given, Kind, Table, CallShape, Inv
  <2>6. moves \in BOOLEAN
    BY DEF Reparents
  <2> HIDE DEF k, refs, moves
  <2>7. /\ k.at \in DOMAIN P /\ k.at > o.at
        /\ Past(k, "read") /\ ~Past(k, "select") /\ (Past(k, "events") => ~moves)
        /\ P[k.at] = "relations" => refs # {}
        /\ \A step : Past(o, step) => Past(k, step)
    BY <2>3, <2>4, <2>6, ReadLeads DEF Past
  <2>8. k.at # 0 /\ Kind(k) = Kind(o) /\ Given(k) = Given(o)
    BY <2>3, <2>4, <2>7 DEF Kind, Given, GoesOn
  <2>9. o.req.op = "update" /\ Kind(o) # "events"
    BY <2>4 DEF FitsOp, FitsTable
  <2>10. CallShape(k, Worlds[world].asks)
    <3>1. \A w \in refs : w.col \in ReferenceColumns
      BY RefsAreReferences DEF refs
    <3>2. DOMAIN k.patch \subseteq Columns[Kind(k)]
      BY <2>3, <2>5, <2>8, PatchColumns
    <3>3. Stands(k, "relations") => k.todo # {}
      BY <2>3, <2>7 DEF Stands
    <3> QED
      BY <2>3, <2>4, <2>7, <2>9, <3>1, <3>2, <3>3 DEF CallShape, Updates
  <2>11. DealShape(k) /\ DealHeld(k, rows)
    <3>1. ASSUME Kind(k) = "deals"
          PROVE  DealShape(k) /\ ("stageId" \in DOMAIN k.patch => k.patch.stageId = Null \/ StageToDo(k))
      <4>1. P = <<"read", "relations", "select", "write">> /\ o.at = 1
        BY <2>4, <2>8, <2>9, <3>1 DEF FitsTable
      <4>2. later
        BY <4>1
      <4>3. refs = ToCheck("deals", given, rows[i])
        BY <2>5, <2>8, <3>1, <4>2 DEF refs
      <4>4. refs # {} => Stands(k, "relations")
        <5>1. ASSUME refs # {} PROVE k.at = 2
          BY <2>3, <4>1, <5>1 DEF PassRelations, PassEvents
        <5> QED
          BY <2>3, <4>1, <5>1 DEF Stands
      <4>5. k.patch = Patch("deals", given, rows[i]) /\ k.todo = ToCheck("deals", given, rows[i])
        BY <2>3, <2>5, <2>8, <3>1, <4>3
      <4> QED
        BY <2>3, <4>4, <4>5, DealGraph DEF DealShape, StageToDo
    <3> QED
      BY <3>1 DEF DealShape, DealHeld, Graphs
  <2>12. FreshHeld(k) /\ EventFound(k)
    BY <2>3, <2>8, <2>9 DEF FreshHeld, EventFound
  <2>13. RowHeld(k, rows)
    BY <1>2, <2>3, <2>5, <2>7, <2>8 DEF RowHeld, Updates
  <2>14. HistoryHeld(k, rows) /\ EventHeld(k, rows)
    BY <2>3, <2>5, <2>7, <2>8, <2>9 DEF HistoryHeld, EventHeld, Updates, moves
  <2>15. CallHeld(c, k, Worlds[world].asks, rows, stale)
    BY <2>3, <2>8, <2>10, <2>11, <2>12, <2>13, <2>14 DEF CallHeld, Sound, Fresh
  <2> QED
    BY <2>1, <2>2, <2>3, <2>15, QuietStep, ZenonT(40) DEF Read, Creates, Asked, InFlight, k
<1>3. \/ Settle(c, "refused")
      \/ i \in DOMAIN rows /\ Admitted(Table(c), given, rows[i]) /\ Goes(c, change)
  BY DEF Read, Asked
<1> QED
  BY <1>1, <1>2, <1>3

LEMMA SubmitKeeps ==
  ASSUME Inv, NEW c \in Call, NEW ask \in Worlds[world].asks, Submit(c, ask)
  PROVE  Inv'
<1> DEFINE k == call'[c]
           table == TableOf[ask.id]
           P == Route(ask)
           refs == ToCheck(table, ask.given, NoRow)
           start == PassRelations(P, 1, refs)
           change == [req |-> ask, at |-> start, todo |-> IF P[start] = "relations" THEN refs ELSE {},
                      patch |-> IF ask.op = "create" THEN FreshRow(table, ask.given) ELSE Nothing]
<1>1. CASE Settle(c, "refused")
  BY <1>1, RefusedStep DEF Submit
<1>2. CASE ~(ask.op = "create" /\ ~Admitted(table, ask.given, NoRow)) /\ Goes(c, change)
  <2>1. DOMAIN call = Call /\ call[c] = Idle
    BY DEF Submit, Inv, CallsInv
  <2>2. /\ k = Overlay(change, Idle) /\ DOMAIN call' = Call
        /\ \A d \in Call : d # c => call'[d] = call[d]
    BY <1>2, <2>1, GoesTo
  <2>3. /\ DOMAIN k = DOMAIN Idle /\ k.at = start /\ k.req = ask
        /\ k.todo = (IF P[start] = "relations" THEN refs ELSE {})
        /\ k.patch = (IF ask.op = "create" THEN FreshRow(table, ask.given) ELSE Nothing)
        /\ DOMAIN k.others = {}
    BY <2>1, <2>2 DEF Overlay, Idle, Nothing
  <2>4. /\ ask.id \in Id /\ table \in Tables
        /\ table = "events" => "enrollmentId" \in DOMAIN ask.given /\ ask.given.enrollmentId # Null
        /\ GoesOn(P) /\ FitsOp(P, ask.op) /\ FitsTable(P, ask.op, table, ask.given)
    BY AsksFit DEF Inv
  <2>5. Kind(k) = table /\ Given(k) = ask.given
    BY <2>3 DEF Kind, Given
  <2> HIDE DEF k, refs
  <2>6. /\ start \in DOMAIN P /\ start # 0
        /\ start = 1 \/ (start = 2 /\ P[1] = "relations" /\ refs = {})
        /\ P[start] = "relations" => refs # {}
    BY <2>4 DEF GoesOn, PassRelations
  <2>7. /\ \A step : step # "relations" => ~Past(k, step)
        /\ Stands(k, "relations") <=> P[start] = "relations"
    BY <2>3, <2>4, <2>6 DEF Past, Before, Stands, GoesOn
  <2>8. CallShape(k, Worlds[world].asks)
    <3>1. \A w \in refs : w.col \in ReferenceColumns
      BY RefsAreReferences DEF refs
    <3>2. ask.op = "create" => IsRow(ask.id, k.patch)
      BY <2>3 DEF FreshRow, IsRow
    <3> QED
      BY <2>3, <2>6, <2>7, <3>1, <3>2 DEF CallShape, Updates
  <2>9. DealShape(k) /\ DealHeld(k, rows)
    <3>1. ASSUME table = "deals", ask.op = "create"
          PROVE  DealShape(k) /\ ("stageId" \in DOMAIN k.patch => k.patch.stageId = Null \/ StageToDo(k))
      <4>1. P = <<"relations", "write">>
        BY <2>4, <3>1 DEF FitsTable
      <4>2. k.todo = refs /\ (refs # {} => Stands(k, "relations"))
        BY <2>3, <2>6, <2>7, <4>1 DEF PassRelations
      <4>3. k.patch = FreshRow("deals", ask.given) /\ refs = ToCheck("deals", ask.given, NoRow)
        BY <2>3, <3>1 DEF refs
      <4> QED
        BY <4>2, <4>3, FreshGraph DEF DealShape, StageToDo
    <3> QED
      BY <2>3, <2>5, <2>7, <3>1 DEF DealShape, DealHeld, Graphs, Updates
  <2>10. FreshHeld(k)
    BY <1>2, <2>3, <2>5 DEF FreshHeld
  <2>11. table = "events" => ~Lacks(k, "enrollmentId") /\ (HasStep(k) => ~Lacks(k, "stepId"))
    <3>1. ASSUME table = "events" PROVE k.todo = refs /\ refs = ToCheck("events", ask.given, NoRow)
      <4>1. P = <<"relations", "write">>
        BY <2>4, <3>1 DEF FitsTable
      <4> QED
        BY <2>3, <2>6, <3>1, <4>1 DEF refs, PassRelations
    <3> QED
      BY <2>4, <2>5, <3>1, EventRefs DEF Lacks, HasStep
  <2>12. EventFound(k) /\ EventHeld(k, rows)
    BY <2>3, <2>5, <2>7, <2>11 DEF EventFound, EventHeld, refs
  <2>13. RowHeld(k, rows) /\ HistoryHeld(k, rows)
    BY <2>7 DEF RowHeld, HistoryHeld, Updates
  <2>14. CallHeld(c, k, Worlds[world].asks, rows, stale)
    BY <2>3, <2>8, <2>9, <2>10, <2>12, <2>13 DEF CallHeld, Sound, Fresh
  <2>15. Creates(k) => k.req.id \notin born /\ \A d \in Call : Creates(call[d]) => Asked(d).id # k.req.id
    BY <2>3 DEF Submit, Creates, InFlight
  <2> QED
    BY <2>1, <2>2, <2>14, <2>15, QuietStep DEF Submit, k
<1> QED
  BY <1>1, <1>2 DEF Submit

-----------------------------------------------------------------------------
(* A call writes *)

\* What an update in flight writes when nothing has overtaken it.
LEMMA UpdateWrites ==
  ASSUME Inv, NEW c \in Call, At(c, "write"), Asked(c).op = "update", c \notin stale
  PROVE  LET i == Asked(c).id
             given == Asked(c).given IN
         /\ i \in DOMAIN rows /\ RowRead(i) \in call[c].watched
         /\ Admitted(TableOf[i], given, rows[i])
         /\ TableOf[i] # "deals" => NewRow(c) = Overlay(Patch(TableOf[i], given, rows[i]), rows[i])
         /\ HistoryHeld(call[c], rows)
<1> DEFINE k == call[c]
<1>1. /\ RowHeld(k, rows) /\ HistoryHeld(k, rows) /\ FitsOp(Route(k.req), k.req.op)
      /\ k.at \in DOMAIN Route(k.req) /\ Route(k.req)[k.at] = "write" /\ k.req.op = "update"
  BY InFlightFacts DEF At, Asked
<1>2. Updates(k, "read") /\ Updates(k, "select")
  BY <1>1 DEF FitsOp, Updates, Past
<1> QED
  BY <1>1, <1>2 DEF RowHeld, NewRow, Asked, Kind, Given

LEMMA NewRowIsRow ==
  ASSUME Inv, NEW c \in Call, At(c, "write")
  PROVE  IsRow(Asked(c).id, NewRow(c)) /\ Asked(c).op \in {"create", "update"}
<1> DEFINE k == call[c]
           P == Route(k.req)
<1>1. CallShape(k, Worlds[world].asks) /\ FitsOp(P, k.req.op) /\ k.at \in DOMAIN P /\ P[k.at] = "write"
  BY InFlightFacts DEF At, Asked
<1>2. /\ k.req.op \in {"create", "update"}
      /\ k.req.op = "update" => Updates(k, "read") /\ Updates(k, "select")
  BY <1>1 DEF FitsOp, Updates, Past
<1>3. IsRow(k.req.id, NewRow(c))
  BY <1>1, <1>2 DEF CallShape, NewRow, Asked, IsRow, Overlay, Kind
<1> QED
  BY <1>2, <1>3 DEF Asked

\* The pair that the write of a deal gives it, when nothing has overtaken it.
LEMMA NewPair ==
  ASSUME Inv, NEW c \in Call, At(c, "write"), Table(c) = "deals", c \notin stale
  PROVE  LET i   == Asked(c).id
             row == NewRow(c) IN
         \/ row.stageId = Null
         \/ /\ row.stageId \in DOMAIN rows /\ TableOf[row.stageId] = "stages"
            /\ rows[row.stageId].pipelineId = row.pipelineId
         \/ /\ i \in DOMAIN rows /\ Asked(c).op = "update"
            /\ row.stageId = rows[i].stageId /\ row.pipelineId = rows[i].pipelineId
<1> DEFINE k == call[c]
           P == Route(k.req)
<1>1. /\ CallShape(k, Worlds[world].asks) /\ DealShape(k) /\ RowHeld(k, rows) /\ DealHeld(k, rows)
      /\ FitsOp(P, k.req.op) /\ k.at \in DOMAIN P /\ P[k.at] = "write" /\ Kind(k) = "deals"
  BY InFlightFacts DEF At, Asked, Table, Kind
<1>2. /\ k.req.op \in {"create", "update"} /\ ~Stands(k, "relations")
      /\ k.req.op = "update" => Updates(k, "read") /\ Updates(k, "select")
  BY <1>1 DEF FitsOp, Stands, Updates, Past
<1>3. Graphs(k)
  BY <1>1, <1>2 DEF Graphs
<1>4. "stageId" \in DOMAIN k.patch <=> "pipelineId" \in DOMAIN k.patch
  BY <1>1, <1>3 DEF DealShape
<1>5. "stageId" \in DOMAIN k.patch => k.patch.stageId = Null \/ StageFound(k, rows)
  BY <1>1, <1>2, <1>3 DEF DealHeld, StageToDo
<1>6. CASE k.req.op = "create"
  <2>1. "stageId" \in DOMAIN k.patch /\ NewRow(c) = k.patch
    BY <1>1, <1>6 DEF CallShape, IsRow, Kind, Columns, DealColumns, NewRow, Asked
  <2> QED
    BY <1>5, <2>1 DEF StageFound
<1>7. CASE k.req.op = "update" /\ "stageId" \in DOMAIN k.patch
  <2>1. NewRow(c).stageId = k.patch.stageId /\ NewRow(c).pipelineId = k.patch.pipelineId
    BY <1>4, <1>7 DEF NewRow, Asked, Overlay
  <2> QED
    BY <1>5, <1>7, <2>1 DEF StageFound
<1>8. CASE k.req.op = "update" /\ "stageId" \notin DOMAIN k.patch
  <2>1. k.req.id \in DOMAIN rows /\ k.seen = rows[k.req.id]
    BY <1>1, <1>2, <1>8 DEF RowHeld
  <2>2. "stageId" \in DOMAIN k.seen /\ "pipelineId" \in DOMAIN k.seen
    BY <1>1, <2>1 DEF Inv, RowsInv, IsRow, Kind, Columns, DealColumns
  <2>3. NewRow(c).stageId = k.seen.stageId /\ NewRow(c).pipelineId = k.seen.pipelineId
    BY <1>4, <1>8, <2>2 DEF NewRow, Asked, Overlay
  <2> QED
    BY <1>8, <2>1, <2>3 DEF Asked
<1> QED
  BY <1>2, <1>6, <1>7, <1>8

LEMMA NewRowFitsStatus ==
  ASSUME Inv, NEW c \in Call, At(c, "write"), c \notin stale
  PROVE  LET i == Asked(c).id IN
         /\ i \notin raced => StampFits(TableOf[i], NewRow(c))
         /\ Asked(c).op = "update" /\ TableOf[i] \in StatusTables =>
              MoveAllowed(TableOf[i], rows[i].status, NewRow(c).status)
<1> DEFINE k == call[c]
           i == Asked(c).id
           T == TableOf[i]
           given == Asked(c).given
<1>1. FreshHeld(k) /\ T \in Tables
  BY InFlightFacts DEF At, Asked, Kind
<1>2. Asked(c).op \in {"create", "update"}
  BY NewRowIsRow
<1>3. CASE T \notin StatusTables
  BY <1>3 DEF StampFits, StatusTables, Dated
<1>4. CASE T \in StatusTables /\ Asked(c).op = "create"
  <2>1. /\ Admitted(T, given, NoRow) /\ T # "deals"
        /\ T # "deals" => NewRow(c) = FreshRow(T, given)
    BY <1>1, <1>4 DEF FreshHeld, Kind, Given, Asked, NewRow, StatusTables
  <2>2. StampFits(T, FreshRow(T, given))
    BY <1>1, <2>1, CreateFits DEF Admitted
  <2> QED
    BY <1>4, <2>1, <2>2
<1>5. CASE T \in StatusTables /\ Asked(c).op = "update"
  <2>1. /\ i \in DOMAIN rows /\ Admitted(T, given, rows[i])
        /\ T # "deals" => NewRow(c) = Overlay(Patch(T, given, rows[i]), rows[i])
    BY <1>5, UpdateWrites
  <2>2. T # "deals"
    BY <1>5 DEF StatusTables
  <2>3. DOMAIN rows[i] = Columns[T]
    BY <2>1 DEF Inv, RowsInv, IsRow
  <2>4. i \notin raced => StampFits(T, rows[i])
    BY <2>1 DEF Inv, StampFitsStatus
  <2>5. StatusAdmitted(T, given, rows[i]) /\ NewRow(c) = Overlay(Patch(T, given, rows[i]), rows[i])
    BY <2>1, <2>2 DEF Admitted
  <2> QED
    BY <1>5, <2>3, <2>4, <2>5, UpdateFits, UpdateMoves
<1> QED
  BY <1>2, <1>3, <1>4, <1>5

\* The event that a create writes.
LEMMA NewEvent ==
  ASSUME Inv, NEW c \in Call, At(c, "write"), Table(c) = "events"
  PROVE  LET row == NewRow(c) IN
         /\ Asked(c).op = "create" /\ PointsRight(row)
         /\ c \notin stale /\ row.stepId # Null =>
              /\ row.enrollmentId \in DOMAIN rows /\ row.stepId \in DOMAIN rows
              /\ rows[row.stepId].sequenceId = rows[row.enrollmentId].sequenceId
<1> DEFINE k == call[c]
           row == NewRow(c)
<1>1. /\ FreshHeld(k) /\ EventFound(k) /\ (c \notin stale => EventHeld(k, rows)) /\ Kind(k) = "events"
      /\ FitsTable(Route(k.req), k.req.op, Kind(k), Given(k)) /\ CallShape(k, Worlds[world].asks)
      /\ Route(k.req)[k.at] = "write"
  BY InFlightFacts DEF At, Asked, Table, Kind
<1>2. k.req.op = "create" /\ ~Stands(k, "relations")
  BY <1>1 DEF FitsTable, Stands
<1>3. k.todo = {} /\ Lacks(k, "enrollmentId") /\ Lacks(k, "stepId")
  BY <1>1, <1>2 DEF EventFound, Lacks
<1>4. "enrollmentId" \in DOMAIN Given(k) /\ Given(k).enrollmentId # Null
  BY <1>1, AsksFit DEF CallShape, Inv, Kind, Given
<1>5. row = FreshRow("events", Given(k))
  BY <1>1, <1>2 DEF FreshHeld, NewRow, Asked
<1>6. StatusPatch("events", Given(k), NoRow) = Given(k)
  BY DEF StatusPatch, StatusTables
<1>7. /\ row.enrollmentId = Given(k).enrollmentId
      /\ row.stepId = IF "stepId" \in DOMAIN Given(k) THEN Given(k).stepId ELSE Null
  BY <1>4, <1>5, <1>6 DEF FreshRow, Columns, EventColumns
<1>8. row.stepId # Null => HasStep(k) /\ row.stepId = Given(k).stepId
  BY <1>7 DEF HasStep
<1>9. PointsRight(row)
  BY <1>1, <1>3, <1>4, <1>7, <1>8 DEF PointsRight, EventFound
<1>10. ASSUME c \notin stale, row.stepId # Null
       PROVE  /\ row.enrollmentId \in DOMAIN rows /\ row.stepId \in DOMAIN rows
              /\ rows[row.stepId].sequenceId = rows[row.enrollmentId].sequenceId
  BY <1>1, <1>3, <1>7, <1>8, <1>10 DEF EventHeld
<1> QED
  BY <1>2, <1>9, <1>10 DEF Asked

\* A step or an enrollment that is moved has no events.
LEMMA MovedHasNoEvents ==
  ASSUME Inv, NEW c \in Call, At(c, "write"), Asked(c).op = "update", c \notin stale,
         Table(c) \in {"steps", "enrollments"}
  PROVE  LET i == Asked(c).id IN
         EventsOf(rows, i) = {} \/ NewRow(c).sequenceId = rows[i].sequenceId
<1> DEFINE k == call[c]
           i == Asked(c).id
<1>1. /\ FitsTable(Route(k.req), k.req.op, Kind(k), Given(k)) /\ Kind(k) \in Tables
      /\ k.at \in DOMAIN Route(k.req) /\ Route(k.req)[k.at] = "write"
  BY InFlightFacts DEF At, Asked
<1>2. Updates(k, "events") /\ Kind(k) = Table(c)
  BY <1>1 DEF FitsTable, Updates, Past, Asked, Kind, Table
<1>3. /\ i \in DOMAIN rows /\ HistoryHeld(k, rows) /\ Kind(k) # "deals" /\ i = k.req.id
      /\ NewRow(c) = Overlay(Patch(Kind(k), Given(k), rows[i]), rows[i])
  BY <1>2, UpdateWrites DEF Kind, Given, Asked
<1>4. "sequenceId" \in DOMAIN rows[i]
  BY <1>2, <1>3 DEF Inv, RowsInv, IsRow, Kind, Columns, StepColumns, EnrollmentColumns
<1>5. NewRow(c).sequenceId = After("sequenceId", Given(k), rows[i])
  BY <1>1, <1>3, <1>4, UpdateGives
<1>6. ~Reparents(Kind(k), Given(k), rows[i]) => After("sequenceId", Given(k), rows[i]) = rows[i].sequenceId
  BY <1>2 DEF Reparents
<1> QED
  BY <1>2, <1>3, <1>5, <1>6 DEF HistoryHeld

\* What a statement of c changes: its own row, and pipelines that it demotes; only a
\* delete takes a row away.
Effect(c, new) ==
  LET i == Asked(c).id IN
  /\ InFlight(c) /\ i \in Id
  /\ \A j \in DOMAIN new \ {i} :
       /\ j \in DOMAIN rows
       /\ \/ new[j] = rows[j]
          \/ Past(call[c], "defaults") /\ TableOf[j] = "pipelines" /\ IsRow(j, new[j])
  /\ i \in DOMAIN new => At(c, "write") /\ new[i] = NewRow(c)
  /\ i \in DOMAIN new \ DOMAIN rows => Asked(c).op = "create"
  /\ Asked(c).op # "delete" =>
       /\ At(c, "write") /\ DOMAIN rows \subseteq DOMAIN new
       /\ Asked(c).op = "create" => i \in DOMAIN new

LEMMA WriteHasEffect ==
  ASSUME Inv, NEW c \in Call, Write(c)
  PROVE  \E new : Execute(c, new) /\ Effect(c, new)
<1> DEFINE k == call[c]
           i == Asked(c).id
           others == k.others
           demoted == [j \in DOMAIN rows |-> IF j \in DOMAIN others
                                               THEN [others[j] EXCEPT !.isDefault = Null] ELSE rows[j]]
           new == IF Asked(c).op = "create" \/ i \in DOMAIN rows THEN WithRow(demoted, i, NewRow(c)) ELSE demoted
<1>1. Execute(c, new) /\ At(c, "write") /\ InFlight(c)
  BY DEF Write, At
<1>2. /\ CallShape(k, Worlds[world].asks) /\ i \in Id /\ GoesOn(Route(k.req))
      /\ k.at \in DOMAIN Route(k.req) /\ Route(k.req)[k.at] = "write"
  BY <1>1, InFlightFacts DEF At, Asked
<1>3. \A j \in DOMAIN others : Past(k, "defaults") /\ TableOf[j] = "pipelines" /\ IsRow(j, others[j])
  BY <1>2 DEF CallShape, GoesOn, Past
<1>4. DOMAIN demoted = DOMAIN rows
  OBVIOUS
<1>5. ASSUME NEW j \in DOMAIN rows
      PROVE  \/ demoted[j] = rows[j]
             \/ Past(k, "defaults") /\ TableOf[j] = "pipelines" /\ IsRow(j, demoted[j])
  BY <1>3 DEF IsRow
<1> HIDE DEF demoted
<1>6. ASSUME NEW j \in DOMAIN new \ {i}
      PROVE  j \in DOMAIN rows /\ new[j] = demoted[j]
  BY <1>4 DEF WithRow, With
<1>7. /\ i \in DOMAIN new => new[i] = NewRow(c) /\ (i \notin DOMAIN rows => Asked(c).op = "create")
      /\ DOMAIN rows \subseteq DOMAIN new /\ (Asked(c).op = "create" => i \in DOMAIN new)
  BY <1>4 DEF WithRow, With
<1> HIDE DEF new
<1>8. Effect(c, new)
  BY <1>1, <1>2, <1>5, <1>6, <1>7 DEF Effect
<1> QED
  BY <1>1, <1>8

LEMMA DeleteHasEffect ==
  ASSUME Inv, NEW c \in Call, Delete(c)
  PROVE  \E new : Execute(c, new) /\ Effect(c, new)
<1> DEFINE i == Asked(c).id
           new == WithoutRow(rows, i)
<1>1. Execute(c, new) /\ InFlight(c) /\ i \in Id /\ Asked(c).op = "delete"
  BY InFlightFacts DEF Delete, At, Asked, FitsOp
<1>2. DOMAIN new = DOMAIN rows \ {i} /\ \A j \in DOMAIN rows \ {i} : new[j] = rows[j]
  BY DEF WithoutRow
<1> HIDE DEF new
<1>3. Effect(c, new)
  BY <1>1, <1>2 DEF Effect
<1> QED
  BY <1>1, <1>3

\* A statement that succeeds.
Succeeds(c, new) ==
  /\ Accepts(new, Worlds[world].foreignKeys) /\ Settle(c, "done")
  /\ world' = world /\ rows' = new /\ born' = born \cup DOMAIN new
  /\ stale' = (stale \cup {d \in Call : InFlight(d) /\ call[d].watched \cap Disturbed(new) # {}}) \ {c}
  /\ raced' = IF c \in stale THEN raced \cup Changed(new) ELSE raced

\* What a call that is not overtaken has read is as it was.
LEMMA ReadStands ==
  ASSUME NEW d \in Call, InFlight(d), NEW new, call[d].watched \cap Disturbed(new) = {},
         NEW i, RowRead(i) \in call[d].watched, i \in DOMAIN rows
  PROVE  i \in DOMAIN new /\ new[i] = rows[i]
<1>1. RowRead(i) \notin {RowRead(j) : j \in Changed(new)}
  BY DEF Disturbed
<1>2. i \notin Changed(new)
  BY <1>1
<1> QED
  BY <1>2 DEF Changed

LEMMA EventsStand ==
  ASSUME NEW d \in Call, InFlight(d), NEW new, call[d].watched \cap Disturbed(new) = {},
         NEW i, EventsRead(i) \in call[d].watched, EventsOf(rows, i) = {}
  PROVE  EventsOf(new, i) = {}
<1> SUFFICES ASSUME NEW e \in DOMAIN new, TableOf[e] = "events", i \in {new[e].enrollmentId, new[e].stepId}
             PROVE  FALSE
  BY DEF EventsOf
<1>1. CASE e \in Changed(new)
  <2>1. EventsRead(i) \in {EventsRead(new[e].enrollmentId), EventsRead(new[e].stepId)}
    OBVIOUS
  <2>2. EventsRead(i) \in Disturbed(new)
    BY <1>1, <2>1 DEF Disturbed
  <2> QED
    BY <2>2
<1>2. CASE e \notin Changed(new)
  <2>1. e \in DOMAIN rows /\ rows[e] = new[e]
    BY <1>2 DEF Changed
  <2> QED
    BY <2>1 DEF EventsOf
<1> QED
  BY <1>1, <1>2

\* The other calls keep what they hold.
LEMMA OthersHold ==
  ASSUME Inv, NEW c \in Call, NEW new, Succeeds(c, new), NEW d \in Call, d # c
  PROVE  CallHeld(d, call[d], Worlds[world].asks, new, stale')
<1> DEFINE k == call[d]
<1>1. CallHeld(d, k, Worlds[world].asks, rows, stale)
  BY DEF Inv, CallsInv, Held
<1>2. CASE k.at = 0
  BY <1>1, <1>2 DEF CallHeld, Sound, Fresh
<1>3. CASE k.at # 0
  <2>1. Sound(k, Worlds[world].asks) /\ (d \notin stale => Fresh(k, rows))
    BY <1>1, <1>3 DEF CallHeld
  <2>4. ASSUME d \notin stale' PROVE Fresh(k, new)
    <3>1. d \notin stale /\ InFlight(d) /\ call[d].watched \cap Disturbed(new) = {}
      BY <1>3, <2>4 DEF Succeeds, InFlight
    <3>2. ASSUME NEW i, RowRead(i) \in k.watched, i \in DOMAIN rows PROVE i \in DOMAIN new /\ new[i] = rows[i]
      BY <3>1, <3>2, ReadStands
    <3>3. ASSUME NEW i, EventsRead(i) \in k.watched, EventsOf(rows, i) = {} PROVE EventsOf(new, i) = {}
      BY <3>1, <3>3, EventsStand
    <3>4. /\ RowHeld(k, rows) /\ (Updates(k, "select") => Updates(k, "read"))
          /\ Updates(k, "events") => Updates(k, "read")
      <4>1. GoesOn(Route(k.req)) /\ FitsOp(Route(k.req), k.req.op) /\ k.at \in DOMAIN Route(k.req)
        BY <3>1, InFlightFacts
      <4> QED
        BY <2>1, <3>1, <4>1 DEF Fresh, GoesOn, FitsOp, Updates, Past, Before
    <3>5. RowHeld(k, new) /\ HistoryHeld(k, new)
      <4>1. Updates(k, "read") => k.req.id \in DOMAIN new /\ new[k.req.id] = rows[k.req.id]
        BY <3>2, <3>4 DEF RowHeld
      <4>2. RowHeld(k, new)
        BY <3>4, <4>1 DEF RowHeld
      <4>3. HistoryHeld(k, new)
        BY <2>1, <3>1, <3>3, <3>4, <4>1 DEF Fresh, HistoryHeld
      <4> QED
        BY <4>2, <4>3
    <3>6. EventHeld(k, new)
      BY <2>1, <3>1, <3>2 DEF Fresh, EventHeld
    <3>7. DealHeld(k, new)
      BY <2>1, <3>1, <3>2 DEF Fresh, DealHeld, StageFound
    <3> QED
      BY <3>5, <3>6, <3>7 DEF Fresh
  <2> QED
    BY <1>1, <2>1, <2>4 DEF CallHeld
<1> QED
  BY <1>2, <1>3

\* References of events are enforced in both dialects.
LEMMA EventReferences ==
  ASSUME Inv, NEW db, Accepts(db, Worlds[world].foreignKeys), NEW e \in DOMAIN db, TableOf[e] = "events"
  PROVE  /\ db[e].enrollmentId # Null => db[e].enrollmentId \in DOMAIN db
         /\ db[e].stepId # Null => db[e].stepId \in DOMAIN db
<1>1. Worlds[world].foreignKeys \in {PostgresForeignKeys, SqliteForeignKeys}
  BY WorldAssumption DEF Inv, RowsInv
<1>2. {"enrollmentId", "stepId"} \subseteq Worlds[world].foreignKeys["events"]
  BY <1>1 DEF PostgresForeignKeys, SqliteForeignKeys, Tables, Columns, EventColumns, ReferenceColumns, Refers
<1>3. \A col \in Worlds[world].foreignKeys["events"] : ~Dangles(db, e, col)
  BY DEF Accepts
<1> QED
  BY <1>2, <1>3 DEF Dangles

LEMMA RowsStayTyped ==
  ASSUME Inv, NEW c \in Call, NEW new, Succeeds(c, new), Effect(c, new)
  PROVE  RowsInv'
<1> DEFINE i == Asked(c).id
<1>1. DOMAIN new \subseteq Id
  BY DEF Effect, Inv, RowsInv
<1>2. ASSUME NEW j \in DOMAIN new
      PROVE  /\ IsRow(j, new[j])
             /\ TableOf[j] = "events" => PointsRight(new[j])
  <2>1. CASE j = i
    <3>1. At(c, "write") /\ new[j] = NewRow(c)
      BY <1>2, <2>1 DEF Effect
    <3> QED
      BY <2>1, <3>1, NewRowIsRow, NewEvent DEF Table
  <2>2. CASE j # i
    <3>1. j \in DOMAIN rows /\ (new[j] = rows[j] \/ (TableOf[j] = "pipelines" /\ IsRow(j, new[j])))
      BY <1>2, <2>2 DEF Effect
    <3> QED
      BY <3>1 DEF Inv, RowsInv
  <2> QED
    BY <2>1, <2>2
<1>3. world' = world /\ rows' = new
  BY DEF Succeeds
<1> QED
  BY <1>1, <1>2, <1>3 DEF RowsInv, Succeeds, Inv

LEMMA BirthsStay ==
  ASSUME Inv, NEW c \in Call, NEW new, Succeeds(c, new), Effect(c, new)
  PROVE  BirthsInv' /\ CallsInv'
<1> DEFINE i == Asked(c).id
<1>1. /\ DOMAIN call' = Call /\ \A d \in Call : d # c => call'[d] = call[d]
      /\ DOMAIN call'[c] = DOMAIN Idle /\ call'[c].at = 0
  BY Settled DEF Succeeds, Inv, CallsInv
<1>2. world' = world /\ rows' = new /\ born' = born \cup DOMAIN new
  BY DEF Succeeds
<1>3. CallsInv'
  <2>1. CallHeld(c, call'[c], Worlds[world].asks, new, stale')
    BY <1>1 DEF CallHeld, Sound, Fresh
  <2>2. ASSUME NEW d \in Call, d # c PROVE CallHeld(d, call'[d], Worlds[world].asks, new, stale')
    BY <1>1, <2>2, OthersHold
  <2> QED
    BY <1>1, <1>2, <2>1, <2>2 DEF CallsInv, Held
<1>4. \A d \in Call : Creates(call'[d]) => d # c /\ Creates(call[d]) /\ call'[d].req = call[d].req
  BY <1>1 DEF Creates
<1>5. ASSUME NEW d \in Call, Creates(call'[d]) PROVE call'[d].req.id \notin born'
  <2>1. d # c /\ Creates(call[d]) /\ call'[d].req = call[d].req
    BY <1>4, <1>5
  <2>2. Asked(d).id \notin born /\ Asked(d).id \notin DOMAIN rows
    BY <2>1 DEF Inv, BirthsInv
  <2>3. Asked(d).id = i => i \notin DOMAIN new
    <3>1. ASSUME i \in DOMAIN new, Asked(d).id = i PROVE Asked(c).op = "create"
      BY <2>2, <3>1 DEF Effect
    <3>2. ASSUME Asked(c).op = "create" PROVE Asked(d).id # i
      BY <2>1, <3>2 DEF Inv, BirthsInv, Creates, Effect, InFlight, Asked
    <3> QED
      BY <3>1, <3>2
  <2>4. Asked(d).id \notin DOMAIN new
    BY <2>2, <2>3 DEF Effect
  <2> QED
    BY <1>2, <2>1, <2>2, <2>4 DEF Asked
<1>6. BirthsInv'
  <2>1. \A d, e \in Call : d # e /\ Creates(call'[d]) /\ Creates(call'[e]) => call'[d].req.id # call'[e].req.id
    BY <1>4 DEF Inv, BirthsInv, Asked
  <2> QED
    BY <1>2, <1>5, <2>1 DEF BirthsInv, Asked
<1> QED
  BY <1>3, <1>6

LEMMA StampsStay ==
  ASSUME Inv, NEW c \in Call, NEW new, Succeeds(c, new), Effect(c, new)
  PROVE  StampFitsStatus'
<1> DEFINE i == Asked(c).id
<1>1. raced \subseteq raced' /\ rows' = new
  BY DEF Succeeds
<1>2. ASSUME NEW j \in DOMAIN new \ raced' PROVE StampFits(TableOf[j], new[j])
  <2>1. CASE j \in DOMAIN rows /\ new[j] = rows[j]
    BY <1>1, <1>2, <2>1 DEF Inv, StampFitsStatus
  <2>2. CASE ~(j \in DOMAIN rows /\ new[j] = rows[j]) /\ j # i
    <3>1. TableOf[j] = "pipelines"
      BY <1>2, <2>2 DEF Effect
    <3> QED
      BY <3>1 DEF StampFits, StatusTables, Dated
  <2>3. CASE ~(j \in DOMAIN rows /\ new[j] = rows[j]) /\ j = i
    <3>1. j \in Changed(new)
      BY <1>2, <2>3 DEF Changed
    <3>2. c \notin stale /\ i \notin raced
      BY <1>2, <2>3, <3>1 DEF Succeeds
    <3>3. At(c, "write") /\ new[j] = NewRow(c)
      BY <1>2, <2>3 DEF Effect
    <3> QED
      BY <2>3, <3>2, <3>3, NewRowFitsStatus
  <2> QED
    BY <2>1, <2>2, <2>3
<1> QED
  BY <1>1, <1>2 DEF StampFitsStatus

\* An event and its step part only by a write of one of the three that was overtaken.
LEMMA EventsPart ==
  ASSUME Inv, NEW c \in Call, NEW new, Succeeds(c, new), Effect(c, new), NEW e, IsStepEvent(new, e),
         IsStepEvent(rows, e) => StepFits(rows, e), ~StepFits(new, e)
  PROVE  c \in stale /\ Asked(c).id \in {e, new[e].stepId, new[e].enrollmentId}
<1> DEFINE i == Asked(c).id
           st == new[e].stepId
           en == new[e].enrollmentId
<1>1. rows' = new /\ Accepts(new, Worlds[world].foreignKeys)
  BY DEF Succeeds
<1>2. e \in DOMAIN new /\ TableOf[e] = "events" /\ st # Null
  BY DEF IsStepEvent
<1>3. PointsRight(new[e]) /\ TableOf[st] = "steps" /\ TableOf[en] = "enrollments" /\ en # Null
  BY <1>1, <1>2, RowsStayTyped DEF RowsInv, PointsRight
<1>4. st \in DOMAIN new /\ en \in DOMAIN new
  BY <1>1, <1>2, <1>3, EventReferences
<1>5. CASE e = i
  <2>1. At(c, "write") /\ new[e] = NewRow(c) /\ Table(c) = "events"
    BY <1>2, <1>5 DEF Effect, Table
  <2>2. st # i /\ en # i
    BY <1>2, <1>3, <1>5
  <2>3. new[en] = rows[en] /\ new[st] = rows[st]
    BY <1>3, <1>4, <2>2 DEF Effect
  <2>4. ASSUME c \notin stale PROVE FALSE
    <3>1. rows[st].sequenceId = rows[en].sequenceId
      BY <1>2, <2>1, <2>4, NewEvent
    <3> QED
      BY <2>3, <3>1 DEF StepFits
  <2> QED
    BY <1>5, <2>4
<1>6. CASE e # i
  <2>1. e \in DOMAIN rows /\ new[e] = rows[e]
    BY <1>2, <1>6 DEF Effect
  <2>2. rows[st].sequenceId = rows[en].sequenceId
    BY <1>2, <2>1 DEF IsStepEvent, StepFits
  <2>3. st \in DOMAIN rows /\ en \in DOMAIN rows
    BY <1>2, <1>3, <2>1, EventReferences DEF Inv, RowsInv
  <2>4. EventsOf(rows, st) # {} /\ EventsOf(rows, en) # {}
    BY <1>2, <2>1 DEF EventsOf
  <2>5. ASSUME NEW j \in {st, en}, ~(j = i /\ c \in stale)
        PROVE  new[j].sequenceId = rows[j].sequenceId
    <3>1. j \in DOMAIN new /\ j \in DOMAIN rows
      BY <1>4, <2>3
    <3>2. CASE j # i
      BY <1>3, <3>1, <3>2 DEF Effect
    <3>3. CASE j = i /\ c \notin stale
      <4>1. At(c, "write") /\ new[j] = NewRow(c) /\ Table(c) \in {"steps", "enrollments"}
        BY <1>3, <3>1, <3>3 DEF Effect, Table
      <4>2. Asked(c).op # "create"
        BY <3>1, <3>3 DEF Inv, BirthsInv, Creates, Effect, InFlight, Asked
      <4>3. Asked(c).op = "update"
        BY <4>1, <4>2, NewRowIsRow
      <4> QED
        BY <2>4, <3>3, <4>1, <4>3, MovedHasNoEvents
    <3> QED
      BY <2>5, <3>2, <3>3
  <2> QED
    BY <2>2, <2>5 DEF StepFits
<1> QED
  BY <1>5, <1>6

\* A write that gives a deal a pair that does not fit was overtaken.
LEMMA PairsStay ==
  ASSUME Inv, NEW c \in Call, NEW new, Succeeds(c, new), Effect(c, new), NEW i \in DOMAIN new,
         TableOf[i] = "deals", ~PairFits(new, i),
         i \in DOMAIN rows => <<rows[i].stageId, rows[i].pipelineId>> # <<new[i].stageId, new[i].pipelineId>>
  PROVE  c \in stale /\ i = Asked(c).id
<1>1. i = Asked(c).id
  BY DEF Effect
<1>2. At(c, "write") /\ new[i] = NewRow(c) /\ Table(c) = "deals"
  BY <1>1 DEF Effect, Table
<1>3. DOMAIN rows \subseteq DOMAIN new
  BY <1>2, NewRowIsRow DEF Effect
<1>4. ASSUME c \notin stale PROVE FALSE
  <2> DEFINE s == new[i].stageId
  <2>1. \/ s = Null
        \/ s \in DOMAIN rows /\ TableOf[s] = "stages" /\ rows[s].pipelineId = new[i].pipelineId
        \/ i \in DOMAIN rows /\ s = rows[i].stageId /\ new[i].pipelineId = rows[i].pipelineId
    BY <1>1, <1>2, <1>4, NewPair
  <2>2. s \in DOMAIN rows /\ TableOf[s] = "stages" /\ rows[s].pipelineId = new[i].pipelineId
    BY <2>1 DEF PairFits
  <2>3. s \in DOMAIN new /\ new[s] = rows[s]
    BY <1>1, <1>3, <2>2 DEF Effect
  <2> QED
    BY <2>2, <2>3 DEF PairFits
<1> QED
  BY <1>1, <1>4

-----------------------------------------------------------------------------
(* Theorems *)

LEMMA ExecuteKeeps ==
  ASSUME Inv, NEW c \in Call, NEW new, Execute(c, new), Effect(c, new)
  PROVE  Inv'
<1>1. CASE Settle(c, "refused") /\ UNCHANGED Database
  BY <1>1, RefusedStep
<1>2. CASE Succeeds(c, new)
  BY <1>2, RowsStayTyped, BirthsStay, StampsStay DEF Inv
<1> QED
  BY <1>1, <1>2 DEF Execute, Succeeds

LEMMA InitInv == Init => Inv
<1> SUFFICES ASSUME Init PROVE Inv
  OBVIOUS
<1>1. /\ world \in DOMAIN Worlds /\ rows = Worlds[world].rows /\ Organization(rows, Worlds[world].foreignKeys)
      /\ born = DOMAIN rows
  BY WorldAssumption DEF Init
<1>2. RowsInv /\ StampFitsStatus
  BY <1>1 DEF RowsInv, StampFitsStatus, Organization
<1>3. BirthsInv /\ CallsInv
  BY <1>1 DEF Init, BirthsInv, CallsInv, Held, CallHeld, Creates, Idle
<1> QED
  BY <1>2, <1>3 DEF Inv

LEMMA NextInv == Inv /\ [Next]_vars => Inv'
<1> SUFFICES ASSUME Inv, [Next]_vars PROVE Inv'
  OBVIOUS
<1>1. ASSUME NEW c \in Call, NEW ask \in Worlds[world].asks, Submit(c, ask) PROVE Inv'
  BY <1>1, SubmitKeeps
<1>2. ASSUME NEW c \in Call, Step(c) PROVE Inv'
  <2>1. CASE Read(c)
    BY <2>1, ReadKeeps
  <2>2. CASE CheckRelation(c)
    BY <2>2, CheckRelationKeeps
  <2>3. CASE CheckDealStage(c)
    BY <2>3, CheckDealStageKeeps
  <2>4. CASE CheckEventRelation(c)
    BY <2>4, CheckEventRelationKeeps
  <2>5. CASE CheckHistory(c)
    BY <2>5, CheckHistoryKeeps
  <2>6. CASE CheckChildren(c)
    BY <2>6, CheckChildrenKeeps
  <2>7. CASE CheckUnique(c)
    BY <2>7, CheckUniqueKeeps
  <2>8. CASE ListDefaults(c)
    BY <2>8, ListDefaultsKeeps
  <2>9. CASE Select(c)
    BY <2>9, SelectKeeps
  <2>10. CASE Write(c)
    BY <2>10, WriteHasEffect, ExecuteKeeps
  <2>11. CASE Delete(c)
    BY <2>11, DeleteHasEffect, ExecuteKeeps
  <2> QED
    BY <1>2, <2>1, <2>2, <2>3, <2>4, <2>5, <2>6, <2>7, <2>8, <2>9, <2>10, <2>11 DEF Step
<1>3. CASE UNCHANGED vars
  BY <1>3 DEF vars, history, Inv, RowsInv, BirthsInv, CallsInv, Held, Asked, StampFitsStatus
<1> QED
  BY <1>1, <1>2, <1>3 DEF Next

LEMMA InvHolds == Spec => []Inv
BY InitInv, NextInv, PTL DEF Spec

\* A record no stale read has reached has the date its status calls for
\* (resolvePaidAt, resolveSignedAt, resolveCompletedAt and the assert...State checks).
THEOREM DatesFollowStatus == Spec => []StampFitsStatus
<1>1. Inv => StampFitsStatus
  BY DEF Inv
<1> QED
  BY <1>1, InvHolds, PTL

\* Only a statement that succeeds changes a row.
LEMMA OnlyWritesChange ==
  ASSUME Inv, [Next]_vars, rows' # rows
  PROVE  \E c \in Call : \E new : Succeeds(c, new) /\ Effect(c, new)
<1>1. PICK c \in Call : Write(c) \/ Delete(c)
  <2>1. PICK c \in Call : Step(c) \/ \E ask \in Worlds[world].asks : Submit(c, ask)
    BY DEF Next, vars
  <2>2. ASSUME NEW ask, Submit(c, ask) PROVE FALSE
    BY <2>2 DEF Submit, Database
  <2>3. CASE Step(c)
    BY <2>3 DEF Step, Database, Read, CheckRelation, CheckDealStage, CheckEventRelation, CheckHistory,
                CheckChildren, CheckUnique, ListDefaults, Select
  <2> QED
    BY <2>1, <2>2, <2>3
<1>2. PICK new : Execute(c, new) /\ Effect(c, new)
  BY <1>1, WriteHasEffect, DeleteHasEffect
<1>3. Succeeds(c, new)
  BY <1>2 DEF Execute, Succeeds, Database
<1> QED
  BY <1>2, <1>3

\* ... and the call that made it is done.
LEMMA WriterIsDone ==
  ASSUME Inv, NEW c \in Call, NEW new, Succeeds(c, new), Effect(c, new)
  PROVE  /\ InFlight(c) /\ call'[c].outcome = "done"
         /\ \A ids : c \in stale /\ Asked(c).id \in ids => WrittenOvertaken(ids)
<1>1. InFlight(c) /\ call'[c].outcome = "done"
  BY DEF Effect, Succeeds, Settle, Inv, CallsInv, Idle
<1> QED
  BY <1>1 DEF WrittenOvertaken

\* Whatever calls update, move and create deals and stages at the same time, a write
\* that nothing has overtaken gives a deal a stage of its pipeline (resolveDealGraph of
\* deals/service.ts).
THEOREM DealsNeverMixPairs == Spec => DealPairFits
<1> DEFINE Fit == \A i \in Id : PairGiven(i) => PairFits(rows', i) \/ WrittenOvertaken({i})
<1>1. ASSUME Inv, [Next]_vars, NEW i \in Id, PairGiven(i), ~PairFits(rows', i)
      PROVE  WrittenOvertaken({i})
  <2>1. i \in DOMAIN rows' /\ TableOf[i] = "deals" /\ rows' # rows
    BY <1>1 DEF PairGiven
  <2>2. PICK c \in Call : \E new : Succeeds(c, new) /\ Effect(c, new)
    BY <1>1, <2>1, OnlyWritesChange
  <2>3. Succeeds(c, rows') /\ Effect(c, rows')
    BY <2>2 DEF Succeeds
  <2>4. c \in stale /\ Asked(c).id \in {i}
    BY <1>1, <2>1, <2>3, PairsStay DEF PairGiven
  <2> QED
    BY <1>1, <2>3, <2>4, WriterIsDone
<1>2. Inv /\ [Next]_vars => [Fit]_vars
  BY <1>1
<1>3. Spec => [][Fit]_vars
  BY <1>2, InvHolds, PTL DEF Spec
<1> QED
  BY <1>3 DEF DealPairFits

\* The guards of step and enrollment history and the lookups of an event keep its step
\* and its enrollment in one sequence: only a write that was overtaken parts them
\* (assertStepHistoryMutable, assertEnrollmentHistoryMutable, assertSequenceEventRelations).
THEOREM HistoryPinsSequences == Spec => EventFitsItsStep
<1> DEFINE Fit == \A e \in Id :
                    /\ IsStepEvent(rows', e)
                    /\ IsStepEvent(rows, e) => StepFits(rows, e)
                    => StepFits(rows', e) \/ WrittenOvertaken({e, rows'[e].stepId, rows'[e].enrollmentId})
<1>1. ASSUME Inv, [Next]_vars, NEW e \in Id, IsStepEvent(rows', e),
             IsStepEvent(rows, e) => StepFits(rows, e), ~StepFits(rows', e)
      PROVE  WrittenOvertaken({e, rows'[e].stepId, rows'[e].enrollmentId})
  <2>1. rows' # rows
    BY <1>1
  <2>2. PICK c \in Call : \E new : Succeeds(c, new) /\ Effect(c, new)
    BY <1>1, <2>1, OnlyWritesChange
  <2>3. Succeeds(c, rows') /\ Effect(c, rows')
    BY <2>2 DEF Succeeds
  <2>4. c \in stale /\ Asked(c).id \in {e, rows'[e].stepId, rows'[e].enrollmentId}
    BY <1>1, <2>3, EventsPart
  <2> QED
    BY <1>1, <2>3, <2>4, WriterIsDone
<1>2. Inv /\ [Next]_vars => [Fit]_vars
  BY <1>1
<1>3. Spec => [][Fit]_vars
  BY <1>2, InvHolds, PTL DEF Spec
<1> QED
  BY <1>3 DEF EventFitsItsStep

\* No update that nothing has overtaken moves a status outside its service's
\* transitions (PAYMENT_TRANSITIONS and its siblings of contracts and imports).
THEOREM StatusesMoveAsAllowed == Spec => StatusMoves
<1> DEFINE Move == \A i \in Id : StatusChange(i) => MoveAllowed(TableOf[i], rows[i].status, rows'[i].status)
                                                    \/ WrittenOvertaken({i})
<1>1. ASSUME Inv, [Next]_vars, NEW i \in Id, StatusChange(i), ~WrittenOvertaken({i})
      PROVE  MoveAllowed(TableOf[i], rows[i].status, rows'[i].status)
  <2>1. rows' # rows /\ i \in DOMAIN rows /\ i \in DOMAIN rows' /\ TableOf[i] \in StatusTables
    BY <1>1 DEF StatusChange
  <2>2. PICK c \in Call : \E new : Succeeds(c, new) /\ Effect(c, new)
    BY <1>1, <2>1, OnlyWritesChange
  <2>3. Succeeds(c, rows') /\ Effect(c, rows')
    BY <2>2 DEF Succeeds
  <2>4. rows'[i] # rows[i] /\ i = Asked(c).id
    <3>1. TableOf[i] # "pipelines"
      BY <2>1 DEF StatusTables
    <3> QED
      BY <1>1, <2>1, <2>3, <3>1 DEF StatusChange, Effect
  <2>5. c \notin stale
    BY <1>1, <2>3, <2>4, WriterIsDone
  <2>6. At(c, "write") /\ rows'[i] = NewRow(c) /\ InFlight(c)
    BY <2>1, <2>3, <2>4 DEF Effect
  <2>7. Asked(c).op = "update"
    <3>1. Asked(c).op # "create"
      BY <1>1, <2>1, <2>4, <2>6 DEF Inv, BirthsInv, Creates, InFlight, Asked
    <3> QED
      BY <1>1, <2>6, <3>1, NewRowIsRow
  <2> QED
    BY <1>1, <2>1, <2>4, <2>5, <2>6, <2>7, NewRowFitsStatus
<1>2. Inv /\ [Next]_vars => [Move]_vars
  BY <1>1
<1>3. Spec => [][Move]_vars
  BY <1>2, InvHolds, PTL DEF Spec
<1> QED
  BY <1>3 DEF StatusMoves

\* A write that nothing has overtaken leaves a default pipeline unless it unsets it.
LEMMA DefaultStays ==
  ASSUME Inv, NEW c \in Call, NEW new, Succeeds(c, new), Effect(c, new), c \notin stale,
         Asked(c).op # "delete", HasDefault(rows), ~HasDefault(new)
  PROVE  "isDefault" \in DOMAIN Asked(c).given /\ Asked(c).given.isDefault = Null
<1> DEFINE i == Asked(c).id
           given == Asked(c).given
<1>1. PICK j \in DOMAIN rows : TableOf[j] = "pipelines" /\ rows[j].isDefault # Null
  BY DEF HasDefault
<1>2. At(c, "write") /\ j \in DOMAIN new /\ new[j].isDefault = Null
  BY <1>1 DEF Effect, HasDefault
<1>3. Asked(c).op \in {"create", "update"}
  BY <1>2, NewRowIsRow
<1>4. Asked(c).op = "create" => i \notin DOMAIN rows
  BY <1>2 DEF Inv, BirthsInv, Creates, At, InFlight, Asked
<1>5. Asked(c).op = "update" /\ TableOf[i] = "pipelines" =>
        i \in DOMAIN rows /\ NewRow(c).isDefault = After("isDefault", given, rows[i])
  <2>1. ASSUME Asked(c).op = "update", TableOf[i] = "pipelines"
        PROVE  /\ i \in DOMAIN rows
               /\ NewRow(c) = Overlay(Patch("pipelines", given, rows[i]), rows[i])
    BY <1>2, <2>1, UpdateWrites
  <2>2. ASSUME i \in DOMAIN rows, TableOf[i] = "pipelines" PROVE "isDefault" \in DOMAIN rows[i]
    BY <2>2 DEF Inv, RowsInv, IsRow, Columns, PipelineColumns
  <2>3. "pipelines" \in Tables
    BY DEF Tables, Columns
  <2> QED
    BY <2>1, <2>2, <2>3, UpdateGives
<1>6. Past(call[c], "defaults") =>
        TableOf[i] = "pipelines" /\ "isDefault" \in DOMAIN given /\ given.isDefault # Null
  BY <1>2, InFlightFacts DEF At, FitsTable, Past, Before, Asked, Kind, Given
<1>7. CASE Past(call[c], "defaults")
  <2>1. CASE Asked(c).op = "create"
    <3>1. NewRow(c) = FreshRow("pipelines", given)
      BY <1>2, <1>6, <1>7, <2>1, InFlightFacts DEF At, FreshHeld, NewRow, Kind, Given, Asked
    <3>2. FreshRow("pipelines", given).isDefault = given.isDefault
      BY <1>6, <1>7 DEF FreshRow, StatusPatch, StatusTables, Columns, PipelineColumns
    <3> QED
      BY <1>6, <1>7, <2>1, <3>1, <3>2 DEF Effect, HasDefault
  <2>2. CASE Asked(c).op = "update"
    BY <1>5, <1>6, <1>7, <2>2 DEF Effect, HasDefault, After
  <2> QED
    BY <1>3, <2>1, <2>2
<1>8. CASE ~Past(call[c], "defaults")
  <2>1. j = i
    BY <1>1, <1>2, <1>8 DEF Effect
  <2>2. new[i] = NewRow(c) /\ Asked(c).op = "update"
    BY <1>1, <1>2, <1>3, <1>4, <2>1 DEF Effect
  <2> QED
    BY <1>1, <1>2, <1>5, <2>1, <2>2 DEF After
<1> QED
  BY <1>7, <1>8

\* A default pipeline is lost only to a call that deletes or unsets it, or that was
\* overtaken (demoteOtherDefaults of pipelines/service.ts and the update beside it).
THEOREM DefaultIsKept == Spec => DefaultSurvives
<1> DEFINE Loss == \E c \in Call :
                     /\ InFlight(c) /\ call'[c].outcome = "done"
                     /\ \/ c \in stale
                        \/ Asked(c).op = "delete"
                        \/ "isDefault" \in DOMAIN Asked(c).given /\ Asked(c).given.isDefault = Null
<1>1. ASSUME Inv, [Next]_vars, HasDefault(rows), ~HasDefault(rows') PROVE Loss
  <2>1. rows' # rows
    BY <1>1
  <2>2. PICK c \in Call : \E new : Succeeds(c, new) /\ Effect(c, new)
    BY <1>1, <2>1, OnlyWritesChange
  <2>3. Succeeds(c, rows') /\ Effect(c, rows')
    BY <2>2 DEF Succeeds
  <2>4. InFlight(c) /\ call'[c].outcome = "done"
    BY <1>1, <2>3, WriterIsDone
  <2>5. c \notin stale /\ Asked(c).op # "delete" =>
          "isDefault" \in DOMAIN Asked(c).given /\ Asked(c).given.isDefault = Null
    BY <1>1, <2>3, DefaultStays
  <2> QED
    BY <2>4, <2>5
<1>2. Inv /\ [Next]_vars => [HasDefault(rows) /\ ~HasDefault(rows') => Loss]_vars
  BY <1>1
<1>3. Spec => [][HasDefault(rows) /\ ~HasDefault(rows') => Loss]_vars
  BY <1>2, InvHolds, PTL DEF Spec
<1> QED
  BY <1>3 DEF DefaultSurvives

\* Rows keep the columns of their tables, calls stay on the routes of their methods
\* and have what their next step needs.
THEOREM CallsStayOnRoute == Spec => []TypeOK
<1>1. ASSUME Inv, NEW c \in Call, InFlight(c)
      PROVE  /\ Asked(c) \in Worlds[world].asks /\ call[c].at \in DOMAIN Route(Asked(c))
             /\ \A w \in call[c].todo : w.col \in ReferenceColumns
             /\ At(c, "relations") => call[c].todo # {}
             /\ \A j \in DOMAIN call[c].others : TableOf[j] = "pipelines"
  BY <1>1, InFlightFacts DEF CallShape, Asked, At, Stands, InFlight
<1>2. Inv => TypeOK
  BY <1>1 DEF Inv, RowsInv, BirthsInv, CallsInv, Held, CallHeld, TypeOK
<1> QED
  BY <1>2, InvHolds, PTL
=============================================================================
