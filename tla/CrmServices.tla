---------------------------- MODULE CrmServices ----------------------------
(***************************************************************************)
(* Concurrent calls of the entity services over one organization's rows    *)
(* (packages/core/src/entities/*/service.ts and repositories/).  A call is *)
(* a sequence of awaited steps: each reads the committed rows or writes in *)
(* one statement, and between two steps any other call may take its own.   *)
(* That is READ COMMITTED, which Postgres gives the transactions of these  *)
(* services, and what calls on one SQLite connection see.  A transaction   *)
(* here ends with its only write, except that the switch of the default    *)
(* pipeline writes several rows, which become visible together.            *)
(***************************************************************************)
EXTENDS CrmRules

CONSTANTS Call,     \* service calls in flight
          Worlds    \* the instances explored: names to [rows, asks, foreignKeys]

VARIABLES world,    \* the name of the instance of this behaviour
          rows,     \* the database: ids to rows
          call,     \* what each call is doing: see Idle
          born,     \* history: ids that ever had a row
          stale,    \* history: calls with a read overtaken by another's write
          raced     \* history: ids written by a stale call

history == <<born, stale, raced>>
vars == <<world, rows, call, history>>

\* A call that has not been made, or has settled.
Idle ==
  [outcome |-> "none",    \* none, done or refused
   req     |-> Nothing,   \* what it asks: [op, id, given]
   at      |-> 0,         \* the step it is at, of its route; 0 when there is none
   todo    |-> {},        \* the references it has still to look up
   patch   |-> Nothing,   \* what it will write
   seen    |-> Nothing,   \* the row it read last: its own, or an event's enrollment
   others  |-> Nothing,   \* the pipelines it will demote, as it read them
   watched |-> {}]        \* history: the reads its write rests on

Init ==
  /\ world \in DOMAIN Worlds
  /\ rows = Worlds[world].rows
  /\ call = [c \in Call |-> Idle]
  /\ born = DOMAIN rows
  /\ stale = {} /\ raced = {}

Asked(c) == call[c].req
InFlight(c) == call[c].at # 0
Table(c) == TableOf[Asked(c).id]

-----------------------------------------------------------------------------
(* The steps of each service method, one per await *)

PlainPlan == [create |-> <<"relations", "write">>,
              update |-> <<"read", "relations", "select", "write">>,
              delete |-> <<"select", "delete">>]

\* payments check relations before their transaction opens.
PaymentPlan == [create |-> <<"relations", "unique", "write">>,
                update |-> <<"relations", "read", "unique", "select", "write">>,
                delete |-> <<"select", "delete">>]

StepPlan == [create |-> <<"relations", "unique", "write">>,
             update |-> <<"relations", "read", "events", "unique", "select", "write">>,
             delete |-> <<"events", "select", "delete">>]

EnrollmentPlan == [create |-> <<"relations", "unique", "write">>,
                   update |-> <<"read", "events", "relations", "unique", "select", "write">>,
                   delete |-> <<"events", "select", "delete">>]

SequencePlan == [create |-> <<"unique", "write">>,
                 update |-> <<"read", "unique", "select", "write">>,
                 delete |-> <<"children", "select", "delete">>]

TagPlan == [create |-> <<"unique", "write">>,
            update |-> <<"read", "unique", "select", "write">>,
            delete |-> <<"select", "delete">>]

\* A pipeline that becomes the default demotes the others in its transaction.
DefaultPlan == [create |-> <<"defaults", "select", "write">>,
                update |-> <<"read", "defaults", "select", "write">>,
                delete |-> <<"select", "delete">>]

\* Events are only appended; attach and detach of tags.
EventPlan == [create |-> <<"relations", "write">>]
EntityTagPlan == [create |-> <<"relations", "write">>,
                  delete |-> <<"select", "delete">>]

Plan(table, given) ==
  CASE table = "payments"    -> PaymentPlan
    [] table = "steps"       -> StepPlan
    [] table = "enrollments" -> EnrollmentPlan
    [] table = "sequences"   -> SequencePlan
    [] table = "tags"        -> TagPlan
    [] table = "events"      -> EventPlan
    [] table = "entityTags"  -> EntityTagPlan
    [] table = "pipelines" /\ "isDefault" \in DOMAIN given /\ given.isDefault # Null -> DefaultPlan
    [] OTHER                 -> PlainPlan

Route(ask) == Plan(TableOf[ask.id], ask.given)[ask.op]

\* Whether an update moves a step or an enrollment to another parent.
Reparents(table, given, row) ==
  \/ table = "steps" /\ After("sequenceId", given, row) # row.sequenceId
  \/ table = "enrollments" /\ \E col \in {"sequenceId", "contactId"} :
                                 After(col, given, row) # row[col]

\* A step that has nothing to look up is passed over.
PassRelations(route, k, refs) == IF route[k] = "relations" /\ refs = {} THEN k + 1 ELSE k
PassEvents(route, k, moves) == IF route[k] = "events" /\ ~moves THEN k + 1 ELSE k

-----------------------------------------------------------------------------
(* Calls *)

At(c, step) == InFlight(c) /\ Route(Asked(c))[call[c].at] = step

Goes(c, change) == call' = [call EXCEPT ![c] = Overlay(change, @)]
Rest(c) == call[c].at + 1
Advance(c) == Goes(c, [at |-> Rest(c)])
Settle(c, result) == call' = [call EXCEPT ![c] = [Idle EXCEPT !.outcome = result]]

Watching(c, reads) == call[c].watched \cup reads
RowRead(i) == [id |-> i, of |-> "row"]
EventsRead(i) == [id |-> i, of |-> "events"]

Database == <<world, rows, history>>

\* The row of a create has its columns from the input, the others null.
FreshRow(table, given) ==
  LET fresh == StatusPatch(table, given, NoRow) IN
  [col \in Columns[table] |-> IF col \in DOMAIN fresh THEN fresh[col] ELSE Null]

\* A call arrives; its input is parsed.
Submit(c, ask) ==
  LET table == TableOf[ask.id]
      refs  == ToCheck(table, ask.given, NoRow)
      start == PassRelations(Route(ask), 1, refs) IN
  /\ call[c] = Idle
  /\ ask.op = "create" => /\ ask.id \notin born
                          /\ \A d \in Call : InFlight(d) => Asked(d).id # ask.id
  /\ IF ask.op = "create" /\ ~Admitted(table, ask.given, NoRow)
       THEN Settle(c, "refused")
       ELSE Goes(c, [req   |-> ask,
                     at    |-> start,
                     todo  |-> IF Route(ask)[start] = "relations" THEN refs ELSE {},
                     patch |-> IF ask.op = "create" THEN FreshRow(table, ask.given) ELSE Nothing])
  /\ UNCHANGED Database

\* repository.get of the row to update, and everything decided from it.
Read(c) ==
  LET i == Asked(c).id
      given == Asked(c).given
      route == Route(Asked(c))
      refs == IF \E k \in DOMAIN route : k > call[c].at /\ route[k] = "relations"
                THEN ToCheck(Table(c), given, rows[i]) ELSE {} IN
  /\ At(c, "read")
  /\ IF i \in DOMAIN rows /\ Admitted(Table(c), given, rows[i])
       THEN Goes(c, [seen    |-> rows[i],
                     patch   |-> Patch(Table(c), given, rows[i]),
                     todo    |-> refs,
                     at      |-> PassRelations(route, PassEvents(route, Rest(c), Reparents(Table(c), given, rows[i])),
                                               refs),
                     watched |-> Watching(c, {RowRead(i)})])
       ELSE Settle(c, "refused")
  /\ UNCHANGED Database

\* The reference that is looked up, in its table; what is left to look up when it is
\* found, and where that leads.
Sought(c) == FirstOf(call[c].todo)
Found(c) == Sought(c).id \in DOMAIN rows /\ TableOf[Sought(c).id] = Refers[Sought(c).col]
Left(c) == call[c].todo \ {Sought(c)}
Onward(c, left) == IF left = {} THEN Rest(c) ELSE call[c].at
Plain(c) == /\ ~(Table(c) = "deals" /\ Sought(c).col = "stageId")
            /\ Table(c) # "events"

\* A reference that only has to exist.
CheckRelation(c) ==
  /\ At(c, "relations") /\ Plain(c)
  /\ IF Found(c) THEN Goes(c, [todo |-> Left(c), at |-> Onward(c, Left(c))])
     ELSE Settle(c, "refused")
  /\ UNCHANGED Database

\* A slip: the deal keeps the pipeline it had when its stage names another.
CheckDealStageKept(c) ==
  /\ At(c, "relations") /\ Table(c) = "deals" /\ Sought(c).col = "stageId"
  /\ IF Found(c)
       THEN Goes(c, [todo |-> Left(c), at |-> Onward(c, Left(c)), watched |-> Watching(c, {RowRead(Sought(c).id)})])
       ELSE Settle(c, "refused")
  /\ UNCHANGED Database

\* resolveDealGraph: the stage must be in the deal's pipeline, if it has one, and
\* gives it its pipeline, which is looked up next.
CheckDealStage(c) ==
  LET s == Sought(c).id
      p == rows[s].pipelineId
      left == {[col |-> "pipelineId", id |-> p]} \cup {w \in Left(c) : w.col # "pipelineId"} IN
  /\ At(c, "relations") /\ Table(c) = "deals" /\ Sought(c).col = "stageId"
  /\ IF Found(c) /\ call[c].patch.pipelineId \in {Null, p}
       THEN Goes(c, [todo |-> left, patch |-> [call[c].patch EXCEPT !.pipelineId = p],
                     watched |-> Watching(c, {RowRead(s)})])
       ELSE Settle(c, "refused")
  /\ UNCHANGED Database

\* A slip: the step of an event is only looked up.
CheckEventRelationLoose(c) ==
  /\ At(c, "relations") /\ Table(c) = "events"
  /\ IF Found(c)
       THEN Goes(c, [todo |-> Left(c), at |-> Onward(c, Left(c)), watched |-> Watching(c, {RowRead(Sought(c).id)})])
       ELSE Settle(c, "refused")
  /\ UNCHANGED Database

\* assertSequenceEventRelations: the enrollment, then the step, which must be of
\* the enrollment's sequence.
CheckEventRelation(c) ==
  LET i == Sought(c).id IN
  /\ At(c, "relations") /\ Table(c) = "events"
  /\ IF /\ Found(c)
        /\ Sought(c).col = "stepId" => rows[i].sequenceId = call[c].seen.sequenceId
       THEN Goes(c, [todo |-> Left(c), at |-> Onward(c, Left(c)), seen |-> rows[i],
                     watched |-> Watching(c, {RowRead(i)})])
       ELSE Settle(c, "refused")
  /\ UNCHANGED Database

\* A slip: an update replaces the row, so what is not given becomes null.
NewRowReplaces(c) ==
  [col \in Columns[Table(c)] |-> IF col \in DOMAIN call[c].patch THEN call[c].patch[col] ELSE Null]

\* The row a call writes: an update overlays what it read.
NewRow(c) == IF Asked(c).op = "create" THEN call[c].patch ELSE Overlay(call[c].patch, call[c].seen)

HistoryOf(i) == {e \in DOMAIN rows : TableOf[e] = "events" /\ i \in {rows[e].enrollmentId, rows[e].stepId}}

\* assertStepHistoryMutable, assertEnrollmentHistoryMutable: no events yet.
CheckHistory(c) ==
  /\ At(c, "events")
  /\ IF HistoryOf(Asked(c).id) = {}
       THEN Goes(c, [at      |-> PassRelations(Route(Asked(c)), Rest(c), call[c].todo),
                     watched |-> Watching(c, {EventsRead(Asked(c).id)})])
       ELSE Settle(c, "refused")
  /\ UNCHANGED Database

\* assertSequenceDeleteAllowed: no steps, no enrollments.  (It reads the two lists
\* side by side; what matters is that both are read before the delete.)
CheckChildren(c) ==
  /\ At(c, "children")
  /\ IF \E i \in DOMAIN rows : TableOf[i] \in {"steps", "enrollments"} /\ rows[i].sequenceId = Asked(c).id
       THEN Settle(c, "refused") ELSE Advance(c)
  /\ UNCHANGED Database

\* assertUnique...: a list of the rows that would collide with the next one.
CheckUnique(c) ==
  LET i == Asked(c).id
      next == WithRow(rows, i, NewRow(c)) IN
  /\ At(c, "unique")
  /\ IF \E j \in DOMAIN rows : Collide(next, i, j) THEN Settle(c, "refused") ELSE Advance(c)
  /\ UNCHANGED Database

\* demoteOtherDefaults lists the pipelines to demote.
ListDefaults(c) ==
  LET defaults == {j \in DOMAIN rows : TableOf[j] = "pipelines" /\ rows[j].isDefault # Null} IN
  /\ At(c, "defaults")
  /\ Goes(c, [at |-> Rest(c), others |-> [j \in defaults \ {Asked(c).id} |-> Nothing]])
  /\ UNCHANGED Database

\* The first statement of repository.update and repository.delete; a pipeline to
\* demote that is gone by now is passed over.
Select(c) ==
  LET own == IF Asked(c).op = "create" THEN {} ELSE {Asked(c).id}
      there == DOMAIN call[c].others \cap DOMAIN rows IN
  /\ At(c, "select")
  /\ IF own \subseteq DOMAIN rows
       THEN Goes(c, [at      |-> Rest(c),
                     seen    |-> IF own = {} THEN Nothing ELSE rows[Asked(c).id],
                     others  |-> [j \in there |-> rows[j]],
                     watched |-> Watching(c, {RowRead(j) : j \in there \cup own})])
       ELSE Settle(c, "refused")
  /\ UNCHANGED Database

Changed(new) == {i \in DOMAIN rows \cup DOMAIN new :
                   ~(i \in DOMAIN rows \cap DOMAIN new /\ rows[i] = new[i])}

\* What a write disturbs: the rows it changes and the histories it adds to.
Disturbed(new) ==
  {RowRead(i) : i \in Changed(new)} \cup
  UNION {{EventsRead(new[e].enrollmentId), EventsRead(new[e].stepId)} :
           e \in {i \in Changed(new) \cap DOMAIN new : TableOf[i] = "events"}}

\* A statement that the database accepts takes effect, one that it does not fails.
Execute(c, new) ==
  IF Accepts(new, Worlds[world].foreignKeys)
    THEN /\ Settle(c, "done")
         /\ rows' = new /\ born' = born \cup DOMAIN new
         /\ stale' = (stale \cup {d \in Call : InFlight(d) /\ call[d].watched \cap Disturbed(new) # {}}) \ {c}
         /\ raced' = IF c \in stale THEN raced \cup Changed(new) ELSE raced
         /\ UNCHANGED world
    ELSE Settle(c, "refused") /\ UNCHANGED Database

\* Insert, or the update of every column to what select read, overlaid by the
\* patch.  An update whose row has gone meanwhile changes nothing and succeeds.
Write(c) ==
  LET i == Asked(c).id
      others == call[c].others
      demoted == [j \in DOMAIN rows |-> IF j \in DOMAIN others
                                          THEN [others[j] EXCEPT !.isDefault = Null] ELSE rows[j]] IN
  /\ At(c, "write")
  /\ Execute(c, IF Asked(c).op = "create" \/ i \in DOMAIN rows
                  THEN WithRow(demoted, i, NewRow(c)) ELSE demoted)

Delete(c) == At(c, "delete") /\ Execute(c, WithoutRow(rows, Asked(c).id))

Step(c) ==
  \/ Read(c) \/ CheckRelation(c) \/ CheckDealStage(c) \/ CheckEventRelation(c)
  \/ CheckHistory(c) \/ CheckChildren(c) \/ CheckUnique(c)
  \/ ListDefaults(c) \/ Select(c) \/ Write(c) \/ Delete(c)

Next == \E c \in Call : Step(c) \/ \E ask \in Worlds[world].asks : Submit(c, ask)

Spec == Init /\ [][Next]_vars
-----------------------------------------------------------------------------
(* Properties *)

IsRow(i, row) == DOMAIN row = Columns[TableOf[i]]

\* The rows have the columns of their tables, and a call that is in flight has what
\* its next step needs: a check has a reference left to look up, in a table there is.
TypeOK ==
  /\ world \in DOMAIN Worlds
  /\ DOMAIN rows \subseteq Id /\ \A i \in DOMAIN rows : IsRow(i, rows[i])
  /\ DOMAIN rows \subseteq born
  /\ DOMAIN call = Call
  /\ \A c \in Call :
       /\ DOMAIN call[c] = DOMAIN Idle
       /\ InFlight(c) =>
            /\ Asked(c) \in Worlds[world].asks /\ call[c].at \in DOMAIN Route(Asked(c))
            /\ \A w \in call[c].todo : w.col \in ReferenceColumns
            /\ At(c, "relations") => call[c].todo # {}
            /\ \A j \in DOMAIN call[c].others : TableOf[j] = "pipelines"

\* This step is the write of a call whose reads had been overtaken, to one of ids.
WrittenOvertaken(ids) == \E c \in stale : InFlight(c) /\ Asked(c).id \in ids /\ call'[c].outcome = "done"

PairFits(db, i) == db[i].stageId # Null =>
                     db[i].stageId \in DOMAIN db /\ db[db[i].stageId].pipelineId = db[i].pipelineId

\* This step gives a deal the stage and the pipeline it has.
PairGiven(i) == /\ i \in DOMAIN rows' /\ TableOf[i] = "deals"
                /\ i \in DOMAIN rows => <<rows[i].stageId, rows[i].pipelineId>> # <<rows'[i].stageId, rows'[i].pipelineId>>

\* A write that gives a deal a stage and a pipeline gives it one that is, at that
\* moment, a stage of that pipeline, unless another write overtook its lookups: no
\* interleaving of updates, moves and creates mixes the choices of two calls.
DealPairFits == [][\A i \in Id : PairGiven(i) => PairFits(rows', i) \/ WrittenOvertaken({i})]_vars

\* The same for an update of a deal, whatever the interleaving: "a concurrent stage
\* move or relation delete cannot invalidate the validation between read and write"
\* (deals/service.ts:199-206).
UpdateKeepsGraph == [][\A i \in DOMAIN rows : PairGiven(i) => PairFits(rows', i)]_vars

\* The statuses of a payment, a contract and an import that carry a date.
Dated == [payments |-> {"paid", "refunded"}, contracts |-> {"signed", "expired"},
          imports |-> {"completed", "failed"}]

StampFits(table, row) ==
  /\ table \in StatusTables => StateFits(table, row.status, row.stamp)
  /\ table \in DOMAIN Dated => (row.stamp # Null <=> row.status \in Dated[table])

\* A record whose writes all rested on reads still valid has the state its service
\* requires; a payment, a contract and an import have a date exactly when they are
\* paid, signed or ended, whoever gave it and in whatever order the calls came.
StampFitsStatus == \A i \in DOMAIN rows \ raced : StampFits(TableOf[i], rows[i])

StepFits(db, e) == db[db[e].stepId].sequenceId = db[db[e].enrollmentId].sequenceId

IsStepEvent(db, e) == e \in DOMAIN db /\ TableOf[e] = "events" /\ db[e].stepId # Null

\* An event's step is of the sequence its enrollment is in.  They part, or are born
\* apart, only by a write of one of the three whose reads had been overtaken.
EventFitsItsStep ==
  [][\A e \in Id :
       /\ IsStepEvent(rows', e)
       /\ IsStepEvent(rows, e) => StepFits(rows, e)
       => StepFits(rows', e) \/ WrittenOvertaken({e, rows'[e].stepId, rows'[e].enrollmentId})]_vars

\* A step with history is not moved to another sequence, whatever the interleaving:
\* without the shared transaction "a concurrent event insert could still slip between
\* the history guard and the update" (sequence-steps/service.ts:156-162).
HistoryGuardHolds ==
  [][\A i \in DOMAIN rows \cap DOMAIN rows' :
       TableOf[i] = "steps" /\ rows[i].sequenceId # rows'[i].sequenceId => HistoryOf(i) = {}]_vars

StatusChange(i) == /\ i \in DOMAIN rows /\ i \in DOMAIN rows'
                   /\ TableOf[i] \in StatusTables /\ rows[i].status # rows'[i].status

\* A status only moves along the transitions of its service, unless the reads that
\* the write rests on had been overtaken.
StatusMoves ==
  [][\A i \in Id : StatusChange(i) => MoveAllowed(TableOf[i], rows[i].status, rows'[i].status)
                                       \/ WrittenOvertaken({i})]_vars

\* The same for payments, whatever the interleaving (payments/service.ts:263-271
\* says that sharing a transaction with the write keeps two updates from both
\* committing a forbidden transition).
NoForbiddenTransition ==
  [][\A i \in Id : StatusChange(i) => MoveAllowed(TableOf[i], rows[i].status, rows'[i].status)]_vars

HasDefault(db) == \E i \in DOMAIN db : TableOf[i] = "pipelines" /\ db[i].isDefault # Null

\* An organization does not lose its default pipeline to a switch of the default
\* that fails or to a rename: only to a call that deletes or unsets it, or whose
\* reads were overtaken.
DefaultSurvives ==
  [][HasDefault(rows) /\ ~HasDefault(rows') =>
       \E c \in Call :
         /\ InFlight(c) /\ call'[c].outcome = "done"
         /\ \/ c \in stale
            \/ Asked(c).op = "delete"
            \/ "isDefault" \in DOMAIN Asked(c).given /\ Asked(c).given.isDefault = Null]_vars
-----------------------------------------------------------------------------
(* Instances: organizations as the services leave them, on either dialect, and *)
(* requests as their schemas parse them.                                       *)

\* What the references of an event are into.
PointsRight(row) == /\ row.enrollmentId # Null /\ TableOf[row.enrollmentId] = "enrollments"
                    /\ row.stepId # Null => TableOf[row.stepId] = "steps"

Organization(db, foreignKeys) ==
  /\ DOMAIN db \subseteq Id /\ Accepts(db, foreignKeys)
  /\ \A i \in DOMAIN db :
       /\ IsRow(i, db[i])
       /\ StampFits(TableOf[i], db[i])
       /\ TableOf[i] = "events" => PointsRight(db[i])

Parsed(ask) ==
  LET table == TableOf[ask.id] IN
  /\ ask.id \in Id /\ DOMAIN ask.given \subseteq Columns[table]
  /\ ask.op \in DOMAIN Plan(table, ask.given)
  /\ table = "events" => "enrollmentId" \in DOMAIN ask.given /\ ask.given.enrollmentId # Null

ASSUME WorldAssumption ==
  \A w \in DOMAIN Worlds :
    /\ Worlds[w].foreignKeys \in {PostgresForeignKeys, SqliteForeignKeys}
    /\ Organization(Worlds[w].rows, Worlds[w].foreignKeys)
    /\ \A ask \in Worlds[w].asks : Parsed(ask)
=============================================================================
