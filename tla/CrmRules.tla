------------------------------ MODULE CrmRules ------------------------------
(***************************************************************************)
(* What the services of packages/core/src/entities decide from the row     *)
(* they read and the columns a caller gives.  `given` is the parsed input: *)
(* a function from the columns that are not undefined to their values;     *)
(* `row` is the current row, or NoRow for a create.                        *)
(***************************************************************************)
EXTENDS CrmTables, Sequences

CONSTANT Now  \* new Date() taken by a service, as opposed to a date the caller gives

NoRow == [column \in {"status", "stamp", "stageId", "pipelineId"} |-> Null]

After(col, given, row) == IF col \in DOMAIN given THEN given[col] ELSE row[col]

-----------------------------------------------------------------------------
(* Status machines *)

PaymentMoves ==
  [unpaid   |-> {"unpaid", "pending", "paid", "failed", "canceled", "no_payment_required"},
   pending  |-> {"pending", "paid", "failed", "canceled", "refunded"},
   paid     |-> {"paid", "refunded"},
   failed   |-> {"failed", "pending", "paid", "canceled"},
   refunded |-> {"refunded"},
   canceled |-> {"canceled"},
   no_payment_required |-> {"no_payment_required"}]

ContractMoves ==
  [draft    |-> {"draft", "review", "approved", "sent", "canceled"},
   review   |-> {"review", "draft", "approved", "sent", "canceled"},
   approved |-> {"approved", "review", "sent", "signed", "expired", "canceled"},
   sent     |-> {"sent", "approved", "signed", "expired", "canceled"},
   signed   |-> {"signed", "expired"},
   expired  |-> {"expired"},
   canceled |-> {"canceled"}]

ImportMoves ==
  [pending    |-> {"pending", "processing"},
   processing |-> {"processing", "completed", "failed"},
   completed  |-> {"completed"},
   failed     |-> {"failed"}]

Moves == [payments |-> PaymentMoves, contracts |-> ContractMoves, imports |-> ImportMoves]

ASSUME ValueAssumption ==
  Now # Null /\ \A table \in DOMAIN Moves : Null \notin DOMAIN Moves[table]

\* Tasks and enrollments may move anywhere.
MoveAllowed(table, from, to) ==
  table \in DOMAIN Moves =>
    to \in DOMAIN Moves[table] /\ (from # Null => to \in Moves[table][from])

\* resolvePaidAt and resolveSignedAt: the status that sets the date, and the one
\* that keeps it.
ResolveDate(sets, keeps, status, stamp, row) ==
  CASE status = sets /\ stamp = Null ->
         IF row.status = sets THEN row.stamp ELSE Now
    [] status = keeps /\ stamp = Null -> row.stamp
    [] OTHER -> stamp

\* resolveCompletedAt of tasks.
ResolveCompletedAt(status, stamp, row) ==
  IF status = "completed" /\ stamp = Null /\ row.status # "completed" THEN Now ELSE stamp

\* The stamp that goes with the next status.
Stamp(table, given, row) ==
  LET status == After("status", given, row)
      stamp  == After("stamp", given, row) IN
  CASE table = "payments"  -> ResolveDate("paid", "refunded", status, stamp, row)
    [] table = "contracts" -> ResolveDate("signed", "expired", status, stamp, row)
    [] table = "tasks"     -> ResolveCompletedAt(status, stamp, row)
    [] table = "imports"   -> IF status \in {"completed", "failed"} /\ stamp = Null
                                THEN Now ELSE stamp
    [] OTHER               -> stamp

\* assertPaymentState, assertContractState, assertTaskCompletionState, the
\* completedAt rule of imports and assertEnrollmentState.
StateFits(table, status, stamp) ==
  CASE table = "payments"    -> /\ status = "refunded" => stamp # Null
                                /\ stamp # Null => status \in {"paid", "refunded"}
    [] table = "contracts"   -> /\ status = "expired" => stamp # Null
                                /\ stamp # Null => status \in {"signed", "expired"}
    [] table = "tasks"       -> stamp # Null => status = "completed"
    [] table = "imports"     -> stamp # Null => status \in {"completed", "failed"}
    [] table = "enrollments" -> /\ status = "exited" => stamp # Null
                                /\ status = "active" => stamp = Null

StatusTables == {"payments", "contracts", "tasks", "imports", "enrollments"}

\* A completed import cannot be given a null completedAt.
ClearsCompletion(table, given, row) ==
  /\ table = "imports" /\ After("status", given, row) \in {"completed", "failed"}
  /\ "stamp" \in DOMAIN given /\ given.stamp = Null

\* A slip: any status may follow any other.
StatusAdmittedByState(table, given, row) ==
  table \in StatusTables =>
    /\ StateFits(table, After("status", given, row), Stamp(table, given, row))
    /\ ~ClearsCompletion(table, given, row)

StatusAdmitted(table, given, row) ==
  table \in StatusTables =>
    /\ MoveAllowed(table, row.status, After("status", given, row))
    /\ StateFits(table, After("status", given, row), Stamp(table, given, row))
    /\ ~ClearsCompletion(table, given, row)

\* A slip: the date is written when the caller gives it, not when it is resolved.
StatusPatchAsGiven(table, given, row) ==
  IF table \in StatusTables /\ "stamp" \in DOMAIN given
    THEN With(given, "stamp", Stamp(table, given, row))
    ELSE given

\* The patch: what was given, and the stamp when it differs from the current one.
StatusPatch(table, given, row) ==
  IF table \in StatusTables /\ ("stamp" \in DOMAIN given \/ Stamp(table, given, row) # row.stamp)
    THEN With(given, "stamp", Stamp(table, given, row))
    ELSE given

-----------------------------------------------------------------------------
(* Relations *)

\* The references a service looks up before it writes; owners of contacts, companies
\* and deals are not looked up.
Checked(table) ==
  (Columns[table] \cap ReferenceColumns)
    \ (IF table \in {"contacts", "companies", "deals"} THEN {"userId"} ELSE {})

\* ... and the order it does so in.
Place == [stageId |-> 1, pipelineId |-> 2, sequenceId |-> 3, enrollmentId |-> 4, stepId |-> 5, tagId |-> 6,
          contactId |-> 7, companyId |-> 8, dealId |-> 9, userId |-> 10]

FirstOf(todo) == CHOOSE w \in todo : \A v \in todo : Place[w.col] <= Place[v.col]

\* The row whose existence is checked, if any: the one given; a contact's company
\* and a stage's pipeline are checked even when the current one is kept.
Wanted(table, col, given, row) ==
  CASE table = "contacts" ->
         IF col \in DOMAIN given /\ given[col] # Null THEN given[col]
         ELSE IF col \in DOMAIN row THEN row[col] ELSE Null
    [] table = "stages" -> After(col, given, row)
    [] table = "deals" /\ col \in {"stageId", "pipelineId"} ->
         IF {"stageId", "pipelineId"} \cap DOMAIN given = {} THEN Null ELSE After(col, given, row)
    [] OTHER -> IF col \in DOMAIN given THEN given[col] ELSE Null

ToCheck(table, given, row) ==
  {[col |-> col, id |-> Wanted(table, col, given, row)] :
     col \in {k \in Checked(table) : Wanted(table, k, given, row) # Null}}

\* resolveDealGraph, before it reads anything: a pipeline may not be changed or
\* cleared under a stage that stays.
DealGraphAdmitted(table, given, row) ==
  table = "deals" /\ "pipelineId" \in DOMAIN given /\ given.pipelineId \notin {row.pipelineId} \ {Null} =>
    "stageId" \in DOMAIN given \/ row.stageId = Null

\* A graph that changes is written as a pair.
DealPatch(table, given, row) ==
  IF table = "deals" /\ {"stageId", "pipelineId"} \cap DOMAIN given # {}
    THEN With(With(given, "stageId", After("stageId", given, row)), "pipelineId", After("pipelineId", given, row))
    ELSE given

Admitted(table, given, row) ==
  StatusAdmitted(table, given, row) /\ DealGraphAdmitted(table, given, row)

Patch(table, given, row) == StatusPatch(table, DealPatch(table, given, row), row)
=============================================================================
