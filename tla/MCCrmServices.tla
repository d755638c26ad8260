--------------------------- MODULE MCCrmServices ---------------------------
(***************************************************************************)
(* Instances of CrmServices: small organizations and what is asked of them *)
(* at the same time.                                                       *)
(***************************************************************************)
EXTENDS CrmServices, TLC

CONSTANTS p1, p2, p3, s1, s2, d1, d2, k1, k2, o1, o2, t1, t2, pay1, pay2, con1, con2, imp1,
          q1, q2, st1, st2, en1, en2, ev1, ev2, tag1, tag2, et1, et2, u1, x1, name1, first

IdTables ==
  p1 :> "pipelines" @@ p2 :> "pipelines" @@ p3 :> "pipelines" @@ s1 :> "stages" @@ s2 :> "stages"
  @@ d1 :> "deals" @@ d2 :> "deals" @@ k1 :> "contacts" @@ k2 :> "contacts" @@ o1 :> "companies" @@ o2 :> "companies"
  @@ t1 :> "tasks" @@ t2 :> "tasks" @@ pay1 :> "payments" @@ pay2 :> "payments"
  @@ con1 :> "contracts" @@ con2 :> "contracts" @@ imp1 :> "imports"
  @@ q1 :> "sequences" @@ q2 :> "sequences" @@ st1 :> "steps" @@ st2 :> "steps"
  @@ en1 :> "enrollments" @@ en2 :> "enrollments" @@ ev1 :> "events" @@ ev2 :> "events"
  @@ tag1 :> "tags" @@ tag2 :> "tags" @@ et1 :> "entityTags" @@ et2 :> "entityTags" @@ u1 :> "users"

\* TLC evaluates a constant's substitute anew at each use, a definition once: the
\* substitutes are names for definitions.
Tabled == IdTables

Create(i, given) == [op |-> "create", id |-> i, given |-> given]
Update(i, given) == [op |-> "update", id |-> i, given |-> given]
Drop(i) == [op |-> "delete", id |-> i, given |-> Nothing]

\* A row with the columns named, the others null.
Row(i, some) == i :> [col \in Columns[IdTables[i]] |-> IF col \in DOMAIN some THEN some[col] ELSE Null]
Plainly(i) == Row(i, Nothing)

\* Two pipelines, a stage of each, a deal: moves, a stage that changes pipeline.
Deals(fks) ==
  [rows |-> Row(p1, [isDefault |-> "yes"]) @@ Plainly(p2) @@ Row(s1, [pipelineId |-> p1])
            @@ Row(s2, [pipelineId |-> p2]) @@ Row(d1, [pipelineId |-> p2]) @@ Plainly(k1) @@ Plainly(o1),
   asks |-> {Update(d1, [stageId |-> s1]), Update(d1, [stageId |-> s2, pipelineId |-> Null]),
             Update(d1, [pipelineId |-> p1]), Update(d1, [stageId |-> s1, pipelineId |-> p1]),
             Update(d1, [stageId |-> Null, contactId |-> k1]),
             Create(d2, [stageId |-> s1, companyId |-> o1]),
             Update(s1, [pipelineId |-> p2]), Drop(s1), Drop(p1)},
   foreignKeys |-> fks]

\* The default pipeline: switches, renames and deletes of two pipelines.
Defaults ==
  [rows |-> Row(p1, [isDefault |-> "yes"]) @@ Plainly(p2),
   asks |-> {Create(p3, [isDefault |-> "yes"]), Update(p2, [isDefault |-> "yes"]),
             Update(p1, [isDefault |-> "yes"]), Update(p1, [isDefault |-> Null]), Update(p2, Nothing), Update(p1, Nothing),
             Drop(p1), Drop(p2)},
   foreignKeys |-> PostgresForeignKeys]

\* One payment, another that claims its external id, and their contact.
Payments(fks) ==
  [rows |-> Row(pay1, [status |-> "unpaid", externalId |-> x1]) @@ Plainly(k1),
   asks |-> {Update(pay1, [status |-> "pending"]), Update(pay1, [status |-> "paid"]),
             Update(pay1, [status |-> "canceled"]), Update(pay1, [stamp |-> first]),
             Update(pay1, [status |-> "refunded", stamp |-> Null]),
             Create(pay2, [status |-> "paid", externalId |-> x1, contactId |-> k1]),
             Create(pay2, [status |-> "refunded", stamp |-> first]), Drop(pay1), Drop(k1)},
   foreignKeys |-> fks]

\* A contract and a task, on their way to being signed and completed.
Work(fks) ==
  [rows |-> Row(con1, [status |-> "sent"]) @@ Row(t1, [status |-> "open"]) @@ Plainly(u1)
            @@ Row(imp1, [status |-> "pending"]),
   asks |-> {Update(con1, [status |-> "signed"]), Update(con1, [status |-> "expired"]),
             Update(con1, [stamp |-> first]), Update(con1, [status |-> "approved", stamp |-> Null]),
             Update(t1, [status |-> "completed"]), Update(t1, [status |-> "open", stamp |-> Null]),
             Update(t1, [stamp |-> first, userId |-> u1]),
             Update(imp1, [status |-> "processing"]), Update(imp1, [status |-> "failed"]),
             Update(imp1, [stamp |-> first]), Drop(u1)},
   foreignKeys |-> fks]

\* A contact, its company, a note and a tag.
People(fks) ==
  [rows |-> Plainly(o1) @@ Row(k1, [companyId |-> o1]) @@ Plainly(u1) @@ Row(tag1, [name |-> name1]),
   asks |-> {Update(k1, [companyId |-> Null]), Create(k2, [companyId |-> o1, userId |-> u1]),
             Create(o2, Nothing), Update(k1, [companyId |-> o2]), Drop(o1), Drop(u1),
             Create(et1, [tagId |-> tag1, entityId |-> k1]), Create(et2, [tagId |-> tag1, entityId |-> k1]),
             Create(tag2, [name |-> name1]), Drop(tag1)},
   foreignKeys |-> fks]

\* Two sequences, a step and an enrollment in the first, and an event to come.
Sequenced(fks) ==
  [rows |-> Row(q1, [name |-> name1]) @@ Plainly(q2) @@ Row(st1, [sequenceId |-> q1, order |-> first])
            @@ Row(en1, [sequenceId |-> q1, contactId |-> k1, status |-> "active"]) @@ Plainly(k1),
   asks |-> {Create(ev1, [enrollmentId |-> en1, stepId |-> st1]), Create(ev2, [enrollmentId |-> en1]),
             Update(st1, [sequenceId |-> q2]), Update(en1, [sequenceId |-> q2]),
             Update(en1, [status |-> "exited", stamp |-> first]), Update(en1, [status |-> "active"]),
             Create(en2, [sequenceId |-> q1, contactId |-> k1, status |-> "active"]),
             Drop(st1), Drop(en1), Drop(q1)},
   foreignKeys |-> fks]

AllInstances ==
  [deals        |-> Deals(PostgresForeignKeys),     dealsSqlite     |-> Deals(SqliteForeignKeys),
   payments     |-> Payments(PostgresForeignKeys),  paymentsSqlite  |-> Payments(SqliteForeignKeys),
   work         |-> Work(PostgresForeignKeys),      workSqlite      |-> Work(SqliteForeignKeys),
   people       |-> People(PostgresForeignKeys),    peopleSqlite    |-> People(SqliteForeignKeys),
   sequences    |-> Sequenced(PostgresForeignKeys), sequencesSqlite |-> Sequenced(SqliteForeignKeys),
   defaults     |-> Defaults]
PaymentInstances == [payments |-> Payments(PostgresForeignKeys), paymentsSqlite |-> Payments(SqliteForeignKeys)]
Everything == AllInstances
PaymentsOnly == PaymentInstances
Symmetry == Permutations(Call)
=============================================================================
