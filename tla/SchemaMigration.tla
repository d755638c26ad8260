-------------------------- MODULE SchemaMigration --------------------------
(***************************************************************************)
(* The custom-field migration engine of packages/core: OrbitSchemaEngine   *)
(* (apply, rollback, addField, deleteField) over the migration ledger and  *)
(* the try-locks of the schema_migrations repository.                      *)
(*                                                                         *)
(* A call is one API request handled by some process.  Between two awaits  *)
(* a call runs alone; at every await any other call may run, so each       *)
(* await-delimited step of the handlers is one action here.  The           *)
(* migration row a call creates is identified with the call: an apply      *)
(* creates at most one row, under an id generated for it alone.            *)
(***************************************************************************)
EXTENDS Integers, FiniteSets

CONSTANTS
  Calls,      \* the API calls that may be made
  Fields,     \* custom field names
  Entities,   \* extensible entity types
  EntityOf,   \* the entity type a field name belongs to
  Keys,       \* idempotency keys
  NoKey,      \* an apply made without an idempotency key
  Nobody,     \* owner of a field name no definition row carries
  Seed,       \* owner of a definition made before the history starts
  NoCall,     \* "no migration row"
  NoRequest,  \* request of a call not made yet
  Requests,   \* the requests a call may carry
  Hosts,      \* operating system processes running the engine
  HostOf,     \* the process that handles a call
  LockScope,  \* "process": lockRegistry Map, "database": advisory locks
  Faults,     \* which of the faults below may happen
  Ticks       \* by how much the clock may advance between two readings

FaultKinds == {"execute", "status", "crash", "lockLoss"}

OpTypes == {"add", "delete", "rename", "update"}

(* An operation on one field; "to" is the new name of a rename.  "update"  *)
(* stands for every operation type that has no executor.                   *)
Op == [type: OpTypes, field: Fields, to: Fields]

ApplyRequest    == [kind: {"apply"}, op: Op, key: Keys \cup {NoKey},
                    confirmed: BOOLEAN]
RollbackRequest == [kind: {"rollback"}, of: Calls, confirmed: BOOLEAN]
AddFieldRequest == [kind: {"addField"}, field: Fields]

ASSUME FieldsAssumption == /\ EntityOf \in [Fields -> Entities]
                           /\ Fields \cap (Keys \cup {NoKey}) = {}
ASSUME KeysAssumption == NoKey \notin Keys
ASSUME OwnerAssumption == /\ Nobody \notin Calls /\ Seed \notin Calls
                          /\ NoCall \notin Calls /\ Nobody # Seed
ASSUME RequestsAssumption ==
  /\ Requests \subseteq ApplyRequest \cup RollbackRequest \cup AddFieldRequest
  /\ NoRequest \notin ApplyRequest \cup RollbackRequest \cup AddFieldRequest
ASSUME HostsAssumption == HostOf \in [Calls -> Hosts]
ASSUME DeploymentAssumption == /\ LockScope \in {"process", "database"}
                               /\ Faults \subseteq FaultKinds
                               /\ Ticks \subseteq Nat

VARIABLES
  fields,      \* custom_field_definitions: owner of each field name's row
  status,      \* schema_migrations.status of a call's row, "none": no row
  createdAt,   \* schema_migrations.created_at
  appliedAt,   \* schema_migrations.applied_at
  rolledBack,  \* schema_migrations.rolled_back_at is set
  locks,       \* pairs <<call, lock name>> held
  pc,          \* the await a call is at
  req,         \* the call's request
  out,         \* what the call returned or threw
  replayOf,    \* the row an idempotent result names
  clock,       \* wall clock
  done,        \* history: calls whose forward operation was committed
  undone       \* history: rows whose reverse operation was committed

ledger == <<status, createdAt, appliedAt, rolledBack>>
vars == <<fields, ledger, locks, pc, req, out, replayOf, clock, done, undone>>

Statuses == {"none", "pending", "running", "applied", "failed", "rolled_back"}

ApplySteps    == {"preview", "find", "check", "lockKey", "lockTarget",
                  "refind", "recheck", "create", "running", "execute",
                  "applied", "failed"}
RollbackSteps == {"rbCheck", "rbLock", "rbExecute", "rbMark", "rbRevert"}
UnlockSteps   == {"unlockTarget", "unlockKey"}
PcValues      == ApplySteps \cup RollbackSteps \cup UnlockSteps
                   \cup {"idle", "insert", "done", "crashed"}

Codes == {"none", "applied", "replayed", "rolled_back", "created",
          "CONFLICT", "VALIDATION_FAILED", "RESOURCE_NOT_FOUND",
          "IDEMPOTENCY_CONFLICT", "MIGRATION_CONFLICT",
          "DESTRUCTIVE_CONFIRMATION_REQUIRED", "ROLLBACK_PRECONDITION_FAILED",
          "EXECUTION_FAILED", "LEDGER_WRITE_FAILED", "LOCK_CONNECTION_LOST"}

-----------------------------------------------------------------------------
(* Operations *)

Exists(f) == fields[f] # Nobody

(* operationTarget: the lock of a rename is that of its old name only.     *)
Target(op) == op.field

Reversible(op) == op.type \in {"add", "rename"}

(* reverseOperationFor, for reversible operations.                         *)
Reverse(op) ==
  [type  |-> IF op.type = "add" THEN "delete" ELSE "rename",
   field |-> IF op.type = "add" THEN op.field ELSE op.to,
   to    |-> op.field]

(* assertApplyOperationPreconditions: the error, or "none".                *)
PreconditionError(op) ==
  CASE op.type = "add" /\ Exists(op.field)        -> "CONFLICT"
    [] op.type = "delete" /\ ~Exists(op.field)    -> "VALIDATION_FAILED"
    [] op.type = "rename" /\ ~Exists(op.field)    -> "VALIDATION_FAILED"
    [] op.type = "rename" /\ Exists(op.field)
         /\ Exists(op.to)                         -> "CONFLICT"
    [] OTHER                                      -> "none"

(* The executors: the unique index on (organization, entity, name) and the *)
(* check that exactly one metadata row was affected decide.                *)
Executable(op) ==
  \/ op.type = "add" /\ ~Exists(op.field)
  \/ op.type = "delete" /\ Exists(op.field)
  \/ op.type = "rename" /\ Exists(op.field) /\ ~Exists(op.to)

Executed(op, owner) ==
  CASE op.type = "add"    -> [fields EXCEPT ![op.field] = owner]
    [] op.type = "delete" -> [fields EXCEPT ![op.field] = Nobody]
    [] op.type = "rename" -> [fields EXCEPT ![op.to] = fields[op.field],
                                            ![op.field] = Nobody]
    [] OTHER              -> fields

-----------------------------------------------------------------------------
(* Reading the ledger *)

Rows == {m \in Calls : status[m] # "none"}
OpOf(m) == req[m].op
KeyOf(m) == req[m].key
Keyed(c) == KeyOf(c) # NoKey

(* Rows are listed newest first; created_at ties come in either order.     *)
Newest(S) == {m \in S : \A n \in S : createdAt[n] <= createdAt[m]}

KeyRows(c) == {m \in Rows : Keyed(c) /\ KeyOf(m) = KeyOf(c)}
(* Mutant: a row that is not applied counts as a match.                    *)
AppliedTwinsAnyStatus(c) == {m \in Rows : OpOf(m) = OpOf(c)}
AppliedTwins(c) == {m \in Rows : status[m] = "applied" /\ OpOf(m) = OpOf(c)}

(* classifyPreviewOperation with classifyLedgerRisk.                       *)
Destructive(op) ==
  \/ \E m \in Rows : status[m] = "running" /\ Target(OpOf(m)) = Target(op)
  \/ op.type \in {"delete", "rename"}
  \/ op.type = "add"
       /\ \/ Exists(op.field)
          \/ \E m \in Rows : /\ status[m] = "applied"
                             /\ OpOf(m).type = "add"
                             /\ OpOf(m).field = op.field
  \/ op.type = "update" /\ ~Exists(op.field)

Overlap(m, n) == EntityOf[OpOf(m).field] = EntityOf[OpOf(n).field]

(* A live row is what assertRollbackPreconditions counts as a blocker.     *)
Live(m) == status[m] = "applied" /\ ~rolledBack[m]

Blockers(m) == {n \in Rows \ {m} : /\ Live(n)
                                   /\ appliedAt[n] > appliedAt[m]
                                   /\ Overlap(m, n)}

-----------------------------------------------------------------------------
(* Locks.  Contention throws at once; nothing ever waits for a lock.       *)

Contends(c, d) == LockScope = "database" \/ HostOf[c] = HostOf[d]
(* Mutant: the result of the try-lock is ignored.                          *)
ContendedIgnored(c, name) == FALSE

Contended(c, name) == \E d \in Calls : Contends(c, d) /\ <<d, name>> \in locks

LockTargetOf(c) ==
  IF req[c].kind = "rollback" THEN Target(OpOf(req[c].of)) ELSE Target(OpOf(c))

-----------------------------------------------------------------------------
(* Moving a call *)

Goto(c, step) == pc' = [pc EXCEPT ![c] = step]
Answer(c, code) == out' = [out EXCEPT ![c] = code]

(* The await a call resumes at when it leaves from the given step: the     *)
(* "finally" blocks release what it has taken.                             *)
AfterUnlock(c) ==
  IF req[c].kind = "apply" /\ Keyed(c) THEN "unlockKey" ELSE "done"
Exit(c) ==
  IF pc[c] \in {"preview", "find", "check", "lockKey", "rbCheck", "rbLock"}
  THEN "done"
  ELSE IF pc[c] = "lockTarget" THEN AfterUnlock(c) ELSE "unlockTarget"

Leave(c, code) == Goto(c, Exit(c)) /\ Answer(c, code)

Now(t) == \E d \in Ticks : t = clock + d

storage == <<fields, ledger, done, undone>>

-----------------------------------------------------------------------------
(* apply *)

Submit(c) ==
  /\ pc[c] = "idle"
  /\ \E r \in Requests :
       /\ req' = [req EXCEPT ![c] = r]
       /\ Goto(c, CASE r.kind = "apply"    -> "preview"
                    [] r.kind = "rollback" -> "rbCheck"
                    [] r.kind = "addField" -> "insert")
  /\ UNCHANGED <<storage, locks, out, replayOf, clock>>

(* preview reads metadata and ledger; the confirmation is checked against  *)
(* that reading and never against a later one.  An idempotent result found *)
(* in between takes precedence over the missing confirmation, so the       *)
(* verdict is carried to the check in the step name.                       *)
Preview(c) ==
  /\ pc[c] = "preview"
  /\ out' = [out EXCEPT ![c] =
       IF Destructive(OpOf(c)) /\ ~req[c].confirmed
       THEN "DESTRUCTIVE_CONFIRMATION_REQUIRED" ELSE "none"]
  /\ Goto(c, "find")
  /\ UNCHANGED <<storage, locks, req, replayOf, clock>>

Replay(c, m) ==
  /\ Leave(c, "replayed")
  /\ replayOf' = [replayOf EXCEPT ![c] = m]

(* findExistingApplyMigration and resolveExistingApplyMigration: the newest *)
(* row with the key decides first, then any applied row with the checksum. *)
FindExisting(c, next) ==
  \/ \E m \in Newest(KeyRows(c)) :
       /\ OpOf(m) # OpOf(c)
       /\ Leave(c, "IDEMPOTENCY_CONFLICT")
       /\ UNCHANGED replayOf
  \/ \E m \in Newest(KeyRows(c)) :
       OpOf(m) = OpOf(c) /\ status[m] = "applied" /\ Replay(c, m)
  \/ /\ \/ KeyRows(c) = {}
        \/ \E m \in Newest(KeyRows(c)) :
             OpOf(m) = OpOf(c) /\ status[m] # "applied"
     /\ \/ /\ AppliedTwins(c) # {} /\ Keyed(c)
           /\ Leave(c, "IDEMPOTENCY_CONFLICT")
           /\ UNCHANGED replayOf
        \/ ~Keyed(c) /\ \E m \in Newest(AppliedTwins(c)) : Replay(c, m)
        \/ AppliedTwins(c) = {} /\ Goto(c, next) /\ UNCHANGED <<out, replayOf>>

(* Mutant: while its key has a row that is not applied, a call polls.      *)
FindPolling(c) ==
  /\ pc[c] = "find"
  /\ IF \A m \in KeyRows(c) : status[m] = "applied"
       THEN FindExisting(c, "check") /\ UNCHANGED <<storage, locks, req, clock>>
       ELSE UNCHANGED vars

Find(c) ==
  /\ pc[c] = "find"
  /\ FindExisting(c, "check")
  /\ UNCHANGED <<storage, locks, req, clock>>

(* Confirmation, preconditions, and the record stamped with the time.      *)
Check(c) ==
  /\ pc[c] = "check"
  /\ \/ /\ out[c] # "none"
        /\ Goto(c, "done")
        /\ UNCHANGED <<out, createdAt, clock>>
     \/ /\ out[c] = "none"
        /\ PreconditionError(OpOf(c)) # "none"
        /\ Leave(c, PreconditionError(OpOf(c)))
        /\ UNCHANGED <<createdAt, clock>>
     \/ /\ out[c] = "none"
        /\ PreconditionError(OpOf(c)) = "none"
        /\ Now(clock')
        /\ createdAt' = [createdAt EXCEPT ![c] = clock']
        /\ Goto(c, IF Keyed(c) THEN "lockKey" ELSE "lockTarget")
        /\ UNCHANGED out
  /\ UNCHANGED <<fields, status, appliedAt, rolledBack, locks, req, replayOf,
                 done, undone>>

TryLock(c, name, next) ==
  /\ \/ /\ Contended(c, name)
        /\ Leave(c, "MIGRATION_CONFLICT")
        /\ UNCHANGED locks
     \/ /\ ~Contended(c, name)
        /\ locks' = locks \cup {<<c, name>>}
        /\ Goto(c, next)
        /\ UNCHANGED out
  /\ UNCHANGED <<storage, req, replayOf, clock>>

LockKey(c) == pc[c] = "lockKey" /\ TryLock(c, KeyOf(c), "lockTarget")

LockTarget(c) == pc[c] = "lockTarget" /\ TryLock(c, LockTargetOf(c), "refind")

(* Mutant: idempotency is not checked again inside the lock.               *)
RefindSkipped(c) ==
  /\ pc[c] = "refind"
  /\ Goto(c, "recheck")
  /\ UNCHANGED <<storage, locks, req, out, replayOf, clock>>

Refind(c) ==
  /\ pc[c] = "refind"
  /\ FindExisting(c, "recheck")
  /\ UNCHANGED <<storage, locks, req, clock>>

Recheck(c) ==
  /\ pc[c] = "recheck"
  /\ \/ /\ PreconditionError(OpOf(c)) # "none"
        /\ Leave(c, PreconditionError(OpOf(c)))
     \/ /\ PreconditionError(OpOf(c)) = "none"
        /\ Goto(c, "create")
        /\ UNCHANGED out
  /\ UNCHANGED <<storage, locks, req, replayOf, clock>>

(* A ledger write outside the try block: its failure reaches the caller.   *)
LedgerWriteFails(c) ==
  /\ "status" \in Faults
  /\ Leave(c, "LEDGER_WRITE_FAILED")
  /\ UNCHANGED <<storage, locks, req, replayOf, clock>>

(* ledger.updateStatus reads the row and writes all its columns back.  All *)
(* writers of a row hold the lock of its target, so the pair is one step.  *)
SetStatus(m, value) ==
  /\ status' = [status EXCEPT ![m] = value]
  /\ UNCHANGED <<fields, createdAt, locks, req, replayOf, done, undone>>

Create(c) ==
  /\ pc[c] = "create"
  /\ \/ /\ SetStatus(c, "pending")
        /\ Goto(c, "running")
        /\ UNCHANGED <<appliedAt, rolledBack, out, clock>>
     \/ LedgerWriteFails(c)

MarkRunning(c) ==
  /\ pc[c] = "running"
  /\ \/ /\ SetStatus(c, "running")
        /\ Goto(c, "execute")
        /\ UNCHANGED <<appliedAt, rolledBack, out, clock>>
     \/ LedgerWriteFails(c)

(* Mutant: the affected-row check runs after the commit.                   *)
ExecuteCheckLate(c) ==
  /\ pc[c] = "execute"
  /\ fields' = Executed(OpOf(c), c)
  /\ done' = done \cup {c}
  /\ Goto(c, IF Executable(OpOf(c)) THEN "applied" ELSE "failed")
  /\ UNCHANGED <<ledger, locks, req, out, replayOf, clock, undone>>

(* Mutant: the failure of the transaction is not caught.                   *)
ExecuteUncaught(c) ==
  /\ pc[c] = "execute"
  /\ \/ /\ Executable(OpOf(c))
        /\ fields' = Executed(OpOf(c), c)
        /\ done' = done \cup {c}
        /\ Goto(c, "applied")
        /\ UNCHANGED out
     \/ /\ ~Executable(OpOf(c)) \/ "execute" \in Faults
        /\ Leave(c, "EXECUTION_FAILED")
        /\ UNCHANGED <<fields, done>>
  /\ UNCHANGED <<ledger, locks, req, replayOf, clock, undone>>

(* One database transaction: it commits, or it fails and changes nothing.  *)
Execute(c) ==
  /\ pc[c] = "execute"
  /\ \/ /\ Executable(OpOf(c))
        /\ fields' = Executed(OpOf(c), c)
        /\ done' = done \cup {c}
        /\ Goto(c, "applied")
     \/ /\ ~Executable(OpOf(c)) \/ "execute" \in Faults
        /\ Goto(c, "failed")
        /\ UNCHANGED <<fields, done>>
  /\ UNCHANGED <<ledger, locks, req, out, replayOf, clock, undone>>

(* The "applied" write is inside the try block: its failure is handled as  *)
(* a failed migration.                                                     *)
MarkApplied(c) ==
  /\ pc[c] = "applied"
  /\ \/ /\ SetStatus(c, "applied")
        /\ Now(clock')
        /\ appliedAt' = [appliedAt EXCEPT ![c] = clock']
        /\ Leave(c, "applied")
        /\ UNCHANGED rolledBack
     \/ /\ "status" \in Faults
        /\ Goto(c, "failed")
        /\ UNCHANGED <<storage, locks, req, out, replayOf, clock>>

(* Mutant: the catch block of apply is the one of rollback.                *)
MarkFailedAsRollback(c) ==
  /\ pc[c] = "failed"
  /\ SetStatus(c, "applied")
  /\ Leave(c, "EXECUTION_FAILED")
  /\ UNCHANGED <<appliedAt, rolledBack, clock>>

(* Mutant: the error code goes to the status column.                       *)
MarkFailedSwapped(c) ==
  /\ pc[c] = "failed"
  /\ SetStatus(c, "EXECUTION_FAILED")
  /\ Leave(c, "EXECUTION_FAILED")
  /\ UNCHANGED <<appliedAt, rolledBack, clock>>

MarkFailed(c) ==
  /\ pc[c] = "failed"
  /\ \/ /\ SetStatus(c, "failed")
        /\ Leave(c, "EXECUTION_FAILED")
        /\ UNCHANGED <<appliedAt, rolledBack, clock>>
     \/ LedgerWriteFails(c)

(* Leaving a lock's transaction: on a lost connection its commit throws.   *)
Unlock(c, name, next) ==
  /\ locks' = locks \ {<<c, name>>}
  /\ out' = [out EXCEPT ![c] =
       IF <<c, name>> \in locks THEN @ ELSE "LOCK_CONNECTION_LOST"]
  /\ Goto(c, next)
  /\ UNCHANGED <<storage, req, replayOf, clock>>

UnlockTarget(c) ==
  pc[c] = "unlockTarget" /\ Unlock(c, LockTargetOf(c), AfterUnlock(c))

UnlockKey(c) == pc[c] = "unlockKey" /\ Unlock(c, KeyOf(c), "done")

-----------------------------------------------------------------------------
(* rollback *)

(* The preconditions are read once, before the lock.                       *)
RollbackError(c) ==
  LET m == req[c].of IN
  IF m \notin Rows
    THEN "RESOURCE_NOT_FOUND"
  ELSE IF status[m] # "applied" \/ ~Reversible(OpOf(m)) \/ Blockers(m) # {}
    THEN "ROLLBACK_PRECONDITION_FAILED"
  ELSE IF ~req[c].confirmed
    THEN "DESTRUCTIVE_CONFIRMATION_REQUIRED"
    ELSE "none"

RollbackCheck(c) ==
  /\ pc[c] = "rbCheck"
  /\ \/ RollbackError(c) # "none" /\ Leave(c, RollbackError(c))
     \/ RollbackError(c) = "none" /\ Goto(c, "rbLock") /\ UNCHANGED out
  /\ UNCHANGED <<storage, locks, req, replayOf, clock>>

RollbackLock(c) == pc[c] = "rbLock" /\ TryLock(c, LockTargetOf(c), "rbExecute")

RollbackExecute(c) ==
  LET m == req[c].of
      op == Reverse(OpOf(m)) IN
  /\ pc[c] = "rbExecute"
  /\ \/ /\ Executable(op)
        /\ fields' = Executed(op, m)
        /\ undone' = undone \cup {m}
        /\ Goto(c, "rbMark")
     \/ /\ ~Executable(op) \/ "execute" \in Faults
        /\ Goto(c, "rbRevert")
        /\ UNCHANGED <<fields, undone>>
  /\ UNCHANGED <<ledger, locks, req, out, replayOf, clock, done>>

RollbackMark(c) ==
  /\ pc[c] = "rbMark"
  /\ \/ /\ SetStatus(req[c].of, "rolled_back")
        /\ rolledBack' = [rolledBack EXCEPT ![req[c].of] = TRUE]
        /\ Leave(c, "rolled_back")
        /\ UNCHANGED <<appliedAt, clock>>
     \/ /\ "status" \in Faults
        /\ Goto(c, "rbRevert")
        /\ UNCHANGED <<storage, locks, req, out, replayOf, clock>>

(* Mutant: the error of a failed rollback is swallowed.                    *)
RollbackRevertSilent(c) ==
  /\ pc[c] = "rbRevert"
  /\ SetStatus(req[c].of, "applied")
  /\ Leave(c, "rolled_back")
  /\ UNCHANGED <<appliedAt, rolledBack, clock>>

(* The catch block writes "applied" back and leaves rolled_back_at alone.  *)
RollbackRevert(c) ==
  /\ pc[c] = "rbRevert"
  /\ \/ /\ SetStatus(req[c].of, "applied")
        /\ Leave(c, "EXECUTION_FAILED")
        /\ UNCHANGED <<appliedAt, rolledBack, clock>>
     \/ LedgerWriteFails(c)

-----------------------------------------------------------------------------
(* addField: straight to the metadata table, no ledger row and no lock.    *)

InsertField(c) ==
  LET f == req[c].field IN
  /\ pc[c] = "insert"
  /\ \/ ~Exists(f) /\ fields' = [fields EXCEPT ![f] = c] /\ Answer(c, "created")
     \/ Exists(f) /\ Answer(c, "CONFLICT") /\ UNCHANGED fields
  /\ Goto(c, "done")
  /\ UNCHANGED <<ledger, locks, req, replayOf, clock, done, undone>>

-----------------------------------------------------------------------------
(* Faults *)

InFlight(c) == pc[c] \notin {"idle", "done", "crashed"}

(* A process dies: its calls stop where they are.  lockRegistry dies with  *)
(* it, and the database drops the advisory locks of its sessions.          *)
Crash(h) ==
  /\ "crash" \in Faults
  /\ \E c \in Calls : HostOf[c] = h /\ InFlight(c)
  /\ pc' = [c \in Calls |->
       IF HostOf[c] = h /\ InFlight(c) THEN "crashed" ELSE pc[c]]
  /\ locks' = {l \in locks : HostOf[l[1]] # h}
  /\ UNCHANGED <<storage, req, out, replayOf, clock>>

(* The session holding an advisory lock drops; the call does not notice.   *)
LoseLock(c) ==
  /\ "lockLoss" \in Faults /\ LockScope = "database"
  /\ \E l \in locks : l[1] = c /\ locks' = locks \ {l}
  /\ UNCHANGED <<storage, pc, req, out, replayOf, clock>>

-----------------------------------------------------------------------------
Init ==
  /\ fields \in [Fields -> {Nobody, Seed}]
  /\ status = [c \in Calls |-> "none"]
  /\ createdAt = [c \in Calls |-> 0]
  /\ appliedAt = [c \in Calls |-> 0]
  /\ rolledBack = [c \in Calls |-> FALSE]
  /\ locks = {}
  /\ pc = [c \in Calls |-> "idle"]
  /\ req = [c \in Calls |-> NoRequest]
  /\ out = [c \in Calls |-> "none"]
  /\ replayOf = [c \in Calls |-> NoCall]
  /\ clock = 0
  /\ done = {}
  /\ undone = {}

ApplyStep(c) ==
  \/ Preview(c) \/ Find(c) \/ Check(c) \/ LockKey(c) \/ LockTarget(c)
  \/ Refind(c) \/ Recheck(c) \/ Create(c) \/ MarkRunning(c) \/ Execute(c)
  \/ MarkApplied(c) \/ MarkFailed(c)

RollbackStep(c) ==
  \/ RollbackCheck(c) \/ RollbackLock(c) \/ RollbackExecute(c)
  \/ RollbackMark(c) \/ RollbackRevert(c)

Step(c) ==
  \/ ApplyStep(c) \/ RollbackStep(c) \/ InsertField(c)
  \/ UnlockTarget(c) \/ UnlockKey(c)

(* Every call that will ever be made has been made and has ended.          *)
Quiescent == (\A c \in Calls : pc[c] \in {"done", "crashed"}) /\ UNCHANGED vars

Next ==
  \/ \E c \in Calls : Submit(c) \/ Step(c) \/ LoseLock(c)
  \/ \E h \in Hosts : Crash(h)
  \/ Quiescent

(* An awaited promise settles: a call that was made keeps moving.  Nothing *)
(* obliges a client to make a call, a process to crash, a session to drop. *)
Fairness == \A c \in Calls : WF_vars(Step(c))

Spec == Init /\ [][Next]_vars
FairSpec == Spec /\ Fairness

-----------------------------------------------------------------------------
(* What must hold *)

TypeOK ==
  /\ fields \in [Fields -> Calls \cup {Nobody, Seed}]
  /\ status \in [Calls -> Statuses]
  /\ createdAt \in [Calls -> Nat]
  /\ appliedAt \in [Calls -> Nat]
  /\ rolledBack \in [Calls -> BOOLEAN]
  /\ locks \subseteq Calls \X (Fields \cup Keys)
  /\ pc \in [Calls -> PcValues]
  /\ req \in [Calls -> Requests \cup {NoRequest}]
  /\ out \in [Calls -> Codes]
  /\ replayOf \in [Calls -> Calls \cup {NoCall}]
  /\ clock \in Nat
  /\ done \subseteq Calls
  /\ undone \subseteq Calls

HoldsTarget(c) ==
  \/ pc[c] \in {"refind", "recheck", "create", "running", "execute",
                "applied", "failed", "unlockTarget"}
  \/ pc[c] \in {"rbExecute", "rbMark", "rbRevert"}
HoldsKey(c) ==
  /\ req[c] # NoRequest /\ req[c].kind = "apply" /\ Keyed(c)
  /\ pc[c] \in {"lockTarget", "refind", "recheck", "create", "running",
                "execute", "applied", "failed", "unlockTarget", "unlockKey"}

(* No two calls the deployment can see are between lock entry and lock exit *)
(* on the same migration target, apply and rollback alike.                 *)
OneExecutorPerTarget ==
  \A c, d \in Calls :
    (c # d /\ Contends(c, d) /\ HoldsTarget(c) /\ HoldsTarget(d))
      => LockTargetOf(c) # LockTargetOf(d)

(* Applies that carry the same idempotency key are serialized, whatever    *)
(* their targets: the guarantee of the outer key-scoped lock.              *)
KeyedAppliesSerialized ==
  \A c, d \in Calls :
    (c # d /\ HoldsKey(c) /\ HoldsKey(d)) => KeyOf(c) # KeyOf(d)

(* An idempotency key never has two migrations in force, even when calls   *)
(* with the key race, fail, are rolled back and are retried.               *)
OneLivePerKey ==
  \A m, n \in Rows :
    (m # n /\ Live(m) /\ Live(n) /\ Keyed(m)) => KeyOf(m) # KeyOf(n)

(* A row reads "applied", or "rolled_back" after it, only if its forward   *)
(* operation was committed.                                                *)
AppliedIsDone ==
  \A m \in Calls : status[m] \in {"applied", "rolled_back"} => m \in done

(* A row reads "failed" only if its forward operation was not committed:   *)
(* a retry of a failed migration repeats nothing.                          *)
FailedIsNotDone == \A m \in Calls : status[m] = "failed" => m \notin done

(* An idempotent result names a committed migration of the same operation, *)
(* and of the same key when the caller gave one.                           *)
ReplayNamesTwin ==
  \A c \in Calls : out[c] = "replayed" =>
    /\ replayOf[c] \in done
    /\ OpOf(replayOf[c]) = OpOf(c)
    /\ Keyed(c) => KeyOf(replayOf[c]) = KeyOf(c)

(* A caller is told "applied" only by the call that committed the change   *)
(* and wrote the row, and "rolled_back" only once the reverse is committed. *)
AnswersAreTrue ==
  \A c \in Calls :
    /\ out[c] = "applied" => c \in done /\ status[c] \in {"applied", "rolled_back"}
    /\ out[c] = "rolled_back" => req[c].of \in undone

(* Every call that is made returns: try-locks cannot deadlock.             *)
CallsReturn ==
  \A c \in Calls : (pc[c] # "idle") ~> (pc[c] \in {"done", "crashed"})

(* No row stays "running" once its process lives on, unless the write that *)
(* was to settle it failed too, and then the caller is told.               *)
RunningSettles ==
  \A c \in Calls :
    (status[c] = "running") ~>
      \/ status[c] # "running"
      \/ out[c] \in {"LEDGER_WRITE_FAILED", "LOCK_CONNECTION_LOST"}

(* The engine implements the register of migrations in force: two with one *)
(* checksum, the anchor of idempotency without a key, are never in force   *)
(* together, and one that was rolled back never is again.  In force is     *)
(* what has no rolled_back_at: a late rollback that fails writes the       *)
(* status back to "applied", and what reads the status alone (AppliedTwins *)
(* and the precondition of a rollback) takes the row for applied.          *)
Register ==
  INSTANCE MigrationRegister WITH
    Migrations <- Calls,
    Operations <- Op,
    inForce <- {[id |-> m, op |-> OpOf(m), key |-> KeyOf(m)] :
                  m \in {n \in Rows : Live(n)}},
    retired <- {m \in Calls : rolledBack[m]}

ImplementsRegister == Register!Spec

-----------------------------------------------------------------------------
(* What the sources say and the engine does not do *)

(* "Only applied schema migrations can be rolled back": the row of a       *)
(* rollback that is about to execute reads "applied".                      *)
OnlyAppliedRolledBack ==
  \A c \in Calls : pc[c] = "rbExecute" => status[req[c].of] = "applied"

=============================================================================
