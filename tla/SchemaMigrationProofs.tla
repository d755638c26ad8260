----------------------- MODULE SchemaMigrationProofs -----------------------
(* Theorems of SchemaMigration, for every set of calls, fields, keys,      *)
(* requests, processes and faults.                                         *)
EXTENDS SchemaMigration, TLAPS

(* The request, and the row rolled back, that a call needs at a step.      *)
Fits(c, step) ==
  /\ step \in ApplySteps \cup {"unlockKey"} => req[c] \in ApplyRequest
  /\ step \in {"lockKey", "unlockKey"} => KeyOf(c) \in Keys
  /\ step \in RollbackSteps => req[c] \in RollbackRequest
  /\ step = "insert" => req[c] \in AddFieldRequest
  /\ step = "unlockTarget" => req[c] \in ApplyRequest \cup RollbackRequest
  /\ /\ step \in {"rbLock", "rbExecute", "rbMark", "rbRevert", "unlockTarget"}
     /\ req[c] \in RollbackRequest
     => req[c].of \in Calls /\ status[req[c].of] # "none"

(* Every call is at a step that fits it, and a row belongs to an apply.    *)
RequestsMatch ==
  \A c \in Calls :
    /\ Fits(c, pc[c])
    /\ status[c] # "none" => pc[c] # "idle" /\ req[c] \in ApplyRequest

TypeInv == TypeOK /\ RequestsMatch

USE DEF ledger, storage, ApplySteps, RollbackSteps, UnlockSteps, PcValues

LEMMA TypeInit == Init => TypeInv
BY FieldsAssumption, DeploymentAssumption
   DEF Init, TypeInv, TypeOK, RequestsMatch, Fits, Statuses, Codes

(* One call moves to a step that fits it and no row disappears: every call *)
(* still is at a step that fits.                                           *)
LEMMA MatchMove ==
  ASSUME TypeInv, NEW c \in Calls, req' = req, pc[c] # "idle",
         pc' = [pc EXCEPT ![c] = pc'[c]], pc'[c] # "idle", Fits(c, pc'[c]),
         \A m \in Calls : status[m] # "none" => status'[m] # "none",
         \A m \in Calls : status'[m] # "none" =>
           status[m] # "none" \/ (m = c /\ req[c] \in ApplyRequest)
  PROVE  RequestsMatch'
BY DEF TypeInv, TypeOK, RequestsMatch, Fits, KeyOf

(* Leaving a handler releases what was taken: the next step fits the call. *)
LEMMA LeaveFits ==
  ASSUME TypeInv, NEW c \in Calls, NEW code, Leave(c, code),
         pc[c] \in ApplySteps \cup RollbackSteps
  PROVE  /\ pc[c] # "idle" /\ pc'[c] # "idle"
         /\ pc' = [pc EXCEPT ![c] = pc'[c]]
         /\ Fits(c, pc'[c])
<1>1. pc' = [pc EXCEPT ![c] = Exit(c)] /\ pc'[c] = Exit(c)
  BY DEF Leave, Goto, TypeInv, TypeOK
<1>2. Exit(c) \in {"done", "unlockTarget", "unlockKey"}
  BY DEF Exit, AfterUnlock
<1>3. Fits(c, Exit(c))
  <2>1. CASE pc[c] = "lockTarget"
    BY <2>1, KeysAssumption DEF TypeInv, RequestsMatch, Fits, Exit, AfterUnlock, Keyed,
       KeyOf, ApplyRequest, RollbackRequest
  <2>2. CASE pc[c] # "lockTarget"
    BY <2>2 DEF TypeInv, TypeOK, RequestsMatch, Fits, Exit, RollbackRequest, ApplyRequest
  <2> QED
    BY <2>1, <2>2
<1> QED
  BY <1>1, <1>2, <1>3

(* Executing an operation keeps the metadata table typed.                  *)
LEMMA ExecutedTyped ==
  ASSUME TypeOK, NEW op \in Op, NEW owner \in Calls
  PROVE  Executed(op, owner) \in [Fields -> Calls \cup {Nobody, Seed}]
BY DEF TypeOK, Op, Executed

LEMMA TypeStep == TypeInv /\ [Next]_vars => TypeInv'
<1> SUFFICES ASSUME TypeInv, [Next]_vars PROVE TypeInv'
  OBVIOUS
<1> USE FieldsAssumption, KeysAssumption, RequestsAssumption, OwnerAssumption,
        DeploymentAssumption
    DEF Goto, Answer, Leave, Exit, AfterUnlock, OpOf, KeyOf, Keyed
<1>1. ASSUME NEW c \in Calls, Submit(c) PROVE TypeInv'
  BY <1>1 DEF Submit, ApplyRequest, RollbackRequest, AddFieldRequest, TypeInv, TypeOK, RequestsMatch, Fits, Statuses, Codes
<1>2. ASSUME NEW c \in Calls, Preview(c) PROVE TypeInv'
  <2>1. TypeOK'
    BY <1>2 DEF Preview, TypeInv, TypeOK, RequestsMatch, Fits, Statuses, Codes, ApplyRequest, RollbackRequest
  <2>2. RequestsMatch'
    BY <1>2, MatchMove DEF Preview, TypeInv, TypeOK, RequestsMatch, Fits, ApplyRequest
  <2> QED
    BY <2>1, <2>2 DEF TypeInv
<1>3. ASSUME NEW c \in Calls, Find(c) PROVE TypeInv'
  <2>1. TypeOK'
    BY <1>3 DEF Find, FindExisting, Replay, Newest, KeyRows, AppliedTwins, Rows, TypeInv, TypeOK, RequestsMatch, Fits, Statuses, Codes, ApplyRequest, RollbackRequest
  <2>2. RequestsMatch'
    <3>1. pc[c] = "find" /\ req' = req /\ status' = status /\ req[c] \in ApplyRequest
      BY <1>3 DEF Find, storage, ledger, TypeInv, RequestsMatch, Fits, ApplySteps
    <3>2. (\E code : Leave(c, code)) \/ Goto(c, "done") \/ Goto(c, "check")
      BY <1>3 DEF Find, FindExisting, Replay
    <3>3. /\ pc' = [pc EXCEPT ![c] = pc'[c]] /\ pc'[c] # "idle" /\ Fits(c, pc'[c])
      <4>1. CASE \E code : Leave(c, code)
        BY <3>1, <4>1, LeaveFits DEF ApplySteps
      <4>2. CASE Goto(c, "done") \/ Goto(c, "check")
        BY <3>1, <4>2 DEF Goto, Fits, TypeInv, TypeOK, ApplySteps, RollbackSteps
      <4> QED
        BY <3>2, <4>1, <4>2
    <3> QED
      BY <3>1, <3>3, MatchMove
  <2> QED
    BY <2>1, <2>2 DEF TypeInv
<1>4. ASSUME NEW c \in Calls, Check(c) PROVE TypeInv'
  <2>1. TypeOK'
    BY <1>4 DEF Check, Now, PreconditionError, TypeInv, TypeOK, RequestsMatch, Fits, Statuses, Codes, ApplyRequest, RollbackRequest
  <2>2. RequestsMatch'
    <3>1. pc[c] = "check" /\ req' = req /\ status' = status /\ req[c] \in ApplyRequest
      BY <1>4 DEF Check, TypeInv, RequestsMatch, Fits, ApplySteps
    <3>2. \/ \E code : Leave(c, code)
          \/ Goto(c, "done") \/ Goto(c, IF Keyed(c) THEN "lockKey" ELSE "lockTarget")
      BY <1>4 DEF Check
    <3>3. Keyed(c) => KeyOf(c) \in Keys
      BY <3>1 DEF Keyed, KeyOf, ApplyRequest
    <3>4. /\ pc' = [pc EXCEPT ![c] = pc'[c]] /\ pc'[c] # "idle" /\ Fits(c, pc'[c])
      <4>1. CASE \E code : Leave(c, code)
        BY <3>1, <4>1, LeaveFits DEF ApplySteps
      <4>2. CASE Goto(c, "done") \/ Goto(c, IF Keyed(c) THEN "lockKey" ELSE "lockTarget")
        BY <3>1, <3>3, <4>2 DEF Goto, Fits, TypeInv, TypeOK, ApplySteps, RollbackSteps
      <4> QED
        BY <3>2, <4>1, <4>2
    <3> QED
      BY <3>1, <3>4, MatchMove
  <2> QED
    BY <2>1, <2>2 DEF TypeInv
<1>5. ASSUME NEW c \in Calls, LockKey(c) PROVE TypeInv'
  <2>1. TypeOK'
    BY <1>5, SMTT(40) DEF LockKey, TryLock, TypeInv, TypeOK, RequestsMatch, Fits, Statuses, Codes, ApplyRequest, RollbackRequest
  <2>2. RequestsMatch'
    BY <1>5, MatchMove DEF LockKey, TryLock, TypeInv, TypeOK, RequestsMatch, Fits, ApplyRequest
  <2> QED
    BY <2>1, <2>2 DEF TypeInv
<1>6. ASSUME NEW c \in Calls, LockTarget(c) PROVE TypeInv'
  <2>1. TypeOK'
    BY <1>6 DEF LockTarget, TryLock, LockTargetOf, Target, Op, TypeInv, TypeOK, RequestsMatch, Fits, Statuses, Codes, ApplyRequest, RollbackRequest
  <2>2. RequestsMatch'
    <3>1. pc[c] = "lockTarget" /\ req' = req /\ status' = status /\ req[c] \in ApplyRequest
      BY <1>6 DEF LockTarget, TryLock, storage, ledger, TypeInv, RequestsMatch, Fits, ApplySteps
    <3>2. /\ pc' = [pc EXCEPT ![c] = pc'[c]] /\ pc'[c] # "idle" /\ Fits(c, pc'[c])
      <4>1. CASE Leave(c, "MIGRATION_CONFLICT")
        BY <3>1, <4>1, LeaveFits DEF ApplySteps
      <4>2. CASE Goto(c, "refind")
        BY <3>1, <4>2 DEF Goto, Fits, TypeInv, TypeOK, RollbackSteps
      <4> QED
        BY <1>6, <4>1, <4>2 DEF LockTarget, TryLock
    <3> QED
      BY <3>1, <3>2, MatchMove
  <2> QED
    BY <2>1, <2>2 DEF TypeInv
<1>7. ASSUME NEW c \in Calls, Refind(c) PROVE TypeInv'
  <2>1. TypeOK'
    BY <1>7 DEF Refind, FindExisting, Replay, Newest, KeyRows, AppliedTwins, Rows, TypeInv, TypeOK, RequestsMatch, Fits, Statuses, Codes, ApplyRequest, RollbackRequest
  <2>2. RequestsMatch'
    <3>1. /\ pc[c] # "idle" /\ req' = req
          /\ pc' = [pc EXCEPT ![c] = pc'[c]] /\ pc'[c] # "idle" /\ Fits(c, pc'[c])
      BY <1>7, LeaveFits DEF Refind, FindExisting, Replay, TypeInv, TypeOK, RequestsMatch, Fits
    <3>2. \A m \in Calls : /\ status[m] # "none" => status'[m] # "none"
                           /\ status'[m] # "none" =>
                                status[m] # "none" \/ (m = c /\ req[c] \in ApplyRequest)
      BY <1>7 DEF Refind, FindExisting, Replay, TypeInv, TypeOK, RequestsMatch, Fits
    <3> QED
      BY <3>1, <3>2, MatchMove
  <2> QED
    BY <2>1, <2>2 DEF TypeInv
<1>8. ASSUME NEW c \in Calls, Recheck(c) PROVE TypeInv'
  <2>1. TypeOK'
    BY <1>8 DEF Recheck, PreconditionError, TypeInv, TypeOK, RequestsMatch, Fits, Statuses, Codes, ApplyRequest, RollbackRequest
  <2>2. RequestsMatch'
    <3>1. /\ pc[c] # "idle" /\ req' = req
          /\ pc' = [pc EXCEPT ![c] = pc'[c]] /\ pc'[c] # "idle" /\ Fits(c, pc'[c])
      BY <1>8, LeaveFits DEF Recheck, TypeInv, TypeOK, RequestsMatch, Fits
    <3>2. \A m \in Calls : /\ status[m] # "none" => status'[m] # "none"
                           /\ status'[m] # "none" =>
                                status[m] # "none" \/ (m = c /\ req[c] \in ApplyRequest)
      BY <1>8 DEF Recheck, TypeInv, TypeOK, RequestsMatch, Fits
    <3> QED
      BY <3>1, <3>2, MatchMove
  <2> QED
    BY <2>1, <2>2 DEF TypeInv
<1>9. ASSUME NEW c \in Calls, Create(c) PROVE TypeInv'
  <2>1. TypeOK'
    BY <1>9, SMTT(40) DEF Create, SetStatus, LedgerWriteFails, TypeInv, TypeOK, RequestsMatch, Fits, Statuses, Codes, ApplyRequest, RollbackRequest
  <2>2. RequestsMatch'
    <3>1. /\ pc[c] # "idle" /\ req' = req
          /\ pc' = [pc EXCEPT ![c] = pc'[c]] /\ pc'[c] # "idle" /\ Fits(c, pc'[c])
      BY <1>9, LeaveFits DEF Create, SetStatus, LedgerWriteFails, TypeInv, TypeOK, RequestsMatch, Fits
    <3>2. \A m \in Calls : /\ status[m] # "none" => status'[m] # "none"
                           /\ status'[m] # "none" =>
                                status[m] # "none" \/ (m = c /\ req[c] \in ApplyRequest)
      BY <1>9 DEF Create, SetStatus, LedgerWriteFails, TypeInv, TypeOK, RequestsMatch, Fits
    <3> QED
      BY <3>1, <3>2, MatchMove
  <2> QED
    BY <2>1, <2>2 DEF TypeInv
<1>10. ASSUME NEW c \in Calls, MarkRunning(c) PROVE TypeInv'
  <2>1. TypeOK'
    BY <1>10 DEF MarkRunning, SetStatus, LedgerWriteFails, TypeInv, TypeOK, RequestsMatch, Fits, Statuses, Codes, ApplyRequest, RollbackRequest
  <2>2. RequestsMatch'
    <3>1. /\ pc[c] # "idle" /\ req' = req
          /\ pc' = [pc EXCEPT ![c] = pc'[c]] /\ pc'[c] # "idle" /\ Fits(c, pc'[c])
      BY <1>10, LeaveFits DEF MarkRunning, SetStatus, LedgerWriteFails, TypeInv, TypeOK, RequestsMatch, Fits
    <3>2. \A m \in Calls : /\ status[m] # "none" => status'[m] # "none"
                           /\ status'[m] # "none" =>
                                status[m] # "none" \/ (m = c /\ req[c] \in ApplyRequest)
      BY <1>10 DEF MarkRunning, SetStatus, LedgerWriteFails, TypeInv, TypeOK, RequestsMatch, Fits
    <3> QED
      BY <3>1, <3>2, MatchMove
  <2> QED
    BY <2>1, <2>2 DEF TypeInv
<1>11. ASSUME NEW c \in Calls, Execute(c) PROVE TypeInv'
  <2>1. TypeOK'
    <3>1. OpOf(c) \in Op
      BY <1>11 DEF Execute, TypeInv, RequestsMatch, Fits, ApplyRequest
    <3>2. fields' \in [Fields -> Calls \cup {Nobody, Seed}]
      BY <1>11, <3>1, ExecutedTyped DEF Execute, TypeInv, TypeOK
    <3> QED
      BY <1>11, <3>2 DEF Execute, TypeInv, TypeOK
  <2>2. RequestsMatch'
    <3>1. /\ pc[c] # "idle" /\ req' = req
          /\ pc' = [pc EXCEPT ![c] = pc'[c]] /\ pc'[c] # "idle" /\ Fits(c, pc'[c])
      BY <1>11, LeaveFits DEF Execute, TypeInv, TypeOK, RequestsMatch, Fits
    <3>2. \A m \in Calls : /\ status[m] # "none" => status'[m] # "none"
                           /\ status'[m] # "none" =>
                                status[m] # "none" \/ (m = c /\ req[c] \in ApplyRequest)
      BY <1>11 DEF Execute, TypeInv, TypeOK, RequestsMatch, Fits
    <3> QED
      BY <3>1, <3>2, MatchMove
  <2> QED
    BY <2>1, <2>2 DEF TypeInv
<1>12. ASSUME NEW c \in Calls, MarkApplied(c) PROVE TypeInv'
  <2>1. TypeOK'
    BY <1>12 DEF MarkApplied, SetStatus, Now, TypeInv, TypeOK, RequestsMatch, Fits, Statuses, Codes, ApplyRequest, RollbackRequest
  <2>2. RequestsMatch'
    <3>1. /\ pc[c] # "idle" /\ req' = req
          /\ pc' = [pc EXCEPT ![c] = pc'[c]] /\ pc'[c] # "idle" /\ Fits(c, pc'[c])
      BY <1>12, LeaveFits DEF MarkApplied, SetStatus, TypeInv, TypeOK, RequestsMatch, Fits
    <3>2. \A m \in Calls : /\ status[m] # "none" => status'[m] # "none"
                           /\ status'[m] # "none" =>
                                status[m] # "none" \/ (m = c /\ req[c] \in ApplyRequest)
      BY <1>12 DEF MarkApplied, SetStatus, TypeInv, TypeOK, RequestsMatch, Fits
    <3> QED
      BY <3>1, <3>2, MatchMove
  <2> QED
    BY <2>1, <2>2 DEF TypeInv
<1>13. ASSUME NEW c \in Calls, MarkFailed(c) PROVE TypeInv'
  <2>1. TypeOK'
    BY <1>13 DEF MarkFailed, SetStatus, LedgerWriteFails, TypeInv, TypeOK, RequestsMatch, Fits, Statuses, Codes, ApplyRequest, RollbackRequest
  <2>2. RequestsMatch'
    <3>1. /\ pc[c] # "idle" /\ req' = req
          /\ pc' = [pc EXCEPT ![c] = pc'[c]] /\ pc'[c] # "idle" /\ Fits(c, pc'[c])
      BY <1>13, LeaveFits DEF MarkFailed, SetStatus, LedgerWriteFails, TypeInv, TypeOK, RequestsMatch, Fits
    <3>2. \A m \in Calls : /\ status[m] # "none" => status'[m] # "none"
                           /\ status'[m] # "none" =>
                                status[m] # "none" \/ (m = c /\ req[c] \in ApplyRequest)
      BY <1>13 DEF MarkFailed, SetStatus, LedgerWriteFails, TypeInv, TypeOK, RequestsMatch, Fits
    <3> QED
      BY <3>1, <3>2, MatchMove
  <2> QED
    BY <2>1, <2>2 DEF TypeInv
<1>14. ASSUME NEW c \in Calls, UnlockTarget(c) PROVE TypeInv'
  <2>1. TypeOK'
    BY <1>14 DEF UnlockTarget, Unlock, TypeInv, TypeOK, RequestsMatch, Fits, Statuses, Codes, ApplyRequest, RollbackRequest
  <2>2. RequestsMatch'
    BY <1>14, MatchMove DEF UnlockTarget, Unlock, TypeInv, TypeOK, RequestsMatch, Fits, ApplyRequest, RollbackRequest
  <2> QED
    BY <2>1, <2>2 DEF TypeInv
<1>15. ASSUME NEW c \in Calls, UnlockKey(c) PROVE TypeInv'
  <2>1. TypeOK'
    BY <1>15 DEF UnlockKey, Unlock, TypeInv, TypeOK, RequestsMatch, Fits, Statuses, Codes, ApplyRequest, RollbackRequest
  <2>2. RequestsMatch'
    BY <1>15, MatchMove DEF UnlockKey, Unlock, TypeInv, TypeOK, RequestsMatch, Fits, ApplyRequest
  <2> QED
    BY <2>1, <2>2 DEF TypeInv
<1>16. ASSUME NEW c \in Calls, RollbackCheck(c) PROVE TypeInv'
  <2>1. TypeOK'
    BY <1>16 DEF RollbackCheck, RollbackError, Rows, TypeInv, TypeOK, RequestsMatch, Fits, Statuses, Codes, ApplyRequest, RollbackRequest
  <2>2. RequestsMatch'
    BY <1>16, MatchMove DEF RollbackCheck, RollbackError, Rows, TypeInv, TypeOK, RequestsMatch, Fits, ApplyRequest, RollbackRequest
  <2> QED
    BY <2>1, <2>2 DEF TypeInv
<1>17. ASSUME NEW c \in Calls, RollbackLock(c) PROVE TypeInv'
  <2>1. TypeOK'
    BY <1>17 DEF RollbackLock, TryLock, LockTargetOf, Target, Op, TypeInv, TypeOK, RequestsMatch, Fits, Statuses, Codes, ApplyRequest, RollbackRequest
  <2>2. RequestsMatch'
    <3>1. /\ pc[c] = "rbLock" /\ req' = req /\ status' = status /\ req[c] \in RollbackRequest
          /\ req[c].of \in Calls /\ status[req[c].of] # "none"
      BY <1>17 DEF RollbackLock, TryLock, storage, ledger, TypeInv, RequestsMatch, Fits, RollbackSteps
    <3>2. /\ pc' = [pc EXCEPT ![c] = pc'[c]] /\ pc'[c] # "idle" /\ Fits(c, pc'[c])
      <4>1. CASE Leave(c, "MIGRATION_CONFLICT")
        BY <3>1, <4>1, LeaveFits DEF RollbackSteps
      <4>2. CASE Goto(c, "rbExecute")
        BY <3>1, <4>2 DEF Goto, Fits, TypeInv, TypeOK, ApplySteps
      <4> QED
        BY <1>17, <4>1, <4>2 DEF RollbackLock, TryLock
    <3> QED
      BY <3>1, <3>2, MatchMove
  <2> QED
    BY <2>1, <2>2 DEF TypeInv
<1>18. ASSUME NEW c \in Calls, RollbackExecute(c) PROVE TypeInv'
  <2>1. TypeOK'
    <3>1. req[c].of \in Calls /\ Reverse(OpOf(req[c].of)) \in Op
      BY <1>18 DEF RollbackExecute, Reverse, Op, OpTypes, TypeInv, RequestsMatch, Fits, ApplyRequest, RollbackRequest
    <3>2. fields' \in [Fields -> Calls \cup {Nobody, Seed}]
      BY <1>18, <3>1, ExecutedTyped DEF RollbackExecute, TypeInv, TypeOK
    <3> QED
      BY <1>18, <3>1, <3>2 DEF RollbackExecute, TypeInv, TypeOK
  <2>2. RequestsMatch'
    <3>1. /\ pc[c] # "idle" /\ req' = req
          /\ pc' = [pc EXCEPT ![c] = pc'[c]] /\ pc'[c] # "idle" /\ Fits(c, pc'[c])
      BY <1>18, LeaveFits DEF RollbackExecute, TypeInv, TypeOK, RequestsMatch, Fits, RollbackRequest
    <3>2. \A m \in Calls : /\ status[m] # "none" => status'[m] # "none"
                           /\ status'[m] # "none" =>
                                status[m] # "none" \/ (m = c /\ req[c] \in ApplyRequest)
      BY <1>18 DEF RollbackExecute, TypeInv, TypeOK, RequestsMatch, Fits
    <3> QED
      BY <3>1, <3>2, MatchMove
  <2> QED
    BY <2>1, <2>2 DEF TypeInv
<1>19. ASSUME NEW c \in Calls, RollbackMark(c) PROVE TypeInv'
  <2>1. TypeOK'
    BY <1>19, ZenonT(40) DEF RollbackMark, SetStatus, TypeInv, TypeOK, RequestsMatch, Fits, Statuses, Codes, ApplyRequest, RollbackRequest
  <2>2. RequestsMatch'
    BY <1>19, MatchMove DEF RollbackMark, SetStatus, TypeInv, TypeOK, RequestsMatch, Fits, ApplyRequest, RollbackRequest
  <2> QED
    BY <2>1, <2>2 DEF TypeInv
<1>20. ASSUME NEW c \in Calls, RollbackRevert(c) PROVE TypeInv'
  <2>1. TypeOK'
    BY <1>20 DEF RollbackRevert, SetStatus, LedgerWriteFails, TypeInv, TypeOK, RequestsMatch, Fits, Statuses, Codes, ApplyRequest, RollbackRequest
  <2>2. RequestsMatch'
    BY <1>20, MatchMove DEF RollbackRevert, SetStatus, LedgerWriteFails, TypeInv, TypeOK, RequestsMatch, Fits, ApplyRequest, RollbackRequest
  <2> QED
    BY <2>1, <2>2 DEF TypeInv
<1>21. ASSUME NEW c \in Calls, InsertField(c) PROVE TypeInv'
  <2>1. TypeOK'
    BY <1>21 DEF InsertField, TypeInv, TypeOK, RequestsMatch, Fits, Statuses, Codes, AddFieldRequest
  <2>2. RequestsMatch'
    BY <1>21, MatchMove DEF InsertField, TypeInv, TypeOK, RequestsMatch, Fits, ApplyRequest
  <2> QED
    BY <2>1, <2>2 DEF TypeInv
<1>22. ASSUME NEW c \in Calls, LoseLock(c) PROVE TypeInv'
  BY <1>22 DEF LoseLock, TypeInv, TypeOK, RequestsMatch, Fits, Statuses, Codes
<1>23. ASSUME NEW h \in Hosts, Crash(h) PROVE TypeInv'
  BY <1>23 DEF Crash, InFlight, TypeInv, TypeOK, RequestsMatch, Fits
<1>24. CASE UNCHANGED vars
  BY <1>24 DEF vars, TypeInv, TypeOK, RequestsMatch, Fits
<1> QED
  BY <1>1, <1>2, <1>3, <1>4, <1>5, <1>6, <1>7, <1>8, <1>9, <1>10, <1>11, <1>12, <1>13, <1>14, <1>15, <1>16, <1>17, <1>18, <1>19, <1>20, <1>21, <1>22, <1>23, <1>24
     DEF Next, Step, ApplyStep, RollbackStep, Quiescent

(* Every variable keeps its type, and a call's step fits its request.      *)
THEOREM TypeCorrect == Spec => []TypeOK
<1>1. Spec => []TypeInv
  BY TypeInit, TypeStep, PTL DEF Spec
<1>2. TypeInv => TypeOK
  BY DEF TypeInv
<1> QED
  BY <1>1, <1>2, PTL
-----------------------------------------------------------------------------
(* Mutual exclusion *)

(* A call between lock entry and lock exit owns the lock, and a lock has   *)
(* one owner among the calls that see each other's locks.                  *)
LockInv ==
  /\ \A c \in Calls : HoldsTarget(c) => <<c, LockTargetOf(c)>> \in locks
  /\ \A c \in Calls : HoldsKey(c) => <<c, KeyOf(c)>> \in locks
  /\ \A c, d \in Calls : \A name \in Fields \cup Keys :
       (<<c, name>> \in locks /\ <<d, name>> \in locks /\ Contends(c, d)) => c = d

(* A call that moves inside, or outside, the locked part keeps its locks.  *)
LEMMA LockFrame ==
  ASSUME TypeInv, LockInv, NEW c \in Calls, req' = req, locks' = locks,
         pc' = [pc EXCEPT ![c] = pc'[c]],
         HoldsTarget(c)' => HoldsTarget(c), HoldsKey(c)' => HoldsKey(c)
  PROVE  LockInv'
<1>1. \A d \in Calls : /\ HoldsTarget(d)' => HoldsTarget(d)
                       /\ HoldsKey(d)' => HoldsKey(d)
                       /\ LockTargetOf(d)' = LockTargetOf(d)
                       /\ KeyOf(d)' = KeyOf(d)
  BY DEF TypeInv, TypeOK, HoldsTarget, HoldsKey, LockTargetOf, KeyOf, Keyed, OpOf, Target
<1>2. \A d, e \in Calls : Contends(d, e)' <=> Contends(d, e)
  BY DEF Contends
<1> QED
  BY <1>1, <1>2 DEF LockInv

(* No step but the loss of a session gives up a lock before its exit.      *)
LEMMA LockStep ==
  ASSUME TypeInv, LockInv, "lockLoss" \notin Faults, [Next]_vars
  PROVE  LockInv'
<1> USE FieldsAssumption, KeysAssumption
<1>1. ASSUME NEW c \in Calls, Preview(c) PROVE LockInv'
  <2>1. /\ req' = req /\ locks' = locks /\ pc' = [pc EXCEPT ![c] = pc'[c]]
        /\ HoldsTarget(c)' => HoldsTarget(c)
        /\ HoldsKey(c)' => HoldsKey(c)
    BY <1>1 DEF Preview, Goto, Leave, Answer, Exit, AfterUnlock, HoldsTarget, HoldsKey,
       TypeInv, TypeOK, RequestsMatch, Fits, ApplyRequest, Keyed, KeyOf
  <2> QED
    BY <2>1, LockFrame
<1>2. ASSUME NEW c \in Calls, Find(c) PROVE LockInv'
  <2>1. /\ req' = req /\ locks' = locks /\ pc' = [pc EXCEPT ![c] = pc'[c]]
        /\ HoldsTarget(c)' => HoldsTarget(c)
        /\ HoldsKey(c)' => HoldsKey(c)
    BY <1>2 DEF Find, FindExisting, Replay, Goto, Leave, Answer, Exit, AfterUnlock, HoldsTarget, HoldsKey,
       TypeInv, TypeOK, RequestsMatch, Fits, ApplyRequest, Keyed, KeyOf
  <2> QED
    BY <2>1, LockFrame
<1>3. ASSUME NEW c \in Calls, Check(c) PROVE LockInv'
  <2>1. /\ req' = req /\ locks' = locks /\ pc' = [pc EXCEPT ![c] = pc'[c]]
        /\ HoldsTarget(c)' => HoldsTarget(c)
        /\ HoldsKey(c)' => HoldsKey(c)
    BY <1>3 DEF Check, Goto, Leave, Answer, Exit, AfterUnlock, HoldsTarget, HoldsKey,
       TypeInv, TypeOK, RequestsMatch, Fits, ApplyRequest, Keyed, KeyOf
  <2> QED
    BY <2>1, LockFrame
<1>4. ASSUME NEW c \in Calls, Refind(c) PROVE LockInv'
  <2>1. /\ req' = req /\ locks' = locks /\ pc' = [pc EXCEPT ![c] = pc'[c]]
        /\ HoldsTarget(c)' => HoldsTarget(c)
        /\ HoldsKey(c)' => HoldsKey(c)
    BY <1>4 DEF Refind, FindExisting, Replay, Goto, Leave, Answer, Exit, AfterUnlock, HoldsTarget, HoldsKey,
       TypeInv, TypeOK, RequestsMatch, Fits, ApplyRequest, Keyed, KeyOf
  <2> QED
    BY <2>1, LockFrame
<1>5. ASSUME NEW c \in Calls, Recheck(c) PROVE LockInv'
  <2>1. /\ req' = req /\ locks' = locks /\ pc' = [pc EXCEPT ![c] = pc'[c]]
        /\ HoldsTarget(c)' => HoldsTarget(c)
        /\ HoldsKey(c)' => HoldsKey(c)
    BY <1>5 DEF Recheck, Goto, Leave, Answer, Exit, AfterUnlock, HoldsTarget, HoldsKey,
       TypeInv, TypeOK, RequestsMatch, Fits, ApplyRequest, Keyed, KeyOf
  <2> QED
    BY <2>1, LockFrame
<1>6. ASSUME NEW c \in Calls, Create(c) PROVE LockInv'
  <2>1. /\ req' = req /\ locks' = locks /\ pc' = [pc EXCEPT ![c] = pc'[c]]
        /\ HoldsTarget(c)' => HoldsTarget(c)
        /\ HoldsKey(c)' => HoldsKey(c)
    BY <1>6 DEF Create, SetStatus, LedgerWriteFails, Goto, Leave, Answer, Exit, AfterUnlock, HoldsTarget, HoldsKey,
       TypeInv, TypeOK, RequestsMatch, Fits, ApplyRequest, Keyed, KeyOf
  <2> QED
    BY <2>1, LockFrame
<1>7. ASSUME NEW c \in Calls, MarkRunning(c) PROVE LockInv'
  <2>1. /\ req' = req /\ locks' = locks /\ pc' = [pc EXCEPT ![c] = pc'[c]]
        /\ HoldsTarget(c)' => HoldsTarget(c)
        /\ HoldsKey(c)' => HoldsKey(c)
    BY <1>7 DEF MarkRunning, SetStatus, LedgerWriteFails, Goto, Leave, Answer, Exit, AfterUnlock, HoldsTarget, HoldsKey,
       TypeInv, TypeOK, RequestsMatch, Fits, ApplyRequest, Keyed, KeyOf
  <2> QED
    BY <2>1, LockFrame
<1>8. ASSUME NEW c \in Calls, Execute(c) PROVE LockInv'
  <2>1. /\ req' = req /\ locks' = locks /\ pc' = [pc EXCEPT ![c] = pc'[c]]
        /\ HoldsTarget(c)' => HoldsTarget(c)
        /\ HoldsKey(c)' => HoldsKey(c)
    BY <1>8 DEF Execute, Goto, Leave, Answer, Exit, AfterUnlock, HoldsTarget, HoldsKey,
       TypeInv, TypeOK, RequestsMatch, Fits, ApplyRequest, Keyed, KeyOf
  <2> QED
    BY <2>1, LockFrame
<1>9. ASSUME NEW c \in Calls, MarkApplied(c) PROVE LockInv'
  <2>1. /\ req' = req /\ locks' = locks /\ pc' = [pc EXCEPT ![c] = pc'[c]]
        /\ HoldsTarget(c)' => HoldsTarget(c)
        /\ HoldsKey(c)' => HoldsKey(c)
    BY <1>9 DEF MarkApplied, SetStatus, Goto, Leave, Answer, Exit, AfterUnlock, HoldsTarget, HoldsKey,
       TypeInv, TypeOK, RequestsMatch, Fits, ApplyRequest, Keyed, KeyOf
  <2> QED
    BY <2>1, LockFrame
<1>10. ASSUME NEW c \in Calls, MarkFailed(c) PROVE LockInv'
  <2>1. /\ req' = req /\ locks' = locks /\ pc' = [pc EXCEPT ![c] = pc'[c]]
        /\ HoldsTarget(c)' => HoldsTarget(c)
        /\ HoldsKey(c)' => HoldsKey(c)
    BY <1>10 DEF MarkFailed, SetStatus, LedgerWriteFails, Goto, Leave, Answer, Exit, AfterUnlock, HoldsTarget, HoldsKey,
       TypeInv, TypeOK, RequestsMatch, Fits, ApplyRequest, Keyed, KeyOf
  <2> QED
    BY <2>1, LockFrame
<1>11. ASSUME NEW c \in Calls, RollbackCheck(c) PROVE LockInv'
  <2>1. /\ req' = req /\ locks' = locks /\ pc' = [pc EXCEPT ![c] = pc'[c]]
        /\ HoldsTarget(c)' => HoldsTarget(c)
        /\ HoldsKey(c)' => HoldsKey(c)
    BY <1>11 DEF RollbackCheck, Goto, Leave, Answer, Exit, AfterUnlock, HoldsTarget, HoldsKey,
       TypeInv, TypeOK, RequestsMatch, Fits, ApplyRequest, RollbackRequest, Keyed, KeyOf
  <2> QED
    BY <2>1, LockFrame
<1>12. ASSUME NEW c \in Calls, RollbackExecute(c) PROVE LockInv'
  <2>1. /\ req' = req /\ locks' = locks /\ pc' = [pc EXCEPT ![c] = pc'[c]]
        /\ HoldsTarget(c)' => HoldsTarget(c)
        /\ HoldsKey(c)' => HoldsKey(c)
    BY <1>12 DEF RollbackExecute, Goto, Leave, Answer, Exit, AfterUnlock, HoldsTarget, HoldsKey,
       TypeInv, TypeOK, RequestsMatch, Fits, ApplyRequest, RollbackRequest, Keyed, KeyOf
  <2> QED
    BY <2>1, LockFrame
<1>13. ASSUME NEW c \in Calls, RollbackMark(c) PROVE LockInv'
  <2>1. /\ req' = req /\ locks' = locks /\ pc' = [pc EXCEPT ![c] = pc'[c]]
        /\ HoldsTarget(c)' => HoldsTarget(c)
        /\ HoldsKey(c)' => HoldsKey(c)
    BY <1>13 DEF RollbackMark, SetStatus, Goto, Leave, Answer, Exit, AfterUnlock, HoldsTarget, HoldsKey,
       TypeInv, TypeOK, RequestsMatch, Fits, ApplyRequest, RollbackRequest, Keyed, KeyOf
  <2> QED
    BY <2>1, LockFrame
<1>14. ASSUME NEW c \in Calls, RollbackRevert(c) PROVE LockInv'
  <2>1. /\ req' = req /\ locks' = locks /\ pc' = [pc EXCEPT ![c] = pc'[c]]
        /\ HoldsTarget(c)' => HoldsTarget(c)
        /\ HoldsKey(c)' => HoldsKey(c)
    BY <1>14 DEF RollbackRevert, SetStatus, LedgerWriteFails, Goto, Leave, Answer, Exit, AfterUnlock, HoldsTarget, HoldsKey,
       TypeInv, TypeOK, RequestsMatch, Fits, ApplyRequest, RollbackRequest, Keyed, KeyOf
  <2> QED
    BY <2>1, LockFrame
<1>15. ASSUME NEW c \in Calls, InsertField(c) PROVE LockInv'
  <2>1. /\ req' = req /\ locks' = locks /\ pc' = [pc EXCEPT ![c] = pc'[c]]
        /\ HoldsTarget(c)' => HoldsTarget(c)
        /\ HoldsKey(c)' => HoldsKey(c)
    BY <1>15 DEF InsertField, Goto, Leave, Answer, Exit, AfterUnlock, HoldsTarget, HoldsKey,
       TypeInv, TypeOK, RequestsMatch, Fits, ApplyRequest, Keyed, KeyOf
  <2> QED
    BY <2>1, LockFrame
<1>16. ASSUME NEW c \in Calls, LockKey(c) PROVE LockInv'
  <2>1. CASE Contended(c, KeyOf(c))
    BY <1>16, <2>1, LockFrame DEF LockKey, TryLock, Goto, Leave, Exit, AfterUnlock,
       TypeInv, TypeOK, HoldsTarget, HoldsKey, LockTargetOf, KeyOf, Keyed, OpOf, Target
  <2>2. CASE ~Contended(c, KeyOf(c))
    <3>1. /\ KeyOf(c) \in Keys /\ req' = req /\ locks' = locks \cup {<<c, KeyOf(c)>>}
          /\ pc[c] = "lockKey" /\ pc' = [pc EXCEPT ![c] = "lockTarget"]
      BY <1>16, <2>2 DEF LockKey, TryLock, Goto, TypeInv, RequestsMatch, Fits
    <3>2. \A d \in Calls : HoldsTarget(d)' => <<d, LockTargetOf(d)'>> \in locks'
      BY <3>1 DEF LockInv, TypeInv, TypeOK, HoldsTarget, HoldsKey, LockTargetOf, KeyOf, Keyed, OpOf, Target
    <3>3. \A d \in Calls : HoldsKey(d)' => <<d, KeyOf(d)'>> \in locks'
      BY <3>1 DEF LockInv, TypeInv, TypeOK, HoldsKey, Keyed, KeyOf
    <3>4. \A d, e \in Calls : \A name \in Fields \cup Keys :
            (<<d, name>> \in locks' /\ <<e, name>> \in locks' /\ Contends(d, e)') => d = e
      BY <2>2, <3>1 DEF LockInv, Contended, Contends
    <3> QED
      BY <3>2, <3>3, <3>4 DEF LockInv
  <2> QED
    BY <2>1, <2>2
<1>17. ASSUME NEW c \in Calls, LockTarget(c) \/ RollbackLock(c) PROVE LockInv'
  <2>1. CASE Contended(c, LockTargetOf(c))
    <3>1. req' = req /\ locks' = locks /\ pc[c] \in {"lockTarget", "rbLock"} /\ Leave(c, "MIGRATION_CONFLICT")
      BY <1>17, <2>1 DEF LockTarget, RollbackLock, TryLock
    <3>2. pc' = [pc EXCEPT ![c] = pc'[c]] /\ pc'[c] = Exit(c)
      BY <3>1 DEF Leave, Goto, TypeInv, TypeOK
    <3>3. pc'[c] \in {"done", "unlockKey"} /\ (pc'[c] = "unlockKey" => pc[c] = "lockTarget")
      BY <3>1, <3>2 DEF Exit, AfterUnlock
    <3>4. ~HoldsTarget(c)'
      BY <3>3 DEF HoldsTarget
    <3>5. HoldsKey(c)' => HoldsKey(c)
      BY <3>1, <3>3 DEF HoldsKey, Keyed, KeyOf
    <3> QED
      BY <3>1, <3>2, <3>4, <3>5, LockFrame
  <2>2. CASE ~Contended(c, LockTargetOf(c))
    <3>1. /\ req' = req /\ locks' = locks \cup {<<c, LockTargetOf(c)>>}
          /\ pc[c] \in {"lockTarget", "rbLock"} /\ pc[c] = "rbLock" => req[c].kind = "rollback"
          /\ \/ pc[c] = "lockTarget" /\ pc' = [pc EXCEPT ![c] = "refind"]
             \/ pc[c] = "rbLock" /\ pc' = [pc EXCEPT ![c] = "rbExecute"]
      BY <1>17, <2>2 DEF LockTarget, RollbackLock, TryLock, Goto, TypeInv, RequestsMatch,
         Fits, RollbackRequest
    <3>2. \A d \in Calls : HoldsTarget(d)' => <<d, LockTargetOf(d)'>> \in locks'
      BY <3>1 DEF LockInv, TypeInv, TypeOK, HoldsTarget, HoldsKey, LockTargetOf, KeyOf, Keyed, OpOf, Target
    <3>3. \A d \in Calls : HoldsKey(d)' => <<d, KeyOf(d)'>> \in locks'
      BY <3>1 DEF LockInv, TypeInv, TypeOK, HoldsKey, Keyed, KeyOf
    <3>4. \A d, e \in Calls : \A name \in Fields \cup Keys :
            (<<d, name>> \in locks' /\ <<e, name>> \in locks' /\ Contends(d, e)') => d = e
      BY <2>2, <3>1 DEF LockInv, Contended, Contends
    <3> QED
      BY <3>2, <3>3, <3>4 DEF LockInv
  <2> QED
    BY <2>1, <2>2
<1>18. ASSUME NEW c \in Calls, UnlockTarget(c) PROVE LockInv'
  <2>1. /\ req' = req /\ locks' = locks \ {<<c, LockTargetOf(c)>>}
        /\ pc[c] = "unlockTarget" /\ pc' = [pc EXCEPT ![c] = AfterUnlock(c)]
        /\ LockTargetOf(c) \in Fields
    BY <1>18 DEF UnlockTarget, Unlock, Goto, TypeInv, RequestsMatch, Fits, ApplyRequest,
       RollbackRequest, Op, LockTargetOf, Target, OpOf
  <2>2. \A d \in Calls : HoldsTarget(d)' => <<d, LockTargetOf(d)'>> \in locks'
    BY <2>1 DEF LockInv, TypeInv, TypeOK, AfterUnlock, HoldsTarget, HoldsKey, LockTargetOf, KeyOf, Keyed, OpOf, Target
  <2>3. \A d \in Calls : HoldsKey(d)' => HoldsKey(d) /\ KeyOf(d) \in Keys
    BY <2>1 DEF TypeInv, TypeOK, RequestsMatch, Fits, AfterUnlock, HoldsKey, Keyed, KeyOf,
       ApplyRequest, RollbackRequest
  <2>4. \A d \in Calls : HoldsKey(d)' => <<d, KeyOf(d)'>> \in locks'
    BY <2>1, <2>3 DEF LockInv, KeyOf
  <2> QED
    BY <2>1, <2>2, <2>4 DEF LockInv, Contends
<1>19. ASSUME NEW c \in Calls, UnlockKey(c) PROVE LockInv'
  <2>1. /\ req' = req /\ locks' = locks \ {<<c, KeyOf(c)>>} /\ KeyOf(c) \in Keys
        /\ pc[c] = "unlockKey" /\ pc' = [pc EXCEPT ![c] = "done"]
    BY <1>19 DEF UnlockKey, Unlock, Goto, TypeInv, RequestsMatch, Fits
  <2>2. \A d \in Calls : HoldsTarget(d)' => <<d, LockTargetOf(d)'>> \in locks'
    BY <2>1 DEF LockInv, TypeInv, TypeOK, HoldsTarget, HoldsKey, LockTargetOf, KeyOf, Keyed, OpOf, Target
  <2>3. \A d \in Calls : HoldsKey(d)' => <<d, KeyOf(d)'>> \in locks'
    BY <2>1 DEF LockInv, TypeInv, TypeOK, HoldsKey, Keyed, KeyOf
  <2> QED
    BY <2>1, <2>2, <2>3 DEF LockInv, Contends
<1>20. ASSUME NEW c \in Calls, Submit(c) PROVE LockInv'
  <2>1. /\ locks' = locks /\ pc[c] = "idle" /\ status[c] = "none"
        /\ \E r \in Requests : req' = [req EXCEPT ![c] = r]
        /\ pc' = [pc EXCEPT ![c] = pc'[c]] /\ pc'[c] \in {"preview", "rbCheck", "insert"}
    BY <1>20, RequestsAssumption, ZenonT(40) DEF Submit, Goto, TypeInv, TypeOK, RequestsMatch,
       ApplyRequest, RollbackRequest, AddFieldRequest
  <2>2. \A d \in Calls : HoldsTarget(d)' => HoldsTarget(d) /\ LockTargetOf(d)' = LockTargetOf(d)
    BY <2>1 DEF TypeInv, TypeOK, RequestsMatch, Fits, ApplyRequest, RollbackRequest, HoldsTarget, HoldsKey, LockTargetOf, KeyOf, Keyed, OpOf, Target
  <2>3. \A d \in Calls : HoldsKey(d)' => HoldsKey(d) /\ KeyOf(d)' = KeyOf(d)
    BY <2>1 DEF TypeInv, TypeOK, HoldsKey, Keyed, KeyOf
  <2> QED
    BY <2>1, <2>2, <2>3 DEF LockInv, Contends
<1>21. ASSUME NEW c \in Calls, LoseLock(c) PROVE LockInv'
  BY <1>21 DEF LoseLock
<1>22. ASSUME NEW h \in Hosts, Crash(h) PROVE LockInv'
  <2>1. /\ req' = req /\ locks' = {l \in locks : HostOf[l[1]] # h}
        /\ pc' = [c \in Calls |->
                    IF HostOf[c] = h /\ InFlight(c) THEN "crashed" ELSE pc[c]]
    BY <1>22 DEF Crash
  <2>2. \A c \in Calls : HoldsTarget(c)' =>
          HoldsTarget(c) /\ HostOf[c] # h /\ LockTargetOf(c)' = LockTargetOf(c)
    BY <2>1 DEF InFlight, HoldsTarget, HoldsKey, LockTargetOf, KeyOf, Keyed, OpOf, Target
  <2>3. \A c \in Calls : HoldsKey(c)' =>
          HoldsKey(c) /\ HostOf[c] # h /\ KeyOf(c)' = KeyOf(c)
    BY <2>1 DEF InFlight, HoldsKey, Keyed, KeyOf
  <2> QED
    BY <2>1, <2>2, <2>3 DEF LockInv, Contends
<1>23. CASE UNCHANGED vars
  BY <1>23 DEF vars, LockInv, Contends, HoldsTarget, HoldsKey, LockTargetOf, KeyOf, Keyed, OpOf, Target
<1> QED
  BY <1>1, <1>2, <1>3, <1>4, <1>5, <1>6, <1>7, <1>8, <1>9, <1>10, <1>11, <1>12,
     <1>13, <1>14, <1>15, <1>16, <1>17, <1>18, <1>19, <1>20, <1>21, <1>22, <1>23
     DEF Next, Step, ApplyStep, RollbackStep, Quiescent

LEMMA LockAlways == ASSUME "lockLoss" \notin Faults PROVE Spec => [](TypeInv /\ LockInv)
<1>1. Init => LockInv
  BY DEF Init, LockInv, HoldsTarget, HoldsKey
<1>2. TypeInv /\ LockInv /\ [Next]_vars => (TypeInv /\ LockInv)'
  BY TypeStep, LockStep
<1> QED
  BY <1>1, <1>2, TypeInit, PTL DEF Spec

(* While no session drops, no two calls the deployment can see execute on  *)
(* one migration target at once.                                           *)
THEOREM MutualExclusion ==
  ASSUME "lockLoss" \notin Faults PROVE Spec => []OneExecutorPerTarget
<1>1. TypeInv /\ LockInv => OneExecutorPerTarget
  <2> SUFFICES ASSUME TypeInv, LockInv, NEW c \in Calls, NEW d \in Calls,
                      c # d, Contends(c, d), HoldsTarget(c), HoldsTarget(d)
               PROVE  LockTargetOf(c) # LockTargetOf(d)
    BY DEF OneExecutorPerTarget
  <2>1. <<c, LockTargetOf(c)>> \in locks /\ <<d, LockTargetOf(d)>> \in locks
    BY DEF LockInv
  <2>2. LockTargetOf(c) \in Fields \cup Keys
    BY <2>1 DEF TypeInv, TypeOK
  <2> QED
    BY <2>1, <2>2 DEF LockInv
<1> QED
  BY <1>1, LockAlways, PTL

(* With database locks, applies of one idempotency key are serialized.     *)
THEOREM KeysSerialized ==
  ASSUME "lockLoss" \notin Faults, LockScope = "database"
  PROVE  Spec => []KeyedAppliesSerialized
<1>1. TypeInv /\ LockInv => KeyedAppliesSerialized
  <2> SUFFICES ASSUME TypeInv, LockInv, NEW c \in Calls, NEW d \in Calls,
                      c # d, HoldsKey(c), HoldsKey(d)
               PROVE  KeyOf(c) # KeyOf(d)
    BY DEF KeyedAppliesSerialized
  <2>1. <<c, KeyOf(c)>> \in locks /\ <<d, KeyOf(d)>> \in locks
    BY DEF LockInv
  <2>2. KeyOf(c) \in Fields \cup Keys
    BY <2>1 DEF TypeInv, TypeOK
  <2> QED
    BY <2>1, <2>2 DEF LockInv, Contends
<1> QED
  BY <1>1, LockAlways, PTL
-----------------------------------------------------------------------------
(* The ledger and the history *)

(* The forward operation of a row was committed if the row says so, if its *)
(* call is about to say so, or if a rollback passed the check on it.       *)
DoneInv ==
  /\ AppliedIsDone
  /\ \A c \in Calls : pc[c] = "applied" => c \in done
  /\ \A c \in Calls : pc[c] \in {"rbLock", "rbExecute", "rbMark", "rbRevert"}
       => req[c].of \in done

LEMMA DoneStep == ASSUME TypeInv, DoneInv, [Next]_vars PROVE DoneInv'
<1> USE RequestsAssumption
    DEF DoneInv, AppliedIsDone, TypeInv, TypeOK, Goto, Leave, Answer, Exit, AfterUnlock
<1>1. ASSUME NEW c \in Calls, Submit(c) PROVE DoneInv'
  BY <1>1 DEF Submit, ApplyRequest, RollbackRequest, AddFieldRequest, RequestsMatch, Fits, RollbackRequest
<1>2. ASSUME NEW c \in Calls, Preview(c) PROVE DoneInv'
  BY <1>2 DEF Preview, RequestsMatch, Fits, RollbackRequest
<1>3. ASSUME NEW c \in Calls, Find(c) PROVE DoneInv'
  BY <1>3 DEF Find, FindExisting, Replay, RequestsMatch, Fits, RollbackRequest
<1>4. ASSUME NEW c \in Calls, Check(c) PROVE DoneInv'
  BY <1>4 DEF Check, RequestsMatch, Fits, RollbackRequest
<1>5. ASSUME NEW c \in Calls, LockKey(c) PROVE DoneInv'
  BY <1>5 DEF LockKey, TryLock, RequestsMatch, Fits, RollbackRequest
<1>6. ASSUME NEW c \in Calls, LockTarget(c) PROVE DoneInv'
  BY <1>6 DEF LockTarget, TryLock, RequestsMatch, Fits, RollbackRequest
<1>7. ASSUME NEW c \in Calls, Refind(c) PROVE DoneInv'
  BY <1>7 DEF Refind, FindExisting, Replay, RequestsMatch, Fits, RollbackRequest
<1>8. ASSUME NEW c \in Calls, Recheck(c) PROVE DoneInv'
  BY <1>8 DEF Recheck, RequestsMatch, Fits, RollbackRequest
<1>9. ASSUME NEW c \in Calls, Create(c) PROVE DoneInv'
  BY <1>9 DEF Create, SetStatus, LedgerWriteFails, RequestsMatch, Fits, RollbackRequest
<1>10. ASSUME NEW c \in Calls, MarkRunning(c) PROVE DoneInv'
  BY <1>10 DEF MarkRunning, SetStatus, LedgerWriteFails, RequestsMatch, Fits, RollbackRequest
<1>11. ASSUME NEW c \in Calls, Execute(c) PROVE DoneInv'
  BY <1>11 DEF Execute, RequestsMatch, Fits, RollbackRequest
<1>12. ASSUME NEW c \in Calls, MarkApplied(c) PROVE DoneInv'
  BY <1>12 DEF MarkApplied, SetStatus, RequestsMatch, Fits, RollbackRequest
<1>13. ASSUME NEW c \in Calls, MarkFailed(c) PROVE DoneInv'
  BY <1>13 DEF MarkFailed, SetStatus, LedgerWriteFails, RequestsMatch, Fits, RollbackRequest
<1>14. ASSUME NEW c \in Calls, UnlockTarget(c) PROVE DoneInv'
  BY <1>14 DEF UnlockTarget, Unlock, AfterUnlock, RequestsMatch, Fits, RollbackRequest
<1>15. ASSUME NEW c \in Calls, UnlockKey(c) PROVE DoneInv'
  BY <1>15 DEF UnlockKey, Unlock, RequestsMatch, Fits, RollbackRequest
<1>16. ASSUME NEW c \in Calls, RollbackCheck(c) PROVE DoneInv'
  BY <1>16 DEF RollbackCheck, RollbackError, Rows, RequestsMatch, Fits, RollbackRequest
<1>17. ASSUME NEW c \in Calls, RollbackLock(c) PROVE DoneInv'
  BY <1>17 DEF RollbackLock, TryLock, RequestsMatch, Fits, RollbackRequest
<1>18. ASSUME NEW c \in Calls, RollbackExecute(c) PROVE DoneInv'
  BY <1>18 DEF RollbackExecute, RequestsMatch, Fits, RollbackRequest
<1>19. ASSUME NEW c \in Calls, RollbackMark(c) PROVE DoneInv'
  BY <1>19 DEF RollbackMark, SetStatus, RequestsMatch, Fits, RollbackRequest
<1>20. ASSUME NEW c \in Calls, RollbackRevert(c) PROVE DoneInv'
  BY <1>20 DEF RollbackRevert, SetStatus, LedgerWriteFails, RequestsMatch, Fits, RollbackRequest
<1>21. ASSUME NEW c \in Calls, InsertField(c) PROVE DoneInv'
  BY <1>21 DEF InsertField, RequestsMatch, Fits, RollbackRequest
<1>22. ASSUME NEW c \in Calls, LoseLock(c) PROVE DoneInv'
  BY <1>22 DEF LoseLock, RequestsMatch, Fits, RollbackRequest
<1>23. ASSUME NEW h \in Hosts, Crash(h) PROVE DoneInv'
  BY <1>23 DEF Crash
<1>24. CASE UNCHANGED vars
  BY <1>24 DEF vars
<1> QED
  BY <1>1, <1>2, <1>3, <1>4, <1>5, <1>6, <1>7, <1>8, <1>9, <1>10, <1>11, <1>12, <1>13, <1>14, <1>15, <1>16, <1>17, <1>18, <1>19, <1>20, <1>21, <1>22, <1>23, <1>24
     DEF Next, Step, ApplyStep, RollbackStep, Quiescent

(* A row reads "applied" or "rolled_back" only if its forward operation    *)
(* was committed, whatever fails, crashes or is lost.                      *)
THEOREM AppliedWasDone == Spec => []AppliedIsDone
<1>1. Init => DoneInv
  BY DEF Init, DoneInv, AppliedIsDone
<1>2. TypeInv /\ DoneInv /\ [Next]_vars => (TypeInv /\ DoneInv)'
  BY TypeStep, DoneStep
<1>3. DoneInv => AppliedIsDone
  BY DEF DoneInv
<1> QED
  BY <1>1, <1>2, <1>3, TypeInit, PTL DEF Spec

(* A committed forward operation is reported by its call, which never      *)
(* takes the path of a failure.                                            *)
FailInv ==
  /\ FailedIsNotDone
  /\ \A c \in done : pc[c] \in {"applied", "unlockTarget", "unlockKey", "done", "crashed"}
  /\ \A c \in Calls : pc[c] \in ApplySteps => status[c] # "failed"

LEMMA FailStep ==
  ASSUME "status" \notin Faults, TypeInv, FailInv, [Next]_vars PROVE FailInv'
<1> USE RequestsAssumption
    DEF FailInv, FailedIsNotDone, TypeInv, TypeOK, Goto, Leave, Answer, Exit, AfterUnlock
<1>1. ASSUME NEW c \in Calls, Submit(c) PROVE FailInv'
  BY <1>1 DEF Submit, ApplyRequest, RollbackRequest, AddFieldRequest, RequestsMatch, Fits, RollbackRequest
<1>2. ASSUME NEW c \in Calls, Preview(c) PROVE FailInv'
  BY <1>2 DEF Preview, RequestsMatch, Fits, RollbackRequest
<1>3. ASSUME NEW c \in Calls, Find(c) PROVE FailInv'
  BY <1>3 DEF Find, FindExisting, Replay, RequestsMatch, Fits, RollbackRequest
<1>4. ASSUME NEW c \in Calls, Check(c) PROVE FailInv'
  BY <1>4 DEF Check, RequestsMatch, Fits, RollbackRequest
<1>5. ASSUME NEW c \in Calls, LockKey(c) PROVE FailInv'
  BY <1>5 DEF LockKey, TryLock, RequestsMatch, Fits, RollbackRequest
<1>6. ASSUME NEW c \in Calls, LockTarget(c) PROVE FailInv'
  BY <1>6 DEF LockTarget, TryLock, RequestsMatch, Fits, RollbackRequest
<1>7. ASSUME NEW c \in Calls, Refind(c) PROVE FailInv'
  BY <1>7 DEF Refind, FindExisting, Replay, RequestsMatch, Fits, RollbackRequest
<1>8. ASSUME NEW c \in Calls, Recheck(c) PROVE FailInv'
  BY <1>8 DEF Recheck, RequestsMatch, Fits, RollbackRequest
<1>9. ASSUME NEW c \in Calls, Create(c) PROVE FailInv'
  BY <1>9 DEF Create, SetStatus, LedgerWriteFails, RequestsMatch, Fits, RollbackRequest
<1>10. ASSUME NEW c \in Calls, MarkRunning(c) PROVE FailInv'
  BY <1>10 DEF MarkRunning, SetStatus, LedgerWriteFails, RequestsMatch, Fits, RollbackRequest
<1>11. ASSUME NEW c \in Calls, Execute(c) PROVE FailInv'
  BY <1>11 DEF Execute, RequestsMatch, Fits, RollbackRequest
<1>12. ASSUME NEW c \in Calls, MarkApplied(c) PROVE FailInv'
  BY <1>12 DEF MarkApplied, SetStatus, RequestsMatch, Fits, RollbackRequest
<1>13. ASSUME NEW c \in Calls, MarkFailed(c) PROVE FailInv'
  BY <1>13 DEF MarkFailed, SetStatus, LedgerWriteFails, RequestsMatch, Fits, RollbackRequest
<1>14. ASSUME NEW c \in Calls, UnlockTarget(c) PROVE FailInv'
  BY <1>14 DEF UnlockTarget, Unlock, AfterUnlock, RequestsMatch, Fits, RollbackRequest
<1>15. ASSUME NEW c \in Calls, UnlockKey(c) PROVE FailInv'
  BY <1>15 DEF UnlockKey, Unlock, RequestsMatch, Fits, RollbackRequest
<1>16. ASSUME NEW c \in Calls, RollbackCheck(c) PROVE FailInv'
  BY <1>16 DEF RollbackCheck, RollbackError, Rows, RequestsMatch, Fits, RollbackRequest
<1>17. ASSUME NEW c \in Calls, RollbackLock(c) PROVE FailInv'
  BY <1>17 DEF RollbackLock, TryLock, RequestsMatch, Fits, RollbackRequest
<1>18. ASSUME NEW c \in Calls, RollbackExecute(c) PROVE FailInv'
  BY <1>18 DEF RollbackExecute, RequestsMatch, Fits, RollbackRequest
<1>19. ASSUME NEW c \in Calls, RollbackMark(c) PROVE FailInv'
  BY <1>19 DEF RollbackMark, SetStatus, RequestsMatch, Fits, RollbackRequest
<1>20. ASSUME NEW c \in Calls, RollbackRevert(c) PROVE FailInv'
  BY <1>20 DEF RollbackRevert, SetStatus, LedgerWriteFails, RequestsMatch, Fits, RollbackRequest
<1>21. ASSUME NEW c \in Calls, InsertField(c) PROVE FailInv'
  BY <1>21 DEF InsertField, RequestsMatch, Fits, RollbackRequest
<1>22. ASSUME NEW c \in Calls, LoseLock(c) PROVE FailInv'
  BY <1>22 DEF LoseLock, RequestsMatch, Fits, RollbackRequest
<1>23. ASSUME NEW h \in Hosts, Crash(h) PROVE FailInv'
  BY <1>23 DEF Crash
<1>24. CASE UNCHANGED vars
  BY <1>24 DEF vars
<1> QED
  BY <1>1, <1>2, <1>3, <1>4, <1>5, <1>6, <1>7, <1>8, <1>9, <1>10, <1>11, <1>12, <1>13, <1>14, <1>15, <1>16, <1>17, <1>18, <1>19, <1>20, <1>21, <1>22, <1>23, <1>24
     DEF Next, Step, ApplyStep, RollbackStep, Quiescent

(* While ledger writes do not fail, a row reads "failed" only if nothing   *)
(* was committed.                                                          *)
THEOREM FailedWasNotDone ==
  ASSUME "status" \notin Faults PROVE Spec => []FailedIsNotDone
<1>1. Init => FailInv
  BY DEF Init, FailInv, FailedIsNotDone
<1>2. TypeInv /\ FailInv /\ [Next]_vars => (TypeInv /\ FailInv)'
  BY TypeStep, FailStep
<1>3. FailInv => FailedIsNotDone
  BY DEF FailInv
<1> QED
  BY <1>1, <1>2, <1>3, TypeInit, PTL DEF Spec

-----------------------------------------------------------------------------
(* An idempotency key is in force at most once *)

(* All rows of a key have the same operation; a keyed apply that is past   *)
(* its locked recheck sees no other row of its key in force; and a row     *)
(* that a rollback works on is applied, or rolled back with its mark set.  *)
RecheckedSteps == {"recheck", "create", "running", "execute", "applied"}

SameOperation ==
  \A m, n \in Calls :
    (status[m] # "none" /\ status[n] # "none" /\ Keyed(m) /\ KeyOf(m) = KeyOf(n))
      => OpOf(m) = OpOf(n)
KeyFree ==
  \A c, m \in Calls :
    (pc[c] \in RecheckedSteps /\ Keyed(c) /\ status[m] # "none" /\ KeyOf(m) = KeyOf(c))
      => OpOf(m) = OpOf(c) /\ (m # c => ~Live(m))
RollbackMarked ==
  \A c \in Calls : pc[c] \in {"rbLock", "rbExecute", "rbMark", "rbRevert"} =>
    \/ status[req[c].of] = "applied"
    \/ status[req[c].of] = "rolled_back" /\ rolledBack[req[c].of]
Unsettled ==
  \A c \in Calls :
    /\ pc[c] \in ApplySteps => status[c] \notin {"applied", "rolled_back"}
    /\ pc[c] \in {"running", "execute", "applied", "failed"} => status[c] # "none"
KeyInv == SameOperation /\ KeyFree /\ RollbackMarked /\ Unsettled /\ OneLivePerKey

(* A step that makes no row, adds no live row and lets no call past the    *)
(* recheck or into a rollback keeps the invariant.                         *)
LEMMA KeyFrame ==
  ASSUME TypeInv, KeyInv, req' = req,
         \A m \in Calls : status'[m] # "none" => status[m] # "none",
         \A m \in Calls : Live(m)' => Live(m),
         \A c \in Calls : pc'[c] \in RecheckedSteps => pc[c] \in RecheckedSteps,
         RollbackMarked', Unsettled'
  PROVE  KeyInv'
BY DEF KeyInv, SameOperation, KeyFree, OneLivePerKey, Rows, Keyed, KeyOf, OpOf, TypeInv,
   TypeOK

LEMMA KeyStep ==
  ASSUME TypeInv, LockInv, LockScope = "database", KeyInv, [Next]_vars
  PROVE  KeyInv'
<1>1. ASSUME NEW c \in Calls, Preview(c) PROVE KeyInv'
  <2>1. /\ req' = req
        /\ \A m \in Calls : status'[m] # "none" => status[m] # "none"
        /\ \A m \in Calls : Live(m)' => Live(m)
        /\ \A d \in Calls : pc'[d] \in RecheckedSteps => pc[d] \in RecheckedSteps
        /\ RollbackMarked' /\ Unsettled'
    BY <1>1 DEF Preview, Goto, Leave, Answer, Exit, AfterUnlock, Live, RecheckedSteps,
       RollbackMarked, Unsettled, KeyInv, TypeInv, TypeOK, RequestsMatch, Fits, RollbackRequest
  <2> QED
    BY <2>1, KeyFrame
<1>2. ASSUME NEW c \in Calls, Find(c) PROVE KeyInv'
  <2>1. /\ req' = req
        /\ \A m \in Calls : status'[m] # "none" => status[m] # "none"
        /\ \A m \in Calls : Live(m)' => Live(m)
        /\ \A d \in Calls : pc'[d] \in RecheckedSteps => pc[d] \in RecheckedSteps
        /\ RollbackMarked' /\ Unsettled'
    BY <1>2 DEF Find, FindExisting, Replay, Goto, Leave, Answer, Exit, AfterUnlock, Live, RecheckedSteps,
       RollbackMarked, Unsettled, KeyInv, TypeInv, TypeOK, RequestsMatch, Fits, RollbackRequest
  <2> QED
    BY <2>1, KeyFrame
<1>3. ASSUME NEW c \in Calls, Check(c) PROVE KeyInv'
  <2>1. /\ req' = req
        /\ \A m \in Calls : status'[m] # "none" => status[m] # "none"
        /\ \A m \in Calls : Live(m)' => Live(m)
        /\ \A d \in Calls : pc'[d] \in RecheckedSteps => pc[d] \in RecheckedSteps
        /\ RollbackMarked' /\ Unsettled'
    BY <1>3 DEF Check, Goto, Leave, Answer, Exit, AfterUnlock, Live, RecheckedSteps,
       RollbackMarked, Unsettled, KeyInv, TypeInv, TypeOK, RequestsMatch, Fits, RollbackRequest
  <2> QED
    BY <2>1, KeyFrame
<1>4. ASSUME NEW c \in Calls, LockKey(c) PROVE KeyInv'
  <2>1. /\ req' = req
        /\ \A m \in Calls : status'[m] # "none" => status[m] # "none"
        /\ \A m \in Calls : Live(m)' => Live(m)
        /\ \A d \in Calls : pc'[d] \in RecheckedSteps => pc[d] \in RecheckedSteps
        /\ RollbackMarked' /\ Unsettled'
    BY <1>4 DEF LockKey, TryLock, Goto, Leave, Answer, Exit, AfterUnlock, Live, RecheckedSteps,
       RollbackMarked, Unsettled, KeyInv, TypeInv, TypeOK, RequestsMatch, Fits, RollbackRequest
  <2> QED
    BY <2>1, KeyFrame
<1>5. ASSUME NEW c \in Calls, LockTarget(c) PROVE KeyInv'
  <2>1. /\ req' = req
        /\ \A m \in Calls : status'[m] # "none" => status[m] # "none"
        /\ \A m \in Calls : Live(m)' => Live(m)
        /\ \A d \in Calls : pc'[d] \in RecheckedSteps => pc[d] \in RecheckedSteps
        /\ RollbackMarked' /\ Unsettled'
    BY <1>5 DEF LockTarget, TryLock, Goto, Leave, Answer, Exit, AfterUnlock, Live, RecheckedSteps,
       RollbackMarked, Unsettled, KeyInv, TypeInv, TypeOK, RequestsMatch, Fits, RollbackRequest
  <2> QED
    BY <2>1, KeyFrame
<1>6. ASSUME NEW c \in Calls, Recheck(c) PROVE KeyInv'
  <2>1. /\ req' = req
        /\ \A m \in Calls : status'[m] # "none" => status[m] # "none"
        /\ \A m \in Calls : Live(m)' => Live(m)
        /\ \A d \in Calls : pc'[d] \in RecheckedSteps => pc[d] \in RecheckedSteps
        /\ RollbackMarked' /\ Unsettled'
    BY <1>6 DEF Recheck, Goto, Leave, Answer, Exit, AfterUnlock, Live, RecheckedSteps,
       RollbackMarked, Unsettled, KeyInv, TypeInv, TypeOK, RequestsMatch, Fits, RollbackRequest
  <2> QED
    BY <2>1, KeyFrame
<1>7. ASSUME NEW c \in Calls, MarkRunning(c) PROVE KeyInv'
  <2>1. /\ req' = req /\ rolledBack' = rolledBack /\ pc[c] = "running"
        /\ status' = [status EXCEPT ![c] = status'[c]]
        /\ status'[c] \notin {"applied", "rolled_back", "none"}
        /\ pc' = [pc EXCEPT ![c] = pc'[c]]
        /\ pc'[c] \in {"execute", "unlockTarget"}
    BY <1>7 DEF MarkRunning, SetStatus, LedgerWriteFails, Goto, Leave, Exit, KeyInv, Unsettled,
       TypeInv, TypeOK
  <2>2. \A d \in Calls : pc'[d] \in RecheckedSteps => pc[d] \in RecheckedSteps \/ d = c
    BY <2>1 DEF TypeInv, TypeOK
  <2>3. status[c] \notin {"none", "applied", "rolled_back"}
    BY <2>1 DEF KeyInv, Unsettled
  <2>4. /\ \A m \in Calls : status'[m] # "none" => status[m] # "none"
        /\ \A m \in Calls : Live(m)' => Live(m)
    BY <2>1, <2>3 DEF Live, TypeInv, TypeOK
  <2>5. RollbackMarked'
    BY <2>1, <2>3 DEF KeyInv, RollbackMarked, TypeInv, TypeOK, RequestsMatch, Fits
  <2>6. Unsettled'
    BY <2>1 DEF KeyInv, Unsettled, TypeInv, TypeOK
  <2> QED
    BY <2>1, <2>2, <2>4, <2>5, <2>6, KeyFrame DEF RecheckedSteps
<1>8. ASSUME NEW c \in Calls, Execute(c) PROVE KeyInv'
  <2>1. /\ req' = req
        /\ \A m \in Calls : status'[m] # "none" => status[m] # "none"
        /\ \A m \in Calls : Live(m)' => Live(m)
        /\ \A d \in Calls : pc'[d] \in RecheckedSteps => pc[d] \in RecheckedSteps
        /\ RollbackMarked' /\ Unsettled'
    BY <1>8 DEF Execute, Goto, Leave, Answer, Exit, AfterUnlock, Live, RecheckedSteps,
       RollbackMarked, Unsettled, KeyInv, TypeInv, TypeOK, RequestsMatch, Fits, RollbackRequest
  <2> QED
    BY <2>1, KeyFrame
<1>9. ASSUME NEW c \in Calls, MarkFailed(c) PROVE KeyInv'
  <2>1. /\ req' = req /\ rolledBack' = rolledBack /\ pc[c] = "failed"
        /\ status' = [status EXCEPT ![c] = status'[c]]
        /\ status'[c] \notin {"applied", "rolled_back", "none"}
        /\ pc' = [pc EXCEPT ![c] = pc'[c]]
        /\ pc'[c] = "unlockTarget"
    BY <1>9 DEF MarkFailed, SetStatus, LedgerWriteFails, Goto, Leave, Exit, KeyInv, Unsettled,
       TypeInv, TypeOK
  <2>2. \A d \in Calls : pc'[d] \in RecheckedSteps => pc[d] \in RecheckedSteps \/ d = c
    BY <2>1 DEF TypeInv, TypeOK
  <2>3. status[c] \notin {"none", "applied", "rolled_back"}
    BY <2>1 DEF KeyInv, Unsettled
  <2>4. /\ \A m \in Calls : status'[m] # "none" => status[m] # "none"
        /\ \A m \in Calls : Live(m)' => Live(m)
    BY <2>1, <2>3 DEF Live, TypeInv, TypeOK
  <2>5. RollbackMarked'
    BY <2>1, <2>3 DEF KeyInv, RollbackMarked, TypeInv, TypeOK, RequestsMatch, Fits
  <2>6. Unsettled'
    BY <2>1 DEF KeyInv, Unsettled, TypeInv, TypeOK
  <2> QED
    BY <2>1, <2>2, <2>4, <2>5, <2>6, KeyFrame DEF RecheckedSteps
<1>10. ASSUME NEW c \in Calls, UnlockTarget(c) PROVE KeyInv'
  <2>1. /\ req' = req
        /\ \A m \in Calls : status'[m] # "none" => status[m] # "none"
        /\ \A m \in Calls : Live(m)' => Live(m)
        /\ \A d \in Calls : pc'[d] \in RecheckedSteps => pc[d] \in RecheckedSteps
        /\ RollbackMarked' /\ Unsettled'
    BY <1>10 DEF UnlockTarget, Unlock, AfterUnlock, Goto, Leave, Answer, Exit, AfterUnlock, Live, RecheckedSteps,
       RollbackMarked, Unsettled, KeyInv, TypeInv, TypeOK, RequestsMatch, Fits, RollbackRequest
  <2> QED
    BY <2>1, KeyFrame
<1>11. ASSUME NEW c \in Calls, UnlockKey(c) PROVE KeyInv'
  <2>1. /\ req' = req
        /\ \A m \in Calls : status'[m] # "none" => status[m] # "none"
        /\ \A m \in Calls : Live(m)' => Live(m)
        /\ \A d \in Calls : pc'[d] \in RecheckedSteps => pc[d] \in RecheckedSteps
        /\ RollbackMarked' /\ Unsettled'
    BY <1>11 DEF UnlockKey, Unlock, Goto, Leave, Answer, Exit, AfterUnlock, Live, RecheckedSteps,
       RollbackMarked, Unsettled, KeyInv, TypeInv, TypeOK, RequestsMatch, Fits, RollbackRequest
  <2> QED
    BY <2>1, KeyFrame
<1>12. ASSUME NEW c \in Calls, RollbackCheck(c) PROVE KeyInv'
  <2>1. /\ req' = req
        /\ \A m \in Calls : status'[m] # "none" => status[m] # "none"
        /\ \A m \in Calls : Live(m)' => Live(m)
        /\ \A d \in Calls : pc'[d] \in RecheckedSteps => pc[d] \in RecheckedSteps
        /\ RollbackMarked' /\ Unsettled'
    BY <1>12 DEF RollbackCheck, RollbackError, Rows, Goto, Leave, Answer, Exit, AfterUnlock, Live, RecheckedSteps,
       RollbackMarked, Unsettled, KeyInv, TypeInv, TypeOK, RequestsMatch, Fits, RollbackRequest
  <2> QED
    BY <2>1, KeyFrame
<1>13. ASSUME NEW c \in Calls, RollbackLock(c) PROVE KeyInv'
  <2>1. /\ req' = req
        /\ \A m \in Calls : status'[m] # "none" => status[m] # "none"
        /\ \A m \in Calls : Live(m)' => Live(m)
        /\ \A d \in Calls : pc'[d] \in RecheckedSteps => pc[d] \in RecheckedSteps
        /\ RollbackMarked' /\ Unsettled'
    BY <1>13 DEF RollbackLock, TryLock, Goto, Leave, Answer, Exit, AfterUnlock, Live, RecheckedSteps,
       RollbackMarked, Unsettled, KeyInv, TypeInv, TypeOK, RequestsMatch, Fits, RollbackRequest
  <2> QED
    BY <2>1, KeyFrame
<1>14. ASSUME NEW c \in Calls, RollbackExecute(c) PROVE KeyInv'
  <2>1. /\ req' = req
        /\ \A m \in Calls : status'[m] # "none" => status[m] # "none"
        /\ \A m \in Calls : Live(m)' => Live(m)
        /\ \A d \in Calls : pc'[d] \in RecheckedSteps => pc[d] \in RecheckedSteps
        /\ RollbackMarked' /\ Unsettled'
    BY <1>14 DEF RollbackExecute, Goto, Leave, Answer, Exit, AfterUnlock, Live, RecheckedSteps,
       RollbackMarked, Unsettled, KeyInv, TypeInv, TypeOK, RequestsMatch, Fits, RollbackRequest
  <2> QED
    BY <2>1, KeyFrame
<1>15. ASSUME NEW c \in Calls, RollbackMark(c) PROVE KeyInv'
  <2>1. /\ req' = req
        /\ \A m \in Calls : status'[m] # "none" => status[m] # "none"
        /\ \A m \in Calls : Live(m)' => Live(m)
        /\ \A d \in Calls : pc'[d] \in RecheckedSteps => pc[d] \in RecheckedSteps
        /\ RollbackMarked' /\ Unsettled'
    BY <1>15 DEF RollbackMark, SetStatus, Goto, Leave, Answer, Exit, AfterUnlock, Live, RecheckedSteps,
       RollbackMarked, Unsettled, KeyInv, TypeInv, TypeOK, RequestsMatch, Fits, RollbackRequest
  <2> QED
    BY <2>1, KeyFrame
<1>16. ASSUME NEW c \in Calls, RollbackRevert(c) PROVE KeyInv'
  <2>1. /\ req' = req
        /\ \A m \in Calls : status'[m] # "none" => status[m] # "none"
        /\ \A m \in Calls : Live(m)' => Live(m)
        /\ \A d \in Calls : pc'[d] \in RecheckedSteps => pc[d] \in RecheckedSteps
        /\ RollbackMarked' /\ Unsettled'
    BY <1>16 DEF RollbackRevert, SetStatus, LedgerWriteFails, Goto, Leave, Answer, Exit, AfterUnlock, Live, RecheckedSteps,
       RollbackMarked, Unsettled, KeyInv, TypeInv, TypeOK, RequestsMatch, Fits, RollbackRequest
  <2> QED
    BY <2>1, KeyFrame
<1>17. ASSUME NEW c \in Calls, InsertField(c) PROVE KeyInv'
  <2>1. /\ req' = req
        /\ \A m \in Calls : status'[m] # "none" => status[m] # "none"
        /\ \A m \in Calls : Live(m)' => Live(m)
        /\ \A d \in Calls : pc'[d] \in RecheckedSteps => pc[d] \in RecheckedSteps
        /\ RollbackMarked' /\ Unsettled'
    BY <1>17 DEF InsertField, Goto, Leave, Answer, Exit, AfterUnlock, Live, RecheckedSteps,
       RollbackMarked, Unsettled, KeyInv, TypeInv, TypeOK, RequestsMatch, Fits, RollbackRequest
  <2> QED
    BY <2>1, KeyFrame
<1>18. ASSUME NEW c \in Calls, Submit(c) PROVE KeyInv'
  <2>1. /\ pc[c] = "idle" /\ status[c] = "none" /\ status' = status /\ rolledBack' = rolledBack
        /\ \A d \in Calls : d # c => req'[d] = req[d]
        /\ pc' = [pc EXCEPT ![c] = pc'[c]] /\ pc'[c] \in {"preview", "rbCheck", "insert"}
    BY <1>18, RequestsAssumption, ZenonT(40) DEF Submit, Goto, TypeInv, TypeOK, RequestsMatch,
       ApplyRequest, RollbackRequest, AddFieldRequest
  <2>2. \A d \in Calls : pc'[d] \in RecheckedSteps => pc[d] \in RecheckedSteps /\ d # c
    BY <2>1 DEF RecheckedSteps, TypeInv, TypeOK
  <2>3. RollbackMarked' /\ Unsettled'
    BY <2>1 DEF KeyInv, RollbackMarked, Unsettled, TypeInv, TypeOK
  <2>4. SameOperation' /\ OneLivePerKey'
    BY <2>1 DEF KeyInv, SameOperation, OneLivePerKey, Rows, Live, Keyed, KeyOf, OpOf
  <2>5. KeyFree'
    BY <2>1, <2>2 DEF KeyInv, KeyFree, Live, Keyed, KeyOf, OpOf
  <2> QED
    BY <2>3, <2>4, <2>5 DEF KeyInv
<1>19. ASSUME NEW c \in Calls, Refind(c) PROVE KeyInv'
  <2>1. /\ req' = req /\ status' = status /\ rolledBack' = rolledBack /\ createdAt' = createdAt
        /\ pc[c] = "refind" /\ pc' = [pc EXCEPT ![c] = pc'[c]]
        /\ pc'[c] \in {"recheck", "unlockTarget"}
    BY <1>19 DEF Refind, FindExisting, Replay, Goto, Leave, Exit, TypeInv, TypeOK
  <2>2. RollbackMarked' /\ Unsettled'
    BY <2>1 DEF KeyInv, RollbackMarked, Unsettled, TypeInv, TypeOK
  <2>3. SameOperation' /\ OneLivePerKey'
    BY <2>1 DEF KeyInv, SameOperation, OneLivePerKey, Rows, Live, Keyed, KeyOf, OpOf
  <2>4. CASE pc'[c] = "unlockTarget"
    <3>1. \A d \in Calls : pc'[d] \in RecheckedSteps => pc[d] \in RecheckedSteps
      BY <2>1, <2>4 DEF RecheckedSteps, TypeInv, TypeOK
    <3> QED
      BY <2>1, <2>2, <2>3, <3>1 DEF KeyInv, KeyFree, Live, Keyed, KeyOf, OpOf
  <2>5. CASE pc'[c] = "recheck"
    <3>1. /\ AppliedTwins(c) = {}
          /\ \/ KeyRows(c) = {}
             \/ \E n \in KeyRows(c) : OpOf(n) = OpOf(c)
      BY <1>19, <2>1, <2>5 DEF Refind, FindExisting, Replay, Goto, Leave, Exit, Newest,
         TypeInv, TypeOK
    <3>2. ASSUME NEW m \in Calls, Keyed(c), status[m] # "none", KeyOf(m) = KeyOf(c)
          PROVE  OpOf(m) = OpOf(c) /\ ~Live(m)
      <4>1. m \in KeyRows(c)
        BY <3>2 DEF KeyRows, Rows
      <4>2. PICK n \in KeyRows(c) : OpOf(n) = OpOf(c)
        BY <3>1, <4>1
      <4>3. OpOf(m) = OpOf(n)
        BY <3>2, <4>2 DEF KeyInv, SameOperation, KeyRows, Rows, Keyed
      <4>4. m \notin AppliedTwins(c)
        BY <3>1
      <4> QED
        BY <3>2, <4>2, <4>3, <4>4 DEF AppliedTwins, Rows, Live
    <3>3. \A d \in Calls : pc'[d] \in RecheckedSteps => d = c \/ pc[d] \in RecheckedSteps
      BY <2>1 DEF TypeInv, TypeOK
    <3>4. KeyFree'
      BY <2>1, <3>2, <3>3 DEF KeyInv, KeyFree, Live, Keyed, KeyOf, OpOf
    <3> QED
      BY <2>2, <2>3, <3>4 DEF KeyInv
  <2> QED
    BY <2>1, <2>4, <2>5
<1>20. ASSUME NEW c \in Calls, NEW d \in Calls, c # d, HoldsKey(c), HoldsKey(d)
       PROVE  KeyOf(c) # KeyOf(d)
  <2>1. /\ <<c, KeyOf(c)>> \in locks /\ <<d, KeyOf(d)>> \in locks
        /\ KeyOf(c) \in Fields \cup Keys
    BY <1>20 DEF LockInv, TypeInv, TypeOK
  <2> QED
    BY <1>20, <2>1 DEF LockInv, Contends
<1>21. \A c \in Calls : pc[c] \in RecheckedSteps /\ Keyed(c) => HoldsKey(c)
  BY RequestsAssumption DEF HoldsKey, RecheckedSteps, TypeInv, RequestsMatch, Fits, ApplyRequest
<1>22. ASSUME NEW c \in Calls, Create(c) PROVE KeyInv'
  <2>1. CASE status' = status
    <3>1. /\ req' = req
          /\ \A m \in Calls : status'[m] # "none" => status[m] # "none"
          /\ \A m \in Calls : Live(m)' => Live(m)
          /\ \A d \in Calls : pc'[d] \in RecheckedSteps => pc[d] \in RecheckedSteps
          /\ RollbackMarked' /\ Unsettled'
      BY <1>22, <2>1 DEF Create, SetStatus, LedgerWriteFails, Goto, Leave, Exit, Live,
         RecheckedSteps, RollbackMarked, Unsettled, KeyInv, TypeInv, TypeOK
    <3> QED
      BY <3>1, KeyFrame
  <2>2. CASE status' # status
    <3>1. /\ req' = req /\ status' = [status EXCEPT ![c] = "pending"]
          /\ rolledBack' = rolledBack /\ pc[c] = "create"
          /\ pc' = [pc EXCEPT ![c] = "running"]
      BY <1>22, <2>2 DEF Create, SetStatus, LedgerWriteFails, Goto
    <3>2. \A m \in Calls : Live(m)' => Live(m) /\ m # c
      BY <3>1 DEF Live, TypeInv, TypeOK
    <3>3. \A d \in Calls : pc'[d] \in RecheckedSteps => pc[d] \in RecheckedSteps
      BY <3>1 DEF RecheckedSteps, TypeInv, TypeOK
    <3>4. RollbackMarked' /\ Unsettled'
      BY <3>1 DEF KeyInv, RollbackMarked, Unsettled, TypeInv, TypeOK
    <3>5. OneLivePerKey'
      BY <3>1, <3>2 DEF KeyInv, OneLivePerKey, Rows, Keyed, KeyOf, Live, TypeInv, TypeOK
    <3>6. pc[c] \in RecheckedSteps
      BY <3>1 DEF RecheckedSteps
    <3>7. SameOperation'
      BY <3>1, <3>6 DEF KeyInv, SameOperation, KeyFree, Keyed, KeyOf, OpOf, TypeInv, TypeOK
    <3>8. \A d \in Calls : d # c /\ pc[d] \in RecheckedSteps /\ Keyed(d) => KeyOf(d) # KeyOf(c)
      BY <1>20, <1>21, <3>6 DEF Keyed
    <3>9. KeyFree'
      BY <3>1, <3>2, <3>3, <3>8 DEF KeyInv, KeyFree, Keyed, KeyOf, OpOf, TypeInv, TypeOK
    <3> QED
      BY <3>4, <3>5, <3>7, <3>9 DEF KeyInv
  <2> QED
    BY <2>1, <2>2
<1>23. ASSUME NEW c \in Calls, MarkApplied(c) PROVE KeyInv'
  <2>1. CASE status' = status
    <3>1. /\ req' = req
          /\ \A m \in Calls : status'[m] # "none" => status[m] # "none"
          /\ \A m \in Calls : Live(m)' => Live(m)
          /\ \A d \in Calls : pc'[d] \in RecheckedSteps => pc[d] \in RecheckedSteps
          /\ RollbackMarked' /\ Unsettled'
      BY <1>23, <2>1 DEF MarkApplied, SetStatus, Goto, Leave, Exit, Live,
         RecheckedSteps, RollbackMarked, Unsettled, KeyInv, TypeInv, TypeOK
    <3> QED
      BY <3>1, KeyFrame
  <2>2. CASE status' # status
    <3>1. /\ req' = req /\ status' = [status EXCEPT ![c] = "applied"]
          /\ rolledBack' = rolledBack /\ pc[c] = "applied"
          /\ pc' = [pc EXCEPT ![c] = "unlockTarget"]
      BY <1>23, <2>2 DEF MarkApplied, SetStatus, Goto, Leave, Exit
    <3>2. \A m \in Calls : Live(m)' => Live(m) \/ m = c
      BY <3>1 DEF Live, TypeInv, TypeOK
    <3>3. \A d \in Calls : pc'[d] \in RecheckedSteps => pc[d] \in RecheckedSteps /\ d # c
      BY <3>1 DEF RecheckedSteps, TypeInv, TypeOK
    <3>4. RollbackMarked' /\ Unsettled'
      BY <3>1 DEF KeyInv, RollbackMarked, Unsettled, TypeInv, TypeOK
    <3>5. pc[c] \in RecheckedSteps
      BY <3>1 DEF RecheckedSteps
    <3>6. \A d \in Calls : d # c /\ pc[d] \in RecheckedSteps /\ Keyed(d) => KeyOf(d) # KeyOf(c)
      BY <1>20, <1>21, <3>5 DEF Keyed
    <3>7. \A m \in Calls : status'[m] # "none" => status[m] # "none" \/ m = c
      BY <3>1 DEF TypeInv, TypeOK
    <3>8. OneLivePerKey'
      BY <3>1, <3>2, <3>5, <3>7 DEF KeyInv, KeyFree, OneLivePerKey, Rows, Keyed, KeyOf, Live
    <3>9. KeyFree'
      BY <3>1, <3>2, <3>3, <3>6, <3>7 DEF KeyInv, KeyFree, Keyed, KeyOf, OpOf
    <3>10. SameOperation'
      BY <3>1, <3>5, <3>7 DEF KeyInv, SameOperation, KeyFree, Keyed, KeyOf, OpOf
    <3> QED
      BY <3>4, <3>8, <3>9, <3>10 DEF KeyInv
  <2> QED
    BY <2>1, <2>2
<1>24. ASSUME NEW c \in Calls, LoseLock(c) PROVE KeyInv'
  BY <1>24, KeyFrame DEF LoseLock, Live, RollbackMarked, Unsettled, KeyInv
<1>25. ASSUME NEW h \in Hosts, Crash(h) PROVE KeyInv'
  BY <1>25, KeyFrame DEF Crash, Live, RollbackMarked, Unsettled, KeyInv, RecheckedSteps, TypeInv,
     TypeOK
<1>26. CASE UNCHANGED vars
  BY <1>26, KeyFrame DEF vars, Live, RollbackMarked, Unsettled, KeyInv, RecheckedSteps
<1> QED
  BY <1>1, <1>2, <1>3, <1>4, <1>5, <1>6, <1>7, <1>8, <1>9, <1>10, <1>11, <1>12, <1>13,
     <1>14, <1>15, <1>16, <1>17, <1>18, <1>19, <1>22, <1>23, <1>24, <1>25, <1>26
     DEF Next, Step, ApplyStep, RollbackStep, Quiescent

LEMMA KeyAlways ==
  ASSUME "lockLoss" \notin Faults, LockScope = "database"
  PROVE  Spec => [](TypeInv /\ LockInv /\ KeyInv)
<1>1. Init => KeyInv
  BY DEF Init, KeyInv, SameOperation, KeyFree, RollbackMarked, Unsettled, OneLivePerKey, Rows,
     RecheckedSteps
<1>2. (TypeInv /\ LockInv) /\ KeyInv /\ [Next]_vars => KeyInv'
  BY KeyStep
<1> QED
  BY <1>1, <1>2, LockAlways, PTL DEF Spec

(* With database locks that are not lost, an idempotency key never has two *)
(* migrations in force: for every number of racing, failing, crashing and  *)
(* retrying calls.                                                         *)
THEOREM KeyInForceOnce ==
  ASSUME "lockLoss" \notin Faults, LockScope = "database"
  PROVE  Spec => []OneLivePerKey
<1>1. KeyInv => OneLivePerKey
  BY DEF KeyInv
<1> QED
  BY <1>1, KeyAlways, PTL
-----------------------------------------------------------------------------
(* What the callers of the migration engine are told, and that the engine  *)
(* implements the register of migrations in force.                         *)

(* What no step undoes: a call that was made keeps its request, a row and  *)
(* what was committed stay.                                                *)
Monotone ==
  /\ \A d \in Calls : pc[d] # "idle" => pc'[d] # "idle" /\ req'[d] = req[d]
  /\ \A m \in Calls : status[m] # "none" => status'[m] # "none"
  /\ done \subseteq done' /\ undone \subseteq undone'

LEMMA MonotoneStep == ASSUME TypeInv, [Next]_vars PROVE Monotone
<1> USE DEF Monotone, Goto, Leave, Answer, Exit, AfterUnlock, TypeInv, TypeOK
<1>1. ASSUME NEW c \in Calls, Submit(c) PROVE Monotone
  BY <1>1 DEF Submit
<1>2. ASSUME NEW c \in Calls, Preview(c) PROVE Monotone
  BY <1>2 DEF Preview
<1>3. ASSUME NEW c \in Calls, Find(c) PROVE Monotone
  BY <1>3 DEF Find, FindExisting, Replay
<1>4. ASSUME NEW c \in Calls, Check(c) PROVE Monotone
  BY <1>4 DEF Check
<1>5. ASSUME NEW c \in Calls, LockKey(c) PROVE Monotone
  BY <1>5 DEF LockKey, TryLock
<1>6. ASSUME NEW c \in Calls, LockTarget(c) PROVE Monotone
  BY <1>6 DEF LockTarget, TryLock
<1>7. ASSUME NEW c \in Calls, Refind(c) PROVE Monotone
  BY <1>7 DEF Refind, FindExisting, Replay
<1>8. ASSUME NEW c \in Calls, Recheck(c) PROVE Monotone
  BY <1>8 DEF Recheck
<1>9. ASSUME NEW c \in Calls, Create(c) PROVE Monotone
  BY <1>9 DEF Create, SetStatus, LedgerWriteFails
<1>10. ASSUME NEW c \in Calls, MarkRunning(c) PROVE Monotone
  BY <1>10 DEF MarkRunning, SetStatus, LedgerWriteFails
<1>11. ASSUME NEW c \in Calls, Execute(c) PROVE Monotone
  BY <1>11 DEF Execute
<1>12. ASSUME NEW c \in Calls, MarkApplied(c) PROVE Monotone
  BY <1>12 DEF MarkApplied, SetStatus
<1>13. ASSUME NEW c \in Calls, MarkFailed(c) PROVE Monotone
  BY <1>13 DEF MarkFailed, SetStatus, LedgerWriteFails
<1>14. ASSUME NEW c \in Calls, UnlockTarget(c) PROVE Monotone
  BY <1>14 DEF UnlockTarget, Unlock, AfterUnlock
<1>15. ASSUME NEW c \in Calls, UnlockKey(c) PROVE Monotone
  BY <1>15 DEF UnlockKey, Unlock
<1>16. ASSUME NEW c \in Calls, RollbackCheck(c) PROVE Monotone
  BY <1>16 DEF RollbackCheck, RollbackError, Rows
<1>17. ASSUME NEW c \in Calls, RollbackLock(c) PROVE Monotone
  BY <1>17 DEF RollbackLock, TryLock
<1>18. ASSUME NEW c \in Calls, RollbackExecute(c) PROVE Monotone
  BY <1>18 DEF RollbackExecute
<1>19. ASSUME NEW c \in Calls, RollbackMark(c) PROVE Monotone
  BY <1>19 DEF RollbackMark, SetStatus
<1>20. ASSUME NEW c \in Calls, RollbackRevert(c) PROVE Monotone
  BY <1>20 DEF RollbackRevert, SetStatus, LedgerWriteFails
<1>21. ASSUME NEW c \in Calls, InsertField(c) PROVE Monotone
  BY <1>21 DEF InsertField
<1>22. ASSUME NEW c \in Calls, LoseLock(c) PROVE Monotone
  BY <1>22 DEF LoseLock
<1>23. ASSUME NEW h \in Hosts, Crash(h) PROVE Monotone
  BY <1>23 DEF Crash, InFlight
<1>24. CASE UNCHANGED vars
  BY <1>24 DEF vars
<1> QED
  BY <1>1, <1>2, <1>3, <1>4, <1>5, <1>6, <1>7, <1>8, <1>9, <1>10, <1>11, <1>12, <1>13,
     <1>14, <1>15, <1>16, <1>17, <1>18, <1>19, <1>20, <1>21, <1>22, <1>23, <1>24
     DEF Next, Step, ApplyStep, RollbackStep, Quiescent

-----------------------------------------------------------------------------
(* Answers *)

(* An idempotent result names a row, whose request can no longer change.   *)
ReplayInv ==
  \A c \in Calls : out[c] = "replayed" =>
    /\ pc[c] # "idle"
    /\ replayOf[c] \in done /\ status[replayOf[c]] # "none"
    /\ OpOf(replayOf[c]) = OpOf(c)
    /\ Keyed(c) => KeyOf(replayOf[c]) = KeyOf(c)

(* A step that answers no call "replayed" keeps the invariant.             *)
LEMMA ReplayFrame ==
  ASSUME TypeInv, ReplayInv, Monotone,
         \A c \in Calls : out'[c] = "replayed" => out[c] = "replayed" /\ replayOf'[c] = replayOf[c]
  PROVE  ReplayInv'
<1>1. \A m \in Calls : status[m] # "none" => pc[m] # "idle" /\ OpOf(m)' = OpOf(m) /\ KeyOf(m)' = KeyOf(m)
  BY DEF Monotone, TypeInv, RequestsMatch, OpOf, KeyOf
<1>2. \A c \in Calls : pc[c] # "idle" => OpOf(c)' = OpOf(c) /\ KeyOf(c)' = KeyOf(c) /\ pc'[c] # "idle"
  BY DEF Monotone, OpOf, KeyOf
<1> SUFFICES ASSUME NEW c \in Calls, out'[c] = "replayed"
             PROVE  /\ pc'[c] # "idle"
                    /\ replayOf'[c] \in done' /\ status'[replayOf'[c]] # "none"
                    /\ OpOf(replayOf[c])' = OpOf(c)'
                    /\ Keyed(c)' => KeyOf(replayOf[c])' = KeyOf(c)'
  BY DEF ReplayInv
<1>3. out[c] = "replayed" /\ replayOf'[c] = replayOf[c] /\ replayOf[c] \in Calls
  BY DEF ReplayInv, TypeInv, TypeOK
<1>4. OpOf(replayOf[c])' = OpOf(replayOf[c]) /\ KeyOf(replayOf[c])' = KeyOf(replayOf[c])
  BY <1>1, <1>3 DEF ReplayInv, OpOf, KeyOf
<1> QED
  BY <1>2, <1>3, <1>4 DEF ReplayInv, Monotone, Keyed

(* The row an apply is answered from was committed and is its twin.        *)
LEMMA FoundIsTwin ==
  ASSUME TypeInv, DoneInv, ReplayInv, Monotone, NEW c \in Calls, NEW next, next # "idle",
         pc[c] \in {"find", "refind"}, FindExisting(c, next),
         req' = req, status' = status, done' = done
  PROVE  ReplayInv'
<1>1. ASSUME NEW m \in Rows, status[m] = "applied", OpOf(m) = OpOf(c),
             Keyed(c) => KeyOf(m) = KeyOf(c), Replay(c, m)
      PROVE  ReplayInv'
  <2>1. m \in Calls /\ m \in done
    BY <1>1 DEF Rows, DoneInv, AppliedIsDone
  <2>2. out' = [out EXCEPT ![c] = "replayed"] /\ replayOf' = [replayOf EXCEPT ![c] = m]
    BY <1>1 DEF Replay, Leave, Answer
  <2> QED
    BY <1>1, <2>1, <2>2 DEF ReplayInv, Monotone, TypeInv, TypeOK, OpOf, KeyOf, Keyed
<1>2. CASE \A d \in Calls : out'[d] = "replayed" => out[d] = "replayed" /\ replayOf'[d] = replayOf[d]
  BY <1>2, ReplayFrame
<1>3. CASE \E m \in Rows : /\ status[m] = "applied" /\ OpOf(m) = OpOf(c)
                           /\ Keyed(c) => KeyOf(m) = KeyOf(c)
                           /\ Replay(c, m)
  BY <1>1, <1>3
<1> QED
  BY <1>2, <1>3 DEF FindExisting, Newest, KeyRows, AppliedTwins, Leave, Answer, TypeInv, TypeOK

LEMMA ReplayStep == ASSUME TypeInv, DoneInv, ReplayInv, [Next]_vars PROVE ReplayInv'
<1>0. Monotone
  BY MonotoneStep
<1>1. ASSUME NEW c \in Calls, Submit(c) PROVE ReplayInv'
  BY <1>0, <1>1, ReplayFrame DEF Submit, Goto, Leave, Answer, TypeInv, TypeOK
<1>2. ASSUME NEW c \in Calls, Preview(c) PROVE ReplayInv'
  BY <1>0, <1>2, ReplayFrame DEF Preview, TypeInv, TypeOK
<1>3. ASSUME NEW c \in Calls, Find(c) PROVE ReplayInv'
  BY <1>0, <1>3, FoundIsTwin DEF Find
<1>4. ASSUME NEW c \in Calls, Check(c) PROVE ReplayInv'
  BY <1>0, <1>4, ReplayFrame DEF Check, PreconditionError, Goto, Leave, Answer, TypeInv, TypeOK
<1>5. ASSUME NEW c \in Calls, LockKey(c) PROVE ReplayInv'
  BY <1>0, <1>5, ReplayFrame DEF LockKey, TryLock, Goto, Leave, Answer, TypeInv, TypeOK
<1>6. ASSUME NEW c \in Calls, LockTarget(c) PROVE ReplayInv'
  BY <1>0, <1>6, ReplayFrame DEF LockTarget, TryLock, Goto, Leave, Answer, TypeInv, TypeOK
<1>7. ASSUME NEW c \in Calls, Refind(c) PROVE ReplayInv'
  BY <1>0, <1>7, FoundIsTwin DEF Refind
<1>8. ASSUME NEW c \in Calls, Recheck(c) PROVE ReplayInv'
  BY <1>0, <1>8, ReplayFrame DEF Recheck, PreconditionError, Goto, Leave, Answer, TypeInv, TypeOK
<1>9. ASSUME NEW c \in Calls, Create(c) PROVE ReplayInv'
  BY <1>0, <1>9, ReplayFrame DEF Create, SetStatus, LedgerWriteFails, Goto, Leave, Answer, TypeInv, TypeOK
<1>10. ASSUME NEW c \in Calls, MarkRunning(c) PROVE ReplayInv'
  BY <1>0, <1>10, ReplayFrame DEF MarkRunning, SetStatus, LedgerWriteFails, Goto, Leave, Answer, TypeInv, TypeOK
<1>11. ASSUME NEW c \in Calls, Execute(c) PROVE ReplayInv'
  BY <1>0, <1>11, ReplayFrame DEF Execute, Goto, Leave, Answer, TypeInv, TypeOK
<1>12. ASSUME NEW c \in Calls, MarkApplied(c) PROVE ReplayInv'
  BY <1>0, <1>12, ReplayFrame DEF MarkApplied, SetStatus, Goto, Leave, Answer, TypeInv, TypeOK
<1>13. ASSUME NEW c \in Calls, MarkFailed(c) PROVE ReplayInv'
  BY <1>0, <1>13, ReplayFrame DEF MarkFailed, SetStatus, LedgerWriteFails, Goto, Leave, Answer, TypeInv, TypeOK
<1>14. ASSUME NEW c \in Calls, UnlockTarget(c) PROVE ReplayInv'
  BY <1>0, <1>14, ReplayFrame DEF UnlockTarget, Unlock, AfterUnlock, Goto, Leave, Answer, TypeInv, TypeOK
<1>15. ASSUME NEW c \in Calls, UnlockKey(c) PROVE ReplayInv'
  BY <1>0, <1>15, ReplayFrame DEF UnlockKey, Unlock, Goto, Leave, Answer, TypeInv, TypeOK
<1>16. ASSUME NEW c \in Calls, RollbackCheck(c) PROVE ReplayInv'
  BY <1>0, <1>16, ReplayFrame DEF RollbackCheck, RollbackError, Rows, Goto, Leave, Answer, TypeInv, TypeOK
<1>17. ASSUME NEW c \in Calls, RollbackLock(c) PROVE ReplayInv'
  BY <1>0, <1>17, ReplayFrame DEF RollbackLock, TryLock, Goto, Leave, Answer, TypeInv, TypeOK
<1>18. ASSUME NEW c \in Calls, RollbackExecute(c) PROVE ReplayInv'
  BY <1>0, <1>18, ReplayFrame DEF RollbackExecute, Goto, Leave, Answer, TypeInv, TypeOK
<1>19. ASSUME NEW c \in Calls, RollbackMark(c) PROVE ReplayInv'
  BY <1>0, <1>19, ReplayFrame DEF RollbackMark, SetStatus, Goto, Leave, Answer, TypeInv, TypeOK
<1>20. ASSUME NEW c \in Calls, RollbackRevert(c) PROVE ReplayInv'
  BY <1>0, <1>20, ReplayFrame DEF RollbackRevert, SetStatus, LedgerWriteFails, Goto, Leave, Answer, TypeInv, TypeOK
<1>21. ASSUME NEW c \in Calls, InsertField(c) PROVE ReplayInv'
  BY <1>0, <1>21, ReplayFrame DEF InsertField, Goto, Leave, Answer, TypeInv, TypeOK
<1>22. ASSUME NEW c \in Calls, LoseLock(c) PROVE ReplayInv'
  BY <1>0, <1>22, ReplayFrame DEF LoseLock, Goto, Leave, Answer, TypeInv, TypeOK
<1>23. ASSUME NEW h \in Hosts, Crash(h) PROVE ReplayInv'
  BY <1>0, <1>23, ReplayFrame DEF Crash
<1>24. CASE UNCHANGED vars
  BY <1>0, <1>24, ReplayFrame DEF vars
<1> QED
  BY <1>1, <1>2, <1>3, <1>4, <1>5, <1>6, <1>7, <1>8, <1>9, <1>10, <1>11, <1>12, <1>13,
     <1>14, <1>15, <1>16, <1>17, <1>18, <1>19, <1>20, <1>21, <1>22, <1>23, <1>24
     DEF Next, Step, ApplyStep, RollbackStep, Quiescent

(* Whatever fails, crashes or is lost, an idempotent result names a        *)
(* committed migration of the same operation and, with a key, of that key. *)
THEOREM ReplaysNameTwins == Spec => []ReplayNamesTwin
<1>1. Init => DoneInv /\ ReplayInv
  BY DEF Init, DoneInv, AppliedIsDone, ReplayInv
<1>2. TypeInv /\ DoneInv /\ ReplayInv /\ [Next]_vars => (TypeInv /\ DoneInv /\ ReplayInv)'
  BY TypeStep, DoneStep, ReplayStep
<1>3. ReplayInv => ReplayNamesTwin
  BY DEF ReplayInv, ReplayNamesTwin
<1> QED
  BY <1>1, <1>2, <1>3, TypeInit, PTL DEF Spec

(* A call that was told "applied" has left the steps that write its row,   *)
(* so that only rollbacks still do; one that is about to mark a rollback   *)
(* has committed the reverse operation.                                    *)
AnswerInv ==
  /\ \A c \in Calls : out[c] = "applied" =>
       /\ status[c] \in {"applied", "rolled_back"}
       /\ pc[c] \in {"unlockTarget", "unlockKey", "done", "crashed"}
  /\ \A c \in Calls : out[c] = "rolled_back" => pc[c] # "idle" /\ req[c].of \in undone
  /\ \A c \in Calls : pc[c] = "rbMark" => req[c].of \in undone

LEMMA AnswerStep == ASSUME TypeInv, AnswerInv, [Next]_vars PROVE AnswerInv'
<1>0. Monotone
  BY MonotoneStep
<1> USE DEF AnswerInv, Monotone, TypeInv, TypeOK, Goto, Leave, Answer, Exit, AfterUnlock
<1>1. ASSUME NEW c \in Calls, Submit(c) PROVE AnswerInv'
  BY <1>0, <1>1, RequestsAssumption DEF Submit, ApplyRequest, RollbackRequest, AddFieldRequest
<1>2. ASSUME NEW c \in Calls, Preview(c) PROVE AnswerInv'
  BY <1>0, <1>2 DEF Preview
<1>3. ASSUME NEW c \in Calls, Find(c) PROVE AnswerInv'
  BY <1>0, <1>3 DEF Find, FindExisting, Replay
<1>4. ASSUME NEW c \in Calls, Check(c) PROVE AnswerInv'
  BY <1>0, <1>4 DEF Check, PreconditionError
<1>5. ASSUME NEW c \in Calls, LockKey(c) PROVE AnswerInv'
  BY <1>0, <1>5 DEF LockKey, TryLock
<1>6. ASSUME NEW c \in Calls, LockTarget(c) PROVE AnswerInv'
  BY <1>0, <1>6 DEF LockTarget, TryLock
<1>7. ASSUME NEW c \in Calls, Refind(c) PROVE AnswerInv'
  BY <1>0, <1>7 DEF Refind, FindExisting, Replay
<1>8. ASSUME NEW c \in Calls, Recheck(c) PROVE AnswerInv'
  BY <1>0, <1>8 DEF Recheck, PreconditionError
<1>9. ASSUME NEW c \in Calls, Create(c) PROVE AnswerInv'
  BY <1>0, <1>9 DEF Create, SetStatus, LedgerWriteFails
<1>10. ASSUME NEW c \in Calls, MarkRunning(c) PROVE AnswerInv'
  BY <1>0, <1>10 DEF MarkRunning, SetStatus, LedgerWriteFails
<1>11. ASSUME NEW c \in Calls, Execute(c) PROVE AnswerInv'
  BY <1>0, <1>11 DEF Execute
<1>12. ASSUME NEW c \in Calls, MarkApplied(c) PROVE AnswerInv'
  BY <1>0, <1>12 DEF MarkApplied, SetStatus
<1>13. ASSUME NEW c \in Calls, MarkFailed(c) PROVE AnswerInv'
  BY <1>0, <1>13 DEF MarkFailed, SetStatus, LedgerWriteFails
<1>14. ASSUME NEW c \in Calls, UnlockTarget(c) PROVE AnswerInv'
  BY <1>0, <1>14 DEF UnlockTarget, Unlock, AfterUnlock
<1>15. ASSUME NEW c \in Calls, UnlockKey(c) PROVE AnswerInv'
  BY <1>0, <1>15 DEF UnlockKey, Unlock
<1>16. ASSUME NEW c \in Calls, RollbackCheck(c) PROVE AnswerInv'
  BY <1>0, <1>16 DEF RollbackCheck, RollbackError, Rows
<1>17. ASSUME NEW c \in Calls, RollbackLock(c) PROVE AnswerInv'
  BY <1>0, <1>17 DEF RollbackLock, TryLock
<1>18. ASSUME NEW c \in Calls, RollbackExecute(c) PROVE AnswerInv'
  BY <1>0, <1>18 DEF RollbackExecute, RequestsMatch, Fits, RollbackRequest
<1>19. ASSUME NEW c \in Calls, RollbackMark(c) PROVE AnswerInv'
  BY <1>0, <1>19 DEF RollbackMark, SetStatus, RequestsMatch, Fits, RollbackRequest
<1>20. ASSUME NEW c \in Calls, RollbackRevert(c) PROVE AnswerInv'
  BY <1>0, <1>20 DEF RollbackRevert, SetStatus, LedgerWriteFails, RequestsMatch, Fits, RollbackRequest
<1>21. ASSUME NEW c \in Calls, InsertField(c) PROVE AnswerInv'
  BY <1>0, <1>21 DEF InsertField
<1>22. ASSUME NEW c \in Calls, LoseLock(c) PROVE AnswerInv'
  BY <1>0, <1>22 DEF LoseLock
<1>23. ASSUME NEW h \in Hosts, Crash(h) PROVE AnswerInv'
  BY <1>0, <1>23 DEF Crash, InFlight
<1>24. CASE UNCHANGED vars
  BY <1>24 DEF vars
<1> QED
  BY <1>1, <1>2, <1>3, <1>4, <1>5, <1>6, <1>7, <1>8, <1>9, <1>10, <1>11, <1>12, <1>13,
     <1>14, <1>15, <1>16, <1>17, <1>18, <1>19, <1>20, <1>21, <1>22, <1>23, <1>24
     DEF Next, Step, ApplyStep, RollbackStep, Quiescent

(* A caller is told "applied" only of what was committed and written, and  *)
(* "rolled_back" only of what was reversed, whatever fails or crashes.     *)
THEOREM AnswersTrue == Spec => []AnswersAreTrue
<1>1. Init => DoneInv /\ AnswerInv
  BY DEF Init, DoneInv, AppliedIsDone, AnswerInv
<1>2. TypeInv /\ DoneInv /\ AnswerInv /\ [Next]_vars => (TypeInv /\ DoneInv /\ AnswerInv)'
  BY TypeStep, DoneStep, AnswerStep
<1>3. DoneInv /\ AnswerInv => AnswersAreTrue
  BY DEF DoneInv, AppliedIsDone, AnswerInv, AnswersAreTrue
<1> QED
  BY <1>1, <1>2, <1>3, TypeInit, PTL DEF Spec

-----------------------------------------------------------------------------
(* The register *)

(* Only a row that was applied has its mark of a rollback.                 *)
MarkedWereApplied ==
  \A m \in Calls : rolledBack[m] => status[m] \in {"applied", "rolled_back"}

(* An apply past its locked recheck has no twin in force.                  *)
OperationFree ==
  \A c, m \in Calls : pc[c] \in RecheckedSteps /\ OpOf(m) = OpOf(c) => ~Live(m)

OneLivePerOperation ==
  \A m, n \in Calls : m # n /\ Live(m) /\ Live(n) => OpOf(m) # OpOf(n)

RegisterInv == MarkedWereApplied /\ OperationFree /\ OneLivePerOperation

(* What a step may do to the migrations in force: nothing, ...             *)
Quiet == rolledBack' = rolledBack /\ \A m \in Calls : Live(m)' <=> Live(m)

(* ... have the row of an apply become applied, ...                        *)
Enters(c) ==
  /\ pc[c] = "applied" /\ pc'[c] = "unlockTarget"
  /\ status' = [status EXCEPT ![c] = "applied"]
  /\ rolledBack' = rolledBack

(* ... or have the row of a rollback marked.                               *)
Retires(c) ==
  /\ pc[c] = "rbMark" /\ req[c].of \in Calls
  /\ status' = [status EXCEPT ![req[c].of] = "rolled_back"]
  /\ rolledBack' = [rolledBack EXCEPT ![req[c].of] = TRUE]

InForceStep == Quiet \/ \E c \in Calls : Enters(c) \/ Retires(c)

LEMMA StepsOfRegister ==
  ASSUME TypeInv, KeyInv, MarkedWereApplied, [Next]_vars
  PROVE  MarkedWereApplied' /\ InForceStep
<1> USE DEF InForceStep, Quiet, Live, MarkedWereApplied, TypeInv, TypeOK, Goto, Leave, Answer, Exit
<1>1. ASSUME NEW c \in Calls, Submit(c) PROVE MarkedWereApplied' /\ InForceStep
  BY <1>1 DEF Submit
<1>2. ASSUME NEW c \in Calls, Preview(c) PROVE MarkedWereApplied' /\ InForceStep
  BY <1>2 DEF Preview
<1>3. ASSUME NEW c \in Calls, Find(c) PROVE MarkedWereApplied' /\ InForceStep
  BY <1>3 DEF Find, FindExisting, Replay
<1>4. ASSUME NEW c \in Calls, Check(c) PROVE MarkedWereApplied' /\ InForceStep
  BY <1>4 DEF Check
<1>5. ASSUME NEW c \in Calls, LockKey(c) PROVE MarkedWereApplied' /\ InForceStep
  BY <1>5 DEF LockKey, TryLock
<1>6. ASSUME NEW c \in Calls, LockTarget(c) PROVE MarkedWereApplied' /\ InForceStep
  BY <1>6 DEF LockTarget, TryLock
<1>7. ASSUME NEW c \in Calls, Refind(c) PROVE MarkedWereApplied' /\ InForceStep
  BY <1>7 DEF Refind, FindExisting, Replay
<1>8. ASSUME NEW c \in Calls, Recheck(c) PROVE MarkedWereApplied' /\ InForceStep
  BY <1>8 DEF Recheck
<1>9. ASSUME NEW c \in Calls, Create(c) PROVE MarkedWereApplied' /\ InForceStep
  BY <1>9 DEF Create, SetStatus, LedgerWriteFails, KeyInv, Unsettled
<1>10. ASSUME NEW c \in Calls, MarkRunning(c) PROVE MarkedWereApplied' /\ InForceStep
  BY <1>10 DEF MarkRunning, SetStatus, LedgerWriteFails, KeyInv, Unsettled
<1>11. ASSUME NEW c \in Calls, Execute(c) PROVE MarkedWereApplied' /\ InForceStep
  BY <1>11 DEF Execute
<1>12. ASSUME NEW c \in Calls, MarkApplied(c) PROVE MarkedWereApplied' /\ InForceStep
  BY <1>12 DEF MarkApplied, SetStatus, KeyInv, Unsettled, Enters
<1>13. ASSUME NEW c \in Calls, MarkFailed(c) PROVE MarkedWereApplied' /\ InForceStep
  BY <1>13 DEF MarkFailed, SetStatus, LedgerWriteFails, KeyInv, Unsettled
<1>14. ASSUME NEW c \in Calls, UnlockTarget(c) PROVE MarkedWereApplied' /\ InForceStep
  BY <1>14 DEF UnlockTarget, Unlock, AfterUnlock
<1>15. ASSUME NEW c \in Calls, UnlockKey(c) PROVE MarkedWereApplied' /\ InForceStep
  BY <1>15 DEF UnlockKey, Unlock
<1>16. ASSUME NEW c \in Calls, RollbackCheck(c) PROVE MarkedWereApplied' /\ InForceStep
  BY <1>16 DEF RollbackCheck, RollbackError, Rows
<1>17. ASSUME NEW c \in Calls, RollbackLock(c) PROVE MarkedWereApplied' /\ InForceStep
  BY <1>17 DEF RollbackLock, TryLock
<1>18. ASSUME NEW c \in Calls, RollbackExecute(c) PROVE MarkedWereApplied' /\ InForceStep
  BY <1>18 DEF RollbackExecute
<1>19. ASSUME NEW c \in Calls, RollbackMark(c) PROVE MarkedWereApplied' /\ InForceStep
  BY <1>19 DEF RollbackMark, SetStatus, KeyInv, RollbackMarked, RequestsMatch, Fits, RollbackRequest, Retires
<1>20. ASSUME NEW c \in Calls, RollbackRevert(c) PROVE MarkedWereApplied' /\ InForceStep
  BY <1>20 DEF RollbackRevert, SetStatus, LedgerWriteFails, KeyInv, RollbackMarked, RequestsMatch, Fits, RollbackRequest
<1>21. ASSUME NEW c \in Calls, InsertField(c) PROVE MarkedWereApplied' /\ InForceStep
  BY <1>21 DEF InsertField
<1>22. ASSUME NEW c \in Calls, LoseLock(c) PROVE MarkedWereApplied' /\ InForceStep
  BY <1>22 DEF LoseLock
<1>23. ASSUME NEW h \in Hosts, Crash(h) PROVE MarkedWereApplied' /\ InForceStep
  BY <1>23 DEF Crash
<1>24. CASE UNCHANGED vars
  BY <1>24 DEF vars
<1> QED
  BY <1>1, <1>2, <1>3, <1>4, <1>5, <1>6, <1>7, <1>8, <1>9, <1>10, <1>11, <1>12, <1>13,
     <1>14, <1>15, <1>16, <1>17, <1>18, <1>19, <1>20, <1>21, <1>22, <1>23, <1>24
     DEF Next, Step, ApplyStep, RollbackStep, Quiescent

(* Only the locked lookup, when it finds no twin, takes a call past it.    *)
LEMMA PastRecheck ==
  ASSUME TypeInv, [Next]_vars, NEW d \in Calls, pc'[d] \in RecheckedSteps
  PROVE  pc[d] \in RecheckedSteps \/ (pc[d] = "refind" /\ AppliedTwins(d) = {})
<1> USE DEF TypeInv, TypeOK, Goto, Leave, Answer, Exit, AfterUnlock, RecheckedSteps
<1> DEFINE Past == pc[d] \in RecheckedSteps \/ (pc[d] = "refind" /\ AppliedTwins(d) = {})
<1>1. ASSUME NEW c \in Calls, Submit(c) PROVE Past
  BY <1>1, RequestsAssumption DEF Submit, ApplyRequest, RollbackRequest, AddFieldRequest
<1>2. ASSUME NEW c \in Calls, Preview(c) PROVE Past
  BY <1>2 DEF Preview
<1>3. ASSUME NEW c \in Calls, Find(c) PROVE Past
  BY <1>3 DEF Find, FindExisting, Replay
<1>4. ASSUME NEW c \in Calls, Check(c) PROVE Past
  BY <1>4 DEF Check, PreconditionError
<1>5. ASSUME NEW c \in Calls, LockKey(c) PROVE Past
  BY <1>5 DEF LockKey, TryLock
<1>6. ASSUME NEW c \in Calls, LockTarget(c) PROVE Past
  BY <1>6 DEF LockTarget, TryLock
<1>7. ASSUME NEW c \in Calls, Refind(c) PROVE Past
  BY <1>7 DEF Refind, FindExisting, Replay
<1>8. ASSUME NEW c \in Calls, Recheck(c) PROVE Past
  BY <1>8 DEF Recheck, PreconditionError
<1>9. ASSUME NEW c \in Calls, Create(c) PROVE Past
  BY <1>9 DEF Create, SetStatus, LedgerWriteFails
<1>10. ASSUME NEW c \in Calls, MarkRunning(c) PROVE Past
  BY <1>10 DEF MarkRunning, SetStatus, LedgerWriteFails
<1>11. ASSUME NEW c \in Calls, Execute(c) PROVE Past
  BY <1>11 DEF Execute
<1>12. ASSUME NEW c \in Calls, MarkApplied(c) PROVE Past
  BY <1>12 DEF MarkApplied, SetStatus
<1>13. ASSUME NEW c \in Calls, MarkFailed(c) PROVE Past
  BY <1>13 DEF MarkFailed, SetStatus, LedgerWriteFails
<1>14. ASSUME NEW c \in Calls, UnlockTarget(c) PROVE Past
  BY <1>14 DEF UnlockTarget, Unlock, AfterUnlock
<1>15. ASSUME NEW c \in Calls, UnlockKey(c) PROVE Past
  BY <1>15 DEF UnlockKey, Unlock
<1>16. ASSUME NEW c \in Calls, RollbackCheck(c) PROVE Past
  BY <1>16 DEF RollbackCheck, RollbackError, Rows
<1>17. ASSUME NEW c \in Calls, RollbackLock(c) PROVE Past
  BY <1>17 DEF RollbackLock, TryLock
<1>18. ASSUME NEW c \in Calls, RollbackExecute(c) PROVE Past
  BY <1>18 DEF RollbackExecute
<1>19. ASSUME NEW c \in Calls, RollbackMark(c) PROVE Past
  BY <1>19 DEF RollbackMark, SetStatus
<1>20. ASSUME NEW c \in Calls, RollbackRevert(c) PROVE Past
  BY <1>20 DEF RollbackRevert, SetStatus, LedgerWriteFails
<1>21. ASSUME NEW c \in Calls, InsertField(c) PROVE Past
  BY <1>21 DEF InsertField
<1>22. ASSUME NEW c \in Calls, LoseLock(c) PROVE Past
  BY <1>22 DEF LoseLock
<1>23. ASSUME NEW h \in Hosts, Crash(h) PROVE Past
  BY <1>23 DEF Crash
<1>24. CASE UNCHANGED vars
  BY <1>24 DEF vars
<1> QED
  BY <1>1, <1>2, <1>3, <1>4, <1>5, <1>6, <1>7, <1>8, <1>9, <1>10, <1>11, <1>12, <1>13,
     <1>14, <1>15, <1>16, <1>17, <1>18, <1>19, <1>20, <1>21, <1>22, <1>23, <1>24
     DEF Next, Step, ApplyStep, RollbackStep, Quiescent

LEMMA RegisterStep ==
  ASSUME TypeInv, LockInv, LockScope = "database", KeyInv, RegisterInv, [Next]_vars
  PROVE  RegisterInv'
<1>1. Monotone
  BY MonotoneStep
<1>2. MarkedWereApplied' /\ InForceStep
  BY StepsOfRegister DEF RegisterInv
<1>3. \A m \in Calls : pc[m] # "idle" => OpOf(m)' = OpOf(m)
  BY <1>1 DEF Monotone, OpOf
<1>4. \A m \in Calls : Live(m) => pc[m] # "idle" /\ m \in Rows
  BY DEF TypeInv, RequestsMatch, Live, Rows
<1>5. \A m \in Calls : Live(m)' => Live(m) \/ Enters(m)
  BY <1>2 DEF InForceStep, Quiet, Enters, Retires, Live, TypeInv, TypeOK
(* Two calls that hold a target cannot be about the same operation.        *)
<1>6. ASSUME NEW c \in Calls, NEW d \in Calls, c # d,
             pc[c] \in RecheckedSteps \cup {"refind"}, pc[d] \in RecheckedSteps \cup {"refind"}
      PROVE  OpOf(c) # OpOf(d)
  <2>1. HoldsTarget(c) /\ HoldsTarget(d)
    BY <1>6 DEF HoldsTarget, RecheckedSteps
  <2>2. req[c].kind = "apply" /\ req[d].kind = "apply"
    BY <1>6 DEF TypeInv, RequestsMatch, Fits, RecheckedSteps, ApplyRequest
  <2>3. /\ <<c, LockTargetOf(c)>> \in locks /\ <<d, LockTargetOf(d)>> \in locks
        /\ LockTargetOf(c) \in Fields \cup Keys
    BY <2>1 DEF LockInv, TypeInv, TypeOK
  <2>4. LockTargetOf(c) # LockTargetOf(d)
    BY <1>6, <2>3 DEF LockInv, Contends
  <2> QED
    BY <2>2, <2>4 DEF LockTargetOf
<1>7. \A c \in Calls : pc[c] \in RecheckedSteps \cup {"refind"} => pc[c] # "idle"
  BY DEF RecheckedSteps
<1>8. OperationFree'
  <2> SUFFICES ASSUME NEW c \in Calls, NEW m \in Calls, pc'[c] \in RecheckedSteps,
                      OpOf(m)' = OpOf(c)', Live(m)'
               PROVE  FALSE
    BY DEF OperationFree, RecheckedSteps
  <2>1. /\ pc[c] \in RecheckedSteps \cup {"refind"}
        /\ pc[c] \in RecheckedSteps \/ AppliedTwins(c) = {}
    BY PastRecheck
  <2>2. OpOf(c)' = OpOf(c)
    BY <1>3, <1>7, <2>1
  <2>3. CASE Live(m)
    <3>1. OpOf(m) = OpOf(c) /\ m \in Rows
      BY <1>3, <1>4, <2>2, <2>3
    <3> QED
      BY <2>1, <2>3, <3>1 DEF RegisterInv, OperationFree, AppliedTwins, Live
  <2>4. CASE Enters(m)
    <3>1. pc[m] \in RecheckedSteps /\ pc'[m] \notin RecheckedSteps
      BY <2>4 DEF Enters, RecheckedSteps
    <3>2. OpOf(m)' = OpOf(m)
      BY <1>3, <1>7, <3>1
    <3> QED
      BY <1>6, <2>1, <2>2, <3>1, <3>2
  <2> QED
    BY <1>5, <2>3, <2>4
<1>9. OneLivePerOperation'
  <2> SUFFICES ASSUME NEW m \in Calls, NEW n \in Calls, m # n, Live(m)', Live(n)',
                      OpOf(m)' = OpOf(n)'
               PROVE  FALSE
    BY DEF OneLivePerOperation
  <2>1. \A c \in Calls : Live(c)' => OpOf(c)' = OpOf(c)
    BY <1>3, <1>4, <1>5 DEF Enters
  <2>2. \A c \in Calls : Enters(c) => pc[c] \in RecheckedSteps
    BY DEF Enters, RecheckedSteps
  <2>3. ~(Enters(m) /\ Enters(n))
    BY <1>6, <2>1, <2>2
  <2> QED
    BY <1>5, <2>1, <2>2, <2>3 DEF RegisterInv, OperationFree, OneLivePerOperation
<1> QED
  BY <1>2, <1>8, <1>9 DEF RegisterInv

(* The entry of the register that stands for a row.                        *)
EntryOf(m) == [id |-> m, op |-> OpOf(m), key |-> KeyOf(m)]
Retired == {m \in Calls : rolledBack[m]}
LiveRows == {m \in Rows : Live(m)}
InForce == {EntryOf(m) : m \in LiveRows}

LEMMA EntryTyped ==
  ASSUME TypeInv, NEW m \in Calls, Live(m)
  PROVE  /\ m \in LiveRows /\ pc[m] # "idle"
         /\ EntryOf(m) \in Register!Entry
<1>1. status[m] # "none"
  BY DEF Live
<1>2. pc[m] # "idle" /\ req[m] \in ApplyRequest
  BY <1>1 DEF TypeInv, RequestsMatch
<1>3. req[m].op \in Op /\ req[m].key \in Keys \cup {NoKey}
  BY <1>2 DEF ApplyRequest
<1> QED
  BY <1>1, <1>2, <1>3 DEF LiveRows, Rows, EntryOf, OpOf, KeyOf, Register!Entry

(* Every step of the engine is a step of the register, or leaves it alone. *)
LEMMA RegisterSimulation ==
  ASSUME TypeInv, TypeInv', KeyInv, KeyInv', RegisterInv, RegisterInv', [Next]_vars
  PROVE  [Register!Next]_(Register!vars)
<1>1. Monotone
  BY MonotoneStep
<1>2. InForceStep
  BY StepsOfRegister DEF RegisterInv
<1>3. \A m \in Calls : pc[m] # "idle" => EntryOf(m)' = EntryOf(m)
  BY <1>1 DEF Monotone, EntryOf, OpOf, KeyOf
<1>4. \A m \in Calls : (m \in LiveRows <=> Live(m)) /\ ((m \in LiveRows)' <=> Live(m)')
  BY DEF LiveRows, Rows, Live
<1>5. LiveRows \subseteq Calls /\ LiveRows' \subseteq Calls
  BY DEF LiveRows, Rows
<1>6. SUFFICES (InForce' = InForce /\ Retired' = Retired)
               \/ (InForce' # InForce /\ \E e \in Register!Entry :
                     \/ /\ e.id \notin Retired
                        /\ \A r \in InForce : /\ r.id # e.id
                                              /\ r.op # e.op
                                              /\ e.key # NoKey => r.key # e.key
                        /\ InForce' = InForce \cup {e} /\ Retired' = Retired
                     \/ /\ e \in InForce
                        /\ InForce' = InForce \ {e}
                        /\ Retired' = Retired \cup {e.id})
  BY DEF Register!Next, Register!vars, Register!Enter, Register!Retire, InForce, Retired,
     LiveRows, EntryOf
<1>7. CASE Quiet
  <2>1. LiveRows' = LiveRows
    BY <1>4, <1>5, <1>7 DEF Quiet
  <2>2. \A m \in LiveRows : EntryOf(m)' = EntryOf(m)
    BY <1>3, <1>4, <1>5, EntryTyped
  <2>3. InForce' = InForce
    BY <2>1, <2>2 DEF InForce
  <2> QED
    BY <1>7, <2>3 DEF Quiet, Retired
<1>8. ASSUME NEW c \in Calls, Enters(c)
      PROVE  /\ c \notin Retired
             /\ \A r \in InForce : /\ r.id # c
                                   /\ r.op # EntryOf(c)'.op
                                   /\ EntryOf(c)'.key # NoKey => r.key # EntryOf(c)'.key
             /\ InForce' = InForce \cup {EntryOf(c)'} /\ Retired' = Retired
             /\ EntryOf(c)' \in Register!Entry /\ EntryOf(c)'.id = c
             /\ InForce' # InForce
  <2>1. ~rolledBack[c] /\ ~Live(c)
    BY <1>8 DEF Enters, KeyInv, Unsettled, RegisterInv, MarkedWereApplied, Live, ApplySteps
  <2>2. Live(c)' /\ LiveRows' = LiveRows \cup {c}
    BY <1>4, <1>5, <1>8, <2>1 DEF Enters, Live, TypeInv, TypeOK
  <2>3. \A m \in LiveRows : m \in Calls /\ m # c /\ Live(m)' /\ EntryOf(m)' = EntryOf(m)
    BY <1>3, <1>4, <1>5, <2>1, <2>2, EntryTyped
  <2>4. InForce' = InForce \cup {EntryOf(c)'}
    BY <2>2, <2>3 DEF InForce
  <2>5. EntryOf(c)' \in Register!Entry
    <3>1. status'[c] # "none" /\ req'[c] \in ApplyRequest
      BY <2>2 DEF Live, TypeInv, RequestsMatch
    <3> QED
      BY <3>1 DEF EntryOf, OpOf, KeyOf, ApplyRequest, Register!Entry
  <2>6. \A m \in LiveRows : /\ EntryOf(m).id # c
                            /\ EntryOf(m).op # EntryOf(c)'.op
                            /\ EntryOf(c)'.key # NoKey => EntryOf(m).key # EntryOf(c)'.key
    <3> SUFFICES ASSUME NEW m \in LiveRows
                 PROVE  /\ EntryOf(m).id # c
                        /\ EntryOf(m).op # EntryOf(c)'.op
                        /\ EntryOf(c)'.key # NoKey => EntryOf(m).key # EntryOf(c)'.key
      OBVIOUS
    <3>1. m \in Calls /\ m # c /\ Live(m)' /\ OpOf(m)' = EntryOf(m).op /\ KeyOf(m)' = EntryOf(m).key
      BY <2>3 DEF EntryOf
    <3>2. OpOf(m)' # OpOf(c)'
      BY <2>2, <3>1 DEF RegisterInv, OneLivePerOperation
    <3>3. m \in Rows' /\ c \in Rows'
      BY <2>2, <3>1 DEF Rows, Live
    <3>4. KeyOf(c)' # NoKey => KeyOf(m)' # KeyOf(c)'
      BY <2>2, <3>1, <3>3 DEF KeyInv, OneLivePerKey, Keyed
    <3> QED
      BY <3>1, <3>2, <3>4 DEF EntryOf
  <2>7. \A r \in InForce : /\ r.id # c
                           /\ r.op # EntryOf(c)'.op
                           /\ EntryOf(c)'.key # NoKey => r.key # EntryOf(c)'.key
    BY <2>6 DEF InForce
  <2>8. EntryOf(c)'.id = c
    BY DEF EntryOf
  <2>9. InForce' # InForce
    BY <2>4, <2>7, <2>8
  <2> QED
    BY <1>8, <2>1, <2>4, <2>5, <2>7, <2>8, <2>9 DEF Enters, Retired
<1>9. ASSUME NEW c \in Calls, Retires(c), NEW m \in Calls, m = req[c].of, rolledBack[m]
      PROVE  Quiet
  BY <1>9 DEF Retires, Quiet, Live, TypeInv, TypeOK
<1>10. ASSUME NEW c \in Calls, Retires(c), NEW m \in Calls, m = req[c].of, ~rolledBack[m]
       PROVE  /\ EntryOf(m) \in InForce /\ EntryOf(m) \in Register!Entry
              /\ InForce' = InForce \ {EntryOf(m)}
              /\ Retired' = Retired \cup {EntryOf(m).id}
              /\ InForce' # InForce
  <2>1. Live(m)
    BY <1>10 DEF Retires, KeyInv, RollbackMarked, Live
  <2>2. LiveRows' = LiveRows \ {m}
    BY <1>4, <1>5, <1>10 DEF Retires, Live, TypeInv, TypeOK
  <2>3. \A n \in LiveRows : EntryOf(n)' = EntryOf(n)
    BY <1>3, <1>4, <1>5, EntryTyped
  <2>4. m \in LiveRows /\ EntryOf(m) \in Register!Entry
    BY <2>1, EntryTyped
  <2>5. \A n \in LiveRows : EntryOf(n) = EntryOf(m) => n = m
    BY DEF EntryOf
  <2>6. InForce' = InForce \ {EntryOf(m)}
    BY <2>2, <2>3, <2>4, <2>5 DEF InForce
  <2>7. Retired' = Retired \cup {m}
    BY <1>10 DEF Retires, Retired, TypeInv, TypeOK
  <2> QED
    BY <2>4, <2>6, <2>7 DEF InForce, EntryOf
<1>11. ASSUME NEW c \in Calls, Enters(c)
       PROVE  InForce' # InForce /\ \E e \in Register!Entry :
                 /\ e.id \notin Retired
                 /\ \A r \in InForce : /\ r.id # e.id
                                       /\ r.op # e.op
                                       /\ e.key # NoKey => r.key # e.key
                 /\ InForce' = InForce \cup {e} /\ Retired' = Retired
  BY <1>8, <1>11
<1>12. ASSUME NEW c \in Calls, Retires(c)
       PROVE  Quiet \/ (InForce' # InForce /\ \E e \in Register!Entry :
                          /\ e \in InForce
                          /\ InForce' = InForce \ {e}
                          /\ Retired' = Retired \cup {e.id})
  BY <1>9, <1>10, <1>12 DEF Retires
<1> QED
  BY <1>2, <1>7, <1>11, <1>12 DEF InForceStep

(* The engine implements the register of migrations in force, with locks   *)
(* of the database that are not lost: what is told to be in force enters   *)
(* once, free of its key and of its operation, and leaves for good.        *)
THEOREM RegisterImplemented ==
  ASSUME "lockLoss" \notin Faults, LockScope = "database"
  PROVE  Spec => ImplementsRegister
<1> DEFINE Inv == TypeInv /\ LockInv /\ KeyInv
<1>1. Init => RegisterInv /\ Register!Init
  BY DEF Init, RegisterInv, MarkedWereApplied, OperationFree, OneLivePerOperation, Live, Rows,
     RecheckedSteps, Register!Init
<1>2. Inv /\ RegisterInv /\ [Next]_vars => RegisterInv'
  BY RegisterStep
<1>3. Inv /\ Inv' /\ RegisterInv /\ RegisterInv' /\ [Next]_vars
        => [Register!Next]_(Register!vars)
  BY RegisterSimulation
<1>4. Spec => []Inv
  BY KeyAlways
<1> QED
  BY <1>1, <1>2, <1>3, <1>4, PTL DEF ImplementsRegister, Register!Spec, Spec
============================================================================
