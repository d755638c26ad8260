------------------------- MODULE SqliteTransactions -------------------------
(***************************************************************************)
(* The SQLite adapter's transactions (core/src/adapters/sqlite/database.ts)*)
(*                                                                         *)
(* One SqliteOrbitDatabase holds one connection and one counter,           *)
(* #transactionDepth.  transaction(fn) opens with `begin` at depth 0 and   *)
(* with `savepoint sp_<depth+1>` deeper, and closes with the statement it  *)
(* chose then.  Everything between two awaits is atomic; a call chain may  *)
(* be suspended wherever its callback awaits, and others run.              *)
(***************************************************************************)
EXTENDS SqliteConnection, FiniteSets

CONSTANTS Chain,     \* call chains sharing the database object: requests, or
                     \* the branches of a Promise.all
          Write,     \* the writes they may make, each at most once
          MaxDepth,  \* bound on the open transaction() calls
          MaxStack   \* bound on SQLite's stack: `rollback to` keeps its entry,
                     \* so failing nested calls pile entries up

ASSUME BoundsAssumption == MaxDepth \in Nat /\ MaxStack \in Nat

VARIABLES depth,     \* #transactionDepth
          open,      \* transaction() calls not yet settled, oldest first
          told,      \* how each chain's latest transaction() ended
          kept,      \* writes of outermost calls that resolved
          dropped,   \* writes of calls that rejected
          overlapped \* history: two chains have had work in flight at once

vars == <<disk, db, stack, depth, open, told, kept, dropped, overlapped>>

Answers == {"none", "ok", "failed", "lost", "refused"}

Init == /\ disk = {} /\ db = {} /\ stack = <<>>
        /\ depth = 0 /\ open = <<>>
        /\ told = [c \in Chain |-> "none"]
        /\ kept = {} /\ dropped = {} /\ overlapped = FALSE

-----------------------------------------------------------------------------
(* The calls of a chain *)

Frames(c) == {i \in DOMAIN open : open[i].chain = c}
Newest(S) == CHOOSE i \in S : \A j \in S : j <= i
Innermost(c) == Newest(Frames(c))
Enclosing(c) == Frames(c) \ {Innermost(c)}

Without(i) ==
  [j \in 1..(Len(open) - 1) |-> IF j < i THEN open[j] ELSE open[j + 1]]

Used == db \cup disk \cup kept \cup dropped \cup UNION {open[i].wrote : i \in DOMAIN open}

\* Work that meets a call of another chain.
Meet(c) == overlapped' = (overlapped \/ \E i \in DOMAIN open : open[i].chain # c)

\* transaction(): begin or savepoint, then the depth goes up.
Open(c) ==
  /\ Len(open) < MaxDepth /\ Len(stack) < MaxStack
  /\ Opens(depth + 1) /\ SqlOpen(depth + 1)
  /\ depth' = depth + 1
  /\ open' = Append(open, [chain |-> c, level |-> depth + 1, wrote |-> {}])
  /\ Meet(c)
  /\ UNCHANGED <<told, kept, dropped>>

\* A slip: the depth raised before the statement that may throw.
OpenRefusedCounted(c) ==
  /\ ~Opens(depth + 1)
  /\ told' = [told EXCEPT ![c] = "refused"]
  /\ depth' = depth + 1
  /\ UNCHANGED <<disk, db, stack, open, kept, dropped, overlapped>>

\* transaction() where `begin` throws: a transaction is open though the depth is 0.
OpenRefused(c) ==
  /\ ~Opens(depth + 1)
  /\ told' = [told EXCEPT ![c] = "refused"]
  /\ UNCHANGED <<disk, db, stack, depth, open, kept, dropped, overlapped>>

\* execute(): one statement, inside the chain's innermost call if it has one.
Execute(c) ==
  \E w \in Write \ Used :
    /\ SqlWrite(w)
    /\ open' = IF Frames(c) = {} THEN open
               ELSE [open EXCEPT ![Innermost(c)].wrote = @ \cup {w}]
    /\ Meet(c)
    /\ UNCHANGED <<depth, told, kept, dropped>>

\* The finally block: the depth goes down and the call is over.
Settle(c, answer) ==
  /\ depth' = depth - 1
  /\ told' = [told EXCEPT ![c] = answer]
  /\ UNCHANGED overlapped

\* The callback resolves and the commit finds its transaction: the writes pass
\* to the enclosing call, or are reported to the caller as done.
Resolve(c) ==
  LET mine == open[Innermost(c)].wrote IN
  /\ Frames(c) # {} /\ Known(open[Innermost(c)].level)
  /\ SqlCommit(open[Innermost(c)].level)
  /\ IF Enclosing(c) = {}
       THEN open' = Without(Innermost(c)) /\ kept' = kept \cup mine
       ELSE /\ open' = [Without(Innermost(c)) EXCEPT ![Newest(Enclosing(c))].wrote = @ \cup mine]
            /\ UNCHANGED kept
  /\ Settle(c, "ok")
  /\ UNCHANGED dropped

\* The call rejects with no write of its own reported.
Drop(c, answer) ==
  /\ dropped' = dropped \cup open[Innermost(c)].wrote
  /\ open' = Without(Innermost(c))
  /\ Settle(c, answer)
  /\ UNCHANGED kept

\* The callback throws, or the commit is refused with the transaction still
\* open (the file is locked by another process): the catch block rolls back.
Reject(c) ==
  /\ Frames(c) # {} /\ Known(open[Innermost(c)].level)
  /\ SqlRollback(open[Innermost(c)].level)
  /\ Drop(c, "failed")

\* The callback resolves, but neither the commit nor the rollback of the catch
\* block finds its transaction: the rollback's error is thrown.
ResolveLost(c) ==
  /\ Frames(c) # {} /\ ~Known(open[Innermost(c)].level)
  /\ Drop(c, "lost")
  /\ UNCHANGED <<disk, db, stack>>

\* The callback throws and the rollback does not find its transaction.
RejectLost(c) ==
  /\ Frames(c) # {} /\ ~Known(open[Innermost(c)].level)
  /\ Drop(c, "failed")
  /\ UNCHANGED <<disk, db, stack>>

\* The process dies: the file keeps what was committed, and a new database
\* object starts at depth 0.
Crash ==
  /\ SqlLost /\ depth' = 0 /\ open' = <<>>
  /\ told' = [c \in Chain |-> "none"]
  /\ UNCHANGED <<kept, dropped, overlapped>>

Next == \/ \E c \in Chain : Open(c) \/ OpenRefused(c) \/ Execute(c) \/ Resolve(c)
                            \/ Reject(c) \/ ResolveLost(c) \/ RejectLost(c)
        \/ Crash

Spec == Init /\ [][Next]_vars

-----------------------------------------------------------------------------
(* Properties *)

TypeOK ==
  /\ disk \subseteq Write /\ db \subseteq Write
  /\ kept \subseteq Write /\ dropped \subseteq Write
  /\ stack \in Seq([name : Nat \ {0}, saved : SUBSET Write])
  /\ depth \in Nat
  /\ open \in Seq([chain : Chain, level : Nat \ {0}, wrote : SUBSET Write])
  /\ told \in [Chain -> Answers]
  /\ overlapped \in BOOLEAN

\* The counter is the number of calls in flight, whatever the interleaving and
\* however each call ends: a statement that throws leaves it balanced.
DepthCountsCalls == depth = Len(open)

\* As long as chains take turns, callers are told what happened: what was reported
\* written is in the file, a call that rejected leaves no write behind, and a call
\* rejects only when its callback or the commit of the whole transaction failed.
OutcomeIsAsTold ==
  ~overlapped =>
    /\ kept \subseteq disk
    /\ dropped \cap (db \cup disk) = {}
    /\ \A c \in Chain : told[c] \notin {"lost", "refused"}

\* A call whose callback throws leaves none of its writes in the file, whoever else
\* is at work: implementors of TransactionScope "must ... Roll back on any thrown
\* error" (core/src/adapters/interface.ts:82-85).
ThrownErrorsRollBack ==
  [][\A c \in Chain :
       told[c] # "failed" /\ told'[c] = "failed" => (dropped' \ dropped) \cap disk' = {}]_vars

\* The i-th of a chain's calls in flight, the outermost first, and what each wrote.
Call(c, i) ==
  CHOOSE j \in Frames(c) : Cardinality({k \in Frames(c) : k <= j}) = i
Pending(c) == [i \in 1..Cardinality(Frames(c)) |-> open[Call(c, i)].wrote]

\* As long as chains take turns, the savepoint scheme implements nested
\* transaction scopes: every step is a step of TransactionScope.
Scope == INSTANCE TransactionScope WITH
  durable <- disk, pending <- [c \in Chain |-> Pending(c)]

ImplementsScope == Scope!Init /\ [][overlapped' \/ [Scope!Next]_(Scope!scopeVars)]_vars
=============================================================================
