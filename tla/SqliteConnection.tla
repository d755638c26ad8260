-------------------------- MODULE SqliteConnection --------------------------
(***************************************************************************)
(* One SQLite connection, as the adapter's transaction() drives it         *)
(* (core/src/adapters/sqlite/database.ts).  The open savepoints form a     *)
(* stack whose bottom entry is `begin` (or the savepoint that began the    *)
(* transaction), `release` pops the newest entry of that name with all     *)
(* above it, `rollback to` restores what the entry saved and keeps the     *)
(* entry, and a statement outside a transaction is durable at once.        *)
(***************************************************************************)
EXTENDS Integers, Sequences

VARIABLES disk,  \* what the database file holds, and a crash leaves
          db,    \* what the connection sees
          stack  \* SQLite's transaction stack: [name, saved]; [] is autocommit

\* The entries `release savepoint sp_n` or `rollback to savepoint sp_n` can mean.
Named(n) == {i \in DOMAIN stack : stack[i].name = n}

\* Whether the closing statements of a call opened at level n find their
\* transaction: at level 1 any open one will do, deeper the name must be there.
Known(n) == IF n = 1 THEN stack # <<>> ELSE Named(n) # {}

\* The entry they act on: the newest of that name, or the bottom one.
Entry(n) == IF n = 1 THEN 1
            ELSE CHOOSE i \in Named(n) : \A j \in Named(n) : j <= i

\* `begin` is refused inside a transaction; `savepoint sp_n` never is.
Opens(n) == n = 1 => stack = <<>>

\* `begin`, or `savepoint sp_n`.
SqlOpen(n) ==
  /\ stack' = Append(stack, [name |-> n, saved |-> db])
  /\ UNCHANGED <<disk, db>>

\* One statement that writes.
SqlWrite(w) ==
  /\ db' = db \cup {w}
  /\ disk' = IF stack = <<>> THEN disk \cup {w} ELSE disk
  /\ UNCHANGED stack

\* A slip: a nested call that commits the whole transaction.
SqlCommitAll(n) ==
  /\ stack' = <<>> /\ disk' = db
  /\ UNCHANGED db

\* `commit`, or `release savepoint`: leaving the bottom entry commits.
SqlCommit(n) ==
  /\ stack' = SubSeq(stack, 1, Entry(n) - 1)
  /\ disk' = IF Entry(n) = 1 THEN db ELSE disk
  /\ UNCHANGED db

\* A slip: the catch block without its rollback.
SqlRollbackSkipped(n) == UNCHANGED <<db, disk, stack>>

\* `rollback` ends the transaction; `rollback to savepoint` keeps its entry.
SqlRollback(n) ==
  /\ db' = stack[Entry(n)].saved
  /\ stack' = IF n = 1 THEN <<>> ELSE SubSeq(stack, 1, Entry(n))
  /\ UNCHANGED disk

\* The process dies: the file keeps what was committed.
SqlLost ==
  /\ db' = disk /\ stack' = <<>>
  /\ UNCHANGED disk
=============================================================================
