------------------------ MODULE MigrationRegister ------------------------
(* What apply and rollback promise their callers, with the ledger rows, the *)
(* locks and the handlers' steps left out: the migrations in force are a    *)
(* register in which an idempotency key, and a set of operations, occurs at *)
(* most once.  A migration enters it once, when it is applied, and leaves   *)
(* it for good when it is rolled back.                                      *)
CONSTANTS
  Migrations,  \* migration identities
  Operations,  \* what a migration does
  Keys,        \* idempotency keys
  NoKey        \* a migration applied without a key

VARIABLES
  inForce,     \* the migrations in force: records [id, op, key]
  retired      \* the identities of those rolled back

vars == <<inForce, retired>>

Entry == [id: Migrations, op: Operations, key: Keys \cup {NoKey}]

Init == inForce = {} /\ retired = {}

(* apply: neither the key nor the operations are in force already.         *)
Enter(e) ==
  /\ e.id \notin retired
  /\ \A r \in inForce : /\ r.id # e.id
                        /\ r.op # e.op
                        /\ e.key # NoKey => r.key # e.key
  /\ inForce' = inForce \cup {e}
  /\ UNCHANGED retired

(* rollback.                                                               *)
Retire(e) ==
  /\ e \in inForce
  /\ inForce' = inForce \ {e}
  /\ retired' = retired \cup {e.id}

(* Either changes what is in force.  Saying so first spares TLC the search *)
(* for an entry in the many steps of the engine that leave it alone.       *)
Next == inForce' # inForce /\ \E e \in Entry : Enter(e) \/ Retire(e)

Spec == Init /\ [][Next]_vars
==========================================================================
