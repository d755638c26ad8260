------------------------ MODULE MCSqliteTransactions ------------------------
(* Small instances of SqliteTransactions. *)
EXTENDS SqliteTransactions, TLC

Symmetry == Permutations(Chain) \cup Permutations(Write)
=============================================================================
