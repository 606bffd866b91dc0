--------------------------- MODULE MCTransactions ---------------------------
(* Transactions on small instances: rows and runs are interchangeable.     *)
EXTENDS Transactions, TLC

Symmetry == Permutations(Keys) \cup Permutations(Procs)
=============================================================================
