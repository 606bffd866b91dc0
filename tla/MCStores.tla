------------------------------ MODULE MCStores ------------------------------
(* Stores on a small instance: both implementations.                       *)
EXTENDS Stores, TLC

\* Permanent, one second, and the timeouts that store nothing.
MCTimeouts == {-2, -1, 0, 1}

\* Goroutines and values are interchangeable.
StoreSymmetry == Permutations(Procs) \cup Permutations(Values)
=============================================================================
