-------------------------- MODULE MCSaTokenOverlap --------------------------
(* SaTokenOverlap on small instances.                                      *)
EXTENDS SaTokenOverlap, TLC

\* Accounts, tokens and handlers are interchangeable: no definition names one.
FullSymmetry ==
  Permutations(Tokens) \cup Permutations(Procs) \cup Permutations(Users)
=============================================================================
