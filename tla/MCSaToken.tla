----------------------------- MODULE MCSaToken -----------------------------
(* SaToken on small instances: symmetry sets for the safety runs.          *)
EXTENDS SaToken, TLC

\* Tokens and handlers are interchangeable: no definition names one of them.
TokenSymmetry == Permutations(Tokens) \cup Permutations(Procs)

\* So are accounts.
FullSymmetry == TokenSymmetry \cup Permutations(Users)
=============================================================================
