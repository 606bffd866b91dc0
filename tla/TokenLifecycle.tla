--------------------------- MODULE TokenLifecycle ---------------------------
(***************************************************************************)
(* What package satoken promises of a token value when tokens are not      *)
(* shared (IsShare = false): it is drawn once, for one account; it may     *)
(* become live once; once dead it never lives again.                       *)
(***************************************************************************)
CONSTANTS Users, Tokens, NONE

VARIABLES stage, account

lifecycle == <<stage, account>>

Init ==
  /\ stage = [t \in Tokens |-> "fresh"]
  /\ account = [t \in Tokens |-> NONE]

\* NewTokenValue inside Login
Draw(t, u) ==
  /\ stage[t] = "fresh"
  /\ stage' = [stage EXCEPT ![t] = "pending"]
  /\ account' = [account EXCEPT ![t] = u]

\* the login stores the token key
Activate(t) ==
  /\ stage[t] = "pending"
  /\ stage' = [stage EXCEPT ![t] = "live"]
  /\ UNCHANGED account

\* the login fails, or a logout, a kick, the idle check or the time to live
\* removes the token key
Retire(t) ==
  /\ stage[t] \in {"pending", "live"}
  /\ stage' = [stage EXCEPT ![t] = "dead"]
  /\ UNCHANGED account

Next == \E t \in Tokens : (\E u \in Users : Draw(t, u)) \/ Activate(t) \/ Retire(t)

Spec == Init /\ [][Next]_lifecycle
=============================================================================
