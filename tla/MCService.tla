------------------------------ MODULE MCService ------------------------------
(* Service on a small instance. *)
EXTENDS Service, TLC

MCOrder == <<"db", "redis">>

\* A file sets one field, in every way; the environment one variable.
MCValues(f) ==
  IF f \in Numbers THEN {"file", "zero", "negative", Junk, Empty, "${X}", "${X:file}", "${X"}
  ELSE IF f = "mode" THEN {"jwt", " JWT", Junk, Empty} ELSE {"file", Empty, "${X:file}"}
MCFiles ==
  {[missing |-> TRUE], [unreadable |-> TRUE], [none \in {} |-> Unset]} \cup
  UNION {[{f} -> MCValues(f)] : f \in Fields}

MCEnvs ==
  LET none == [f \in InEnv \cup {"X"} |-> Unset]
      of(f) == IF f = "mode" THEN {"jwt", Empty, Junk}
               ELSE IF f = "X" THEN {Empty, "env"} ELSE {"env", Empty, Junk, "zero"}
  IN  {none} \cup UNION {{[none EXCEPT ![f] = v] : v \in of(f)} : f \in InEnv \cup {"X"}}

\* Plain, with a meaning under text, and both kinds in both orders.
MCErrors == {<<"plain">>, <<"plain", "404">>, <<"business", "500">>, <<"500", "business">>}
=============================================================================
