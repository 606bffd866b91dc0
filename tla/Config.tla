------------------------------- MODULE Config -------------------------------
(***************************************************************************)
(* Loading the configuration (src/config/config.go): the defaults, over    *)
(* them the YAML file with its placeholders expanded, over it the          *)
(* environment, then Normalize.                                            *)
(*                                                                         *)
(* The fields are some of each kind that the code treats alike.  A value   *)
(* is a word that tells where it is from ("default", "file", "env") or     *)
(* what is odd about it; only the mode of authentication has words of its  *)
(* own.  The variables of the environment are one for every field of       *)
(* InEnv, and "X", which the placeholders name.                            *)
(***************************************************************************)
Err   == "error"
Unset == "unset"      \* a variable that is not set
Empty == ""           \* set to nothing
Junk  == "junk"       \* text that is no number

\* Normalize resets these numbers when they are not positive, and takes the
\* others as they are.
Positive == {"port", "shutdownTimeout", "dialTimeout", "jwtTTL"}
AsGiven  == {"databasePort", "redisDB", "connMaxLifetime", "connMaxIdleTime",
             "timeout", "activeTimeout", "cookieMaxAge"}
Numbers  == Positive \cup AsGiven
Texts    == {"tokenName", "cookieName", "mode"}
Fields   == Numbers \cup Texts

\* The fields that have a variable.
InEnv == Fields \ {"dialTimeout", "connMaxLifetime", "connMaxIdleTime"}

Default == [f \in Fields |->
  CASE f = "mode" -> "satoken" [] f = "cookieName" -> Empty [] OTHER -> "default"]

\* ExpandEnv on the text of one field: a variable set to nothing counts as set.
ExpandEnv(v, env) ==
  IF v \notin {"${X}", "${X:file}", "${X"} THEN v
  ELSE IF v = "${X" THEN Err
  ELSE IF env["X"] # Unset THEN env["X"]
  ELSE IF v = "${X:file}" THEN "file" ELSE Err

\* yaml.Unmarshal over the defaults: an expansion to nothing is YAML's null and
\* leaves the field; text for a number, nothing in quotes too, fails the file.
FromFile(file, env) ==
  LET text(f) == ExpandEnv(file[f], env)
      bad(f)  == \/ text(f) = Err
                 \/ f \in Numbers /\ (text(f) = Junk \/ file[f] = Empty)
  IN  IF \E f \in DOMAIN file : bad(f) THEN [err |-> TRUE]
      ELSE [f \in Fields |-> IF f \notin DOMAIN file THEN Default[f]
              ELSE IF text(f) = Empty /\ file[f] # Empty THEN Default[f] ELSE text(f)]

\* setStr, setInt, setInt64, setBool, setDuration: what is empty or does not
\* parse leaves the field as it is.
Set(f, v, new) ==
  IF new \in {Unset, Empty} \/ (f \in Numbers /\ new = Junk) THEN v ELSE new

ApplyEnv(c, env) == [f \in Fields |-> IF f \in InEnv THEN Set(f, c[f], env[f]) ELSE c[f]]

\* strings.TrimSpace and ToLower, then one of two.
AuthMode(v) == IF v \in {"jwt", " JWT"} THEN "jwt" ELSE "satoken"

Normalize(c) ==
  LET name == IF c["tokenName"] = Empty THEN "default" ELSE c["tokenName"] IN
  [f \in Fields |->
    CASE f \in Positive /\ c[f] \in {"zero", "negative"} -> "default"
      [] f = "tokenName" -> name
      [] f = "cookieName" /\ c[f] = Empty -> name
      [] f = "mode" -> AuthMode(c[f])
      [] OTHER -> c[f]]

\* MUTANT: the environment is applied to the normalised file
LoadUnnormalized(file, env) ==
  LET c == IF "missing" \in DOMAIN file THEN Default ELSE FromFile(file, env) IN
  IF "unreadable" \in DOMAIN file \/ "err" \in DOMAIN c THEN [err |-> TRUE]
  ELSE ApplyEnv(Normalize(c), env)

\* Load: a missing file is no error, one that cannot be read is.
Load(file, env) ==
  LET c == IF "missing" \in DOMAIN file THEN Default ELSE FromFile(file, env) IN
  IF "unreadable" \in DOMAIN file \/ "err" \in DOMAIN c THEN [err |-> TRUE]
  ELSE Normalize(ApplyEnv(c, env))

-----------------------------------------------------------------------------
(* For the properties *)

\* What is said of field f, by the strongest source that says something: the
\* environment, the file, the defaults.
Given(f, file, env) ==
  LET says(v) == v \notin {Unset, Empty} /\ ~(f \in Numbers /\ v = Junk)
      null    == ExpandEnv(file[f], env) = Empty /\ file[f] # Empty
  IN  IF f \in InEnv /\ says(env[f]) THEN env[f]
      ELSE IF f \in DOMAIN file /\ ~null THEN ExpandEnv(file[f], env)
      ELSE Default[f]
=============================================================================
