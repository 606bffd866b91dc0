------------------------------- MODULE Answers -------------------------------
(***************************************************************************)
(* From an error to an HTTP answer: packages apperr and result, and        *)
(* WriteError of package middleware.  An error is the sequence of its      *)
(* layers, the outermost first: the status of an apperr.Error, "business"  *)
(* or "plain".  Codes of business failures and messages are left out; the  *)
(* code of an apperr.Error is its status, as its constructors have it.     *)
(***************************************************************************)
EXTENDS Naturals, Sequences

Semantic == {"400", "401", "403", "404", "409", "422", "429", "500", "503"}

Layers == Semantic \cup {"business", "plain"}

\* errors.As: the outermost layer of a kind, if there is one.
Found(kinds, err) == \E i \in DOMAIN err : err[i] \in kinds
Outermost(kinds, err) ==
  err[CHOOSE i \in DOMAIN err : err[i] \in kinds /\ \A j \in 1..(i - 1) : err[j] \notin kinds]

As(err) == Outermost(Semantic, err)
IsBusiness(err) == Found({"business"}, err)
IsHTTPSemantic(err) == Found(Semantic, err)

HTTPStatusOf(err) == IF IsHTTPSemantic(err) THEN As(err) ELSE "500"

\* An apperr.Error anywhere comes before a business failure anywhere.
CodeOf(err) ==
  IF IsHTTPSemantic(err) THEN As(err)
  ELSE IF IsBusiness(err) THEN "business" ELSE "500"

\* MUTANT: only the outermost layer is looked at
WriteErrorOutermost(err) ==
  IF err[1] = "business" THEN [status |-> "200", code |-> "business"]
  ELSE IF err[1] \in Semantic THEN [status |-> err[1], code |-> err[1]]
  ELSE [status |-> "500", code |-> "500"]

\* A business failure anywhere in the chain is answered with 200, whatever
\* wraps it.
WriteError(err) ==
  IF IsBusiness(err) THEN [status |-> "200", code |-> "business"]
  ELSE [status |-> HTTPStatusOf(err), code |-> CodeOf(err)]

\* result.OK, and the handlers of the probes
OK == [status |-> "200", code |-> "0"]
=============================================================================
