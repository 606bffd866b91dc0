---------------------------- MODULE ServiceProofs ----------------------------
(* What the life of a service promises, for every number of requests,      *)
(* dependencies, configurations and error chains; and the offsets of       *)
(* package result, for all pages and widths of int.                        *)
EXTENDS Service, Paging, WellFoundedInduction, TLAPS

-----------------------------------------------------------------------------
(* Errors: what errors.As finds *)

\* The outermost layer of a kind exists when there is one, and is of the kind.
LEMMA OutermostFirst ==
  ASSUME NEW err \in Seq(Layers), NEW kinds, Found(kinds, err)
  PROVE  \E i \in DOMAIN err :
           /\ Outermost(kinds, err) = err[i] /\ err[i] \in kinds
           /\ \A j \in 1..(i - 1) : err[j] \notin kinds
<1> DEFINE Hits == {i \in DOMAIN err : err[i] \in kinds}
<1>1. DOMAIN err = 1..Len(err) /\ Len(err) \in Nat
  OBVIOUS
<1>2. Hits \subseteq Nat /\ Hits # {}
  BY <1>1 DEF Found
<1>3. PICK i \in Hits : \A j \in Hits : ~(<<j, i>> \in OpToRel(<, Nat))
  BY <1>2, WFMin, NatLessThanWellFounded
<1>4. \A j \in Hits : ~(j < i)
  BY <1>2, <1>3 DEF OpToRel
<1>5. i \in DOMAIN err /\ err[i] \in kinds /\ \A j \in 1..(i - 1) : err[j] \notin kinds
  BY <1>1, <1>4
<1> QED BY <1>5 DEF Outermost

\* Every error is answered with one of the statuses.
LEMMA WriteErrorType ==
  ASSUME NEW err \in Seq(Layers)
  PROVE  /\ WriteError(err).status \in {"200"} \cup Semantic
         /\ WriteError(err).code \in {"business"} \cup Semantic
         /\ WriteError(err) = [status |-> WriteError(err).status, code |-> WriteError(err).code]
<1>1. CASE IsBusiness(err)
  BY <1>1 DEF WriteError
<1>2. CASE ~IsBusiness(err) /\ IsHTTPSemantic(err)
  <2>1. As(err) \in Semantic
    BY <1>2, OutermostFirst DEF As, IsHTTPSemantic
  <2> QED BY <1>2, <2>1 DEF WriteError, HTTPStatusOf, CodeOf
<1>3. CASE ~IsBusiness(err) /\ ~IsHTTPSemantic(err)
  BY <1>3 DEF WriteError, HTTPStatusOf, CodeOf, Semantic
<1> QED BY <1>1, <1>2, <1>3

\* What the status says of the chain.
Asked(err) ==
  IF IsBusiness(err) /\ IsHTTPSemantic(err) THEN "200" ELSE Meaning(err)

LEMMA WriteErrorMeaning ==
  ASSUME NEW err \in Seq(Layers)
  PROVE  WriteError(err).status = Asked(err)
<1> DEFINE kinds == Semantic \cup {"business"}
<1>1. Found(kinds, err) <=> IsBusiness(err) \/ IsHTTPSemantic(err)
  BY DEF Found, IsBusiness, IsHTTPSemantic
<1>2. CASE IsBusiness(err) /\ IsHTTPSemantic(err)
  BY <1>2 DEF WriteError, Asked
<1>3. CASE IsBusiness(err) /\ ~IsHTTPSemantic(err)
  <2>1. Outermost(kinds, err) = "business"
    <3>1. PICK i \in DOMAIN err : Outermost(kinds, err) = err[i] /\ err[i] \in kinds
      BY <1>1, <1>3, OutermostFirst
    <3>2. err[i] \notin Semantic
      BY <1>3 DEF IsHTTPSemantic, Found
    <3> QED BY <3>1, <3>2
  <2> QED BY <1>1, <1>3, <2>1 DEF WriteError, Asked, Meaning
<1>4. CASE ~IsBusiness(err) /\ IsHTTPSemantic(err)
  <2>1. PICK i \in DOMAIN err :
          /\ Outermost(kinds, err) = err[i] /\ err[i] \in kinds
          /\ \A j \in 1..(i - 1) : err[j] \notin kinds
    BY <1>1, <1>4, OutermostFirst
  <2>2. PICK k \in DOMAIN err :
          /\ As(err) = err[k] /\ err[k] \in Semantic
          /\ \A j \in 1..(k - 1) : err[j] \notin Semantic
    BY <1>4, OutermostFirst DEF As, IsHTTPSemantic
  <2>3. err[i] \in Semantic
    BY <1>4, <2>1 DEF IsBusiness, Found
  <2>4. DOMAIN err = 1..Len(err) /\ Len(err) \in Nat
    OBVIOUS
  <2>5. i = k
    <3>1. ~(i < k)
      BY <2>2, <2>3, <2>4
    <3>2. ~(k < i)
      BY <2>1, <2>2, <2>4
    <3> QED BY <2>4, <3>1, <3>2
  <2>6. err[i] # "business"
    BY <2>3 DEF Semantic
  <2> QED BY <1>1, <1>4, <2>1, <2>2, <2>5, <2>6 DEF WriteError, HTTPStatusOf, Asked, Meaning
<1>5. CASE ~IsBusiness(err) /\ ~IsHTTPSemantic(err)
  BY <1>1, <1>5 DEF WriteError, HTTPStatusOf, Asked, Meaning
<1> QED BY <1>2, <1>3, <1>4, <1>5

-----------------------------------------------------------------------------
(* The inductive invariant *)

\* A probe under way: its verdict so far is about instants of the request.
\* A probe answered: the verdict stands.
ProbeOK(q) ==
  /\ q.pc = "checks" =>
       /\ q.kind = "ready" /\ q.up \subseteq q.wasUp /\ (q.up # Deps => q.wasDown)
       /\ q.healthy => \A i \in 1..(q.next - 1) : Order[i] \in q.wasUp
       /\ ~q.healthy => q.wasDown \/ q.late
  /\ q.pc = "idle" /\ q.kind = "ready" =>
       IF q.answer.status = "200" THEN q.wasUp = Deps ELSE q.wasDown \/ q.late

StatusFor(q) ==
  CASE q.cause \in {"none", "late"} -> "200" [] q.cause = "login" -> "401"
    [] q.cause = "store" -> "503" [] q.cause = "panic" -> "500"
    [] q.cause = "handler" -> Asked(q.error)

\* A request of the service has failed nowhere until it is answered.
ApiOK(q) ==
  /\ q.pc \in {"login", "session", "handler"} => q.kind = "api" /\ q.cause = "none"
  /\ q.pc = "idle" /\ q.kind = "api" => q.answer.status = StatusFor(q)

RequestOK(q) ==
  /\ q \in Request
  /\ q.pc = "idle" /\ q.kind # "none" => q.answer.status # "none"
  /\ ProbeOK(q) /\ ApiOK(q)

RequestsInv ==
  /\ req \in [Requests -> Request]
  /\ \A r \in Requests : RequestOK(req[r])

\* Where Run is, and what it will return.
MainInv ==
  /\ phase \in {"load", "refused", "serving", "shutdown", "closing", "returned"}
  /\ signalled \in BOOLEAN /\ timedOut \in BOOLEAN
  /\ listening \in {"up", "down", "failed"}
  /\ closes = IF phase = "returned" THEN 1 ELSE 0
  /\ phase \notin {"closing", "returned"} => ret = "none" /\ ~timedOut
  /\ phase = "closing" => ret \in {"nil", "listen", "shutdown"}
  /\ phase = "returned" => ret \in {"nil", "listen", "close", "shutdown"}
  /\ timedOut => ret \in {"shutdown", "close"}
  /\ ret = "nil" \/ phase = "shutdown" => signalled
  /\ ret = "shutdown" => timedOut

\* Nobody is left behind unless the shutdown timed out or never began.
QuietInv ==
  /\ phase \in {"closing", "returned"} /\ ret # "listen" /\ ~timedOut =>
       \A r \in Requests : ~Running(r)
  /\ ~timedOut => \A r \in Requests : ~req[r].cut

ModeInv ==
  /\ phase = "load" => ("err" \in DOMAIN cfg \/ cfg["mode"] \in {"satoken", "jwt"})
  /\ phase = "serving" => cfg.mode \in {"satoken", "jwt"}

IInv == RequestsInv /\ MainInv /\ QuietInv /\ ModeInv

-----------------------------------------------------------------------------
(* The parts of a request *)

\* An answered request, as Ends leaves it.
EndOf(q, answer) ==
  [q EXCEPT !.pc = "idle", !.answer = answer, !.token = "none", !.up = {},
            !.next = 1, !.healthy = TRUE]

LEMMA OrderFacts ==
  /\ Len(Order) \in Nat /\ DOMAIN Order = 1..Len(Order)
  /\ \A i \in 1..Len(Order) : Order[i] \in Deps
  /\ \A d \in Deps : \E i \in 1..Len(Order) : Order[i] = d
BY OrderAssumption

Answer == [status : {"none", "200"} \cup Semantic,
           code : {"none", "0", "business"} \cup Semantic]

LEMMA EndFields ==
  ASSUME NEW q \in Request, NEW answer \in Answer
  PROVE  LET e == EndOf(q, answer) IN
         /\ e \in Request /\ e.pc = "idle" /\ e.answer = answer
         /\ e.kind = q.kind /\ e.cut = q.cut /\ e.cause = q.cause /\ e.error = q.error
         /\ e.late = q.late /\ e.wasUp = q.wasUp /\ e.wasDown = q.wasDown
<1>1. 1 \in 1..Len(Order) + 1
  BY OrderFacts
<1>2. EndOf(q, answer) \in Request
  BY <1>1 DEF EndOf, Request, Answer
<1>3. LET e == EndOf(q, answer) IN
      /\ e.pc = "idle" /\ e.answer = answer /\ e.kind = q.kind /\ e.cut = q.cut
      /\ e.cause = q.cause /\ e.error = q.error /\ e.late = q.late
      /\ e.wasUp = q.wasUp /\ e.wasDown = q.wasDown
  BY DEF EndOf, Request
<1> QED BY <1>2, <1>3

\* A new request
LEMMA ArrivesFields ==
  ASSUME NEW kind \in {"live", "ready", "api"},
         NEW pc \in {"idle", "login", "checks"}
  PROVE  LET q == Arrives(kind, pc) IN
         /\ q \in Request /\ q.kind = kind /\ q.pc = pc /\ q.cause = "none"
         /\ q.cut = FALSE /\ q.next = 1 /\ q.healthy = TRUE /\ q.late = FALSE
<1>1. 1 \in 1..Len(Order) + 1
  BY OrderFacts
<1> QED BY <1>1 DEF Arrives, NoRequest, NoAnswer, Request

\* An answered request is in order when its answer is the one it asks for.
LEMMA EndOK ==
  ASSUME NEW q \in Request, NEW answer \in Answer, answer.status # "none",
         q.kind = "api" => answer.status = StatusFor(q),
         q.kind = "ready" =>
           IF answer.status = "200" THEN q.wasUp = Deps ELSE q.wasDown \/ q.late
  PROVE  RequestOK(EndOf(q, answer)) /\ EndOf(q, answer).cut = q.cut
<1> DEFINE e == EndOf(q, answer)
<1>1. /\ e \in Request /\ e.pc = "idle" /\ e.answer = answer
      /\ e.kind = q.kind /\ e.cut = q.cut /\ e.cause = q.cause /\ e.error = q.error
      /\ e.late = q.late /\ e.wasUp = q.wasUp /\ e.wasDown = q.wasDown
  BY EndFields DEF EndOf
<1> HIDE DEF e
<1>2. StatusFor(e) = StatusFor(q)
  BY <1>1 DEF StatusFor
<1>3. RequestOK(e)
  BY <1>1, <1>2 DEF RequestOK, ProbeOK, ApiOK
<1> QED BY <1>1, <1>3 DEF e

\* A step of one request keeps the invariant when the request is in order and
\* nothing starts once the listener is closed.
LEMMA RequestStep ==
  ASSUME IInv, NEW r \in Requests, NEW q, Goes(r, q), RequestOK(q),
         Running(r) \/ phase = "serving", q.cut => req[r].cut
  PROVE  IInv'
<1>1. /\ req' = [req EXCEPT ![r] = q] /\ q \in Request
      /\ UNCHANGED <<phase, listening, timedOut, closes, ret, signalled, cfg, file, env>>
  BY DEF Goes, main, setup, RequestOK
<1>2. /\ req' \in [Requests -> Request] /\ req'[r] = q
      /\ \A s \in Requests \ {r} : req'[s] = req[s]
  BY <1>1 DEF IInv, RequestsInv
<1>3. RequestsInv'
  BY <1>2 DEF IInv, RequestsInv
<1>4. MainInv' /\ ModeInv'
  BY <1>1 DEF IInv, MainInv, ModeInv
<1>5. QuietInv'
  <2>1. CASE phase = "serving"
    <3>1. ~timedOut /\ phase' \notin {"closing", "returned"}
      BY <1>1, <2>1 DEF IInv, MainInv
    <3> QED BY <1>1, <1>2, <3>1 DEF IInv, QuietInv
  <2>2. CASE phase # "serving"
    BY <1>1, <1>2, <2>2 DEF IInv, QuietInv, Running
  <2> QED BY <2>1, <2>2
<1> QED BY <1>3, <1>4, <1>5 DEF IInv

\* A request is answered.
LEMMA EndStep ==
  ASSUME IInv, NEW r \in Requests, NEW q \in Request, NEW answer \in Answer,
         Ends(r, q, answer), answer.status # "none",
         Running(r) \/ phase = "serving", q.cut => req[r].cut,
         q.kind = "api" => answer.status = StatusFor(q),
         q.kind = "ready" =>
           IF answer.status = "200" THEN q.wasUp = Deps ELSE q.wasDown \/ q.late
  PROVE  IInv'
<1>1. Goes(r, EndOf(q, answer))
  BY DEF Ends, EndOf
<1>2. RequestOK(EndOf(q, answer)) /\ EndOf(q, answer).cut = q.cut
  BY EndOK
<1> QED BY <1>1, <1>2, RequestStep

\* The errors of the model and their answers.
Causes == Errors \cup {<<"401">>, <<"500">>, <<"503">>}

LEMMA CausesFacts ==
  /\ Causes \subseteq Seq(Layers)
  /\ \A err \in Causes :
       WriteError(err) \in Answer /\ WriteError(err).status # "none"
  /\ \A s \in {"401", "500", "503"} : WriteError(<<s>>).status = s
<1>1. Causes \subseteq Seq(Layers)
  <2>1. \A s \in {"401", "500", "503"} : <<s>> \in Seq(Layers)
    BY DEF Layers, Semantic
  <2> QED BY <2>1, ErrorAssumption DEF Causes
<1>2. ASSUME NEW err \in Causes
      PROVE  WriteError(err) \in Answer /\ WriteError(err).status # "none"
  <2>1. /\ WriteError(err).status \in {"200"} \cup Semantic
        /\ WriteError(err).code \in {"business"} \cup Semantic
        /\ WriteError(err) = [status |-> WriteError(err).status,
                              code |-> WriteError(err).code]
    BY <1>1, WriteErrorType
  <2>2. "none" \notin {"200"} \cup Semantic
    BY DEF Semantic
  <2> QED BY <2>1, <2>2 DEF Answer
<1>3. ASSUME NEW s \in {"401", "500", "503"} PROVE WriteError(<<s>>).status = s
  <2> DEFINE err == <<s>>
  <2>1. err \in Seq(Layers) /\ DOMAIN err = {1} /\ err[1] = s /\ s \in Semantic
    BY DEF Layers, Semantic
  <2> HIDE DEF err
  <2>2. ~IsBusiness(err) /\ IsHTTPSemantic(err)
    BY <2>1 DEF IsBusiness, IsHTTPSemantic, Found
  <2>3. As(err) = s
    BY <2>1, <2>2, OutermostFirst DEF As, IsHTTPSemantic
  <2>4. WriteError(err).status = s
    BY <2>2, <2>3 DEF WriteError, HTTPStatusOf
  <2> QED BY <2>4 DEF err
<1> QED BY <1>1, <1>2, <1>3

\* A request of the service fails for a cause, with the error of the cause.
LEMMA FailStep ==
  ASSUME IInv, NEW r \in Requests, Running(r), req[r].kind = "api",
         NEW cause \in {"login", "store", "panic", "handler"}, NEW err \in Causes,
         cause = "login" => err = <<"401">>, cause = "store" => err = <<"503">>,
         cause = "panic" => err = <<"500">>, Fails(r, cause, err)
  PROVE  IInv'
<1> DEFINE q == [req[r] EXCEPT !.cause = cause, !.error = err]
<1>1. req[r] \in Request
  BY DEF IInv, RequestsInv
<1>2. q \in Request
  BY <1>1 DEF Request, Causes
<1>3. q.kind = "api" /\ q.cause = cause /\ q.error = err /\ q.cut = req[r].cut
  BY <1>1 DEF Request
<1>4. Ends(r, q, WriteError(err))
  BY DEF Fails
<1> HIDE DEF q
<1>5. WriteError(err) \in Answer /\ WriteError(err).status # "none"
  BY CausesFacts
<1>6. WriteError(err).status = StatusFor(q)
  <2>1. CASE cause = "handler"
    <3>1. WriteError(err).status = Asked(err)
      BY CausesFacts, WriteErrorMeaning
    <3> QED BY <1>3, <2>1, <3>1 DEF StatusFor
  <2>2. CASE cause # "handler"
    BY <1>3, <2>2, CausesFacts DEF StatusFor
  <2> QED BY <2>1, <2>2
<1> QED BY <1>2, <1>3, <1>4, <1>5, <1>6, EndStep

LEMMA OKFacts == OK \in Answer /\ OK.status = "200"
BY DEF OK, Answer

-----------------------------------------------------------------------------
(* The actions of a request *)

LEMMA AcceptStep ==
  ASSUME IInv, NEW r \in Requests,
         AcceptLive(r) \/ AcceptReady(r) \/ \E token \in {"none", "good", "bad"} : AcceptApi(r, token)
  PROVE  IInv'
<1>1. CASE AcceptLive(r)
  <2> DEFINE q == Arrives("live", "idle")
  <2>1. q \in Request /\ q.kind = "live" /\ q.cut = FALSE
    BY ArrivesFields
  <2>2. phase = "serving" /\ Ends(r, q, OK)
    BY <1>1 DEF AcceptLive, Accepting
  <2> HIDE DEF q
  <2> QED BY <2>1, <2>2, OKFacts, EndStep
<1>2. CASE AcceptReady(r)
  <2>1. PICK up \in SUBSET Deps :
          Goes(r, [Arrives("ready", "checks") EXCEPT
                     !.up = up, !.wasUp = up, !.wasDown = up # Deps])
    BY <1>2 DEF AcceptReady
  <2> DEFINE n == Arrives("ready", "checks")
             q == [n EXCEPT !.up = up, !.wasUp = up, !.wasDown = up # Deps]
  <2>2. /\ n \in Request /\ n.kind = "ready" /\ n.pc = "checks"
        /\ n.cut = FALSE /\ n.next = 1 /\ n.healthy = TRUE
    BY ArrivesFields
  <2>3. phase = "serving" /\ Goes(r, q)
    BY <1>2, <2>1 DEF AcceptReady, Accepting
  <2> HIDE DEF n
  <2>4. q \in Request
    BY <2>2 DEF Request
  <2>5. /\ q.kind = "ready" /\ q.pc = "checks" /\ q.cut = FALSE /\ q.next = 1
        /\ q.healthy = TRUE /\ q.up = up /\ q.wasUp = up /\ q.wasDown = (up # Deps)
    BY <2>2 DEF Request
  <2> HIDE DEF q
  <2>7. q.up \subseteq q.wasUp /\ (q.up # Deps => q.wasDown)
        /\ \A i \in 1..(q.next - 1) : Order[i] \in q.wasUp
    <3>1. q.up \subseteq q.wasUp
      BY <2>5
    <3>2. q.up # Deps => q.wasDown
      BY <2>5, Zenon
    <3>3. 1..(q.next - 1) = {}
      BY <2>5
    <3> QED BY <3>1, <3>2, <3>3
  <2>8. ProbeOK(q)
    BY <2>5, <2>7 DEF ProbeOK
  <2>6. RequestOK(q)
    BY <2>4, <2>5, <2>8 DEF RequestOK, ApiOK
  <2> QED BY <2>3, <2>5, <2>6, RequestStep
<1>3. ASSUME NEW token \in {"none", "good", "bad"}, AcceptApi(r, token) PROVE IInv'
  <2>1. phase = "serving"
    BY <1>3 DEF AcceptApi, Accepting
  <2>2. CASE token = "none"
    <3> DEFINE n == Arrives("api", "idle")
               q == [n EXCEPT !.cause = "login", !.error = <<"401">>]
    <3>1. n \in Request /\ n.kind = "api" /\ n.cut = FALSE
      BY ArrivesFields
    <3>2. Ends(r, q, WriteError(<<"401">>))
      BY <1>3, <2>2 DEF AcceptApi
    <3> HIDE DEF n
    <3>3. q \in Request
      BY <3>1 DEF Request
    <3>4. q.kind = "api" /\ q.cut = FALSE /\ q.cause = "login"
      BY <3>1 DEF Request
    <3> HIDE DEF q
    <3>5. /\ WriteError(<<"401">>) \in Answer
          /\ WriteError(<<"401">>).status = "401"
      BY CausesFacts DEF Causes
    <3> QED BY <2>1, <3>2, <3>3, <3>4, <3>5, EndStep DEF StatusFor
  <2>3. CASE token # "none"
    <3> DEFINE n == Arrives("api", "login")
               q == [n EXCEPT !.token = token]
    <3>1. n \in Request /\ n.kind = "api" /\ n.cut = FALSE /\ n.pc = "login" /\ n.cause = "none"
      BY ArrivesFields
    <3>2. Goes(r, q)
      BY <1>3, <2>3 DEF AcceptApi
    <3> HIDE DEF n
    <3>3. q \in Request
      BY <3>1 DEF Request
    <3>4. q.kind = "api" /\ q.cut = FALSE /\ q.pc = "login" /\ q.cause = "none"
      BY <3>1 DEF Request
    <3> HIDE DEF q
    <3>5. RequestOK(q)
      BY <3>3, <3>4 DEF RequestOK, ProbeOK, ApiOK
    <3> QED BY <2>1, <3>2, <3>4, <3>5, RequestStep
  <2> QED BY <2>2, <2>3
<1> QED BY <1>1, <1>2, <1>3

LEMMA ToggleStep ==
  ASSUME IInv, NEW r \in Requests, NEW d \in Deps, Toggle(r, d)
  PROVE  IInv'
<1> DEFINE p == req[r]
           up == IF d \in p.up THEN p.up \ {d} ELSE p.up \cup {d}
           q == [p EXCEPT !.up = up, !.wasUp = @ \cup up, !.wasDown = @ \/ up # Deps]
<1>1. p \in Request /\ RequestOK(p) /\ p.pc = "checks" /\ Goes(r, q)
  BY DEF IInv, RequestsInv, Toggle
<1>2. ProbeOK(p) /\ up \subseteq Deps /\ p.wasUp \subseteq Deps /\ p.wasDown \in BOOLEAN
  BY <1>1 DEF RequestOK, Request
<1>3. Running(r)
  BY <1>1 DEF Running
<1> HIDE DEF p, up
<1>4. q \in Request
  BY <1>1, <1>2 DEF Request
<1>5. /\ q.up = up /\ q.wasUp = p.wasUp \cup up /\ q.wasDown = (p.wasDown \/ up # Deps)
      /\ q.kind = p.kind /\ q.pc = p.pc /\ q.cut = p.cut /\ q.next = p.next
      /\ q.healthy = p.healthy /\ q.late = p.late
  BY <1>1 DEF Request
<1> HIDE DEF q
<1>6. /\ q.up \subseteq q.wasUp /\ (q.up # Deps => q.wasDown)
      /\ p.wasUp \subseteq q.wasUp /\ (p.wasDown => q.wasDown)
  BY <1>2, <1>5
<1>7. ProbeOK(q)
  BY <1>1, <1>2, <1>5, <1>6 DEF ProbeOK
<1>8. RequestOK(q)
  BY <1>1, <1>4, <1>5, <1>7 DEF RequestOK, ApiOK
<1> QED BY <1>1, <1>3, <1>5, <1>8, RequestStep DEF p

LEMMA CheckStep ==
  ASSUME IInv, NEW r \in Requests, Check(r)
  PROVE  IInv'
<1> DEFINE p == req[r]
<1>1. p \in Request /\ RequestOK(p) /\ p.pc = "checks" /\ p.next <= Len(Order)
  BY DEF IInv, RequestsInv, Check
<1>2. PICK late \in {p.late, TRUE}, ok \in BOOLEAN :
        /\ ok => Order[p.next] \in p.up
        /\ ~ok => late \/ Order[p.next] \notin p.up
        /\ Goes(r, [p EXCEPT !.next = @ + 1, !.late = late, !.healthy = @ /\ ok])
  BY DEF Check
<1> DEFINE q == [p EXCEPT !.next = @ + 1, !.late = late, !.healthy = @ /\ ok]
<1>3. ProbeOK(p) /\ p.next \in 1..Len(Order) /\ p.late \in BOOLEAN /\ p.healthy \in BOOLEAN
  BY <1>1, OrderFacts DEF RequestOK, Request
<1>4. Running(r)
  BY <1>1 DEF Running
<1> HIDE DEF p
<1>5. late \in BOOLEAN /\ (p.late => late) /\ p.next + 1 \in 1..Len(Order) + 1
  <2>1. CASE late = p.late
    BY <1>3, <2>1, OrderFacts
  <2>2. CASE late = TRUE
    BY <1>3, <2>2, OrderFacts
  <2> QED BY <1>2, <2>1, <2>2
<1>6. q \in Request
  BY <1>1, <1>3, <1>5 DEF Request
<1>7. /\ q.up = p.up /\ q.wasUp = p.wasUp /\ q.wasDown = p.wasDown
      /\ q.kind = p.kind /\ q.pc = p.pc /\ q.cut = p.cut /\ q.next = p.next + 1
      /\ q.healthy = (p.healthy /\ ok) /\ q.late = late
  BY <1>1 DEF Request
<1>8. Goes(r, q)
  BY <1>2
<1> HIDE DEF q
<1>9. Order[p.next] \in Deps
  BY <1>3, OrderFacts
<1>10. q.healthy => \A i \in 1..(q.next - 1) : Order[i] \in q.wasUp
  <2> SUFFICES ASSUME q.healthy, NEW i \in 1..(q.next - 1) PROVE Order[i] \in q.wasUp
    OBVIOUS
  <2>1. p.healthy /\ ok
    BY <1>7
  <2>2. \A j \in 1..(p.next - 1) : Order[j] \in p.wasUp
    BY <1>1, <1>3, <2>1 DEF ProbeOK
  <2>3. Order[p.next] \in p.wasUp
    BY <1>1, <1>2, <1>3, <2>1 DEF ProbeOK
  <2>4. i \in 1..(p.next - 1) \/ i = p.next
    BY <1>3, <1>7, OrderFacts
  <2> QED BY <1>7, <2>2, <2>3, <2>4
<1>11. ~q.healthy => q.wasDown \/ q.late
  <2>1. CASE ~p.healthy
    BY <1>1, <1>3, <1>5, <1>7, <2>1 DEF ProbeOK
  <2>2. CASE p.healthy /\ ~ok
    BY <1>1, <1>2, <1>3, <1>7, <1>9, <2>2 DEF ProbeOK
  <2> QED BY <1>3, <1>7, <2>1, <2>2
<1>12. ProbeOK(q)
  BY <1>1, <1>3, <1>7, <1>10, <1>11 DEF ProbeOK
<1>13. RequestOK(q)
  BY <1>1, <1>6, <1>7, <1>12 DEF RequestOK, ApiOK
<1> QED BY <1>4, <1>7, <1>8, <1>13, RequestStep DEF p

LEMMA ReadyStep ==
  ASSUME IInv, NEW r \in Requests, Ready(r)
  PROVE  IInv'
<1> DEFINE q == req[r]
           answer == IF q.healthy THEN OK ELSE [status |-> "503", code |-> "none"]
<1>1. q \in Request /\ RequestOK(q) /\ q.pc = "checks" /\ q.next > Len(Order)
  BY DEF IInv, RequestsInv, Ready
<1>2. ProbeOK(q) /\ q.kind = "ready" /\ q.next = Len(Order) + 1 /\ q.wasUp \subseteq Deps
  BY <1>1, OrderFacts DEF RequestOK, Request, ProbeOK
<1>3. Ends(r, q, answer) /\ Running(r)
  BY <1>1 DEF Ready, Running
<1>4. answer \in Answer /\ answer.status # "none"
  BY OKFacts DEF Answer, Semantic
<1>5. CASE q.healthy
  <2>1. q.wasUp = Deps
    <3>1. \A i \in 1..Len(Order) : Order[i] \in q.wasUp
      <4>1. q.next - 1 = Len(Order)
        BY <1>2, OrderFacts
      <4>2. \A i \in 1..(q.next - 1) : Order[i] \in q.wasUp
        BY <1>1, <1>2, <1>5 DEF ProbeOK
      <4> QED BY <4>1, <4>2
    <3> QED BY <1>2, <3>1, OrderFacts
  <2>2. answer.status = "200"
    BY <1>5, OKFacts
  <2> HIDE DEF answer
  <2> QED BY <1>1, <1>2, <1>3, <1>4, <2>1, <2>2, EndStep
<1>6. CASE ~q.healthy
  <2>1. q.wasDown \/ q.late
    BY <1>1, <1>2, <1>6 DEF ProbeOK
  <2>2. answer.status = "503"
    BY <1>6
  <2> HIDE DEF answer
  <2> QED BY <1>1, <1>2, <1>3, <1>4, <2>1, <2>2, EndStep
<1> QED BY <1>5, <1>6

LEMMA LoginStep ==
  ASSUME IInv, NEW r \in Requests, Login(r) \/ LoadSession(r) \/ Handle(r)
  PROVE  IInv'
<1> DEFINE p == req[r]
<1>1. /\ p \in Request /\ RequestOK(p) /\ p.pc \in {"login", "session", "handler"}
  BY DEF IInv, RequestsInv, Login, LoadSession, Handle
<1>2. p.kind = "api" /\ p.cause = "none" /\ Running(r)
  BY <1>1 DEF RequestOK, ApiOK, Running
<1>3. ASSUME NEW pc \in {"session", "handler"}, Goes(r, [p EXCEPT !.pc = pc]) PROVE IInv'
  <2> DEFINE q == [p EXCEPT !.pc = pc]
  <2>1. q \in Request
    BY <1>1 DEF Request
  <2>2. q.pc = pc /\ q.kind = "api" /\ q.cause = "none" /\ q.cut = p.cut
    BY <1>1, <1>2 DEF Request
  <2>3. Goes(r, q)
    BY <1>3
  <2> HIDE DEF q
  <2>4. RequestOK(q)
    BY <2>1, <2>2 DEF RequestOK, ProbeOK, ApiOK
  <2> QED BY <1>2, <2>2, <2>3, <2>4, RequestStep
<1>4. /\ <<"401">> \in Causes /\ <<"503">> \in Causes /\ <<"500">> \in Causes
      /\ Errors \subseteq Causes
  BY DEF Causes
<1>5. Fails(r, "login", <<"401">>) => IInv'
  BY <1>2, <1>4, FailStep
<1>6. Fails(r, "store", <<"503">>) => IInv'
  BY <1>2, <1>4, FailStep
<1>7. Fails(r, "panic", <<"500">>) => IInv'
  BY <1>2, <1>4, FailStep
<1>8. ASSUME NEW err \in Errors, Fails(r, "handler", err) PROVE IInv'
  BY <1>2, <1>4, <1>8, FailStep
<1>9. CASE Login(r)
  BY <1>3, <1>5, <1>6, <1>9 DEF Login
<1>10. CASE LoadSession(r)
  BY <1>3, <1>5, <1>6, <1>8, <1>10 DEF LoadSession
<1>11. CASE Handle(r)
  <2>1. ASSUME Ends(r, p, OK) PROVE IInv'
    BY <1>1, <1>2, <2>1, OKFacts, EndStep DEF StatusFor
  <2>2. ASSUME Ends(r, [p EXCEPT !.cause = "late"], OK) PROVE IInv'
    <3> DEFINE q == [p EXCEPT !.cause = "late"]
    <3>1. q \in Request
      BY <1>1 DEF Request
    <3>2. q.kind = "api" /\ q.cause = "late" /\ q.cut = p.cut
      BY <1>1, <1>2 DEF Request
    <3>3. Ends(r, q, OK)
      BY <2>2
    <3> HIDE DEF q
    <3> QED BY <1>2, <3>1, <3>2, <3>3, OKFacts, EndStep DEF StatusFor
  <2> QED BY <1>7, <1>8, <1>11, <2>1, <2>2 DEF Handle
<1> QED BY <1>9, <1>10, <1>11

LEMMA RequestActionStep ==
  ASSUME IInv, NEW r \in Requests, Request_(r)
  PROVE  IInv'
<1>1. ASSUME NEW cookie \in {"none", "good", "bad"}, NEW header \in {"none", "good", "bad"},
             NEW authorization \in {"none", "good", "bad"}, NEW only \in BOOLEAN
      PROVE  ExtractToken(cookie, header, authorization, only) \in {"none", "good", "bad"}
  BY DEF ExtractToken
<1>2. CASE \E cookie, header, authorization \in {"none", "good", "bad"}, only \in BOOLEAN :
             AcceptApi(r, ExtractToken(cookie, header, authorization, only))
  BY <1>1, <1>2, AcceptStep
<1> QED BY <1>2, AcceptStep, CheckStep, ReadyStep, ToggleStep, LoginStep DEF Request_

-----------------------------------------------------------------------------
(* Run and what happens to it *)

\* The requests are as they were.
LEMMA SameRequests ==
  ASSUME IInv, req' = req
  PROVE  RequestsInv'
BY DEF IInv, RequestsInv

LEMMA StartStep == ASSUME IInv, Start PROVE IInv'
<1>1. RequestsInv'
  BY SameRequests DEF Start
<1>2. MainInv' /\ QuietInv' /\ ModeInv'
  BY DEF IInv, MainInv, QuietInv, ModeInv, Start, Running
<1> QED BY <1>1, <1>2 DEF IInv

LEMMA ErrorStep == ASSUME IInv, SeesError PROVE IInv'
<1>1. RequestsInv'
  BY SameRequests DEF SeesError
<1>2. MainInv' /\ QuietInv' /\ ModeInv'
  BY DEF IInv, MainInv, QuietInv, ModeInv, SeesError, setup, Running
<1> QED BY <1>1, <1>2 DEF IInv

LEMMA SignalStep == ASSUME IInv, SeesSignal \/ Signal \/ ListenFails PROVE IInv'
<1>1. RequestsInv'
  BY SameRequests DEF SeesSignal, Signal, ListenFails
<1>2. CASE SeesSignal
  BY <1>1, <1>2 DEF IInv, MainInv, QuietInv, ModeInv, SeesSignal, setup, Running
<1>3. CASE Signal
  BY <1>1, <1>3 DEF IInv, MainInv, QuietInv, ModeInv, Signal, main, setup, Running
<1>4. CASE ListenFails
  BY <1>1, <1>4 DEF IInv, MainInv, QuietInv, ModeInv, ListenFails, setup, Running
<1> QED BY <1>2, <1>3, <1>4

LEMMA DrainedStep == ASSUME IInv, Drained PROVE IInv'
<1>1. RequestsInv'
  BY SameRequests DEF Drained
<1>2. MainInv' /\ QuietInv' /\ ModeInv'
  BY DEF IInv, MainInv, QuietInv, ModeInv, Drained, setup, Running
<1> QED BY <1>1, <1>2 DEF IInv

LEMMA TimesOutStep == ASSUME IInv, TimesOut PROVE IInv'
<1>1. /\ phase = "shutdown" /\ phase' = "closing" /\ ret' = "shutdown" /\ timedOut' = TRUE
      /\ UNCHANGED <<listening, closes, signalled, cfg, file, env>>
  BY DEF TimesOut, setup
<1>2. MainInv' /\ QuietInv' /\ ModeInv'
  BY <1>1 DEF IInv, MainInv, QuietInv, ModeInv
<1>3. ASSUME NEW r \in Requests
      PROVE  req'[r] \in Request /\ RequestOK(req'[r])
  <2> DEFINE p == req[r]
             q == [p EXCEPT !.cut = Running(r)]
  <2>1. p \in Request /\ RequestOK(p) /\ req'[r] = q
    BY DEF IInv, RequestsInv, TimesOut
  <2>2. Running(r) \in BOOLEAN
    BY DEF Running
  <2> HIDE DEF p
  <2>3. q \in Request
    BY <2>1, <2>2 DEF Request
  <2>4. /\ q.pc = p.pc /\ q.kind = p.kind /\ q.answer = p.answer /\ q.up = p.up
        /\ q.wasUp = p.wasUp /\ q.wasDown = p.wasDown /\ q.healthy = p.healthy
        /\ q.next = p.next /\ q.late = p.late /\ q.cause = p.cause /\ q.error = p.error
    BY <2>1 DEF Request
  <2> HIDE DEF q
  <2>5. StatusFor(q) = StatusFor(p)
    BY <2>4 DEF StatusFor
  <2>6. RequestOK(q)
    BY <2>1, <2>3, <2>4, <2>5 DEF RequestOK, ProbeOK, ApiOK
  <2> QED BY <2>1, <2>3, <2>6
<1>4. RequestsInv'
  BY <1>3 DEF RequestsInv, TimesOut
<1> QED BY <1>2, <1>4 DEF IInv

LEMMA CloseStep == ASSUME IInv, Close PROVE IInv'
<1>1. RequestsInv'
  BY SameRequests DEF Close
<1>2. PICK failed \in BOOLEAN : ret' = IF failed /\ ret # "listen" THEN "close" ELSE ret
  BY DEF Close
<1>3. MainInv' /\ QuietInv' /\ ModeInv'
  BY <1>2 DEF IInv, MainInv, QuietInv, ModeInv, Close, setup, Running
<1> QED BY <1>1, <1>3 DEF IInv

-----------------------------------------------------------------------------
(* The invariant holds *)

\* Whatever the file and the environment say, a configuration that is loaded
\* names one of the two providers (config.go:327-333).
LEMMA LoadMode ==
  ASSUME NEW f, NEW e
  PROVE  "err" \in DOMAIN Load(f, e) \/ Load(f, e)["mode"] \in {"satoken", "jwt"}
<1>1. ASSUME NEW c PROVE Normalize(c)["mode"] \in {"satoken", "jwt"}
  <2>1. /\ "mode" \in Fields /\ "mode" \notin Positive
        /\ "mode" # "tokenName" /\ "mode" # "cookieName"
    BY DEF Fields, Texts, Positive, AsGiven, Numbers
  <2>2. Normalize(c)["mode"] = AuthMode(c["mode"])
    BY <2>1 DEF Normalize
  <2> QED BY <2>2 DEF AuthMode
<1>2. "err" \in DOMAIN [err |-> TRUE]
  OBVIOUS
<1> QED BY <1>1, <1>2 DEF Load

LEMMA IInvInit == Init => IInv
<1> SUFFICES ASSUME Init PROVE IInv
  OBVIOUS
<1>1. ModeInv
  BY LoadMode DEF Init, ModeInv
<1>2. NoRequest \in Request
  <2>1. 1 \in 1..Len(Order) + 1
    BY OrderFacts
  <2> QED BY <2>1 DEF NoRequest, NoAnswer, Request
<1>3. RequestOK(NoRequest)
  BY <1>2 DEF RequestOK, ProbeOK, ApiOK, NoRequest
<1>4. RequestsInv
  BY <1>2, <1>3 DEF Init, RequestsInv
<1>5. MainInv
  BY DEF Init, MainInv
<1>6. QuietInv
  BY DEF Init, QuietInv, NoRequest
<1> QED BY <1>1, <1>4, <1>5, <1>6 DEF IInv

LEMMA IInvNext == IInv /\ [Next]_vars => IInv'
<1> SUFFICES ASSUME IInv, [Next]_vars PROVE IInv'
  OBVIOUS
<1>1. CASE Main
  BY <1>1, StartStep, ErrorStep, SignalStep, DrainedStep, TimesOutStep, CloseStep DEF Main
<1>2. CASE Signal \/ ListenFails
  BY <1>2, SignalStep
<1>3. CASE \E r \in Requests : Request_(r)
  BY <1>3, RequestActionStep
<1>4. CASE UNCHANGED vars
  BY <1>4 DEF vars, IInv, RequestsInv, MainInv, QuietInv, ModeInv, Running
<1> QED BY <1>1, <1>2, <1>3, <1>4 DEF Next

\* The inductive invariant holds in every state.
THEOREM ServiceInvariant == Spec => []IInv
BY IInvInit, IInvNext, PTL DEF Spec

-----------------------------------------------------------------------------
(* What the service promises *)

\* Every variable keeps its type, and the service is closed at most once.
THEOREM ServiceTypes == Spec => []TypeOK
<1>1. IInv => TypeOK
  BY DEF IInv, RequestsInv, MainInv, ModeInv, TypeOK
<1> QED BY <1>1, ServiceInvariant, PTL

\* Resources are closed under a running handler only after a shutdown that
\* timed out or a listener that failed.
THEOREM ServiceOpen == Spec => []OpenWhileHandling
<1>1. IInv => OpenWhileHandling
  BY DEF IInv, MainInv, QuietInv, OpenWhileHandling
<1> QED BY <1>1, ServiceInvariant, PTL

\* When Run returns nil nothing was cut off and nobody is left unanswered.
THEOREM ServiceCleanExit == Spec => []CleanExit
<1>1. ASSUME IInv PROVE CleanExit
  <2> SUFFICES ASSUME phase = "returned", ret = "nil" PROVE CleanExit
    BY DEF CleanExit
  <2>1. signalled /\ closes = 1 /\ ~timedOut
    BY <1>1 DEF IInv, MainInv
  <2>2. \A r \in Requests : ~Running(r) /\ ~req[r].cut
    BY <1>1, <2>1 DEF IInv, QuietInv
  <2>3. \A r \in Requests : req[r].kind # "none" => req[r].answer.status # "none"
    BY <1>1, <2>2 DEF IInv, RequestsInv, RequestOK, Running
  <2> QED BY <2>1, <2>2, <2>3 DEF CleanExit, NoAnswer
<1> QED BY <1>1, ServiceInvariant, PTL

\* Every answer of a service's handler behind Auth and Recover has the status
\* that its cause asks for.
THEOREM ServiceAnswers == Spec => []AnswersMatchCause
<1>1. ASSUME IInv PROVE AnswersMatchCause
  <2> SUFFICES ASSUME NEW r \in Requests, ~Running(r), req[r].kind = "api"
               PROVE  LET q == req[r] IN q.answer.status =
                 CASE q.cause \in {"none", "late"} -> "200" [] q.cause = "login" -> "401"
                   [] q.cause = "store" -> "503" [] q.cause = "panic" -> "500"
                   [] q.cause = "handler" ->
                        IF IsBusiness(q.error) /\ IsHTTPSemantic(q.error) THEN "200"
                        ELSE Meaning(q.error)
    BY DEF AnswersMatchCause
  <2>1. req[r].answer.status = StatusFor(req[r])
    BY <1>1 DEF IInv, RequestsInv, RequestOK, ApiOK, Running
  <2> QED BY <2>1 DEF StatusFor, Asked
<1> QED BY <1>1, ServiceInvariant, PTL

\* The verdict of a probe is about instants of the probe.
THEOREM ServiceProbes == Spec => []ReadyHonest
<1>1. ASSUME IInv PROVE ReadyHonest
  BY <1>1 DEF IInv, RequestsInv, RequestOK, ProbeOK, Running, ReadyHonest
<1> QED BY <1>1, ServiceInvariant, PTL

-----------------------------------------------------------------------------
(* Configuration *)

\* What a service starts from, judged against its file and environment.
Usable(c, F, e) ==
  /\ \A f \in Numbers : LET v == Given(f, F, e) IN
       /\ c[f] \notin {Junk, Empty}
       /\ c[f] = IF f \in Positive /\ v \in {"zero", "negative"} THEN "default" ELSE v
  /\ \A f \in Texts \ {"mode"} : LET v == Given(f, F, e) IN
       c[f] # Empty /\ (v # Empty => c[f] = v)
  /\ c["mode"] \in {"satoken", "jwt"}

LEMMA FieldFacts ==
  /\ Positive \subseteq Numbers /\ Numbers \subseteq Fields /\ InEnv \subseteq Fields
  /\ Texts \subseteq Fields /\ Texts = {"tokenName", "cookieName", "mode"}
  /\ {"tokenName", "cookieName", "mode"} \cap Numbers = {}
  /\ "missing" \notin Fields
  /\ \A f \in Numbers : Default[f] = "default"
BY DEF Positive, AsGiven, Numbers, Fields, Texts, InEnv, Default

\* The configuration before Normalize is what is given, and its numbers are.
LEMMA GivenOf ==
  ASSUME NEW F \in Files, NEW e, NEW c,
         c = IF "missing" \in DOMAIN F THEN Default ELSE FromFile(F, e),
         "err" \notin DOMAIN c, NEW f \in Fields
  PROVE  /\ ApplyEnv(c, e)[f] = Given(f, F, e)
         /\ f \in Numbers => Given(f, F, e) \notin {Junk, Empty}
<1> DEFINE text(g) == ExpandEnv(F[g], e)
           null == text(f) = Empty /\ F[f] # Empty
           bad(g) == \/ text(g) = Err
                     \/ g \in Numbers /\ (text(g) = Junk \/ F[g] = Empty)
           says(v) == v \notin {Unset, Empty} /\ ~(f \in Numbers /\ v = Junk)
<1>1. /\ c[f] = IF f \in DOMAIN F /\ ~null THEN text(f) ELSE Default[f]
      /\ f \in DOMAIN F => ~bad(f)
  <2>1. CASE "missing" \in DOMAIN F
    <3>1. f \notin DOMAIN F
      BY <2>1, FileAssumption, FieldFacts
    <3> QED
      BY <2>1, <3>1
  <2>2. CASE "missing" \notin DOMAIN F
    <3>1. CASE \E g \in DOMAIN F : bad(g)
      <4>1. c = [err |-> TRUE]
        BY <2>2, <3>1 DEF FromFile
      <4> QED
        BY <4>1
    <3>2. CASE ~\E g \in DOMAIN F : bad(g)
      <4>1. c[f] = IF f \notin DOMAIN F THEN Default[f]
                   ELSE IF text(f) = Empty /\ F[f] # Empty THEN Default[f] ELSE text(f)
        BY <2>2, <3>2 DEF FromFile
      <4> HIDE DEF text
      <4> QED
        BY <3>2, <4>1
    <3> QED
      BY <3>1, <3>2
  <2> QED
    BY <2>1, <2>2
<1>2. Given(f, F, e) = IF f \in InEnv /\ says(e[f]) THEN e[f] ELSE c[f]
  BY <1>1 DEF Given
<1>3. ApplyEnv(c, e)[f] = IF f \in InEnv THEN Set(f, c[f], e[f]) ELSE c[f]
  BY DEF ApplyEnv
<1>4. ApplyEnv(c, e)[f] = Given(f, F, e)
  BY <1>2, <1>3 DEF Set
<1>5. f \in Numbers => c[f] \notin {Junk, Empty}
  <2>1. "default" \notin {Junk, Empty}
    BY DEF Junk, Empty
  <2> HIDE DEF text
  <2> QED
    BY <1>1, <2>1, FieldFacts
<1>6. f \in Numbers => Given(f, F, e) \notin {Junk, Empty}
  BY <1>2, <1>5
<1> QED
  BY <1>4, <1>6

LEMMA LoadUsable ==
  ASSUME NEW F \in Files, NEW e
  PROVE  "err" \in DOMAIN Load(F, e) \/ Usable(Load(F, e), F, e)
<1> DEFINE c == IF "missing" \in DOMAIN F THEN Default ELSE FromFile(F, e)
           a == ApplyEnv(c, e)
           n == Normalize(a)
<1>1. CASE "unreadable" \in DOMAIN F \/ "err" \in DOMAIN c
  <2>1. Load(F, e) = [err |-> TRUE]
    BY <1>1 DEF Load
  <2> QED
    BY <2>1
<1>2. CASE ~("unreadable" \in DOMAIN F \/ "err" \in DOMAIN c)
  <2>1. Load(F, e) = n
    BY <1>2 DEF Load
  <2>2. \A f \in Fields : /\ a[f] = Given(f, F, e)
                          /\ f \in Numbers => Given(f, F, e) \notin {Junk, Empty}
    BY <1>2, GivenOf
  <2> HIDE DEF c, a
  <2>3. ASSUME NEW f \in Numbers
        PROVE  LET v == Given(f, F, e) IN
               /\ n[f] \notin {Junk, Empty}
               /\ n[f] = IF f \in Positive /\ v \in {"zero", "negative"}
                           THEN "default" ELSE v
    <3>1. n[f] = IF f \in Positive /\ a[f] \in {"zero", "negative"} THEN "default" ELSE a[f]
      BY FieldFacts DEF Normalize
    <3> QED
      BY <2>2, <3>1, FieldFacts DEF Junk, Empty
  <2>4. ASSUME NEW f \in Texts \ {"mode"}
        PROVE  LET v == Given(f, F, e) IN n[f] # Empty /\ (v # Empty => n[f] = v)
    <3>1. f \in Fields /\ f \notin Positive
      BY FieldFacts
    <3>2. CASE f = "tokenName"
      BY <2>2, <3>1, <3>2 DEF Normalize, Empty
    <3>3. CASE f = "cookieName"
      BY <2>2, <3>1, <3>3 DEF Normalize, Empty
    <3> QED
      BY <3>2, <3>3, FieldFacts
  <2>5. n["mode"] \in {"satoken", "jwt"}
    BY FieldFacts DEF Normalize, AuthMode
  <2> HIDE DEF n
  <2> QED
    BY <2>1, <2>3, <2>4, <2>5 DEF Usable
<1> QED
  BY <1>1, <1>2

\* For every file and every environment a service starts on what the strongest
\* source says of each field, except that the numbers Normalize handles are made
\* positive, names are filled in and the mode is one of two (config.go:203-333).
THEOREM ServiceConfig == Spec => []ConfigUsable
<1> DEFINE Loaded == phase = "load" => file \in Files /\ cfg = Load(file, env)
<1>1. Init => Loaded
  BY DEF Init
<1>2. Loaded /\ [Next]_vars => Loaded'
  <2> SUFFICES ASSUME Loaded, [Next]_vars, phase' = "load"
               PROVE  file' \in Files /\ cfg' = Load(file', env')
    OBVIOUS
  <2>1. phase = "load" /\ UNCHANGED setup
    <3>1. CASE Main
      BY <3>1 DEF Main, Start, SeesError, SeesSignal, Drained, TimesOut, Close
    <3>2. CASE Signal \/ ListenFails
      BY <3>2 DEF Signal, ListenFails, main
    <3>3. CASE \E r \in Requests : Request_(r)
      <4> DEFINE Kept == UNCHANGED <<main, setup>>
      <4>1. \A r, q : Goes(r, q) => Kept
        BY DEF Goes
      <4>2. \A r, q, answer : Ends(r, q, answer) => Kept
        BY <4>1 DEF Ends
      <4>3. \A r, cause, err : Fails(r, cause, err) => Kept
        BY <4>2 DEF Fails
      <4>4. PICK r \in Requests : Request_(r)
        BY <3>3
      <4> HIDE DEF Kept
      <4>5. AcceptLive(r) \/ AcceptReady(r) => Kept
        BY <4>1, <4>2 DEF AcceptLive, AcceptReady
      <4>6. \A token : AcceptApi(r, token) => Kept
        BY <4>1, <4>2 DEF AcceptApi
      <4>7. Check(r) \/ Ready(r) \/ (\E d \in Deps : Toggle(r, d)) => Kept
        BY <4>1, <4>2 DEF Check, Ready, Toggle
      <4>8. Login(r) \/ LoadSession(r) \/ Handle(r) => Kept
        BY <4>1, <4>2, <4>3 DEF Login, LoadSession, Handle
      <4>9. Kept
        BY <4>4, <4>5, <4>6, <4>7, <4>8 DEF Request_
      <4> QED
        BY <4>9 DEF Kept, main
    <3>4. CASE UNCHANGED vars
      BY <3>4 DEF vars, setup
    <3> QED
      BY <3>1, <3>2, <3>3, <3>4 DEF Next
  <2> QED
    BY <2>1 DEF setup
<1>3. Loaded => ConfigUsable
  BY LoadUsable DEF ConfigUsable, Usable
<1> QED
  BY <1>1, <1>2, <1>3, PTL DEF Spec

-----------------------------------------------------------------------------
(* Paging *)

\* A number that an int can hold is itself.
LEMMA WrapExact ==
  ASSUME NEW half \in Nat, NEW n \in 0..(half - 1)
  PROVE  Wrap(n, half) = n
<1>1. n + half \in Nat /\ n + half < 2 * half /\ 2 * half > 0
  OBVIOUS
<1>2. (n + half) % (2 * half) = n + half
  BY <1>1
<1> QED BY <1>2 DEF Wrap

\* The normalised page is a page.
THEOREM PageNormalized ==
  ASSUME NEW i \in Int, NEW s \in Int
  PROVE  /\ NormalizePage(i, s)[1] >= 1
         /\ NormalizePage(i, s)[2] \in 1..MaxPageSize
BY DEF NormalizePage, Index, Size, DefaultPageIndex, DefaultPageSize, MaxPageSize

\* Up to the width of int the pages tile the list: the first begins at 0, and
\* each begins where the one before it ends.
THEOREM PagesTile ==
  ASSUME NEW half \in Nat, NEW i \in Nat \ {0}, NEW s \in Nat \ {0}, i * s < half
  PROVE  /\ Offset(1, s, half) = 0
         /\ Offset(i, s, half) \in 0..(half - 1)
         /\ Offset(i + 1, s, half) = Offset(i, s, half) + s
<1>1. Index(i) = i /\ Index(i + 1) = i + 1 /\ Index(1) = 1 /\ Size(s) = s
  BY DEF Index, Size
<1>2. /\ i * s \in Nat /\ (i - 1) * s \in Nat /\ (i - 1) * s + s = i * s
      /\ 0 * s = 0 /\ s > 0
  OBVIOUS
<1>3. (i - 1) * s \in 0..(half - 1) /\ i * s \in 0..(half - 1) /\ 0 \in 0..(half - 1)
  BY <1>2
<1>4. Offset(1, s, half) = 0
  BY <1>1, <1>2, <1>3, WrapExact DEF Offset
<1>5. Offset(i, s, half) = (i - 1) * s
  BY <1>1, <1>3, WrapExact DEF Offset
<1>6. Offset(i + 1, s, half) = i * s
  BY <1>1, <1>3, WrapExact DEF Offset
<1> QED BY <1>2, <1>3, <1>4, <1>5, <1>6

\* Beyond it they do not: some page that an int can name, of two rows, has a
\* negative offset, normalised or not (result.go:120).
THEOREM OffsetOverflows ==
  ASSUME NEW h \in Nat, h > 1
  PROVE  \E i \in 1..(2 * h - 1) : Offset(i, 2, 2 * h) < 0
<1>1. h + 1 \in 1..(2 * h - 1)
  OBVIOUS
<1>2. Index(h + 1) = h + 1 /\ Size(2) = 2
  BY DEF Index, Size
<1>3. (h + 1 - 1) * 2 = 2 * h
  OBVIOUS
<1>4. (2 * h + 2 * h) % (2 * (2 * h)) = 0
  <2> DEFINE m == 2 * (2 * h)
  <2>1. 2 * h + 2 * h = m /\ m \in Nat /\ m > 0
    OBVIOUS
  <2> HIDE DEF m
  <2>2. m % m = 0
    BY <2>1
  <2> QED BY <2>1, <2>2 DEF m
<1>5. Offset(h + 1, 2, 2 * h) = -(2 * h)
  BY <1>2, <1>3, <1>4 DEF Offset, Wrap
<1> QED BY <1>1, <1>5
=============================================================================
