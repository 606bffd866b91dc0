------------------------------- MODULE Service -------------------------------
(***************************************************************************)
(* The life of a service: configuration (Config.tla), Run of package       *)
(* server, its handlers behind Trace, Recover and Auth of package          *)
(* middleware, the probes of package health, the providers of a login      *)
(* (satoken.Logic as a store that may fail, jwtauth.Logic).                *)
(*                                                                         *)
(* The main goroutine of Run, the listener, and one goroutine per request  *)
(* (a member of Requests) run interleaved.  How long anything takes is     *)
(* open: a timeout may pass whenever it is running.                        *)
(***************************************************************************)
EXTENDS Config, Answers

CONSTANTS
  Requests,    \* requests under way at one time
  Deps,        \* the checks the service registers for readiness
  Order,       \* their order by name: a sequence of all Deps
  Files, Envs, \* configuration files and environments
  Errors       \* the chains of errors that handlers and hooks return

ASSUME OrderAssumption ==
  Order \in Seq(Deps) /\ {Order[i] : i \in DOMAIN Order} = Deps
ASSUME ErrorAssumption == Errors \subseteq Seq(Layers)
\* A file gives fields, or is missing or unreadable.
ASSUME FileAssumption ==
  \A f \in Files : DOMAIN f \subseteq Fields \/ DOMAIN f \cap Fields = {}

VARIABLES
  cfg,         \* what Load returned; [mode |-> m] once Run uses it
  file, env,   \* the file and the environment it was loaded from
  phase,       \* where Run is
  signalled,   \* SIGTERM, SIGINT or the end of the caller's context
  listening,   \* "up", "down" (closed by Shutdown), "failed"
  timedOut,    \* Shutdown ended with its timeout: shutdownErr # nil
  closes,      \* calls of svc.Close
  ret,         \* what Run returned
  req          \* the requests

vars == <<cfg, file, env, phase, signalled, listening, timedOut, closes, ret, req>>

Request ==
  [kind    : {"none", "live", "ready", "api"},
   pc      : {"idle", "login", "session", "handler", "checks"},
   token   : {"none", "good", "bad"},   \* what extractToken finds
   next    : 1..Len(Order) + 1,         \* ready: the check to run
   healthy : BOOLEAN,                   \* ready: no check has failed
   late    : BOOLEAN,                   \* ready: its context has ended
   up      : SUBSET Deps,               \* ready: the dependencies that answer
   cut     : BOOLEAN,                   \* the connection was closed under it
   cause   : {"none", "store", "login", "panic", "late", "handler"},
   error   : Errors \cup {<<"401">>, <<"500">>, <<"503">>, <<>>},
   answer  : [status : {"none", "200"} \cup Semantic,
              code : {"none", "0", "business"} \cup Semantic],
   \* history: dependencies that were up, and whether one was down, meanwhile
   wasUp   : SUBSET Deps,
   wasDown : BOOLEAN]

NoAnswer == [status |-> "none", code |-> "none"]
NoRequest ==
  [kind |-> "none", pc |-> "idle", token |-> "none", next |-> 1, healthy |-> TRUE,
   late |-> FALSE, up |-> {}, cut |-> FALSE, cause |-> "none", error |-> <<>>,
   answer |-> NoAnswer, wasUp |-> {}, wasDown |-> FALSE]

Running(r) == req[r].pc # "idle"

TypeOK ==
  /\ phase \in {"load", "refused", "serving", "shutdown", "closing", "returned"}
  /\ phase = "serving" => cfg.mode \in {"satoken", "jwt"}
  /\ signalled \in BOOLEAN /\ timedOut \in BOOLEAN
  /\ listening \in {"up", "down", "failed"}
  /\ closes \in 0..1
  /\ ret \in {"none", "nil", "listen", "close", "shutdown"}
  /\ req \in [Requests -> Request]

Init ==
  /\ \E f \in Files, e \in Envs : cfg = Load(f, e) /\ file = f /\ env = e
  /\ phase = "load"
  /\ signalled = FALSE /\ listening = "up" /\ timedOut = FALSE
  /\ closes = 0 /\ ret = "none"
  /\ req = [r \in Requests |-> NoRequest]

main  == <<phase, listening, timedOut, closes, ret>>
setup == <<cfg, file, env>>

-----------------------------------------------------------------------------
(* Run: the main goroutine *)

\* The service chooses its provider by auth.mode and calls Run; nothing else
\* of the configuration changes what this module describes.
Start ==
  /\ phase = "load"
  /\ IF "err" \in DOMAIN cfg
       THEN phase' = "refused" /\ UNCHANGED setup
       ELSE /\ phase' = "serving" /\ cfg' = [mode |-> cfg["mode"]]
            /\ file' = [x \in {} |-> Unset] /\ env' = file'
  /\ UNCHANGED <<listening, timedOut, closes, ret, signalled, req>>

\* MUTANT: no return after the listener failed: the shutdown follows
ErrorFallsThrough ==
  /\ phase = "serving" /\ listening = "failed"
  /\ phase' = "shutdown" /\ closes' = closes + 1
  /\ UNCHANGED <<listening, timedOut, ret, signalled, setup, req>>

\* select: both cases may be ready, either is taken.
SeesError ==
  /\ phase = "serving" /\ listening = "failed"
  /\ phase' = "closing" /\ ret' = "listen"
  /\ UNCHANGED <<listening, timedOut, closes, signalled, setup, req>>

\* Shutdown closes the listener first.
SeesSignal ==
  /\ phase = "serving" /\ signalled
  /\ phase' = "shutdown"
  /\ listening' = IF listening = "up" THEN "down" ELSE listening
  /\ UNCHANGED <<timedOut, closes, ret, signalled, setup, req>>

\* MUTANT: Shutdown closes the listener and does not wait
DrainedAtOnce ==
  /\ phase = "shutdown"
  /\ phase' = "closing" /\ ret' = "nil"
  /\ UNCHANGED <<listening, timedOut, closes, signalled, setup, req>>

\* Shutdown returns nil once no connection is active; Run has not returned,
\* ret is what it will return if nothing else goes wrong.
Drained ==
  /\ phase = "shutdown"
  /\ \A r \in Requests : ~Running(r)
  /\ phase' = "closing" /\ ret' = "nil"
  /\ UNCHANGED <<listening, timedOut, closes, signalled, setup, req>>

\* MUTANT: Shutdown waits as long as it takes
NeverTimesOut == FALSE /\ UNCHANGED vars

\* Shutdown returns the error of its context; Close closes the connections
\* and leaves the handlers running.
TimesOut ==
  /\ phase = "shutdown"
  /\ \E r \in Requests : Running(r)
  /\ phase' = "closing" /\ ret' = "shutdown" /\ timedOut' = TRUE
  /\ req' = [r \in Requests |-> [req[r] EXCEPT !.cut = Running(r)]]
  /\ UNCHANGED <<listening, closes, signalled, setup>>

\* MUTANT: what the shutdown returned is forgotten
CloseForgets ==
  /\ phase = "closing"
  /\ closes' = closes + 1 /\ phase' = "returned"
  /\ \E failed \in BOOLEAN : ret' = IF failed THEN "close" ELSE "nil"
  /\ UNCHANGED <<listening, timedOut, signalled, setup, req>>

\* closeService: after a failed listener its error is only logged, after a
\* shutdown it takes the place of the shutdown's.
Close ==
  /\ phase = "closing"
  /\ closes' = closes + 1 /\ phase' = "returned"
  /\ \E failed \in BOOLEAN :
       ret' = IF failed /\ ret # "listen" THEN "close" ELSE ret
  /\ UNCHANGED <<listening, timedOut, signalled, setup, req>>

Main == Start \/ SeesError \/ SeesSignal \/ Drained \/ TimesOut \/ Close

-----------------------------------------------------------------------------
(* What happens to it (external) *)

Signal ==
  /\ phase = "serving" /\ ~signalled /\ signalled' = TRUE
  /\ UNCHANGED <<main, setup, req>>

\* ListenAndServe returns: the port is taken, or accepting fails.
ListenFails ==
  /\ phase = "serving" /\ listening = "up" /\ listening' = "failed"
  /\ UNCHANGED <<phase, timedOut, closes, ret, signalled, setup, req>>

-----------------------------------------------------------------------------
(* Requests *)

Goes(r, q) == req' = [req EXCEPT ![r] = q] /\ UNCHANGED <<main, signalled, setup>>

Ends(r, q, answer) ==
  Goes(r, [q EXCEPT !.pc = "idle", !.answer = answer, !.token = "none", !.up = {},
                    !.next = 1, !.healthy = TRUE])

\* The request fails with the error, for the cause.
Fails(r, cause, err) ==
  Ends(r, [req[r] EXCEPT !.cause = cause, !.error = err], WriteError(err))

\* extractToken: the cookie, unless only cookies count the header "satoken",
\* then the header "Authorization"; each is "none", "good" or "bad".
ExtractToken(cookie, header, authorization, cookieOnly) ==
  IF cookie # "none" THEN cookie
  ELSE IF cookieOnly THEN "none"
  ELSE IF header # "none" THEN header
  ELSE authorization

Arrives(kind, pc) == [NoRequest EXCEPT !.kind = kind, !.pc = pc]

\* The listener accepts until Shutdown closes it.
Accepting(r) == phase = "serving" /\ listening = "up" /\ ~Running(r)

AcceptLive(r) == Accepting(r) /\ Ends(r, Arrives("live", "idle"), OK)

AcceptReady(r) ==
  /\ Accepting(r)
  /\ \E up \in SUBSET Deps :
       Goes(r, [Arrives("ready", "checks") EXCEPT
                  !.up = up, !.wasUp = up, !.wasDown = up # Deps])

\* A dependency fails or recovers during the probe.
Toggle(r, d) ==
  LET q == req[r]
      up == IF d \in q.up THEN q.up \ {d} ELSE q.up \cup {d} IN
  /\ q.pc = "checks"
  /\ Goes(r, [q EXCEPT !.up = up, !.wasUp = @ \cup up, !.wasDown = @ \/ up # Deps])

\* Auth answers 401 when there is no token.
AcceptApi(r, token) ==
  /\ Accepting(r)
  /\ IF token = "none"
       THEN Ends(r, [Arrives("api", "idle") EXCEPT !.cause = "login", !.error = <<"401">>],
                 WriteError(<<"401">>))
       ELSE Goes(r, [Arrives("api", "login") EXCEPT !.token = token])

\* MUTANT: the verdict is the last check's
CheckLastCounts(r) ==
  LET q == req[r] IN
  /\ q.pc = "checks" /\ q.next <= Len(Order)
  /\ \E late \in {q.late, TRUE}, ok \in BOOLEAN :
       /\ ok => Order[q.next] \in q.up
       /\ ~ok => late \/ Order[q.next] \notin q.up
       /\ Goes(r, [q EXCEPT !.next = @ + 1, !.late = late, !.healthy = ok])

\* ReadyHandler, one check: it fails if its dependency does not answer, or
\* because the context that all the checks share has ended: by its deadline, or
\* with the caller's, when the client goes away or the service's own context,
\* which every request has as its base (server.go:69), is cancelled.  After a
\* failure the others run.
Check(r) ==
  LET q == req[r] IN
  /\ q.pc = "checks" /\ q.next <= Len(Order)
  /\ \E late \in {q.late, TRUE}, ok \in BOOLEAN :
       /\ ok => Order[q.next] \in q.up
       /\ ~ok => late \/ Order[q.next] \notin q.up
       /\ Goes(r, [q EXCEPT !.next = @ + 1, !.late = late, !.healthy = @ /\ ok])

Ready(r) ==
  /\ req[r].pc = "checks" /\ req[r].next > Len(Order)
  /\ Ends(r, req[r], IF req[r].healthy THEN OK ELSE [status |-> "503", code |-> "none"])

\* satoken.Logic: the store may fail at any time, and does once it is closed.
\* jwtauth.Logic: a token that is not genuine or has expired is refused; there
\* is no store, a Logout changes nothing, a session is made up for every login.
Outcomes(token) ==
  IF cfg.mode = "jwt"
    THEN {IF token = "good" THEN "ok" ELSE "missing"}
    ELSE {"store"} \cup (IF closes > 0 THEN {} ELSE {"ok", "missing"})

\* Auth: provider.CheckLogin
Login(r) ==
  /\ req[r].pc = "login"
  /\ \E outcome \in Outcomes(req[r].token) :
       \/ outcome = "ok" /\ Goes(r, [req[r] EXCEPT !.pc = "session"])
       \/ outcome = "missing" /\ Fails(r, "login", <<"401">>)
       \/ outcome = "store" /\ Fails(r, "store", <<"503">>)

\* Auth: provider.GetSession, then the hook of the service
LoadSession(r) ==
  /\ req[r].pc = "session"
  /\ \E outcome \in Outcomes("good") :
       \/ outcome = "ok" /\ Goes(r, [req[r] EXCEPT !.pc = "handler"])
       \/ outcome = "missing" /\ Fails(r, "login", <<"401">>)
       \/ outcome = "store" /\ Fails(r, "store", <<"503">>)
       \/ outcome = "ok" /\ \E err \in Errors : Fails(r, "handler", err)

\* The handler of the service: it answers, returns an error to WriteError, or
\* panics.  Recover answers 500; when the handler has begun to answer ("late"),
\* the status that was sent stands and the failure is appended to the body.
Handle(r) ==
  /\ req[r].pc = "handler"
  /\ \/ Ends(r, req[r], OK)
     \/ \E err \in Errors : Fails(r, "handler", err)
     \/ Fails(r, "panic", <<"500">>)
     \/ Ends(r, [req[r] EXCEPT !.cause = "late"], OK)

Request_(r) ==
  \/ AcceptLive(r) \/ AcceptReady(r)
  \/ \E cookie, header, authorization \in {"none", "good", "bad"}, only \in BOOLEAN :
       AcceptApi(r, ExtractToken(cookie, header, authorization, only))
  \/ Check(r) \/ Ready(r) \/ \E d \in Deps : Toggle(r, d)
  \/ Login(r) \/ LoadSession(r) \/ Handle(r)

-----------------------------------------------------------------------------
Next ==
  \/ Main \/ Signal \/ ListenFails
  \/ \E r \in Requests : Request_(r)

\* The main goroutine is scheduled, svc.Close returns, and the timeout of
\* Shutdown passes; no request need ever end.
Spec == Init /\ [][Next]_vars /\ WF_vars(Main)

-----------------------------------------------------------------------------
(* Properties *)

\* The resources of the service are closed under a running handler only when
\* the shutdown timed out or the listener failed (server.go:85-105).
OpenWhileHandling ==
  closes > 0 /\ (\E r \in Requests : Running(r)) => timedOut \/ ret = "listen"

\* Run returns nil only after a signal, with the service closed and every
\* accepted request answered on its own connection (server.go:97-110).
CleanExit ==
  phase = "returned" /\ ret = "nil" =>
    /\ signalled /\ closes = 1 /\ ~timedOut
    /\ \A r \in Requests : ~Running(r) /\ ~req[r].cut /\
         (req[r].kind # "none" => req[r].answer # NoAnswer)

\* What the outermost layer with a meaning asks for.
Meaning(err) ==
  LET kinds == Semantic \cup {"business"} IN
  IF ~Found(kinds, err) THEN "500"
  ELSE IF Outermost(kinds, err) = "business" THEN "200" ELSE Outermost(kinds, err)

\* A failure of the store is 503 and never 401, a panic 500, and the error of a
\* handler what its outermost meaningful layer asks for, unless an apperr.Error
\* wraps a business failure: that is answered 200 (middleware.go:113-131, 176).
AnswersMatchCause ==
  \A r \in Requests : LET q == req[r] IN ~Running(r) /\ q.kind = "api" =>
    q.answer.status =
      CASE q.cause \in {"none", "late"} -> "200" [] q.cause = "login" -> "401"
        [] q.cause = "store" -> "503" [] q.cause = "panic" -> "500"
        [] q.cause = "handler" ->
             IF IsBusiness(q.error) /\ IsHTTPSemantic(q.error) THEN "200" ELSE Meaning(q.error)

\* The probe says ready only if every dependency was up at some instant of the
\* request, and not ready only if one was down or the context all the checks
\* share had ended, by its deadline or with the caller's (health.go:55-90,
\* server.go:69).
ReadyHonest ==
  \A r \in Requests : LET q == req[r] IN ~Running(r) /\ q.kind = "ready" =>
    IF q.answer.status = "200" THEN q.wasUp = Deps ELSE q.wasDown \/ q.late

\* A service starts on what the strongest of environment, file and defaults says,
\* except for what Normalize resets: the numbers it handles (server.port, timeouts,
\* pool sizes) are positive, no name is empty, the mode is one of the two.  The
\* other numbers (database.port, redis.db, the lifetimes of connections, the login
\* and activity timeouts, the age of the cookie) are as given, zero and negative
\* included, although config.go:276 says that Normalize completes all fields.
ConfigUsable ==
  phase = "load" /\ "err" \notin DOMAIN cfg =>
    /\ \A f \in Numbers : LET v == Given(f, file, env) IN
         /\ cfg[f] \notin {Junk, Empty}
         /\ cfg[f] = IF f \in Positive /\ v \in {"zero", "negative"} THEN "default" ELSE v
    /\ \A f \in Texts \ {"mode"} : LET v == Given(f, file, env) IN
         cfg[f] # Empty /\ (v # Empty => cfg[f] = v)
    /\ cfg["mode"] \in {"satoken", "jwt"}

\* A signal ends Run, even if no handler ever returns (server.go:97-110).
SignalEndsRun == (signalled /\ phase = "serving") ~> (phase = "returned")
=============================================================================
