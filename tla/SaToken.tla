------------------------------- MODULE SaToken -------------------------------
(***************************************************************************)
(* Session management of package satoken (src/satoken/logic.go) as the     *)
(* middleware of package middleware uses it.                               *)
(*                                                                         *)
(* A request handler (a member of Procs: a goroutine of any instance of    *)
(* the service) runs Login, Logout, an authenticated request (CheckLogin,  *)
(* then GetSession) or a business update of the Account-Session            *)
(* (GetSession, then SaveSession).  The handlers share nothing but the     *)
(* key-value store, whose Get, Set and Delete are atomic one by one and    *)
(* never together, so there is one action per call of the store.           *)
(*                                                                         *)
(* The keys of the store are                                               *)
(*   tokenMap[t]    "<name>:<type>:token:<t>"        token -> login id     *)
(*   lastActive[t]  "<name>:<type>:last-active:<t>"  time of last activity *)
(*   session[u]     "<name>:<type>:session:<u>"      the Account-Session   *)
(* The Token-Session key is only ever deleted and is left out.             *)
(*                                                                         *)
(* A definition marked MUTANT is a plausible mistake in the one after it.  *)
(* No specification uses it; put in the place of its original, it makes a  *)
(* property fail that the original satisfies.                              *)
(***************************************************************************)
EXTENDS Naturals, FiniteSets

CONSTANTS
  Users,         \* login ids
  Tokens,        \* token values that NewTokenValue may draw
  Procs,         \* concurrent request handlers, of one or more instances
  NONE,          \* a missing key, or no value
  IsConcurrent,  \* Config.IsConcurrent
  IsShare,       \* Config.IsShare
  ActiveCheck,   \* Config.ActiveTimeout > 0
  Faulty,        \* calls of the store may fail, before or after taking effect
  Expiring,      \* keys may reach their time to live
  MaxSaves       \* bound on the business updates of Account-Sessions

ASSUME NoneAssumption == NONE \notin Users \cup Tokens
ASSUME ConfigAssumption ==
  {IsConcurrent, IsShare, ActiveCheck, Faulty, Expiring} \subseteq BOOLEAN

VARIABLES
  tokenMap, lastActive, session,   \* the store
  req,                             \* the request of each handler
  saves,                           \* business updates so far (their versions)
  \* history variables, read by no guard except the freshness of a token
  owner,                           \* the account each token was drawn for
  issued,                          \* tokens some Login returned
  condemned,                       \* tokens whose removal some request began
  revoked                          \* tokens some Logout reported as removed

store   == <<tokenMap, lastActive, session>>
history == <<issued, condemned, revoked>>
vars    == <<tokenMap, lastActive, session, req, saves, owner, history>>

-----------------------------------------------------------------------------
(* Types *)

\* SaTerminalInfo: the list order is the order of the indices.
Terminal == [index : Nat, token : Tokens]

\* SaSession.  data stands for the business part of dataMap (the permission
\* snapshot): the version of the last business update it contains.
Session == [loginId : Users, terms : SUBSET Terminal, count : Nat, data : Nat]

ASSUME MissingSessionAssumption == NONE \notin Session

LoginPC  == {"replGet", "replDelTok", "replDelAct", "replSave", "shareGet",
             "renewTok", "renewGet", "renewSave", "renewAct",
             "newGet", "newSave", "newTok", "newAct"}
LogoutPC == {"outGet", "outDelTok", "outDelAct", "outSessGet", "outSessDel",
             "outSessSave"}
AuthPC   == {"chkTok", "chkAct", "chkTouch", "loadSess"}
SavePC   == {"saveGet", "saveSet"}
BusyPC   == LoginPC \cup LogoutPC \cup AuthPC \cup SavePC

Request ==
  [op     : {"none", "login", "logout", "auth", "save"},
   pc     : {"idle"} \cup BusyPC,
   user   : Users \cup {NONE},
   tok    : Tokens \cup {NONE},
   sess   : Session \cup {NONE},     \* the handler's copy of a session
   todo   : SUBSET Terminal,         \* terminals replaced has still to kick
   wasIdle : BOOLEAN,                \* the token was idle when auth began
   answer : {"none", "ok", "401", "503"}]

NoRequest == [op |-> "none", pc |-> "idle", user |-> NONE, tok |-> NONE,
              sess |-> NONE, todo |-> {}, wasIdle |-> FALSE, answer |-> "none"]

TypeOK ==
  /\ tokenMap \in [Tokens -> Users \cup {NONE}]
  /\ lastActive \in [Tokens -> {"absent", "recent", "idle"}]
  /\ session \in [Users -> Session \cup {NONE}]
  /\ req \in [Procs -> Request]
  /\ saves \in Nat
  /\ owner \in [Tokens -> Users \cup {NONE}]
  /\ issued \in SUBSET Tokens
  /\ condemned \in SUBSET Tokens
  /\ revoked \in SUBSET Tokens

Init ==
  /\ tokenMap = [t \in Tokens |-> NONE]
  /\ lastActive = [t \in Tokens |-> "absent"]
  /\ session = [u \in Users |-> NONE]
  /\ req = [p \in Procs |-> NoRequest]
  /\ saves = 0
  /\ owner = [t \in Tokens |-> NONE]
  /\ issued = {} /\ condemned = {} /\ revoked = {}

-----------------------------------------------------------------------------
(* The calls of the store *)

\* MUTANT: the token as value of its own key
SetTokenSwapped(t, u) ==
  /\ tokenMap' = [tokenMap EXCEPT ![t] = t]
  /\ UNCHANGED <<lastActive, session>>

SetToken(t, u) ==
  /\ tokenMap' = [tokenMap EXCEPT ![t] = u]
  /\ UNCHANGED <<lastActive, session>>

DeleteToken(t) ==
  /\ tokenMap' = [tokenMap EXCEPT ![t] = NONE]
  /\ UNCHANGED <<lastActive, session>>

\* setLastActiveToNow, when ActiveTimeout > 0
Touch(t) ==
  /\ lastActive' = [lastActive EXCEPT ![t] = "recent"]
  /\ UNCHANGED <<tokenMap, session>>

DeleteLastActive(t) ==
  /\ lastActive' = [lastActive EXCEPT ![t] = "absent"]
  /\ UNCHANGED <<tokenMap, session>>

\* saveSession: the key is made from the login id inside the session
SaveCopy(s) ==
  /\ session' = [session EXCEPT ![s.loginId] = s]
  /\ UNCHANGED <<tokenMap, lastActive>>

DeleteSession(u) ==
  /\ session' = [session EXCEPT ![u] = NONE]
  /\ UNCHANGED <<tokenMap, lastActive>>

-----------------------------------------------------------------------------
(* Control of a handler *)

At(p, pc) == req[p].pc = pc

Goto(p, r) == req' = [req EXCEPT ![p] = r]

\* The handler returns; its locals are gone, the outcome stays visible until
\* its next request.
Finished(r, answer) ==
  [r EXCEPT !.pc = "idle", !.sess = NONE, !.todo = {}, !.answer = answer]

\* After a write that took effect the handler goes on with r, unless the
\* answer of the store is an error all the same: every caller then returns it.
Answered(p, r) ==
  \/ Goto(p, r)
  \/ Faulty /\ Goto(p, Finished(req[p], "503"))

\* TerminalList[0] of a non-empty list
IsFirst(x, terms) == \A y \in terms : x.index =< y.index

NewSession(u) == [loginId |-> u, terms |-> {}, count |-> 0, data |-> 0]

\* MUTANT: historyTerminalCount is not counted up
AddTerminalUncounted(s, t) ==
  [s EXCEPT !.terms = s.terms \cup {[index |-> s.count + 1, token |-> t]}]

AddTerminal(s, t) ==
  IF \E x \in s.terms : x.token = t THEN s
  ELSE [s EXCEPT !.count = s.count + 1,
                 !.terms = s.terms \cup {[index |-> s.count + 1, token |-> t]}]

RemoveTerminal(s, t) ==
  [s EXCEPT !.terms = {x \in s.terms : x.token # t}]

-----------------------------------------------------------------------------
(* Login *)

AfterReplaced == IF IsShare THEN "shareGet" ELSE "newGet"

\* Every login still running may need a fresh token (bounds the model).
TokenToSpare ==
  Cardinality({p \in Procs : req[p].op = "login" /\ req[p].pc # "idle"})
    < Cardinality({t \in Tokens : owner[t] = NONE})

StartLogin(p, u) ==
  /\ At(p, "idle")
  /\ TokenToSpare
  /\ Goto(p, [NoRequest EXCEPT !.op = "login", !.user = u,
                !.pc = IF IsConcurrent THEN AfterReplaced ELSE "replGet"])
  /\ UNCHANGED <<store, saves, owner>>

\* replaced: read the session once, then kick every terminal of that copy
ReplacedGet(p) ==
  /\ At(p, "replGet")
  /\ LET s == session[req[p].user] IN
     IF s = NONE
     THEN Goto(p, [req[p] EXCEPT !.pc = AfterReplaced])
     ELSE Goto(p, [req[p] EXCEPT
                     !.pc = IF s.terms = {} THEN "replSave" ELSE "replDelTok",
                     !.sess = s, !.todo = s.terms])
  /\ UNCHANGED <<store, saves, owner>>

\* MUTANT: the kicked token's key stays
ReplacedForgetsToken(p) ==
  /\ At(p, "replDelTok")
  /\ Goto(p, [req[p] EXCEPT !.pc = "replDelAct"])
  /\ UNCHANGED <<store, saves, owner>>

ReplacedDeleteToken(p) ==
  /\ At(p, "replDelTok")
  /\ \E x \in req[p].todo :
       /\ IsFirst(x, req[p].todo)
       /\ DeleteToken(x.token)
       /\ Answered(p, [req[p] EXCEPT !.pc = "replDelAct"])
  /\ UNCHANGED <<saves, owner>>

\* MUTANT: the list is never worked off
ReplacedStaysAtFirst(p) ==
  /\ At(p, "replDelAct")
  /\ \E x \in req[p].todo :
       DeleteLastActive(x.token) /\ Answered(p, [req[p] EXCEPT !.pc = "replDelTok"])
  /\ UNCHANGED <<saves, owner>>

ReplacedDeleteActive(p) ==
  /\ At(p, "replDelAct")
  /\ \E x \in req[p].todo :
       /\ IsFirst(x, req[p].todo)
       /\ DeleteLastActive(x.token)
       /\ Answered(p, [req[p] EXCEPT
                         !.todo = @ \ {x},
                         !.pc = IF req[p].todo = {x} THEN "replSave"
                                ELSE "replDelTok"])
  /\ UNCHANGED <<saves, owner>>

\* MUTANT: the kicked account starts with a new session
ReplacedSaveFresh(p) ==
  /\ At(p, "replSave")
  /\ SaveCopy(NewSession(req[p].user))
  /\ Answered(p, [req[p] EXCEPT !.pc = AfterReplaced, !.sess = NONE])
  /\ UNCHANGED <<saves, owner>>

ReplacedSave(p) ==
  /\ At(p, "replSave")
  /\ SaveCopy([req[p].sess EXCEPT !.terms = {}])
  /\ Answered(p, [req[p] EXCEPT !.pc = AfterReplaced, !.sess = NONE])
  /\ UNCHANGED <<saves, owner>>

\* MUTANT: the session key lacks the login id
ShareGetAnyAccount(p) ==
  /\ At(p, "shareGet")
  /\ \E u \in Users :
       LET terms == IF session[u] = NONE THEN {} ELSE session[u].terms IN
       \/ /\ terms = {}
          /\ Goto(p, [req[p] EXCEPT !.pc = "newGet"])
       \/ \E x \in terms :
            /\ IsFirst(x, terms)
            /\ Goto(p, [req[p] EXCEPT !.pc = "renewTok", !.tok = x.token])
  /\ UNCHANGED <<store, saves, owner>>

\* TokenValueByLoginID: reuse the first terminal, if there is one
ShareGet(p) ==
  /\ At(p, "shareGet")
  /\ LET s == session[req[p].user]
         terms == IF s = NONE THEN {} ELSE s.terms
     IN \/ /\ terms = {}
           /\ Goto(p, [req[p] EXCEPT !.pc = "newGet"])
        \/ \E x \in terms :
             /\ IsFirst(x, terms)
             /\ Goto(p, [req[p] EXCEPT !.pc = "renewTok", !.tok = x.token])
  /\ UNCHANGED <<store, saves, owner>>

RenewToken(p) ==
  /\ At(p, "renewTok")
  /\ SetToken(req[p].tok, req[p].user)
  /\ Answered(p, [req[p] EXCEPT !.pc = "renewGet"])
  /\ UNCHANGED <<saves, owner>>

\* A session that is gone ends renew without an error.
RenewGet(p) ==
  /\ At(p, "renewGet")
  /\ LET s == session[req[p].user] IN
     IF s = NONE THEN Goto(p, Finished(req[p], "ok"))
     ELSE Goto(p, [req[p] EXCEPT !.pc = "renewSave", !.sess = s])
  /\ UNCHANGED <<store, saves, owner>>

RenewSave(p) ==
  /\ At(p, "renewSave")
  /\ SaveCopy(req[p].sess)
  /\ Answered(p, IF ActiveCheck
                 THEN [req[p] EXCEPT !.pc = "renewAct", !.sess = NONE]
                 ELSE Finished(req[p], "ok"))
  /\ UNCHANGED <<saves, owner>>

RenewActive(p) ==
  /\ At(p, "renewAct")
  /\ Touch(req[p].tok)
  /\ Answered(p, Finished(req[p], "ok"))
  /\ UNCHANGED <<saves, owner>>

\* MUTANT: the new terminal is not saved
NewGetUnsaved(p) ==
  /\ At(p, "newGet")
  /\ \E t \in Tokens :
       /\ owner[t] = NONE
       /\ owner' = [owner EXCEPT ![t] = req[p].user]
       /\ Goto(p, [req[p] EXCEPT !.pc = "newTok", !.tok = t])
  /\ UNCHANGED <<store, saves>>

\* NewTokenValue, then getSessionByLoginID(create) and AddTerminal on the copy
NewGet(p) ==
  /\ At(p, "newGet")
  /\ LET u == req[p].user
         s == IF session[u] = NONE THEN NewSession(u) ELSE session[u]
     IN \E t \in Tokens :
          /\ owner[t] = NONE
          /\ owner' = [owner EXCEPT ![t] = u]
          /\ Goto(p, [req[p] EXCEPT
                        !.pc = "newSave", !.tok = t,
                        !.sess = AddTerminal([s EXCEPT !.loginId = u], t)])
  /\ UNCHANGED <<store, saves>>

NewSave(p) ==
  /\ At(p, "newSave")
  /\ SaveCopy(req[p].sess)
  /\ Answered(p, [req[p] EXCEPT !.pc = "newTok", !.sess = NONE])
  /\ UNCHANGED <<saves, owner>>

\* MUTANT: the first activity is not recorded
NewTokenUntimed(p) ==
  /\ At(p, "newTok")
  /\ SetToken(req[p].tok, req[p].user)
  /\ Answered(p, Finished(req[p], "ok"))
  /\ UNCHANGED <<saves, owner>>

NewToken(p) ==
  /\ At(p, "newTok")
  /\ SetToken(req[p].tok, req[p].user)
  /\ Answered(p, IF ActiveCheck THEN [req[p] EXCEPT !.pc = "newAct"]
                 ELSE Finished(req[p], "ok"))
  /\ UNCHANGED <<saves, owner>>

NewActive(p) ==
  /\ At(p, "newAct")
  /\ Touch(req[p].tok)
  /\ Answered(p, Finished(req[p], "ok"))
  /\ UNCHANGED <<saves, owner>>

Login(p) ==
  \/ ReplacedGet(p) \/ ReplacedDeleteToken(p) \/ ReplacedDeleteActive(p)
  \/ ReplacedSave(p)
  \/ ShareGet(p) \/ RenewToken(p) \/ RenewGet(p) \/ RenewSave(p)
  \/ RenewActive(p)
  \/ NewGet(p) \/ NewSave(p) \/ NewToken(p) \/ NewActive(p)

-----------------------------------------------------------------------------
(* Logout, called by a client or by CheckLogin for an idle token *)

\* What the caller of Logout answers when it returns nil: CheckLogin turns
\* that into ErrNotFound, which the middleware reports as 401.
LogoutDone(r) == Finished(r, IF r.op = "auth" THEN "401" ELSE "ok")

StartLogout(p, t) ==
  /\ At(p, "idle")
  /\ t \in issued
  /\ Goto(p, [NoRequest EXCEPT !.op = "logout", !.pc = "outGet", !.tok = t])
  /\ UNCHANGED <<store, saves, owner>>

\* A token that is not found leaves the login id empty and goes on.
LogoutGet(p) ==
  /\ At(p, "outGet")
  /\ Goto(p, [req[p] EXCEPT !.pc = "outDelTok", !.user = tokenMap[req[p].tok]])
  /\ UNCHANGED <<store, saves, owner>>

\* MUTANT: the token's key stays
LogoutForgetsToken(p) ==
  /\ At(p, "outDelTok")
  /\ Goto(p, [req[p] EXCEPT !.pc = "outDelAct"])
  /\ UNCHANGED <<store, saves, owner>>

LogoutDeleteToken(p) ==
  /\ At(p, "outDelTok")
  /\ DeleteToken(req[p].tok)
  /\ Answered(p, [req[p] EXCEPT !.pc = "outDelAct"])
  /\ UNCHANGED <<saves, owner>>

LogoutDeleteActive(p) ==
  /\ At(p, "outDelAct")
  /\ DeleteLastActive(req[p].tok)
  /\ Answered(p, IF req[p].user = NONE THEN LogoutDone(req[p])
                 ELSE [req[p] EXCEPT !.pc = "outSessGet"])
  /\ UNCHANGED <<saves, owner>>

LogoutGetSession(p) ==
  /\ At(p, "outSessGet")
  /\ LET s == session[req[p].user] IN
     IF s = NONE THEN Goto(p, LogoutDone(req[p]))
     ELSE LET kept == RemoveTerminal(s, req[p].tok) IN
          Goto(p, [req[p] EXCEPT
                     !.sess = kept,
                     !.pc = IF kept.terms = {} THEN "outSessDel"
                            ELSE "outSessSave"])
  /\ UNCHANGED <<store, saves, owner>>

LogoutDeleteSession(p) ==
  /\ At(p, "outSessDel")
  /\ DeleteSession(req[p].user)
  /\ Answered(p, LogoutDone(req[p]))
  /\ UNCHANGED <<saves, owner>>

LogoutSaveSession(p) ==
  /\ At(p, "outSessSave")
  /\ SaveCopy(req[p].sess)
  /\ Answered(p, LogoutDone(req[p]))
  /\ UNCHANGED <<saves, owner>>

Logout(p) ==
  \/ LogoutGet(p) \/ LogoutDeleteToken(p) \/ LogoutDeleteActive(p)
  \/ LogoutGetSession(p) \/ LogoutDeleteSession(p) \/ LogoutSaveSession(p)

-----------------------------------------------------------------------------
(* An authenticated request: middleware.Auth over CheckLogin and GetSession *)

StartAuth(p, t) ==
  /\ At(p, "idle")
  /\ t \in issued
  /\ Goto(p, [NoRequest EXCEPT !.op = "auth", !.pc = "chkTok", !.tok = t,
                               !.wasIdle = lastActive[t] = "idle"])
  /\ UNCHANGED <<store, saves, owner>>

\* A request without a token is refused before any call of the store.
Anonymous(p) ==
  /\ At(p, "idle")
  /\ Goto(p, [NoRequest EXCEPT !.op = "auth", !.answer = "401"])
  /\ UNCHANGED <<store, saves, owner>>

CheckToken(p) ==
  /\ At(p, "chkTok")
  /\ LET u == tokenMap[req[p].tok] IN
     IF u = NONE THEN Goto(p, Finished(req[p], "401"))
     ELSE Goto(p, [req[p] EXCEPT
                     !.user = u,
                     !.pc = IF ActiveCheck THEN "chkAct" ELSE "loadSess"])
  /\ UNCHANGED <<store, saves, owner>>

\* MUTANT: an idle token is touched like any other
CheckActiveLenient(p) ==
  /\ At(p, "chkAct")
  /\ Goto(p, [req[p] EXCEPT !.pc = "chkTouch"])
  /\ UNCHANGED <<store, saves, owner>>

\* An idle token is logged out; a missing stamp, or one that cannot be read,
\* is taken for recent activity.
CheckActive(p) ==
  /\ At(p, "chkAct")
  /\ \/ /\ lastActive[req[p].tok] = "idle"
        /\ Goto(p, [req[p] EXCEPT !.pc = "outGet"])
     \/ /\ lastActive[req[p].tok] # "idle" \/ Faulty
        /\ Goto(p, [req[p] EXCEPT !.pc = "chkTouch"])
  /\ UNCHANGED <<store, saves, owner>>

\* MUTANT: activity renews the token key as well
CheckTouchRenews(p) ==
  /\ At(p, "chkTouch")
  /\ SetToken(req[p].tok, req[p].user)
  /\ Answered(p, [req[p] EXCEPT !.pc = "loadSess"])
  /\ UNCHANGED <<saves, owner>>

CheckTouch(p) ==
  /\ At(p, "chkTouch")
  /\ Touch(req[p].tok)
  /\ Answered(p, [req[p] EXCEPT !.pc = "loadSess"])
  /\ UNCHANGED <<saves, owner>>

LoadSession(p) ==
  /\ At(p, "loadSess")
  /\ Goto(p, Finished(req[p],
                IF session[req[p].user] = NONE THEN "401" ELSE "ok"))
  /\ UNCHANGED <<store, saves, owner>>

Auth(p) ==
  \/ CheckToken(p) \/ CheckActive(p) \/ CheckTouch(p) \/ LoadSession(p)

-----------------------------------------------------------------------------
(* A business update of the Account-Session *)

StartSave(p, u) ==
  /\ At(p, "idle")
  /\ saves + Cardinality({q \in Procs : At(q, "saveGet")}) < MaxSaves
  /\ Goto(p, [NoRequest EXCEPT !.op = "save", !.pc = "saveGet", !.user = u])
  /\ UNCHANGED <<store, saves, owner>>

\* GetSession, and the new data written into the copy
SaveGet(p) ==
  /\ At(p, "saveGet")
  /\ LET s == session[req[p].user] IN
     IF s = NONE
     THEN Goto(p, Finished(req[p], "none")) /\ saves' = saves
     ELSE /\ saves' = saves + 1
          /\ Goto(p, [req[p] EXCEPT !.pc = "saveSet",
                                    !.sess = [s EXCEPT !.data = saves + 1]])
  /\ UNCHANGED <<store, owner>>

\* SaveSession
SaveSet(p) ==
  /\ At(p, "saveSet")
  /\ SaveCopy(req[p].sess)
  /\ Answered(p, Finished(req[p], "ok"))
  /\ UNCHANGED <<saves, owner>>

Save(p) == SaveGet(p) \/ SaveSet(p)

-----------------------------------------------------------------------------
(* The environment *)

\* MUTANT: a request whose store call fails is refused
StoreFailsUnauthorized(p) ==
  /\ Faulty
  /\ req[p].pc \in BusyPC \ {"chkAct"}
  /\ Goto(p, Finished(req[p], "401"))
  /\ UNCHANGED <<store, saves, owner>>

\* A call of the store fails without effect and its caller returns the error
\* (503 in the middleware); a crash of the instance leaves the same state.
\* The read of the last activity is not among them: see CheckActive.
StoreFails(p) ==
  /\ Faulty
  /\ req[p].pc \in BusyPC \ {"chkAct"}
  /\ Goto(p, Finished(req[p], "503"))
  /\ UNCHANGED <<store, saves, owner>>

\* More than ActiveTimeout seconds pass without activity on t.
GoIdle(t) ==
  /\ ActiveCheck
  /\ lastActive[t] = "recent"
  /\ lastActive' = [lastActive EXCEPT ![t] = "idle"]
  /\ UNCHANGED <<tokenMap, session, req, saves, owner>>

\* A key reaches its time to live.
Expire ==
  /\ Expiring
  /\ \/ \E t \in Tokens : tokenMap[t] # NONE /\ DeleteToken(t)
     \/ \E t \in Tokens : lastActive[t] # "absent" /\ DeleteLastActive(t)
     \/ \E u \in Users : session[u] # NONE /\ DeleteSession(u)
  /\ UNCHANGED <<req, saves, owner>>

-----------------------------------------------------------------------------
(* What the history variables record, as functions of the requests *)

Returned == {req[p].tok : p \in {q \in Procs :
               req[q].op = "login" /\ req[q].answer = "ok"}}

LoggedOut == {req[p].tok : p \in {q \in Procs :
                req[q].op = "logout" /\ req[q].answer = "ok"}}

BeingRemoved ==
  {x.token : x \in UNION {req[p].todo : p \in Procs}}
  \cup {req[p].tok : p \in {q \in Procs :
          req[q].op = "logout" \/ req[q].pc \in LogoutPC}}

Record ==
  /\ issued' = issued \cup Returned'
  /\ condemned' = condemned \cup BeingRemoved'
  /\ revoked' = revoked \cup LoggedOut'

Handle(p) == Login(p) \/ Logout(p) \/ Auth(p) \/ Save(p)

Start(p) ==
  \/ \E u \in Users : StartLogin(p, u) \/ StartSave(p, u)
  \/ \E t \in Tokens : StartLogout(p, t) \/ StartAuth(p, t)
  \/ Anonymous(p)

Step ==
  \/ \E p \in Procs : Start(p) \/ Handle(p) \/ StoreFails(p)
  \/ \E t \in Tokens : GoIdle(t)
  \/ Expire

Next == Step /\ Record

Spec == Init /\ [][Next]_vars

\* The account a request works for, from its beginning on.
Account(r) ==
  IF r.user # NONE THEN r.user ELSE IF r.tok # NONE THEN owner[r.tok] ELSE NONE

\* The requests of one account come one after another, those of different
\* accounts as they like.
Apart ==
  \A p, q \in Procs :
    /\ req[p].pc # "idle" /\ req[q].pc # "idle"
    /\ Account(req[p]) = Account(req[q])
    => p = q

ApartSpec == Init /\ [][Next /\ Apart']_vars

\* A goroutine that handles a request keeps running until it returns.
Fairness == \A p \in Procs : WF_vars(Handle(p) /\ Record)

FairSpec == Spec /\ Fairness

-----------------------------------------------------------------------------
(* Properties *)

\* No request ever crosses accounts, whatever the interleaving, the faults and
\* the expiries: a token key holds the account its token was drawn for, an
\* Account-Session lies under the key of the login id it contains and lists
\* that account's tokens only (the same for the copies handlers will write
\* back and for the terminals a login will kick), and an authenticated request
\* is served as the owner of its token.
AccountIsolation ==
  /\ \A t \in Tokens : tokenMap[t] # NONE => tokenMap[t] = owner[t]
  /\ \A u \in Users : session[u] # NONE =>
       /\ session[u].loginId = u
       /\ \A x \in session[u].terms : owner[x.token] = u
  /\ \A p \in Procs : req[p].sess # NONE =>
       /\ req[p].sess.loginId = req[p].user
       /\ \A x \in req[p].sess.terms : owner[x.token] = req[p].user
  /\ \A p \in Procs : \A x \in req[p].todo : owner[x.token] = req[p].user
  /\ \A p \in Procs : req[p].op = "auth" /\ req[p].answer = "ok" =>
       req[p].user = owner[req[p].tok]

WellFormed(s) ==
  /\ \A x \in s.terms : x.index \in 1..s.count
  /\ \A x, y \in s.terms : x.index = y.index \/ x.token = y.token => x = y

\* historyTerminalCount never falls behind the indices it handed out and no
\* token is listed twice, even when lost updates drop terminals: so the list
\* order is the order of the indices and "the first terminal" is one token.
TerminalListWellFormed ==
  /\ \A u \in Users : session[u] # NONE => WellFormed(session[u])
  /\ \A p \in Procs : req[p].sess # NONE => WellFormed(req[p].sess)

\* Once a Logout of a token has returned nil the token authenticates nobody,
\* ever again (Logout: "revokes the given token").
RevokedStaysDead == \A t \in revoked : tokenMap[t] = NONE

\* A token the client holds and that is accepted has a last-activity stamp, so
\* ActiveTimeout applies to it (CheckLogin skips the check without a stamp).
IssuedTokenIsTimed ==
  \A t \in issued : tokenMap[t] # NONE => lastActive[t] # "absent"

Listed(t) ==
  LET u == tokenMap[t] IN
  session[u] # NONE /\ \E x \in session[u].terms : x.token = t

\* Every accepted token is listed in the Account-Session of its account, where
\* a later Login(IsConcurrent = false) finds it to kick it: Login writes the
\* session before the token key, Logout and replaced delete in reverse order.
LiveTokenListed == \A t \in Tokens : tokenMap[t] # NONE => Listed(t)

\* IsConcurrent = false: "the old sessions of the account are kicked", so an
\* account has at most one accepted token.
AtMostOneLive ==
  \A t1, t2 \in Tokens :
    tokenMap[t1] # NONE /\ tokenMap[t1] = tokenMap[t2] => t1 = t2

\* A client is told 401 only for a token somebody began to remove (a logout, a
\* kick, the idle check): a store fault is a 503 and never a 401.
NoSpuriousRefusal ==
  \A p \in Procs : req[p].op = "auth" /\ req[p].answer = "401" =>
    req[p].tok \in condemned \cup {NONE}

\* A token that was idle when the request came in is not accepted.
IdleTokenRejected ==
  \A p \in Procs : req[p].op = "auth" /\ req[p].wasIdle =>
    req[p].answer # "ok"

\* The life of a token as TokenLifecycle sees it.
Stage(t) ==
  IF owner[t] = NONE THEN "fresh"
  ELSE IF tokenMap[t] # NONE THEN "live"
  ELSE IF \E p \in Procs : req[p].tok = t /\ req[p].pc \in {"newSave", "newTok"}
  THEN "pending" ELSE "dead"

Lifecycle == INSTANCE TokenLifecycle
               WITH stage <- [t \in Tokens |-> Stage(t)], account <- owner

\* Without sharing, the store's token keys implement TokenLifecycle: no
\* interleaving, fault, retry or expiry brings a removed token back to life.
TokensNeverRevive == Lifecycle!Spec

\* Every request is answered: no retry loop, and replaced ends its list.
EveryRequestEnds ==
  \A p \in Procs : (req[p].pc # "idle") ~> (req[p].pc = "idle")
=============================================================================
