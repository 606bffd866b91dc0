----------------------------- MODULE SaTokenSerial -----------------------------
(***************************************************************************)
(* Proofs about SaToken with requests that run apart: those of different   *)
(* accounts overlap as they like, those of one account come one after      *)
(* another.  What satoken promises then, for every number of handlers,     *)
(* accounts and tokens, every configuration and all store faults, as long  *)
(* as no key expires.  TLC finds counterexamples to each of these promises *)
(* when two requests of one account overlap.  What remains then of the     *)
(* promise about business data is the theorem about SaTokenOverlap.        *)
(***************************************************************************)
EXTENDS SaTokenProofs, SaTokenOverlap

DroppedPC == {"outDelAct", "outSessGet", "outSessDel", "outSessSave"}
KickPC    == {"replDelTok", "replDelAct", "replSave"}
FreshPC   == {"newSave", "newTok", "newAct"}
RenewPC   == {"shareGet", "renewTok", "renewGet", "renewSave", "renewAct"}

-----------------------------------------------------------------------------
(* The invariants, one per promise *)

Lists(s, t) == s # NONE /\ \E x \in s.terms : x.token = t

\* What a handler knows of the session it is about to change.
KnowsList(r) ==
  /\ r.pc \in {"renewTok", "newTok"} => Lists(session[r.user], r.tok)
  /\ r.pc = "newSave" =>
       /\ Lists(r.sess, r.tok)
       /\ \A t \in Tokens : Lists(session[r.user], t) => Lists(r.sess, t)
  /\ r.pc \in KickPC =>
       /\ r.sess = session[r.user] /\ r.todo \subseteq r.sess.terms
       /\ \A x \in r.sess.terms \ r.todo : tokenMap[x.token] = NONE
  /\ r.pc = "replDelAct" =>
       \A x \in r.todo : IsFirst(x, r.todo) => tokenMap[x.token] = NONE
  /\ r.pc = "replSave" => r.todo = {}
  /\ r.pc = "renewSave" => r.sess = session[r.user]
  /\ r.pc = "saveSet" =>
       session[r.user] # NONE /\ r.sess.terms = session[r.user].terms
  /\ r.pc \in DroppedPC => tokenMap[r.tok] = NONE
  /\ r.pc \in {"outSessDel", "outSessSave"} =>
       session[r.user] # NONE /\ r.sess = RemoveTerminal(session[r.user], r.tok)
  /\ r.pc = "outSessDel" => r.sess.terms = {}

ListInv == LiveTokenListed /\ \A p \in Procs : KnowsList(req[p])

\* A login that kicked the account's tokens left none of them accepted.
Kicked(r) ==
  /\ r.pc \in {"shareGet", "newGet", "newSave", "newTok"} =>
       \A t \in Tokens : tokenMap[t] # r.user
  /\ r.pc = "shareGet" =>
       session[r.user] = NONE \/ session[r.user].terms = {}
  /\ r.pc \notin {"renewTok", "renewGet", "renewSave", "renewAct"}

KickInv == AtMostOneLive /\ \A p \in Procs : Kicked(req[p])

\* What the history variables hold of the requests that run.
Recorded ==
  Returned \subseteq issued /\ BeingRemoved \subseteq condemned
  /\ LoggedOut \subseteq revoked

\* A token in use is accepted until somebody begins to remove it.
InUse(r) ==
  /\ r.pc \in {"newAct", "renewGet", "renewSave", "renewAct",
               "chkAct", "chkTouch", "loadSess"} => tokenMap[r.tok] # NONE
  /\ r.pc \in AuthPC \cup LogoutPC => r.tok \in issued

RefusalInv ==
  /\ Recorded
  /\ \A t \in issued \ condemned : tokenMap[t] # NONE
  /\ \A p \in Procs : InUse(req[p])
  /\ NoSpuriousRefusal

\* An idle token does not get past the check of its last activity.
IdleRequest(r) ==
  r.op = "auth" /\ r.wasIdle =>
    /\ r.pc \in {"chkTok", "chkAct"} => lastActive[r.tok] = "idle"
    /\ r.pc \notin {"chkTouch", "loadSess"} /\ r.answer # "ok"

IdleInv ==
  /\ \A t \in Tokens : lastActive[t] = "idle" => ActiveCheck
  /\ \A p \in Procs : IdleRequest(req[p])

\* A token is stamped before it is issued.
TimedInv ==
  /\ Recorded
  /\ \A p \in Procs :
       /\ req[p].pc \in FreshPC => req[p].tok \notin issued
       /\ req[p].pc \in RenewPC => IsShare
  /\ IssuedTokenIsTimed

\* With a store that never fails only a handler at work leaves a listed token
\* unaccepted, and a token that was logged out is listed nowhere.
Unsettled(r, t) ==
  \/ r.pc \in {"newTok"} \cup DroppedPC /\ r.user # NONE /\ r.tok = t
  \/ r.pc \in KickPC /\ owner[t] = r.user

NowhereListed(t) == \A u \in Users : ~ Lists(session[u], t)

SettledRequest(r) ==
  /\ r.pc = "renewTok" => tokenMap[r.tok] # NONE
  /\ r.pc = "newSave" =>
       \A t \in Tokens \ {r.tok} :
         Lists(r.sess, t) => Lists(session[r.user], t)
  /\ r.pc \in LogoutPC \ {"outGet"} =>
       IF r.user = NONE THEN NowhereListed(r.tok) ELSE owner[r.tok] = r.user
  /\ r.pc \in LogoutPC \cup AuthPC => r.tok \in issued
  /\ r.pc \in FreshPC => r.tok \notin issued

SettledInv ==
  /\ Recorded
  /\ \A u \in Users : \A t \in Tokens : Lists(session[u], t) =>
       tokenMap[t] # NONE \/ \E p \in Procs : Unsettled(req[p], t)
  /\ \A p \in Procs : SettledRequest(req[p])
  /\ revoked \subseteq issued
  /\ \A t \in revoked : tokenMap[t] = NONE /\ NowhereListed(t)

-----------------------------------------------------------------------------
(* What each step does to the request of its handler *)

\* The fields a step of a handler may change, and those it keeps.
Goes(p, c, s, todo) ==
  /\ req'[p].pc = c /\ req'[p].sess = s /\ req'[p].todo = todo
  /\ req'[p].op = req[p].op /\ req'[p].user = req[p].user
  /\ req'[p].tok = req[p].tok /\ req'[p].wasIdle = req[p].wasIdle
  /\ req'[p].answer = req[p].answer

Ends(p, a) ==
  /\ req'[p].pc = "idle" /\ req'[p].sess = NONE /\ req'[p].todo = {}
  /\ req'[p].op = req[p].op /\ req'[p].user = req[p].user
  /\ req'[p].tok = req[p].tok /\ req'[p].wasIdle = req[p].wasIdle
  /\ req'[p].answer = a

Fails(p) == Faulty /\ Ends(p, "503")

LEMMA GotoNow ==
  ASSUME TypeOK, NEW p \in Procs, NEW r, Goto(p, r)
  PROVE  req'[p] = r
BY DEF Goto, TypeOK

LEMMA EndsNow ==
  ASSUME TypeOK, NEW p \in Procs, NEW a, Goto(p, Finished(req[p], a))
  PROVE  Ends(p, a)
<1>1. req[p] \in Request
  BY DEF TypeOK
<1>2. req'[p] = Finished(req[p], a)
  BY GotoNow
<1> QED
  BY <1>1, <1>2 DEF Finished, Ends, Request

LEMMA GoesNow ==
  ASSUME TypeOK, NEW p \in Procs, NEW c, NEW s, NEW todo,
         Goto(p, [req[p] EXCEPT !.pc = c, !.sess = s, !.todo = todo])
  PROVE  Goes(p, c, s, todo)
<1>1. req[p] \in Request
  BY DEF TypeOK
<1>2. req'[p] = [req[p] EXCEPT !.pc = c, !.sess = s, !.todo = todo]
  BY GotoNow
<1> QED
  BY <1>1, <1>2 DEF Goes, Request

LEMMA PlainGoes ==
  ASSUME TypeOK, NEW p \in Procs, NEW c, Goto(p, [req[p] EXCEPT !.pc = c])
  PROVE  Goes(p, c, req[p].sess, req[p].todo)
<1>1. req[p] \in Request
  BY DEF TypeOK
<1>2. req'[p] = [req[p] EXCEPT !.pc = c]
  BY GotoNow
<1> QED
  BY <1>1, <1>2 DEF Goes, Request

LEMMA CopyGoes ==
  ASSUME TypeOK, NEW p \in Procs, NEW c, NEW s,
         Goto(p, [req[p] EXCEPT !.pc = c, !.sess = s])
  PROVE  Goes(p, c, s, req[p].todo)
<1>1. req[p] \in Request
  BY DEF TypeOK
<1>2. req'[p] = [req[p] EXCEPT !.pc = c, !.sess = s]
  BY GotoNow
<1> QED
  BY <1>1, <1>2 DEF Goes, Request

LEMMA KickEffects ==
  ASSUME TypeOK, NEW p \in Procs
  PROVE  /\ ReplacedGet(p) =>
              \/ /\ session[req[p].user] = NONE
                 /\ Goes(p, AfterReplaced, req[p].sess, req[p].todo)
              \/ /\ session[req[p].user] # NONE
                 /\ Goes(p, IF session[req[p].user].terms = {} THEN "replSave"
                            ELSE "replDelTok",
                         session[req[p].user], session[req[p].user].terms)
         /\ ReplacedDeleteToken(p) =>
              \E x \in req[p].todo :
                /\ IsFirst(x, req[p].todo) /\ DeleteToken(x.token)
                /\ Goes(p, "replDelAct", req[p].sess, req[p].todo) \/ Fails(p)
         /\ ReplacedDeleteActive(p) =>
              \E x \in req[p].todo :
                /\ IsFirst(x, req[p].todo) /\ DeleteLastActive(x.token)
                /\ \/ Goes(p, IF req[p].todo = {x} THEN "replSave"
                               ELSE "replDelTok", req[p].sess, req[p].todo \ {x})
                   \/ Fails(p)
         /\ ReplacedSave(p) =>
              Goes(p, AfterReplaced, NONE, req[p].todo) \/ Fails(p)
<1>1. req[p] \in Request
  BY DEF TypeOK
<1>2. ASSUME ReplacedGet(p), session[req[p].user] = NONE
      PROVE  Goes(p, AfterReplaced, req[p].sess, req[p].todo)
  BY <1>2, PlainGoes DEF ReplacedGet
<1>3. ASSUME ReplacedGet(p), session[req[p].user] # NONE
      PROVE  Goes(p, IF session[req[p].user].terms = {} THEN "replSave"
                     ELSE "replDelTok",
                  session[req[p].user], session[req[p].user].terms)
  BY <1>3, GoesNow DEF ReplacedGet
<1>4. ASSUME ReplacedDeleteToken(p)
      PROVE  \E x \in req[p].todo :
                /\ IsFirst(x, req[p].todo) /\ DeleteToken(x.token)
                /\ Goes(p, "replDelAct", req[p].sess, req[p].todo) \/ Fails(p)
  BY <1>4, PlainGoes, EndsNow DEF ReplacedDeleteToken, Answered, Fails
<1>5. ASSUME ReplacedDeleteActive(p)
      PROVE  \E x \in req[p].todo :
                /\ IsFirst(x, req[p].todo) /\ DeleteLastActive(x.token)
                /\ \/ Goes(p, IF req[p].todo = {x} THEN "replSave"
                               ELSE "replDelTok", req[p].sess, req[p].todo \ {x})
                   \/ Fails(p)
  <2>1. PICK x \in req[p].todo :
          /\ IsFirst(x, req[p].todo) /\ DeleteLastActive(x.token)
          /\ Answered(p, [req[p] EXCEPT
                !.todo = @ \ {x},
                !.pc = IF req[p].todo = {x} THEN "replSave" ELSE "replDelTok"])
    BY <1>5 DEF ReplacedDeleteActive
  <2> DEFINE c == IF req[p].todo = {x} THEN "replSave" ELSE "replDelTok"
             r == [req[p] EXCEPT !.todo = @ \ {x}, !.pc = c]
  <2>2. Goto(p, r) => Goes(p, c, req[p].sess, req[p].todo \ {x})
    <3>1. SUFFICES ASSUME Goto(p, r)
                   PROVE  Goes(p, c, req[p].sess, req[p].todo \ {x})
      OBVIOUS
    <3>2. req'[p] = r
      BY <3>1, GotoNow
    <3> HIDE DEF c
    <3> QED
      BY <1>1, <3>2 DEF Goes, Request
  <2> QED
    BY <2>1, <2>2, EndsNow DEF Answered, Fails
<1>6. ASSUME ReplacedSave(p)
      PROVE  Goes(p, AfterReplaced, NONE, req[p].todo) \/ Fails(p)
  BY <1>6, CopyGoes, EndsNow DEF ReplacedSave, Answered, Fails
<1> QED
  BY <1>2, <1>3, <1>4, <1>5, <1>6

LEMMA LoginEffects ==
  ASSUME TypeOK, NEW p \in Procs
  PROVE  /\ ShareGet(p) =>
              LET s == session[req[p].user] IN
              \/ /\ s = NONE \/ s.terms = {}
                 /\ Goes(p, "newGet", req[p].sess, req[p].todo)
              \/ /\ req'[p].pc = "renewTok" /\ Lists(s, req'[p].tok)
                 /\ req'[p].op = req[p].op /\ req'[p].user = req[p].user
                 /\ req'[p].sess = req[p].sess /\ req'[p].todo = req[p].todo
                 /\ req'[p].wasIdle = req[p].wasIdle
                 /\ req'[p].answer = req[p].answer
         /\ RenewToken(p) =>
              Goes(p, "renewGet", req[p].sess, req[p].todo) \/ Fails(p)
         /\ RenewGet(p) =>
              \/ session[req[p].user] = NONE /\ Ends(p, "ok")
              \/ /\ session[req[p].user] # NONE
                 /\ Goes(p, "renewSave", session[req[p].user], req[p].todo)
         /\ RenewSave(p) =>
              \/ ActiveCheck /\ Goes(p, "renewAct", NONE, req[p].todo)
              \/ ~ActiveCheck /\ Ends(p, "ok")
              \/ Fails(p)
         /\ RenewActive(p) \/ NewActive(p) => Ends(p, "ok") \/ Fails(p)
         /\ NewSave(p) => Goes(p, "newTok", NONE, req[p].todo) \/ Fails(p)
         /\ NewToken(p) =>
              \/ ActiveCheck /\ Goes(p, "newAct", req[p].sess, req[p].todo)
              \/ ~ActiveCheck /\ Ends(p, "ok")
              \/ Fails(p)
<1>1. req[p] \in Request
  BY DEF TypeOK
<1>2. ASSUME ShareGet(p)
      PROVE  LET s == session[req[p].user] IN
              \/ /\ s = NONE \/ s.terms = {}
                 /\ Goes(p, "newGet", req[p].sess, req[p].todo)
              \/ /\ req'[p].pc = "renewTok" /\ Lists(s, req'[p].tok)
                 /\ req'[p].op = req[p].op /\ req'[p].user = req[p].user
                 /\ req'[p].sess = req[p].sess /\ req'[p].todo = req[p].todo
                 /\ req'[p].wasIdle = req[p].wasIdle
                 /\ req'[p].answer = req[p].answer
  <2> DEFINE s == session[req[p].user]
             terms == IF s = NONE THEN {} ELSE s.terms
  <2>1. CASE terms = {} /\ Goto(p, [req[p] EXCEPT !.pc = "newGet"])
    BY <2>1, PlainGoes
  <2>2. ASSUME NEW x \in terms,
               Goto(p, [req[p] EXCEPT !.pc = "renewTok", !.tok = x.token])
        PROVE  /\ req'[p].pc = "renewTok" /\ Lists(s, req'[p].tok)
               /\ req'[p].op = req[p].op /\ req'[p].user = req[p].user
               /\ req'[p].sess = req[p].sess /\ req'[p].todo = req[p].todo
               /\ req'[p].wasIdle = req[p].wasIdle
               /\ req'[p].answer = req[p].answer
    <3>1. req'[p] = [req[p] EXCEPT !.pc = "renewTok", !.tok = x.token]
      BY <2>2, GotoNow
    <3>2. s # NONE /\ x \in s.terms
      OBVIOUS
    <3> QED
      BY <1>1, <3>1, <3>2 DEF Request, Lists
  <2> QED
    BY <1>2, <2>1, <2>2 DEF ShareGet
<1>3. ASSUME RenewToken(p)
      PROVE  Goes(p, "renewGet", req[p].sess, req[p].todo) \/ Fails(p)
  BY <1>3, PlainGoes, EndsNow DEF RenewToken, Answered, Fails
<1>4. ASSUME RenewGet(p)
      PROVE  \/ session[req[p].user] = NONE /\ Ends(p, "ok")
             \/ /\ session[req[p].user] # NONE
                /\ Goes(p, "renewSave", session[req[p].user], req[p].todo)
  BY <1>4, CopyGoes, EndsNow DEF RenewGet
<1>5. ASSUME RenewSave(p)
      PROVE  \/ ActiveCheck /\ Goes(p, "renewAct", NONE, req[p].todo)
             \/ ~ActiveCheck /\ Ends(p, "ok")
             \/ Fails(p)
  BY <1>5, CopyGoes, EndsNow DEF RenewSave, Answered, Fails
<1>6. ASSUME RenewActive(p) \/ NewActive(p)
      PROVE  Ends(p, "ok") \/ Fails(p)
  BY <1>6, EndsNow DEF RenewActive, NewActive, Answered, Fails
<1>7. ASSUME NewSave(p)
      PROVE  Goes(p, "newTok", NONE, req[p].todo) \/ Fails(p)
  BY <1>7, CopyGoes, EndsNow DEF NewSave, Answered, Fails
<1>8. ASSUME NewToken(p)
      PROVE  \/ ActiveCheck /\ Goes(p, "newAct", req[p].sess, req[p].todo)
             \/ ~ActiveCheck /\ Ends(p, "ok")
             \/ Fails(p)
  BY <1>8, PlainGoes, EndsNow DEF NewToken, Answered, Fails
<1> QED
  BY <1>2, <1>3, <1>4, <1>5, <1>6, <1>7, <1>8

\* NewGet draws a token and lists it in the handler's copy of the session.
LEMMA NewGetEffect ==
  ASSUME IInv, NEW p \in Procs, NewGet(p)
  PROVE  LET q == req[p]  n == req'[p]  s == session[q.user] IN
         /\ q.pc = "newGet" /\ q.user \in Users
         /\ n.pc = "newSave" /\ n.tok \in Tokens /\ owner[n.tok] = NONE
         /\ owner' = [owner EXCEPT ![n.tok] = q.user]
         /\ Lists(n.sess, n.tok)
         /\ \A t \in Tokens : t # n.tok => (Lists(s, t) <=> Lists(n.sess, t))
         /\ n.sess.data = IF s = NONE THEN 0 ELSE s.data
         /\ n.todo = q.todo /\ n.op = q.op /\ n.user = q.user
         /\ n.wasIdle = q.wasIdle /\ n.answer = q.answer
<1> DEFINE q == req[p]
           n == req'[p]
           u == q.user
           s == IF session[u] = NONE THEN NewSession(u) ELSE session[u]
           z == [s EXCEPT !.loginId = u]
<1>1. q \in Request /\ q.pc = "newGet" /\ u \in Users
  BY DEF NewGet, At, IInv, TypeOK, RequestOK, Controlled, UserPC, LoginPC
<1>2. PICK t \in Tokens :
        /\ owner[t] = NONE /\ owner' = [owner EXCEPT ![t] = u]
        /\ Goto(p, [q EXCEPT !.pc = "newSave", !.tok = t,
                             !.sess = AddTerminal(z, t)])
  BY DEF NewGet
<1>3. n = [q EXCEPT !.pc = "newSave", !.tok = t, !.sess = AddTerminal(z, t)]
  BY <1>2, GotoNow DEF IInv
<1>4. /\ n.pc = "newSave" /\ n.tok = t /\ n.sess = AddTerminal(z, t)
      /\ n.todo = q.todo /\ n.op = q.op /\ n.user = q.user
      /\ n.wasIdle = q.wasIdle /\ n.answer = q.answer
  BY <1>1, <1>3 DEF Request
<1>5. /\ z \in Session
      /\ z.terms = IF session[u] = NONE THEN {} ELSE session[u].terms
      /\ z.data = IF session[u] = NONE THEN 0 ELSE session[u].data
  BY <1>1 DEF IInv, TypeOK, Session, NewSession
<1>6. /\ AddTerminal(z, t) \in Session
      /\ AddTerminal(z, t).data = z.data
      /\ \E x \in AddTerminal(z, t).terms : x.token = t
      /\ \A x \in AddTerminal(z, t).terms : x \in z.terms \/ x.token = t
      /\ \A x \in z.terms : x \in AddTerminal(z, t).terms
  <2> HIDE DEF z
  <2> DEFINE new == [index |-> z.count + 1, token |-> t]
             a == [z EXCEPT !.count = z.count + 1, !.terms = z.terms \cup {new}]
  <2>1. new \in Terminal /\ new.token = t
    BY <1>5 DEF Session, Terminal
  <2>2. CASE \E x \in z.terms : x.token = t
    BY <1>5, <2>2 DEF AddTerminal
  <2>3. CASE ~ \E x \in z.terms : x.token = t
    <3>1. AddTerminal(z, t) = a
      BY <2>3 DEF AddTerminal
    <3> HIDE DEF new
    <3>2. a.terms = z.terms \cup {new} /\ a.data = z.data
      BY <1>5 DEF Session
    <3>3. z.count + 1 \in Nat /\ z.terms \cup {new} \in SUBSET Terminal
      BY <1>5, <2>1 DEF Session
    <3>4. a \in Session
      BY <1>5, <3>3 DEF Session
    <3> HIDE DEF a
    <3> QED
      BY <2>1, <3>1, <3>2, <3>4
  <2> QED
    BY <2>2, <2>3
<1>7. AddTerminal(z, t) # NONE
  BY <1>6, MissingSessionAssumption
<1>8. /\ Lists(n.sess, t)
      /\ \A x \in Tokens : x # t => (Lists(session[u], x) <=> Lists(n.sess, x))
  <2> HIDE DEF z
  <2> QED
    BY <1>4, <1>5, <1>6, <1>7 DEF Lists
<1>9. n.sess.data = IF session[u] = NONE THEN 0 ELSE session[u].data
  <2> HIDE DEF z
  <2> QED
    BY <1>4, <1>5, <1>6
<1> HIDE DEF z, s, n, q, u
<1> QED
  BY <1>1, <1>2, <1>4, <1>8, <1>9 DEF n, q, u

\* The account of a request becomes known.
GoesAs(p, u, c) ==
  /\ req'[p].pc = c /\ req'[p].user = u
  /\ req'[p].sess = req[p].sess /\ req'[p].todo = req[p].todo
  /\ req'[p].op = req[p].op /\ req'[p].tok = req[p].tok
  /\ req'[p].wasIdle = req[p].wasIdle /\ req'[p].answer = req[p].answer

\* Logout has removed what there was to remove.
Done(p) == Ends(p, IF req[p].op = "auth" THEN "401" ELSE "ok")

LEMMA LogoutEffects ==
  ASSUME TypeOK, NEW p \in Procs
  PROVE  /\ LogoutGet(p) => GoesAs(p, tokenMap[req[p].tok], "outDelTok")
         /\ LogoutDeleteToken(p) =>
              Goes(p, "outDelAct", req[p].sess, req[p].todo) \/ Fails(p)
         /\ LogoutDeleteActive(p) =>
              \/ req[p].user = NONE /\ Done(p)
              \/ /\ req[p].user # NONE
                 /\ Goes(p, "outSessGet", req[p].sess, req[p].todo)
              \/ Fails(p)
         /\ LogoutGetSession(p) =>
              LET s == session[req[p].user]
                  kept == RemoveTerminal(s, req[p].tok) IN
              \/ s = NONE /\ Done(p)
              \/ /\ s # NONE /\ kept.terms = {}
                 /\ Goes(p, "outSessDel", kept, req[p].todo)
              \/ /\ s # NONE /\ kept.terms # {}
                 /\ Goes(p, "outSessSave", kept, req[p].todo)
         /\ LogoutDeleteSession(p) \/ LogoutSaveSession(p) => Done(p) \/ Fails(p)
<1>1. req[p] \in Request
  BY DEF TypeOK
<1>2. Goto(p, LogoutDone(req[p])) => Done(p)
  BY EndsNow DEF LogoutDone, Done
<1>3. ASSUME LogoutGet(p)
      PROVE  GoesAs(p, tokenMap[req[p].tok], "outDelTok")
  <2>1. req'[p] = [req[p] EXCEPT !.pc = "outDelTok",
                                 !.user = tokenMap[req[p].tok]]
    BY <1>3, GotoNow DEF LogoutGet
  <2> QED
    BY <1>1, <2>1 DEF GoesAs, Request
<1>4. ASSUME LogoutDeleteToken(p)
      PROVE  Goes(p, "outDelAct", req[p].sess, req[p].todo) \/ Fails(p)
  BY <1>4, PlainGoes, EndsNow DEF LogoutDeleteToken, Answered, Fails
<1>5. ASSUME LogoutDeleteActive(p)
      PROVE  \/ req[p].user = NONE /\ Done(p)
             \/ /\ req[p].user # NONE
                /\ Goes(p, "outSessGet", req[p].sess, req[p].todo)
             \/ Fails(p)
  BY <1>2, <1>5, PlainGoes, EndsNow DEF LogoutDeleteActive, Answered, Fails
<1>6. ASSUME LogoutGetSession(p)
      PROVE  LET s == session[req[p].user]
                 kept == RemoveTerminal(s, req[p].tok) IN
             \/ s = NONE /\ Done(p)
             \/ /\ s # NONE /\ kept.terms = {}
                /\ Goes(p, "outSessDel", kept, req[p].todo)
             \/ /\ s # NONE /\ kept.terms # {}
                /\ Goes(p, "outSessSave", kept, req[p].todo)
  <2> DEFINE s == session[req[p].user]
             kept == RemoveTerminal(s, req[p].tok)
             c == IF kept.terms = {} THEN "outSessDel" ELSE "outSessSave"
  <2>1. CASE s = NONE
    BY <1>2, <1>6, <2>1 DEF LogoutGetSession
  <2>2. CASE s # NONE
    <3>1. Goto(p, [req[p] EXCEPT !.sess = kept, !.pc = c])
      BY <1>6, <2>2 DEF LogoutGetSession
    <3>2. req'[p] = [req[p] EXCEPT !.sess = kept, !.pc = c]
      BY <3>1, GotoNow
    <3> HIDE DEF kept, c
    <3>3. Goes(p, c, kept, req[p].todo)
      BY <1>1, <3>2 DEF Goes, Request
    <3> QED
      BY <2>2, <3>3 DEF c, kept
  <2> QED
    BY <2>1, <2>2
<1>7. ASSUME LogoutDeleteSession(p) \/ LogoutSaveSession(p)
      PROVE  Done(p) \/ Fails(p)
  BY <1>2, <1>7, EndsNow
     DEF LogoutDeleteSession, LogoutSaveSession, Answered, Fails
<1> QED
  BY <1>3, <1>4, <1>5, <1>6, <1>7

LEMMA AuthEffects ==
  ASSUME TypeOK, NEW p \in Procs
  PROVE  /\ CheckToken(p) =>
              \/ tokenMap[req[p].tok] = NONE /\ Ends(p, "401")
              \/ /\ tokenMap[req[p].tok] # NONE
                 /\ GoesAs(p, tokenMap[req[p].tok],
                           IF ActiveCheck THEN "chkAct" ELSE "loadSess")
         /\ CheckActive(p) =>
              \/ /\ lastActive[req[p].tok] = "idle"
                 /\ Goes(p, "outGet", req[p].sess, req[p].todo)
              \/ /\ lastActive[req[p].tok] # "idle" \/ Faulty
                 /\ Goes(p, "chkTouch", req[p].sess, req[p].todo)
         /\ CheckTouch(p) =>
              Goes(p, "loadSess", req[p].sess, req[p].todo) \/ Fails(p)
         /\ LoadSession(p) =>
              Ends(p, IF session[req[p].user] = NONE THEN "401" ELSE "ok")
<1>1. req[p] \in Request
  BY DEF TypeOK
<1>2. ASSUME CheckToken(p), tokenMap[req[p].tok] = NONE
      PROVE  Ends(p, "401")
  BY <1>2, EndsNow DEF CheckToken
<1>3. ASSUME CheckToken(p), tokenMap[req[p].tok] # NONE
      PROVE  GoesAs(p, tokenMap[req[p].tok],
                    IF ActiveCheck THEN "chkAct" ELSE "loadSess")
  <2> DEFINE c == IF ActiveCheck THEN "chkAct" ELSE "loadSess"
  <2>1. Goto(p, [req[p] EXCEPT !.user = tokenMap[req[p].tok], !.pc = c])
    BY <1>3 DEF CheckToken
  <2>2. req'[p] = [req[p] EXCEPT !.user = tokenMap[req[p].tok], !.pc = c]
    BY <2>1, GotoNow
  <2> HIDE DEF c
  <2>3. GoesAs(p, tokenMap[req[p].tok], c)
    BY <1>1, <2>2 DEF GoesAs, Request
  <2> QED
    BY <2>3 DEF c
<1>4. ASSUME CheckActive(p)
      PROVE  \/ /\ lastActive[req[p].tok] = "idle"
                /\ Goes(p, "outGet", req[p].sess, req[p].todo)
             \/ /\ lastActive[req[p].tok] # "idle" \/ Faulty
                /\ Goes(p, "chkTouch", req[p].sess, req[p].todo)
  BY <1>4, PlainGoes DEF CheckActive
<1>5. ASSUME CheckTouch(p)
      PROVE  Goes(p, "loadSess", req[p].sess, req[p].todo) \/ Fails(p)
  BY <1>5, PlainGoes, EndsNow DEF CheckTouch, Answered, Fails
<1>6. ASSUME LoadSession(p)
      PROVE  Ends(p, IF session[req[p].user] = NONE THEN "401" ELSE "ok")
  BY <1>6, EndsNow DEF LoadSession
<1> QED
  BY <1>2, <1>3, <1>4, <1>5, <1>6

LEMMA SaveEffects ==
  ASSUME TypeOK, NEW p \in Procs
  PROVE  /\ SaveGet(p) =>
              LET s == session[req[p].user] IN
              \/ s = NONE /\ saves' = saves /\ Ends(p, "none")
              \/ /\ s # NONE /\ saves' = saves + 1
                 /\ Goes(p, "saveSet", [s EXCEPT !.data = saves + 1], req[p].todo)
         /\ SaveSet(p) => Ends(p, "ok") \/ Fails(p)
<1>1. ASSUME SaveGet(p)
      PROVE  LET s == session[req[p].user] IN
             \/ s = NONE /\ saves' = saves /\ Ends(p, "none")
             \/ /\ s # NONE /\ saves' = saves + 1
                /\ Goes(p, "saveSet", [s EXCEPT !.data = saves + 1], req[p].todo)
  BY <1>1, CopyGoes, EndsNow DEF SaveGet
<1>2. ASSUME SaveSet(p)
      PROVE  Ends(p, "ok") \/ Fails(p)
  BY <1>2, EndsNow DEF SaveSet, Answered, Fails
<1> QED
  BY <1>1, <1>2

\* A request begins with nothing read and nothing to kick.
Begins(p, op, c) ==
  /\ req'[p].op = op /\ req'[p].pc = c
  /\ req'[p].sess = NONE /\ req'[p].todo = {}

LEMMA StartEffects ==
  ASSUME TypeOK, NEW p \in Procs, Start(p)
  PROVE  /\ req[p].pc = "idle" /\ UNCHANGED <<store, saves, owner>>
         /\ LET n == req'[p] IN
            \/ /\ Begins(p, "login",
                         IF IsConcurrent THEN AfterReplaced ELSE "replGet")
               /\ n.user \in Users /\ n.answer = "none"
            \/ Begins(p, "save", "saveGet") /\ n.user \in Users
            \/ /\ Begins(p, "logout", "outGet")
               /\ n.tok \in issued /\ n.answer = "none"
            \/ /\ Begins(p, "auth", "chkTok")
               /\ n.tok \in issued /\ n.answer = "none"
               /\ n.wasIdle = (lastActive[n.tok] = "idle")
            \/ /\ Begins(p, "auth", "idle")
               /\ n.tok = NONE /\ n.answer = "401" /\ n.wasIdle = FALSE
<1> USE DEF NoRequest, Begins
<1>1. CASE \E u \in Users : StartLogin(p, u)
  <2>1. PICK u \in Users : StartLogin(p, u)
    BY <1>1
  <2> DEFINE c == IF IsConcurrent THEN AfterReplaced ELSE "replGet"
  <2>2. req'[p] = [NoRequest EXCEPT !.op = "login", !.user = u, !.pc = c]
    BY <2>1, GotoNow DEF StartLogin
  <2>3. req[p].pc = "idle" /\ UNCHANGED <<store, saves, owner>>
    BY <2>1 DEF StartLogin, At
  <2> HIDE DEF c
  <2>4. Begins(p, "login", c) /\ req'[p].user \in Users /\ req'[p].answer = "none"
    BY <2>2
  <2> QED
    BY <2>3, <2>4 DEF c
<1>2. CASE \E u \in Users : StartSave(p, u)
  <2>1. PICK u \in Users : StartSave(p, u)
    BY <1>2
  <2>2. req'[p] = [NoRequest EXCEPT !.op = "save", !.pc = "saveGet", !.user = u]
    BY <2>1, GotoNow DEF StartSave
  <2> QED
    BY <2>1, <2>2 DEF StartSave, At
<1>3. CASE \E t \in Tokens : StartLogout(p, t)
  <2>1. PICK t \in Tokens : StartLogout(p, t)
    BY <1>3
  <2>2. req'[p] = [NoRequest EXCEPT !.op = "logout", !.pc = "outGet", !.tok = t]
    BY <2>1, GotoNow DEF StartLogout
  <2> QED
    BY <2>1, <2>2 DEF StartLogout, At
<1>4. CASE \E t \in Tokens : StartAuth(p, t)
  <2>1. PICK t \in Tokens : StartAuth(p, t)
    BY <1>4
  <2> DEFINE i == lastActive[t] = "idle"
  <2>2. req'[p] = [NoRequest EXCEPT !.op = "auth", !.pc = "chkTok", !.tok = t,
                                    !.wasIdle = i]
    BY <2>1, GotoNow DEF StartAuth
  <2>3. req[p].pc = "idle" /\ t \in issued /\ UNCHANGED <<store, saves, owner>>
    BY <2>1 DEF StartAuth, At
  <2> HIDE DEF i
  <2>4. Begins(p, "auth", "chkTok") /\ req'[p].tok = t /\ req'[p].answer = "none"
        /\ req'[p].wasIdle = i
    BY <2>2
  <2> QED
    BY <2>3, <2>4 DEF i
<1>5. CASE Anonymous(p)
  <2>1. req'[p] = [NoRequest EXCEPT !.op = "auth", !.answer = "401"]
    BY <1>5, GotoNow DEF Anonymous
  <2> QED
    BY <1>5, <2>1 DEF Anonymous, At
<1> QED
  BY <1>1, <1>2, <1>3, <1>4, <1>5 DEF Start

-----------------------------------------------------------------------------
(* A request changes nothing of the accounts that other requests work for *)

\* The facts about a request that every step below starts from.
LEMMA RequestFacts ==
  ASSUME IInv, NEW p \in Procs
  PROVE  /\ req[p] \in Request
         /\ req[p].pc \in UserPC => req[p].user \in Users
         /\ req[p].pc \in CopyPC =>
              /\ req[p].user \in Users /\ req[p].sess \in Session
              /\ req[p].sess # NONE
              /\ req[p].sess.loginId = req[p].user /\ WellFormed(req[p].sess)
              /\ \A x \in req[p].sess.terms :
                   x.token \in Tokens /\ owner[x.token] = req[p].user
         /\ req[p].pc \in LogoutPC \cup AuthPC => req[p].tok \in Tokens
         /\ req[p].pc \in OwnedPC =>
              /\ req[p].user \in Users /\ req[p].tok \in Tokens
              /\ owner[req[p].tok] = req[p].user
         /\ \A x \in req[p].todo : x \in Terminal /\ x.token \in Tokens
         /\ req[p].pc # "idle" => req[p].answer = "none"
         /\ req[p].pc \in LoginPC => req[p].op = "login"
         /\ req[p].pc \in LogoutPC => req[p].op \in {"logout", "auth"}
         /\ req[p].pc \in AuthPC => req[p].op = "auth"
         /\ req[p].pc \in SavePC => req[p].op = "save"
<1>1. req[p] \in Request /\ RequestOK(req[p])
  BY DEF IInv, TypeOK
<1>2. \A s, u : SessionOf(s, u) =>
        /\ s # NONE /\ s \in Session /\ s.loginId = u /\ WellFormed(s)
        /\ \A x \in s.terms : x.token \in Tokens /\ owner[x.token] = u
  BY MissingSessionAssumption DEF SessionOf, Session, Terminal
<1>3. \A x \in req[p].todo : x \in Terminal /\ x.token \in Tokens
  BY <1>1 DEF Request, Terminal
<1> QED
  BY <1>1, <1>2, <1>3 DEF RequestOK, Controlled

\* What belongs to account a stays as it is.
Untouched(a) ==
  /\ session'[a] = session[a]
  /\ \A t \in Tokens : owner'[t] = a <=> owner[t] = a
  /\ \A t \in Tokens : owner[t] = a =>
       tokenMap'[t] = tokenMap[t] /\ lastActive'[t] = lastActive[t]
  /\ \A t \in Tokens : tokenMap'[t] = a => tokenMap[t] = a

\* What belongs to other accounts than u stays as it is.
OnlyTouches(u) ==
  /\ \A v \in Users \ {u} : session'[v] = session[v]
  /\ \A t \in Tokens :
       \/ owner'[t] = owner[t]
       \/ owner[t] = NONE /\ owner'[t] = u /\ UNCHANGED <<tokenMap, lastActive>>
  /\ \A t \in Tokens : owner[t] # u =>
       tokenMap'[t] = tokenMap[t] /\ lastActive'[t] = lastActive[t]
  /\ \A t \in Tokens : tokenMap'[t] \in {tokenMap[t], NONE, u}

\* A step of p leaves the other requests, and the accounts they work for, alone.
Turn(p) ==
  /\ IF req[p].pc = "idle" THEN UNCHANGED <<store, owner>>
     ELSE OnlyTouches(Account(req[p]))
  /\ \A o \in Procs \ {p} :
       /\ req'[o] = req[o]
       /\ req[o].pc # "idle" => Untouched(Account(req[o]))
       /\ req[o].pc # "idle" /\ req[p].pc # "idle" =>
            Account(req[o]) # Account(req[p])

\* A running request works for one account, that of its token.
LEMMA AccountKnown ==
  ASSUME IInv, NEW p \in Procs, req[p].pc # "idle"
  PROVE  /\ Account(req[p]) \in Users
         /\ req[p].pc \in UserPC => Account(req[p]) = req[p].user
         /\ req[p].pc \in LogoutPC \cup AuthPC \cup OwnedPC =>
              req[p].tok \in Tokens /\ owner[req[p].tok] = Account(req[p])
         /\ req[p].user # NONE => req[p].user = Account(req[p])
<1> USE DEF UserPC, OwnedPC, LoginPC, LogoutPC, AuthPC, SavePC, BusyPC
<1>1. /\ req[p] \in Request /\ Controlled(req[p])
      /\ owner \in [Tokens -> Users \cup {NONE}]
  BY DEF IInv, TypeOK, RequestOK
<1>2. req[p].pc \in UserPC \cup LogoutPC \cup AuthPC
  BY <1>1 DEF Request
<1>3. req[p].user \in Users \cup {NONE}
  BY <1>1 DEF Request
<1>4. req[p].pc \in LogoutPC \cup AuthPC \cup OwnedPC =>
        /\ req[p].tok \in Tokens /\ owner[req[p].tok] \in Users
        /\ req[p].user \in {NONE, owner[req[p].tok]}
  BY <1>1, NoneAssumption DEF Controlled
<1>5. req[p].pc \in UserPC => req[p].user \in Users
  BY <1>1 DEF Controlled
<1> HIDE DEF UserPC, OwnedPC, LoginPC, LogoutPC, AuthPC, SavePC, BusyPC
<1> QED
  BY <1>2, <1>3, <1>4, <1>5, NoneAssumption DEF Account

LEMMA TokenTouches ==
  ASSUME IInv, NEW a \in Users, NEW t \in Tokens, owner[t] = a, UNCHANGED owner,
         SetToken(t, a) \/ DeleteToken(t) \/ Touch(t) \/ DeleteLastActive(t)
  PROVE  OnlyTouches(a)
BY DEF IInv, TypeOK, SetToken, DeleteToken, Touch, DeleteLastActive, OnlyTouches

LEMMA SessionTouches ==
  ASSUME IInv, NEW a \in Users, UNCHANGED owner,
         DeleteSession(a) \/ \E s : s.loginId = a /\ SaveCopy(s)
  PROVE  OnlyTouches(a)
BY DEF IInv, TypeOK, DeleteSession, SaveCopy, OnlyTouches

LEMMA ReadTouches ==
  ASSUME UNCHANGED <<store, owner>>, NEW a PROVE OnlyTouches(a)
BY DEF store, OnlyTouches

LEMMA LoginTouches ==
  ASSUME IInv, NEW p \in Procs, Login(p)
  PROVE  req[p].pc # "idle" /\ OnlyTouches(Account(req[p]))
<1> USE DEF UserPC, OwnedPC, CopyPC, LoginPC
<1> DEFINE q == req[p]
           a == Account(req[p])
<1>1. q.pc \in LoginPC
  BY DEF Login, ReplacedGet, ReplacedDeleteToken, ReplacedDeleteActive,
         ReplacedSave, ShareGet, RenewToken, RenewGet, RenewSave, RenewActive,
         NewGet, NewSave, NewToken, NewActive, At
<1>2. /\ a \in Users /\ q.user = a
      /\ q.pc \in OwnedPC => q.tok \in Tokens /\ owner[q.tok] = a
      /\ q.pc \in CopyPC => q.sess.loginId = a /\ q.sess \in Session
  BY <1>1, AccountKnown, RequestFacts
<1>3. \A x \in q.todo : x.token \in Tokens /\ owner[x.token] = a
  BY <1>2, RequestFacts DEF IInv, RequestOK
<1> SUFFICES OnlyTouches(a)
  BY <1>1
<1> HIDE DEF a
<1>4. CASE ReplacedDeleteToken(p) \/ ReplacedDeleteActive(p)
  <2>1. \E x \in q.todo : DeleteToken(x.token) \/ DeleteLastActive(x.token)
    BY <1>4 DEF ReplacedDeleteToken, ReplacedDeleteActive
  <2>2. UNCHANGED owner
    BY <1>4 DEF ReplacedDeleteToken, ReplacedDeleteActive
  <2> QED
    BY <1>2, <1>3, <2>1, <2>2, TokenTouches
<1>5. CASE RenewToken(p) \/ RenewActive(p) \/ NewToken(p) \/ NewActive(p)
  <2>1. /\ q.pc \in OwnedPC /\ UNCHANGED owner
        /\ SetToken(q.tok, a) \/ Touch(q.tok)
    BY <1>2, <1>5 DEF RenewToken, RenewActive, NewToken, NewActive, At
  <2> QED
    BY <1>2, <2>1, TokenTouches
<1>6. CASE ReplacedSave(p) \/ RenewSave(p) \/ NewSave(p)
  <2>1. /\ q.pc \in CopyPC /\ UNCHANGED owner
        /\ SaveCopy(q.sess) \/ SaveCopy([q.sess EXCEPT !.terms = {}])
    BY <1>6 DEF ReplacedSave, RenewSave, NewSave, At
  <2>2. [q.sess EXCEPT !.terms = {}].loginId = a
    BY <1>2, <2>1 DEF Session
  <2> QED
    BY <1>2, <2>1, <2>2, SessionTouches
<1>7. CASE ReplacedGet(p) \/ ShareGet(p) \/ RenewGet(p)
  <2>1. UNCHANGED <<store, owner>>
    BY <1>7 DEF ReplacedGet, ShareGet, RenewGet
  <2> QED
    BY <2>1, ReadTouches
<1>8. CASE NewGet(p)
  <2>1. PICK t \in Tokens : owner[t] = NONE /\ owner' = [owner EXCEPT ![t] = a]
    BY <1>2, <1>8 DEF NewGet
  <2>2. UNCHANGED <<tokenMap, lastActive, session>>
    BY <1>8 DEF NewGet, store
  <2> QED
    BY <2>1, <2>2 DEF OnlyTouches, IInv, TypeOK
<1> QED
  BY <1>4, <1>5, <1>6, <1>7, <1>8 DEF Login

LEMMA OtherTouches ==
  ASSUME IInv, NEW p \in Procs, Logout(p) \/ Auth(p) \/ Save(p)
  PROVE  req[p].pc # "idle" /\ OnlyTouches(Account(req[p]))
<1> USE DEF UserPC, CopyPC, LogoutPC, AuthPC, SavePC
<1> DEFINE q == req[p]
           a == Account(req[p])
<1>1. q.pc \in LogoutPC \cup AuthPC \cup SavePC
  BY DEF Logout, LogoutGet, LogoutDeleteToken, LogoutDeleteActive,
         LogoutGetSession, LogoutDeleteSession, LogoutSaveSession,
         Auth, CheckToken, CheckActive, CheckTouch, LoadSession,
         Save, SaveGet, SaveSet, At
<1>2. /\ a \in Users
      /\ q.pc \in UserPC => q.user = a
      /\ q.pc \in LogoutPC \cup AuthPC => q.tok \in Tokens /\ owner[q.tok] = a
      /\ q.pc \in CopyPC => q.sess.loginId = a
  BY <1>1, AccountKnown, RequestFacts
<1> SUFFICES OnlyTouches(a)
  BY <1>1
<1> HIDE DEF a
<1>3. CASE LogoutDeleteToken(p) \/ LogoutDeleteActive(p) \/ CheckTouch(p)
  <2>1. /\ q.pc \in LogoutPC \cup AuthPC /\ UNCHANGED owner
        /\ DeleteToken(q.tok) \/ DeleteLastActive(q.tok) \/ Touch(q.tok)
    BY <1>3 DEF LogoutDeleteToken, LogoutDeleteActive, CheckTouch, At
  <2> QED
    BY <1>2, <2>1, TokenTouches
<1>4. CASE LogoutDeleteSession(p) \/ LogoutSaveSession(p) \/ SaveSet(p)
  <2>1. /\ q.pc \in UserPC /\ UNCHANGED owner
        /\ DeleteSession(q.user) \/ (q.pc \in CopyPC /\ SaveCopy(q.sess))
    BY <1>4 DEF LogoutDeleteSession, LogoutSaveSession, SaveSet, At
  <2> QED
    BY <1>2, <2>1, SessionTouches
<1>5. CASE UNCHANGED <<store, owner>>
  BY <1>5, ReadTouches
<1> QED
  BY <1>3, <1>4, <1>5
     DEF Logout, LogoutGet, LogoutGetSession, Auth, CheckToken, CheckActive,
         LoadSession, Save, SaveGet

\* A handler changes its own request only.
LEMMA OthersStay ==
  ASSUME TypeOK, NEW p \in Procs, Start(p) \/ Handle(p) \/ StoreFails(p),
         NEW o \in Procs, o # p
  PROVE  req'[o] = req[o]
<1>1. \A r : Goto(p, r) => req'[o] = req[o]
  BY DEF Goto, TypeOK
<1>2. \A r : Answered(p, r) => req'[o] = req[o]
  BY <1>1 DEF Answered
<1>3. CASE Start(p) \/ StoreFails(p)
  BY <1>1, <1>3 DEF Start, StartLogin, StartSave, StartLogout, StartAuth,
                    Anonymous, StoreFails
<1>4. CASE Login(p)
  BY <1>1, <1>2, <1>4
     DEF Login, ReplacedGet, ReplacedDeleteToken, ReplacedDeleteActive,
         ReplacedSave, ShareGet, RenewToken, RenewGet, RenewSave, RenewActive,
         NewGet, NewSave, NewToken, NewActive
<1>5. CASE Logout(p)
  BY <1>1, <1>2, <1>5
     DEF Logout, LogoutGet, LogoutDeleteToken, LogoutDeleteActive,
         LogoutGetSession, LogoutDeleteSession, LogoutSaveSession
<1>6. CASE Auth(p) \/ Save(p)
  BY <1>1, <1>2, <1>6
     DEF Auth, CheckToken, CheckActive, CheckTouch, LoadSession,
         Save, SaveGet, SaveSet
<1> QED
  BY <1>3, <1>4, <1>5, <1>6 DEF Handle

\* When requests run apart, each step of a handler is a turn of its.
LEMMA TurnTaken ==
  ASSUME IInv, Apart, NEW p \in Procs, Start(p) \/ Handle(p) \/ StoreFails(p)
  PROVE  Turn(p)
<1> DEFINE a == Account(req[p])
<1>1. ASSUME NEW o \in Procs \ {p}, req[o].pc # "idle", req[p].pc # "idle"
      PROVE  Account(req[o]) # a
  BY <1>1 DEF Apart
<1>2. TypeOK /\ \A o \in Procs \ {p} : req'[o] = req[o]
  BY OthersStay DEF IInv
<1>3. CASE Handle(p)
  <2>1. req[p].pc # "idle" /\ OnlyTouches(a)
    BY <1>3, LoginTouches, OtherTouches DEF Handle
  <2>2. ASSUME NEW o \in Procs \ {p}, req[o].pc # "idle"
        PROVE  Untouched(Account(req[o]))
    <3>1. a # Account(req[o]) /\ Account(req[o]) \in Users
      BY <1>1, <2>1, <2>2, AccountKnown
    <3> HIDE DEF a
    <3> QED
      BY <2>1, <3>1, NoneAssumption DEF OnlyTouches, Untouched
  <2> QED
    BY <1>1, <1>2, <2>1, <2>2 DEF Turn
<1>4. CASE Start(p) \/ StoreFails(p)
  <2>1. UNCHANGED <<store, owner>>
    BY <1>2, <1>4, StartEffects DEF StoreFails
  <2>2. \A u : OnlyTouches(u) /\ Untouched(u)
    BY <2>1, ReadTouches DEF store, Untouched
  <2> QED
    BY <1>1, <1>2, <2>1, <2>2 DEF Turn
<1> QED
  BY <1>3, <1>4

\* The requests run apart, and the invariant of every interleaving holds.
LEMMA ApartAlways == ApartSpec => [](IInv /\ Apart)
<1>1. Init => IInv /\ Apart
  BY InitInvariant DEF Init, NoRequest, Apart
<1>2. IInv /\ Apart /\ [Next /\ Apart']_vars => IInv' /\ Apart'
  BY StepInvariant DEF vars, Apart, Account
<1> QED
  BY <1>1, <1>2, PTL DEF ApartSpec

-----------------------------------------------------------------------------
(* Every accepted token is listed *)

\* What the other handlers know stays true.
LEMMA OthersKnow ==
  ASSUME IInv, NEW p \in Procs, Turn(p), NEW o \in Procs, o # p,
         KnowsList(req[o])
  PROVE  KnowsList(req[o])'
<1> USE DEF UserPC, OwnedPC, CopyPC, LoginPC, LogoutPC, AuthPC, SavePC,
            KickPC, DroppedPC
<1> DEFINE r == req[o]
           a == Account(req[o])
<1>1. req'[o] = r
  BY DEF Turn
<1>2. CASE r.pc = "idle"
  BY <1>1, <1>2 DEF KnowsList
<1>3. CASE r.pc # "idle"
  <2>1. Untouched(a)
    BY <1>3 DEF Turn
  <2>2. /\ a \in Users
        /\ r.pc \in UserPC => r.user = a
        /\ r.pc \in LogoutPC => r.tok \in Tokens /\ owner[r.tok] = a
        /\ r.pc \in CopyPC =>
             \A x \in r.sess.terms : x.token \in Tokens /\ owner[x.token] = a
        /\ \A x \in r.todo : x.token \in Tokens
        /\ \A x \in r.todo : owner[x.token] = r.user
    BY <1>3, AccountKnown, RequestFacts DEF IInv, RequestOK
  <2> HIDE DEF a
  <2>3. /\ session'[a] = session[a]
        /\ \A t \in Tokens : owner[t] = a => tokenMap'[t] = tokenMap[t]
    BY <2>1 DEF Untouched
  <2>4. CASE r.pc \in KickPC
    <3>1. r.sess = session[a] /\ r.user = a /\ r.todo \subseteq r.sess.terms
      BY <2>2, <2>4 DEF KnowsList
    <3>2. /\ \A x \in r.sess.terms \ r.todo : tokenMap'[x.token] = NONE
          /\ r.pc = "replDelAct" =>
               \A x \in r.todo : IsFirst(x, r.todo) => tokenMap'[x.token] = NONE
      BY <2>2, <2>3, <2>4, <3>1 DEF KnowsList
    <3> QED
      BY <1>1, <2>3, <2>4, <3>1, <3>2 DEF KnowsList
  <2>5. CASE r.pc \in LogoutPC
    BY <1>1, <2>2, <2>3, <2>5 DEF KnowsList
  <2>6. CASE r.pc \in {"renewTok", "newTok", "newSave", "renewSave", "saveSet"}
    BY <1>1, <2>2, <2>3, <2>6 DEF KnowsList
  <2>7. CASE r.pc \notin KickPC \cup LogoutPC
              \cup {"renewTok", "newTok", "newSave", "renewSave", "saveSet"}
    BY <1>1, <2>7 DEF KnowsList
  <2> QED
    BY <2>4, <2>5, <2>6, <2>7
<1> QED
  BY <1>2, <1>3

\* A turn that keeps the handler's own part of the invariant keeps it all.
LEMMA ListKept ==
  ASSUME IInv, ListInv, NEW p \in Procs, Turn(p), LiveTokenListed',
         KnowsList(req[p])'
  PROVE  ListInv'
BY OthersKnow DEF ListInv

\* Deleting token keys leaves the accepted tokens listed.
LEMMA FewerTokensListed ==
  ASSUME TypeOK, LiveTokenListed, UNCHANGED session,
         \A t \in Tokens : tokenMap'[t] \in {tokenMap[t], NONE}
  PROVE  LiveTokenListed'
BY DEF LiveTokenListed, Listed, TypeOK

\* A request that ended, or only read, holds no session.
LEMMA IdleKnows ==
  ASSUME NEW p \in Procs,
         req'[p].pc \in {"idle", "replGet", "shareGet", "renewGet", "renewAct",
                         "newGet", "newAct", "outGet", "outDelTok", "chkTok",
                         "chkAct", "chkTouch", "loadSess", "saveGet"}
  PROVE  KnowsList(req[p])'
BY DEF KnowsList, KickPC, DroppedPC

LEMMA KickLists ==
  ASSUME IInv, ListInv, NEW p \in Procs, Turn(p),
         \/ ReplacedGet(p) \/ ReplacedDeleteToken(p)
         \/ ReplacedDeleteActive(p) \/ ReplacedSave(p)
  PROVE  ListInv'
<1> USE DEF UserPC, CopyPC, LoginPC, KickPC, DroppedPC, AfterReplaced
<1> DEFINE q == req[p]
           n == req'[p]
<1>1. TypeOK /\ LiveTokenListed /\ KnowsList(q)
  BY DEF IInv, ListInv
<1>2. Fails(p) => KnowsList(q)'
  BY IdleKnows DEF Fails, Ends
<1>3. CASE ReplacedGet(p)
  <2>1. UNCHANGED <<tokenMap, session>>
    BY <1>3 DEF ReplacedGet, store
  <2>2. LiveTokenListed'
    BY <1>1, <2>1 DEF LiveTokenListed, Listed
  <2>3. KnowsList(q)'
    <3>1. CASE Goes(p, AfterReplaced, q.sess, q.todo)
      BY <3>1, IdleKnows DEF Goes
    <3>2. CASE /\ session[q.user] # NONE
               /\ Goes(p, IF session[q.user].terms = {} THEN "replSave"
                          ELSE "replDelTok",
                       session[q.user], session[q.user].terms)
      BY <2>1, <3>2 DEF Goes, KnowsList
    <3> QED
      BY <1>1, <1>3, <3>1, <3>2, KickEffects
  <2> QED
    BY <2>2, <2>3, ListKept
<1>4. CASE ReplacedDeleteToken(p)
  <2>1. PICK x \in q.todo :
          /\ IsFirst(x, q.todo) /\ DeleteToken(x.token)
          /\ Goes(p, "replDelAct", q.sess, q.todo) \/ Fails(p)
    BY <1>1, <1>4, KickEffects
  <2>2. q.pc = "replDelTok"
    BY <1>4 DEF ReplacedDeleteToken, At
  <2>3. /\ \A t \in Tokens : tokenMap'[t] \in {tokenMap[t], NONE}
        /\ tokenMap'[x.token] = NONE /\ UNCHANGED session
        /\ x.token \in Tokens
    BY <1>1, <2>1, RequestFacts DEF DeleteToken, TypeOK
  <2>4. LiveTokenListed'
    BY <1>1, <2>3, FewerTokensListed
  <2>5. ASSUME Goes(p, "replDelAct", q.sess, q.todo)
        PROVE  KnowsList(q)'
    <3>1. /\ q.todo \subseteq q.sess.terms /\ WellFormed(q.sess)
          /\ q.sess \in Session
          /\ \A y \in q.sess.terms : y.token \in Tokens
      BY <1>1, <2>2, RequestFacts DEF KnowsList
    <3>2. \A y \in q.todo : IsFirst(y, q.todo) => y = x
      BY <2>1, <3>1 DEF IsFirst, WellFormed, Session, Terminal
    <3> QED
      BY <1>1, <2>2, <2>3, <2>5, <3>1, <3>2 DEF KnowsList, Goes
  <2> QED
    BY <1>2, <2>1, <2>4, <2>5, ListKept
<1>5. CASE ReplacedDeleteActive(p)
  <2>1. PICK x \in q.todo :
          /\ IsFirst(x, q.todo)
          /\ \/ Goes(p, IF q.todo = {x} THEN "replSave" ELSE "replDelTok",
                     q.sess, q.todo \ {x})
             \/ Fails(p)
    BY <1>1, <1>5, KickEffects
  <2>2. q.pc = "replDelAct" /\ UNCHANGED <<tokenMap, session>>
    BY <1>5 DEF ReplacedDeleteActive, At, DeleteLastActive
  <2>3. LiveTokenListed'
    BY <1>1, <2>2 DEF LiveTokenListed, Listed
  <2>4. ASSUME Goes(p, IF q.todo = {x} THEN "replSave" ELSE "replDelTok",
                    q.sess, q.todo \ {x})
        PROVE  KnowsList(q)'
    BY <1>1, <2>1, <2>2, <2>4 DEF KnowsList, Goes
  <2> QED
    BY <1>2, <2>1, <2>3, <2>4, ListKept
<1>6. CASE ReplacedSave(p)
  <2>1. q.pc = "replSave" /\ q.user \in Users /\ q.sess.loginId = q.user
        /\ q.sess \in Session /\ q.sess # NONE
    BY <1>6, RequestFacts DEF ReplacedSave, At
  <2>2. /\ UNCHANGED tokenMap
        /\ session' = [session EXCEPT ![q.user] = [q.sess EXCEPT !.terms = {}]]
    BY <1>6, <2>1 DEF ReplacedSave, SaveCopy, Session
  <2>3. \A t \in Tokens : tokenMap[t] # q.user
    <3>1. \A x \in session[q.user].terms : tokenMap[x.token] = NONE
      BY <1>1, <2>1 DEF KnowsList
    <3> QED
      BY <1>1, <2>1, <3>1, NoneAssumption DEF LiveTokenListed, Listed
  <2>4. LiveTokenListed'
    BY <1>1, <2>1, <2>2, <2>3 DEF LiveTokenListed, Listed, TypeOK
  <2>5. KnowsList(q)'
    BY <1>1, <1>2, <1>6, IdleKnows, KickEffects DEF Goes
  <2> QED
    BY <2>4, <2>5, ListKept
<1> QED
  BY <1>3, <1>4, <1>5, <1>6

LEMMA LoginLists ==
  ASSUME IInv, ListInv, NEW p \in Procs, Turn(p),
         \/ ShareGet(p) \/ RenewToken(p) \/ RenewGet(p) \/ RenewSave(p)
         \/ RenewActive(p)
         \/ NewGet(p) \/ NewSave(p) \/ NewToken(p) \/ NewActive(p)
  PROVE  ListInv'
<1> USE DEF UserPC, OwnedPC, CopyPC, LoginPC, KickPC, DroppedPC
<1> DEFINE q == req[p]
<1>1. TypeOK /\ LiveTokenListed /\ KnowsList(q)
  BY DEF IInv, ListInv
<1>2. Fails(p) \/ Ends(p, "ok") => KnowsList(q)'
  BY IdleKnows DEF Fails, Ends
<1>3. UNCHANGED <<tokenMap, session>> => LiveTokenListed'
  BY <1>1 DEF LiveTokenListed, Listed
<1>4. CASE ShareGet(p)
  <2>1. UNCHANGED <<tokenMap, session>>
    BY <1>4 DEF ShareGet, store
  <2>2. KnowsList(q)'
    BY <1>1, <1>4, <2>1, LoginEffects DEF Goes, KnowsList
  <2> QED
    BY <1>3, <2>1, <2>2, ListKept
<1>5. CASE RenewToken(p) \/ NewToken(p)
  <2>1. /\ q.pc \in {"renewTok", "newTok"} /\ SetToken(q.tok, q.user)
        /\ q.user \in Users /\ q.tok \in Tokens
    BY <1>5, RequestFacts DEF RenewToken, NewToken, At
  <2>2. LiveTokenListed'
    BY <1>1, <2>1
       DEF LiveTokenListed, Listed, Lists, KnowsList, SetToken, TypeOK
  <2>3. KnowsList(q)'
    BY <1>1, <1>2, <1>5, IdleKnows, LoginEffects DEF Goes
  <2> QED
    BY <2>2, <2>3, ListKept
<1>6. CASE RenewGet(p)
  <2>1. UNCHANGED <<tokenMap, session>>
    BY <1>6 DEF RenewGet, store
  <2>2. KnowsList(q)'
    BY <1>1, <1>2, <1>6, <2>1, LoginEffects DEF Goes, KnowsList
  <2> QED
    BY <1>3, <2>1, <2>2, ListKept
<1>7. CASE RenewSave(p)
  <2>1. /\ q.pc = "renewSave" /\ q.user \in Users /\ q.sess.loginId = q.user
        /\ q.sess = session[q.user] /\ SaveCopy(q.sess)
    BY <1>1, <1>7, RequestFacts DEF RenewSave, At, KnowsList
  <2>2. UNCHANGED <<tokenMap, session>>
    BY <1>1, <2>1 DEF SaveCopy, TypeOK
  <2>3. KnowsList(q)'
    BY <1>1, <1>2, <1>7, IdleKnows, LoginEffects DEF Goes
  <2> QED
    BY <1>3, <2>2, <2>3, ListKept
<1>8. CASE RenewActive(p) \/ NewActive(p)
  <2>1. UNCHANGED <<tokenMap, session>>
    BY <1>8 DEF RenewActive, NewActive, Touch
  <2>2. KnowsList(q)'
    BY <1>1, <1>2, <1>8, LoginEffects
  <2> QED
    BY <1>3, <2>1, <2>2, ListKept
<1>9. CASE NewGet(p)
  <2>1. UNCHANGED <<tokenMap, session>>
    BY <1>9 DEF NewGet, store
  <2>2. KnowsList(q)'
    BY <1>9, <2>1, NewGetEffect DEF KnowsList
  <2> QED
    BY <1>3, <2>1, <2>2, ListKept
<1>10. CASE NewSave(p)
  <2>1. /\ q.pc = "newSave" /\ q.user \in Users /\ q.sess.loginId = q.user
        /\ q.sess # NONE /\ SaveCopy(q.sess)
    BY <1>10, RequestFacts DEF NewSave, At
  <2>2. UNCHANGED tokenMap /\ session' = [session EXCEPT ![q.user] = q.sess]
    BY <2>1 DEF SaveCopy
  <2>3. LiveTokenListed'
    BY <1>1, <2>1, <2>2 DEF LiveTokenListed, Listed, Lists, KnowsList, TypeOK
  <2>4. Goes(p, "newTok", NONE, q.todo) => KnowsList(q)'
    BY <1>1, <2>1, <2>2 DEF Goes, KnowsList, TypeOK
  <2> QED
    BY <1>1, <1>2, <1>10, <2>3, <2>4, LoginEffects, ListKept
<1> QED
  BY <1>4, <1>5, <1>6, <1>7, <1>8, <1>9, <1>10

LEMMA LogoutLists ==
  ASSUME IInv, ListInv, NEW p \in Procs, Turn(p), Logout(p)
  PROVE  ListInv'
<1> USE DEF UserPC, CopyPC, LogoutPC, KickPC, DroppedPC
<1> DEFINE q == req[p]
<1>1. TypeOK /\ LiveTokenListed /\ KnowsList(q)
  BY DEF IInv, ListInv
<1>2. Fails(p) \/ Done(p) => KnowsList(q)'
  BY IdleKnows DEF Fails, Done, Ends
<1>3. UNCHANGED <<tokenMap, session>> => LiveTokenListed'
  BY <1>1 DEF LiveTokenListed, Listed
<1>4. CASE LogoutGet(p)
  <2>1. UNCHANGED <<tokenMap, session>>
    BY <1>4 DEF LogoutGet, store
  <2>2. KnowsList(q)'
    BY <1>1, <1>4, IdleKnows, LogoutEffects DEF GoesAs
  <2> QED
    BY <1>3, <2>1, <2>2, ListKept
<1>5. CASE LogoutDeleteToken(p)
  <2>1. q.pc = "outDelTok" /\ q.tok \in Tokens /\ DeleteToken(q.tok)
    BY <1>5, RequestFacts DEF LogoutDeleteToken, At
  <2>2. /\ \A t \in Tokens : tokenMap'[t] \in {tokenMap[t], NONE}
        /\ tokenMap'[q.tok] = NONE /\ UNCHANGED session
    BY <1>1, <2>1 DEF DeleteToken, TypeOK
  <2>3. LiveTokenListed'
    BY <1>1, <2>2, FewerTokensListed
  <2>4. KnowsList(q)'
    BY <1>1, <1>2, <1>5, <2>2, LogoutEffects DEF Goes, KnowsList
  <2> QED
    BY <2>3, <2>4, ListKept
<1>6. CASE LogoutDeleteActive(p) \/ LogoutGetSession(p)
  <2>1. /\ q.pc \in DroppedPC /\ UNCHANGED <<tokenMap, session>>
    BY <1>6 DEF LogoutDeleteActive, LogoutGetSession, At, DeleteLastActive, store
  <2>2. KnowsList(q)'
    BY <1>1, <1>2, <1>6, <2>1, LogoutEffects DEF Goes, KnowsList
  <2> QED
    BY <1>3, <2>1, <2>2, ListKept
<1>7. CASE LogoutDeleteSession(p)
  <2>1. q.pc = "outSessDel" /\ q.user \in Users /\ DeleteSession(q.user)
    BY <1>7, RequestFacts DEF LogoutDeleteSession, At
  <2>2. \A t \in Tokens : tokenMap[t] # q.user
    <3>1. \A x \in session[q.user].terms : x.token = q.tok
      BY <1>1, <2>1 DEF KnowsList, RemoveTerminal, TypeOK, Session
    <3>2. tokenMap[q.tok] = NONE
      BY <1>1, <2>1 DEF KnowsList
    <3> QED
      BY <1>1, <2>1, <3>1, <3>2, NoneAssumption DEF LiveTokenListed, Listed
  <2>3. LiveTokenListed'
    BY <1>1, <2>1, <2>2 DEF LiveTokenListed, Listed, DeleteSession, TypeOK
  <2> QED
    BY <1>1, <1>2, <1>7, <2>3, LogoutEffects, ListKept
<1>8. CASE LogoutSaveSession(p)
  <2>1. /\ q.pc = "outSessSave" /\ q.user \in Users /\ q.sess.loginId = q.user
        /\ q.sess # NONE /\ SaveCopy(q.sess)
    BY <1>8, RequestFacts DEF LogoutSaveSession, At
  <2>2. UNCHANGED tokenMap /\ session' = [session EXCEPT ![q.user] = q.sess]
    BY <2>1 DEF SaveCopy
  <2>3. \A x \in session[q.user].terms : x.token # q.tok => x \in q.sess.terms
    BY <1>1, <2>1 DEF KnowsList, RemoveTerminal, TypeOK, Session
  <2>4. tokenMap[q.tok] = NONE
    BY <1>1, <2>1 DEF KnowsList
  <2>5. LiveTokenListed'
    BY <1>1, <2>1, <2>2, <2>3, <2>4 DEF LiveTokenListed, Listed, TypeOK
  <2> QED
    BY <1>1, <1>2, <1>8, <2>5, LogoutEffects, ListKept
<1> QED
  BY <1>4, <1>5, <1>6, <1>7, <1>8 DEF Logout

LEMMA AuthSaveLists ==
  ASSUME IInv, ListInv, NEW p \in Procs, Turn(p), Auth(p) \/ Save(p)
  PROVE  ListInv'
<1> USE DEF UserPC, CopyPC, SavePC, KickPC, DroppedPC
<1> DEFINE q == req[p]
<1>1. TypeOK /\ LiveTokenListed /\ KnowsList(q)
  BY DEF IInv, ListInv
<1>2. UNCHANGED <<tokenMap, session>> => LiveTokenListed'
  BY <1>1 DEF LiveTokenListed, Listed
<1>3. CASE Auth(p)
  <2>1. UNCHANGED <<tokenMap, session>>
    BY <1>3 DEF Auth, CheckToken, CheckActive, CheckTouch, LoadSession, Touch, store
  <2>2. KnowsList(q)'
    BY <1>1, <1>3, IdleKnows, AuthEffects DEF Auth, GoesAs, Goes, Ends, Fails
  <2> QED
    BY <1>2, <2>1, <2>2, ListKept
<1>4. CASE SaveGet(p)
  <2>1. q.pc = "saveGet" /\ q.user \in Users /\ UNCHANGED <<tokenMap, session>>
    BY <1>4, RequestFacts DEF SaveGet, At, store
  <2>2. CASE Ends(p, "none")
    BY <1>2, <2>1, <2>2, IdleKnows, ListKept DEF Ends
  <2>3. CASE /\ session[q.user] # NONE
             /\ Goes(p, "saveSet", [session[q.user] EXCEPT !.data = saves + 1],
                     q.todo)
    <3>1. [session[q.user] EXCEPT !.data = saves + 1].terms = session[q.user].terms
      BY <1>1, <2>1, <2>3 DEF TypeOK, Session
    <3>2. KnowsList(q)'
      BY <2>1, <2>3, <3>1 DEF Goes, KnowsList
    <3> QED
      BY <1>2, <2>1, <3>2, ListKept
  <2> QED
    BY <1>1, <1>4, <2>2, <2>3, SaveEffects
<1>5. CASE SaveSet(p)
  <2>1. /\ q.pc = "saveSet" /\ q.user \in Users /\ q.sess.loginId = q.user
        /\ q.sess # NONE /\ SaveCopy(q.sess)
        /\ q.sess.terms = session[q.user].terms
    BY <1>1, <1>5, RequestFacts DEF SaveSet, At, KnowsList
  <2>2. LiveTokenListed'
    BY <1>1, <2>1 DEF LiveTokenListed, Listed, SaveCopy, TypeOK
  <2>3. KnowsList(q)'
    BY <1>1, <1>5, IdleKnows, SaveEffects DEF Ends, Fails
  <2> QED
    BY <2>2, <2>3, ListKept
<1> QED
  BY <1>3, <1>4, <1>5 DEF Save

LEMMA ListStep ==
  ASSUME Apart, Expiring = FALSE, IInv, ListInv, [Next]_vars
  PROVE  ListInv'
<1>1. TypeOK /\ LiveTokenListed
  BY DEF IInv, ListInv
<1>2. CASE UNCHANGED vars
  BY <1>2 DEF vars, ListInv, LiveTokenListed, Listed, KnowsList
<1>3. ASSUME NEW p \in Procs, Start(p)
      PROVE  ListInv'
  <2>1. KnowsList(req[p])'
    BY <1>1, <1>3, IdleKnows, StartEffects DEF Begins, AfterReplaced
  <2>2. LiveTokenListed'
    BY <1>1, <1>3, StartEffects DEF store, LiveTokenListed, Listed
  <2> QED
    BY <1>3, <2>1, <2>2, ListKept, TurnTaken
<1>4. ASSUME NEW p \in Procs, Handle(p)
      PROVE  ListInv'
  <2>1. Turn(p)
    BY <1>4, TurnTaken
  <2> QED
    BY <1>4, <2>1, KickLists, LoginLists, LogoutLists, AuthSaveLists
       DEF Handle, Login
<1>5. ASSUME NEW p \in Procs, StoreFails(p)
      PROVE  ListInv'
  <2>1. Ends(p, "503") /\ UNCHANGED <<tokenMap, session>>
    BY <1>1, <1>5, EndsNow DEF StoreFails, store
  <2>2. KnowsList(req[p])' /\ LiveTokenListed'
    BY <1>1, <2>1, IdleKnows DEF Ends, LiveTokenListed, Listed
  <2> QED
    BY <1>5, <2>2, ListKept, TurnTaken
<1>6. ASSUME NEW t \in Tokens, GoIdle(t)
      PROVE  ListInv'
  BY <1>6 DEF GoIdle, ListInv, LiveTokenListed, Listed, KnowsList
<1> QED
  BY <1>2, <1>3, <1>4, <1>5, <1>6 DEF Next, Step, Expire

LEMMA ListInit == Init => ListInv
BY DEF Init, NoRequest, ListInv, LiveTokenListed, KnowsList, KickPC, DroppedPC

LEMMA ListAlways ==
  ASSUME Expiring = FALSE
  PROVE  ApartSpec => [](IInv /\ Apart /\ ListInv)
<1>1. IInv /\ Apart /\ ListInv /\ [Next /\ Apart']_vars => ListInv'
  BY ListStep
<1> QED
  BY <1>1, ListInit, ApartAlways, PTL DEF ApartSpec

\* When the requests of an account come one after another every accepted token
\* is listed in its account's session, whatever calls of the store fail: see
\* LiveTokenListed.
THEOREM LiveTokensListed ==
  ASSUME Expiring = FALSE
  PROVE  ApartSpec => []LiveTokenListed
<1>1. ListInv => LiveTokenListed
  BY DEF ListInv
<1> QED
  BY <1>1, ListAlways, PTL

-----------------------------------------------------------------------------
(* A login that kicks leaves one accepted token *)

\* What other logins rely on stays true.
LEMMA OthersKicked ==
  ASSUME IInv, NEW p \in Procs, Turn(p), NEW o \in Procs, o # p,
         Kicked(req[o])
  PROVE  Kicked(req[o])'
<1> USE DEF UserPC, LoginPC
<1> DEFINE r == req[o]
           a == Account(req[o])
<1>1. req'[o] = r
  BY DEF Turn
<1>2. CASE r.pc \in {"shareGet", "newGet", "newSave", "newTok"}
  <2>1. Untouched(a) /\ r.user = a
    BY <1>2, AccountKnown DEF Turn
  <2> HIDE DEF a
  <2>2. session'[a] = session[a]
        /\ \A t \in Tokens : tokenMap'[t] = a => tokenMap[t] = a
    BY <2>1 DEF Untouched
  <2> QED
    BY <1>1, <1>2, <2>1, <2>2 DEF Kicked
<1>3. CASE r.pc \notin {"shareGet", "newGet", "newSave", "newTok"}
  BY <1>1, <1>3 DEF Kicked
<1> QED
  BY <1>2, <1>3

\* Steps that begin no new phase of a login and delete token keys at most.
LEMMA QuietKicks ==
  ASSUME IInv, KickInv, NEW p \in Procs, Turn(p),
         \A t \in Tokens : tokenMap'[t] \in {tokenMap[t], NONE},
         req'[p].pc \notin {"shareGet", "newGet", "newSave", "newTok",
                            "renewTok", "renewGet", "renewSave", "renewAct"}
  PROVE  KickInv'
<1>1. AtMostOneLive'
  BY DEF KickInv, AtMostOneLive, IInv, TypeOK
<1>2. Kicked(req[p])'
  BY DEF Kicked
<1> QED
  BY <1>1, <1>2, OthersKicked DEF KickInv

LEMMA LoginKicks ==
  ASSUME IsConcurrent = FALSE, IInv, ListInv, ListInv', KickInv,
         NEW p \in Procs, Turn(p), Login(p)
  PROVE  KickInv'
<1> USE DEF UserPC, OwnedPC, CopyPC, LoginPC, AfterReplaced
<1> DEFINE q == req[p]
           n == req'[p]
<1>1. TypeOK /\ AtMostOneLive /\ Kicked(q)
  BY DEF IInv, KickInv
<1>2. AtMostOneLive' /\ Kicked(q)' => KickInv'
  BY OthersKicked DEF KickInv
<1>3. UNCHANGED tokenMap => AtMostOneLive'
  BY <1>1 DEF AtMostOneLive
<1>4. UNCHANGED tokenMap => \A t \in Tokens : tokenMap'[t] \in {tokenMap[t], NONE}
  OBVIOUS
<1>5. Fails(p) \/ Ends(p, "ok") => n.pc = "idle"
  BY DEF Fails, Ends
<1>6. ASSUME NEW u \in Users, session'[u] = NONE \/ session'[u].terms = {}
      PROVE  \A t \in Tokens : tokenMap'[t] # u
  BY <1>6, NoneAssumption DEF ListInv, LiveTokenListed, Listed
<1>7. CASE ReplacedGet(p)
  <2>1. q.user \in Users /\ UNCHANGED <<tokenMap, session>>
    BY <1>7, RequestFacts DEF ReplacedGet, At, store
  <2>2. CASE session[q.user] = NONE /\ Goes(p, AfterReplaced, q.sess, q.todo)
    <3>1. Kicked(q)'
      BY <1>6, <2>1, <2>2 DEF Goes, Kicked
    <3> QED
      BY <1>2, <1>3, <2>1, <3>1
  <2>3. CASE Goes(p, IF session[q.user].terms = {} THEN "replSave"
                     ELSE "replDelTok",
                  session[q.user], session[q.user].terms)
    BY <1>1, <1>4, <2>1, <2>3, QuietKicks DEF Goes
  <2> QED
    BY <1>1, <1>7, <2>2, <2>3, KickEffects
<1>8. CASE ReplacedDeleteToken(p)
  <2>1. PICK x \in q.todo :
          DeleteToken(x.token) /\ (Goes(p, "replDelAct", q.sess, q.todo) \/ Fails(p))
    BY <1>1, <1>8, KickEffects
  <2>2. \A t \in Tokens : tokenMap'[t] \in {tokenMap[t], NONE}
    BY <1>1, <2>1 DEF DeleteToken, TypeOK
  <2> QED
    BY <1>1, <1>5, <2>1, <2>2, QuietKicks DEF Goes
<1>9. CASE ReplacedDeleteActive(p)
  <2>1. UNCHANGED tokenMap
    BY <1>9 DEF ReplacedDeleteActive, DeleteLastActive
  <2>2. n.pc \in {"replSave", "replDelTok", "idle"}
    BY <1>1, <1>5, <1>9, KickEffects DEF Goes
  <2> QED
    BY <1>1, <1>4, <2>1, <2>2, QuietKicks
<1>10. CASE ReplacedSave(p)
  <2>1. q.user \in Users /\ q.sess.loginId = q.user /\ q.sess \in Session
    BY <1>10, RequestFacts DEF ReplacedSave, At
  <2>2. /\ UNCHANGED tokenMap
        /\ session' = [session EXCEPT ![q.user] = [q.sess EXCEPT !.terms = {}]]
    BY <1>10, <2>1 DEF ReplacedSave, SaveCopy, Session
  <2>3. session'[q.user].terms = {}
    BY <1>1, <2>1, <2>2 DEF TypeOK, Session
  <2>4. CASE Goes(p, AfterReplaced, NONE, q.todo)
    <3>1. Kicked(q)'
      BY <1>6, <2>1, <2>3, <2>4 DEF Goes, Kicked
    <3> QED
      BY <1>2, <1>3, <2>2, <3>1
  <2>5. CASE Fails(p)
    BY <1>1, <1>4, <1>5, <2>2, <2>5, QuietKicks
  <2> QED
    BY <1>1, <1>10, <2>4, <2>5, KickEffects
<1>11. CASE ShareGet(p)
  <2>1. q.pc = "shareGet" /\ UNCHANGED <<tokenMap, session>>
    BY <1>11 DEF ShareGet, At, store
  <2>2. session[q.user] = NONE \/ session[q.user].terms = {}
    BY <1>1, <2>1 DEF Kicked
  <2>3. Goes(p, "newGet", q.sess, q.todo)
    BY <1>1, <1>11, <2>2, LoginEffects DEF Lists
  <2>4. Kicked(q)'
    BY <1>1, <2>1, <2>3 DEF Goes, Kicked
  <2> QED
    BY <1>2, <1>3, <2>1, <2>4
<1>12. CASE RenewToken(p) \/ RenewGet(p) \/ RenewSave(p) \/ RenewActive(p)
  BY <1>1, <1>12 DEF RenewToken, RenewGet, RenewSave, RenewActive, At, Kicked
<1>13. CASE NewGet(p)
  <2>1. UNCHANGED tokenMap
    BY <1>13 DEF NewGet, store
  <2>2. Kicked(q)'
    BY <1>1, <1>13, <2>1, NewGetEffect DEF Kicked
  <2> QED
    BY <1>2, <1>3, <2>1, <2>2
<1>14. CASE NewSave(p)
  <2>1. q.pc = "newSave" /\ UNCHANGED tokenMap
    BY <1>14 DEF NewSave, At, SaveCopy
  <2>2. CASE Goes(p, "newTok", NONE, q.todo)
    <3>1. Kicked(q)'
      BY <1>1, <2>1, <2>2 DEF Goes, Kicked
    <3> QED
      BY <1>2, <1>3, <2>1, <3>1
  <2>3. CASE Fails(p)
    BY <1>1, <1>4, <1>5, <2>1, <2>3, QuietKicks
  <2> QED
    BY <1>1, <1>14, <2>2, <2>3, LoginEffects
<1>15. CASE NewToken(p)
  <2>1. /\ q.pc = "newTok" /\ SetToken(q.tok, q.user)
        /\ q.user \in Users /\ q.tok \in Tokens
        /\ \A t \in Tokens : tokenMap[t] # q.user
    BY <1>1, <1>15, RequestFacts DEF NewToken, At, Kicked
  <2>2. AtMostOneLive'
    BY <1>1, <2>1 DEF AtMostOneLive, SetToken, TypeOK
  <2>3. n.pc \in {"newAct", "idle"}
    BY <1>1, <1>5, <1>15, LoginEffects DEF Goes
  <2>4. Kicked(q)'
    BY <2>3 DEF Kicked
  <2> QED
    BY <1>2, <2>2, <2>4
<1>16. CASE NewActive(p)
  BY <1>1, <1>4, <1>5, <1>16, LoginEffects, QuietKicks DEF NewActive, Touch
<1> QED
  BY <1>7, <1>8, <1>9, <1>10, <1>11, <1>12, <1>13, <1>14, <1>15, <1>16 DEF Login

LEMMA OtherKicks ==
  ASSUME IInv, KickInv, NEW p \in Procs, Turn(p),
         Logout(p) \/ Auth(p) \/ Save(p)
  PROVE  KickInv'
<1> USE DEF LogoutPC
<1> DEFINE n == req'[p]
<1>1. TypeOK
  BY DEF IInv
<1>2. \A t \in Tokens : tokenMap'[t] \in {tokenMap[t], NONE}
  <2>1. CASE LogoutDeleteToken(p)
    BY <1>1, <2>1, RequestFacts DEF LogoutDeleteToken, At, DeleteToken, TypeOK
  <2>2. CASE UNCHANGED tokenMap
    BY <2>2
  <2> QED
    BY <2>1, <2>2
       DEF Logout, LogoutGet, LogoutDeleteActive, LogoutGetSession,
           LogoutDeleteSession, LogoutSaveSession, DeleteLastActive,
           DeleteSession, SaveCopy, Auth, CheckToken, CheckActive, CheckTouch,
           LoadSession, Touch, Save, SaveGet, SaveSet, store
<1>3. CASE Logout(p)
  BY <1>1, <1>2, <1>3, LogoutEffects, QuietKicks
     DEF Logout, GoesAs, Goes, Done, Ends, Fails
<1>4. CASE Auth(p)
  BY <1>1, <1>2, <1>4, AuthEffects, QuietKicks DEF Auth, GoesAs, Goes, Ends, Fails
<1>5. CASE Save(p)
  BY <1>1, <1>2, <1>5, SaveEffects, QuietKicks DEF Save, Goes, Ends, Fails
<1> QED
  BY <1>3, <1>4, <1>5

LEMMA KickStep ==
  ASSUME Apart, Expiring = FALSE, IsConcurrent = FALSE,
         IInv, ListInv, ListInv', KickInv, [Next]_vars
  PROVE  KickInv'
<1>1. TypeOK
  BY DEF IInv
<1>2. CASE UNCHANGED vars
  BY <1>2 DEF vars, KickInv, AtMostOneLive, Kicked
<1>3. ASSUME NEW p \in Procs, Start(p)
      PROVE  KickInv'
  <2>1. req'[p].pc \notin {"newGet", "newSave", "newTok", "renewTok", "renewGet",
                          "renewSave", "renewAct", "shareGet"}
        /\ UNCHANGED tokenMap
    BY <1>1, <1>3, StartEffects DEF Begins, store
  <2> QED
    BY <1>3, <2>1, TurnTaken, QuietKicks
<1>4. ASSUME NEW p \in Procs, Handle(p)
      PROVE  KickInv'
  <2>1. Turn(p)
    BY <1>4, TurnTaken
  <2> QED
    BY <1>4, <2>1, LoginKicks, OtherKicks DEF Handle
<1>5. ASSUME NEW p \in Procs, StoreFails(p)
      PROVE  KickInv'
  <2>1. req'[p].pc = "idle" /\ UNCHANGED tokenMap
    BY <1>1, <1>5, EndsNow DEF StoreFails, Ends, store
  <2> QED
    BY <1>5, <2>1, TurnTaken, QuietKicks
<1>6. ASSUME NEW t \in Tokens, GoIdle(t)
      PROVE  KickInv'
  BY <1>6 DEF GoIdle, KickInv, AtMostOneLive, Kicked
<1> QED
  BY <1>2, <1>3, <1>4, <1>5, <1>6 DEF Next, Step, Expire

LEMMA KickInit == Init => KickInv
BY DEF Init, NoRequest, KickInv, AtMostOneLive, Kicked

\* With IsConcurrent = FALSE, when the requests of an account come one after
\* another, it has at most one accepted token, whatever calls of the store
\* fail: see AtMostOneLive.
THEOREM OneLiveToken ==
  ASSUME Expiring = FALSE, IsConcurrent = FALSE
  PROVE  ApartSpec => []AtMostOneLive
<1>1. /\ IInv /\ Apart /\ ListInv /\ ListInv' /\ KickInv
         /\ [Next /\ Apart']_vars => KickInv'
      /\ KickInv => AtMostOneLive
  BY KickStep DEF KickInv
<1> QED
  BY <1>1, KickInit, ListAlways, PTL DEF ApartSpec

-----------------------------------------------------------------------------
(* What overlapping requests may roll back *)

\* One handler moves, and the history of overlap follows.
Alone(p) == Watch /\ \A o \in Procs \ {p} : req'[o] = req[o]

\* Business data is rolled back by handlers that were overtaken, if at all.
OvertakenRollBack ==
  \A u \in Users :
    session[u] # NONE /\ session'[u] # NONE /\ session'[u].data < session[u].data
    => \E p \in behind : req'[p] # req[p]

NoneNewer == \A u \in Users : session'[u] # NONE => session'[u].data =< saves'

\* What handler p may write back after its step.
CopyFresh(p) ==
  req[p].pc \in CopyPC =>
    /\ req[p].sess.data =< saves
    /\ \/ p \in behind
       \/ session[req[p].user] # NONE =>
            req[p].sess.data >= session[req[p].user].data

\* A copy that is not the newest belongs to a handler that was overtaken.
BehindInv ==
  /\ \A u \in Users : session[u] # NONE => session[u].data =< saves
  /\ \A p \in Procs : CopyFresh(p)

\* A step that writes no session, or removes one.
LEMMA SessionsStay ==
  ASSUME TypeOK, BehindInv, saves' \in Nat, saves' >= saves,
         \A u \in Users : session'[u] \in {session[u], NONE}
  PROVE  NoneNewer /\ OvertakenRollBack
BY DEF TypeOK, BehindInv, OvertakenRollBack, NoneNewer, Session

\* A step that writes the handler's copy, its terminals changed or not.
LEMMA CopyWritten ==
  ASSUME IInv, BehindInv, NEW p \in Procs, req[p].pc \in CopyPC,
         NEW s \in Session, s.data = req[p].sess.data,
         session' = [session EXCEPT ![req[p].user] = s], UNCHANGED saves,
         req'[p].pc \notin CopyPC
  PROVE  NoneNewer /\ OvertakenRollBack
<1>1. req[p].user \in Users /\ TypeOK /\ req'[p] # req[p]
  BY RequestFacts DEF IInv
<1>2. CopyFresh(p)
  BY DEF BehindInv
<1>3. NoneNewer
  BY <1>1, <1>2 DEF TypeOK, BehindInv, CopyFresh, NoneNewer, Session
<1>4. ASSUME NEW u \in Users, session[u] # NONE, session'[u] # NONE,
             session'[u].data < session[u].data
      PROVE  p \in behind
  <2>1. u = req[p].user
    BY <1>1, <1>4 DEF TypeOK, Session
  <2>2. session'[u].data = req[p].sess.data
    BY <1>1, <2>1 DEF TypeOK
  <2>3. /\ session[u].data \in Nat /\ session'[u].data \in Nat
        /\ ~ (session'[u].data >= session[u].data)
    BY <1>1, <1>4, <2>1 DEF TypeOK, Session
  <2> QED
    BY <1>2, <1>4, <2>1, <2>2, <2>3 DEF CopyFresh
<1> QED
  BY <1>1, <1>3, <1>4 DEF OvertakenRollBack

\* Where something newer is stored, every running handler falls behind; where
\* nothing is, the copies of the others stay as fresh as they were.
LEMMA DataKept ==
  ASSUME IInv, IInv', BehindInv, NEW p \in Procs, Alone(p),
         saves' >= saves, NoneNewer, OvertakenRollBack, CopyFresh(p)'
  PROVE  BehindInv' /\ OvertakenRollBack
<1>1. ASSUME NEW o \in Procs, o # p, req'[o].pc \in CopyPC
      PROVE  CopyFresh(o)'
  <2>1. req'[o] = req[o] /\ TypeOK /\ TypeOK'
    BY <1>1 DEF Alone, IInv
  <2>2. o \in Running /\ o \in Running'
    BY <1>1, <2>1 DEF Running, CopyPC
  <2>3. req[o].user \in Users /\ req[o].sess \in Session
    BY <1>1, <2>1, RequestFacts
  <2>4. /\ req[o].sess.data \in Nat /\ saves \in Nat /\ saves' \in Nat
        /\ session[req[o].user] # NONE => session[req[o].user].data \in Nat
        /\ session'[req[o].user] # NONE => session'[req[o].user].data \in Nat
    BY <2>1, <2>3 DEF Session, TypeOK
  <2>5. CopyFresh(o)
    BY DEF BehindInv
  <2>6. req'[o].sess.data =< saves'
    BY <1>1, <2>1, <2>4, <2>5 DEF CopyFresh
  <2>7. CASE StoresNewer \/ o \in behind
    <3>1. o \in behind'
      BY <2>2, <2>7 DEF Alone, Watch
    <3> QED
      BY <2>6, <3>1 DEF CopyFresh
  <2>8. CASE ~ StoresNewer /\ o \notin behind
    <3>1. session'[req[o].user] # NONE =>
            session'[req[o].user].data =< Version(session[req[o].user])
      BY <2>3, <2>4, <2>8 DEF StoresNewer, Version
    <3>2. session[req[o].user] # NONE =>
            req[o].sess.data >= session[req[o].user].data
      BY <1>1, <2>1, <2>5, <2>8 DEF CopyFresh
    <3>3. session'[req[o].user] # NONE =>
            req[o].sess.data >= session'[req[o].user].data
      BY <2>4, <3>1, <3>2 DEF Version
    <3> QED
      BY <2>1, <2>6, <3>3 DEF CopyFresh
  <2> QED
    BY <2>7, <2>8
<1>2. \A o \in Procs : CopyFresh(o)'
  BY <1>1 DEF CopyFresh
<1> QED
  BY <1>2 DEF BehindInv, NoneNewer

LEMMA SavesStay ==
  ASSUME IInv, UNCHANGED saves PROVE saves' \in Nat /\ saves' >= saves
BY DEF IInv, TypeOK

\* The handler reads: no session is written, and its new copy is not older.
LEMMA DataRead ==
  ASSUME IInv, IInv', BehindInv, NEW p \in Procs, Alone(p),
         UNCHANGED <<session, saves>>,
         req'[p].pc \in CopyPC =>
           \/ req'[p].sess = req[p].sess /\ req'[p].user = req[p].user
              /\ req[p].pc \in CopyPC
           \/ /\ req'[p].sess.data =< saves
              /\ session[req'[p].user] # NONE =>
                   req'[p].sess.data >= session[req'[p].user].data
  PROVE  BehindInv' /\ OvertakenRollBack
<1>1. TypeOK /\ CopyFresh(p)
  BY DEF IInv, BehindInv
<1>2. saves' \in Nat /\ saves' >= saves
  BY <1>1 DEF TypeOK
<1>3. p \in behind /\ req'[p].pc \in CopyPC => p \in behind'
  BY DEF Alone, Watch, Running, CopyPC
<1>4. CopyFresh(p)'
  BY <1>1, <1>3 DEF CopyFresh
<1> QED
  BY <1>1, <1>2, <1>4, SessionsStay, DataKept

LEMMA LoginData ==
  ASSUME IInv, IInv', BehindInv, NEW p \in Procs, Alone(p), Login(p)
  PROVE  BehindInv' /\ OvertakenRollBack
<1> USE DEF UserPC, CopyPC, LoginPC, AfterReplaced
<1> DEFINE q == req[p]
           n == req'[p]
<1>1. TypeOK
  BY DEF IInv
<1>2. \A u \in Users : session[u] # NONE =>
        session[u] \in Session /\ session[u].data \in Nat /\ session[u].data =< saves
  BY <1>1 DEF BehindInv, TypeOK, Session
<1>3. Fails(p) \/ Ends(p, "ok") => n.pc = "idle"
  BY DEF Fails, Ends
<1>5. CASE ReplacedGet(p)
  <2>1. q.user \in Users /\ UNCHANGED <<session, saves>>
    BY <1>5, RequestFacts DEF ReplacedGet, At, store
  <2> QED
    BY <1>1, <1>2, <1>5, <2>1, KickEffects, DataRead DEF Goes
<1>6. CASE ReplacedDeleteToken(p) \/ ReplacedDeleteActive(p)
  <2>1. q.pc \in {"replDelTok", "replDelAct"} /\ UNCHANGED <<session, saves>>
    BY <1>6 DEF ReplacedDeleteToken, ReplacedDeleteActive, At, DeleteToken,
                DeleteLastActive
  <2>2. n.pc \in CopyPC => n.sess = q.sess /\ n.user = q.user
    BY <1>1, <1>3, <1>6, KickEffects DEF Goes
  <2> QED
    BY <2>1, <2>2, DataRead
<1>7. CASE ReplacedSave(p)
  <2> DEFINE s == [q.sess EXCEPT !.terms = {}]
  <2>1. q.pc = "replSave" /\ q.sess \in Session /\ q.sess.loginId = q.user
    BY <1>7, RequestFacts DEF ReplacedSave, At
  <2>2. s \in Session /\ s.data = q.sess.data
    BY <2>1 DEF Session
  <2>3. session' = [session EXCEPT ![q.user] = s] /\ UNCHANGED saves
    BY <1>7, <2>1 DEF ReplacedSave, SaveCopy, Session
  <2>4. n.pc \notin CopyPC
    BY <1>1, <1>3, <1>7, KickEffects DEF Goes
  <2> HIDE DEF s
  <2> QED
    BY <2>1, <2>2, <2>3, <2>4, CopyWritten, SavesStay, DataKept DEF CopyFresh
<1>8. CASE ShareGet(p) \/ RenewToken(p) \/ RenewActive(p) \/ NewToken(p)
           \/ NewActive(p)
  <2>1. UNCHANGED <<session, saves>>
    BY <1>8 DEF ShareGet, RenewToken, RenewActive, NewToken, NewActive,
                SetToken, Touch, store
  <2>2. n.pc \notin CopyPC
    BY <1>1, <1>3, <1>8, LoginEffects DEF Goes
  <2> QED
    BY <2>1, <2>2, DataRead
<1>9. CASE RenewGet(p)
  <2>1. q.user \in Users /\ UNCHANGED <<session, saves>>
    BY <1>9, RequestFacts DEF RenewGet, At, store
  <2> QED
    BY <1>1, <1>2, <1>3, <1>9, <2>1, LoginEffects, DataRead DEF Goes
<1>10. CASE NewGet(p)
  <2>1. UNCHANGED <<session, saves>> /\ saves \in Nat
    BY <1>1, <1>10 DEF NewGet, store, TypeOK
  <2>2. n.sess.data =< saves
        /\ (session[n.user] # NONE => n.sess.data >= session[n.user].data)
    BY <1>2, <1>10, <2>1, NewGetEffect
  <2> QED
    BY <2>1, <2>2, DataRead
<1>11. CASE RenewSave(p) \/ NewSave(p)
  <2>1. /\ q.pc \in CopyPC /\ q.sess \in Session /\ q.sess.loginId = q.user
        /\ SaveCopy(q.sess) /\ UNCHANGED saves
    BY <1>11, RequestFacts DEF RenewSave, NewSave, At
  <2>2. session' = [session EXCEPT ![q.user] = q.sess]
    BY <2>1 DEF SaveCopy
  <2>3. n.pc \notin CopyPC
    BY <1>1, <1>3, <1>11, LoginEffects DEF Goes
  <2> QED
    BY <2>1, <2>2, <2>3, CopyWritten, SavesStay, DataKept DEF CopyFresh
<1> QED
  BY <1>5, <1>6, <1>7, <1>8, <1>9, <1>10, <1>11 DEF Login

LEMMA LogoutData ==
  ASSUME IInv, IInv', BehindInv, NEW p \in Procs, Alone(p), Logout(p)
  PROVE  BehindInv' /\ OvertakenRollBack
<1> USE DEF UserPC, CopyPC, LogoutPC
<1> DEFINE q == req[p]
           n == req'[p]
<1>1. TypeOK
  BY DEF IInv
<1>2. Fails(p) \/ Done(p) => n.pc = "idle"
  BY DEF Fails, Done, Ends
<1>3. CASE LogoutGet(p) \/ LogoutDeleteToken(p) \/ LogoutDeleteActive(p)
  <2>1. UNCHANGED <<session, saves>>
    BY <1>3 DEF LogoutGet, LogoutDeleteToken, LogoutDeleteActive, DeleteToken,
                DeleteLastActive, store
  <2>2. n.pc \notin CopyPC
    BY <1>1, <1>2, <1>3, LogoutEffects DEF Goes, GoesAs
  <2> QED
    BY <2>1, <2>2, DataRead
<1>4. CASE LogoutGetSession(p)
  <2>1. q.user \in Users /\ UNCHANGED <<session, saves>>
    BY <1>4, RequestFacts DEF LogoutGetSession, At, store
  <2>2. session[q.user] # NONE =>
          /\ RemoveTerminal(session[q.user], q.tok).data = session[q.user].data
          /\ session[q.user].data =< saves /\ session[q.user].data \in Nat
    BY <1>1, <2>1 DEF RemoveTerminal, TypeOK, Session, BehindInv
  <2>3. n.pc = "outSessSave" =>
          /\ session[q.user] # NONE
          /\ n.user = q.user /\ n.sess = RemoveTerminal(session[q.user], q.tok)
    BY <1>1, <1>2, <1>4, LogoutEffects DEF Goes
  <2>4. n.pc \in CopyPC => n.pc = "outSessSave"
    BY <1>1, <1>2, <1>4, LogoutEffects DEF Goes
  <2> QED
    BY <2>1, <2>2, <2>3, <2>4, DataRead
<1>5. CASE LogoutDeleteSession(p)
  <2>1. UNCHANGED saves /\ saves \in Nat
        /\ \A u \in Users : session'[u] \in {session[u], NONE}
    BY <1>1, <1>5 DEF LogoutDeleteSession, DeleteSession, TypeOK
  <2>2. n.pc \notin CopyPC
    BY <1>1, <1>2, <1>5, LogoutEffects
  <2> QED
    BY <1>1, <2>1, <2>2, SavesStay, SessionsStay, DataKept DEF CopyFresh
<1>6. CASE LogoutSaveSession(p)
  <2>1. /\ q.pc \in CopyPC /\ q.sess \in Session /\ q.sess.loginId = q.user
        /\ SaveCopy(q.sess) /\ UNCHANGED saves
    BY <1>6, RequestFacts DEF LogoutSaveSession, At
  <2>2. session' = [session EXCEPT ![q.user] = q.sess]
    BY <2>1 DEF SaveCopy
  <2>3. n.pc \notin CopyPC
    BY <1>1, <1>2, <1>6, LogoutEffects
  <2> QED
    BY <2>1, <2>2, <2>3, CopyWritten, SavesStay, DataKept DEF CopyFresh
<1> QED
  BY <1>3, <1>4, <1>5, <1>6 DEF Logout

LEMMA AuthSaveData ==
  ASSUME IInv, IInv', BehindInv, NEW p \in Procs, Alone(p), Auth(p) \/ Save(p)
  PROVE  BehindInv' /\ OvertakenRollBack
<1> USE DEF UserPC, CopyPC, SavePC
<1> DEFINE q == req[p]
           n == req'[p]
<1>1. TypeOK
  BY DEF IInv
<1>2. CASE Auth(p)
  <2>1. UNCHANGED <<session, saves>>
    BY <1>2 DEF Auth, CheckToken, CheckActive, CheckTouch, LoadSession, Touch, store
  <2>2. n.pc \notin CopyPC
    BY <1>1, <1>2, AuthEffects DEF Auth, GoesAs, Goes, Ends, Fails
  <2> QED
    BY <2>1, <2>2, DataRead
<1>3. CASE SaveGet(p)
  <2>1. q.user \in Users /\ UNCHANGED session
    BY <1>3, RequestFacts DEF SaveGet, At, store
  <2>2. saves' \in Nat /\ saves' >= saves
    <3>1. saves' = saves \/ saves' = saves + 1
      BY <1>3 DEF SaveGet
    <3> QED
      BY <1>1, <3>1 DEF TypeOK
  <2>3. CASE Ends(p, "none")
    BY <1>1, <2>1, <2>2, <2>3, SessionsStay, DataKept DEF Ends, CopyFresh
  <2>4. CASE /\ session[q.user] # NONE /\ saves' = saves + 1
             /\ Goes(p, "saveSet", [session[q.user] EXCEPT !.data = saves + 1],
                     q.todo)
    <3>1. /\ n.sess.data = saves + 1 /\ n.user = q.user
          /\ session[q.user].data =< saves /\ session[q.user].data \in Nat
          /\ saves \in Nat
      BY <1>1, <2>1, <2>4 DEF Goes, TypeOK, Session, BehindInv
    <3> QED
      BY <1>1, <2>1, <2>2, <2>4, <3>1, SessionsStay, DataKept DEF CopyFresh
  <2> QED
    BY <1>1, <1>3, <2>3, <2>4, SaveEffects
<1>4. CASE SaveSet(p)
  <2>1. /\ q.pc \in CopyPC /\ q.sess \in Session /\ q.sess.loginId = q.user
        /\ SaveCopy(q.sess) /\ UNCHANGED saves
    BY <1>4, RequestFacts DEF SaveSet, At
  <2>2. session' = [session EXCEPT ![q.user] = q.sess]
    BY <2>1 DEF SaveCopy
  <2>3. n.pc \notin CopyPC
    BY <1>1, <1>4, SaveEffects DEF Ends, Fails
  <2> QED
    BY <2>1, <2>2, <2>3, CopyWritten, SavesStay, DataKept DEF CopyFresh
<1> QED
  BY <1>2, <1>3, <1>4 DEF Save

LEMMA DataStep ==
  ASSUME IInv, BehindInv, [Next /\ Watch]_ovars
  PROVE  BehindInv' /\ OvertakenRollBack
<1>1. TypeOK /\ IInv'
  BY StepInvariant DEF IInv, ovars
<1>2. saves \in Nat /\ saves >= saves
  BY <1>1 DEF TypeOK
<1>3. ASSUME UNCHANGED <<session, req, saves>>,
             behind' = behind \/ Watch
      PROVE  BehindInv' /\ OvertakenRollBack
  <2>1. \A p \in Procs : p \in behind /\ req[p].pc # "idle" => p \in behind'
    BY <1>3 DEF Watch, Running
  <2>2. \A p \in Procs : CopyFresh(p)'
    BY <1>3, <2>1 DEF BehindInv, CopyFresh, CopyPC
  <2>3. NoneNewer /\ OvertakenRollBack
    BY <1>1, <1>2, <1>3, SessionsStay
  <2> QED
    BY <2>2, <2>3 DEF BehindInv, NoneNewer
<1>4. ASSUME NEW p \in Procs, Start(p), Watch
      PROVE  BehindInv' /\ OvertakenRollBack
  <2>1. req'[p].pc \notin CopyPC /\ UNCHANGED <<session, saves>>
    BY <1>1, <1>4, StartEffects DEF Begins, AfterReplaced, CopyPC, store
  <2>2. Alone(p)
    BY <1>1, <1>4, OthersStay DEF Alone
  <2> QED
    BY <1>1, <2>1, <2>2, DataRead
<1>5. ASSUME NEW p \in Procs, Handle(p), Watch
      PROVE  BehindInv' /\ OvertakenRollBack
  <2>1. Alone(p)
    BY <1>1, <1>5, OthersStay DEF Alone
  <2> QED
    BY <1>1, <1>5, <2>1, LoginData, LogoutData, AuthSaveData DEF Handle
<1>6. ASSUME NEW p \in Procs, StoreFails(p), Watch
      PROVE  BehindInv' /\ OvertakenRollBack
  <2>1. Ends(p, "503") /\ UNCHANGED <<session, saves>>
    BY <1>1, <1>6, EndsNow DEF StoreFails, store
  <2>2. Alone(p)
    BY <1>1, <1>6, OthersStay DEF Alone
  <2> QED
    BY <1>1, <2>1, <2>2, DataRead DEF Ends, CopyPC
<1>7. ASSUME NEW u \in Users, DeleteSession(u), UNCHANGED <<req, saves>>, Watch
      PROVE  BehindInv' /\ OvertakenRollBack
  <2>1. \A w \in Users : session'[w] \in {session[w], NONE}
    BY <1>1, <1>7 DEF DeleteSession, TypeOK
  <2>2. NoneNewer /\ OvertakenRollBack
    BY <1>1, <1>2, <1>7, <2>1, SessionsStay
  <2>3. ASSUME NEW p \in Procs, req'[p].pc \in CopyPC PROVE CopyFresh(p)'
    <3>1. CopyFresh(p) /\ req[p].user \in Users
      BY <1>7, <2>3, RequestFacts DEF BehindInv
    <3>2. p \in behind => p \in behind'
      BY <1>7, <2>3 DEF Watch, Running, CopyPC
    <3> QED
      BY <1>7, <2>1, <2>3, <3>1, <3>2 DEF CopyFresh
  <2>4. \A p \in Procs : CopyFresh(p)'
    BY <2>3 DEF CopyFresh
  <2> QED
    BY <2>2, <2>4 DEF BehindInv, NoneNewer
<1>8. CASE Expire /\ Watch
  <2>1. CASE \E u \in Users : DeleteSession(u)
    BY <1>7, <1>8, <2>1 DEF Expire
  <2>2. CASE UNCHANGED session
    BY <1>3, <1>8, <2>2 DEF Expire
  <2> QED
    BY <1>8, <2>1, <2>2 DEF Expire, DeleteToken, DeleteLastActive
<1>9. CASE UNCHANGED ovars \/ (Watch /\ \E t \in Tokens : GoIdle(t))
  BY <1>3, <1>9 DEF ovars, vars, GoIdle
<1> QED
  BY <1>4, <1>5, <1>6, <1>8, <1>9 DEF Next, Step

LEMMA DataInit == OverlapInit => IInv /\ BehindInv
<1> SUFFICES ASSUME OverlapInit PROVE IInv /\ BehindInv
  OBVIOUS
<1>1. IInv
  BY InitInvariant DEF OverlapInit
<1> QED
  BY <1>1 DEF OverlapInit, Init, NoRequest, BehindInv, CopyFresh, CopyPC

\* An Account-Session is replaced by one with older business data only by a
\* request that was running when the newer one was stored, for any number of
\* handlers, whatever overlaps, fails or expires: see RollbackOnlyByOverlap.
THEOREM OnlyOverlapRollsBack == OverlapSpec => RollbackOnlyByOverlap
<1>1. IInv /\ BehindInv /\ [Next /\ Watch]_ovars =>
        /\ IInv' /\ BehindInv'
        /\ [\A u \in Users :
               session[u] # NONE /\ session'[u] # NONE
                 /\ session'[u].data < session[u].data
               => \E p \in behind : req'[p] # req[p]]_ovars
  BY DataStep, StepInvariant DEF OvertakenRollBack, ovars
<1> QED
  BY <1>1, DataInit, PTL DEF OverlapSpec, RollbackOnlyByOverlap

-----------------------------------------------------------------------------
(* What the history variables record in a turn *)

LEMMA RecordNow ==
  ASSUME Recorded, Record, NEW p \in Procs, Turn(p)
  PROVE  /\ Recorded'
         /\ issued \subseteq issued' /\ condemned \subseteq condemned'
         /\ revoked \subseteq revoked'
         /\ \A t \in issued' : t \in issued \/
              (req'[p].op = "login" /\ req'[p].answer = "ok" /\ t = req'[p].tok)
         /\ \A t \in revoked' : t \in revoked \/
              (req'[p].op = "logout" /\ req'[p].answer = "ok" /\ t = req'[p].tok)
<1>1. \A o \in Procs : o # p => req'[o] = req[o]
  BY DEF Turn
<1>2. Recorded' /\ issued \subseteq issued' /\ condemned \subseteq condemned'
      /\ revoked \subseteq revoked'
  BY DEF Record, Recorded
<1>3. \A t \in Returned' : t \in issued \/
        (req'[p].op = "login" /\ req'[p].answer = "ok" /\ t = req'[p].tok)
  BY <1>1 DEF Returned, Recorded
<1>4. \A t \in LoggedOut' : t \in revoked \/
        (req'[p].op = "logout" /\ req'[p].answer = "ok" /\ t = req'[p].tok)
  BY <1>1 DEF LoggedOut, Recorded
<1> QED
  BY <1>2, <1>3, <1>4 DEF Record

LEMMA RecordedNow ==
  ASSUME Recorded, NEW p \in Procs
  PROVE  /\ req[p].op = "login" /\ req[p].answer = "ok" => req[p].tok \in issued
         /\ req[p].op = "logout" /\ req[p].answer = "ok" => req[p].tok \in revoked
         /\ req[p].op = "logout" \/ req[p].pc \in LogoutPC => req[p].tok \in condemned
         /\ \A x \in req[p].todo : x.token \in condemned
BY DEF Recorded, Returned, LoggedOut, BeingRemoved

-----------------------------------------------------------------------------
(* A client is refused only a token somebody began to remove *)

\* The tokens of other requests are accepted as before.
LEMMA OthersInUse ==
  ASSUME IInv, NEW p \in Procs, Turn(p), issued \subseteq issued',
         NEW o \in Procs, o # p, InUse(req[o])
  PROVE  InUse(req[o])'
<1> USE DEF OwnedPC, AuthPC, LogoutPC
<1> DEFINE r == req[o]
           a == Account(req[o])
<1>1. req'[o] = r
  BY DEF Turn
<1>2. CASE r.pc \in OwnedPC
  <2>1. Untouched(a) /\ r.tok \in Tokens /\ owner[r.tok] = a
    BY <1>2, AccountKnown DEF Turn
  <2> HIDE DEF a
  <2>2. tokenMap'[r.tok] = tokenMap[r.tok]
    BY <2>1 DEF Untouched
  <2> QED
    BY <1>1, <2>2 DEF InUse
<1>3. CASE r.pc \notin OwnedPC
  BY <1>1, <1>3 DEF InUse
<1> QED
  BY <1>2, <1>3

\* A step that removes condemned tokens only, returns an accepted token and
\* refuses a condemned one.
LEMMA RefusalKept ==
  ASSUME IInv, RefusalInv, Record, NEW p \in Procs, Turn(p), TypeOK, TypeOK',
         \A t \in Tokens : tokenMap[t] # NONE /\ tokenMap'[t] = NONE =>
           t \in condemned,
         InUse(req[p])',
         req'[p].op = "login" /\ req'[p].answer = "ok" =>
           req'[p].tok \in issued \/ tokenMap'[req'[p].tok] # NONE,
         req'[p].op = "auth" /\ req'[p].answer = "401" =>
           req'[p].tok \in condemned \cup {NONE}
  PROVE  RefusalInv'
<1>1. /\ Recorded' /\ condemned \subseteq condemned' /\ issued \subseteq issued'
      /\ \A t \in issued' : t \in issued \/
           (req'[p].op = "login" /\ req'[p].answer = "ok" /\ t = req'[p].tok)
  BY RecordNow DEF RefusalInv
<1>2. \A t \in issued' \ condemned' : tokenMap'[t] # NONE
  BY <1>1 DEF RefusalInv, TypeOK
<1>3. \A o \in Procs \ {p} : req'[o] = req[o]
  BY DEF Turn
<1>4. NoSpuriousRefusal'
  BY <1>1, <1>3 DEF RefusalInv, NoSpuriousRefusal
<1>5. \A o \in Procs : InUse(req[o])'
  BY <1>1, OthersInUse DEF RefusalInv
<1> QED
  BY <1>1, <1>2, <1>4, <1>5 DEF RefusalInv

LEMMA LoginRefuses ==
  ASSUME IInv, IInv', RefusalInv, Record, NEW p \in Procs, Turn(p), Login(p)
  PROVE  RefusalInv'
<1> USE DEF OwnedPC, LoginPC, AfterReplaced, LogoutPC, AuthPC
<1> DEFINE q == req[p]
           n == req'[p]
<1>1. TypeOK /\ TypeOK' /\ InUse(q) /\ Recorded
  BY DEF IInv, RefusalInv
<1>2. q.op = "login" /\ q.answer = "none"
  BY RequestFacts DEF Login, ReplacedGet, ReplacedDeleteToken,
     ReplacedDeleteActive, ReplacedSave, ShareGet, RenewToken, RenewGet,
     RenewSave, RenewActive, NewGet, NewSave, NewToken, NewActive, At
<1>3. Fails(p) => n.pc = "idle" /\ n.answer = "503" /\ n.op = "login"
  BY <1>2 DEF Fails, Ends
<1>4. UNCHANGED tokenMap =>
        \A t \in Tokens : tokenMap[t] # NONE /\ tokenMap'[t] = NONE => t \in condemned
  OBVIOUS
<1>5. n.pc = "idle" => InUse(q)'
  BY DEF InUse
<1>6. CASE ReplacedDeleteToken(p)
  <2>1. PICK x \in q.todo :
          DeleteToken(x.token) /\ (Goes(p, "replDelAct", q.sess, q.todo) \/ Fails(p))
    BY <1>1, <1>6, KickEffects
  <2>2. \A t \in Tokens : tokenMap[t] # NONE /\ tokenMap'[t] = NONE => t \in condemned
    BY <1>1, <2>1, RecordedNow DEF DeleteToken, TypeOK
  <2>3. InUse(q)' /\ n.op = "login" /\ n.answer \in {"none", "503"}
    BY <1>2, <1>3, <1>5, <2>1 DEF Goes, InUse
  <2> QED
    BY <1>1, <2>2, <2>3, RefusalKept
<1>7. CASE ReplacedGet(p) \/ ReplacedDeleteActive(p) \/ ReplacedSave(p)
  <2>1. UNCHANGED tokenMap
    BY <1>7 DEF ReplacedGet, ReplacedDeleteActive, ReplacedSave,
                DeleteLastActive, SaveCopy, store
  <2>2. InUse(q)' /\ n.op = "login" /\ n.answer \in {"none", "503"}
    BY <1>1, <1>2, <1>3, <1>5, <1>7, KickEffects DEF Goes, InUse
  <2> QED
    BY <1>1, <1>4, <2>1, <2>2, RefusalKept
<1>8. CASE ShareGet(p) \/ NewSave(p)
  <2>1. UNCHANGED tokenMap
    BY <1>8 DEF ShareGet, NewSave, SaveCopy, store
  <2>2. InUse(q)' /\ n.op = "login" /\ n.answer \in {"none", "503"}
    BY <1>1, <1>2, <1>3, <1>5, <1>8, LoginEffects DEF Goes, InUse
  <2> QED
    BY <1>1, <1>4, <2>1, <2>2, RefusalKept
<1>9. CASE RenewToken(p) \/ NewToken(p)
  <2>1. /\ SetToken(q.tok, q.user) /\ q.tok \in Tokens /\ q.user \in Users
    BY <1>9, RequestFacts DEF RenewToken, NewToken, At
  <2>2. /\ tokenMap'[q.tok] # NONE
        /\ \A t \in Tokens : tokenMap[t] # NONE => tokenMap'[t] # NONE
    BY <1>1, <2>1, NoneAssumption DEF SetToken, TypeOK
  <2>3. InUse(q)' /\ n.op = "login" /\ n.tok = q.tok
    BY <1>1, <1>2, <1>5, <1>9, <2>2, LoginEffects DEF Goes, Ends, Fails, InUse
  <2> QED
    BY <1>1, <2>2, <2>3, RefusalKept
<1>10. CASE RenewGet(p) \/ RenewSave(p) \/ RenewActive(p) \/ NewActive(p)
  <2>1. tokenMap[q.tok] # NONE /\ UNCHANGED tokenMap
    BY <1>1, <1>10 DEF RenewGet, RenewSave, RenewActive, NewActive, At,
                       SaveCopy, Touch, store, InUse
  <2>2. InUse(q)' /\ n.op = "login" /\ n.tok = q.tok
    BY <1>1, <1>2, <1>5, <1>10, <2>1, LoginEffects DEF Goes, Ends, Fails, InUse
  <2> QED
    BY <1>1, <1>4, <2>1, <2>2, RefusalKept
<1>11. CASE NewGet(p)
  <2>1. UNCHANGED tokenMap
    BY <1>11 DEF NewGet, store
  <2>2. InUse(q)' /\ n.op = "login" /\ n.answer = "none"
    BY <1>2, <1>11, NewGetEffect DEF InUse
  <2> QED
    BY <1>1, <1>4, <2>1, <2>2, RefusalKept
<1> QED
  BY <1>6, <1>7, <1>8, <1>9, <1>10, <1>11 DEF Login

LEMMA LogoutRefuses ==
  ASSUME IInv, IInv', RefusalInv, Record, NEW p \in Procs, Turn(p), Logout(p)
  PROVE  RefusalInv'
<1> USE DEF LogoutPC, AuthPC
<1> DEFINE q == req[p]
           n == req'[p]
<1>1. TypeOK /\ TypeOK' /\ InUse(q) /\ Recorded
  BY DEF IInv, RefusalInv
<1>2. q.pc \in LogoutPC
  BY DEF Logout, LogoutGet, LogoutDeleteToken, LogoutDeleteActive,
         LogoutGetSession, LogoutDeleteSession, LogoutSaveSession, At
<1>3. /\ q.tok \in issued /\ q.tok \in condemned /\ q.tok \in Tokens
      /\ q.op \in {"logout", "auth"} /\ issued \subseteq issued'
  BY <1>1, <1>2, RequestFacts, RecordedNow, RecordNow DEF InUse
<1>4. \A t \in Tokens : tokenMap[t] # NONE /\ tokenMap'[t] = NONE => t \in condemned
  <2>1. CASE LogoutDeleteToken(p)
    BY <1>1, <1>3, <2>1 DEF LogoutDeleteToken, DeleteToken, TypeOK
  <2>2. CASE UNCHANGED tokenMap
    BY <2>2
  <2> QED
    BY <2>1, <2>2
       DEF Logout, LogoutGet, LogoutDeleteActive, LogoutGetSession,
           LogoutDeleteSession, LogoutSaveSession, DeleteLastActive,
           DeleteSession, SaveCopy, store
<1>5. n.tok = q.tok /\ n.op = q.op /\ n.pc \in LogoutPC \cup {"idle"}
  BY <1>1, LogoutEffects DEF Logout, GoesAs, Goes, Done, Ends, Fails
<1>6. InUse(q)'
  BY <1>3, <1>5 DEF InUse
<1> QED
  BY <1>1, <1>3, <1>4, <1>5, <1>6, RefusalKept

LEMMA AuthSaveRefuses ==
  ASSUME IInv, IInv', ListInv, RefusalInv, Record, NEW p \in Procs, Turn(p),
         Auth(p) \/ Save(p)
  PROVE  RefusalInv'
<1> USE DEF LogoutPC, AuthPC, SavePC, OwnedPC
<1> DEFINE q == req[p]
           n == req'[p]
<1>1. TypeOK /\ TypeOK' /\ InUse(q) /\ Recorded
  BY DEF IInv, RefusalInv
<1>2. UNCHANGED tokenMap
  BY DEF Auth, CheckToken, CheckActive, CheckTouch, LoadSession, Touch, Save,
         SaveGet, SaveSet, SaveCopy, store
<1>3. CASE Save(p)
  <2>1. q.op = "save"
    BY <1>3, RequestFacts DEF Save, SaveGet, SaveSet, At
  <2>2. InUse(q)' /\ n.op = "save"
    BY <1>1, <1>3, <2>1, SaveEffects DEF Save, Goes, Ends, Fails, InUse
  <2> QED
    BY <1>1, <1>2, <2>2, RefusalKept
<1>4. CASE Auth(p)
  <2>1. /\ q.pc \in AuthPC /\ q.op = "auth" /\ q.answer = "none"
        /\ q.tok \in Tokens /\ q.tok \in issued /\ issued \subseteq issued'
    BY <1>1, <1>4, RequestFacts, RecordNow
       DEF Auth, CheckToken, CheckActive, CheckTouch, LoadSession, At, InUse
  <2>2. n.tok = q.tok /\ n.op = "auth"
    BY <1>1, <1>4, <2>1, AuthEffects DEF Auth, GoesAs, Goes, Ends, Fails
  <2>3. InUse(q)'
    BY <1>1, <1>2, <1>4, <2>1, AuthEffects
       DEF Auth, CheckActive, CheckTouch, At, GoesAs, Goes, Ends, Fails, InUse
  <2>4. ASSUME n.answer = "401"
        PROVE  q.tok \in condemned
    <3>1. CASE CheckToken(p)
      <4>1. tokenMap[q.tok] = NONE
        BY <1>1, <2>1, <2>4, <3>1, AuthEffects DEF GoesAs
      <4> QED
        BY <2>1, <4>1 DEF RefusalInv
    <3>2. CASE LoadSession(p)
      <4>1. /\ tokenMap[q.tok] # NONE /\ owner[q.tok] = q.user
        BY <1>1, <3>2, RequestFacts DEF LoadSession, At, InUse
      <4>2. session[q.user] # NONE
        BY <2>1, <4>1 DEF IInv, StoreOK, ListInv, LiveTokenListed, Listed
      <4> QED
        BY <1>1, <2>4, <3>2, <4>2, AuthEffects DEF Ends
    <3>3. CASE CheckActive(p) \/ CheckTouch(p)
      BY <1>1, <2>1, <2>4, <3>3, AuthEffects DEF Goes, Ends, Fails
    <3> QED
      BY <1>4, <3>1, <3>2, <3>3 DEF Auth
  <2> QED
    BY <1>1, <1>2, <2>2, <2>3, <2>4, RefusalKept
<1> QED
  BY <1>3, <1>4

LEMMA RefusalStep ==
  ASSUME Apart, Expiring = FALSE, IInv, IInv', ListInv, RefusalInv,
         [Next]_vars
  PROVE  RefusalInv'
<1> USE DEF LogoutPC, AuthPC
<1>1. TypeOK /\ TypeOK' /\ Recorded
  BY DEF IInv, RefusalInv
<1>2. CASE UNCHANGED vars
  BY <1>2 DEF vars, history, RefusalInv, Recorded, Returned, BeingRemoved,
              LoggedOut, InUse, NoSpuriousRefusal
<1>3. ASSUME Next PROVE Record
  BY <1>3 DEF Next
<1>4. ASSUME Record, NEW p \in Procs, Start(p)
      PROVE  RefusalInv'
  <2>1. UNCHANGED tokenMap /\ issued \subseteq issued'
    BY <1>1, <1>4, StartEffects, TurnTaken, RecordNow DEF store
  <2>2. /\ InUse(req[p])'
        /\ ~ (req'[p].op = "login" /\ req'[p].answer = "ok")
        /\ req'[p].op = "auth" /\ req'[p].answer = "401" => req'[p].tok = NONE
    BY <1>1, <1>4, <2>1, StartEffects DEF Begins, AfterReplaced, InUse
  <2> QED
    BY <1>1, <1>4, <2>1, <2>2, TurnTaken, RefusalKept
<1>5. ASSUME Record, NEW p \in Procs, Handle(p)
      PROVE  RefusalInv'
  <2>1. Turn(p)
    BY <1>5, TurnTaken
  <2> QED
    BY <1>5, <2>1, LoginRefuses, LogoutRefuses, AuthSaveRefuses DEF Handle
<1>6. ASSUME Record, NEW p \in Procs, StoreFails(p)
      PROVE  RefusalInv'
  <2>1. Ends(p, "503") /\ UNCHANGED tokenMap
    BY <1>1, <1>6, EndsNow DEF StoreFails, store
  <2>2. InUse(req[p])' /\ req'[p].answer = "503"
    BY <2>1 DEF Ends, InUse
  <2> QED
    BY <1>1, <1>6, <2>1, <2>2, TurnTaken, RefusalKept
<1>7. ASSUME Record, NEW t \in Tokens, GoIdle(t)
      PROVE  RefusalInv'
  <2>1. UNCHANGED <<tokenMap, req>>
    BY <1>7 DEF GoIdle
  <2>2. Returned' = Returned /\ BeingRemoved' = BeingRemoved /\ LoggedOut' = LoggedOut
    BY <2>1 DEF Returned, BeingRemoved, LoggedOut
  <2>3. issued' = issued /\ condemned' = condemned /\ revoked' = revoked
    BY <1>1, <1>7, <2>2 DEF Record, Recorded
  <2> QED
    BY <2>1, <2>2, <2>3 DEF RefusalInv, Recorded, InUse, NoSpuriousRefusal
<1> QED
  BY <1>2, <1>3, <1>4, <1>5, <1>6, <1>7 DEF Next, Step, Expire

LEMMA RefusalInit == Init => RefusalInv
BY DEF Init, NoRequest, RefusalInv, Recorded, Returned, BeingRemoved, LoggedOut,
       InUse, NoSpuriousRefusal, LogoutPC, AuthPC

\* When the requests of an account come one after another a client is told
\* 401 only for a token somebody began to remove, and a store fault is a 503:
\* see NoSpuriousRefusal.
THEOREM RefusalsJustified ==
  ASSUME Expiring = FALSE
  PROVE  ApartSpec => []NoSpuriousRefusal
<1>1. /\ IInv /\ IInv' /\ Apart /\ ListInv /\ RefusalInv
         /\ [Next /\ Apart']_vars => RefusalInv'
      /\ RefusalInv => NoSpuriousRefusal
  BY RefusalStep DEF RefusalInv
<1> QED
  BY <1>1, RefusalInit, ListAlways, PTL DEF ApartSpec

-----------------------------------------------------------------------------
(* With a store that never fails, a token that was logged out stays out *)

\* p works for another account than u, or for none.
Foreign(p, u) == req[p].pc = "idle" \/ u # Account(req[p])

OwnToken(p, t) == ~ Foreign(p, owner[t])

\* A handler leaves tokens of its own account unsettled only.
LEMMA UnsettledOwn ==
  ASSUME IInv, NEW p \in Procs, NEW t \in Tokens, Unsettled(req[p], t)
  PROVE  OwnToken(p, t)
<1> USE DEF UserPC, OwnedPC, LoginPC, LogoutPC, AuthPC, SavePC, KickPC, DroppedPC
<1>1. req[p].pc # "idle"
  BY DEF Unsettled
<1>2. owner[t] = Account(req[p])
  BY <1>1, AccountKnown DEF Unsettled
<1> QED
  BY <1>1, <1>2 DEF OwnToken, Foreign

LEMMA SettledNow ==
  ASSUME IInv, SettledInv, NEW p \in Procs, Turn(p)
  PROVE  /\ TypeOK /\ Recorded /\ SettledRequest(req[p])
         /\ \A u \in Users, t \in Tokens : Lists(session[u], t) =>
              /\ owner[t] = u
              /\ tokenMap[t] # NONE \/ Unsettled(req[p], t) \/ Foreign(p, u)
         /\ \A t \in revoked :
              t \in Tokens /\ t \in issued /\ tokenMap[t] = NONE /\ NowhereListed(t)
         /\ \A t \in issued : t \in Tokens /\ owner[t] # NONE
<1>1. \A u \in Users, t \in Tokens : Lists(session[u], t) => owner[t] = u
  BY DEF IInv, StoreOK, SessionOf, Lists
<1>2. ASSUME NEW u \in Users, NEW t \in Tokens, Lists(session[u], t),
             ~ Foreign(p, u), tokenMap[t] = NONE
      PROVE  Unsettled(req[p], t)
  <2>1. PICK o \in Procs : Unsettled(req[o], t)
    BY <1>2 DEF SettledInv
  <2>2. ~ Foreign(o, u)
    BY <1>1, <1>2, <2>1, UnsettledOwn DEF OwnToken
  <2>3. o = p
    BY <1>2, <2>2 DEF Turn, Foreign
  <2> QED
    BY <2>1, <2>3
<1> QED
  BY <1>1, <1>2 DEF SettledInv, IInv, TypeOK

\* What the other handlers left unsettled, and rely on, stays as it is.
LEMMA OthersUnsettled ==
  ASSUME IInv, NEW p \in Procs, Turn(p), NEW o \in Procs, o # p,
         NEW t \in Tokens, Unsettled(req[o], t)
  PROVE  Unsettled(req[o], t)'
<1> USE DEF UserPC, LoginPC, KickPC
<1> DEFINE a == Account(req[o])
<1>1. req'[o] = req[o]
  BY DEF Turn
<1>2. CASE req[o].pc \in KickPC
  <2>1. Untouched(a) /\ req[o].user = a
    BY <1>2, AccountKnown DEF Turn
  <2> HIDE DEF a
  <2>2. owner'[t] = a <=> owner[t] = a
    BY <2>1 DEF Untouched
  <2> QED
    BY <1>1, <1>2, <2>1, <2>2 DEF Unsettled
<1>3. CASE req[o].pc \notin KickPC
  BY <1>1, <1>3 DEF Unsettled
<1> QED
  BY <1>2, <1>3

LEMMA OthersSettled ==
  ASSUME IInv, IInv', NEW p \in Procs, Turn(p), NEW o \in Procs, o # p,
         issued \subseteq issued',
         \A t \in issued' : t \in issued \/ OwnToken(p, t),
         SettledRequest(req[o])
  PROVE  SettledRequest(req[o])'
<1> USE DEF UserPC, OwnedPC, CopyPC, LoginPC, LogoutPC, AuthPC, FreshPC
<1> DEFINE r == req[o]
           a == Account(req[o])
<1>1. req'[o] = r
  BY DEF Turn
<1>2. CASE r.pc \notin FreshPC \cup LogoutPC \cup AuthPC \cup {"renewTok"}
  BY <1>1, <1>2 DEF SettledRequest
<1>3. CASE r.pc \in FreshPC \cup LogoutPC \cup AuthPC \cup {"renewTok"}
  <2>1. /\ Untouched(a) /\ a \in Users
        /\ r.tok \in Tokens /\ owner[r.tok] = a
        /\ r.pc = "newSave" => r.user = a
    BY <1>3, AccountKnown DEF Turn
  <2>2. OwnToken(p, r.tok) => FALSE
    BY <1>3, <2>1 DEF Turn, OwnToken, Foreign
  <2> HIDE DEF a
  <2>3. /\ tokenMap'[r.tok] = tokenMap[r.tok] /\ session'[a] = session[a]
        /\ owner'[r.tok] = a
    BY <2>1 DEF Untouched
  <2>4. r.tok \in issued' => r.tok \in issued
    BY <2>2
  <2>5. ASSUME NowhereListed(r.tok), NEW u \in Users, Lists(session'[u], r.tok)
        PROVE  FALSE
    <3>1. owner'[r.tok] = u
      BY <2>5 DEF IInv, StoreOK, SessionOf, Lists
    <3> QED
      BY <2>3, <2>5, <3>1 DEF NowhereListed
  <2>6. NowhereListed(r.tok) => \A u \in Users : ~ Lists(session'[u], r.tok)
    BY <2>5
  <2>7. CASE r.pc \in LogoutPC \cup AuthPC
    BY <1>1, <2>1, <2>3, <2>6, <2>7 DEF SettledRequest, NowhereListed
  <2>8. CASE r.pc \in FreshPC \cup {"renewTok"}
    BY <1>1, <2>1, <2>3, <2>4, <2>8 DEF SettledRequest
  <2> QED
    BY <1>3, <2>7, <2>8
<1> QED
  BY <1>2, <1>3

\* What a step has to keep in order.
LEMMA SettledKept ==
  ASSUME IInv, IInv', SettledInv, Record, NEW p \in Procs, Turn(p),
         \A u \in Users, t \in Tokens : Lists(session'[u], t) =>
           tokenMap'[t] # NONE \/ Unsettled(req[p], t)' \/ Foreign(p, u),
         \A t \in revoked : tokenMap'[t] = NONE /\ NowhereListed(t)',
         req'[p].op = "logout" /\ req'[p].answer = "ok" =>
           /\ req'[p].tok \in issued
           /\ tokenMap'[req'[p].tok] = NONE /\ NowhereListed(req[p].tok)',
         req'[p].op = "login" /\ req'[p].answer = "ok" =>
           req'[p].tok \in issued \/ OwnToken(p, req'[p].tok),
         req'[p].pc = "renewTok" => tokenMap'[req'[p].tok] # NONE,
         req'[p].pc = "newSave" =>
           \A t \in Tokens \ {req'[p].tok} :
             Lists(req'[p].sess, t) => Lists(session'[req'[p].user], t),
         req'[p].pc \in LogoutPC \ {"outGet"} =>
           IF req'[p].user = NONE THEN NowhereListed(req[p].tok)'
           ELSE owner'[req'[p].tok] = req'[p].user,
         req'[p].pc \in LogoutPC \cup AuthPC => req'[p].tok \in issued,
         req'[p].pc \in FreshPC =>
           req'[p].tok \notin issued /\ req'[p].answer # "ok"
  PROVE  SettledInv'
<1>1. /\ Recorded' /\ issued \subseteq issued'
      /\ \A t \in issued' : t \in issued \/
           (req'[p].op = "login" /\ req'[p].answer = "ok" /\ t = req'[p].tok)
      /\ \A t \in revoked' : t \in revoked \/
           (req'[p].op = "logout" /\ req'[p].answer = "ok" /\ t = req'[p].tok)
  BY RecordNow DEF SettledInv
<1>2. SettledRequest(req[p])'
  BY <1>1 DEF SettledRequest
<1>3. \A o \in Procs : SettledRequest(req[o])'
  <2>1. \A t \in issued' : t \in issued \/ OwnToken(p, t)
    BY <1>1
  <2> QED
    BY <1>1, <1>2, <2>1, OthersSettled DEF SettledInv
<1>4. ASSUME NEW u \in Users, NEW t \in Tokens, Lists(session'[u], t),
             Foreign(p, u), tokenMap'[t] = NONE
      PROVE  \E o \in Procs : Unsettled(req[o], t)'
  <2>1. session'[u] = session[u]
    BY <1>4 DEF Turn, OnlyTouches, Foreign, store
  <2>2. owner[t] = u
    BY <1>4, <2>1, SettledNow
  <2>3. tokenMap[t] = NONE
    BY <1>4, <2>2 DEF Turn, OnlyTouches, Foreign, store
  <2>4. PICK o \in Procs : Unsettled(req[o], t)
    BY <1>4, <2>1, <2>3 DEF SettledInv
  <2>5. o # p
    BY <1>4, <2>2, <2>4, UnsettledOwn DEF OwnToken
  <2> QED
    BY <2>4, <2>5, OthersUnsettled
<1>5. /\ revoked' \subseteq issued'
      /\ \A t \in revoked' : tokenMap'[t] = NONE /\ NowhereListed(t)'
  BY <1>1 DEF SettledInv
<1> QED
  BY <1>1, <1>3, <1>4, <1>5 DEF SettledInv

\* A step that changes no token key, no session and no owner.
LEMMA SettledRead ==
  ASSUME IInv, IInv', SettledInv, Record, NEW p \in Procs, Turn(p),
         UNCHANGED <<tokenMap, session, owner>>,
         \A t \in Tokens :
           tokenMap[t] = NONE /\ Unsettled(req[p], t) /\ ~ NowhereListed(t) =>
             Unsettled(req[p], t)',
         req'[p].op = "logout" /\ req'[p].answer = "ok" =>
           /\ req'[p].tok \in issued
           /\ tokenMap[req'[p].tok] = NONE /\ NowhereListed(req'[p].tok),
         req'[p].op = "login" /\ req'[p].answer = "ok" =>
           OwnToken(p, req'[p].tok),
         req'[p].pc = "renewTok" => tokenMap[req'[p].tok] # NONE,
         req'[p].pc # "newSave",
         req'[p].pc \in LogoutPC \ {"outGet"} =>
           IF req'[p].user = NONE THEN NowhereListed(req'[p].tok)
           ELSE owner[req'[p].tok] = req'[p].user,
         req'[p].pc \in LogoutPC \cup AuthPC => req'[p].tok \in issued,
         req'[p].pc \in FreshPC =>
           req'[p].tok \notin issued /\ req'[p].answer # "ok"
  PROVE  SettledInv'
<1>1. \A t : NowhereListed(t) => NowhereListed(t)'
  BY DEF NowhereListed
<1>2. NowhereListed(req'[p].tok) => NowhereListed(req[p].tok)'
  BY DEF NowhereListed
<1>3. /\ \A u \in Users, t \in Tokens : Lists(session[u], t) =>
           tokenMap[t] # NONE \/ Unsettled(req[p], t) \/ Foreign(p, u)
      /\ \A t \in revoked : tokenMap[t] = NONE /\ NowhereListed(t)
      /\ \A t \in issued : owner[t] # NONE
  BY SettledNow
<1>4. \A u \in Users, t \in Tokens : Lists(session'[u], t) =>
        tokenMap'[t] # NONE \/ Unsettled(req[p], t)' \/ Foreign(p, u)
  BY <1>3 DEF NowhereListed
<1> QED
  BY <1>1, <1>2, <1>3, <1>4, SettledKept

LEMMA KickSettles ==
  ASSUME Faulty = FALSE, IInv, IInv', ListInv, SettledInv, Record,
         NEW p \in Procs, Turn(p),
         \/ ReplacedGet(p) \/ ReplacedDeleteToken(p)
         \/ ReplacedDeleteActive(p) \/ ReplacedSave(p)
  PROVE  SettledInv'
<1> USE DEF UserPC, CopyPC, LoginPC, LogoutPC, AuthPC, KickPC, DroppedPC,
            FreshPC, AfterReplaced
<1> DEFINE q == req[p]
           n == req'[p]
<1>1. /\ TypeOK /\ KnowsList(q)
      /\ \A u \in Users, t \in Tokens : Lists(session[u], t) =>
           /\ owner[t] = u
           /\ tokenMap[t] # NONE \/ Unsettled(q, t) \/ Foreign(p, u)
      /\ \A t \in revoked : tokenMap[t] = NONE /\ NowhereListed(t) /\ t \in Tokens
      /\ \A t \in issued : owner[t] # NONE
  BY SettledNow DEF ListInv
<1>2. ~ Fails(p)
  BY DEF Fails
<1>3. q.op = "login" /\ q.answer = "none" /\ q.user \in Users
      /\ (q.pc # "replGet" => q.pc \in KickPC)
  BY RequestFacts DEF ReplacedGet, ReplacedDeleteToken, ReplacedDeleteActive,
                      ReplacedSave, At
<1>4. CASE ReplacedGet(p)
  <2>1. q.pc = "replGet" /\ UNCHANGED <<tokenMap, session, owner>>
    BY <1>4 DEF ReplacedGet, At, store
  <2>2. /\ n.pc \in {"shareGet", "newGet", "replSave", "replDelTok"}
        /\ n.op = "login" /\ n.answer = "none"
    BY <1>1, <1>3, <1>4, KickEffects DEF Goes
  <2>3. \A t : ~ Unsettled(q, t)
    BY <2>1 DEF Unsettled
  <2> QED
    BY <2>1, <2>2, <2>3, SettledRead
<1>5. CASE ReplacedDeleteToken(p)
  <2>1. PICK x \in q.todo : DeleteToken(x.token) /\ Goes(p, "replDelAct", q.sess, q.todo)
    BY <1>1, <1>2, <1>5, KickEffects
  <2>2. q.pc = "replDelTok" /\ UNCHANGED <<session, owner>> /\ x.token \in Tokens
    BY <1>5, <2>1, RequestFacts DEF ReplacedDeleteToken, At, DeleteToken
  <2>3. owner[x.token] = q.user
    BY <1>1, <2>1, <2>2, RequestFacts DEF KnowsList
  <2>4. n.pc = "replDelAct" /\ n.op = "login" /\ n.answer = "none" /\ n.user = q.user
    BY <1>3, <2>1 DEF Goes
  <2>5. \A u \in Users, t \in Tokens : Lists(session'[u], t) =>
          tokenMap'[t] # NONE \/ Unsettled(q, t)' \/ Foreign(p, u)
    <3>1. \A t \in Tokens : t # x.token => tokenMap'[t] = tokenMap[t]
      BY <1>1, <2>1, <2>2 DEF DeleteToken, TypeOK
    <3>2. Unsettled(q, x.token)'
      BY <2>2, <2>3, <2>4 DEF Unsettled
    <3>3. \A t \in Tokens : Unsettled(q, t) => Unsettled(q, t)'
      BY <2>2, <2>4 DEF Unsettled
    <3> QED
      BY <1>1, <2>2, <3>1, <3>2, <3>3
  <2>6. \A t \in revoked : tokenMap'[t] = NONE /\ NowhereListed(t)'
    BY <1>1, <2>1, <2>2 DEF DeleteToken, TypeOK, NowhereListed
  <2> QED
    BY <1>1, <2>2, <2>4, <2>5, <2>6, SettledKept
<1>6. CASE ReplacedDeleteActive(p)
  <2>1. q.pc = "replDelAct" /\ UNCHANGED <<tokenMap, session, owner>>
    BY <1>6 DEF ReplacedDeleteActive, At, DeleteLastActive
  <2>2. /\ n.pc \in {"replSave", "replDelTok"} /\ n.user = q.user
        /\ n.op = "login" /\ n.answer = "none"
    BY <1>1, <1>2, <1>3, <1>6, KickEffects DEF Goes
  <2>3. \A t : Unsettled(q, t) => Unsettled(q, t)'
    BY <2>1, <2>2 DEF Unsettled
  <2> QED
    BY <2>1, <2>2, <2>3, SettledRead
<1>7. CASE ReplacedSave(p)
  <2>1. q.pc = "replSave" /\ q.sess.loginId = q.user /\ q.sess \in Session
    BY <1>7, RequestFacts DEF ReplacedSave, At
  <2>2. /\ UNCHANGED <<tokenMap, owner>>
        /\ session' = [session EXCEPT ![q.user] = [q.sess EXCEPT !.terms = {}]]
    BY <1>7, <2>1 DEF ReplacedSave, SaveCopy, Session
  <2>3. \A u \in Users : \A t : Lists(session'[u], t) => u # q.user /\ Lists(session[u], t)
    BY <1>1, <2>1, <2>2 DEF TypeOK, Lists, Session
  <2>4. /\ n.pc \in {"shareGet", "newGet"} /\ n.op = "login" /\ n.answer = "none"
    BY <1>1, <1>2, <1>3, <1>7, KickEffects DEF Goes
  <2>5. \A u \in Users, t \in Tokens : Lists(session'[u], t) =>
          tokenMap'[t] # NONE \/ Foreign(p, u)
    <3> SUFFICES ASSUME NEW u \in Users, NEW t \in Tokens, Lists(session'[u], t)
                 PROVE  tokenMap'[t] # NONE \/ Foreign(p, u)
      OBVIOUS
    <3>1. u # q.user /\ Lists(session[u], t)
      BY <2>3
    <3>2. owner[t] = u /\ (tokenMap[t] # NONE \/ Unsettled(q, t) \/ Foreign(p, u))
      BY <1>1, <3>1
    <3>3. ~ Unsettled(q, t)
      BY <2>1, <3>1, <3>2 DEF Unsettled
    <3> QED
      BY <2>2, <3>2, <3>3
  <2>6. \A t \in revoked : tokenMap'[t] = NONE /\ NowhereListed(t)'
    BY <1>1, <2>2, <2>3 DEF NowhereListed
  <2> QED
    BY <1>1, <2>2, <2>4, <2>5, <2>6, SettledKept
<1> QED
  BY <1>4, <1>5, <1>6, <1>7

LEMMA LoginSettles ==
  ASSUME Faulty = FALSE, IInv, IInv', ListInv, SettledInv, Record,
         NEW p \in Procs, Turn(p),
         \/ ShareGet(p) \/ RenewToken(p) \/ RenewGet(p) \/ RenewSave(p)
         \/ RenewActive(p)
         \/ NewGet(p) \/ NewSave(p) \/ NewToken(p) \/ NewActive(p)
  PROVE  SettledInv'
<1> USE DEF UserPC, OwnedPC, CopyPC, LoginPC, LogoutPC, AuthPC, KickPC,
            DroppedPC, FreshPC
<1> DEFINE q == req[p]
           n == req'[p]
<1>1. /\ TypeOK /\ KnowsList(q) /\ SettledRequest(q)
      /\ \A u \in Users, t \in Tokens : Lists(session[u], t) =>
           /\ owner[t] = u
           /\ tokenMap[t] # NONE \/ Unsettled(q, t) \/ Foreign(p, u)
      /\ \A t \in revoked :
           tokenMap[t] = NONE /\ NowhereListed(t) /\ t \in Tokens /\ t \in issued
      /\ \A t \in issued : owner[t] # NONE
  BY SettledNow DEF ListInv
<1>2. ~ Fails(p)
  BY DEF Fails
<1>3. /\ q.op = "login" /\ q.answer = "none" /\ q.user \in Users
      /\ ~ Foreign(p, q.user)
      /\ q.pc \in OwnedPC =>
           q.tok \in Tokens /\ owner[q.tok] # NONE /\ OwnToken(p, q.tok)
  <2>1. q.pc \in LoginPC
    BY DEF ShareGet, RenewToken, RenewGet, RenewSave, RenewActive, NewGet,
           NewSave, NewToken, NewActive, At
  <2> QED
    BY <2>1, NoneAssumption, RequestFacts, AccountKnown DEF OwnToken, Foreign
<1>4. CASE ShareGet(p)
  <2>1. q.pc = "shareGet" /\ UNCHANGED <<tokenMap, session, owner>>
    BY <1>4 DEF ShareGet, At, store
  <2>2. \A t : ~ Unsettled(q, t)
    BY <2>1 DEF Unsettled
  <2>3. n.op = "login" /\ n.answer = "none" /\ n.pc \in {"newGet", "renewTok"}
    BY <1>1, <1>3, <1>4, LoginEffects DEF Goes
  <2>4. n.pc = "renewTok" => tokenMap[n.tok] # NONE
    <3>1. n.pc = "renewTok" => Lists(session[q.user], n.tok)
      BY <1>1, <1>4, LoginEffects DEF Goes
    <3>2. \A t : Lists(session[q.user], t) => t \in Tokens
      BY <1>1, <1>3 DEF Lists, TypeOK, Session, Terminal
    <3> QED
      BY <1>1, <1>3, <2>2, <3>1, <3>2
  <2> QED
    BY <2>1, <2>2, <2>3, <2>4, SettledRead
<1>5. CASE RenewToken(p) \/ NewToken(p)
  <2>1. /\ q.pc \in {"renewTok", "newTok"} /\ SetToken(q.tok, q.user)
        /\ q.tok \in Tokens /\ UNCHANGED <<session, owner>>
    BY <1>3, <1>5 DEF RenewToken, NewToken, At, SetToken
  <2>2. tokenMap'[q.tok] # NONE
        /\ \A t \in Tokens : t # q.tok => tokenMap'[t] = tokenMap[t]
    BY <1>1, <1>3, <2>1, NoneAssumption DEF SetToken, TypeOK
  <2>3. /\ n.pc \in {"renewGet", "newAct", "idle"} /\ n.op = "login" /\ n.tok = q.tok
        /\ n.pc = "newAct" => q.pc = "newTok" /\ n.answer = "none"
    BY <1>1, <1>2, <1>3, <1>5, LoginEffects
       DEF RenewToken, NewToken, At, Goes, Ends
  <2>4. \A u \in Users, t \in Tokens : Lists(session'[u], t) =>
          tokenMap'[t] # NONE \/ Unsettled(q, t)' \/ Foreign(p, u)
    BY <1>1, <2>1, <2>2 DEF Unsettled
  <2>5. q.pc = "renewTok" => tokenMap[q.tok] # NONE
    BY <1>1 DEF SettledRequest
  <2>6. q.pc = "newTok" => q.tok \notin issued
    BY <1>1 DEF SettledRequest
  <2>7. \A t \in revoked : tokenMap'[t] = NONE /\ NowhereListed(t)'
    BY <1>1, <2>1, <2>2, <2>5, <2>6 DEF NowhereListed
  <2> QED
    BY <1>1, <1>3, <2>1, <2>3, <2>4, <2>6, <2>7, SettledKept
<1>6. CASE RenewGet(p) \/ RenewActive(p) \/ NewActive(p)
  <2>1. /\ q.pc \in {"renewGet", "renewAct", "newAct"}
        /\ UNCHANGED <<tokenMap, session, owner>>
    BY <1>6 DEF RenewGet, RenewActive, NewActive, At, Touch, store
  <2>2. \A t : ~ Unsettled(q, t)
    BY <2>1 DEF Unsettled
  <2>3. n.op = "login" /\ n.tok = q.tok /\ n.pc \in {"idle", "renewSave"}
    BY <1>1, <1>2, <1>3, <1>6, LoginEffects DEF Goes, Ends
  <2> QED
    BY <1>3, <2>1, <2>2, <2>3, SettledRead
<1>7. CASE RenewSave(p)
  <2>1. /\ q.pc = "renewSave" /\ q.sess.loginId = q.user
        /\ q.sess = session[q.user] /\ SaveCopy(q.sess) /\ UNCHANGED owner
    BY <1>1, <1>7, RequestFacts DEF RenewSave, At, KnowsList
  <2>2. UNCHANGED <<tokenMap, session, owner>>
    BY <1>1, <2>1 DEF SaveCopy, TypeOK
  <2>3. \A t : ~ Unsettled(q, t)
    BY <2>1 DEF Unsettled
  <2>4. n.op = "login" /\ n.tok = q.tok /\ n.pc \in {"idle", "renewAct"}
    BY <1>1, <1>2, <1>3, <1>7, LoginEffects DEF Goes, Ends
  <2> QED
    BY <1>3, <2>1, <2>2, <2>3, <2>4, SettledRead
<1>8. CASE NewGet(p)
  <2>1. q.pc = "newGet" /\ UNCHANGED <<tokenMap, session>>
    BY <1>8 DEF NewGet, At, store
  <2>2. /\ n.pc = "newSave" /\ n.tok \in Tokens /\ owner[n.tok] = NONE
        /\ owner' = [owner EXCEPT ![n.tok] = q.user] /\ n.user = q.user
        /\ n.op = "login" /\ n.answer = "none"
        /\ \A t \in Tokens : t # n.tok =>
             (Lists(session[q.user], t) <=> Lists(n.sess, t))
    BY <1>3, <1>8, NewGetEffect
  <2>3. \A t : ~ Unsettled(q, t)
    BY <2>1 DEF Unsettled
  <2>4. \A t \in issued : t \in Tokens /\ owner'[t] # NONE
    BY <1>1, <1>3, <2>2, NoneAssumption DEF TypeOK
  <2>5. n.tok \notin issued
    BY <1>1, <2>2
  <2>6. /\ \A u \in Users, t \in Tokens : Lists(session'[u], t) =>
          tokenMap'[t] # NONE \/ Foreign(p, u)
        /\ \A t \in revoked : tokenMap'[t] = NONE /\ NowhereListed(t)'
    BY <1>1, <2>1, <2>3 DEF NowhereListed
  <2> QED
    BY <2>1, <2>2, <2>4, <2>5, <2>6, SettledKept
<1>9. CASE NewSave(p)
  <2>1. /\ q.pc = "newSave" /\ q.sess.loginId = q.user /\ SaveCopy(q.sess)
        /\ q.tok \in Tokens /\ UNCHANGED owner
    BY <1>3, <1>9, RequestFacts DEF NewSave, At
  <2>2. UNCHANGED tokenMap /\ session' = [session EXCEPT ![q.user] = q.sess]
    BY <2>1 DEF SaveCopy
  <2>3. q.tok \notin issued
    BY <1>1, <2>1 DEF SettledRequest
  <2>4. /\ n.pc = "newTok" /\ n.tok = q.tok /\ n.user = q.user
        /\ n.op = "login" /\ n.answer = "none"
    BY <1>1, <1>2, <1>3, <1>9, LoginEffects DEF Goes
  <2>5. \A u \in Users, t \in Tokens :
          Lists(session'[u], t) => t = q.tok \/ Lists(session[u], t)
    <3> SUFFICES ASSUME NEW u \in Users, NEW t \in Tokens, Lists(session'[u], t)
                 PROVE  t = q.tok \/ Lists(session[u], t)
      OBVIOUS
    <3>1. CASE u = q.user
      <4>1. Lists(q.sess, t)
        BY <1>1, <2>2, <3>1 DEF TypeOK
      <4> QED
        BY <1>1, <2>1, <3>1, <4>1 DEF SettledRequest
    <3>2. CASE u # q.user
      BY <1>1, <2>2, <3>2 DEF TypeOK
    <3> QED
      BY <3>1, <3>2
  <2>6. Unsettled(q, q.tok)'
    BY <1>3, <2>4, NoneAssumption DEF Unsettled
  <2>7. \A t : ~ Unsettled(q, t)
    BY <2>1 DEF Unsettled
  <2>8. \A u \in Users, t \in Tokens : Lists(session'[u], t) =>
          tokenMap'[t] # NONE \/ Unsettled(q, t)' \/ Foreign(p, u)
    <3> SUFFICES ASSUME NEW u \in Users, NEW t \in Tokens, Lists(session'[u], t),
                        t # q.tok
                 PROVE  tokenMap'[t] # NONE \/ Foreign(p, u)
      BY <2>4, <2>6
    <3>1. Lists(session[u], t)
      BY <2>5
    <3> QED
      BY <1>1, <2>2, <2>7, <3>1
  <2>9. \A t \in revoked : tokenMap'[t] = NONE /\ NowhereListed(t)'
    BY <1>1, <2>2, <2>3, <2>5 DEF NowhereListed
  <2> QED
    BY <1>1, <2>1, <2>3, <2>4, <2>8, <2>9, SettledKept
<1> QED
  BY <1>4, <1>5, <1>6, <1>7, <1>8, <1>9

LEMMA LogoutSettles ==
  ASSUME Faulty = FALSE, IInv, IInv', ListInv, SettledInv, Record,
         NEW p \in Procs, Turn(p), Logout(p)
  PROVE  SettledInv'
<1> USE DEF UserPC, LogoutPC, AuthPC, DroppedPC, FreshPC
<1> DEFINE q == req[p]
           n == req'[p]
<1>1. /\ TypeOK /\ KnowsList(q) /\ SettledRequest(q)
      /\ \A u \in Users, t \in Tokens : Lists(session[u], t) =>
           /\ owner[t] = u
           /\ tokenMap[t] # NONE \/ Unsettled(q, t) \/ Foreign(p, u)
      /\ \A t \in revoked :
           tokenMap[t] = NONE /\ NowhereListed(t) /\ t \in Tokens /\ t \in issued
      /\ \A t \in issued : owner[t] # NONE
  BY SettledNow DEF ListInv
<1>2. ~ Fails(p)
  BY DEF Fails
<1>3. /\ q.pc \in LogoutPC /\ q.op \in {"logout", "auth"} /\ q.tok \in Tokens
      /\ q.tok \in issued /\ q.answer = "none" /\ OwnToken(p, q.tok)
  <2>1. q.pc \in LogoutPC
    BY DEF Logout, LogoutGet, LogoutDeleteToken, LogoutDeleteActive,
           LogoutGetSession, LogoutDeleteSession, LogoutSaveSession, At
  <2> QED
    BY <1>1, <2>1, RequestFacts, AccountKnown DEF SettledRequest, OwnToken, Foreign
<1>4. n.tok = q.tok /\ n.op = q.op /\ n.pc \in LogoutPC \cup {"idle"}
  BY <1>1, <1>2, LogoutEffects DEF Logout, GoesAs, Goes, Done, Ends
<1>5. \A t : Unsettled(q, t) => t = q.tok /\ q.user # NONE
  BY <1>3 DEF Unsettled, KickPC
<1>6. CASE LogoutGet(p)
  <2>1. q.pc = "outGet" /\ UNCHANGED <<tokenMap, session, owner>>
    BY <1>6 DEF LogoutGet, At, store
  <2>2. n.pc = "outDelTok" /\ n.user = tokenMap[q.tok] /\ n.answer = "none"
    BY <1>1, <1>3, <1>6, LogoutEffects DEF GoesAs
  <2>3. \A t : ~ Unsettled(q, t)
    BY <2>1 DEF Unsettled, KickPC
  <2>4. tokenMap[q.tok] = NONE => NowhereListed(q.tok)
    BY <1>1, <1>3, <2>3 DEF NowhereListed, OwnToken
  <2>5. tokenMap[q.tok] # NONE => owner[q.tok] = tokenMap[q.tok]
    BY <1>3 DEF IInv, StoreOK
  <2> QED
    BY <1>3, <1>4, <2>1, <2>2, <2>3, <2>4, <2>5, SettledRead
<1>7. CASE LogoutDeleteToken(p)
  <2>1. q.pc = "outDelTok" /\ DeleteToken(q.tok) /\ UNCHANGED <<session, owner>>
    BY <1>7 DEF LogoutDeleteToken, At, DeleteToken
  <2>2. n.pc = "outDelAct" /\ n.user = q.user /\ n.answer = "none"
    BY <1>1, <1>2, <1>3, <1>7, LogoutEffects DEF Goes
  <2>3. IF q.user = NONE THEN NowhereListed(q.tok) ELSE owner[q.tok] = q.user
    BY <1>1, <2>1 DEF SettledRequest
  <2>4. \A t \in Tokens : t # q.tok => tokenMap'[t] = tokenMap[t]
    BY <1>1, <1>3, <2>1 DEF DeleteToken, TypeOK
  <2>5. \A u \in Users, t \in Tokens : Lists(session'[u], t) =>
          tokenMap'[t] # NONE \/ Unsettled(q, t)' \/ Foreign(p, u)
    <3>1. q.user # NONE => \A t : t = q.tok => Unsettled(q, t)'
      BY <1>4, <2>2 DEF Unsettled
    <3> QED
      BY <1>1, <1>5, <2>1, <2>3, <2>4, <3>1 DEF NowhereListed
  <2>6. \A t \in revoked : tokenMap'[t] = NONE /\ NowhereListed(t)'
    BY <1>1, <2>1 DEF DeleteToken, TypeOK, NowhereListed
  <2>7. NowhereListed(q.tok) => NowhereListed(q.tok)'
    BY <1>4, <2>1 DEF NowhereListed
  <2> QED
    BY <1>1, <1>3, <1>4, <2>1, <2>2, <2>3, <2>5, <2>6, <2>7, SettledKept
<1>8. CASE LogoutDeleteActive(p)
  <2>1. q.pc = "outDelAct" /\ UNCHANGED <<tokenMap, session, owner>>
    BY <1>8 DEF LogoutDeleteActive, At, DeleteLastActive
  <2>2. /\ tokenMap[q.tok] = NONE
        /\ IF q.user = NONE THEN NowhereListed(q.tok) ELSE owner[q.tok] = q.user
    BY <1>1, <2>1 DEF KnowsList, SettledRequest
  <2>3. \/ q.user = NONE /\ n.pc = "idle"
        \/ /\ q.user # NONE /\ n.pc = "outSessGet" /\ n.user = q.user
           /\ n.answer = "none"
    BY <1>1, <1>2, <1>3, <1>8, LogoutEffects DEF Goes, Done, Ends
  <2>4. \A t : Unsettled(q, t) => Unsettled(q, t)'
    BY <1>4, <1>5, <2>3 DEF Unsettled
  <2> QED
    BY <1>3, <1>4, <2>1, <2>2, <2>3, <2>4, SettledRead
<1>9. CASE LogoutGetSession(p)
  <2>1. q.pc = "outSessGet" /\ UNCHANGED <<tokenMap, session, owner>> /\ q.user \in Users
    BY <1>9, RequestFacts DEF LogoutGetSession, At, store
  <2>2. tokenMap[q.tok] = NONE /\ owner[q.tok] = q.user
    BY <1>1, <2>1, NoneAssumption DEF KnowsList, SettledRequest
  <2>3. \/ session[q.user] = NONE /\ n.pc = "idle"
        \/ /\ n.pc \in {"outSessDel", "outSessSave"} /\ n.user = q.user
           /\ n.answer = "none"
    BY <1>1, <1>2, <1>3, <1>9, LogoutEffects DEF Goes, Done, Ends
  <2>4. CASE session[q.user] = NONE /\ n.pc = "idle"
    <3>1. NowhereListed(q.tok)
      BY <1>1, <1>3, <2>2, <2>4 DEF NowhereListed, Lists
    <3> QED
      BY <1>3, <1>4, <1>5, <2>1, <2>2, <2>4, <3>1, SettledRead
  <2>5. CASE /\ n.pc \in {"outSessDel", "outSessSave"} /\ n.user = q.user
             /\ n.answer = "none"
    <3>1. \A t : Unsettled(q, t) => Unsettled(q, t)'
      BY <1>4, <1>5, <2>5 DEF Unsettled
    <3> QED
      BY <1>3, <1>4, <2>1, <2>2, <2>5, <3>1, NoneAssumption, SettledRead
  <2> QED
    BY <2>3, <2>4, <2>5
<1>10. CASE LogoutDeleteSession(p) \/ LogoutSaveSession(p)
  <2>1. /\ q.pc \in {"outSessDel", "outSessSave"} /\ q.user \in Users
        /\ UNCHANGED <<tokenMap, owner>>
    BY <1>10, RequestFacts
       DEF LogoutDeleteSession, LogoutSaveSession, At, DeleteSession, SaveCopy
  <2>2. tokenMap[q.tok] = NONE /\ owner[q.tok] = q.user
    BY <1>1, <2>1, NoneAssumption DEF KnowsList, SettledRequest
  <2>3. \A t : Lists(session'[q.user], t) => t # q.tok /\ Lists(session[q.user], t)
    <3>1. CASE LogoutDeleteSession(p)
      BY <1>1, <2>1, <3>1 DEF LogoutDeleteSession, DeleteSession, TypeOK, Lists
    <3>2. CASE LogoutSaveSession(p)
      <4>1. /\ q.pc = "outSessSave" /\ q.sess.loginId = q.user /\ SaveCopy(q.sess)
        BY <3>2, RequestFacts DEF LogoutSaveSession, At, CopyPC
      <4>2. q.sess = RemoveTerminal(session[q.user], q.tok) /\ session[q.user] # NONE
        BY <1>1, <4>1 DEF KnowsList
      <4>3. session'[q.user] = q.sess
        BY <1>1, <2>1, <4>1 DEF SaveCopy, TypeOK
      <4>4. \A x \in q.sess.terms : x.token # q.tok /\ x \in session[q.user].terms
        BY <1>1, <2>1, <4>2 DEF RemoveTerminal, TypeOK, Session
      <4> QED
        BY <4>2, <4>3, <4>4 DEF Lists
    <3> QED
      BY <1>10, <3>1, <3>2
  <2>4. \A u \in Users : u # q.user => session'[u] = session[u]
    <3>1. q.pc = "outSessSave" => q.sess.loginId = q.user
      BY RequestFacts DEF CopyPC
    <3> QED
      BY <1>1, <1>10, <2>1, <3>1
         DEF LogoutDeleteSession, LogoutSaveSession, At, DeleteSession, SaveCopy, TypeOK
  <2>5. \A u \in Users, t \in Tokens :
          Lists(session'[u], t) => t # q.tok /\ Lists(session[u], t)
    <3> SUFFICES ASSUME NEW u \in Users, NEW t \in Tokens, Lists(session'[u], t)
                 PROVE  t # q.tok /\ Lists(session[u], t)
      OBVIOUS
    <3>1. CASE u = q.user
      BY <2>3, <3>1
    <3>2. CASE u # q.user
      BY <1>1, <2>2, <2>4, <3>2
    <3> QED
      BY <3>1, <3>2
  <2>6. n.pc = "idle"
    BY <1>1, <1>2, <1>10, LogoutEffects DEF Done, Ends
  <2>7. NowhereListed(q.tok)'
    BY <1>3, <1>4, <2>5 DEF NowhereListed
  <2>8. \A u \in Users, t \in Tokens : Lists(session'[u], t) =>
          tokenMap'[t] # NONE \/ Foreign(p, u)
    BY <1>1, <1>5, <2>1, <2>5
  <2>9. \A t \in revoked : tokenMap'[t] = NONE /\ NowhereListed(t)'
    BY <1>1, <2>1, <2>5 DEF NowhereListed
  <2> QED
    BY <1>1, <1>3, <1>4, <2>1, <2>2, <2>6, <2>7, <2>8, <2>9, SettledKept
<1> QED
  BY <1>6, <1>7, <1>8, <1>9, <1>10 DEF Logout

LEMMA AuthSaveSettles ==
  ASSUME Faulty = FALSE, IInv, IInv', ListInv, SettledInv, Record,
         NEW p \in Procs, Turn(p), Auth(p) \/ Save(p)
  PROVE  SettledInv'
<1> USE DEF LogoutPC, AuthPC, SavePC, DroppedPC, FreshPC, KickPC, UserPC, CopyPC
<1> DEFINE q == req[p]
           n == req'[p]
<1>1. /\ TypeOK /\ KnowsList(q) /\ SettledRequest(q)
      /\ \A u \in Users, t \in Tokens : Lists(session[u], t) =>
           /\ owner[t] = u
           /\ tokenMap[t] # NONE \/ Unsettled(q, t) \/ Foreign(p, u)
      /\ \A t \in revoked :
           tokenMap[t] = NONE /\ NowhereListed(t) /\ t \in Tokens /\ t \in issued
      /\ \A t \in issued : owner[t] # NONE
  BY SettledNow DEF ListInv
<1>2. ~ Fails(p)
  BY DEF Fails
<1>3. q.pc \in AuthPC \cup SavePC
  BY DEF Auth, CheckToken, CheckActive, CheckTouch, LoadSession, Save, SaveGet,
         SaveSet, At
<1>4. \A t : ~ Unsettled(q, t)
  BY <1>3 DEF Unsettled
<1>5. CASE Auth(p)
  <2>1. /\ q.tok \in issued /\ q.op = "auth" /\ q.answer = "none"
        /\ UNCHANGED <<tokenMap, session, owner>>
    BY <1>1, <1>5, RequestFacts
       DEF Auth, CheckToken, CheckActive, CheckTouch, LoadSession, At, Touch,
           store, SettledRequest
  <2>2. /\ n.tok = q.tok /\ n.op = "auth"
        /\ n.pc \in {"idle", "chkAct", "chkTouch", "loadSess", "outGet"}
    BY <1>1, <1>2, <1>5, <2>1, AuthEffects DEF Auth, GoesAs, Goes, Ends
  <2> QED
    BY <1>4, <2>1, <2>2, SettledRead
<1>6. CASE SaveGet(p)
  <2>1. UNCHANGED <<tokenMap, session, owner>> /\ q.op = "save"
    BY <1>6, RequestFacts DEF SaveGet, At, store
  <2>2. n.op = "save" /\ n.pc \in {"idle", "saveSet"}
    BY <1>1, <1>6, <2>1, SaveEffects DEF Goes, Ends
  <2> QED
    BY <1>4, <2>1, <2>2, SettledRead
<1>7. CASE SaveSet(p)
  <2>1. /\ q.pc = "saveSet" /\ q.user \in Users /\ q.sess.loginId = q.user
        /\ SaveCopy(q.sess) /\ UNCHANGED <<tokenMap, owner>>
        /\ session[q.user] # NONE /\ q.sess.terms = session[q.user].terms
        /\ q.op = "save"
    BY <1>1, <1>7, RequestFacts DEF SaveSet, At, KnowsList, SaveCopy
  <2>2. \A u \in Users : \A t : Lists(session'[u], t) => Lists(session[u], t)
    BY <1>1, <2>1 DEF SaveCopy, TypeOK, Lists
  <2>3. n.op = "save" /\ n.pc = "idle"
    BY <1>1, <1>2, <1>7, <2>1, SaveEffects DEF Ends
  <2>4. \A u \in Users, t \in Tokens : Lists(session'[u], t) =>
          tokenMap'[t] # NONE \/ Foreign(p, u)
    BY <1>1, <1>4, <2>1, <2>2
  <2>5. \A t \in revoked : tokenMap'[t] = NONE /\ NowhereListed(t)'
    BY <1>1, <2>1, <2>2 DEF NowhereListed
  <2> QED
    BY <1>1, <2>1, <2>3, <2>4, <2>5, SettledKept
<1> QED
  BY <1>5, <1>6, <1>7 DEF Save

LEMMA SettledStep ==
  ASSUME Apart, Expiring = FALSE, Faulty = FALSE, IInv, IInv', ListInv,
         SettledInv, [Next]_vars
  PROVE  SettledInv'
<1> USE DEF LogoutPC, AuthPC, FreshPC
<1>1. CASE UNCHANGED vars
  BY <1>1 DEF vars, history, SettledInv, Recorded, Returned, BeingRemoved,
              LoggedOut, SettledRequest, Unsettled, NowhereListed
<1>2. ASSUME Record, NEW p \in Procs, Start(p)
      PROVE  SettledInv'
  <2>1. TypeOK
    BY DEF IInv
  <2>2. req[p].pc = "idle" /\ UNCHANGED <<tokenMap, session, owner>>
    BY <1>2, <2>1, StartEffects DEF store
  <2>3. \A t : ~ Unsettled(req[p], t)
    BY <2>2 DEF Unsettled, DroppedPC, KickPC
  <2>4. /\ req'[p].pc \in {"idle", "shareGet", "newGet", "replGet", "saveGet",
                            "outGet", "chkTok"}
        /\ req'[p].op \in {"logout", "login"} => req'[p].answer = "none"
        /\ req'[p].pc \in {"outGet", "chkTok"} => req'[p].tok \in issued
    BY <1>2, <2>1, StartEffects DEF Begins, AfterReplaced
  <2> QED
    BY <1>2, <2>2, <2>3, <2>4, TurnTaken, SettledRead
<1>3. ASSUME Record, NEW p \in Procs, Handle(p)
      PROVE  SettledInv'
  <2>1. Turn(p)
    BY <1>3, TurnTaken
  <2> QED
    BY <1>3, <2>1, KickSettles, LoginSettles, LogoutSettles, AuthSaveSettles
       DEF Handle, Login
<1>4. ASSUME Record, NEW t \in Tokens, GoIdle(t)
      PROVE  SettledInv'
  <2>1. UNCHANGED <<tokenMap, session, owner, req>> /\ Recorded
    BY <1>4 DEF GoIdle, SettledInv
  <2>2. Returned' = Returned /\ BeingRemoved' = BeingRemoved /\ LoggedOut' = LoggedOut
    BY <2>1 DEF Returned, BeingRemoved, LoggedOut
  <2>3. issued' = issued /\ condemned' = condemned /\ revoked' = revoked
    BY <1>4, <2>1, <2>2 DEF Record, Recorded
  <2> QED
    BY <2>1, <2>2, <2>3
       DEF SettledInv, Recorded, SettledRequest, Unsettled, NowhereListed
<1> QED
  BY <1>1, <1>2, <1>3, <1>4 DEF Next, Step, Expire, StoreFails

LEMMA SettledInit == Init => SettledInv
BY DEF Init, NoRequest, SettledInv, Recorded, Returned, BeingRemoved, LoggedOut,
       Lists, SettledRequest, LogoutPC, AuthPC, FreshPC

\* When the requests of an account come one after another and the store never
\* fails, a token that was logged out is never accepted again, shared or not:
\* see RevokedStaysDead.
THEOREM RevokedStayDeadAlone ==
  ASSUME Expiring = FALSE, Faulty = FALSE
  PROVE  ApartSpec => []RevokedStaysDead
<1>1. /\ IInv /\ IInv' /\ Apart /\ ListInv /\ SettledInv
         /\ [Next /\ Apart']_vars => SettledInv'
      /\ SettledInv => RevokedStaysDead
  BY SettledStep DEF SettledInv, RevokedStaysDead
<1> QED
  BY <1>1, SettledInit, ListAlways, PTL DEF ApartSpec

-----------------------------------------------------------------------------
(* A token in the hands of a client has a last-activity stamp *)

LEMMA TimedNow ==
  ASSUME IInv, TimedInv, NEW p \in Procs, Turn(p)
  PROVE  /\ TypeOK /\ Recorded
         /\ \A t \in issued : t \in Tokens /\ owner[t] # NONE
         /\ req[p].pc \in FreshPC => req[p].tok \notin issued
         /\ req[p].pc \in RenewPC => IsShare
         /\ \A t \in issued : tokenMap[t] # NONE => lastActive[t] # "absent"
BY DEF IInv, TypeOK, TimedInv, IssuedTokenIsTimed

\* What a step has to keep in order.
LEMMA TimedKept ==
  ASSUME IInv, TimedInv, Record, NEW p \in Procs, Turn(p),
         \A t \in issued : tokenMap'[t] # NONE => lastActive'[t] # "absent",
         req'[p].op = "login" /\ req'[p].answer = "ok" =>
           /\ req'[p].tok \in issued \/ OwnToken(p, req'[p].tok)
           /\ lastActive'[req'[p].tok] # "absent",
         req'[p].pc \in FreshPC =>
           req'[p].tok \notin issued /\ req'[p].answer # "ok",
         req'[p].pc \in RenewPC => IsShare
  PROVE  TimedInv'
<1>1. /\ Recorded'
      /\ \A t \in issued' : t \in issued \/
           (req'[p].op = "login" /\ req'[p].answer = "ok" /\ t = req'[p].tok)
  BY RecordNow DEF TimedInv
<1>2. \A t \in issued' : tokenMap'[t] # NONE => lastActive'[t] # "absent"
  BY <1>1
<1>3. req'[p].pc \in FreshPC => req'[p].tok \notin issued'
  BY <1>1
<1>4. ASSUME NEW o \in Procs, o # p
      PROVE  /\ req'[o].pc \in FreshPC => req'[o].tok \notin issued'
             /\ req'[o].pc \in RenewPC => IsShare
  <2>1. req'[o] = req[o]
    BY <1>4 DEF Turn
  <2>2. req[o].pc \in FreshPC => ~ OwnToken(p, req[o].tok)
    BY <1>4, AccountKnown DEF Turn, OwnToken, Foreign, FreshPC, OwnedPC
  <2> QED
    BY <1>1, <2>1, <2>2 DEF TimedInv
<1> QED
  BY <1>1, <1>2, <1>3, <1>4 DEF TimedInv, IssuedTokenIsTimed

\* A step that deletes token keys and writes stamps at most.
LEMMA TimedQuiet ==
  ASSUME IInv, TimedInv, Record, NEW p \in Procs, Turn(p), UNCHANGED owner,
         \A t \in Tokens : tokenMap'[t] # NONE =>
           tokenMap[t] # NONE /\ (lastActive[t] # "absent" => lastActive'[t] # "absent"),
         req'[p].op = "login" => req'[p].answer # "ok",
         req'[p].pc \in FreshPC =>
           /\ req[p].pc \in FreshPC /\ req'[p].tok = req[p].tok
           /\ req'[p].answer # "ok",
         req'[p].pc \in RenewPC => IsShare
  PROVE  TimedInv'
<1>1. /\ \A t \in issued : t \in Tokens /\ owner[t] # NONE
      /\ \A t \in issued : tokenMap[t] # NONE => lastActive[t] # "absent"
      /\ req[p].pc \in FreshPC => req[p].tok \notin issued
  BY TimedNow
<1> QED
  BY <1>1, TimedKept

LEMMA LoginTimes ==
  ASSUME ActiveCheck = TRUE, IsShare = FALSE \/ SettledInv,
         IInv, ListInv, RefusalInv, TimedInv, Record, NEW p \in Procs, Turn(p), Login(p)
  PROVE  TimedInv'
<1> USE DEF LoginPC, OwnedPC, FreshPC, RenewPC, AfterReplaced
<1> DEFINE q == req[p]
           n == req'[p]
<1>1. /\ TypeOK /\ KnowsList(q) /\ InUse(q)
      /\ \A t \in issued : t \in Tokens /\ owner[t] # NONE
      /\ q.pc \in FreshPC => q.tok \notin issued
      /\ q.pc \in RenewPC => IsShare
      /\ \A t \in issued : tokenMap[t] # NONE => lastActive[t] # "absent"
  BY TimedNow DEF ListInv, RefusalInv
<1>2. /\ q.op = "login" /\ q.answer = "none" /\ q.user \in Users
      /\ q.pc \in OwnedPC => q.tok \in Tokens /\ OwnToken(p, q.tok)
  <2>1. q.pc \in LoginPC
    BY DEF Login, ReplacedGet, ReplacedDeleteToken, ReplacedDeleteActive,
           ReplacedSave, ShareGet, RenewToken, RenewGet, RenewSave, RenewActive,
           NewGet, NewSave, NewToken, NewActive, At
  <2> QED
    BY <2>1, RequestFacts, AccountKnown DEF OwnToken, Foreign, UserPC
<1>3. Fails(p) => n.pc = "idle" /\ n.answer = "503"
  BY DEF Fails, Ends
<1>4. UNCHANGED <<tokenMap, lastActive>> =>
        \A t \in Tokens : tokenMap'[t] # NONE =>
          tokenMap[t] # NONE /\ (lastActive[t] # "absent" => lastActive'[t] # "absent")
  OBVIOUS
<1>5. CASE ReplacedGet(p) \/ ReplacedSave(p)
  <2>1. UNCHANGED <<tokenMap, lastActive, owner>>
    BY <1>5 DEF ReplacedGet, ReplacedSave, SaveCopy, store
  <2>2. /\ n.pc \in {"idle", "replSave", "replDelTok", "newGet", "shareGet"}
        /\ n.answer # "ok" /\ (n.pc = "shareGet" => IsShare)
    BY <1>1, <1>2, <1>3, <1>5, KickEffects DEF Goes
  <2> QED
    BY <1>4, <2>1, <2>2, TimedQuiet
<1>6. CASE ReplacedDeleteToken(p)
  <2>1. PICK x \in q.todo :
          DeleteToken(x.token) /\ (Goes(p, "replDelAct", q.sess, q.todo) \/ Fails(p))
    BY <1>1, <1>6, KickEffects
  <2>2. UNCHANGED <<lastActive, owner>> /\ n.pc \in {"idle", "replDelAct"}
        /\ n.answer # "ok"
    BY <1>2, <1>3, <1>6, <2>1 DEF ReplacedDeleteToken, DeleteToken, Goes
  <2>3. \A t \in Tokens : tokenMap'[t] # NONE => tokenMap[t] # NONE
    BY <1>1, <2>1 DEF DeleteToken, TypeOK
  <2> QED
    BY <2>2, <2>3, TimedQuiet
<1>7. CASE ReplacedDeleteActive(p)
  <2>1. PICK x \in q.todo :
          IsFirst(x, q.todo) /\ DeleteLastActive(x.token)
    BY <1>7 DEF ReplacedDeleteActive
  <2>2. UNCHANGED owner /\ n.pc \in {"idle", "replDelTok", "replSave"}
        /\ n.answer # "ok"
    BY <1>1, <1>2, <1>3, <1>7, KickEffects DEF ReplacedDeleteActive, Goes
  <2>3. tokenMap[x.token] = NONE
    BY <1>1, <1>7, <2>1 DEF ReplacedDeleteActive, At, KnowsList
  <2>4. \A t \in Tokens : tokenMap'[t] # NONE =>
          tokenMap[t] # NONE /\ (lastActive[t] # "absent" => lastActive'[t] # "absent")
    BY <1>1, <2>1, <2>3 DEF DeleteLastActive, TypeOK
  <2> QED
    BY <2>2, <2>4, TimedQuiet
<1>8. CASE ShareGet(p) \/ NewSave(p)
  <2>1. UNCHANGED <<tokenMap, lastActive, owner>>
    BY <1>8 DEF ShareGet, NewSave, SaveCopy, store
  <2>2. /\ n.pc \in {"idle", "newGet", "renewTok", "newTok"} /\ n.answer # "ok"
        /\ n.pc = "renewTok" => q.pc = "shareGet"
        /\ n.pc = "newTok" => q.pc = "newSave" /\ n.tok = q.tok
    BY <1>1, <1>2, <1>3, <1>8, LoginEffects DEF ShareGet, NewSave, At, Goes
  <2> QED
    BY <1>1, <1>4, <2>1, <2>2, TimedQuiet
<1>9. CASE RenewToken(p)
  <2>1. q.pc = "renewTok" /\ SetToken(q.tok, q.user) /\ UNCHANGED owner
    BY <1>9 DEF RenewToken, At
  <2>2. tokenMap[q.tok] # NONE
    BY <1>1, <2>1, ConfigAssumption DEF SettledInv, SettledRequest
  <2>3. \A t \in Tokens : tokenMap'[t] # NONE => tokenMap[t] # NONE
    BY <1>1, <2>1, <2>2 DEF SetToken, TypeOK
  <2>4. n.pc \in {"idle", "renewGet"} /\ n.answer # "ok"
    BY <1>1, <1>2, <1>3, <1>9, LoginEffects DEF Goes
  <2> QED
    BY <1>1, <2>1, <2>3, <2>4, TimedQuiet DEF SetToken
<1>10. CASE RenewGet(p) \/ RenewSave(p)
  <2>1. /\ q.pc \in {"renewGet", "renewSave"}
        /\ UNCHANGED <<tokenMap, lastActive, owner>>
    BY <1>10 DEF RenewGet, RenewSave, At, SaveCopy, store
  <2>2. session[q.user] # NONE
    <3>1. tokenMap[q.tok] # NONE /\ owner[q.tok] = q.user /\ q.tok \in Tokens
      BY <1>1, <2>1, RequestFacts DEF InUse
    <3> QED
      BY <3>1 DEF IInv, StoreOK, ListInv, LiveTokenListed, Listed
  <2>3. n.pc \in {"idle", "renewSave", "renewAct"} /\ n.answer # "ok"
    BY <1>1, <1>2, <1>3, <1>10, <2>2, LoginEffects DEF Goes
  <2> QED
    BY <1>1, <1>4, <2>1, <2>3, TimedQuiet
<1>11. CASE RenewActive(p) \/ NewActive(p)
  <2>1. /\ q.pc \in {"renewAct", "newAct"} /\ Touch(q.tok) /\ UNCHANGED owner
    BY <1>11 DEF RenewActive, NewActive, At
  <2>2. /\ q.tok \in Tokens /\ OwnToken(p, q.tok) /\ UNCHANGED tokenMap
        /\ lastActive'[q.tok] = "recent"
        /\ \A t \in Tokens : lastActive[t] # "absent" => lastActive'[t] # "absent"
    BY <1>1, <1>2, <2>1 DEF Touch, TypeOK
  <2>3. n.pc = "idle" /\ n.tok = q.tok
    BY <1>1, <1>11, LoginEffects DEF Ends, Fails
  <2> QED
    BY <1>1, <2>1, <2>2, <2>3, TimedKept
<1>12. CASE NewGet(p)
  <2>1. UNCHANGED <<tokenMap, lastActive>>
    BY <1>12 DEF NewGet, store
  <2>2. /\ n.pc = "newSave" /\ n.tok \in Tokens /\ owner[n.tok] = NONE
        /\ owner' = [owner EXCEPT ![n.tok] = q.user] /\ n.answer = "none"
    BY <1>2, <1>12, NewGetEffect
  <2>3. n.tok \notin issued
    BY <1>1, <2>2
  <2> QED
    BY <1>1, <2>1, <2>2, <2>3, TimedKept
<1>13. CASE NewToken(p)
  <2>1. q.pc = "newTok" /\ SetToken(q.tok, q.user) /\ UNCHANGED owner
    BY <1>13 DEF NewToken, At
  <2>2. \A t \in issued : tokenMap'[t] = tokenMap[t] /\ UNCHANGED lastActive
    BY <1>1, <2>1 DEF SetToken, TypeOK
  <2>3. n.pc \in {"idle", "newAct"} /\ n.tok = q.tok /\ n.answer # "ok"
    BY <1>1, <1>2, <1>13, LoginEffects DEF Goes, Ends, Fails
  <2> QED
    BY <1>1, <2>1, <2>2, <2>3, TimedKept
<1> QED
  BY <1>5, <1>6, <1>7, <1>8, <1>9, <1>10, <1>11, <1>12, <1>13 DEF Login

LEMMA OtherTimes ==
  ASSUME IInv, ListInv, TimedInv, Record, NEW p \in Procs, Turn(p),
         Logout(p) \/ Auth(p) \/ Save(p)
  PROVE  TimedInv'
<1> USE DEF LogoutPC, AuthPC, SavePC, FreshPC, RenewPC, DroppedPC
<1> DEFINE q == req[p]
           n == req'[p]
<1>1. TypeOK /\ KnowsList(q)
  BY DEF IInv, ListInv
<1>2. /\ q.pc \in LogoutPC \cup AuthPC \cup SavePC /\ q.op # "login"
      /\ q.pc \in LogoutPC \cup AuthPC => q.tok \in Tokens
  <2>1. q.pc \in LogoutPC \cup AuthPC \cup SavePC
    BY DEF Logout, LogoutGet, LogoutDeleteToken, LogoutDeleteActive,
           LogoutGetSession, LogoutDeleteSession, LogoutSaveSession, Auth,
           CheckToken, CheckActive, CheckTouch, LoadSession, Save, SaveGet,
           SaveSet, At
  <2> QED
    BY <2>1, RequestFacts
<1>3. /\ n.op # "login"
      /\ n.pc \in {"idle", "outGet", "outDelTok", "outDelAct", "outSessGet",
                   "outSessDel", "outSessSave", "chkAct", "chkTouch",
                   "loadSess", "saveSet"}
  <2>1. CASE Logout(p)
    BY <1>1, <1>2, <2>1, LogoutEffects DEF Logout, GoesAs, Goes, Done, Ends, Fails
  <2>2. CASE Auth(p)
    BY <1>1, <1>2, <2>2, AuthEffects DEF Auth, GoesAs, Goes, Ends, Fails
  <2>3. CASE Save(p)
    BY <1>1, <1>2, <2>3, SaveEffects DEF Save, Goes, Ends, Fails
  <2> QED
    BY <2>1, <2>2, <2>3
<1>4. UNCHANGED owner
  BY DEF Logout, LogoutGet, LogoutDeleteToken, LogoutDeleteActive,
         LogoutGetSession, LogoutDeleteSession, LogoutSaveSession, Auth,
         CheckToken, CheckActive, CheckTouch, LoadSession, Save, SaveGet, SaveSet
<1>5. \A t \in Tokens : tokenMap'[t] # NONE =>
        tokenMap[t] # NONE /\ (lastActive[t] # "absent" => lastActive'[t] # "absent")
  <2>1. CASE LogoutDeleteToken(p)
    BY <1>1, <2>1 DEF LogoutDeleteToken, DeleteToken, TypeOK
  <2>2. CASE LogoutDeleteActive(p)
    <3>1. tokenMap[q.tok] = NONE
      BY <1>1, <2>2 DEF LogoutDeleteActive, At, KnowsList
    <3> QED
      BY <1>1, <2>2, <3>1 DEF LogoutDeleteActive, DeleteLastActive, TypeOK
  <2>3. CASE CheckTouch(p)
    BY <1>1, <2>3 DEF CheckTouch, Touch, TypeOK
  <2>4. CASE UNCHANGED <<tokenMap, lastActive>>
    BY <2>4
  <2> QED
    BY <2>1, <2>2, <2>3, <2>4
       DEF Logout, LogoutGet, LogoutGetSession, LogoutDeleteSession,
           LogoutSaveSession, DeleteSession, SaveCopy, Auth, CheckToken,
           CheckActive, LoadSession, Save, SaveGet, SaveSet, store
<1> QED
  BY <1>3, <1>4, <1>5, TimedQuiet

LEMMA TimedStep ==
  ASSUME Apart, Expiring = FALSE, ActiveCheck = TRUE,
         IsShare = FALSE \/ SettledInv,
         IInv, ListInv, RefusalInv, TimedInv, [Next]_vars
  PROVE  TimedInv'
<1> USE DEF FreshPC, RenewPC
<1>1. CASE UNCHANGED vars
  BY <1>1 DEF vars, history, TimedInv, Recorded, Returned, BeingRemoved,
              LoggedOut, IssuedTokenIsTimed
<1>2. ASSUME Record, NEW p \in Procs, Start(p)
      PROVE  TimedInv'
  <2>1. TypeOK
    BY DEF IInv
  <2>2. UNCHANGED <<tokenMap, lastActive, owner>>
    BY <1>2, <2>1, StartEffects DEF store
  <2>3. /\ req'[p].pc \in {"idle", "shareGet", "newGet", "replGet", "saveGet",
                            "outGet", "chkTok"}
        /\ req'[p].op = "login" => req'[p].answer # "ok"
        /\ req'[p].pc = "shareGet" => IsShare
    BY <1>2, <2>1, StartEffects DEF Begins, AfterReplaced
  <2> QED
    BY <1>2, <2>2, <2>3, TurnTaken, TimedQuiet
<1>3. ASSUME Record, NEW p \in Procs, Handle(p)
      PROVE  TimedInv'
  <2>1. Turn(p)
    BY <1>3, TurnTaken
  <2> QED
    BY <1>3, <2>1, LoginTimes, OtherTimes DEF Handle
<1>4. ASSUME Record, NEW p \in Procs, StoreFails(p)
      PROVE  TimedInv'
  <2>1. Ends(p, "503") /\ UNCHANGED <<tokenMap, lastActive, owner>>
    BY <1>4, EndsNow DEF StoreFails, store, IInv
  <2> QED
    BY <1>4, <2>1, TurnTaken, TimedQuiet DEF Ends
<1>5. ASSUME Record, NEW t \in Tokens, GoIdle(t)
      PROVE  TimedInv'
  <2>1. UNCHANGED <<tokenMap, owner, req>> /\ Recorded
    BY <1>5 DEF GoIdle, TimedInv
  <2>2. Returned' = Returned /\ BeingRemoved' = BeingRemoved /\ LoggedOut' = LoggedOut
    BY <2>1 DEF Returned, BeingRemoved, LoggedOut
  <2>3. issued' = issued /\ condemned' = condemned /\ revoked' = revoked
    BY <1>5, <2>1, <2>2 DEF Record, Recorded
  <2>4. \A x \in issued : lastActive[x] # "absent" => lastActive'[x] # "absent"
    BY <1>5 DEF GoIdle, IInv, TypeOK
  <2> QED
    BY <2>1, <2>2, <2>3, <2>4 DEF TimedInv, Recorded, IssuedTokenIsTimed
<1> QED
  BY <1>1, <1>2, <1>3, <1>4, <1>5 DEF Next, Step, Expire

LEMMA TimedInit == Init => TimedInv
<1> SUFFICES ASSUME Init PROVE TimedInv
  OBVIOUS
<1>1. Recorded
  BY RefusalInit DEF RefusalInv
<1>2. \A p \in Procs : req[p].pc = "idle"
  BY DEF Init, NoRequest
<1>3. issued = {} /\ \A p \in Procs : req[p].pc \notin FreshPC \cup RenewPC
  BY <1>2 DEF Init, FreshPC, RenewPC
<1> QED
  BY <1>1, <1>3 DEF TimedInv, IssuedTokenIsTimed

\* When the requests of an account come one after another a token in the hands
\* of a client has a last-activity stamp as long as it is accepted, provided
\* tokens are not shared or the store does not fail: see IssuedTokenIsTimed.
THEOREM IssuedTokensTimed ==
  ASSUME Expiring = FALSE, ActiveCheck = TRUE,
         IsShare = FALSE \/ Faulty = FALSE
  PROVE  ApartSpec => []IssuedTokenIsTimed
<1>1. IInv /\ IInv' /\ Apart /\ ListInv /\ RefusalInv /\ [Next /\ Apart']_vars
        => RefusalInv'
  BY RefusalStep
<1>2. TimedInv => IssuedTokenIsTimed
  BY DEF TimedInv
<1>3. CASE IsShare = FALSE
  <2>1. IInv /\ Apart /\ ListInv /\ RefusalInv /\ TimedInv /\ [Next /\ Apart']_vars
          => TimedInv'
    BY <1>3, TimedStep
  <2> QED
    BY <1>1, <1>2, <2>1, RefusalInit, TimedInit, ListAlways, PTL DEF ApartSpec
<1>4. CASE Faulty = FALSE
  <2>1. IInv /\ IInv' /\ Apart /\ ListInv /\ SettledInv /\ [Next /\ Apart']_vars
          => SettledInv'
    BY <1>4, SettledStep
  <2>2. IInv /\ Apart /\ ListInv /\ RefusalInv /\ SettledInv /\ TimedInv
          /\ [Next /\ Apart']_vars => TimedInv'
    BY TimedStep
  <2> QED
    BY <1>1, <1>2, <2>1, <2>2, RefusalInit, SettledInit, TimedInit, ListAlways,
       PTL DEF ApartSpec
<1> QED
  BY <1>3, <1>4

-----------------------------------------------------------------------------
(* A token that was idle when the request came in is not accepted *)

\* A step that makes no stamp idle, and that goes on with an idle token to the
\* check of its last activity at most.
LEMMA IdleKept ==
  ASSUME IInv, NEW p \in Procs, Turn(p), IdleInv,
         \A t \in Tokens : lastActive'[t] = "idle" => lastActive[t] = "idle",
         IdleRequest(req[p])'
  PROVE  IdleInv'
<1> USE DEF AuthPC
<1>1. ASSUME NEW o \in Procs, o # p
      PROVE  IdleRequest(req[o])'
  <2>1. req'[o] = req[o] /\ IdleRequest(req[o])
    BY <1>1 DEF Turn, IdleInv
  <2>2. req[o].pc \in AuthPC => lastActive'[req[o].tok] = lastActive[req[o].tok]
    BY <1>1, AccountKnown DEF Turn, Untouched
  <2> QED
    BY <2>1, <2>2 DEF IdleRequest
<1> QED
  BY <1>1 DEF IdleInv

\* Requests other than authenticated ones have nothing to check.
LEMMA OthersNotIdle ==
  ASSUME NEW p \in Procs, req'[p].op # "auth"
  PROVE  IdleRequest(req[p])'
BY DEF IdleRequest

LEMMA StampsNotIdle ==
  ASSUME TypeOK, NEW p \in Procs, Handle(p)
  PROVE  \A t \in Tokens : lastActive'[t] = "idle" => lastActive[t] = "idle"
<1>1. CASE \E t : Touch(t)
  BY <1>1 DEF Touch, TypeOK
<1>2. CASE \E t : DeleteLastActive(t)
  BY <1>2 DEF DeleteLastActive, TypeOK
<1>3. CASE UNCHANGED lastActive
  BY <1>3
<1>4. Login(p) => (\E t : Touch(t)) \/ (\E t : DeleteLastActive(t))
                    \/ UNCHANGED lastActive
  BY DEF Login, ReplacedGet, ReplacedDeleteToken, ReplacedDeleteActive,
         ReplacedSave, ShareGet, RenewToken, RenewGet, RenewSave, RenewActive,
         NewGet, NewSave, NewToken, NewActive, DeleteToken, SetToken, SaveCopy,
         store
<1>5. Logout(p) => (\E t : DeleteLastActive(t)) \/ UNCHANGED lastActive
  BY DEF Logout, LogoutGet, LogoutDeleteToken, LogoutDeleteActive,
         LogoutGetSession, LogoutDeleteSession, LogoutSaveSession, DeleteToken,
         DeleteSession, SaveCopy, store
<1>6. Auth(p) \/ Save(p) => (\E t : Touch(t)) \/ UNCHANGED lastActive
  BY DEF Auth, CheckToken, CheckActive, CheckTouch, LoadSession, Save, SaveGet,
         SaveSet, SaveCopy, store
<1> QED
  BY <1>1, <1>2, <1>3, <1>4, <1>5, <1>6 DEF Handle

LEMMA HandleIdles ==
  ASSUME Faulty = FALSE, IInv, IdleInv, NEW p \in Procs, Turn(p), Handle(p)
  PROVE  IdleRequest(req[p])'
<1> USE DEF LoginPC, LogoutPC, AuthPC, SavePC
<1> DEFINE q == req[p]
           n == req'[p]
<1>1. TypeOK /\ IdleRequest(q) /\ ~ Fails(p)
  BY DEF IInv, IdleInv, Fails
<1>2. CASE Login(p)
  <2>1. q.op = "login"
    BY <1>2, RequestFacts
       DEF Login, ReplacedGet, ReplacedDeleteToken, ReplacedDeleteActive,
           ReplacedSave, ShareGet, RenewToken, RenewGet, RenewSave,
           RenewActive, NewGet, NewSave, NewToken, NewActive, At
  <2>2. CASE NewGet(p)
    BY <2>1, <2>2, NewGetEffect, OthersNotIdle
  <2>3. CASE ~ NewGet(p)
    <3>1. n.op = "login"
      BY <1>1, <1>2, <2>1, <2>3, KickEffects, LoginEffects DEF Login, Goes, Ends
    <3> QED
      BY <3>1, OthersNotIdle
  <2> QED
    BY <2>2, <2>3
<1>3. CASE Save(p)
  <2>1. n.op = "save"
    BY <1>1, <1>3, SaveEffects, RequestFacts DEF Save, SaveGet, SaveSet, At, Goes, Ends
  <2> QED
    BY <2>1, OthersNotIdle
<1>4. CASE Logout(p)
  <2>1. q.pc \in LogoutPC
    BY <1>4 DEF Logout, LogoutGet, LogoutDeleteToken, LogoutDeleteActive,
            LogoutGetSession, LogoutDeleteSession, LogoutSaveSession, At
  <2>2. /\ n.pc \in LogoutPC \cup {"idle"} /\ n.op = q.op
        /\ n.op = "auth" => n.answer # "ok"
    BY <1>1, <1>4, <2>1, LogoutEffects, RequestFacts
       DEF Logout, GoesAs, Goes, Done, Ends
  <2> QED
    BY <2>2 DEF IdleRequest
<1>5. CASE CheckToken(p)
  <2>1. q.pc = "chkTok" /\ q.op = "auth" /\ q.answer = "none" /\ UNCHANGED lastActive
    BY <1>5, RequestFacts DEF CheckToken, At, store
  <2>2. \/ n.pc = "idle" /\ n.answer = "401"
        \/ /\ n.tok = q.tok /\ n.wasIdle = q.wasIdle /\ n.op = "auth"
           /\ n.answer = "none"
           /\ n.pc = IF ActiveCheck THEN "chkAct" ELSE "loadSess"
    BY <1>1, <1>5, <2>1, AuthEffects DEF GoesAs, Ends
  <2>3. n.pc = "idle" /\ n.answer = "401" => IdleRequest(q)'
    BY DEF IdleRequest
  <2>4. q.wasIdle => ActiveCheck /\ lastActive[q.tok] = "idle"
    BY <1>1, <2>1, RequestFacts DEF IdleRequest, IdleInv
  <2> QED
    BY <2>1, <2>2, <2>3, <2>4 DEF IdleRequest
<1>6. CASE CheckActive(p) \/ CheckTouch(p) \/ LoadSession(p)
  <2>1. q.op = "auth" /\ q.pc \in {"chkAct", "chkTouch", "loadSess"}
        /\ q.answer = "none"
    BY <1>6, RequestFacts DEF CheckActive, CheckTouch, LoadSession, At
  <2>2. CASE q.wasIdle
    <3>1. CheckActive(p) /\ lastActive[q.tok] = "idle"
      BY <1>1, <1>6, <2>1, <2>2
         DEF CheckActive, CheckTouch, LoadSession, At, IdleRequest
    <3>2. n.pc = "outGet" /\ n.answer = "none"
      BY <1>1, <2>1, <3>1, AuthEffects DEF Goes
    <3> QED
      BY <3>2 DEF IdleRequest
  <2>3. CASE ~ q.wasIdle
    <3>1. n.wasIdle = q.wasIdle
      BY <1>1, <1>6, AuthEffects DEF Goes, Ends
    <3> QED
      BY <2>3, <3>1 DEF IdleRequest
  <2> QED
    BY <2>2, <2>3
<1> QED
  BY <1>2, <1>3, <1>4, <1>5, <1>6 DEF Handle, Auth

LEMMA IdleStep ==
  ASSUME Apart, Expiring = FALSE, Faulty = FALSE, IInv, IdleInv, [Next]_vars
  PROVE  IdleInv'
<1>1. TypeOK
  BY DEF IInv
<1>2. CASE UNCHANGED vars
  BY <1>2 DEF vars, IdleInv, IdleRequest
<1>3. ASSUME NEW p \in Procs, Start(p)
      PROVE  IdleInv'
  <2>1. UNCHANGED lastActive
    BY <1>1, <1>3, StartEffects DEF store
  <2>2. IdleRequest(req[p])'
    BY <1>1, <1>3, <2>1, StartEffects DEF Begins, IdleRequest
  <2> QED
    BY <1>3, <2>1, <2>2, TurnTaken, IdleKept
<1>4. ASSUME NEW p \in Procs, Handle(p)
      PROVE  IdleInv'
  <2>1. Turn(p)
    BY <1>4, TurnTaken
  <2> QED
    BY <1>1, <1>4, <2>1, HandleIdles, StampsNotIdle, IdleKept
<1>5. ASSUME NEW t \in Tokens, GoIdle(t)
      PROVE  IdleInv'
  <2>1. ActiveCheck /\ UNCHANGED req
    BY <1>5 DEF GoIdle
  <2>2. \A x \in Tokens : lastActive[x] = "idle" => lastActive'[x] = "idle"
    BY <1>1, <1>5 DEF GoIdle, TypeOK
  <2>3. \A p \in Procs : req[p].op = "auth" /\ req[p].pc \in {"chkTok", "chkAct"} =>
          req[p].tok \in Tokens
    BY RequestFacts DEF AuthPC
  <2> QED
    BY <2>1, <2>2, <2>3 DEF IdleInv, IdleRequest
<1> QED
  BY <1>2, <1>3, <1>4, <1>5 DEF Next, Step, Expire, StoreFails

LEMMA IdleInit == Init => IdleInv
BY DEF Init, NoRequest, IdleInv, IdleRequest

\* When the requests of an account come one after another and the store never
\* fails, a token that was idle when the request came in is not accepted: see
\* IdleTokenRejected.
THEOREM IdleTokensRejected ==
  ASSUME Expiring = FALSE, Faulty = FALSE
  PROVE  ApartSpec => []IdleTokenRejected
<1>1. /\ IInv /\ Apart /\ IdleInv /\ [Next /\ Apart']_vars => IdleInv'
      /\ IdleInv => IdleTokenRejected
  BY IdleStep DEF IdleInv, IdleRequest, IdleTokenRejected
<1> QED
  BY <1>1, IdleInit, ApartAlways, PTL DEF ApartSpec
===============================================================================
