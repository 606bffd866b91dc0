-------------------------- MODULE SaTokenRevocation --------------------------
(***************************************************************************)
(* Proofs about revocation when tokens are not shared (IsShare = FALSE):   *)
(* the store's token keys implement TokenLifecycle, and a token some       *)
(* Logout reported as removed is never accepted again.                     *)
(***************************************************************************)
EXTENDS SaTokenProofs

RenewPC == {"shareGet", "renewTok", "renewGet", "renewSave", "renewAct"}
MintPC  == {"newSave", "newTok"}     \* a token drawn, its key not yet written
FreshPC == MintPC \cup {"newAct"}    \* a token drawn and not yet returned
DroppedPC == {"outDelAct", "outSessGet", "outSessDel", "outSessSave"}

\* What is known of one request when nothing is shared.
Unshared(r) ==
  /\ r.pc \notin RenewPC
  /\ r.pc \in MintPC => tokenMap[r.tok] = NONE
  /\ r.pc \in FreshPC => r.tok \notin issued
  /\ r.pc \in LogoutPC \cup AuthPC => r.tok \in issued
  /\ r.pc \in DroppedPC => tokenMap[r.tok] = NONE
  /\ r.op = "login" /\ r.answer = "ok" => r.tok \in issued
  /\ r.op = "logout" => r.tok \in issued
  /\ r.op = "logout" /\ r.answer = "ok" => r.tok \in revoked

\* No two logins hold the same fresh token.
FreshDistinct ==
  \A p, q \in Procs :
    req[p].pc \in FreshPC /\ req[q].pc \in FreshPC /\ req[p].tok = req[q].tok
      => p = q

RInv ==
  /\ \A p \in Procs : Unshared(req[p])
  /\ FreshDistinct
  /\ \A t \in issued : owner[t] # NONE
  /\ revoked \subseteq issued
  /\ RevokedStaysDead

-----------------------------------------------------------------------------
(* Steps that write no new token key *)

\* One handler moves to r; token keys are deleted at most.
QuietStep(p, r) ==
  /\ Goto(p, r)
  /\ UNCHANGED owner
  /\ \A t \in Tokens : tokenMap'[t] \in {tokenMap[t], NONE}
  /\ r.pc \notin RenewPC
  /\ r.pc \in FreshPC => req[p].pc \in FreshPC /\ r.tok = req[p].tok
  /\ r.pc \in MintPC => req[p].pc \in MintPC
  /\ r.pc \in LogoutPC \cup AuthPC \/ r.op = "logout" => r.tok \in issued
  /\ r.pc \in DroppedPC => tokenMap'[r.tok] = NONE
  /\ r.op = "login" /\ r.answer = "ok" =>
       \/ r.tok \in issued
       \/ r.pc = "idle" /\ req[p].pc \in FreshPC /\ r.tok = req[p].tok
  /\ r.op = "logout" /\ r.answer = "ok" =>
       r.tok \in revoked \/ tokenMap'[r.tok] = NONE

LEMMA QuietKeeps ==
  ASSUME IInv, IInv', RInv, Record, NEW p \in Procs, NEW r \in Request,
         QuietStep(p, r)
  PROVE  RInv'
<1>1. req'[p] = r /\ \A q \in Procs \ {p} : req'[q] = req[q]
  BY DEF QuietStep, Goto, IInv, TypeOK
<1>2. \A q \in Procs : Unshared(req[q]) /\ RequestOK(req[q]) /\ req[q] \in Request
  BY DEF RInv, IInv, TypeOK
<1>3. \A t \in issued' : \/ t \in issued
                         \/ /\ r.pc = "idle" /\ req[p].pc \in FreshPC
                            /\ t = req[p].tok
  BY <1>1, <1>2 DEF Record, Returned, QuietStep, Unshared
<1>4. FreshDistinct'
  BY <1>1 DEF QuietStep, RInv, FreshDistinct
<1>5. \A q \in Procs : req[q].pc \in FreshPC =>
         req[q].tok \in Tokens /\ owner[req[q].tok] # NONE
  BY <1>2, NoneAssumption DEF RequestOK, Controlled, OwnedPC, FreshPC, MintPC
<1>6. \A t \in issued' : owner'[t] # NONE
  BY <1>3, <1>5 DEF QuietStep, RInv
<1>7. \A t \in revoked' :
        \/ t \in revoked
        \/ t \in issued /\ t \in Tokens /\ tokenMap'[t] = NONE
  <2> SUFFICES ASSUME NEW t \in revoked', t \notin revoked
               PROVE  t \in issued /\ t \in Tokens /\ tokenMap'[t] = NONE
    OBVIOUS
  <2>1. PICK q \in Procs : req'[q].op = "logout" /\ req'[q].answer = "ok"
                           /\ t = req'[q].tok
    BY DEF Record, LoggedOut
  <2>2. q = p
    BY <1>1, <1>2, <2>1 DEF Unshared
  <2>3. t \in issued /\ tokenMap'[t] = NONE
    BY <1>1, <2>1, <2>2 DEF QuietStep
  <2> QED
    BY <2>3 DEF IInv, TypeOK
<1>8. revoked' \subseteq issued' /\ RevokedStaysDead'
  BY <1>7 DEF RInv, RevokedStaysDead, QuietStep, Record, IInv, TypeOK
<1>9. \A q \in Procs : Unshared(req[q])'
  <2> SUFFICES ASSUME NEW q \in Procs PROVE Unshared(req[q])'
    OBVIOUS
  <2>1. issued \subseteq issued' /\ revoked \subseteq revoked'
    BY DEF Record
  <2>2. /\ req'[q].op = "login" /\ req'[q].answer = "ok" => req'[q].tok \in issued'
        /\ req'[q].op = "logout" /\ req'[q].answer = "ok" =>
             req'[q].tok \in revoked'
    BY DEF Record, Returned, LoggedOut
  <2>3. CASE q = p
    <3>1. r.pc \in FreshPC => r.tok \notin issued'
      BY <1>2, <1>3 DEF QuietStep, Unshared, FreshPC, MintPC
    <3>2. r.pc \in MintPC => tokenMap'[r.tok] = NONE
      BY <1>2, <1>5 DEF QuietStep, Unshared, FreshPC
    <3> QED
      BY <1>1, <2>1, <2>2, <2>3, <3>1, <3>2 DEF QuietStep, Unshared
  <2>4. CASE q # p
    <3>1. req'[q] = req[q] /\ Unshared(req[q])
      BY <1>1, <1>2, <2>4
    <3>2. req[q].pc \in FreshPC => req[q].tok \notin issued'
      BY <1>3, <2>4, <3>1 DEF Unshared, RInv, FreshDistinct
    <3>3. req[q].pc \in MintPC => tokenMap'[req[q].tok] = NONE
      BY <1>5, <3>1 DEF QuietStep, Unshared, FreshPC
    <3>4. req[q].pc \in DroppedPC => tokenMap'[req[q].tok] = NONE
      <4>1. req[q].pc \in DroppedPC => req[q].tok \in Tokens
        BY <1>2 DEF RequestOK, Controlled, DroppedPC, LogoutPC
      <4> QED
        BY <3>1, <4>1 DEF QuietStep, Unshared
    <3> QED
      BY <2>1, <2>2, <3>1, <3>2, <3>3, <3>4 DEF Unshared
  <2> QED
    BY <2>3, <2>4
<1> QED
  BY <1>4, <1>6, <1>8, <1>9 DEF RInv

\* Token keys are untouched, or one is deleted by a handler that mints none.
DeletesAtMost(p) ==
  \/ UNCHANGED tokenMap
  \/ req[p].pc \notin MintPC /\ \E t \in Tokens : DeleteToken(t)

Quiet(p) == DeletesAtMost(p) /\ \E r \in Request : QuietStep(p, r)

\* The handler goes on with r, if the write was answered, or fails.
LEMMA AnsweredQuiet ==
  ASSUME IInv, IInv', RInv, NEW p \in Procs, NEW r,
         Answered(p, r), req[p].pc # "idle", UNCHANGED owner, DeletesAtMost(p),
         Goto(p, r) => QuietStep(p, r)
  PROVE  Quiet(p)
<1>1. \A t \in Tokens : tokenMap'[t] \in {tokenMap[t], NONE}
  BY DEF DeletesAtMost, DeleteToken, IInv, TypeOK
<1>2. CASE Goto(p, r)
  <2>1. req'[p] = r /\ req'[p] \in Request
    BY <1>2 DEF Goto, IInv, TypeOK
  <2> QED
    BY <1>2, <2>1 DEF Quiet
<1>3. CASE Goto(p, Finished(req[p], "503"))
  <2> DEFINE f == Finished(req[p], "503")
  <2>1. req[p] \in Request /\ Unshared(req[p])
    BY DEF IInv, TypeOK, RInv
  <2>2. /\ f \in Request /\ f.pc = "idle" /\ f.answer = "503"
        /\ f.op = req[p].op /\ f.tok = req[p].tok
    BY <2>1 DEF Finished, Request
  <2>3. QuietStep(p, f)
    BY <1>1, <1>3, <2>1, <2>2
       DEF QuietStep, RenewPC, FreshPC, MintPC, LogoutPC, AuthPC, DroppedPC, Unshared
  <2> QED
    BY <2>2, <2>3 DEF Quiet
<1> QED
  BY <1>2, <1>3 DEF Answered

LEMMA LoginQuiet ==
  ASSUME IsShare = FALSE, IInv, IInv', RInv, NEW p \in Procs,
         \/ ReplacedGet(p) \/ ReplacedDeleteToken(p)
         \/ ReplacedDeleteActive(p) \/ ReplacedSave(p)
         \/ NewSave(p) \/ NewActive(p)
  PROVE  Quiet(p)
<1> USE DEF RenewPC, FreshPC, MintPC, LogoutPC, AuthPC, DroppedPC, LoginPC,
            AfterReplaced
<1> DEFINE q == req[p]
<1>1. /\ q \in Request /\ Unshared(q)
      /\ q.pc \in LoginPC => q.op = "login" /\ q.answer = "none"
  BY DEF IInv, TypeOK, RInv, RequestOK, Controlled
<1>2. UNCHANGED tokenMap => \A t \in Tokens : tokenMap'[t] \in {tokenMap[t], NONE}
  OBVIOUS
<1>3. CASE ReplacedGet(p)
  <2>1. q.pc = "replGet" /\ UNCHANGED <<tokenMap, owner>>
    BY <1>3 DEF ReplacedGet, At, store
  <2>2. PICK r : Goto(p, r) /\ r \in {[q EXCEPT !.pc = AfterReplaced],
           [q EXCEPT !.pc = IF session[q.user].terms = {} THEN "replSave"
                            ELSE "replDelTok",
                     !.sess = session[q.user], !.todo = session[q.user].terms]}
    BY <1>3 DEF ReplacedGet
  <2>3. r.op = "login" /\ r.answer = "none"
        /\ r.pc \in {"newGet", "replSave", "replDelTok"}
    BY <1>1, <2>1, <2>2 DEF Request
  <2>4. req'[p] = r /\ req'[p] \in Request
    BY <2>2 DEF Goto, IInv, TypeOK
  <2>5. QuietStep(p, r)
    BY <1>2, <2>1, <2>2, <2>3 DEF QuietStep
  <2> QED
    BY <2>1, <2>4, <2>5 DEF Quiet, DeletesAtMost
<1>4. CASE ReplacedDeleteToken(p)
  <2> DEFINE r == [q EXCEPT !.pc = "replDelAct"]
  <2>1. PICK x \in q.todo : DeleteToken(x.token) /\ Answered(p, r)
    BY <1>4 DEF ReplacedDeleteToken
  <2>2. q.pc = "replDelTok" /\ UNCHANGED owner /\ x.token \in Tokens
    BY <1>1, <1>4 DEF ReplacedDeleteToken, At, Request, Terminal
  <2>3. \A t \in Tokens : tokenMap'[t] \in {tokenMap[t], NONE}
    BY <2>1 DEF DeleteToken, IInv, TypeOK
  <2>4. DeletesAtMost(p)
    BY <2>1, <2>2 DEF DeletesAtMost
  <2>5. Goto(p, r) => QuietStep(p, r)
    BY <1>1, <2>2, <2>3 DEF QuietStep, Request
  <2> QED
    BY <2>1, <2>2, <2>4, <2>5, AnsweredQuiet
<1>5. CASE ReplacedDeleteActive(p)
  <2>1. PICK x \in q.todo :
          Answered(p, [q EXCEPT !.todo = q.todo \ {x},
                                !.pc = IF q.todo = {x} THEN "replSave"
                                       ELSE "replDelTok"])
    BY <1>1, <1>5 DEF ReplacedDeleteActive, Request
  <2> DEFINE r == [q EXCEPT !.todo = q.todo \ {x},
                            !.pc = IF q.todo = {x} THEN "replSave"
                                   ELSE "replDelTok"]
  <2>2. q.pc = "replDelAct" /\ UNCHANGED <<tokenMap, owner>>
    BY <1>5 DEF ReplacedDeleteActive, At, DeleteLastActive
  <2>3. Goto(p, r) => QuietStep(p, r)
    BY <1>1, <1>2, <2>2 DEF QuietStep, Request
  <2> QED
    BY <2>1, <2>2, <2>3, AnsweredQuiet DEF DeletesAtMost
<1>6. CASE ReplacedSave(p)
  <2> DEFINE r == [q EXCEPT !.pc = AfterReplaced, !.sess = NONE]
  <2>1. q.pc = "replSave" /\ Answered(p, r) /\ UNCHANGED <<tokenMap, owner>>
    BY <1>6 DEF ReplacedSave, At, SaveCopy
  <2>2. Goto(p, r) => QuietStep(p, r)
    BY <1>1, <1>2, <2>1 DEF QuietStep, Request
  <2> QED
    BY <2>1, <2>2, AnsweredQuiet DEF DeletesAtMost
<1>7. CASE NewSave(p)
  <2> DEFINE r == [q EXCEPT !.pc = "newTok", !.sess = NONE]
  <2>1. q.pc = "newSave" /\ Answered(p, r) /\ UNCHANGED <<tokenMap, owner>>
    BY <1>7 DEF NewSave, At, SaveCopy
  <2>2. Goto(p, r) => QuietStep(p, r)
    BY <1>1, <1>2, <2>1 DEF QuietStep, Request
  <2> QED
    BY <2>1, <2>2, AnsweredQuiet DEF DeletesAtMost
<1>8. CASE NewActive(p)
  <2> DEFINE r == Finished(q, "ok")
  <2>1. q.pc = "newAct" /\ Answered(p, r) /\ UNCHANGED <<tokenMap, owner>>
    BY <1>8 DEF NewActive, At, Touch
  <2>2. r.pc = "idle" /\ r.tok = q.tok /\ r.op = "login"
    BY <1>1, <2>1 DEF Finished, Request
  <2>3. Goto(p, r) => QuietStep(p, r)
    BY <1>1, <1>2, <2>1, <2>2 DEF QuietStep
  <2> QED
    BY <2>1, <2>3, AnsweredQuiet DEF DeletesAtMost
<1> QED
  BY <1>3, <1>4, <1>5, <1>6, <1>7, <1>8

\* A step of the handler that leaves the token keys alone.
LEMMA GotoQuiet ==
  ASSUME IInv, IInv', NEW p \in Procs, NEW r, Goto(p, r),
         UNCHANGED <<tokenMap, owner>>,
         r.pc \notin RenewPC, r.pc \notin FreshPC,
         r.pc \in LogoutPC \cup AuthPC \/ r.op = "logout" => r.tok \in issued,
         r.pc \in DroppedPC => tokenMap[r.tok] = NONE,
         r.op = "login" /\ r.answer = "ok" => r.tok \in issued,
         r.op = "logout" /\ r.answer = "ok" =>
           r.tok \in revoked \/ tokenMap[r.tok] = NONE
  PROVE  Quiet(p)
<1>1. req'[p] = r /\ req'[p] \in Request
  BY DEF Goto, IInv, TypeOK
<1>2. QuietStep(p, r)
  BY DEF QuietStep, FreshPC
<1> QED
  BY <1>1, <1>2 DEF Quiet, DeletesAtMost

LEMMA LogoutQuiet ==
  ASSUME IInv, IInv', RInv, NEW p \in Procs, Logout(p)
  PROVE  Quiet(p)
<1> USE DEF RenewPC, FreshPC, MintPC, LogoutPC, AuthPC, DroppedPC, SavePC
<1> DEFINE q == req[p]
<1>1. q \in Request /\ Unshared(q)
  BY DEF IInv, TypeOK, RInv
<1>2. q.pc \in LogoutPC
  BY DEF Logout, LogoutGet, LogoutDeleteToken, LogoutDeleteActive,
         LogoutGetSession, LogoutDeleteSession, LogoutSaveSession, At
<1>3. /\ q.op \in {"logout", "auth"} /\ q.answer = "none"
      /\ q.tok \in issued /\ q.tok \in Tokens
  BY <1>1, <1>2 DEF IInv, RequestOK, Controlled, Unshared
<1>4. /\ LogoutDone(q).pc = "idle" /\ LogoutDone(q).op = q.op
      /\ LogoutDone(q).tok = q.tok
  BY <1>1 DEF LogoutDone, Finished, Request
<1>5. CASE LogoutGet(p)
  <2> DEFINE r == [q EXCEPT !.pc = "outDelTok", !.user = tokenMap[q.tok]]
  <2>1. Goto(p, r) /\ UNCHANGED <<tokenMap, owner>>
    BY <1>5 DEF LogoutGet, store
  <2> QED
    BY <1>1, <1>3, <2>1, GotoQuiet DEF Request
<1>6. CASE LogoutDeleteToken(p)
  <2> DEFINE r == [q EXCEPT !.pc = "outDelAct"]
  <2>1. /\ q.pc = "outDelTok" /\ DeleteToken(q.tok) /\ Answered(p, r)
        /\ UNCHANGED owner
    BY <1>6 DEF LogoutDeleteToken, At
  <2>2. /\ \A t \in Tokens : tokenMap'[t] \in {tokenMap[t], NONE}
        /\ tokenMap'[q.tok] = NONE
    BY <1>3, <2>1 DEF DeleteToken, IInv, TypeOK
  <2>3. Goto(p, r) => QuietStep(p, r)
    BY <1>1, <1>3, <2>1, <2>2 DEF QuietStep, Request
  <2>4. DeletesAtMost(p)
    BY <1>3, <2>1 DEF DeletesAtMost
  <2> QED
    BY <2>1, <2>3, <2>4, AnsweredQuiet
<1>7. CASE LogoutDeleteActive(p)
  <2> DEFINE r == IF q.user = NONE THEN LogoutDone(q)
                  ELSE [q EXCEPT !.pc = "outSessGet"]
  <2>1. /\ q.pc = "outDelAct" /\ Answered(p, r) /\ UNCHANGED <<tokenMap, owner>>
    BY <1>7 DEF LogoutDeleteActive, At, DeleteLastActive
  <2>2. /\ r.pc \in {"idle", "outSessGet"} /\ r.op = q.op /\ r.tok = q.tok
        /\ tokenMap[q.tok] = NONE
    BY <1>1, <1>4, <2>1 DEF Request, Unshared
  <2> HIDE DEF r
  <2>3. Goto(p, r) => QuietStep(p, r)
    BY <1>3, <2>1, <2>2 DEF QuietStep
  <2> QED
    BY <2>1, <2>3, AnsweredQuiet DEF DeletesAtMost
<1>8. CASE LogoutGetSession(p)
  <2>1. q.pc = "outSessGet" /\ UNCHANGED <<tokenMap, owner>>
    BY <1>8 DEF LogoutGetSession, At, store
  <2>2. tokenMap[q.tok] = NONE
    BY <1>1, <2>1 DEF Unshared
  <2>3. CASE session[q.user] = NONE
    <3>1. Goto(p, LogoutDone(q))
      BY <1>8, <2>3 DEF LogoutGetSession
    <3> QED
      BY <1>3, <1>4, <2>1, <2>2, <3>1, GotoQuiet
  <2>4. CASE session[q.user] # NONE
    <3> DEFINE kept == RemoveTerminal(session[q.user], q.tok)
               next == IF kept.terms = {} THEN "outSessDel" ELSE "outSessSave"
               r == [q EXCEPT !.sess = kept, !.pc = next]
    <3>1. Goto(p, r)
      BY <1>8, <2>4 DEF LogoutGetSession
    <3>2. next \in {"outSessDel", "outSessSave"}
      OBVIOUS
    <3> HIDE DEF kept, next
    <3>3. r.pc = next /\ r.op = q.op /\ r.tok = q.tok /\ r.answer = q.answer
      BY <1>1 DEF Request
    <3> HIDE DEF r
    <3> QED
      BY <1>3, <2>1, <2>2, <3>1, <3>2, <3>3, GotoQuiet
  <2> QED
    BY <2>3, <2>4
<1>9. CASE LogoutDeleteSession(p) \/ LogoutSaveSession(p)
  <2> DEFINE r == LogoutDone(q)
  <2>1. /\ q.pc \in DroppedPC /\ Answered(p, r) /\ UNCHANGED <<tokenMap, owner>>
    BY <1>9 DEF LogoutDeleteSession, LogoutSaveSession, At, DeleteSession, SaveCopy
  <2>2. tokenMap[q.tok] = NONE
    BY <1>1, <2>1 DEF Unshared
  <2>3. Goto(p, r) => QuietStep(p, r)
    BY <1>3, <1>4, <2>1, <2>2 DEF QuietStep
  <2> QED
    BY <2>1, <2>3, AnsweredQuiet DEF DeletesAtMost
<1> QED
  BY <1>5, <1>6, <1>7, <1>8, <1>9 DEF Logout

LEMMA AuthQuiet ==
  ASSUME IInv, IInv', RInv, NEW p \in Procs, Auth(p)
  PROVE  Quiet(p)
<1> USE DEF RenewPC, FreshPC, MintPC, LogoutPC, AuthPC, DroppedPC, SavePC
<1> DEFINE q == req[p]
<1>1. q \in Request /\ Unshared(q)
  BY DEF IInv, TypeOK, RInv
<1>2. q.pc \in AuthPC
  BY DEF Auth, CheckToken, CheckActive, CheckTouch, LoadSession, At
<1>3. q.op = "auth" /\ q.answer = "none" /\ q.tok \in issued
  BY <1>1, <1>2 DEF IInv, RequestOK, Controlled, Unshared
<1>4. \A a : /\ Finished(q, a).pc = "idle" /\ Finished(q, a).op = q.op
             /\ Finished(q, a).tok = q.tok
  BY <1>1 DEF Finished, Request
<1>5. UNCHANGED <<tokenMap, owner>>
  BY DEF Auth, CheckToken, CheckActive, CheckTouch, LoadSession, Touch, store
<1>6. CASE CheckToken(p)
  <2>1. CASE tokenMap[q.tok] = NONE
    <3>1. Goto(p, Finished(q, "401"))
      BY <1>6, <2>1 DEF CheckToken
    <3> QED
      BY <1>3, <1>4, <1>5, <3>1, GotoQuiet
  <2>2. CASE tokenMap[q.tok] # NONE
    <3> DEFINE r == [q EXCEPT !.user = tokenMap[q.tok],
                       !.pc = IF ActiveCheck THEN "chkAct" ELSE "loadSess"]
    <3>1. Goto(p, r)
      BY <1>6, <2>2 DEF CheckToken
    <3> QED
      BY <1>1, <1>3, <1>5, <3>1, GotoQuiet DEF Request
  <2> QED
    BY <2>1, <2>2
<1>7. CASE CheckActive(p)
  <2>1. PICK pc \in {"outGet", "chkTouch"} : Goto(p, [q EXCEPT !.pc = pc])
    BY <1>7 DEF CheckActive
  <2> DEFINE r == [q EXCEPT !.pc = pc]
  <2>2. r.pc = pc /\ r.op = q.op /\ r.tok = q.tok /\ r.answer = q.answer
    BY <1>1 DEF Request
  <2> QED
    BY <1>3, <1>5, <2>1, <2>2, GotoQuiet
<1>8. CASE CheckTouch(p)
  <2> DEFINE r == [q EXCEPT !.pc = "loadSess"]
  <2>1. Answered(p, r)
    BY <1>8 DEF CheckTouch
  <2>2. Goto(p, r) => QuietStep(p, r)
    BY <1>1, <1>3, <1>5 DEF QuietStep, Request
  <2> QED
    BY <1>2, <1>5, <2>1, <2>2, AnsweredQuiet DEF DeletesAtMost
<1>9. CASE LoadSession(p)
  <2>1. PICK a : Goto(p, Finished(q, a))
    BY <1>9 DEF LoadSession
  <2> QED
    BY <1>3, <1>4, <1>5, <2>1, GotoQuiet
<1> QED
  BY <1>6, <1>7, <1>8, <1>9 DEF Auth

LEMMA SaveQuiet ==
  ASSUME IInv, IInv', RInv, NEW p \in Procs, Save(p)
  PROVE  Quiet(p)
<1> USE DEF RenewPC, FreshPC, MintPC, LogoutPC, AuthPC, DroppedPC, SavePC
<1> DEFINE q == req[p]
<1>1. q \in Request
  BY DEF IInv, TypeOK
<1>2. q.pc \in SavePC
  BY DEF Save, SaveGet, SaveSet, At
<1>3. q.op = "save" /\ q.answer = "none"
  BY <1>2 DEF IInv, RequestOK, Controlled
<1>4. \A a : Finished(q, a).pc = "idle" /\ Finished(q, a).op = q.op
  BY <1>1 DEF Finished, Request
<1>5. UNCHANGED <<tokenMap, owner>>
  BY DEF Save, SaveGet, SaveSet, SaveCopy, store
<1>6. CASE SaveGet(p)
  <2>1. CASE session[q.user] = NONE
    <3>1. Goto(p, Finished(q, "none"))
      BY <1>6, <2>1 DEF SaveGet
    <3> QED
      BY <1>3, <1>4, <1>5, <3>1, GotoQuiet
  <2>2. CASE session[q.user] # NONE
    <3> DEFINE s == [session[q.user] EXCEPT !.data = saves + 1]
               r == [q EXCEPT !.pc = "saveSet", !.sess = s]
    <3>1. Goto(p, r)
      BY <1>6, <2>2 DEF SaveGet
    <3> HIDE DEF s
    <3>2. r.pc = "saveSet" /\ r.op = "save"
      BY <1>1, <1>3 DEF Request
    <3> HIDE DEF r
    <3> QED
      BY <1>5, <3>1, <3>2, GotoQuiet
  <2> QED
    BY <2>1, <2>2
<1>7. CASE SaveSet(p)
  <2> DEFINE r == Finished(q, "ok")
  <2>1. Answered(p, r)
    BY <1>7 DEF SaveSet
  <2>2. Goto(p, r) => QuietStep(p, r)
    BY <1>3, <1>4, <1>5 DEF QuietStep
  <2> QED
    BY <1>2, <1>5, <2>1, <2>2, AnsweredQuiet DEF DeletesAtMost
<1> QED
  BY <1>6, <1>7 DEF Save

LEMMA StartQuiet ==
  ASSUME IsShare = FALSE, IInv, IInv', RInv, NEW p \in Procs,
         Start(p) \/ StoreFails(p)
  PROVE  Quiet(p)
<1> USE DEF RenewPC, FreshPC, MintPC, LogoutPC, AuthPC, DroppedPC, SavePC
<1> DEFINE q == req[p]
<1>1. q \in Request /\ Unshared(q)
  BY DEF IInv, TypeOK, RInv
<1>2. UNCHANGED <<tokenMap, owner>>
  BY DEF Start, StartLogin, StartSave, StartLogout, StartAuth, Anonymous,
         StoreFails, store
<1>3. ASSUME NEW u \in Users, StartLogin(p, u)
      PROVE  Quiet(p)
  <2> DEFINE r == [NoRequest EXCEPT !.op = "login", !.user = u,
                     !.pc = IF IsConcurrent THEN AfterReplaced ELSE "replGet"]
  <2>1. Goto(p, r)
    BY <1>3 DEF StartLogin
  <2>2. r.pc \in {"newGet", "replGet"} /\ r.op = "login" /\ r.answer = "none"
    BY DEF NoRequest, AfterReplaced
  <2> HIDE DEF r
  <2> QED
    BY <1>2, <2>1, <2>2, GotoQuiet
<1>4. ASSUME NEW u \in Users, StartSave(p, u)
      PROVE  Quiet(p)
  BY <1>2, <1>4, GotoQuiet DEF StartSave, NoRequest
<1>5. ASSUME NEW t \in Tokens, StartLogout(p, t)
      PROVE  Quiet(p)
  BY <1>2, <1>5, GotoQuiet DEF StartLogout, NoRequest
<1>6. ASSUME NEW t \in Tokens, StartAuth(p, t)
      PROVE  Quiet(p)
  <2> DEFINE b == lastActive[t] = "idle"
             r == [NoRequest EXCEPT !.op = "auth", !.pc = "chkTok", !.tok = t,
                                    !.wasIdle = b]
  <2>1. Goto(p, r) /\ t \in issued
    BY <1>6 DEF StartAuth
  <2> HIDE DEF b
  <2>2. r.pc = "chkTok" /\ r.op = "auth" /\ r.tok = t /\ r.answer = "none"
    BY DEF NoRequest
  <2> HIDE DEF r
  <2> QED
    BY <1>2, <2>1, <2>2, GotoQuiet
<1>7. CASE Anonymous(p)
  BY <1>2, <1>7, GotoQuiet DEF Anonymous, NoRequest
<1>8. CASE StoreFails(p)
  <2> DEFINE f == Finished(q, "503")
  <2>1. f.pc = "idle" /\ f.op = q.op /\ f.tok = q.tok /\ f.answer = "503"
    BY <1>1 DEF Finished, Request
  <2>2. Goto(p, f)
    BY <1>8 DEF StoreFails
  <2> HIDE DEF f
  <2> QED
    BY <1>1, <1>2, <2>1, <2>2, GotoQuiet DEF Unshared
<1> QED
  BY <1>3, <1>4, <1>5, <1>6, <1>7, <1>8 DEF Start

-----------------------------------------------------------------------------
(* Drawing a token, storing its key, and the environment *)

\* A step after which no handler has an outcome to record is recorded so.
LEMMA NothingRecorded ==
  ASSUME RInv, Record, NEW p \in Procs,
         \A q \in Procs \ {p} : req'[q] = req[q],
         req'[p].answer # "ok"
  PROVE  issued' = issued /\ revoked' = revoked
<1>1. \A q \in Procs : Unshared(req[q])
  BY DEF RInv
<1>2. Returned' \subseteq issued /\ LoggedOut' \subseteq revoked
  BY <1>1 DEF Returned, LoggedOut, Unshared
<1> QED
  BY <1>2 DEF Record

LEMMA NewGetUnshared ==
  ASSUME IInv, RInv, Record, NEW p \in Procs, NewGet(p)
  PROVE  /\ RInv'
         /\ tokenMap' = tokenMap
         /\ \E t \in Tokens, u \in Users :
              /\ owner[t] = NONE /\ owner' = [owner EXCEPT ![t] = u]
              /\ req'[p].pc = "newSave" /\ req'[p].tok = t
              /\ req[p].pc \notin MintPC
              /\ \A q \in Procs \ {p} : req'[q] = req[q]
<1> USE DEF RenewPC, FreshPC, MintPC, LogoutPC, AuthPC, DroppedPC
<1>1. /\ req[p] \in Request /\ req[p].pc = "newGet" /\ req[p].user \in Users
      /\ req[p].op = "login" /\ req[p].answer = "none"
      /\ tokenMap' = tokenMap
  BY DEF NewGet, At, store, IInv, TypeOK, RequestOK, Controlled, LoginPC, UserPC
<1>2. PICK t \in Tokens :
        /\ owner[t] = NONE
        /\ owner' = [owner EXCEPT ![t] = req[p].user]
        /\ \E s : Goto(p, [req[p] EXCEPT !.pc = "newSave", !.tok = t, !.sess = s])
  BY DEF NewGet
<1>3. /\ req'[p].pc = "newSave" /\ req'[p].tok = t /\ req'[p].op = "login"
      /\ req'[p].answer = "none"
      /\ \A q \in Procs \ {p} : req'[q] = req[q]
  BY <1>1, <1>2 DEF Goto, IInv, TypeOK, Request
<1>4. issued' = issued /\ revoked' = revoked
  BY <1>3, NothingRecorded
<1>5. tokenMap[t] = NONE /\ t \notin issued
  BY <1>2 DEF IInv, StoreOK, RInv
<1>6. \A q \in Procs : req[q].pc \in FreshPC => req[q].tok # t
  BY <1>2, NoneAssumption DEF IInv, RequestOK, Controlled, OwnedPC
<1>7. FreshDistinct'
  BY <1>3, <1>6 DEF RInv, FreshDistinct
<1>8. \A q \in Procs : Unshared(req[q])'
  BY <1>1, <1>3, <1>4, <1>5 DEF RInv, Unshared
<1>9. \A x \in issued' : owner'[x] # NONE
  BY <1>1, <1>2, <1>4, NoneAssumption DEF RInv, IInv, TypeOK
<1>10. revoked' \subseteq issued' /\ RevokedStaysDead'
  BY <1>1, <1>4 DEF RInv, RevokedStaysDead
<1>11. RInv'
  BY <1>7, <1>8, <1>9, <1>10 DEF RInv
<1> QED
  BY <1>1, <1>2, <1>3, <1>11

\* The key of a fresh token: nobody else waits for it, nobody saw it yet.
LEMMA NewTokenUnshared ==
  ASSUME IInv, IInv', RInv, Record, NEW p \in Procs, NewToken(p)
  PROVE  /\ RInv'
         /\ UNCHANGED owner
         /\ req[p].pc = "newTok" /\ req'[p].pc \notin MintPC
         /\ tokenMap' = [tokenMap EXCEPT ![req[p].tok] = req[p].user]
         /\ \A q \in Procs \ {p} : req'[q] = req[q]
<1> USE DEF RenewPC, FreshPC, MintPC, LogoutPC, AuthPC, DroppedPC
<1> DEFINE q0 == req[p]
<1>1. /\ q0 \in Request /\ q0.pc = "newTok" /\ Unshared(q0)
      /\ UNCHANGED owner
      /\ tokenMap' = [tokenMap EXCEPT ![q0.tok] = q0.user]
  BY DEF NewToken, At, SetToken, IInv, TypeOK, RInv
<1>2. /\ q0.op = "login" /\ q0.tok \in Tokens /\ q0.user \in Users
      /\ owner[q0.tok] = q0.user
  BY <1>1 DEF IInv, RequestOK, Controlled, LoginPC, OwnedPC
<1>3. \A q \in Procs \ {p} : req'[q] = req[q]
  BY DEF NewToken, Answered, Goto, IInv, TypeOK
<1>4. /\ req'[p].pc \in {"newAct", "idle"} /\ req'[p].tok = q0.tok
      /\ req'[p].op = "login"
      /\ req'[p].pc = "newAct" => req'[p].answer # "ok"
  <2>1. q0.answer = "none"
    BY <1>1 DEF IInv, RequestOK, Controlled
  <2>2. \A a : /\ Finished(q0, a).pc = "idle" /\ Finished(q0, a).tok = q0.tok
               /\ Finished(q0, a).op = "login"
    BY <1>1, <1>2 DEF Finished, Request
  <2>3. PICK r \in {[q0 EXCEPT !.pc = "newAct"], Finished(q0, "ok"),
                    Finished(q0, "503")} : Goto(p, r)
    BY DEF NewToken, Answered
  <2>4. req'[p] = r
    BY <2>3 DEF Goto, IInv, TypeOK
  <2> QED
    BY <1>1, <1>2, <2>1, <2>2, <2>3, <2>4 DEF Request
<1>5. \A t \in issued' : t \in issued \/ (req'[p].pc = "idle" /\ t = q0.tok)
  <2> SUFFICES ASSUME NEW t \in issued', t \notin issued
               PROVE  req'[p].pc = "idle" /\ t = q0.tok
    OBVIOUS
  <2>1. PICK q \in Procs : req'[q].op = "login" /\ req'[q].answer = "ok"
                           /\ t = req'[q].tok
    BY DEF Record, Returned
  <2>2. q = p
    BY <1>3, <2>1 DEF RInv, Unshared
  <2> QED
    BY <1>4, <2>1, <2>2
<1>6. revoked' = revoked
  BY <1>3, <1>4 DEF RInv, Unshared, Record, LoggedOut
<1>7. \A q \in Procs \ {p} : req[q].pc \in FreshPC => req[q].tok # q0.tok
  BY <1>1 DEF RInv, FreshDistinct
<1>8. q0.tok \notin issued
  BY <1>1 DEF Unshared
<1>9. FreshDistinct'
  BY <1>3, <1>4, <1>7 DEF RInv, FreshDistinct
<1>10. \A t \in issued' : owner'[t] # NONE
  BY <1>1, <1>2, <1>5, NoneAssumption DEF RInv
<1>11. \A t \in issued : tokenMap'[t] = tokenMap[t]
  BY <1>1, <1>8 DEF IInv, TypeOK
<1>12. revoked' \subseteq issued' /\ RevokedStaysDead'
  BY <1>6, <1>11 DEF RInv, RevokedStaysDead, Record
<1>13. \A q \in Procs : Unshared(req[q])'
  <2> SUFFICES ASSUME NEW q \in Procs PROVE Unshared(req[q])'
    OBVIOUS
  <2>1. issued \subseteq issued'
    BY DEF Record
  <2>2. req'[q].op = "login" /\ req'[q].answer = "ok" => req'[q].tok \in issued'
    BY DEF Record, Returned
  <2>3. CASE q = p
    BY <1>4, <1>5, <1>8, <2>2, <2>3 DEF Unshared
  <2>4. CASE q # p
    <3>1. req'[q] = req[q] /\ Unshared(req[q])
      BY <1>3, <2>4 DEF RInv
    <3>2. req[q].pc \in FreshPC => req[q].tok \notin issued'
      BY <1>5, <1>7, <2>4, <3>1 DEF Unshared
    <3>3. req[q].pc \in MintPC => tokenMap'[req[q].tok] = NONE
      <4>1. req[q].pc \in MintPC => req[q].tok \in Tokens
        BY DEF IInv, RequestOK, Controlled, OwnedPC
      <4> QED
        BY <1>1, <1>7, <2>4, <3>1, <4>1 DEF Unshared, IInv, TypeOK
    <3>4. req[q].pc \in DroppedPC => tokenMap'[req[q].tok] = NONE
      BY <1>11, <3>1 DEF Unshared
    <3> QED
      BY <1>6, <2>1, <3>1, <3>2, <3>3, <3>4 DEF Unshared
  <2> QED
    BY <2>3, <2>4
<1>14. RInv'
  BY <1>9, <1>10, <1>12, <1>13 DEF RInv
<1> QED
  BY <1>1, <1>3, <1>4, <1>14

LEMMA EnvironmentUnshared ==
  ASSUME IInv, RInv, Record, UNCHANGED <<req, owner>>,
         \A t \in Tokens : tokenMap'[t] \in {tokenMap[t], NONE}
  PROVE  RInv'
<1>1. issued' = issued /\ revoked' = revoked
  BY DEF RInv, Unshared, Record, Returned, LoggedOut
<1>2. \A q \in Procs : req[q].pc \in MintPC \cup DroppedPC => req[q].tok \in Tokens
  BY DEF IInv, RequestOK, Controlled, OwnedPC, MintPC, DroppedPC, LogoutPC
<1>3. \A q \in Procs : Unshared(req[q])'
  BY <1>1, <1>2 DEF RInv, Unshared
<1>4. FreshDistinct'
  BY DEF RInv, FreshDistinct
<1>5. revoked \subseteq Tokens
  BY DEF IInv, TypeOK
<1>6. RevokedStaysDead'
  BY <1>1, <1>5 DEF RInv, RevokedStaysDead
<1> QED
  BY <1>1, <1>3, <1>4, <1>6 DEF RInv

-----------------------------------------------------------------------------
(* The stages of the tokens *)

Minting(t) == \E p \in Procs : req[p].tok = t /\ req[p].pc \in MintPC

LifecycleStep == [Lifecycle!Next]_(Lifecycle!lifecycle)

\* The stage of a token in the terms the lemmas below use.
LEMMA StageCases ==
  ASSUME NEW t
  PROVE  /\ owner[t] = NONE => Stage(t) = "fresh"
         /\ owner[t] # NONE /\ tokenMap[t] # NONE => Stage(t) = "live"
         /\ owner[t] # NONE /\ tokenMap[t] = NONE /\ Minting(t) => Stage(t) = "pending"
         /\ owner[t] # NONE /\ tokenMap[t] = NONE /\ ~Minting(t) => Stage(t) = "dead"
BY DEF Stage, Minting, MintPC

\* It depends on three things only.
LEMMA StageSame ==
  ASSUME NEW t, owner'[t] = owner[t], tokenMap'[t] = tokenMap[t],
         Minting(t)' <=> Minting(t)
  PROVE  Stage(t)' = Stage(t)
BY DEF Stage, Minting, MintPC

LEMMA StagesKept ==
  ASSUME UNCHANGED owner, \A t \in Tokens : Stage(t)' = Stage(t)
  PROVE  LifecycleStep
BY DEF LifecycleStep, Lifecycle!lifecycle

LEMMA StageRetires ==
  ASSUME NEW t \in Tokens, UNCHANGED owner,
         \A x \in Tokens \ {t} : Stage(x)' = Stage(x),
         Stage(t) \in {"pending", "live"}, Stage(t)' = "dead"
  PROVE  LifecycleStep
<1>1. Lifecycle!Retire(t)
  BY DEF Lifecycle!Retire
<1> QED
  BY <1>1 DEF LifecycleStep, Lifecycle!Next

\* Deleting a token key retires a live token, and leaves the others alone.
LEMMA DeleteRetires ==
  ASSUME IInv, RInv, NEW t \in Tokens, DeleteToken(t), UNCHANGED owner,
         \A x \in Tokens : Minting(x)' <=> Minting(x)
  PROVE  LifecycleStep
<1>1. /\ tokenMap'[t] = NONE
      /\ \A x \in Tokens \ {t} : tokenMap'[x] = tokenMap[x]
  BY DEF DeleteToken, IInv, TypeOK
<1>2. \A x \in Tokens \ {t} : Stage(x)' = Stage(x)
  BY <1>1, StageSame
<1>3. CASE tokenMap[t] = NONE
  <2>1. Stage(t)' = Stage(t)
    BY <1>1, <1>3, StageSame
  <2> QED
    BY <1>2, <2>1, StagesKept
<1>4. CASE tokenMap[t] # NONE
  <2>1. owner[t] # NONE /\ ~Minting(t)
    BY <1>4 DEF IInv, StoreOK, RInv, Unshared, Minting
  <2>2. Stage(t) = "live"
    BY <1>4, <2>1, StageCases
  <2>3. Stage(t)' = "dead"
    BY <1>1, <2>1 DEF Stage, Minting, MintPC
  <2> QED
    BY <1>2, <2>2, <2>3, StageRetires
<1> QED
  BY <1>3, <1>4

LEMMA QuietStage ==
  ASSUME IInv, RInv, NEW p \in Procs, Quiet(p)
  PROVE  LifecycleStep
<1>1. PICK r \in Request : QuietStep(p, r)
  BY DEF Quiet
<1>2. /\ req'[p] = r /\ \A q \in Procs \ {p} : req'[q] = req[q]
      /\ UNCHANGED owner
  BY <1>1 DEF QuietStep, Goto, IInv, TypeOK
<1>3. r.pc \in MintPC => req[p].pc \in MintPC /\ r.tok = req[p].tok
  BY <1>1 DEF QuietStep, FreshPC
<1>4. CASE req[p].pc \notin MintPC \/ r.pc \in MintPC
  <2>1. \A x : Minting(x)' <=> Minting(x)
    BY <1>2, <1>3, <1>4 DEF Minting
  <2>2. CASE UNCHANGED tokenMap
    BY <1>2, <2>1, <2>2, StageSame, StagesKept
  <2>3. ASSUME NEW t \in Tokens, DeleteToken(t)
        PROVE  LifecycleStep
    BY <1>2, <2>1, <2>3, DeleteRetires
  <2> QED
    BY <2>2, <2>3 DEF Quiet, DeletesAtMost
<1>5. CASE req[p].pc \in MintPC /\ r.pc \notin MintPC
  <2>1. PICK t \in Tokens :
          /\ t = req[p].tok /\ owner[t] # NONE /\ tokenMap[t] = NONE
          /\ Minting(t) /\ UNCHANGED tokenMap
    BY <1>5, NoneAssumption DEF Minting, IInv, RequestOK, Controlled, OwnedPC,
       MintPC, RInv, Unshared, Quiet, DeletesAtMost
  <2>2. \A q \in Procs \ {p} : req[q].pc \in MintPC => req[q].tok # t
    BY <1>5, <2>1 DEF RInv, FreshDistinct, FreshPC
  <2>3. ~Minting(t)'
    BY <1>2, <1>5, <2>2 DEF Minting
  <2>4. \A x \in Tokens \ {t} : Minting(x)' <=> Minting(x)
    BY <1>2, <1>5, <2>1 DEF Minting
  <2>5. \A x \in Tokens \ {t} : Stage(x)' = Stage(x)
    BY <1>2, <2>1, <2>4, StageSame
  <2>6. Stage(t) = "pending"
    BY <2>1, StageCases
  <2>7. Stage(t)' = "dead"
    BY <1>2, <2>1, <2>3 DEF Stage, Minting, MintPC
  <2> QED
    BY <1>2, <2>1, <2>5, <2>6, <2>7, StageRetires
<1> QED
  BY <1>4, <1>5

LEMMA NewGetStage ==
  ASSUME IInv, RInv, Record, NEW p \in Procs, NewGet(p)
  PROVE  LifecycleStep
<1>1. PICK t \in Tokens, u \in Users :
        /\ owner[t] = NONE /\ owner' = [owner EXCEPT ![t] = u]
        /\ req'[p].pc = "newSave" /\ req'[p].tok = t
        /\ req[p].pc \notin MintPC
        /\ \A q \in Procs \ {p} : req'[q] = req[q]
  BY NewGetUnshared
<1>2. /\ tokenMap' = tokenMap /\ owner'[t] # NONE /\ tokenMap[t] = NONE
      /\ \A x \in Tokens \ {t} : owner'[x] = owner[x]
  BY <1>1, NewGetUnshared, NoneAssumption DEF IInv, TypeOK, StoreOK
<1>3. \A x \in Tokens \ {t} : Minting(x)' <=> Minting(x)
  BY <1>1 DEF Minting, MintPC
<1>4. \A x \in Tokens \ {t} : Stage(x)' = Stage(x)
  BY <1>2, <1>3, StageSame
<1>5. Stage(t) = "fresh"
  BY <1>1, StageCases
<1>6. Stage(t)' = "pending"
  BY <1>1, <1>2 DEF Stage
<1>7. Lifecycle!Draw(t, u)
  BY <1>1, <1>4, <1>5, <1>6 DEF Lifecycle!Draw
<1> QED
  BY <1>7 DEF LifecycleStep, Lifecycle!Next

LEMMA NewTokenStage ==
  ASSUME IInv, IInv', RInv, Record, NEW p \in Procs, NewToken(p)
  PROVE  LifecycleStep
<1>1. /\ UNCHANGED owner
      /\ req[p].pc = "newTok" /\ req'[p].pc \notin MintPC
      /\ tokenMap' = [tokenMap EXCEPT ![req[p].tok] = req[p].user]
      /\ \A q \in Procs \ {p} : req'[q] = req[q]
  BY NewTokenUnshared
<1>2. PICK t \in Tokens :
        /\ t = req[p].tok /\ req[p].user \in Users /\ owner[t] # NONE
        /\ tokenMap[t] = NONE
  BY <1>1, NoneAssumption
     DEF IInv, RequestOK, Controlled, OwnedPC, RInv, Unshared, MintPC
<1>3. /\ tokenMap'[t] # NONE
      /\ \A x \in Tokens \ {t} : tokenMap'[x] = tokenMap[x]
  BY <1>1, <1>2, NoneAssumption DEF IInv, TypeOK
<1>4. \A x \in Tokens \ {t} : Minting(x)' <=> Minting(x)
  BY <1>1, <1>2 DEF Minting
<1>5. \A x \in Tokens \ {t} : Stage(x)' = Stage(x)
  BY <1>1, <1>3, <1>4, StageSame
<1>6. Stage(t) = "pending"
  BY <1>1, <1>2, StageCases DEF Minting, MintPC
<1>7. Stage(t)' = "live"
  BY <1>1, <1>2, <1>3 DEF Stage
<1>8. Lifecycle!Activate(t)
  BY <1>1, <1>2, <1>5, <1>6, <1>7 DEF Lifecycle!Activate
<1> QED
  BY <1>2, <1>8 DEF LifecycleStep, Lifecycle!Next

-----------------------------------------------------------------------------
(* Theorems *)

\* Every step keeps the invariant and is a step of TokenLifecycle, or none.
LEMMA StepUnshared ==
  ASSUME IsShare = FALSE, IInv, IInv', RInv, [Next]_vars
  PROVE  RInv' /\ LifecycleStep
<1>1. ASSUME NEW p \in Procs, Quiet(p), Record
      PROVE  RInv' /\ LifecycleStep
  BY <1>1, QuietKeeps, QuietStage DEF Quiet
<1>2. ASSUME NEW p \in Procs, Login(p), Record
      PROVE  RInv' /\ LifecycleStep
  <2>1. req[p].pc \notin RenewPC
    BY DEF RInv, Unshared
  <2>2. ~(ShareGet(p) \/ RenewToken(p) \/ RenewGet(p) \/ RenewSave(p)
          \/ RenewActive(p))
    BY <2>1 DEF ShareGet, RenewToken, RenewGet, RenewSave, RenewActive, At, RenewPC
  <2>3. CASE NewGet(p)
    BY <1>2, <2>3, NewGetUnshared, NewGetStage
  <2>4. CASE NewToken(p)
    BY <1>2, <2>4, NewTokenUnshared, NewTokenStage
  <2>5. CASE \/ ReplacedGet(p) \/ ReplacedDeleteToken(p)
             \/ ReplacedDeleteActive(p) \/ ReplacedSave(p)
             \/ NewSave(p) \/ NewActive(p)
    BY <1>1, <1>2, <2>5, LoginQuiet
  <2> QED
    BY <1>2, <2>2, <2>3, <2>4, <2>5 DEF Login
<1>3. ASSUME NEW p \in Procs, Record,
             Logout(p) \/ Auth(p) \/ Save(p) \/ Start(p) \/ StoreFails(p)
      PROVE  RInv' /\ LifecycleStep
  BY <1>1, <1>3, LogoutQuiet, AuthQuiet, SaveQuiet, StartQuiet
<1>4. ASSUME UNCHANGED <<req, owner>>, Record,
             UNCHANGED tokenMap \/ \E t \in Tokens : DeleteToken(t)
      PROVE  RInv' /\ LifecycleStep
  <2>1. \A t \in Tokens : tokenMap'[t] \in {tokenMap[t], NONE}
    BY <1>4 DEF DeleteToken, IInv, TypeOK
  <2>2. \A x : Minting(x)' <=> Minting(x)
    BY <1>4 DEF Minting
  <2>3. LifecycleStep
    BY <1>4, <2>2, DeleteRetires, StageSame, StagesKept
  <2> QED
    BY <1>4, <2>1, <2>3, EnvironmentUnshared
<1>5. CASE Next
  <2>1. Record
    BY <1>5 DEF Next
  <2>2. CASE \E t \in Tokens : GoIdle(t)
    BY <1>4, <2>1, <2>2 DEF GoIdle
  <2>3. CASE Expire
    BY <1>4, <2>1, <2>3 DEF Expire, DeleteLastActive, DeleteSession
  <2> QED
    BY <1>2, <1>3, <1>5, <2>1, <2>2, <2>3 DEF Next, Step, Handle
<1>6. CASE UNCHANGED vars
  <2>1. UNCHANGED <<tokenMap, req, owner, issued, revoked>>
    BY <1>6 DEF vars, history
  <2>2. RInv'
    BY <2>1 DEF RInv, Unshared, FreshDistinct, RevokedStaysDead
  <2>3. \A x : Minting(x)' <=> Minting(x)
    BY <2>1 DEF Minting
  <2> QED
    BY <2>1, <2>2, <2>3, StageSame, StagesKept
<1> QED
  BY <1>5, <1>6

LEMMA InitUnshared == Init => RInv /\ Lifecycle!Init
<1> SUFFICES ASSUME Init PROVE RInv /\ Lifecycle!Init
  OBVIOUS
<1>1. RInv
  BY DEF Init, RInv, Unshared, FreshDistinct, RevokedStaysDead, NoRequest,
         RenewPC, FreshPC, MintPC, LogoutPC, AuthPC, DroppedPC
<1>2. Lifecycle!Init
  BY StageCases DEF Init, Lifecycle!Init
<1> QED
  BY <1>1, <1>2

\* Without sharing, a token Logout reported as removed authenticates nobody,
\* whatever else runs, fails or expires: see RevokedStaysDead.
THEOREM RevocationIsFinal == ASSUME IsShare = FALSE PROVE Spec => []RevokedStaysDead
<1>1. IInv /\ IInv' /\ RInv /\ [Next]_vars => RInv'
  BY StepUnshared
<1>2. RInv => RevokedStaysDead
  BY DEF RInv
<1> QED
  BY <1>1, <1>2, InitUnshared, Invariance, PTL DEF Spec

\* Without sharing, the token keys of the store implement TokenLifecycle: see
\* TokensNeverRevive.
THEOREM TokensDieOnce == ASSUME IsShare = FALSE PROVE Spec => TokensNeverRevive
<1>1. IInv /\ IInv' /\ RInv /\ [Next]_vars =>
        RInv' /\ [Lifecycle!Next]_(Lifecycle!lifecycle)
  BY StepUnshared DEF LifecycleStep
<1> QED
  BY <1>1, InitUnshared, Invariance, PTL DEF Spec, TokensNeverRevive, Lifecycle!Spec
=============================================================================
