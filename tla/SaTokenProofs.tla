---------------------------- MODULE SaTokenProofs ----------------------------
(***************************************************************************)
(* Proofs about SaToken, for every set of accounts, tokens and handlers    *)
(* and every configuration: accounts are isolated and terminal lists well  *)
(* formed under all interleavings, store faults and expiries.              *)
(***************************************************************************)
EXTENDS SaToken, TLAPS

-----------------------------------------------------------------------------
(* The inductive invariant *)

\* A session value that belongs to account u, in the store or in a handler.
SessionOf(s, u) ==
  /\ s \in Session
  /\ s.loginId = u
  /\ \A x \in s.terms : owner[x.token] = u
  /\ WellFormed(s)

StoreOK ==
  /\ \A t \in Tokens : tokenMap[t] # NONE => tokenMap[t] = owner[t]
  /\ \A u \in Users : session[u] # NONE => SessionOf(session[u], u)

UserPC  == LoginPC \cup SavePC \cup {"outSessGet", "outSessDel", "outSessSave"}
OwnedPC == {"renewTok", "renewGet", "renewSave", "renewAct",
            "newSave", "newTok", "newAct", "chkAct", "chkTouch", "loadSess"}
CopyPC  == {"replDelTok", "replDelAct", "replSave", "renewSave", "newSave",
            "outSessSave", "saveSet"}
NoCopyPC == AuthPC \cup {"outGet", "outDelTok", "outDelAct", "outSessGet"}

\* What the program counter of a request says about its other fields.
Controlled(r) ==
  /\ r.pc \in LoginPC => r.op = "login"
  /\ r.pc \in LogoutPC =>
       /\ r.op \in {"logout", "auth"} /\ r.tok \in Tokens /\ owner[r.tok] # NONE
       /\ r.user = NONE \/ owner[r.tok] = r.user
  /\ r.pc \in AuthPC =>
       /\ r.op = "auth" /\ r.tok \in Tokens /\ owner[r.tok] # NONE
       /\ r.user = NONE \/ owner[r.tok] = r.user
  /\ r.pc \in SavePC => r.op = "save"
  /\ r.pc \in UserPC => r.user \in Users
  /\ r.pc \in OwnedPC =>
       r.user \in Users /\ r.tok \in Tokens /\ owner[r.tok] = r.user
  /\ r.pc \in NoCopyPC => r.sess = NONE /\ r.todo = {}
  /\ r.op = "logout" \/ (r.op = "login" /\ r.answer = "ok") =>
       r.tok \in Tokens /\ owner[r.tok] # NONE
  /\ r.pc # "idle" => r.answer = "none"
  /\ r.op = "auth" /\ r.answer = "ok" =>
       r.user \in Users /\ r.tok \in Tokens /\ owner[r.tok] = r.user

RequestOK(r) ==
  /\ Controlled(r)
  /\ r.sess # NONE \/ r.pc \in CopyPC =>
       r.user \in Users /\ SessionOf(r.sess, r.user)
  /\ \A x \in r.todo : r.user \in Users /\ owner[x.token] = r.user

IInv ==
  /\ TypeOK
  /\ StoreOK
  /\ \A t \in issued : owner[t] # NONE
  /\ \A p \in Procs : RequestOK(req[p])

-----------------------------------------------------------------------------
(* Lemmas about sessions and requests *)

\* A token keeps the account it was drawn for.
OwnerKept ==
  /\ owner' \in [Tokens -> Users \cup {NONE}]
  /\ \A t \in Tokens : owner[t] # NONE => owner'[t] = owner[t]

\* A session value stays one of its account when tokens are drawn elsewhere.
LEMMA SessionKept ==
  ASSUME NEW s, NEW u \in Users, SessionOf(s, u), OwnerKept
  PROVE  SessionOf(s, u)'
<1>1. \A x \in s.terms : x.token \in Tokens
  BY DEF SessionOf, Session, Terminal
<1>2. \A x \in s.terms : owner'[x.token] = u
  BY <1>1, NoneAssumption DEF SessionOf, OwnerKept
<1> QED
  BY <1>2 DEF SessionOf, WellFormed

\* So does what is known of a request.
LEMMA RequestKept ==
  ASSUME NEW r \in Request, RequestOK(r), OwnerKept
  PROVE  RequestOK(r)'
<1>1. Controlled(r)'
  BY NoneAssumption DEF RequestOK, Controlled, OwnerKept
<1>2. r.sess # NONE \/ r.pc \in CopyPC =>
        r.user \in Users /\ SessionOf(r.sess, r.user)'
  BY SessionKept DEF RequestOK
<1>3. \A x \in r.todo : r.user \in Users /\ owner'[x.token] = r.user
  BY NoneAssumption DEF RequestOK, OwnerKept, Request, Terminal
<1> QED
  BY <1>1, <1>2, <1>3 DEF RequestOK

\* Moving a request leaves its other fields as they are.
Move(q, c, s, todo) == [q EXCEPT !.pc = c, !.sess = s, !.todo = todo]

LEMMA Moved ==
  ASSUME NEW q \in Request, NEW c \in {"idle"} \cup BusyPC,
         NEW s \in Session \cup {NONE}, NEW todo \in SUBSET Terminal
  PROVE  /\ Move(q, c, s, todo) \in Request
         /\ Move(q, c, s, todo).pc = c /\ Move(q, c, s, todo).sess = s
         /\ Move(q, c, s, todo).todo = todo /\ Move(q, c, s, todo).op = q.op
         /\ Move(q, c, s, todo).user = q.user /\ Move(q, c, s, todo).tok = q.tok
         /\ Move(q, c, s, todo).answer = q.answer
BY DEF Request, Move

Serve(q, u, c) == [q EXCEPT !.user = u, !.pc = c]

LEMMA Served ==
  ASSUME NEW q \in Request, NEW c \in {"idle"} \cup BusyPC, NEW u \in Users
  PROVE  /\ Serve(q, u, c) \in Request
         /\ Serve(q, u, c).pc = c /\ Serve(q, u, c).user = u
         /\ Serve(q, u, c).todo = q.todo /\ Serve(q, u, c).op = q.op
         /\ Serve(q, u, c).sess = q.sess /\ Serve(q, u, c).tok = q.tok
         /\ Serve(q, u, c).answer = q.answer
BY DEF Request, Serve

\* One handler moves to request r and the store stays in order.
LEMMA GotoKeeps ==
  ASSUME IInv, NEW p \in Procs, NEW r \in Request, Goto(p, r), OwnerKept,
         RequestOK(r)', StoreOK',
         tokenMap' \in [Tokens -> Users \cup {NONE}],
         lastActive' \in [Tokens -> {"absent", "recent", "idle"}],
         session' \in [Users -> Session \cup {NONE}],
         saves' \in Nat, Record
  PROVE  IInv'
<1>1. req' \in [Procs -> Request]
  BY DEF Goto, IInv, TypeOK
<1>2. \A q \in Procs : RequestOK(req[q])'
  <2> SUFFICES ASSUME NEW q \in Procs PROVE RequestOK(req[q])'
    OBVIOUS
  <2>1. CASE q = p
    <3>1. req'[q] = r
      BY <2>1 DEF Goto, IInv, TypeOK
    <3> QED
      BY <3>1 DEF RequestOK, Controlled, SessionOf, WellFormed
  <2>2. CASE q # p
    <3>1. req'[q] = req[q]
      BY <2>2 DEF Goto, IInv, TypeOK
    <3>2. req[q] \in Request /\ RequestOK(req[q])
      BY DEF IInv, TypeOK
    <3> QED
      BY <3>1, <3>2, RequestKept
  <2> QED
    BY <2>1, <2>2
<1>3. /\ issued' \in SUBSET Tokens
      /\ condemned' \in SUBSET Tokens
      /\ revoked' \in SUBSET Tokens
      /\ \A t \in issued' : owner'[t] # NONE
  <2>1. /\ Returned' \subseteq Tokens /\ LoggedOut' \subseteq Tokens
        /\ \A t \in Returned' : owner'[t] # NONE
    BY <1>2 DEF RequestOK, Controlled, Returned, LoggedOut
  <2>2. BeingRemoved' \subseteq Tokens
    <3>1. \A q \in Procs : \A x \in req'[q].todo : x.token \in Tokens
      BY <1>1 DEF Request, Terminal
    <3>2. \A q \in Procs :
            req'[q].op = "logout" \/ req'[q].pc \in LogoutPC => req'[q].tok \in Tokens
      BY <1>2 DEF RequestOK, Controlled
    <3> QED
      BY <3>1, <3>2 DEF BeingRemoved
  <2> QED
    BY <2>1, <2>2 DEF Record, IInv, TypeOK, OwnerKept
<1> QED
  BY <1>1, <1>2, <1>3 DEF IInv, TypeOK, OwnerKept

\* A handler that returns leaves nothing to account for but its answer.
LEMMA FinishedOK ==
  ASSUME NEW r \in Request, NEW a \in {"none", "ok", "401", "503"},
         RequestOK(r), r.pc # "idle",
         r.op = "auth" /\ a = "ok" => r.pc = "loadSess",
         r.op = "login" /\ a = "ok" => r.tok \in Tokens /\ owner[r.tok] # NONE
  PROVE  Finished(r, a) \in Request /\ RequestOK(Finished(r, a))
<1>1. Finished(r, a) \in Request
  BY DEF Finished, Request
<1>2. /\ Finished(r, a).pc = "idle" /\ Finished(r, a).sess = NONE
      /\ Finished(r, a).todo = {} /\ Finished(r, a).answer = a
      /\ Finished(r, a).op = r.op /\ Finished(r, a).user = r.user
      /\ Finished(r, a).tok = r.tok
  BY DEF Finished, Request
<1>3. Controlled(Finished(r, a))
  BY <1>2 DEF RequestOK, Controlled, LoginPC, LogoutPC, AuthPC, SavePC,
              UserPC, OwnedPC, CopyPC, NoCopyPC, BusyPC, Request
<1> QED
  BY <1>1, <1>2, <1>3 DEF RequestOK, CopyPC

StoreTyped ==
  /\ tokenMap \in [Tokens -> Users \cup {NONE}]
  /\ lastActive \in [Tokens -> {"absent", "recent", "idle"}]
  /\ session \in [Users -> Session \cup {NONE}]
  /\ saves \in Nat

\* A step that draws no token and moves one handler on.
LEMMA MoveKeeps ==
  ASSUME IInv, NEW p \in Procs, NEW r \in Request, Goto(p, r), RequestOK(r),
         UNCHANGED owner, StoreOK', StoreTyped', Record
  PROVE  IInv'
<1>1. OwnerKept
  BY DEF OwnerKept, IInv, TypeOK
<1>2. RequestOK(r)'
  BY <1>1, RequestKept
<1> QED
  BY <1>1, <1>2, GotoKeeps DEF StoreTyped

\* The same for a write, whose answer may be lost.
LEMMA AnsweredKeeps ==
  ASSUME IInv, NEW p \in Procs, NEW r \in Request, Answered(p, r),
         req[p].pc # "idle", RequestOK(r),
         UNCHANGED owner, StoreOK', StoreTyped', Record
  PROVE  IInv'
<1>1. CASE Goto(p, r)
  BY <1>1, MoveKeeps
<1>2. CASE Goto(p, Finished(req[p], "503"))
  <2>1. /\ Finished(req[p], "503") \in Request
        /\ RequestOK(Finished(req[p], "503"))
    BY FinishedOK DEF IInv, TypeOK
  <2> QED
    BY <1>2, <2>1, MoveKeeps
<1> QED
  BY <1>1, <1>2 DEF Answered

-----------------------------------------------------------------------------
(* Lemmas about the calls of the store *)

LEMMA SessionSame ==
  ASSUME NEW s, NEW u, SessionOf(s, u), UNCHANGED owner
  PROVE  SessionOf(s, u)'
BY DEF SessionOf, WellFormed

LEMMA ReadKeeps ==
  ASSUME IInv, UNCHANGED <<store, owner>>, saves' \in Nat
  PROVE  StoreOK' /\ StoreTyped'
<1>1. StoreTyped'
  BY DEF store, StoreTyped, IInv, TypeOK
<1>2. \A u \in Users : session'[u] # NONE => SessionOf(session[u], u)'
  BY SessionSame DEF store, IInv, StoreOK
<1>3. \A t \in Tokens : tokenMap'[t] # NONE => tokenMap'[t] = owner'[t]
  BY DEF store, IInv, StoreOK
<1> QED
  BY <1>1, <1>2, <1>3 DEF StoreOK

\* A write of a token key: the account of the token, or no value.
LEMMA TokenKeyKeeps ==
  ASSUME IInv, NEW t \in Tokens, NEW u \in Users \cup {NONE},
         SetToken(t, u), u = NONE \/ owner[t] = u, UNCHANGED <<saves, owner>>
  PROVE  StoreOK' /\ StoreTyped'
<1>1. StoreTyped'
  BY DEF SetToken, StoreTyped, IInv, TypeOK
<1>2. \A w \in Users : session'[w] # NONE => SessionOf(session[w], w)'
  BY SessionSame DEF SetToken, IInv, StoreOK
<1>3. \A x \in Tokens : tokenMap'[x] # NONE => tokenMap'[x] = owner'[x]
  BY DEF SetToken, IInv, StoreOK, TypeOK
<1> QED
  BY <1>1, <1>2, <1>3 DEF StoreOK

LEMMA DeleteTokenKeeps ==
  ASSUME IInv, NEW t \in Tokens, DeleteToken(t), UNCHANGED <<saves, owner>>
  PROVE  StoreOK' /\ StoreTyped'
BY TokenKeyKeeps DEF DeleteToken, SetToken

\* A write of a last-activity key.
LEMMA ActiveKeyKeeps ==
  ASSUME IInv, NEW t \in Tokens, NEW a \in {"absent", "recent", "idle"},
         lastActive' = [lastActive EXCEPT ![t] = a],
         UNCHANGED <<tokenMap, session, saves, owner>>
  PROVE  StoreOK' /\ StoreTyped'
<1>1. StoreTyped'
  BY DEF StoreTyped, IInv, TypeOK
<1>2. \A w \in Users : session'[w] # NONE => SessionOf(session[w], w)'
  BY SessionSame DEF IInv, StoreOK
<1>3. \A x \in Tokens : tokenMap'[x] # NONE => tokenMap'[x] = owner'[x]
  BY DEF IInv, StoreOK
<1> QED
  BY <1>1, <1>2, <1>3 DEF StoreOK

LEMMA TouchKeeps ==
  ASSUME IInv, NEW t \in Tokens, Touch(t), UNCHANGED <<saves, owner>>
  PROVE  StoreOK' /\ StoreTyped'
BY ActiveKeyKeeps DEF Touch

LEMMA DeleteLastActiveKeeps ==
  ASSUME IInv, NEW t \in Tokens, DeleteLastActive(t), UNCHANGED <<saves, owner>>
  PROVE  StoreOK' /\ StoreTyped'
BY ActiveKeyKeeps DEF DeleteLastActive

\* A write of an Account-Session: a session of that account, or no value.
LEMMA SessionKeyKeeps ==
  ASSUME IInv, NEW u \in Users, NEW s \in Session \cup {NONE},
         session' = [session EXCEPT ![u] = s], s # NONE => SessionOf(s, u),
         UNCHANGED <<tokenMap, lastActive, saves, owner>>
  PROVE  StoreOK' /\ StoreTyped'
<1>1. StoreTyped'
  BY DEF StoreTyped, IInv, TypeOK
<1>2. \A w \in Users : session'[w] # NONE => SessionOf(session[w], w)'
  <2> SUFFICES ASSUME NEW w \in Users, session'[w] # NONE
               PROVE  SessionOf(session[w], w)'
    OBVIOUS
  <2>1. CASE w = u
    <3>1. session'[w] = s /\ SessionOf(s, w)
      BY <2>1 DEF IInv, TypeOK
    <3> QED
      BY <3>1, SessionSame
  <2>2. CASE w # u
    <3>1. session'[w] = session[w] /\ SessionOf(session[w], w)
      BY <2>2 DEF IInv, TypeOK, StoreOK
    <3> QED
      BY <3>1, SessionSame
  <2> QED
    BY <2>1, <2>2
<1>3. \A x \in Tokens : tokenMap'[x] # NONE => tokenMap'[x] = owner'[x]
  BY DEF IInv, StoreOK
<1> QED
  BY <1>1, <1>2, <1>3 DEF StoreOK

LEMMA SaveCopyKeeps ==
  ASSUME IInv, NEW u \in Users, NEW s, SessionOf(s, u), SaveCopy(s),
         UNCHANGED <<saves, owner>>
  PROVE  StoreOK' /\ StoreTyped'
BY SessionKeyKeeps DEF SaveCopy, SessionOf

LEMMA DeleteSessionKeeps ==
  ASSUME IInv, NEW u \in Users, DeleteSession(u), UNCHANGED <<saves, owner>>
  PROVE  StoreOK' /\ StoreTyped'
BY SessionKeyKeeps DEF DeleteSession

-----------------------------------------------------------------------------
(* Lemmas about terminals *)

\* AddTerminal keeps a session of u one of u, with the new token listed.
LEMMA AddTerminalOK ==
  ASSUME NEW s, NEW u \in Users, NEW t \in Tokens,
         s \in Session, s.loginId = u, WellFormed(s)
  PROVE  /\ AddTerminal(s, t) \in Session
         /\ AddTerminal(s, t).loginId = u
         /\ \A x \in AddTerminal(s, t).terms : x \in s.terms \/ x.token = t
         /\ WellFormed(AddTerminal(s, t))
<1>1. CASE \E x \in s.terms : x.token = t
  BY <1>1 DEF AddTerminal
<1>2. CASE ~ \E x \in s.terms : x.token = t
  <2> DEFINE new == [index |-> s.count + 1, token |-> t]
             a == [s EXCEPT !.count = s.count + 1, !.terms = s.terms \cup {new}]
  <2>1. AddTerminal(s, t) = a
    BY <1>2 DEF AddTerminal
  <2>2. /\ a.loginId = u /\ a.count = s.count + 1 /\ a.count \in Nat
        /\ a.terms = s.terms \cup {new} /\ new \in Terminal
    BY DEF Session, Terminal
  <2>3. a \in Session
    BY <2>2 DEF Session
  <2>4. \A x \in a.terms : x.index \in 1..a.count
    <3>1. \A x \in s.terms : x.index \in 1..s.count
      BY DEF WellFormed
    <3> QED
      BY <2>2, <3>1 DEF Session, Terminal
  <2>5. \A x, y \in a.terms : x.index = y.index \/ x.token = y.token => x = y
    <3>1. \A x, y \in s.terms : x.index = y.index \/ x.token = y.token => x = y
      BY DEF WellFormed
    <3>2. \A x \in s.terms : x.index # new.index /\ x.token # new.token
      BY <1>2 DEF WellFormed, Session, Terminal
    <3> QED
      BY <2>2, <3>1, <3>2
  <2> HIDE DEF a
  <2>6. WellFormed(a)
    BY <2>4, <2>5 DEF WellFormed
  <2>7. \A x \in a.terms : x \in s.terms \/ x.token = t
    BY <2>2
  <2> QED
    BY <2>1, <2>2, <2>3, <2>6, <2>7
<1> QED
  BY <1>1, <1>2

\* Dropping terminals keeps a session one of its account.
LEMMA FewerTerminalsOK ==
  ASSUME NEW s, NEW u \in Users, NEW T \in SUBSET Terminal,
         SessionOf(s, u), T \subseteq s.terms
  PROVE  SessionOf([s EXCEPT !.terms = T], u)
<1>1. /\ [s EXCEPT !.terms = T] \in Session
      /\ [s EXCEPT !.terms = T].loginId = u
      /\ [s EXCEPT !.terms = T].terms = T
      /\ [s EXCEPT !.terms = T].count = s.count
  BY DEF SessionOf, Session
<1> QED
  BY <1>1 DEF SessionOf, WellFormed

-----------------------------------------------------------------------------
(* The steps of Login *)

\* The steps of replaced: the copy and the terminals to kick are the account's.
LEMMA ReplacedKeeps ==
  ASSUME IInv, NEW p \in Procs, Record,
         \/ ReplacedGet(p) \/ ReplacedDeleteToken(p)
         \/ ReplacedDeleteActive(p) \/ ReplacedSave(p)
  PROVE  IInv'
<1> USE DEF LoginPC, LogoutPC, AuthPC, SavePC, BusyPC, UserPC, OwnedPC,
            CopyPC, NoCopyPC, AfterReplaced
<1> DEFINE q == req[p]
<1>1. q \in Request /\ RequestOK(q)
  BY DEF IInv, TypeOK
<1>2. ASSUME q.pc \in {"replGet", "replDelTok", "replDelAct", "replSave"}
      PROVE  q.user \in Users /\ q.op = "login" /\ q.answer = "none"
  BY <1>1, <1>2 DEF RequestOK, Controlled
<1>3. CASE ReplacedGet(p)
  <2>1. q.pc = "replGet" /\ q.user \in Users
    BY <1>2, <1>3 DEF ReplacedGet, At
  <2>2. StoreOK' /\ StoreTyped'
    BY <1>3, ReadKeeps DEF ReplacedGet, IInv, TypeOK
  <2>3. CASE session[q.user] = NONE
    <3> DEFINE r == [q EXCEPT !.pc = AfterReplaced]
    <3>1. Goto(p, r)
      BY <1>3, <2>3 DEF ReplacedGet
    <3>2. r \in Request /\ RequestOK(r)
      BY <1>1, <2>1 DEF Request, RequestOK, Controlled
    <3> QED
      BY <1>3, <2>2, <3>1, <3>2, MoveKeeps DEF ReplacedGet
  <2>4. CASE session[q.user] # NONE
    <3> DEFINE s == session[q.user]
               r == [q EXCEPT
                       !.pc = IF s.terms = {} THEN "replSave" ELSE "replDelTok",
                       !.sess = s, !.todo = s.terms]
    <3>1. Goto(p, r)
      BY <1>3, <2>4 DEF ReplacedGet
    <3>2. SessionOf(s, q.user)
      BY <2>1, <2>4 DEF IInv, StoreOK
    <3>3. s \in Session /\ s.terms \subseteq Terminal
      BY <3>2 DEF SessionOf, Session
    <3>4. PICK c \in {"replSave", "replDelTok"} :
            r = Move(q, c, s, s.terms)
      BY DEF Move
    <3>5. /\ r \in Request
          /\ r.pc \in {"replSave", "replDelTok"} /\ r.sess = s
          /\ r.todo = s.terms /\ r.user = q.user /\ r.op = q.op
          /\ r.answer = q.answer
      <4>1. c \in {"idle"} \cup BusyPC
        OBVIOUS
      <4> HIDE DEF LoginPC, LogoutPC, AuthPC, SavePC, BusyPC, r, s, q
      <4> QED
        BY <1>1, <3>3, <3>4, <4>1, Moved
    <3> HIDE DEF s, r
    <3>6. Controlled(r)
      BY <1>2, <2>1, <2>4, <3>5 DEF Controlled, s
    <3>7. RequestOK(r)
      BY <2>1, <3>2, <3>5, <3>6 DEF RequestOK, SessionOf
    <3> QED
      BY <1>3, <2>2, <3>1, <3>5, <3>7, MoveKeeps DEF ReplacedGet
  <2> QED
    BY <2>3, <2>4
<1>4. CASE ReplacedDeleteToken(p)
  <2> DEFINE r == [q EXCEPT !.pc = "replDelAct"]
  <2>1. PICK x \in q.todo : DeleteToken(x.token) /\ Answered(p, r)
    BY <1>4 DEF ReplacedDeleteToken
  <2>2. x.token \in Tokens
    BY <1>1 DEF Request, Terminal
  <2>3. q.pc = "replDelTok" /\ UNCHANGED <<saves, owner>>
    BY <1>4 DEF ReplacedDeleteToken, At
  <2>4. r \in Request /\ RequestOK(r)
    BY <1>1, <2>3 DEF Request, RequestOK, Controlled
  <2>5. StoreOK' /\ StoreTyped'
    BY <2>1, <2>2, <2>3, DeleteTokenKeeps
  <2> QED
    BY <2>1, <2>3, <2>4, <2>5, AnsweredKeeps
<1>5. CASE ReplacedDeleteActive(p)
  <2>1. PICK x \in q.todo :
          /\ DeleteLastActive(x.token)
          /\ Answered(p, [q EXCEPT !.todo = q.todo \ {x},
                                   !.pc = IF q.todo = {x} THEN "replSave"
                                          ELSE "replDelTok"])
    BY <1>1, <1>5 DEF ReplacedDeleteActive, Request
  <2> DEFINE r == [q EXCEPT !.todo = q.todo \ {x},
                            !.pc = IF q.todo = {x} THEN "replSave"
                                   ELSE "replDelTok"]
  <2>2. x.token \in Tokens
    BY <1>1 DEF Request, Terminal
  <2>3. q.pc = "replDelAct" /\ UNCHANGED <<saves, owner>>
    BY <1>5 DEF ReplacedDeleteActive, At
  <2>4. r \in Request /\ RequestOK(r)
    <3>1. PICK c \in {"replSave", "replDelTok"} :
            r = Move(q, c, q.sess, q.todo \ {x})
      BY <1>1 DEF Request, Move
    <3>2. q.todo \ {x} \in SUBSET Terminal /\ q.sess \in Session \cup {NONE}
      BY <1>1 DEF Request
    <3>3. /\ r \in Request /\ r.pc = c /\ r.sess = q.sess /\ r.todo = q.todo \ {x}
          /\ r.op = q.op /\ r.user = q.user /\ r.tok = q.tok /\ r.answer = q.answer
      <4>1. c \in {"idle"} \cup BusyPC
        OBVIOUS
      <4> HIDE DEF LoginPC, LogoutPC, AuthPC, SavePC, BusyPC, r, q
      <4> QED
        BY <1>1, <3>1, <3>2, <4>1, Moved
    <3> HIDE DEF r, q
    <3>4. Controlled(r)
      BY <1>1, <2>3, <3>3 DEF RequestOK, Controlled
    <3> QED
      BY <1>1, <2>3, <3>3, <3>4 DEF RequestOK
  <2>5. StoreOK' /\ StoreTyped'
    BY <2>1, <2>2, <2>3, DeleteLastActiveKeeps
  <2> QED
    BY <2>1, <2>3, <2>4, <2>5, AnsweredKeeps
<1>6. CASE ReplacedSave(p)
  <2> DEFINE r == [q EXCEPT !.pc = AfterReplaced, !.sess = NONE]
  <2>1. /\ SaveCopy([q.sess EXCEPT !.terms = {}]) /\ Answered(p, r)
        /\ q.pc = "replSave" /\ UNCHANGED <<saves, owner>>
    BY <1>6 DEF ReplacedSave, At
  <2>2. q.user \in Users /\ SessionOf(q.sess, q.user)
    BY <1>1, <2>1 DEF RequestOK, Controlled
  <2>3. SessionOf([q.sess EXCEPT !.terms = {}], q.user)
    BY <2>2, FewerTerminalsOK
  <2>4. r \in Request /\ RequestOK(r)
    <3>1. /\ r \in Request /\ r.pc = AfterReplaced /\ r.sess = NONE
          /\ r.todo = q.todo /\ r.op = q.op /\ r.user = q.user /\ r.tok = q.tok
          /\ r.answer = q.answer
      <4>1. AfterReplaced \in {"idle"} \cup BusyPC
        OBVIOUS
      <4>2. r = Move(q, AfterReplaced, NONE, q.todo)
        BY <1>1 DEF Request, Move
      <4>3. q.todo \in SUBSET Terminal
        BY <1>1 DEF Request
      <4> HIDE DEF LoginPC, LogoutPC, AuthPC, SavePC, BusyPC, AfterReplaced, r, q
      <4> QED
        BY <1>1, <4>1, <4>2, <4>3, Moved
    <3> HIDE DEF r, q
    <3>2. Controlled(r)
      BY <1>1, <2>1, <3>1 DEF RequestOK, Controlled
    <3> QED
      BY <1>1, <2>1, <3>1, <3>2 DEF RequestOK
  <2>5. StoreOK' /\ StoreTyped'
    BY <2>1, <2>2, <2>3, SaveCopyKeeps
  <2> QED
    BY <2>1, <2>4, <2>5, AnsweredKeeps
<1> QED
  BY <1>3, <1>4, <1>5, <1>6

\* Sharing: the first terminal of the account is one of its tokens.
LEMMA ShareKeeps ==
  ASSUME IInv, NEW p \in Procs, Record,
         \/ ShareGet(p) \/ RenewToken(p) \/ RenewGet(p) \/ RenewSave(p)
         \/ RenewActive(p)
  PROVE  IInv'
<1> USE DEF LoginPC, LogoutPC, AuthPC, SavePC, BusyPC, UserPC, OwnedPC,
            CopyPC, NoCopyPC
<1> DEFINE q == req[p]
<1>1. q \in Request /\ RequestOK(q)
  BY DEF IInv, TypeOK
<1>2. ASSUME q.pc \in {"shareGet", "renewTok", "renewGet", "renewSave", "renewAct"}
      PROVE  /\ q.user \in Users /\ q.op = "login" /\ q.answer = "none"
             /\ q.pc # "shareGet" => q.tok \in Tokens /\ owner[q.tok] = q.user
  BY <1>1, <1>2 DEF RequestOK, Controlled
<1>3. CASE ShareGet(p)
  <2>1. q.pc = "shareGet" /\ UNCHANGED <<store, saves, owner>>
    BY <1>3 DEF ShareGet, At
  <2>2. StoreOK' /\ StoreTyped'
    BY <2>1, ReadKeeps DEF IInv, TypeOK
  <2>3. CASE Goto(p, [q EXCEPT !.pc = "newGet"])
    <3> DEFINE r == [q EXCEPT !.pc = "newGet"]
    <3>1. r \in Request /\ RequestOK(r)
      BY <1>1, <2>1 DEF Request, RequestOK, Controlled
    <3> QED
      BY <2>1, <2>2, <2>3, <3>1, MoveKeeps
  <2>4. ASSUME session[q.user] # NONE, NEW x \in session[q.user].terms,
               Goto(p, [q EXCEPT !.pc = "renewTok", !.tok = x.token])
        PROVE  IInv'
    <3> DEFINE r == [q EXCEPT !.pc = "renewTok", !.tok = x.token]
    <3>1. SessionOf(session[q.user], q.user)
      BY <1>2, <2>1, <2>4 DEF IInv, StoreOK
    <3>2. x.token \in Tokens /\ owner[x.token] = q.user
      BY <3>1 DEF SessionOf, Session, Terminal
    <3>3. r \in Request /\ RequestOK(r)
      BY <1>1, <1>2, <2>1, <3>2 DEF Request, RequestOK, Controlled
    <3> QED
      BY <2>1, <2>2, <2>4, <3>3, MoveKeeps
  <2> QED
    BY <1>3, <2>3, <2>4 DEF ShareGet
<1>4. CASE RenewToken(p)
  <2> DEFINE r == [q EXCEPT !.pc = "renewGet"]
  <2>1. /\ q.pc = "renewTok" /\ SetToken(q.tok, q.user) /\ Answered(p, r)
        /\ UNCHANGED <<saves, owner>>
    BY <1>4 DEF RenewToken, At
  <2>2. r \in Request /\ RequestOK(r)
    BY <1>1, <2>1 DEF Request, RequestOK, Controlled
  <2>3. StoreOK' /\ StoreTyped'
    BY <1>2, <2>1, TokenKeyKeeps
  <2> QED
    BY <2>1, <2>2, <2>3, AnsweredKeeps
<1>5. CASE RenewGet(p)
  <2>1. q.pc = "renewGet" /\ UNCHANGED <<store, saves, owner>>
    BY <1>5 DEF RenewGet, At
  <2>2. StoreOK' /\ StoreTyped'
    BY <2>1, ReadKeeps DEF IInv, TypeOK
  <2>3. CASE session[q.user] = NONE
    <3>1. Finished(q, "ok") \in Request /\ RequestOK(Finished(q, "ok"))
      BY <1>1, <1>2, <2>1, FinishedOK, NoneAssumption
    <3> QED
      BY <1>5, <2>1, <2>2, <2>3, <3>1, MoveKeeps DEF RenewGet
  <2>4. CASE session[q.user] # NONE
    <3> DEFINE r == [q EXCEPT !.pc = "renewSave", !.sess = session[q.user]]
    <3>1. SessionOf(session[q.user], q.user)
      BY <1>2, <2>1, <2>4 DEF IInv, StoreOK
    <3>2. /\ r \in Request /\ r.pc = "renewSave" /\ r.sess = session[q.user]
          /\ r.todo = q.todo /\ r.op = q.op /\ r.user = q.user /\ r.tok = q.tok
          /\ r.answer = q.answer
      <4>1. session[q.user] \in Session
        BY <3>1 DEF SessionOf
      <4>2. "renewSave" \in {"idle"} \cup BusyPC
        OBVIOUS
      <4>3. r = Move(q, "renewSave", session[q.user], q.todo)
        BY <1>1 DEF Request, Move
      <4>4. q.todo \in SUBSET Terminal
        BY <1>1 DEF Request
      <4> HIDE DEF LoginPC, LogoutPC, AuthPC, SavePC, BusyPC, r, q
      <4> QED
        BY <1>1, <4>1, <4>2, <4>3, <4>4, Moved
    <3>3. RequestOK(r)
      <4> HIDE DEF r, q
      <4>1. Controlled(r)
        BY <1>1, <1>2, <2>1, <3>2 DEF RequestOK, Controlled
      <4> QED
        BY <1>1, <1>2, <2>1, <3>1, <3>2, <4>1 DEF RequestOK
    <3> QED
      BY <1>5, <2>1, <2>2, <2>4, <3>2, <3>3, MoveKeeps DEF RenewGet
  <2> QED
    BY <2>3, <2>4
<1>6. \/ Finished(q, "ok") \in Request /\ RequestOK(Finished(q, "ok"))
      \/ q.pc \notin {"renewSave", "renewAct"}
  BY <1>1, <1>2, FinishedOK, NoneAssumption
<1>7. CASE RenewSave(p)
  <2> DEFINE r == [q EXCEPT !.pc = "renewAct", !.sess = NONE]
             next == IF ActiveCheck THEN r ELSE Finished(q, "ok")
  <2>1. /\ q.pc = "renewSave" /\ SaveCopy(q.sess) /\ Answered(p, next)
        /\ UNCHANGED <<saves, owner>>
    BY <1>7 DEF RenewSave, At
  <2>2. r \in Request /\ RequestOK(r)
    BY <1>1, <2>1 DEF Request, RequestOK, Controlled
  <2>3. SessionOf(q.sess, q.user)
    BY <1>1, <2>1 DEF RequestOK, Controlled
  <2>4. StoreOK' /\ StoreTyped'
    BY <1>2, <2>1, <2>3, SaveCopyKeeps
  <2>5. next \in Request /\ RequestOK(next)
    BY <1>6, <2>1, <2>2
  <2> QED
    BY <2>1, <2>4, <2>5, AnsweredKeeps
<1>8. CASE RenewActive(p)
  <2>1. /\ q.pc = "renewAct" /\ Touch(q.tok) /\ Answered(p, Finished(q, "ok"))
        /\ UNCHANGED <<saves, owner>>
    BY <1>8 DEF RenewActive, At
  <2>2. StoreOK' /\ StoreTyped'
    BY <1>2, <2>1, TouchKeeps
  <2> QED
    BY <1>6, <2>1, <2>2, AnsweredKeeps
<1> QED
  BY <1>3, <1>4, <1>5, <1>7, <1>8

\* Drawing a token: it is fresh, so nothing known of other tokens changes.
LEMMA NewGetKeeps ==
  ASSUME IInv, NEW p \in Procs, Record, NewGet(p)
  PROVE  IInv'
<1> USE DEF LoginPC, LogoutPC, AuthPC, SavePC, BusyPC, UserPC, OwnedPC,
            CopyPC, NoCopyPC
<1> DEFINE q == req[p]
           u == q.user
           s == IF session[u] = NONE THEN NewSession(u) ELSE session[u]
           s1 == [s EXCEPT !.loginId = u]
<1>1. q \in Request /\ RequestOK(q)
  BY DEF IInv, TypeOK
<1>2. q.pc = "newGet" /\ UNCHANGED <<store, saves>>
  BY DEF NewGet, At
<1>3. u \in Users /\ q.op = "login" /\ q.answer = "none"
  BY <1>1, <1>2 DEF RequestOK, Controlled
<1>4. SessionOf(s, u)
  <2>1. CASE session[u] = NONE
    BY <1>3, <2>1 DEF NewSession, SessionOf, Session, WellFormed
  <2>2. CASE session[u] # NONE
    BY <1>3, <2>2 DEF IInv, StoreOK
  <2> QED
    BY <2>1, <2>2
<1>5. s1 = s
  BY <1>4 DEF SessionOf, Session
<1>6. PICK t \in Tokens :
        /\ owner[t] = NONE
        /\ owner' = [owner EXCEPT ![t] = u]
        /\ Goto(p, [q EXCEPT !.pc = "newSave", !.tok = t,
                             !.sess = AddTerminal(s1, t)])
  BY DEF NewGet
<1>7. OwnerKept /\ owner'[t] = u
  BY <1>3, <1>6 DEF OwnerKept, IInv, TypeOK
<1>8. \A r \in Request :
        r = [q EXCEPT !.pc = "newSave", !.tok = t, !.sess = AddTerminal(s1, t)]
          => RequestOK(r)'
  <2> SUFFICES ASSUME NEW r \in Request,
                      r = [q EXCEPT !.pc = "newSave", !.tok = t,
                                    !.sess = AddTerminal(s1, t)]
               PROVE  RequestOK(r)'
    OBVIOUS
  <2> HIDE DEF s, s1
  <2>1. /\ r.pc = "newSave" /\ r.tok = t /\ r.sess = AddTerminal(s, t)
        /\ r.user = u /\ r.op = "login" /\ r.answer = "none" /\ r.todo = q.todo
    BY <1>1, <1>3, <1>5 DEF Request
  <2>2. /\ AddTerminal(s, t) \in Session
        /\ AddTerminal(s, t).loginId = u
        /\ \A x \in AddTerminal(s, t).terms : x \in s.terms \/ x.token = t
        /\ WellFormed(AddTerminal(s, t))
    BY <1>3, <1>4, AddTerminalOK DEF SessionOf
  <2>3. \A x \in s.terms : x.token \in Tokens /\ owner[x.token] = u
    BY <1>4 DEF SessionOf, Session, Terminal
  <2>4. \A x \in r.sess.terms : owner'[x.token] = u
    <3>1. u # NONE
      BY <1>3, NoneAssumption
    <3> QED
      BY <1>7, <2>1, <2>2, <2>3, <3>1 DEF OwnerKept
  <2>5. SessionOf(r.sess, r.user)'
    BY <2>1, <2>2, <2>4 DEF SessionOf, WellFormed
  <2>7. Controlled(r)'
    BY <1>3, <1>7, <2>1 DEF Controlled
  <2>8. \A x \in r.todo : x.token \in Tokens /\ owner[x.token] = u
    BY <1>1, <2>1 DEF RequestOK, Request, Terminal
  <2> QED
    BY <1>3, <1>7, <2>1, <2>5, <2>7, <2>8, NoneAssumption DEF RequestOK, OwnerKept
<1> HIDE DEF s1
<1>9. [q EXCEPT !.pc = "newSave", !.tok = t, !.sess = AddTerminal(s1, t)] \in Request
  <2>1. AddTerminal(s1, t) \in Session
    BY <1>3, <1>4, <1>5, AddTerminalOK DEF SessionOf
  <2> HIDE DEF s
  <2> QED
    BY <1>1, <2>1 DEF Request
<1>10. StoreOK' /\ StoreTyped'
  <2>1. StoreTyped'
    BY <1>2 DEF store, StoreTyped, IInv, TypeOK
  <2>2. \A w \in Users : session'[w] # NONE => SessionOf(session[w], w)'
    BY <1>2, <1>7, SessionKept DEF store, IInv, StoreOK
  <2>3. \A x \in Tokens : tokenMap'[x] # NONE => tokenMap'[x] = owner'[x]
    BY <1>2, <1>7 DEF store, IInv, StoreOK, OwnerKept
  <2> QED
    BY <2>1, <2>2, <2>3 DEF StoreOK
<1> QED
  BY <1>6, <1>7, <1>8, <1>9, <1>10, GotoKeeps DEF StoreTyped

\* The writes of a new token: session, token key, last activity.
LEMMA NewKeeps ==
  ASSUME IInv, NEW p \in Procs, Record,
         NewSave(p) \/ NewToken(p) \/ NewActive(p)
  PROVE  IInv'
<1> USE DEF LoginPC, LogoutPC, AuthPC, SavePC, BusyPC, UserPC, OwnedPC,
            CopyPC, NoCopyPC
<1> DEFINE q == req[p]
<1>1. q \in Request /\ RequestOK(q)
  BY DEF IInv, TypeOK
<1>2. ASSUME q.pc \in {"newSave", "newTok", "newAct"}
      PROVE  /\ q.user \in Users /\ q.op = "login" /\ q.answer = "none"
             /\ q.tok \in Tokens /\ owner[q.tok] = q.user
             /\ Finished(q, "ok") \in Request /\ RequestOK(Finished(q, "ok"))
  <2>1. /\ q.user \in Users /\ q.op = "login" /\ q.answer = "none"
        /\ q.tok \in Tokens /\ owner[q.tok] = q.user
    BY <1>1, <1>2 DEF RequestOK, Controlled
  <2> QED
    BY <1>1, <1>2, <2>1, FinishedOK, NoneAssumption
<1>3. CASE NewSave(p)
  <2> DEFINE r == [q EXCEPT !.pc = "newTok", !.sess = NONE]
  <2>1. /\ q.pc = "newSave" /\ SaveCopy(q.sess) /\ Answered(p, r)
        /\ UNCHANGED <<saves, owner>>
    BY <1>3 DEF NewSave, At
  <2>2. r \in Request /\ RequestOK(r)
    BY <1>1, <2>1 DEF Request, RequestOK, Controlled
  <2>3. SessionOf(q.sess, q.user)
    BY <1>1, <2>1 DEF RequestOK
  <2>4. StoreOK' /\ StoreTyped'
    BY <1>2, <2>1, <2>3, SaveCopyKeeps
  <2> QED
    BY <2>1, <2>2, <2>4, AnsweredKeeps
<1>4. CASE NewToken(p)
  <2> DEFINE r == [q EXCEPT !.pc = "newAct"]
             next == IF ActiveCheck THEN r ELSE Finished(q, "ok")
  <2>1. /\ q.pc = "newTok" /\ SetToken(q.tok, q.user) /\ Answered(p, next)
        /\ UNCHANGED <<saves, owner>>
    BY <1>4 DEF NewToken, At
  <2>2. r \in Request /\ RequestOK(r)
    BY <1>1, <2>1 DEF Request, RequestOK, Controlled
  <2>3. next \in Request /\ RequestOK(next)
    BY <1>2, <2>1, <2>2
  <2>4. StoreOK' /\ StoreTyped'
    BY <1>2, <2>1, TokenKeyKeeps
  <2> QED
    BY <2>1, <2>3, <2>4, AnsweredKeeps
<1>5. CASE NewActive(p)
  <2>1. /\ q.pc = "newAct" /\ Touch(q.tok) /\ Answered(p, Finished(q, "ok"))
        /\ UNCHANGED <<saves, owner>>
    BY <1>5 DEF NewActive, At
  <2>2. StoreOK' /\ StoreTyped'
    BY <1>2, <2>1, TouchKeeps
  <2> QED
    BY <1>2, <2>1, <2>2, AnsweredKeeps
<1> QED
  BY <1>3, <1>4, <1>5

LEMMA LoginKeeps ==
  ASSUME IInv, NEW p \in Procs, Record, Login(p)
  PROVE  IInv'
BY ReplacedKeeps, ShareKeeps, NewGetKeeps, NewKeeps DEF Login

-----------------------------------------------------------------------------
(* The steps of Logout, of an authenticated request and of a business save *)

LEMMA LogoutKeeps ==
  ASSUME IInv, NEW p \in Procs, Record, Logout(p)
  PROVE  IInv'
<1> USE DEF LoginPC, LogoutPC, AuthPC, SavePC, BusyPC, UserPC, OwnedPC,
            CopyPC, NoCopyPC
<1> DEFINE q == req[p]
<1>1. q \in Request /\ RequestOK(q)
  BY DEF IInv, TypeOK
<1>2. q.pc \in LogoutPC
  BY DEF Logout, LogoutGet, LogoutDeleteToken, LogoutDeleteActive,
         LogoutGetSession, LogoutDeleteSession, LogoutSaveSession, At
<1>3. q.op \in {"logout", "auth"} /\ q.tok \in Tokens /\ q.answer = "none"
  BY <1>1, <1>2 DEF RequestOK, Controlled
<1>4. LogoutDone(q) \in Request /\ RequestOK(LogoutDone(q))
  BY <1>1, <1>2, <1>3, FinishedOK DEF LogoutDone
<1>5. CASE LogoutGet(p)
  <2> DEFINE r == [q EXCEPT !.pc = "outDelTok", !.user = tokenMap[q.tok]]
  <2>1. /\ q.pc = "outGet" /\ Goto(p, r) /\ UNCHANGED <<store, saves, owner>>
    BY <1>5 DEF LogoutGet, At
  <2>2. tokenMap[q.tok] \in {NONE, owner[q.tok]} /\ tokenMap[q.tok] \in Users \cup {NONE}
    BY <1>3 DEF IInv, TypeOK, StoreOK
  <2>3. r \in Request /\ RequestOK(r)
    BY <1>1, <1>3, <2>1, <2>2 DEF Request, RequestOK, Controlled
  <2>4. StoreOK' /\ StoreTyped'
    BY <2>1, ReadKeeps DEF IInv, TypeOK
  <2> QED
    BY <2>1, <2>3, <2>4, MoveKeeps
<1>6. CASE LogoutDeleteToken(p)
  <2> DEFINE r == [q EXCEPT !.pc = "outDelAct"]
  <2>1. /\ q.pc = "outDelTok" /\ DeleteToken(q.tok) /\ Answered(p, r)
        /\ UNCHANGED <<saves, owner>>
    BY <1>6 DEF LogoutDeleteToken, At
  <2>2. r \in Request /\ RequestOK(r)
    BY <1>1, <2>1 DEF Request, RequestOK, Controlled
  <2>3. StoreOK' /\ StoreTyped'
    BY <1>3, <2>1, DeleteTokenKeeps
  <2> QED
    BY <2>1, <2>2, <2>3, AnsweredKeeps
<1>7. CASE LogoutDeleteActive(p)
  <2> DEFINE r == [q EXCEPT !.pc = "outSessGet"]
             next == IF q.user = NONE THEN LogoutDone(q) ELSE r
  <2>1. /\ q.pc = "outDelAct" /\ DeleteLastActive(q.tok) /\ Answered(p, next)
        /\ UNCHANGED <<saves, owner>>
    BY <1>7 DEF LogoutDeleteActive, At
  <2>2. q.user # NONE => r \in Request /\ RequestOK(r)
    BY <1>1, <2>1 DEF Request, RequestOK, Controlled
  <2>3. next \in Request /\ RequestOK(next)
    BY <1>4, <2>2
  <2>4. StoreOK' /\ StoreTyped'
    BY <1>3, <2>1, DeleteLastActiveKeeps
  <2> QED
    BY <2>1, <2>3, <2>4, AnsweredKeeps
<1>8. CASE LogoutGetSession(p)
  <2>1. q.pc = "outSessGet" /\ UNCHANGED <<store, saves, owner>>
    BY <1>8 DEF LogoutGetSession, At
  <2>2. StoreOK' /\ StoreTyped'
    BY <2>1, ReadKeeps DEF IInv, TypeOK
  <2>3. q.user \in Users
    BY <1>1, <2>1 DEF RequestOK, Controlled
  <2>4. CASE session[q.user] = NONE
    BY <1>4, <1>8, <2>1, <2>2, <2>4, MoveKeeps DEF LogoutGetSession
  <2>5. CASE session[q.user] # NONE
    <3> DEFINE kept == RemoveTerminal(session[q.user], q.tok)
               next == IF kept.terms = {} THEN "outSessDel" ELSE "outSessSave"
               r == [q EXCEPT !.sess = kept, !.pc = next]
    <3>1. Goto(p, r)
      BY <1>8, <2>5 DEF LogoutGetSession
    <3>2. SessionOf(session[q.user], q.user)
      BY <2>3, <2>5 DEF IInv, StoreOK
    <3>3. SessionOf(kept, q.user)
      <4> DEFINE T == {x \in session[q.user].terms : x.token # q.tok}
      <4>1. T \in SUBSET Terminal /\ T \subseteq session[q.user].terms
        BY <3>2 DEF SessionOf, Session
      <4>2. kept = [session[q.user] EXCEPT !.terms = T]
        BY DEF RemoveTerminal
      <4> HIDE DEF T, kept
      <4> QED
        BY <2>3, <3>2, <4>1, <4>2, FewerTerminalsOK
    <3>4. kept \in Session
      BY <3>3 DEF SessionOf
    <3> HIDE DEF kept
    <3>5. /\ r \in Request /\ r.pc = next /\ r.sess = kept
          /\ r.todo = q.todo /\ r.op = q.op /\ r.user = q.user /\ r.tok = q.tok
          /\ r.answer = q.answer
      <4>1. next \in {"idle"} \cup BusyPC
        OBVIOUS
      <4>2. r = Move(q, next, kept, q.todo)
        BY <1>1 DEF Request, Move
      <4>3. q.todo \in SUBSET Terminal
        BY <1>1 DEF Request
      <4> HIDE DEF LoginPC, LogoutPC, AuthPC, SavePC, BusyPC, next, r, q
      <4> QED
        BY <1>1, <3>4, <4>1, <4>2, <4>3, Moved
    <3>6. RequestOK(r)
      <4>1. next \in {"outSessDel", "outSessSave"}
        OBVIOUS
      <4> HIDE DEF next, r, q
      <4>2. Controlled(r)
        BY <1>1, <1>3, <2>1, <2>3, <3>5, <4>1 DEF RequestOK, Controlled
      <4> QED
        BY <1>1, <2>3, <3>3, <3>5, <4>2 DEF RequestOK
    <3> QED
      BY <2>1, <2>2, <3>1, <3>5, <3>6, MoveKeeps
  <2> QED
    BY <2>4, <2>5
<1>9. CASE LogoutDeleteSession(p)
  <2>1. /\ q.pc = "outSessDel" /\ DeleteSession(q.user)
        /\ Answered(p, LogoutDone(q)) /\ UNCHANGED <<saves, owner>>
    BY <1>9 DEF LogoutDeleteSession, At
  <2>2. q.user \in Users
    BY <1>1, <2>1 DEF RequestOK, Controlled
  <2>3. StoreOK' /\ StoreTyped'
    BY <2>1, <2>2, DeleteSessionKeeps
  <2> QED
    BY <1>4, <2>1, <2>3, AnsweredKeeps
<1>10. CASE LogoutSaveSession(p)
  <2>1. /\ q.pc = "outSessSave" /\ SaveCopy(q.sess)
        /\ Answered(p, LogoutDone(q)) /\ UNCHANGED <<saves, owner>>
    BY <1>10 DEF LogoutSaveSession, At
  <2>2. q.user \in Users /\ SessionOf(q.sess, q.user)
    BY <1>1, <2>1 DEF RequestOK
  <2>3. StoreOK' /\ StoreTyped'
    BY <2>1, <2>2, SaveCopyKeeps
  <2> QED
    BY <1>4, <2>1, <2>3, AnsweredKeeps
<1> QED
  BY <1>5, <1>6, <1>7, <1>8, <1>9, <1>10 DEF Logout

LEMMA AuthKeeps ==
  ASSUME IInv, NEW p \in Procs, Record, Auth(p)
  PROVE  IInv'
<1> USE DEF LoginPC, LogoutPC, AuthPC, SavePC, BusyPC, UserPC, OwnedPC,
            CopyPC, NoCopyPC
<1> DEFINE q == req[p]
<1>1. q \in Request /\ RequestOK(q)
  BY DEF IInv, TypeOK
<1>2. q.pc \in AuthPC
  BY DEF Auth, CheckToken, CheckActive, CheckTouch, LoadSession, At
<1>3. /\ q.op = "auth" /\ q.tok \in Tokens /\ q.answer = "none"
      /\ q.sess = NONE /\ q.todo = {}
  BY <1>1, <1>2 DEF RequestOK, Controlled
<1>4. CASE CheckToken(p)
  <2> DEFINE u == tokenMap[q.tok]
             r == [q EXCEPT !.user = u,
                            !.pc = IF ActiveCheck THEN "chkAct" ELSE "loadSess"]
  <2>1. q.pc = "chkTok" /\ UNCHANGED <<store, saves, owner>>
    BY <1>4 DEF CheckToken, At
  <2>2. StoreOK' /\ StoreTyped'
    BY <2>1, ReadKeeps DEF IInv, TypeOK
  <2>3. CASE u = NONE
    <3>1. Finished(q, "401") \in Request /\ RequestOK(Finished(q, "401"))
      BY <1>1, <1>2, <1>3, FinishedOK
    <3> QED
      BY <1>4, <2>1, <2>2, <2>3, <3>1, MoveKeeps DEF CheckToken
  <2>4. CASE u # NONE
    <3>1. u \in Users /\ owner[q.tok] = u
      BY <1>3, <2>4 DEF IInv, TypeOK, StoreOK
    <3> HIDE DEF u
    <3>2. r \in Request /\ RequestOK(r)
      <4>1. PICK c \in {"chkAct", "loadSess"} : r = Serve(q, u, c)
        BY DEF Serve
      <4>2. /\ r \in Request /\ r.pc = c /\ r.user = u /\ r.todo = q.todo
            /\ r.op = q.op /\ r.sess = q.sess /\ r.tok = q.tok
            /\ r.answer = q.answer
        <5>1. c \in {"idle"} \cup BusyPC
          OBVIOUS
        <5> HIDE DEF LoginPC, LogoutPC, AuthPC, SavePC, BusyPC, r, q
        <5> QED
          BY <1>1, <3>1, <4>1, <5>1, Served
      <4> HIDE DEF r, q
      <4>3. Controlled(r)
        BY <1>1, <1>3, <2>1, <3>1, <4>2 DEF RequestOK, Controlled
      <4> QED
        BY <1>1, <1>3, <3>1, <4>2, <4>3 DEF RequestOK
    <3>3. Goto(p, r)
      BY <1>4, <2>4 DEF CheckToken, u
    <3> QED
      BY <2>1, <2>2, <3>2, <3>3, MoveKeeps
  <2> QED
    BY <2>3, <2>4
<1>5. CASE CheckActive(p)
  <2>1. q.pc = "chkAct" /\ UNCHANGED <<store, saves, owner>>
    BY <1>5 DEF CheckActive, At
  <2>2. StoreOK' /\ StoreTyped'
    BY <2>1, ReadKeeps DEF IInv, TypeOK
  <2>3. /\ [q EXCEPT !.pc = "outGet"] \in Request
        /\ RequestOK([q EXCEPT !.pc = "outGet"])
    BY <1>1, <1>3, <2>1 DEF Request, RequestOK, Controlled
  <2>4. /\ [q EXCEPT !.pc = "chkTouch"] \in Request
        /\ RequestOK([q EXCEPT !.pc = "chkTouch"])
    BY <1>1, <1>3, <2>1 DEF Request, RequestOK, Controlled
  <2> QED
    BY <1>5, <2>1, <2>2, <2>3, <2>4, MoveKeeps DEF CheckActive
<1>6. CASE CheckTouch(p)
  <2> DEFINE r == [q EXCEPT !.pc = "loadSess"]
  <2>1. /\ q.pc = "chkTouch" /\ Touch(q.tok) /\ Answered(p, r)
        /\ UNCHANGED <<saves, owner>>
    BY <1>6 DEF CheckTouch, At
  <2>2. r \in Request /\ RequestOK(r)
    BY <1>1, <1>3, <2>1 DEF Request, RequestOK, Controlled
  <2>3. StoreOK' /\ StoreTyped'
    BY <1>3, <2>1, TouchKeeps
  <2> QED
    BY <2>1, <2>2, <2>3, AnsweredKeeps
<1>7. CASE LoadSession(p)
  <2> DEFINE a == IF session[q.user] = NONE THEN "401" ELSE "ok"
  <2>1. /\ q.pc = "loadSess" /\ Goto(p, Finished(q, a))
        /\ UNCHANGED <<store, saves, owner>>
    BY <1>7 DEF LoadSession, At
  <2>2. StoreOK' /\ StoreTyped'
    BY <2>1, ReadKeeps DEF IInv, TypeOK
  <2>3. Finished(q, a) \in Request /\ RequestOK(Finished(q, a))
    BY <1>1, <1>3, <2>1, FinishedOK
  <2> QED
    BY <2>1, <2>2, <2>3, MoveKeeps
<1> QED
  BY <1>4, <1>5, <1>6, <1>7 DEF Auth

LEMMA SaveKeeps ==
  ASSUME IInv, NEW p \in Procs, Record, Save(p)
  PROVE  IInv'
<1> USE DEF LoginPC, LogoutPC, AuthPC, SavePC, BusyPC, UserPC, OwnedPC,
            CopyPC, NoCopyPC
<1> DEFINE q == req[p]
<1>1. q \in Request /\ RequestOK(q)
  BY DEF IInv, TypeOK
<1>2. q.pc \in SavePC
  BY DEF Save, SaveGet, SaveSet, At
<1>3. q.op = "save" /\ q.user \in Users /\ q.answer = "none"
  BY <1>1, <1>2 DEF RequestOK, Controlled
<1>4. \A a \in {"none", "ok"} :
        Finished(q, a) \in Request /\ RequestOK(Finished(q, a))
  BY <1>1, <1>2, <1>3, FinishedOK
<1>5. CASE SaveGet(p)
  <2>1. q.pc = "saveGet" /\ UNCHANGED <<store, owner>>
    BY <1>5 DEF SaveGet, At
  <2>2. saves' \in Nat
    BY <1>5 DEF SaveGet, IInv, TypeOK
  <2>3. StoreOK' /\ StoreTyped'
    BY <2>1, <2>2, ReadKeeps
  <2>4. CASE session[q.user] = NONE
    BY <1>4, <1>5, <2>1, <2>3, <2>4, MoveKeeps DEF SaveGet
  <2>5. CASE session[q.user] # NONE
    <3> DEFINE s == session[q.user]
               s1 == [s EXCEPT !.data = saves + 1]
               r == [q EXCEPT !.pc = "saveSet", !.sess = s1]
    <3>1. SessionOf(s, q.user)
      BY <1>3, <2>5 DEF IInv, StoreOK
    <3>2. saves + 1 \in Nat
      BY DEF IInv, TypeOK
    <3>3. /\ s1 \in Session /\ s1.loginId = s.loginId /\ s1.terms = s.terms
          /\ s1.count = s.count
      BY <3>1, <3>2 DEF SessionOf, Session
    <3>4. Goto(p, r)
      BY <1>5, <2>5 DEF SaveGet
    <3> HIDE DEF s1
    <3>5. SessionOf(s1, q.user)
      BY <3>1, <3>3 DEF SessionOf, WellFormed
    <3>6. r \in Request
      BY <1>1, <3>3 DEF Request
    <3>7. RequestOK(r)
      BY <1>1, <1>3, <2>1, <3>5 DEF Request, RequestOK, Controlled
    <3> QED
      BY <2>1, <2>3, <3>4, <3>6, <3>7, MoveKeeps
  <2> QED
    BY <2>4, <2>5
<1>6. CASE SaveSet(p)
  <2>1. /\ q.pc = "saveSet" /\ SaveCopy(q.sess)
        /\ Answered(p, Finished(q, "ok")) /\ UNCHANGED <<saves, owner>>
    BY <1>6 DEF SaveSet, At
  <2>2. SessionOf(q.sess, q.user)
    BY <1>1, <2>1 DEF RequestOK
  <2>3. StoreOK' /\ StoreTyped'
    BY <1>3, <2>1, <2>2, SaveCopyKeeps
  <2> QED
    BY <1>4, <2>1, <2>3, AnsweredKeeps
<1> QED
  BY <1>5, <1>6 DEF Save

-----------------------------------------------------------------------------
(* Requests that begin, calls that fail, time *)

LEMMA StartKeeps ==
  ASSUME IInv, NEW p \in Procs, Record, Start(p)
  PROVE  IInv'
<1> USE DEF LoginPC, LogoutPC, AuthPC, SavePC, BusyPC, UserPC, OwnedPC,
            CopyPC, NoCopyPC
<1>1. UNCHANGED <<store, saves, owner>>
  BY DEF Start, StartLogin, StartSave, StartLogout, StartAuth, Anonymous
<1>2. StoreOK' /\ StoreTyped'
  BY <1>1, ReadKeeps DEF IInv, TypeOK
<1>3. ASSUME NEW u \in Users, StartLogin(p, u)
      PROVE  IInv'
  <2> DEFINE r == [NoRequest EXCEPT !.op = "login", !.user = u,
                     !.pc = IF IsConcurrent THEN AfterReplaced ELSE "replGet"]
  <2>1. r \in Request /\ RequestOK(r)
    BY DEF NoRequest, AfterReplaced, Request, RequestOK, Controlled
  <2>2. Goto(p, r)
    BY <1>3 DEF StartLogin
  <2> QED
    BY <1>1, <1>2, <2>1, <2>2, MoveKeeps
<1>4. ASSUME NEW u \in Users, StartSave(p, u)
      PROVE  IInv'
  <2> DEFINE r == [NoRequest EXCEPT !.op = "save", !.pc = "saveGet", !.user = u]
  <2>1. r \in Request /\ RequestOK(r)
    BY DEF NoRequest, Request, RequestOK, Controlled
  <2>2. Goto(p, r)
    BY <1>4 DEF StartSave
  <2> QED
    BY <1>1, <1>2, <2>1, <2>2, MoveKeeps
<1>5. ASSUME NEW t \in Tokens, StartLogout(p, t)
      PROVE  IInv'
  <2> DEFINE r == [NoRequest EXCEPT !.op = "logout", !.pc = "outGet", !.tok = t]
  <2>1. r \in Request /\ RequestOK(r)
    BY <1>5 DEF StartLogout, IInv, NoRequest, Request, RequestOK, Controlled
  <2>2. Goto(p, r)
    BY <1>5 DEF StartLogout
  <2> QED
    BY <1>1, <1>2, <2>1, <2>2, MoveKeeps
<1>6. ASSUME NEW t \in Tokens, StartAuth(p, t)
      PROVE  IInv'
  <2> DEFINE b == lastActive[t] = "idle"
             r == [NoRequest EXCEPT !.op = "auth", !.pc = "chkTok", !.tok = t,
                                    !.wasIdle = b]
  <2>1. b \in BOOLEAN /\ owner[t] # NONE
    BY <1>6 DEF StartAuth, IInv
  <2>2. Goto(p, r)
    BY <1>6 DEF StartAuth
  <2> HIDE DEF b
  <2>3. r \in Request /\ RequestOK(r)
    BY <2>1 DEF NoRequest, Request, RequestOK, Controlled
  <2> QED
    BY <1>1, <1>2, <2>2, <2>3, MoveKeeps
<1>7. CASE Anonymous(p)
  <2> DEFINE r == [NoRequest EXCEPT !.op = "auth", !.answer = "401"]
  <2>1. r \in Request /\ RequestOK(r)
    BY DEF NoRequest, Request, RequestOK, Controlled
  <2>2. Goto(p, r)
    BY <1>7 DEF Anonymous
  <2> QED
    BY <1>1, <1>2, <2>1, <2>2, MoveKeeps
<1> QED
  BY <1>3, <1>4, <1>5, <1>6, <1>7 DEF Start

LEMMA StoreFailsKeeps ==
  ASSUME IInv, NEW p \in Procs, Record, StoreFails(p)
  PROVE  IInv'
<1>1. /\ req[p].pc # "idle" /\ Goto(p, Finished(req[p], "503"))
      /\ UNCHANGED <<store, saves, owner>>
  BY DEF StoreFails, BusyPC, LoginPC, LogoutPC, AuthPC, SavePC
<1>2. StoreOK' /\ StoreTyped'
  BY <1>1, ReadKeeps DEF IInv, TypeOK
<1>3. /\ Finished(req[p], "503") \in Request
      /\ RequestOK(Finished(req[p], "503"))
  BY <1>1, FinishedOK DEF IInv, TypeOK
<1> QED
  BY <1>1, <1>2, <1>3, MoveKeeps

\* Nothing but the store and the history variables changes.
LEMMA EnvironmentKeeps ==
  ASSUME IInv, UNCHANGED <<req, saves, owner>>, StoreOK', StoreTyped', Record
  PROVE  IInv'
<1>1. \A p \in Procs : RequestOK(req[p])'
  <2> SUFFICES ASSUME NEW p \in Procs PROVE RequestOK(req[p])'
    OBVIOUS
  <2>1. req[p] \in Request /\ RequestOK(req[p]) /\ OwnerKept
    BY DEF IInv, TypeOK, OwnerKept
  <2> QED
    BY <2>1, RequestKept
<1>2. /\ issued' \in SUBSET Tokens
      /\ condemned' \in SUBSET Tokens
      /\ revoked' \in SUBSET Tokens
      /\ \A t \in issued' : owner'[t] # NONE
  <2>1. /\ Returned' \subseteq Tokens /\ LoggedOut' \subseteq Tokens
        /\ \A t \in Returned' : owner'[t] # NONE
    BY <1>1 DEF RequestOK, Controlled, Returned, LoggedOut
  <2>2. BeingRemoved' \subseteq Tokens
    <3>1. \A q \in Procs : \A x \in req'[q].todo : x.token \in Tokens
      BY DEF IInv, TypeOK, Request, Terminal
    <3>2. \A q \in Procs :
            req'[q].op = "logout" \/ req'[q].pc \in LogoutPC => req'[q].tok \in Tokens
      BY <1>1 DEF RequestOK, Controlled
    <3> QED
      BY <3>1, <3>2 DEF BeingRemoved
  <2> QED
    BY <2>1, <2>2 DEF Record, IInv, TypeOK, OwnerKept
<1> QED
  BY <1>1, <1>2 DEF IInv, TypeOK, StoreTyped

LEMMA TimeKeeps ==
  ASSUME IInv, Record, (\E t \in Tokens : GoIdle(t)) \/ Expire
  PROVE  IInv'
<1>1. ASSUME NEW t \in Tokens, GoIdle(t)
      PROVE  StoreOK' /\ StoreTyped'
  BY <1>1, ActiveKeyKeeps DEF GoIdle
<1>2. ASSUME Expire
      PROVE  StoreOK' /\ StoreTyped'
  BY <1>2, DeleteTokenKeeps, DeleteLastActiveKeeps, DeleteSessionKeeps DEF Expire
<1>3. UNCHANGED <<req, saves, owner>>
  BY DEF GoIdle, Expire
<1> QED
  BY <1>1, <1>2, <1>3, EnvironmentKeeps

-----------------------------------------------------------------------------
(* Theorems *)

LEMMA InitInvariant == Init => IInv
<1> SUFFICES ASSUME Init PROVE IInv
  OBVIOUS
<1>1. TypeOK
  BY DEF Init, TypeOK, NoRequest, Request
<1>2. StoreOK
  BY DEF Init, StoreOK
<1>3. RequestOK(NoRequest)
  BY DEF NoRequest, RequestOK, Controlled, LoginPC, LogoutPC, AuthPC, SavePC,
         BusyPC, UserPC, OwnedPC, CopyPC, NoCopyPC
<1> QED
  BY <1>1, <1>2, <1>3 DEF IInv, Init

LEMMA StepInvariant == IInv /\ [Next]_vars => IInv'
<1> SUFFICES ASSUME IInv, [Next]_vars PROVE IInv'
  OBVIOUS
<1>1. CASE Next
  <2>1. Record
    BY <1>1 DEF Next
  <2>2. ASSUME NEW p \in Procs, Start(p) \/ Handle(p) \/ StoreFails(p)
        PROVE  IInv'
    BY <2>1, <2>2, StartKeeps, LoginKeeps, LogoutKeeps, AuthKeeps, SaveKeeps,
       StoreFailsKeeps DEF Handle
  <2> QED
    BY <1>1, <2>1, <2>2, TimeKeeps DEF Next, Step
<1>2. CASE UNCHANGED vars
  <2>1. UNCHANGED <<tokenMap, lastActive, session, req, saves, owner, issued,
                    condemned, revoked>>
    BY <1>2 DEF vars, history
  <2>2. StoreOK' /\ StoreTyped'
    BY <2>1, ReadKeeps DEF store, IInv, TypeOK
  <2>3. \A p \in Procs : RequestOK(req[p])'
    <3> SUFFICES ASSUME NEW p \in Procs PROVE RequestOK(req[p])'
      OBVIOUS
    <3>1. req[p] \in Request /\ RequestOK(req[p]) /\ OwnerKept
      BY <2>1 DEF IInv, TypeOK, OwnerKept
    <3> QED
      BY <2>1, <3>1, RequestKept
  <2> QED
    BY <2>1, <2>2, <2>3 DEF IInv, TypeOK
<1> QED
  BY <1>1, <1>2

THEOREM Invariance == Spec => []IInv
BY InitInvariant, StepInvariant, PTL DEF Spec

\* Every variable keeps its type.
THEOREM TypeCorrect == Spec => []TypeOK
<1>1. IInv => TypeOK
  BY DEF IInv
<1> QED
  BY <1>1, Invariance, PTL

\* Accounts are isolated: see AccountIsolation.
THEOREM AccountsIsolated == Spec => []AccountIsolation
<1>1. IInv => AccountIsolation
  BY DEF IInv, AccountIsolation, StoreOK, RequestOK, Controlled, SessionOf
<1> QED
  BY <1>1, Invariance, PTL

\* Terminal lists stay well formed: see TerminalListWellFormed.
THEOREM TerminalsWellFormed == Spec => []TerminalListWellFormed
<1>1. IInv => TerminalListWellFormed
  BY DEF IInv, TerminalListWellFormed, StoreOK, RequestOK, SessionOf
<1> QED
  BY <1>1, Invariance, PTL
=============================================================================
