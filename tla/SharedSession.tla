--------------------------- MODULE SharedSession ---------------------------
(***************************************************************************)
(* One Account-Session that Java services, earlier Go services and this    *)
(* package read and write in turn, and the permissions decided from it:    *)
(* the codec of SessionCodec with the checks of Permission.                *)
(*                                                                         *)
(* A step is one whole operation, in the order SaToken.tla interleaves     *)
(* them; here the question is what survives a sequence of them.  stored is *)
(* the value under the session's key.  What the last writers meant is kept *)
(* beside it.                                                              *)
(***************************************************************************)
EXTENDS SessionCodec, Permission

CONSTANTS
  CodeLists,    \* lists of permission codes a login writes
  RoleLists,    \* lists of role codes
  Attrs,        \* other values of the dataMap, as Java writes them
  Extras,       \* extraData of a terminal, as Java writes it, or Null
  LoginIds,     \* the login id as JSON, in the forms found in stores
  TokenValues,
  MaxCount,     \* bound on the counter of terminals, which never goes down
  Samples       \* lists of groups of codes that handlers ask for

IsList(l)   == l \in Seq({l[i] : i \in DOMAIN l})
TextJson(j) == Is("str", j) /\ j = Str(j.str)
ListJson(j) == Is("arr", j) /\ j = Arr(j.arr) /\ IsList(j.arr)

ASSUME ListsAssumption == \A l \in CodeLists \cup RoleLists : IsList(l)

ASSUME MaxCountAssumption == MaxCount \in Nat

ASSUME ExactAssumption == Exact \in Nat

Whole(j) == j = Num(j.num) /\ j.num \in Int

ASSUME LoginIdsAssumption ==
  \A id \in LoginIds : DOMAIN id = {"str"} \/ (DOMAIN id = {"num"} /\ Whole(id))

\* What the functions of the codec may be given inside a value.  A list or an
\* object stays one, and its numbers are rounded once.
Inside(j) ==
  \/ DOMAIN j = {"str"} /\ TextJson(j)
  \/ DOMAIN j = {"null"}
  \/ DOMAIN j = {"num"} /\ Whole(j)
  \/ /\ DOMAIN j \in {{"arr"}, {"obj"}} /\ DOMAIN AnyNested(j) \in {{"arr"}, {"obj"}}
     /\ AnyNested(AnyNested(j)) = AnyNested(j)

\* A list of such values.
ListInside(j) ==
  ListJson(j) /\ DOMAIN j = {"arr"} /\ \A i \in DOMAIN j.arr : Inside(j.arr[i])

\* An object with its class, whose members come back from a rewrite.
MapInside(j) ==
  /\ DOMAIN j = {"obj"} /\ {"class"} = DOMAIN j.obj \ Members(j.obj) /\ "items" \notin DOMAIN j.obj
  /\ \A k \in Members(j.obj) :
       LET v == DecodeInner(j.obj[k]) IN v # Err /\ DecodeInner(InnerToJson(v)) = v

\* A value that Java wrote: text, a number, an array of a class and a body, or
\* an object with its class.
ASSUME AttrsAssumption ==
  \A a \in Attrs :
    \/ DOMAIN a = {"str"}
    \/ DOMAIN a = {"num"} /\ Whole(a)
    \/ /\ ListJson(a) /\ DOMAIN a = {"arr"} /\ Len(a.arr) = 2 /\ TextJson(a.arr[1])
       /\ DOMAIN a.arr[1] = {"str"}
       /\ IF Is("arr", a.arr[2]) THEN ListInside(a.arr[2])
          ELSE Inside(a.arr[2]) /\ a.arr[1].str \notin ListClasses
    \/ MapInside(a)

\* The numbers of a value as float64.
AsDoubles(a) ==
  IF Is("arr", a) /\ Is("arr", a.arr[2]) THEN Arr(<<a.arr[1], AnyList(a.arr[2].arr)>>)
  ELSE IF Is("num", a) THEN Any(a) ELSE a

\* A value that keeps its type: text, numbers, and lists of whatever.  A long
\* number in an array with its class is taken for a list, and a map loses its
\* class (session_codec.go:346, 420).
Portable(a) == ~Is("obj", a) /\ (Is("arr", a) => a.arr[1].str \in ListClasses)

\* Java reads what it wrote, also with its numbers rounded.
ASSUME JavaAttrsAssumption ==
  \A a \in Attrs : Portable(a) => Bad \notin {JavaValue(a), JavaValue(AsDoubles(a))}

\* An object, whose numbers a float64 holds, or something else in its place.
ASSUME ExtrasAssumption ==
  \A e \in Extras :
    \/ e = Null
    \/ DOMAIN e = {"arr"}
    \/ DOMAIN e = {"obj"} /\ AnyNested(e) = e /\ e # Obj(<<>>)

\* Java reads the codes inside a list as it reads text anywhere.
ASSUME JavaTextAssumption ==
  \A l \in CodeLists \cup RoleLists : \A i \in DOMAIN l :
    JavaInner(Str(l[i])) = JavaValue(Str(l[i]))

\* A session, and whoever has one, is not a nil pointer.
ASSUME NilAssumption ==
  \A cs \in CodeLists \cup {<<>>}, rs \in RoleLists \cup {<<>>} :
    LET s == [permissions |-> cs, roles |-> rs]
    IN  s # NIL /\ [session |-> s, checker |-> "ready"] # NIL

VARIABLES
  stored,       \* the JSON under the key, or Absent
  typed,        \* its last writer wrote for Java
  \* history: what the writers meant
  codes, roles, attr, terms

meant == <<codes, roles, attr, terms>>
vars  == <<stored, typed, meant>>

Absent == [absent |-> TRUE]
NoAttr == Null

Init ==
  /\ stored = Absent /\ typed = FALSE
  /\ codes = <<>> /\ roles = <<>> /\ attr = NoAttr /\ terms = <<>>

-----------------------------------------------------------------------------
(* The other writers (external): a login of theirs writes all of it.       *)

Terms(ts, class) ==
  Arr([i \in DOMAIN ts |-> [term |-> ts[i].term, class |-> class, extra |-> ts[i].extra]])

Terminal(t, extra) == [term |-> t, extra |-> extra]

Wrote(loginId, dataMap, terminalList, cs, rs, a, ts, count) ==
  /\ stored' = [loginId |-> loginId, dataMap |-> dataMap,
                terminalList |-> terminalList, count |-> count]
  /\ codes' = cs /\ roles' = rs /\ attr' = a /\ terms' = ts

Typed(class, body) == Arr(<<Str(class), body>>)

SessionMap == "java.util.concurrent.ConcurrentHashMap"

\* The members f as dataMap: with the class among them, as Java writes it
\* (testdata/satoken-java-session.json), or in an array with it, as the comment
\* at session_codec.go:73 has it.
DataMapForms(f) ==
  {Obj([k \in DOMAIN f \cup {"class"} |-> IF k = "class" THEN Str(SessionMap) ELSE f[k]]),
   Typed(SessionMap, Obj(f))}

\* sa-token-jackson
JavaWrites(loginId, cs, rs, a, t, extra) ==
  LET List(l) == Typed("java.util.ImmutableCollections$List12", Arr(Texts(l)))
      ts == <<Terminal(t, extra)>>
  IN  /\ \E dataMap \in DataMapForms([permissions |-> List(cs), roles |-> List(rs), attr |-> a]) :
           Wrote(loginId, dataMap, Typed("java.util.Vector", Terms(ts, TRUE)), cs, rs, a, ts, 1)
      /\ typed' = TRUE

\* A nil list of earlier Go code
NilItems == Obj([class |-> Str(ListClass), items |-> Null])

\* Earlier Go code: "@class" and "@items" as members, and no counter.
OldGoWrites(loginId, cs, rs, a, t) ==
  LET List(l) == Obj([class |-> Str(ListClass), items |-> Arr(Texts(l))])
      dataMap == [class |-> Str("java.util.LinkedHashMap"),
                  permissions |-> List(cs), roles |-> List(rs), attr |-> a]
      ts == <<Terminal(t, Null)>>
  IN  /\ Wrote(loginId, Obj(dataMap),
               Obj([class |-> Str("java.util.Vector"), items |-> Terms(ts, TRUE)]),
               cs, rs, a, ts, 0)
      /\ typed' = FALSE

\* JSON without types
BareWrites(loginId, cs, rs, t) ==
  LET List(l) == Arr(Texts(l))
      ts == <<Terminal(t, Null)>>
  IN  /\ Wrote(loginId, Obj([permissions |-> List(cs), roles |-> List(rs)]),
               Terms(ts, FALSE), cs, rs, NoAttr, ts, 0)
      /\ typed' = FALSE

-----------------------------------------------------------------------------
(* This package *)

NewSession == [loginId |-> Null, data |-> <<>>, terms |-> <<>>, count |-> 0]

\* saveSession: under the key of the session's login id, which is not the
\* key it was read from when that id was a long number.  Then the write is lost
\* to whoever reads this key.
Save(s) ==
  IF SameKey(s.loginId) THEN stored' = Marshal(s) /\ typed' = TRUE
  ELSE UNCHANGED <<stored, typed>>

\* getSessionByID: nothing can be done with JSON that does not decode.  A Login
\* fails on it too.
Loaded   == Unmarshal(stored)
Readable == stored # Absent /\ Loaded # Err

\* Logic.Login of a new token: the login id becomes a string.
GoLogin(loginId, t) ==
  LET s == IF stored = Absent THEN NewSession ELSE Unmarshal(stored)
  IN  /\ s # Err
      /\ s.count < MaxCount /\ t \notin {s.terms[i].term : i \in DOMAIN s.terms}
      /\ Save([s EXCEPT !.loginId = loginId, !.terms = Append(@, Terminal(t, Null)),
                        !.count = s.count + 1])
      /\ terms' = Append(terms, Terminal(t, Null)) /\ UNCHANGED <<codes, roles, attr>>

\* Logic.renew: the session is written back as it was read.
GoRenew == Readable /\ Save(Loaded) /\ UNCHANGED meant

\* Logic.Logout: a session without terminals is deleted.
GoLogout(t) ==
  LET rest == RemoveTerminal(Loaded.terms, t)
  IN  /\ Readable
      /\ IF rest = <<>>
           THEN /\ stored' = Absent /\ typed' = FALSE
                /\ codes' = <<>> /\ roles' = <<>> /\ attr' = NoAttr /\ terms' = <<>>
           ELSE /\ Save([Loaded EXCEPT !.terms = rest])
                /\ terms' = IF SameKey(Loaded.loginId) THEN RemoveTerminal(terms, t)
                                                  ELSE terms
                /\ UNCHANGED <<codes, roles, attr>>

\* A login service after Login: Session.Set twice, then Logic.SaveSession.
GoSaves(cs, rs) ==
  /\ Readable
  /\ Save(SetData(SetData(Loaded, "permissions", Strs(cs)), "roles", Strs(rs)))
  /\ IF SameKey(Loaded.loginId) THEN codes' = cs /\ roles' = rs
                                ELSE UNCHANGED <<codes, roles>>
  /\ UNCHANGED <<attr, terms>>

-----------------------------------------------------------------------------
Next ==
  \/ \E id \in LoginIds, cs \in CodeLists, rs \in RoleLists, t \in TokenValues :
       \/ \E a \in Attrs, extra \in Extras : JavaWrites(id, cs, rs, a, t, extra)
       \/ \E a \in {NoAttr, NilItems} : OldGoWrites(id, cs, rs, a, t)
       \/ BareWrites(id, cs, rs, t)
  \/ \E id \in LoginIds, t \in TokenValues : Is("str", id) /\ GoLogin(id, t)
  \/ GoRenew
  \/ \E t \in TokenValues : GoLogout(t)
  \/ \E cs \in CodeLists, rs \in RoleLists : GoSaves(cs, rs)

Spec == Init /\ [][Next]_vars

-----------------------------------------------------------------------------
(* Properties *)

\* The session a handler finds in its context.
InContext ==
  IF stored = Absent THEN NIL
  ELSE LET s == Unmarshal(stored)
       IN  [permissions |-> StringList(s, "permissions"), roles |-> StringList(s, "roles")]

Allowed(groups) ==
  \/ Has(roles, RootRoleID)
  \/ \A i \in DOMAIN groups : \E j \in DOMAIN groups[i] :
       groups[i][j] # NoCode /\ Has(codes, groups[i][j])

\* Of a session that decodes and whose login id names its key: whoever wrote it
\* last, and however often Go rewrote it since, a handler is allowed exactly what
\* the roles and permissions meant by the last login allow: root everything, the
\* rest one code of every group (permission.go:52, 131, 163;
\* session_codec.go:240, 418).
DecisionsFollowSnapshot ==
  LET actor == [session |-> InContext, checker |-> "ready"]
  IN  Readable /\ SameKey(stored.loginId) =>
        /\ \A groups \in Samples : RequirePermissionGroups(actor, groups) <=> Allowed(groups)
        /\ \A rs \in RoleLists : \A i \in DOMAIN rs :
             CheckRole(InContext, rs[i]) <=> rs[i] # NoCode /\ Has(roles, rs[i])

\* Of a session whose login id names its key, when Java or this package wrote it
\* last: Java reads it, with the lists of codes that the last login wrote and the
\* value it wrote itself, whose numbers may have become float64
\* (session_codec.go:182-253, 335, 453).  Exempt is a value that is not Portable:
\* a map loses its class in a rewrite, and Java then refuses the whole session.
JavaReadsBack ==
  typed /\ SameKey(stored.loginId) =>
    LET read == JavaDataMap(stored.dataMap)
        At(key) == IF key \in DOMAIN read.obj THEN read.obj[key] ELSE Null
    IN  /\ Portable(attr) =>
             read # Bad /\ At("attr") \in {JavaValue(attr), JavaValue(AsDoubles(attr))}
        /\ read # Bad =>
             /\ At("permissions") \in {Arr(Texts(codes))} \cup (IF codes = <<>> THEN {Null} ELSE {})
             /\ At("roles") \in {Arr(Texts(roles))} \cup (IF roles = <<>> THEN {Null} ELSE {})

\* Of a session whose login id names its key: it decodes unless the extraData of
\* one of its terminals is no object, no rewrite loses, repeats or changes a
\* terminal, whatever form the list was read in, and the counter that numbers new
\* terminals is never behind the list, so no index is given twice
\* (session_codec.go:296-313).
TerminalsSurvive ==
  stored # Absent /\ SameKey(stored.loginId) =>
    LET s == Unmarshal(stored) IN
    /\ s = Err <=> \E i \in DOMAIN terms : Is("arr", terms[i].extra)
    /\ s # Err => s.terms = terms /\ s.count >= Len(s.terms)
    /\ typed => LET l == stored.terminalList IN
         IF terms = <<>> THEN l = Null
         ELSE l.arr[1].str = "java.util.Vector" /\ l.arr[2] = Terms(terms, TRUE)
=============================================================================
