---------------------------- MODULE SessionCodec ----------------------------
(***************************************************************************)
(* The JSON of an Account-Session (src/satoken/session_codec.go), which    *)
(* Sa-Token services in Java, earlier Go services and this package write   *)
(* under the same key.                                                     *)
(*                                                                         *)
(* A JSON value is a record with one field that says its kind; a decoded   *)
(* value of Go has two kinds more, strs for []string and nil for a nil     *)
(* []any.  The text of the JSON, its field order and white space are left  *)
(* out; the members "@class" and "@items" are called class and items.  A   *)
(* terminal is one JSON object, [term |-> token, class |-> it carries      *)
(* "@class", extra |-> its extraData, Null when there is none].            *)
(*                                                                         *)
(* Four of the functions call themselves for the values inside a value.    *)
(* That call is a parameter: what is said of them holds whatever it does.  *)
(***************************************************************************)
EXTENDS Integers, Sequences, FiniteSets

CONSTANTS
  Exact,            \* up to here a float64 holds every integer: 2^53
  AnyNested(_),     \* Any, of a list or an object inside a value
  DecodeInner(_),   \* DecodeDataValue, of a member of an object
  InnerToJson(_),   \* ToJson, likewise
  JavaInner(_)      \* JavaValue, of an element of a list or a member of a map

Null   == [null |-> TRUE]
Err    == [err |-> TRUE]                      \* a decoding error
Str(s) == [str |-> s]
Num(n) == [num |-> n]
Arr(l) == [arr |-> l]
Obj(f) == [obj |-> f]
Strs(l) == [strs |-> l]
NilList == [nil |-> TRUE]

Is(kind, j) == kind \in DOMAIN j

\* The members of an object, "@class" left out.
Members(f) == DOMAIN f \ {"class"}

\* A list of strings as JSON.
Texts(l) == [i \in DOMAIN l |-> Str(l[i])]

\* The elements of l at the places I, in their order.
Picked(l, I) ==
  [n \in 1..Cardinality(I) |-> l[CHOOSE i \in I : Cardinality({j \in I : j =< i}) = n]]

\* The kind of wrapper Jackson writes for a list: its class, then the list.
ListWrapper(j) ==
  /\ Is("arr", j) /\ Len(j.arr) = 2
  /\ Is("str", j.arr[1]) /\ Is("arr", j.arr[2])

-----------------------------------------------------------------------------
(* Reading *)

\* The float64 nearest to n, a tie going to the even mantissa.  It is that of
\* the integers up to 2 * Exact, of which every second one is a float64.
Float(n) ==
  IF n \in -Exact..Exact \/ n % 2 = 0 THEN n ELSE IF n % 4 = 3 THEN n + 1 ELSE n - 1

\* encoding/json decoding into any: a number becomes a float64, at every depth.
Any(j) ==
  IF Is("num", j) THEN Num(Float(j.num))
  ELSE IF Is("arr", j) \/ Is("obj", j) THEN AnyNested(j) ELSE j

\* A list of JSON as []any.
AnyList(l) == Arr([i \in DOMAIN l |-> Any(l[i])])

\* decodeCollection: a wrapper, the "@items" of earlier Go code, or a list.
\* Nothing in the place of a list is a nil []any, which is not the empty one.
DecodeCollection(j) ==
  IF ListWrapper(j) THEN AnyList(j.arr[2].arr)
  ELSE IF Is("arr", j) THEN AnyList(j.arr)
  ELSE IF Is("obj", j) /\ "items" \in DOMAIN j.obj /\ j.obj["items"] # Null
    THEN IF Is("arr", j.obj["items"]) THEN AnyList(j.obj["items"].arr) ELSE Err
  ELSE IF j = Null \/ Is("obj", j) THEN NilList ELSE Err

\* decodePlainMap once it has the decoded members: one that could not be
\* decoded fails the whole.
DecodePlainMap(f) == IF \E k \in DOMAIN f : f[k] = Err THEN Err ELSE Obj(f)

\* decodeDataValue: a list of strings becomes []string, the empty one too.
DecodeDataValue(j) ==
  IF Is("arr", j)
    THEN LET list == DecodeCollection(j).arr IN
         IF \A i \in DOMAIN list : Is("str", list[i])
           THEN Strs([i \in DOMAIN list |-> list[i].str]) ELSE Arr(list)
  ELSE IF Is("obj", j)
    THEN IF "items" \in DOMAIN j.obj THEN DecodeCollection(j)
         ELSE DecodePlainMap([k \in Members(j.obj) |-> DecodeInner(j.obj[k])])
  ELSE Any(j)

\* decodeDataMap: the wrapper's class is not looked at; an object with
\* "@items" is read like any other, "@items" being one of its members.
DecodeDataMap(j) ==
  LET map == IF ~Is("arr", j) THEN j ELSE IF Len(j.arr) = 2 THEN j.arr[2] ELSE Err
  IN  IF map = Null THEN Obj(<<>>)
      ELSE IF ~Is("obj", map) THEN Err
      ELSE DecodePlainMap([k \in Members(map.obj) |-> DecodeDataValue(map.obj[k])])

\* TerminalInfo.UnmarshalJSON: null leaves the terminal empty, and extraData
\* has to be an object or null.
TerminalInfo(item) ==
  IF item = Null THEN [term |-> "", extra |-> Null]
  ELSE IF ~Is("term", item) \/ ~(item.extra = Null \/ Is("obj", item.extra)) THEN Err
  ELSE [term |-> item.term, extra |-> Any(item.extra)]

\* MUTANT: only the wrapper of Java is taken for a list of terminals
UnmarshalJavaOnly(j) ==
  LET data  == DecodeDataMap(j.dataMap)
      items == IF ListWrapper(j.terminalList) THEN j.terminalList.arr[2].arr ELSE <<>>
      terms == [i \in DOMAIN items |-> TerminalInfo(items[i])]
  IN  IF data = Err \/ Err \in {terms[i] : i \in DOMAIN terms} THEN Err
      ELSE [loginId |-> Any(j.loginId), data |-> data.obj, terms |-> terms,
            count |-> IF j.count < Len(terms) THEN Len(terms) ELSE j.count]

\* unmarshalSession.  One terminal that does not decode fails the whole.  A
\* counter below the number of terminals (earlier Go code wrote none) is raised
\* to it.
Unmarshal(j) ==
  LET data  == DecodeDataMap(j.dataMap)
      list  == DecodeCollection(j.terminalList)
      items == IF list = NilList THEN <<>> ELSE list.arr
      terms == [i \in DOMAIN items |-> TerminalInfo(items[i])]
  IN  IF Err \in {data, list} THEN Err
      ELSE IF \E i \in DOMAIN terms : terms[i] = Err THEN Err
      ELSE [loginId |-> Any(j.loginId), data |-> data.obj, terms |-> terms,
            count |-> IF j.count < Len(terms) THEN Len(terms) ELSE j.count]

-----------------------------------------------------------------------------
(* Writing *)

ListClass == "java.util.ArrayList"

\* encoding/json on a decoded value
ToJson(v) ==
  IF Is("strs", v) THEN Arr(Texts(v.strs))
  ELSE IF v = NilList THEN Null
  ELSE IF Is("obj", v) THEN Obj([k \in DOMAIN v.obj |-> InnerToJson(v.obj[k])])
  ELSE v

\* MUTANT: []any, the type of lists that hold more than strings, is forgotten
WrapStrings(v) ==
  IF Is("strs", v) THEN Arr(<<Str(ListClass), ToJson(v)>>) ELSE ToJson(v)

\* wrapValue: lists are wrapped, a nil one too, at the top of the dataMap and
\* nowhere below.
WrapValue(v) ==
  IF Is("strs", v) \/ Is("arr", v) \/ v = NilList
    THEN Arr(<<Str(ListClass), ToJson(v)>>)
  ELSE ToJson(v)

\* TerminalInfo.MarshalJSON: an empty extraData is left out.
TerminalJson(t) ==
  [term |-> t.term, class |-> TRUE, extra |-> IF t.extra = Obj(<<>>) THEN Null ELSE t.extra]

\* marshalSession
Marshal(s) ==
  [loginId |-> s.loginId, count |-> s.count,
   dataMap |-> Arr(<<Str("java.util.concurrent.ConcurrentHashMap"),
                     Obj([k \in DOMAIN s.data |-> WrapValue(s.data[k])])>>),
   terminalList |->
     IF s.terms = <<>> THEN Null
     ELSE Arr(<<Str("java.util.Vector"),
                Arr([i \in DOMAIN s.terms |-> TerminalJson(s.terms[i])])>>)]

-----------------------------------------------------------------------------
(* The session in Go *)

\* Session.StringList: what is not a string is skipped.
StringList(s, key) ==
  IF key \notin DOMAIN s.data THEN <<>>
  ELSE LET v == s.data[key] IN
    IF Is("strs", v) THEN v.strs
    ELSE IF Is("arr", v)
      THEN LET strings == Picked(v.arr, {i \in DOMAIN v.arr : Is("str", v.arr[i])})
           IN  [i \in DOMAIN strings |-> strings[i].str]
      ELSE <<>>

\* Session.Set
SetData(s, key, v) ==
  [s EXCEPT !.data = [k \in DOMAIN @ \cup {key} |-> IF k = key THEN v ELSE @[k]]]

\* Session.RemoveTerminal
RemoveTerminal(l, t) == Picked(l, {i \in DOMAIN l : l[i].term # t})

\* A number is decoded as float64, which %v prints with an exponent from
\* seven digits on: 1.234567e+06.
ExponentFrom == 1000000

\* Whether loginIDOf, under whose key saveSession writes, names the key that
\* the session was read from.
SameKey(loginId) == Is("num", loginId) => loginId.num < ExponentFrom

-----------------------------------------------------------------------------
(* Jackson with default typing, as the Java services use it (external).    *)

Bad == [bad |-> TRUE]      \* Jackson refuses the JSON
ListClasses ==
  {ListClass, "java.util.Vector", "java.util.ImmutableCollections$ListN",
   "java.util.ImmutableCollections$List12"}
MapClasses == {"java.util.concurrent.ConcurrentHashMap", "java.util.LinkedHashMap"}

\* Every list and every long number is in an array with its class.
Classed(j) == Is("arr", j) /\ Len(j.arr) = 2 /\ Is("str", j.arr[1])

\* A map has its class as a member, the form Java writes it in, or is in an
\* array with it, which Jackson reads as well.
ClassedMap(j) ==
  \/ Is("obj", j) /\ "class" \in DOMAIN j.obj /\ j.obj["class"] \in {Str(c) : c \in MapClasses}
  \/ Classed(j) /\ j.arr[1].str \in MapClasses /\ Is("obj", j.arr[2])

MapOf(j) == IF Is("obj", j) THEN j.obj ELSE j.arr[2].obj

\* One part that is refused fails the whole.
Accepted(read, whole) == IF \E k \in DOMAIN read : read[k] = Bad THEN Bad ELSE whole

\* What Java reads for a value: a map or a list without its class is refused.
JavaValue(j) ==
  IF ClassedMap(j)
    THEN LET read == [k \in Members(MapOf(j)) |-> JavaInner(MapOf(j)[k])]
         IN  Accepted(read, Obj(read))
  ELSE IF Is("obj", j) THEN Bad
  ELSE IF ~Is("arr", j) THEN j
  ELSE IF Classed(j) /\ j.arr[1].str \in ListClasses /\ Is("arr", j.arr[2])
    THEN LET read == [i \in DOMAIN j.arr[2].arr |-> JavaInner(j.arr[2].arr[i])]
         IN  Accepted(read, Arr(read))
  ELSE IF Classed(j) /\ j.arr[1].str = "java.lang.Long" /\ Is("num", j.arr[2])
    THEN j.arr[2] ELSE Bad

\* and for the dataMap, which has to be a map.
JavaDataMap(j) ==
  IF ~ClassedMap(j) THEN Bad
  ELSE LET read == [k \in Members(MapOf(j)) |-> JavaValue(MapOf(j)[k])]
       IN  Accepted(read, Obj(read))
=============================================================================
