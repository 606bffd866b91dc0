--------------------------- MODULE MCSharedSession ---------------------------
(* SharedSession on a small instance. *)
EXTENDS SharedSession

\* An empty list, one code, two (which look like a wrapper), root among others.
MCCodeLists == {<<>>, <<"a">>, <<"a", "b">>}
MCRoleLists == {<<"admin">>, <<"root", "admin">>}

\* The login id as text, as a short and as a long number.
MCLoginIds == {Str("7"), Num(7), Num(1234567)}

\* 2^53, scaled down to the integers of TLC; one more is no float64.
MCExact == 16777216

\* A list inside a pair looks like a wrapper once the outer one is off, and a
\* long number in a list is one.
L(l)    == Arr(<<Str(ListClass), Arr(l)>>)
Long(n) == Arr(<<Str("java.lang.Long"), Num(n)>>)
Map     == "java.util.LinkedHashMap"

MCAttrs ==
  {Str("root"), Num(1), L(<<>>), L(<<Num(1), Str("x")>>), L(<<Long(MCExact + 1)>>),
   L(<<L(<<Str("x")>>), Str("y")>>), L(<<Str("x"), L(<<Str("y")>>)>>),
   L(<<Obj([class |-> Str(Map), k |-> Num(7)]), Null>>),
   Long(5), Obj([class |-> Str(Map), k |-> Str("v"), m |-> L(<<Str("x")>>)]),
   Arr(<<Str(Map), Obj([k |-> Str("v")])>>)}

\* None, a map as Java writes it, and the same map in an array with its class.
MCExtras ==
  {Null, Obj([class |-> Str("java.util.LinkedHashMap"), k |-> Num(1)]),
   Arr(<<Str("java.util.LinkedHashMap"), Obj([k |-> Num(1)])>>)}

\* Every list of at most two groups of at most two codes.
MCGroups == UNION {[1..n -> {"a", "b", ""}] : n \in 0..2}
MCSamples == UNION {[1..n -> MCGroups] : n \in 0..2}

-----------------------------------------------------------------------------
(* The functions of the codec for the values inside a value, on those of this *)
(* instance: TLC takes no constant operator that calls itself.               *)

\* The only number that changes is the one that is no float64.
MCAnyNested(j) == IF j = Long(MCExact + 1) THEN Long(MCExact) ELSE j

\* The only lists inside a map hold text.
MCDecodeInner(j) ==
  CASE Is("str", j) -> j
    [] Is("arr", j) /\ ~ListWrapper(j) -> Strs([i \in DOMAIN j.arr |-> j.arr[i].str])
    [] OTHER -> Strs([i \in DOMAIN j.arr[2].arr |-> j.arr[2].arr[i].str])

MCInnerToJson(v) == IF Is("strs", v) THEN Arr(Texts(v.strs)) ELSE v

\* What is not nested further: a long number, a list of text, a map of a number.
MCJavaInner(j) ==
  CASE Is("arr", j) /\ Classed(j) /\ j.arr[1].str \in {ListClass, "java.lang.Long"} -> j.arr[2]
    [] Is("obj", j) /\ "class" \in DOMAIN j.obj -> Obj([k \in Members(j.obj) |-> j.obj[k]])
    [] Is("arr", j) \/ Is("obj", j) -> Bad
    [] OTHER -> j

\* They agree there with the functions themselves.
MCInside ==
  {Null, Str("x"), Num(7), Long(MCExact), Long(MCExact + 1), L(<<Str("x")>>),
   Arr(<<Str("x")>>), Obj([k |-> Str("v")]), Obj([class |-> Str(Map), k |-> Num(7)])}

ASSUME InnerAssumption ==
  /\ \A j \in MCInside : JavaInner(j) = JavaValue(j)
  /\ \A j \in MCInside \ {Null, Str("x"), Num(7)} :
       AnyNested(j) = IF Is("arr", j) THEN AnyList(j.arr)
                                      ELSE Obj([k \in DOMAIN j.obj |-> Any(j.obj[k])])
  /\ \A j \in {Str("x"), L(<<Str("x")>>), Arr(<<Str("x")>>)} :
       DecodeInner(j) = DecodeDataValue(j)
  /\ \A v \in {Str("x"), Strs(<<"x">>)} : InnerToJson(v) = ToJson(v)
=============================================================================
