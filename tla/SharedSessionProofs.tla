-------------------------- MODULE SharedSessionProofs --------------------------
EXTENDS SharedSession, FiniteSetTheorems, TLAPS

-----------------------------------------------------------------------------
(* The codec *)

IsFunction(f) == f = [k \in DOMAIN f |-> f[k]]

\* The terminals of a decoded list.
ItemsOf(list) == IF list = NilList THEN <<>> ELSE list.arr
InfosOf(items) == [i \in DOMAIN items |-> TerminalInfo(items[i])]

\* A decoded value without objects: text, a float64 or null, a []string, or a
\* []any of decoded values (which may hold nothing but text, when it was read
\* from "@items").
Plain(v) ==
  \/ DOMAIN v \in {{"str"}, {"null"}}
  \/ DOMAIN v = {"num"} /\ Any(v) = v
  \/ Is("strs", v) /\ v = Strs(v.strs) /\ IsList(v.strs)
  \/ /\ ListJson(v)
     /\ \A i \in DOMAIN v.arr :
          Any(v.arr[i]) = v.arr[i] /\ (Is("str", v.arr[i]) => TextJson(v.arr[i]))

\* A value of a decoded dataMap: one of those, a nil []any, or an object whose
\* members come back from a rewrite.
Value(v) ==
  \/ Plain(v)
  \/ v = NilList
  \/ /\ Is("obj", v) /\ v = Obj(v.obj) /\ IsFunction(v.obj)
     /\ "class" \notin DOMAIN v.obj /\ "items" \notin DOMAIN v.obj
     /\ \A k \in DOMAIN v.obj :
          DecodeInner(InnerToJson(v.obj[k])) = v.obj[k] /\ v.obj[k] # Err

AllText(l) == \A i \in DOMAIN l : Is("str", l[i])

\* What a value is after a rewrite: an []any of text has become a []string, and
\* a nil one a list of its wrapper's class and null.
Rewritten(v) ==
  IF Is("arr", v) /\ AllText(v.arr) THEN Strs([i \in DOMAIN v.arr |-> v.arr[i].str])
  ELSE IF v = NilList THEN Arr(<<Str(ListClass), Null>>) ELSE v

LEMMA Kinds ==
  ASSUME NEW x
  PROVE  /\ Arr(x).arr = x /\ Obj(x).obj = x /\ Strs(x).strs = x /\ Str(x).str = x
         /\ DOMAIN Arr(x) = {"arr"} /\ DOMAIN Obj(x) = {"obj"}
         /\ DOMAIN Strs(x) = {"strs"} /\ DOMAIN Str(x) = {"str"}
         /\ DOMAIN Num(x) = {"num"} /\ Num(x).num = x /\ DOMAIN NilList = {"nil"} /\ DOMAIN Null = {"null"} /\ DOMAIN Err = {"err"}
         /\ DOMAIN Bad = {"bad"} /\ DOMAIN Absent = {"absent"}
BY DEF Arr, Obj, Strs, Str, Num, Null, NilList, Err, Bad, Absent

LEMMA ListFacts ==
  ASSUME NEW l, IsList(l)
  PROVE  /\ Len(l) \in Nat /\ DOMAIN l = 1..Len(l)
         /\ l = [i \in 1..Len(l) |-> l[i]]
BY DEF IsList

LEMMA Pair ==
  ASSUME NEW S, NEW l \in Seq(S), Len(l) = 2 PROVE l = <<l[1], l[2]>>
<1>1. l \in [1..2 -> S]
  OBVIOUS
<1>2. <<l[1], l[2]>> \in [1..2 -> S]
  BY <1>1
<1>3. \A i \in 1..2 : <<l[1], l[2]>>[i] = l[i]
  OBVIOUS
<1> QED
  BY <1>1, <1>2, <1>3

LEMMA ListMade ==
  ASSUME NEW n \in Nat, NEW f, IsFunction(f), DOMAIN f = 1..n
  PROVE  IsList(f) /\ Len(f) = n
<1>1. f \in [1..n -> {f[i] : i \in DOMAIN f}]
  BY DEF IsFunction
<1> QED
  BY <1>1 DEF IsList

\* A list of text, encoded.
LEMMA TextsFacts ==
  ASSUME NEW l, IsList(l)
  PROVE  /\ DOMAIN Texts(l) = 1..Len(l) /\ Len(Texts(l)) = Len(l)
         /\ \A i \in 1..Len(l) : Texts(l)[i] = Str(l[i])
         /\ [i \in DOMAIN Texts(l) |-> Texts(l)[i].str] = l
<1>1. /\ Len(l) \in Nat /\ DOMAIN l = 1..Len(l)
      /\ l = [i \in 1..Len(l) |-> l[i]]
  BY ListFacts
<1>2. Texts(l) = [i \in 1..Len(l) |-> Str(l[i])]
  BY <1>1 DEF Texts
<1>3. DOMAIN Texts(l) = 1..Len(l) /\ Len(Texts(l)) = Len(l)
  BY <1>1, <1>2
<1>4. \A i \in 1..Len(l) : Texts(l)[i] = Str(l[i])
  BY <1>2
<1>5. [i \in DOMAIN Texts(l) |-> Texts(l)[i].str] = [i \in 1..Len(l) |-> l[i]]
  BY <1>3, <1>4, Kinds
<1> QED
  BY <1>1, <1>3, <1>4, <1>5

\* Rounding a rounded number changes nothing.
LEMMA FloatOnce ==
  ASSUME NEW n \in Int PROVE Float(n) \in Int /\ Float(Float(n)) = Float(n)
<1>1. CASE n \in -Exact..Exact \/ n % 2 = 0
  BY <1>1 DEF Float
<1>2. CASE ~(n \in -Exact..Exact \/ n % 2 = 0)
  <2>1. Float(n) = n + 1 \/ Float(n) = n - 1
    BY <1>2 DEF Float
  <2>2. Float(n) \in Int /\ Float(n) % 2 = 0
    BY <1>2, <2>1
  <2> QED
    BY <2>2 DEF Float
<1> QED
  BY <1>1, <1>2

\* So does decoding a decoded value.
LEMMA AnyOnce ==
  ASSUME NEW x, Inside(x)
  PROVE  /\ Any(Any(x)) = Any(x) /\ (Is("str", Any(x)) => TextJson(Any(x)))
         /\ DOMAIN x \in {{"str"}, {"null"}} => Any(x) = x
<1>1. CASE DOMAIN x \in {{"str"}, {"null"}}
  BY <1>1, Kinds DEF Any, Is, Inside
<1>2. CASE DOMAIN x = {"num"}
  <2>1. x = Num(x.num) /\ x.num \in Int
    BY <1>2 DEF Inside, Whole
  <2>2. Any(x) = Num(Float(x.num))
    BY <1>2 DEF Any, Is
  <2>3. Any(Num(Float(x.num))) = Num(Float(Float(x.num)))
    BY Kinds DEF Any, Is
  <2> QED
    BY <1>2, <2>1, <2>2, <2>3, FloatOnce, Kinds DEF Is
<1>3. CASE DOMAIN x \in {{"arr"}, {"obj"}}
  <2>1. /\ DOMAIN AnyNested(x) \in {{"arr"}, {"obj"}}
        /\ AnyNested(AnyNested(x)) = AnyNested(x)
    BY <1>3 DEF Inside
  <2>2. Any(x) = AnyNested(x)
    BY <1>3 DEF Any, Is
  <2>3. Any(AnyNested(x)) = AnyNested(AnyNested(x)) /\ ~Is("str", AnyNested(x))
    BY <2>1 DEF Any, Is
  <2> QED
    BY <1>3, <2>1, <2>2, <2>3
<1> QED
  BY <1>1, <1>2, <1>3 DEF Inside

LEMMA AnyKeeps ==
  ASSUME NEW x, "num" \notin DOMAIN x, "arr" \notin DOMAIN x, "obj" \notin DOMAIN x
  PROVE  Any(x) = x
BY DEF Any, Is

\* A list of decoded values is decoded as it is.
LEMMA AnyListOnce ==
  ASSUME NEW l, IsList(l), \A i \in DOMAIN l : Any(l[i]) = l[i]
  PROVE  AnyList(l) = Arr(l)
<1>1. l = [i \in DOMAIN l |-> l[i]]
  BY ListFacts
<1>2. [i \in DOMAIN l |-> Any(l[i])] = l
  BY <1>1
<1> QED
  BY <1>2 DEF AnyList

\* A list stays a list.
LEMMA AnyListFacts ==
  ASSUME NEW l, IsList(l)
  PROVE  /\ AnyList(l) = Arr(AnyList(l).arr) /\ DOMAIN AnyList(l) = {"arr"}
         /\ IsList(AnyList(l).arr) /\ Len(AnyList(l).arr) = Len(l)
         /\ DOMAIN AnyList(l).arr = DOMAIN l
         /\ \A i \in DOMAIN l : AnyList(l).arr[i] = Any(l[i])
<1> DEFINE m == [i \in DOMAIN l |-> Any(l[i])]
<1>1. DOMAIN l = 1..Len(l) /\ Len(l) \in Nat
  BY ListFacts
<1>2. IsFunction(m) /\ DOMAIN m = 1..Len(l) /\ \A i \in DOMAIN l : m[i] = Any(l[i])
  BY <1>1 DEF IsFunction
<1> HIDE DEF m
<1>3. IsList(m) /\ Len(m) = Len(l)
  BY <1>1, <1>2, ListMade
<1>4. AnyList(l) = Arr(m) /\ Arr(m).arr = m /\ DOMAIN Arr(m) = {"arr"}
  BY Kinds DEF AnyList, m
<1> QED
  BY <1>1, <1>2, <1>3, <1>4

\* A wrapped list is taken out of its wrapper, whatever it holds.
LEMMA DecodeWrapper ==
  ASSUME NEW c, NEW l
  PROVE  /\ ListWrapper(Arr(<<Str(c), Arr(l)>>))
         /\ DecodeCollection(Arr(<<Str(c), Arr(l)>>)) = AnyList(l)
<1> DEFINE p == <<Str(c), Arr(l)>>
<1>1. Arr(p).arr = p /\ Is("arr", Arr(p)) /\ Len(p) = 2 /\ p[1] = Str(c) /\ p[2] = Arr(l)
  BY Kinds DEF Is
<1>2. Is("str", Str(c)) /\ Is("arr", Arr(l)) /\ Arr(l).arr = l
  BY Kinds DEF Is
<1> HIDE DEF p
<1>3. ListWrapper(Arr(p)) /\ DecodeCollection(Arr(p)) = AnyList(l)
  BY <1>1, <1>2 DEF ListWrapper, DecodeCollection
<1> QED
  BY <1>3 DEF p

LEMMA DecodeList ==
  ASSUME NEW c, NEW l, IsList(l)
  PROVE  DecodeDataValue(Arr(<<Str(c), Arr(l)>>)) = Rewritten(AnyList(l))
<1> DEFINE p == <<Str(c), Arr(l)>>
           d == AnyList(l)
<1>1. Is("arr", Arr(p)) /\ DecodeCollection(Arr(p)) = d
  BY Kinds, DecodeWrapper DEF Is
<1>2. d = Arr(d.arr) /\ Is("arr", d) /\ d # NilList
  BY AnyListFacts, Kinds DEF Is
<1> HIDE DEF p, d
<1>3. DecodeDataValue(Arr(p)) =
        IF AllText(d.arr) THEN Strs([i \in DOMAIN d.arr |-> d.arr[i].str]) ELSE Arr(d.arr)
  BY <1>1 DEF DecodeDataValue, AllText
<1>4. DecodeDataValue(Arr(p)) = Rewritten(d)
  BY <1>2, <1>3 DEF Rewritten
<1> QED
  BY <1>4 DEF p, d

\* Among numbers there is an n-th one.
LEMMA Ranks ==
  ASSUME NEW m \in Nat, NEW I \in SUBSET (1..m), NEW n \in 1..Cardinality(I)
  PROVE  \E i \in I : Cardinality({j \in I : j =< i}) = n
<1> DEFINE Up(i) == {j \in I : j =< i}
           c == Cardinality(I)
           rank == [i \in I |-> Cardinality(Up(i))]
<1>1. IsFiniteSet(I) /\ c \in Nat /\ \A i \in I : i \in Nat
  <2>1. IsFiniteSet(1..m)
    BY FS_Interval
  <2>2. IsFiniteSet(I)
    BY <2>1, FS_Subset
  <2> QED
    BY <2>2, FS_CardinalityType
<1>2. IsFiniteSet(1..c) /\ Cardinality(1..c) = c
  BY <1>1, FS_Interval
<1>3. ASSUME NEW i \in I PROVE rank[i] \in 1..c
  <2>1. /\ Up(i) \in SUBSET I /\ IsFiniteSet(Up(i)) /\ Cardinality(Up(i)) =< c
        /\ Cardinality(Up(i)) \in Nat
    BY <1>1, FS_Subset, FS_CardinalityType
  <2>2. i \in Up(i)
    BY <1>1
  <2>3. Cardinality(Up(i)) # 0
    BY <2>1, <2>2, FS_EmptySet
  <2> HIDE DEF c, Up
  <2> QED
    BY <1>1, <2>1, <2>3
<1>4. ASSUME NEW i \in I, NEW k \in I, i < k PROVE rank[i] # rank[k]
  <2>1. Up(i) \in SUBSET Up(k) /\ k \in Up(k) /\ k \notin Up(i)
    <3>1. i \in Nat /\ k \in Nat /\ \A j \in I : j \in Nat
      BY <1>1
    <3>2. k =< k /\ ~(k =< i) /\ \A j \in Nat : j =< i => j =< k
      BY <1>4, <3>1
    <3> QED
      BY <3>1, <3>2
  <2>2. IsFiniteSet(Up(k))
    BY <1>1, FS_Subset
  <2>3. Cardinality(Up(k)) # Cardinality(Up(i))
    <3> HIDE DEF Up
    <3> QED
      BY <2>1, <2>2, FS_Subset
  <2> QED
    BY <2>3
<1>5. rank \in Injection(I, 1..c)
  <2>1. rank \in [I -> 1..c] /\ DOMAIN rank = I
    BY <1>3
  <2> HIDE DEF rank, c
  <2>2. \A i, k \in I : rank[i] = rank[k] => i = k
    BY <1>1, <1>4
  <2> QED
    BY <2>1, <2>2 DEF Injection, IsInjective
<1>6. rank \in Surjection(I, 1..c)
  <2> HIDE DEF rank, c
  <2>1. Cardinality(I) = Cardinality(1..c)
    BY <1>2 DEF c
  <2> QED
    BY <1>2, <1>5, <2>1, FS_Injection
<1>7. \E i \in I : rank[i] = n
  <2> HIDE DEF rank
  <2> QED
    BY <1>6 DEF Surjection
<1> QED
  BY <1>7

\* A choice of places picks as many elements, those at these places; all of
\* them pick the list.
LEMMA PickedFacts ==
  ASSUME NEW l, IsList(l), NEW I \in SUBSET DOMAIN l
  PROVE  /\ IsList(Picked(l, I)) /\ Len(Picked(l, I)) =< Len(l)
         /\ \A n \in DOMAIN Picked(l, I) : \E i \in I : Picked(l, I)[n] = l[i]
         /\ I = DOMAIN l => Picked(l, I) = l
<1>1. Len(l) \in Nat /\ DOMAIN l = 1..Len(l) /\ l = [i \in 1..Len(l) |-> l[i]]
  BY ListFacts
<1>2. \A n \in Nat : IsFiniteSet(1..n) /\ Cardinality(1..n) = n
  BY FS_Interval
<1>3. Cardinality(I) \in Nat /\ Cardinality(I) =< Len(l)
  <2>1. IsFiniteSet(I) /\ Cardinality(I) =< Cardinality(1..Len(l))
    BY <1>1, <1>2, FS_Subset
  <2> QED
    BY <1>1, <1>2, <2>1, FS_CardinalityType
<1>4. IsList(Picked(l, I)) /\ Len(Picked(l, I)) = Cardinality(I)
  <2> DEFINE p == Picked(l, I)
  <2>1. IsFunction(p) /\ DOMAIN p = 1..Cardinality(I)
    BY DEF Picked, IsFunction
  <2> HIDE DEF p
  <2>2. IsList(p) /\ Len(p) = Cardinality(I)
    BY <1>3, <2>1, ListMade
  <2> QED
    BY <2>2 DEF p
<1>5. ASSUME I = DOMAIN l PROVE Picked(l, I) = l
  <2>1. I = 1..Len(l) /\ Cardinality(I) = Len(l)
    BY <1>1, <1>2, <1>5
  <2>2. ASSUME NEW i \in I PROVE Cardinality({j \in I : j =< i}) = i
    <3>1. {j \in I : j =< i} = 1..i /\ i \in Nat
      BY <1>1, <2>1
    <3> QED
      BY <1>2, <3>1
  <2>3. ASSUME NEW n \in 1..Len(l)
        PROVE  (CHOOSE i \in I : Cardinality({j \in I : j =< i}) = n) = n
    BY <2>1, <2>2
  <2> QED
    BY <1>1, <2>1, <2>3 DEF Picked
<1>6. ASSUME NEW n \in DOMAIN Picked(l, I) PROVE \E i \in I : Picked(l, I)[n] = l[i]
  <2> DEFINE At == CHOOSE i \in I : Cardinality({j \in I : j =< i}) = n
  <2>1. n \in 1..Cardinality(I) /\ Picked(l, I)[n] = l[At]
    BY <1>6 DEF Picked
  <2>2. \E i \in I : Cardinality({j \in I : j =< i}) = n
    BY <1>1, <2>1, Ranks
  <2>3. At \in I
    BY <2>2
  <2> QED
    BY <2>1, <2>3
<1> QED
  BY <1>3, <1>4, <1>5, <1>6

\* An []any of text and the []string it becomes are the same JSON.
LEMMA TextList ==
  ASSUME NEW v, ListJson(v), AllText(v.arr),
         \A i \in DOMAIN v.arr : Is("str", v.arr[i]) => TextJson(v.arr[i])
  PROVE  LET l == [i \in DOMAIN v.arr |-> v.arr[i].str]
         IN  Rewritten(v) = Strs(l) /\ IsList(l) /\ Texts(l) = v.arr
<1> DEFINE l == [i \in DOMAIN v.arr |-> v.arr[i].str]
<1>1. IsList(v.arr) /\ Is("arr", v)
  BY DEF ListJson
<1>2. /\ Len(v.arr) \in Nat /\ DOMAIN v.arr = 1..Len(v.arr)
      /\ v.arr = [i \in 1..Len(v.arr) |-> v.arr[i]]
  BY <1>1, ListFacts
<1>3. \A i \in DOMAIN v.arr : v.arr[i] = Str(v.arr[i].str)
  BY DEF AllText, TextJson
<1>4. IsList(l) /\ DOMAIN l = 1..Len(v.arr)
  BY <1>2 DEF IsList
<1>5. Texts(l) = v.arr
  BY <1>2, <1>3 DEF Texts
<1>6. Rewritten(v) = Strs(l)
  BY <1>1 DEF Rewritten
<1> QED
  BY <1>4, <1>5, <1>6

\* A wrapped list of text.
LEMMA DecodeTexts ==
  ASSUME NEW c, NEW l, IsList(l)
  PROVE  /\ DecodeDataValue(Arr(<<Str(c), Arr(Texts(l))>>)) = Strs(l)
         /\ IsList(Texts(l)) /\ AnyList(Texts(l)) = Arr(Texts(l))
<1> DEFINE x == Texts(l)
<1>1. /\ DOMAIN x = 1..Len(l) /\ Len(x) = Len(l) /\ Len(l) \in Nat
      /\ \A i \in 1..Len(l) : x[i] = Str(l[i])
      /\ [i \in DOMAIN x |-> x[i].str] = l
  BY TextsFacts, ListFacts
<1>2. IsFunction(x)
  BY DEF IsFunction, Texts
<1> HIDE DEF x
<1>3. IsList(x)
  BY <1>1, <1>2, ListMade
<1>4. \A i \in DOMAIN x : Is("str", x[i]) /\ Any(x[i]) = x[i]
  BY <1>1, Kinds DEF Is, Any
<1>5. AnyList(x) = Arr(x)
  BY <1>3, <1>4, AnyListOnce
<1>6. Is("arr", Arr(x)) /\ Arr(x).arr = x /\ AllText(x)
  BY <1>4, Kinds DEF Is, AllText
<1>7. Rewritten(Arr(x)) = Strs(l)
  BY <1>1, <1>6 DEF Rewritten
<1>8. DecodeDataValue(Arr(<<Str(c), Arr(x)>>)) = Strs(l)
  BY <1>3, <1>5, <1>7, DecodeList
<1> QED
  BY <1>3, <1>5, <1>8 DEF x

\* A rewrite makes a value of every value, and a second one changes nothing but
\* what became of a nil []any.
LEMMA DecodeWrapped ==
  ASSUME NEW v, Value(v)
  PROVE  /\ DecodeDataValue(WrapValue(v)) = Rewritten(v) /\ Rewritten(v) # Err
         /\ Value(Rewritten(v)) /\ (v # NilList => WrapValue(Rewritten(v)) = WrapValue(v))
         /\ Plain(v) => Plain(Rewritten(v)) /\ v # NilList
<1>1. CASE DOMAIN v \in {{"str"}, {"null"}} \/ (DOMAIN v = {"num"} /\ Any(v) = v)
  <2>1. v # NilList /\ v # Err /\ Any(v) = v
    BY <1>1, Kinds DEF Any, Is
  <2>2. Plain(v)
    BY <1>1 DEF Plain
  <2> QED
    BY <1>1, <2>1, <2>2, Kinds DEF WrapValue, ToJson, DecodeDataValue, Rewritten, Is
<1>2. CASE Is("strs", v) /\ v = Strs(v.strs) /\ IsList(v.strs)
  <2> DEFINE l == v.strs
  <2>1. DOMAIN v = {"strs"} /\ v # NilList /\ v # Err /\ Plain(v)
    BY <1>2, Kinds DEF Plain
  <2>2. WrapValue(v) = Arr(<<Str(ListClass), Arr(Texts(l))>>)
    BY <2>1 DEF WrapValue, ToJson, Is
  <2>3. DecodeDataValue(WrapValue(v)) = Strs(l)
    BY <1>2, <2>2, DecodeTexts
  <2>4. Rewritten(v) = v
    BY <2>1 DEF Rewritten, Is
  <2> QED
    BY <1>2, <2>1, <2>3, <2>4
<1>3. CASE /\ ListJson(v)
           /\ \A i \in DOMAIN v.arr :
                Any(v.arr[i]) = v.arr[i] /\ (Is("str", v.arr[i]) => TextJson(v.arr[i]))
  <2> DEFINE l == [i \in DOMAIN v.arr |-> v.arr[i].str]
  <2>1. DOMAIN v = {"arr"} /\ v = Arr(v.arr) /\ IsList(v.arr) /\ v # NilList /\ v # Err
    BY <1>3, Kinds DEF ListJson
  <2>2. WrapValue(v) = Arr(<<Str(ListClass), Arr(v.arr)>>)
    BY <2>1, Kinds DEF WrapValue, ToJson, Is
  <2>3. AnyList(v.arr) = v
    BY <1>3, <2>1, AnyListOnce
  <2>4. DecodeDataValue(WrapValue(v)) = Rewritten(v)
    BY <2>1, <2>2, <2>3, DecodeList
  <2>5. CASE AllText(v.arr)
    <3>1. Rewritten(v) = Strs(l) /\ IsList(l) /\ Texts(l) = v.arr
      BY <1>3, <2>5, TextList
    <3> HIDE DEF l
    <3>2. DOMAIN Strs(l) = {"strs"} /\ Strs(l).strs = l /\ Strs(l) # Err /\ Strs(l) # NilList
      BY Kinds
    <3>3. WrapValue(Strs(l)) = Arr(<<Str(ListClass), Arr(v.arr)>>)
      BY <3>1, <3>2 DEF WrapValue, ToJson, Is
    <3>4. Plain(Strs(l))
      BY <3>1, <3>2 DEF Plain, Is
    <3>5. Plain(Rewritten(v)) /\ Value(Rewritten(v)) /\ Rewritten(v) # Err
      BY <3>1, <3>2, <3>4 DEF Value
    <3> QED
      BY <2>1, <2>2, <2>4, <3>1, <3>3, <3>5
  <2>6. CASE ~AllText(v.arr)
    <3>1. Rewritten(v) = v /\ Plain(v)
      BY <1>3, <2>1, <2>6 DEF Rewritten, Plain
    <3> QED
      BY <2>1, <2>4, <3>1
  <2> QED
    BY <2>5, <2>6
<1>4. CASE v = NilList
  <2> DEFINE p == <<Str(ListClass), Null>>
             w == Arr(p)
  <2>1. /\ DOMAIN v = {"nil"} /\ WrapValue(v) = w
        /\ Rewritten(v) = w
    BY <1>4, Kinds DEF WrapValue, ToJson, Rewritten, Is
  <2>2. /\ Len(p) = 2 /\ DOMAIN p = 1..2 /\ p[1] = Str(ListClass) /\ p[2] = Null
        /\ w.arr = p /\ DOMAIN w = {"arr"} /\ IsList(p)
    BY Kinds DEF IsList
  <2> HIDE DEF p
  <2>3. Any(p[1]) = p[1] /\ Any(p[2]) = p[2] /\ TextJson(p[1])
    BY <2>2, Kinds DEF Any, Is, TextJson
  <2>4. \A i \in DOMAIN p : Any(p[i]) = p[i] /\ (Is("str", p[i]) => TextJson(p[i]))
    BY <2>2, <2>3, Kinds DEF Is
  <2>5. AnyList(p) = w
    BY <2>2, <2>4, AnyListOnce
  <2>6. ~ListWrapper(w) /\ ~AllText(p)
    BY <2>2, Kinds DEF ListWrapper, AllText, Is
  <2>7. DecodeDataValue(w) = w
    BY <2>2, <2>5, <2>6 DEF DecodeDataValue, DecodeCollection, AllText, Is
  <2>8. Plain(w) /\ w # Err
    BY <2>2, <2>4, Kinds DEF Plain, ListJson, Is
  <2>9. ~Plain(v)
    BY <1>4, <2>1 DEF Plain, ListJson, Is
  <2> QED
    BY <1>4, <2>1, <2>7, <2>8, <2>9 DEF Value
<1>5. CASE /\ Is("obj", v) /\ v = Obj(v.obj) /\ IsFunction(v.obj)
           /\ "class" \notin DOMAIN v.obj /\ "items" \notin DOMAIN v.obj
           /\ \A k \in DOMAIN v.obj :
                DecodeInner(InnerToJson(v.obj[k])) = v.obj[k] /\ v.obj[k] # Err
  <2> DEFINE f == v.obj
             g == [k \in DOMAIN f |-> InnerToJson(f[k])]
  <2>1. DOMAIN v = {"obj"} /\ Obj(g).obj = g /\ DOMAIN Obj(g) = {"obj"} /\ v # NilList
    BY <1>5, Kinds
  <2>2. WrapValue(v) = Obj(g)
    BY <2>1 DEF WrapValue, ToJson, Is
  <2>3. [k \in Members(g) |-> DecodeInner(g[k])] = f
    BY <1>5 DEF Members, IsFunction
  <2>4. Obj(g) # Null
    BY <2>1, Kinds
  <2>5. DecodeDataValue(Obj(g)) = Obj(f)
    BY <1>5, <2>1, <2>3, <2>4 DEF DecodeDataValue, DecodePlainMap, Is
  <2>6. Rewritten(v) = v /\ v # Err /\ ~Plain(v)
    BY <2>1, Kinds DEF Rewritten, Plain, ListJson, Is
  <2> QED
    BY <1>5, <2>2, <2>5, <2>6
<1> QED
  BY <1>1, <1>2, <1>3, <1>4, <1>5 DEF Value, Plain

\* A dataMap is read member by member.
LEMMA DecodeMap ==
  ASSUME NEW f, NEW g, IsFunction(g), DOMAIN g = DOMAIN f \ {"class"},
         \A k \in DOMAIN g : DecodeDataValue(f[k]) = g[k] /\ g[k] # Err
  PROVE  DecodeDataMap(Obj(f)) = Obj(g) /\ DecodeDataMap(Typed(SessionMap, Obj(f))) = Obj(g)
<1> DEFINE p == <<Str(SessionMap), Obj(f)>>
<1>1. DOMAIN Obj(f) = {"obj"} /\ Obj(f).obj = f /\ Obj(f) # Null
  BY Kinds
<1>2. [k \in Members(f) |-> DecodeDataValue(f[k])] = g
  BY DEF Members, IsFunction
<1>3. DecodePlainMap([k \in Members(f) |-> DecodeDataValue(f[k])]) = Obj(g)
  BY <1>1, <1>2 DEF DecodePlainMap, Is
<1>4. DecodeDataMap(Obj(f)) = Obj(g)
  BY <1>1, <1>3 DEF DecodeDataMap, Is
<1>5. Len(p) = 2 /\ p[2] = Obj(f) /\ DOMAIN Arr(p) = {"arr"} /\ Arr(p).arr = p
  BY Kinds
<1> HIDE DEF p
<1>6. DecodeDataMap(Arr(p)) = Obj(g)
  BY <1>1, <1>3, <1>5 DEF DecodeDataMap, Is
<1> QED
  BY <1>4, <1>6 DEF p, Typed

\* A terminal that decodes: extraData is left out or an object of decoded values.
InfoOK(t) ==
  /\ t = [term |-> t.term, extra |-> t.extra]
  /\ t.extra # Null =>
       DOMAIN t.extra = {"obj"} /\ Any(t.extra) = t.extra /\ t.extra # Obj(<<>>)

InfosOK(ts) == IsList(ts) /\ \A i \in DOMAIN ts : InfoOK(ts[i])

\* A list of terminals.
LEMMA TermsFacts ==
  ASSUME NEW ts, IsList(ts), NEW class
  PROVE  LET l == Terms(ts, class) IN
         /\ l = Arr(l.arr) /\ DOMAIN l = {"arr"} /\ l # Err /\ l # Null
         /\ ItemsOf(l) = l.arr /\ IsList(l.arr) /\ Len(l.arr) = Len(ts) /\ DOMAIN l.arr = DOMAIN ts
         /\ \A i \in DOMAIN ts :
              /\ l.arr[i] = [term |-> ts[i].term, class |-> class, extra |-> ts[i].extra]
              /\ Any(l.arr[i]) = l.arr[i]
<1> DEFINE a == [i \in DOMAIN ts |->
                   [term |-> ts[i].term, class |-> class, extra |-> ts[i].extra]]
<1>1. Len(ts) \in Nat /\ DOMAIN ts = 1..Len(ts)
  BY ListFacts
<1>2. /\ Terms(ts, class) = Arr(a) /\ Arr(a).arr = a /\ DOMAIN Arr(a) = {"arr"}
      /\ Arr(a) # Err /\ Arr(a) # Null /\ Arr(a) # NilList
  BY Kinds DEF Terms
<1>3. IsFunction(a) /\ DOMAIN a = 1..Len(ts)
  BY <1>1 DEF IsFunction
<1>4. \A i \in DOMAIN ts :
        /\ a[i] = [term |-> ts[i].term, class |-> class, extra |-> ts[i].extra]
        /\ DOMAIN a[i] = {"term", "class", "extra"}
  OBVIOUS
<1> HIDE DEF a
<1>5. IsList(a) /\ Len(a) = Len(ts)
  BY <1>1, <1>3, ListMade
<1>6. ASSUME NEW i \in DOMAIN ts PROVE Any(a[i]) = a[i]
  <2>1. DOMAIN a[i] = {"term", "class", "extra"}
    BY <1>4, Zenon
  <2> QED
    BY <2>1, AnyKeeps
<1> QED
  BY <1>1, <1>2, <1>3, <1>4, <1>5, <1>6 DEF ItemsOf

\* It is a list in every form it is found in.
LEMMA DecodeTerms ==
  ASSUME NEW ts, IsList(ts), NEW class, NEW c, NEW d
  PROVE  LET l == Terms(ts, class) IN
         /\ DecodeCollection(l) = l
         /\ DecodeCollection(Arr(<<Str(c), l>>)) = l
         /\ DecodeCollection(Obj([class |-> d, items |-> l])) = l
<1> DEFINE l == Terms(ts, class)
           a == l.arr
           o == [class |-> d, items |-> l]
<1>1. /\ l = Arr(a) /\ DOMAIN l = {"arr"} /\ l # Null /\ IsList(a) /\ DOMAIN a = DOMAIN ts
      /\ \A i \in DOMAIN ts :
           /\ a[i] = [term |-> ts[i].term, class |-> class, extra |-> ts[i].extra]
           /\ Any(a[i]) = a[i]
  BY TermsFacts
<1>2. DOMAIN a = 1..Len(a) /\ Len(a) \in Nat
  BY <1>1, ListFacts
<1> HIDE DEF a, l
<1>3. AnyList(a) = l
  BY <1>1, AnyListOnce
<1>4. ~ListWrapper(l)
  <2>1. \A i \in DOMAIN a : DOMAIN a[i] = {"term", "class", "extra"}
    BY <1>1
  <2> QED
    BY <1>2, <2>1 DEF ListWrapper, Is, a
<1>5. DecodeCollection(l) = l
  BY <1>1, <1>3, <1>4 DEF DecodeCollection, Is, a
<1>6. DecodeCollection(Arr(<<Str(c), l>>)) = l
  BY <1>1, <1>3, DecodeWrapper
<1>7. DecodeCollection(Obj(o)) = l
  <2>1. /\ DOMAIN Obj(o) = {"obj"} /\ Obj(o).obj = o /\ "items" \in DOMAIN o
        /\ o["items"] = l
    BY Kinds
  <2> HIDE DEF o
  <2> QED
    BY <1>1, <1>3, <2>1 DEF DecodeCollection, ListWrapper, Is, a
<1> QED
  BY <1>5, <1>6, <1>7 DEF l

\* Every terminal of a list that decodes is read as it was meant.
LEMMA InfosRead ==
  ASSUME NEW ts, InfosOK(ts), NEW class
  PROVE  InfosOf(ItemsOf(Terms(ts, class))) = ts
<1> DEFINE a == Terms(ts, class).arr
<1>1. IsList(ts) /\ ts = [i \in DOMAIN ts |-> ts[i]]
  BY ListFacts DEF InfosOK
<1>2. /\ DOMAIN a = DOMAIN ts /\ ItemsOf(Terms(ts, class)) = a
      /\ \A i \in DOMAIN ts :
           a[i] = [term |-> ts[i].term, class |-> class, extra |-> ts[i].extra]
  BY <1>1, TermsFacts
<1> HIDE DEF a
<1>3. ASSUME NEW i \in DOMAIN ts PROVE TerminalInfo(a[i]) = ts[i]
  <2>1. /\ InfoOK(ts[i]) /\ a[i].term = ts[i].term /\ a[i].extra = ts[i].extra
        /\ DOMAIN a[i] = {"term", "class", "extra"}
    BY <1>2 DEF InfosOK
  <2>2. a[i] # Null /\ Is("term", a[i])
    BY <2>1, Kinds DEF Is
  <2>3. /\ a[i].extra = Null \/ Is("obj", a[i].extra)
        /\ Any(a[i].extra) = a[i].extra
    BY <2>1, Kinds DEF InfoOK, Any, Is
  <2> QED
    BY <2>1, <2>2, <2>3 DEF TerminalInfo, InfoOK
<1>4. InfosOf(a) = [i \in DOMAIN ts |-> ts[i]]
  BY <1>2, <1>3 DEF InfosOf
<1> QED
  BY <1>1, <1>2, <1>4

\* A session as Unmarshal returns it.
SessionOK(s) ==
  /\ s = [loginId |-> s.loginId, data |-> s.data, terms |-> s.terms, count |-> s.count]
  /\ Any(s.loginId) = s.loginId
  /\ IsFunction(s.data) /\ "class" \notin DOMAIN s.data
  /\ \A k \in DOMAIN s.data : Value(s.data[k])
  /\ InfosOK(s.terms) /\ s.count \in Nat /\ Len(s.terms) =< s.count

\* What Unmarshal makes of decoded parts.
LEMMA UnmarshalParts ==
  ASSUME NEW j, NEW g, NEW ts, InfosOK(ts),
         DecodeDataMap(j.dataMap) = Obj(g), DecodeCollection(j.terminalList) # Err,
         InfosOf(ItemsOf(DecodeCollection(j.terminalList))) = ts
  PROVE  Unmarshal(j) = [loginId |-> Any(j.loginId), data |-> g, terms |-> ts,
                         count |-> IF j.count < Len(ts) THEN Len(ts) ELSE j.count]
<1>1. Obj(g) # Err /\ Obj(g).obj = g
  BY Kinds
<1>2. \A i \in DOMAIN ts : ts[i] # Err
  <2>1. \A i \in DOMAIN ts : DOMAIN ts[i] = {"term", "extra"}
    BY DEF InfosOK, InfoOK
  <2> QED
    BY <2>1, Kinds
<1> DEFINE list == DecodeCollection(j.terminalList)
           data == DecodeDataMap(j.dataMap)
<1>3. Unmarshal(j) =
        IF Err \in {data, list} THEN Err
        ELSE IF \E i \in DOMAIN InfosOf(ItemsOf(list)) : InfosOf(ItemsOf(list))[i] = Err THEN Err
        ELSE [loginId |-> Any(j.loginId), data |-> data.obj, terms |-> InfosOf(ItemsOf(list)),
              count |-> IF j.count < Len(InfosOf(ItemsOf(list)))
                        THEN Len(InfosOf(ItemsOf(list))) ELSE j.count]
  BY DEF Unmarshal, InfosOf, ItemsOf
<1> HIDE DEF list, data
<1> QED
  BY <1>1, <1>2, <1>3 DEF list, data

\* One terminal that does not decode, and nothing is read.
LEMMA UnmarshalRefuses ==
  ASSUME NEW j, NEW i \in DOMAIN InfosOf(ItemsOf(DecodeCollection(j.terminalList))),
         InfosOf(ItemsOf(DecodeCollection(j.terminalList)))[i] = Err
  PROVE  Unmarshal(j) = Err
BY DEF Unmarshal, InfosOf, ItemsOf

\* A session after a rewrite.
Again(s) == [s EXCEPT !.data = [k \in DOMAIN s.data |-> Rewritten(s.data[k])]]

\* What Marshal writes.
LEMMA MarshalParts ==
  ASSUME NEW s, SessionOK(s)
  PROVE  LET f == [k \in DOMAIN s.data |-> WrapValue(s.data[k])]
         IN  Marshal(s) =
               [loginId |-> s.loginId, count |-> s.count, dataMap |-> Typed(SessionMap, Obj(f)),
                terminalList |-> IF s.terms = <<>> THEN Null
                                 ELSE Typed("java.util.Vector", Terms(s.terms, TRUE))]
<1> DEFINE a == [i \in DOMAIN s.terms |-> TerminalJson(s.terms[i])]
           b == [i \in DOMAIN s.terms |->
                   [term |-> s.terms[i].term, class |-> TRUE, extra |-> s.terms[i].extra]]
<1>1. \A i \in DOMAIN s.terms : s.terms[i].extra # Obj(<<>>)
  BY Kinds DEF SessionOK, InfosOK, InfoOK
<1>2. a = b
  BY <1>1 DEF TerminalJson
<1>3. Terms(s.terms, TRUE) = Arr(a)
  BY <1>2 DEF Terms
<1> QED
  BY <1>3 DEF Marshal, Typed, SessionMap

\* What Go writes it reads back.
LEMMA RewriteKeeps ==
  ASSUME NEW s, SessionOK(s)
  PROVE  Unmarshal(Marshal(s)) = Again(s) /\ SessionOK(Again(s))
<1> DEFINE f == [k \in DOMAIN s.data |-> WrapValue(s.data[k])]
           r == [k \in DOMAIN s.data |-> Rewritten(s.data[k])]
           j == Marshal(s)
           list == IF s.terms = <<>> THEN Null ELSE Typed("java.util.Vector", Terms(s.terms, TRUE))
<1>0. j = [loginId |-> s.loginId, count |-> s.count, dataMap |-> Typed(SessionMap, Obj(f)),
           terminalList |-> list]
  BY MarshalParts
<1> HIDE DEF j
<1>1. /\ j.loginId = s.loginId /\ j.count = s.count /\ j.terminalList = list
      /\ j.dataMap = Typed(SessionMap, Obj(f))
  BY <1>0
<1>2. /\ IsFunction(r) /\ DOMAIN r = DOMAIN f \ {"class"} /\ "class" \notin DOMAIN r
      /\ \A k \in DOMAIN r : DecodeDataValue(f[k]) = r[k] /\ r[k] # Err /\ Value(r[k])
  BY DecodeWrapped DEF SessionOK, IsFunction
<1>3. /\ Again(s) = [loginId |-> s.loginId, data |-> r, terms |-> s.terms, count |-> s.count]
      /\ Again(s).loginId = s.loginId /\ Again(s).data = r
      /\ Again(s).terms = s.terms /\ Again(s).count = s.count
  BY DEF Again, SessionOK
<1>4. /\ InfosOK(s.terms) /\ IsList(s.terms) /\ s.count \in Nat /\ Len(s.terms) =< s.count
      /\ Len(s.terms) \in Nat /\ Any(s.loginId) = s.loginId
  BY ListFacts DEF SessionOK, InfosOK
<1> HIDE DEF f, r
<1>5. SessionOK(Again(s))
  BY <1>2, <1>3, <1>4 DEF SessionOK
<1>6. DecodeDataMap(j.dataMap) = Obj(r)
  BY <1>1, <1>2, DecodeMap
<1>7. DecodeCollection(list) # Err /\ InfosOf(ItemsOf(DecodeCollection(list))) = s.terms
  <2>1. CASE s.terms = <<>>
    <3>1. DecodeCollection(Null) = NilList /\ NilList # Err
      BY Kinds DEF DecodeCollection, ListWrapper, Is
    <3>2. InfosOf(ItemsOf(NilList)) = <<>>
      BY DEF InfosOf, ItemsOf
    <3> QED
      BY <2>1, <3>1, <3>2
  <2>2. CASE s.terms # <<>>
    <3> DEFINE l == Terms(s.terms, TRUE)
    <3>1. DecodeCollection(Arr(<<Str("java.util.Vector"), l>>)) = l /\ l # Err
      BY <1>4, DecodeTerms, TermsFacts
    <3>2. list = Arr(<<Str("java.util.Vector"), l>>)
      BY <2>2 DEF Typed
    <3> QED
      BY <1>4, <3>1, <3>2, InfosRead
  <2> QED
    BY <2>1, <2>2
<1> HIDE DEF list
<1>8. Unmarshal(j) = [loginId |-> Any(j.loginId), data |-> r, terms |-> s.terms,
                      count |-> IF j.count < Len(s.terms) THEN Len(s.terms) ELSE j.count]
  BY <1>1, <1>4, <1>6, <1>7, UnmarshalParts
<1>9. (IF j.count < Len(s.terms) THEN Len(s.terms) ELSE j.count) = s.count
  BY <1>1, <1>4
<1> QED
  BY <1>1, <1>3, <1>4, <1>5, <1>8, <1>9 DEF j

\* A session whose dataMap holds text, float64, null and lists, nested to any
\* depth, but no object and no nil []any comes back from a rewrite: the login id,
\* every terminal, the counter and every value, but that an []any of text has
\* become a []string.  Writing it again writes the same JSON, so no number of
\* rewrites changes more (session_codec.go:182-372).
THEOREM GoReadsBack ==
  ASSUME NEW s,
         s = [loginId |-> s.loginId, data |-> s.data, terms |-> s.terms, count |-> s.count],
         DOMAIN s.loginId = {"str"},
         IsFunction(s.data), "class" \notin DOMAIN s.data,
         \A k \in DOMAIN s.data : Plain(s.data[k]),
         InfosOK(s.terms), s.count \in Nat, Len(s.terms) =< s.count
  PROVE  Unmarshal(Marshal(s)) = Again(s) /\ Marshal(Again(s)) = Marshal(s)
<1> DEFINE f == [k \in DOMAIN s.data |-> WrapValue(s.data[k])]
           r == [k \in DOMAIN s.data |-> Rewritten(s.data[k])]
           q == [k \in DOMAIN r |-> WrapValue(r[k])]
<1>1. Any(s.loginId) = s.loginId
  BY DEF Any, Is
<1>2. \A k \in DOMAIN s.data : Value(s.data[k])
  BY DEF Value
<1>3. SessionOK(s)
  BY <1>1, <1>2 DEF SessionOK
<1>4. /\ Again(s).loginId = s.loginId /\ Again(s).data = r
      /\ Again(s).terms = s.terms /\ Again(s).count = s.count
  BY DEF Again
<1>5. q = f
  <2>1. \A k \in DOMAIN s.data : WrapValue(Rewritten(s.data[k])) = WrapValue(s.data[k])
    BY <1>2, DecodeWrapped
  <2> QED
    BY <2>1
<1>6. SessionOK(Again(s)) /\ Unmarshal(Marshal(s)) = Again(s)
  BY <1>3, RewriteKeeps
<1>7. Marshal(s) =
        [loginId |-> s.loginId, count |-> s.count, dataMap |-> Typed(SessionMap, Obj(f)),
         terminalList |-> IF s.terms = <<>> THEN Null
                          ELSE Typed("java.util.Vector", Terms(s.terms, TRUE))]
  BY <1>3, MarshalParts
<1> HIDE DEF f, r
<1>8. Marshal(Again(s)) =
        [loginId |-> s.loginId, count |-> s.count, dataMap |-> Typed(SessionMap, Obj(q)),
         terminalList |-> IF s.terms = <<>> THEN Null
                          ELSE Typed("java.util.Vector", Terms(s.terms, TRUE))]
  BY <1>4, <1>6, MarshalParts
<1> QED
  BY <1>5, <1>6, <1>7, <1>8

-----------------------------------------------------------------------------
(* What the writers write *)

\* Whatever a list of codes holds, Java reads the text in it as text.
CodesOK(l) == IsList(l) /\ \A i \in DOMAIN l : JavaInner(Str(l[i])) = Str(l[i])

LEMMA JavaText ==
  ASSUME NEW x, "arr" \notin DOMAIN x, "obj" \notin DOMAIN x PROVE JavaValue(x) = x
<1>1. ~ClassedMap(x)
  BY DEF ClassedMap, Classed, Is
<1> QED
  BY <1>1 DEF JavaValue, Is

LEMMA CodesAreText ==
  ASSUME NEW l \in CodeLists \cup RoleLists \cup {<<>>} PROVE CodesOK(l)
<1>1. CASE l = <<>>
  BY <1>1 DEF CodesOK, IsList
<1>2. CASE l \in CodeLists \cup RoleLists
  <2>1. ASSUME NEW i \in DOMAIN l PROVE JavaInner(Str(l[i])) = Str(l[i])
    <3>1. JavaValue(Str(l[i])) = Str(l[i])
      BY Kinds, JavaText
    <3> QED
      BY <1>2, <3>1, JavaTextAssumption
  <2> QED
    BY <1>2, <2>1, ListsAssumption DEF CodesOK
<1> QED
  BY <1>1, <1>2

LEMMA TextsValue ==
  ASSUME NEW l, IsList(l)
  PROVE  /\ ListJson(Arr(Texts(l))) /\ AllText(Texts(l)) /\ Value(Arr(Texts(l)))
         /\ Value(Strs(l)) /\ Rewritten(Arr(Texts(l))) = Strs(l) /\ Rewritten(Strs(l)) = Strs(l)
         /\ WrapValue(Strs(l)) = Arr(<<Str(ListClass), Arr(Texts(l))>>)
         /\ WrapValue(Arr(Texts(l))) = Arr(<<Str(ListClass), Arr(Texts(l))>>)
<1> DEFINE x == Texts(l)
<1>1. /\ DOMAIN x = 1..Len(l) /\ \A i \in 1..Len(l) : x[i] = Str(l[i])
      /\ [i \in DOMAIN x |-> x[i].str] = l /\ IsList(x)
  BY TextsFacts, DecodeTexts
<1>2. /\ DOMAIN Arr(x) = {"arr"} /\ Arr(x).arr = x
      /\ DOMAIN Strs(l) = {"strs"} /\ Strs(l).strs = l
      /\ Arr(x) # NilList /\ Strs(l) # NilList
  BY Kinds
<1>3. Arr(Texts(l)) = Arr(x)
  OBVIOUS
<1> HIDE DEF x
<1>4. ListJson(Arr(x))
  BY <1>1, <1>2 DEF ListJson, Is
<1>5. \A i \in DOMAIN x : Is("str", x[i]) /\ TextJson(x[i]) /\ Any(x[i]) = x[i]
  BY <1>1, Kinds DEF Is, TextJson, Any
<1>6. AllText(x) /\ Plain(Arr(x)) /\ Plain(Strs(l))
  BY <1>2, <1>4, <1>5 DEF AllText, Plain, Is
<1>7. Rewritten(Arr(x)) = Strs(l) /\ Rewritten(Strs(l)) = Strs(l)
  BY <1>1, <1>2, <1>6 DEF Rewritten, Is
<1>8. /\ WrapValue(Strs(l)) = Arr(<<Str(ListClass), Arr(x)>>)
      /\ WrapValue(Arr(x)) = Arr(<<Str(ListClass), Arr(x)>>)
  BY <1>2, <1>3 DEF WrapValue, ToJson, Is
<1> QED
  BY <1>4, <1>6, <1>7, <1>8 DEF x, Value

\* A list of codes is read in every form it is written in.
LEMMA ListsRead ==
  ASSUME NEW l, IsList(l), NEW c
  PROVE  /\ DecodeDataValue(Typed(c, Arr(Texts(l)))) = Strs(l)
         /\ DecodeDataValue(Obj([class |-> Str(ListClass), items |-> Arr(Texts(l))])) =
              Arr(Texts(l))
         /\ DecodeDataValue(Arr(Texts(l))) = Strs(l)
<1> DEFINE x == Texts(l)
           o == [class |-> Str(ListClass), items |-> Arr(x)]
<1>1. AllText(x) /\ [i \in DOMAIN x |-> x[i].str] = l /\ AnyList(x) = Arr(x)
  BY TextsFacts, TextsValue, DecodeTexts
<1>2. DOMAIN Arr(x) = {"arr"} /\ Arr(x).arr = x /\ Arr(x) # Null
  BY Kinds
<1>3. DecodeDataValue(Typed(c, Arr(x))) = Strs(l)
  BY DecodeTexts DEF Typed
<1>4. ~ListWrapper(Arr(x))
  <2>1. ASSUME ListWrapper(Arr(x)) PROVE FALSE
    <3>1. Len(l) = 2 /\ Is("arr", x[2])
      BY <1>2, <2>1, TextsFacts DEF ListWrapper
    <3>2. x[2] = Str(l[2])
      BY <3>1, TextsFacts
    <3> QED
      BY <3>1, <3>2, Kinds DEF Is
  <2> QED
    BY <2>1
<1> HIDE DEF x
<1>5. DecodeCollection(Arr(x)) = Arr(x)
  BY <1>1, <1>2, <1>4 DEF DecodeCollection, Is
<1>6. DecodeDataValue(Arr(x)) = Strs(l)
  BY <1>1, <1>2, <1>5 DEF DecodeDataValue, AllText, Is
<1>7. DecodeDataValue(Obj(o)) = Arr(x)
  <2>1. /\ DOMAIN Obj(o) = {"obj"} /\ Obj(o).obj = o /\ "items" \in DOMAIN o
        /\ o["items"] = Arr(x)
    BY Kinds
  <2> HIDE DEF o
  <2> QED
    BY <1>1, <1>2, <2>1 DEF DecodeDataValue, DecodeCollection, ListWrapper, Is
<1> QED
  BY <1>3, <1>6, <1>7 DEF x

\* A list with its class, read by Java.
LEMMA JavaReadsList ==
  ASSUME NEW c \in ListClasses, NEW l
  PROVE  LET read == [i \in DOMAIN l |-> JavaInner(l[i])]
         IN  JavaValue(Arr(<<Str(c), Arr(l)>>)) = Accepted(read, Arr(read))
<1> DEFINE p == <<Str(c), Arr(l)>>
<1>1. /\ Arr(p).arr = p /\ DOMAIN Arr(p) = {"arr"} /\ Len(p) = 2 /\ p[1] = Str(c)
      /\ p[2] = Arr(l) /\ Arr(l).arr = l /\ DOMAIN Arr(l) = {"arr"}
      /\ Str(c).str = c /\ DOMAIN Str(c) = {"str"}
  BY Kinds
<1> HIDE DEF p
<1>2. ~ClassedMap(Arr(p)) /\ Classed(Arr(p)) /\ Is("arr", Arr(p)) /\ ~Is("obj", Arr(p))
  BY <1>1 DEF ClassedMap, Classed, Is
<1>3. JavaValue(Arr(p)) =
        LET read == [i \in DOMAIN l |-> JavaInner(l[i])] IN Accepted(read, Arr(read))
  BY <1>1, <1>2 DEF JavaValue, Is
<1> QED
  BY <1>3 DEF p

LEMMA JavaReadsCodes ==
  ASSUME NEW c \in ListClasses, NEW l, CodesOK(l)
  PROVE  JavaValue(Typed(c, Arr(Texts(l)))) = Arr(Texts(l)) /\ Arr(Texts(l)) # Bad
<1> DEFINE x == Texts(l)
<1>1. IsFunction(x) /\ DOMAIN x = 1..Len(l) /\ \A i \in 1..Len(l) : x[i] = Str(l[i])
  BY TextsFacts DEF IsFunction, Texts, CodesOK
<1>2. DOMAIN l = 1..Len(l)
  BY ListFacts DEF CodesOK
<1> HIDE DEF x
<1>3. [i \in DOMAIN x |-> JavaInner(x[i])] = x
  BY <1>1, <1>2 DEF IsFunction, CodesOK
<1>4. \A i \in DOMAIN x : x[i] # Bad
  BY <1>1, Kinds
<1>5. JavaValue(Typed(c, Arr(x))) = Accepted(x, Arr(x))
  BY <1>3, JavaReadsList DEF Typed
<1>6. JavaValue(Typed(c, Arr(x))) = Arr(x) /\ Arr(x) # Bad
  BY <1>4, <1>5, Kinds DEF Accepted
<1> QED
  BY <1>6 DEF x

\* A value that Go can write, and with which Java gets back a.
AttrOK(v, a) ==
  /\ v # Err /\ Value(v)
  /\ Portable(a) => v # NilList /\ JavaValue(WrapValue(v)) = JavaValue(AsDoubles(a))

\* A list, decoded.
LEMMA ListDecoded ==
  ASSUME NEW l, IsList(l), \A i \in DOMAIN l : Inside(l[i])
  PROVE  LET d == AnyList(l)
         IN  /\ Plain(d) /\ Rewritten(d) # Err /\ Rewritten(d) # NilList
             /\ Value(Rewritten(d)) /\ WrapValue(Rewritten(d)) = WrapValue(d)
             /\ WrapValue(d) = Arr(<<Str(ListClass), d>>)
<1> DEFINE d == AnyList(l)
<1>1. /\ d = Arr(d.arr) /\ DOMAIN d = {"arr"} /\ IsList(d.arr)
      /\ DOMAIN d.arr = DOMAIN l
      /\ \A i \in DOMAIN l : d.arr[i] = Any(l[i])
  BY AnyListFacts
<1>2. \A i \in DOMAIN d.arr :
        Any(d.arr[i]) = d.arr[i] /\ (Is("str", d.arr[i]) => TextJson(d.arr[i]))
  BY <1>1, AnyOnce
<1>3. d # NilList
  BY <1>1, Kinds
<1> HIDE DEF d
<1>4. Plain(d)
  BY <1>1, <1>2 DEF Plain, ListJson, Is
<1>5. Rewritten(d) # NilList
  BY <1>3, Kinds DEF Rewritten
<1>6. WrapValue(d) = Arr(<<Str(ListClass), d>>)
  BY <1>1, <1>3 DEF WrapValue, ToJson, Is
<1>7. Value(d)
  BY <1>4 DEF Value
<1>8. Rewritten(d) # Err /\ Value(Rewritten(d)) /\ WrapValue(Rewritten(d)) = WrapValue(d)
  BY <1>3, <1>7, DecodeWrapped
<1> QED
  BY <1>4, <1>5, <1>6, <1>8 DEF d

\* A map with its class, decoded.
LEMMA MapDecoded ==
  ASSUME NEW a, MapInside(a) PROVE AttrOK(DecodeDataValue(a), a)
<1> DEFINE f == a.obj
           g == [k \in Members(f) |-> DecodeInner(f[k])]
<1>1. /\ DOMAIN a = {"obj"} /\ "items" \notin DOMAIN f /\ ~Portable(a)
      /\ \A k \in Members(f) : g[k] # Err /\ DecodeInner(InnerToJson(g[k])) = g[k]
  BY DEF MapInside, Portable, Is
<1>2. IsFunction(g) /\ DOMAIN g = Members(f) /\ "class" \notin DOMAIN g /\ "items" \notin DOMAIN g
  BY <1>1 DEF IsFunction, Members
<1>3. DecodeDataValue(a) = DecodePlainMap(g)
  BY <1>1 DEF DecodeDataValue, Is
<1> HIDE DEF g
<1>4. DecodePlainMap(g) = Obj(g)
  BY <1>1, <1>2 DEF DecodePlainMap
<1>5. Obj(g).obj = g /\ DOMAIN Obj(g) = {"obj"} /\ Obj(g) # Err
  BY Kinds
<1>6. Value(Obj(g))
  BY <1>1, <1>2, <1>5 DEF Value, Is
<1> QED
  BY <1>1, <1>3, <1>4, <1>5, <1>6 DEF AttrOK

\* An array of a class and a body, decoded.
LEMMA ArrayDecoded ==
  ASSUME NEW a,
         ListJson(a), DOMAIN a = {"arr"}, Len(a.arr) = 2, TextJson(a.arr[1]),
         DOMAIN a.arr[1] = {"str"},
         IF Is("arr", a.arr[2]) THEN ListInside(a.arr[2])
         ELSE Inside(a.arr[2]) /\ a.arr[1].str \notin ListClasses
  PROVE  AttrOK(DecodeDataValue(a), a)
<1> DEFINE c == a.arr[1].str
           w == a.arr[2]
<1>1. IsList(a.arr) /\ a = Arr(a.arr) /\ DOMAIN a.arr = 1..2 /\ a.arr = <<a.arr[1], w>>
  <2>1. a = Arr(a.arr) /\ IsList(a.arr)
    BY DEF ListJson
  <2>2. DOMAIN a.arr = 1..2
    BY <2>1, ListFacts
  <2>3. a.arr = <<a.arr[1], w>>
    BY <2>1, Pair DEF IsList
  <2> QED
    BY <2>1, <2>2, <2>3
<1>2. a.arr[1] = Str(c) /\ a = Arr(<<Str(c), w>>)
  BY <1>1 DEF TextJson
<1>3. CASE Is("arr", w)
  <2> DEFINE l == w.arr
             d == AnyList(l)
  <2>1. w = Arr(l) /\ IsList(l) /\ \A i \in DOMAIN l : Inside(l[i])
    BY <1>3 DEF ListInside, ListJson
  <2>2. DecodeDataValue(a) = Rewritten(d)
    BY <1>2, <2>1, DecodeList
  <2>3. /\ Rewritten(d) # Err /\ Rewritten(d) # NilList
        /\ Value(Rewritten(d)) /\ WrapValue(Rewritten(d)) = Arr(<<Str(ListClass), d>>)
    BY <2>1, ListDecoded
  <2>4. AsDoubles(a) = Arr(<<Str(c), d>>)
    BY <1>2, <1>3 DEF AsDoubles, Is
  <2>5. ASSUME Portable(a)
        PROVE  JavaValue(Arr(<<Str(ListClass), d>>)) = JavaValue(Arr(<<Str(c), d>>))
    <3>1. c \in ListClasses /\ ListClass \in ListClasses
      BY <2>5 DEF Portable, ListClasses, Is
    <3>2. d = Arr(d.arr)
      BY <2>1, AnyListFacts
    <3> HIDE DEF d, c
    <3> QED
      BY <3>1, <3>2, JavaReadsList
  <2> QED
    BY <2>2, <2>3, <2>4, <2>5 DEF AttrOK
<1>4. CASE ~Is("arr", w)
  <2> DEFINE d == AnyList(a.arr)
  <2>1. ~Portable(a)
    BY <1>4 DEF Portable, Is
  <2>2. \A i \in DOMAIN a.arr : Inside(a.arr[i])
    BY <1>1, <1>4 DEF Inside
  <2>3. DecodeCollection(a) = d
    BY <1>4 DEF DecodeCollection, ListWrapper, Is
  <2>4. d = Arr(d.arr) /\ DOMAIN d = {"arr"} /\ d # NilList
    BY <1>1, AnyListFacts, Kinds
  <2>5. DecodeDataValue(a) = Rewritten(d)
    <3> HIDE DEF d
    <3> QED
      BY <2>3, <2>4 DEF DecodeDataValue, Rewritten, AllText, Is
  <2>6. Rewritten(d) # Err /\ Value(Rewritten(d))
    BY <1>1, <2>2, ListDecoded
  <2> QED
    BY <2>1, <2>5, <2>6 DEF AttrOK
<1> QED
  BY <1>3, <1>4

\* The other values: what Go makes of one is a value it can write, and if the
\* value is portable Java reads it again, with its numbers rounded.
LEMMA AttrDecoded ==
  ASSUME NEW a \in Attrs \cup {NoAttr, NilItems} PROVE AttrOK(DecodeDataValue(a), a)
<1>1. CASE DOMAIN a \in {{"str"}, {"null"}}
  <2>1. /\ DecodeDataValue(a) = a /\ WrapValue(a) = a /\ AsDoubles(a) = a
        /\ a # NilList /\ a # Err /\ Value(a)
    BY <1>1, Kinds DEF DecodeDataValue, WrapValue, ToJson, AsDoubles, Any, Value, Plain, Is
  <2> QED
    BY <2>1 DEF AttrOK
<1>2. CASE DOMAIN a = {"num"} /\ Whole(a)
  <2> DEFINE v == Any(a)
  <2>1. Any(v) = v
    BY <1>2, AnyOnce DEF Inside
  <2>2. v = Num(Float(a.num)) /\ DOMAIN v = {"num"}
    BY <1>2, Kinds DEF Any, Is
  <2>3. DecodeDataValue(a) = v /\ AsDoubles(a) = v
    BY <1>2 DEF DecodeDataValue, AsDoubles, Is
  <2> HIDE DEF v
  <2>4. v # Err /\ v # NilList /\ WrapValue(v) = v /\ Value(v)
    BY <2>1, <2>2, Kinds DEF WrapValue, ToJson, Value, Plain, Is
  <2> QED
    BY <2>3, <2>4 DEF AttrOK
<1>3. CASE a = NilItems
  <2> DEFINE o == [class |-> Str(ListClass), items |-> Null]
  <2>1. /\ DOMAIN Obj(o) = {"obj"} /\ Obj(o).obj = o /\ "items" \in DOMAIN o
        /\ o["items"] = Null /\ NilItems = Obj(o)
    BY Kinds DEF NilItems
  <2> HIDE DEF o
  <2>2. DecodeDataValue(a) = NilList /\ ~Portable(a)
    BY <1>3, <2>1 DEF DecodeDataValue, DecodeCollection, ListWrapper, Portable, Is
  <2>3. NilList # Err /\ Value(NilList)
    BY Kinds DEF Value
  <2> QED
    BY <2>2, <2>3 DEF AttrOK
<1>4. CASE a = NoAttr
  BY <1>1, <1>4, Kinds DEF NoAttr
<1> QED
  BY <1>1, <1>2, <1>3, <1>4, AttrsAssumption, ArrayDecoded, MapDecoded

Settled(v) == v # Err /\ Value(v)

LEMMA SettledLists ==
  ASSUME NEW l, IsList(l) PROVE Settled(Strs(l)) /\ Settled(Arr(Texts(l)))
<1>1. Strs(l) # Err /\ Arr(Texts(l)) # Err
  <2>1. DOMAIN Strs(l) # DOMAIN Err /\ DOMAIN Arr(Texts(l)) # DOMAIN Err
    BY Kinds
  <2> QED
    BY <2>1
<1> QED
  BY <1>1, TextsValue DEF Settled

-----------------------------------------------------------------------------
(* The inductive invariant *)

Keys == {"permissions", "roles", "attr"}

\* The codes a login wrote, as the session holds them; a session of Go has
\* none before its first SaveSession.
Holds(s, key, l) ==
  IF key \in DOMAIN s.data THEN s.data[key] \in {Strs(l), Arr(Texts(l))} ELSE l = <<>>

\* What Java reads for the other value once Go has written it.
HoldsAttr(s, a) ==
  IF "attr" \in DOMAIN s.data THEN AttrOK(s.data["attr"], a) ELSE a = NoAttr

\* A session of Go in which everything is what the writers meant.
Means(s, cs, rs, a, ts) ==
  /\ SessionOK(s) /\ DOMAIN s.data \subseteq Keys /\ s.terms = ts
  /\ Holds(s, "permissions", cs) /\ Holds(s, "roles", rs) /\ HoldsAttr(s, a)

\* What Java reads of a member.
Reads(f, key, l) ==
  IF key \in Members(f) THEN JavaValue(f[key]) = Arr(Texts(l)) ELSE l = <<>>

ReadsAttr(f, a) ==
  IF "attr" \in Members(f)
    THEN Portable(a) => JavaValue(f["attr"]) \in {JavaValue(a), JavaValue(AsDoubles(a))}
    ELSE a = NoAttr

\* The JSON of a session in which Java reads the same.
JavaMeans(j, cs, rs, a, ts) ==
  /\ ClassedMap(j.dataMap) /\ Members(MapOf(j.dataMap)) \subseteq Keys
  /\ Reads(MapOf(j.dataMap), "permissions", cs) /\ Reads(MapOf(j.dataMap), "roles", rs)
  /\ ReadsAttr(MapOf(j.dataMap), a)
  /\ j.terminalList = IF ts = <<>> THEN Null
                      ELSE Typed("java.util.Vector", Terms(ts, TRUE))

\* Terminals that Go can decode.
Legible(ts) == \A i \in DOMAIN ts : ~Is("arr", ts[i].extra)

IInv ==
  /\ codes \in CodeLists \cup {<<>>} /\ roles \in RoleLists \cup {<<>>}
  /\ attr \in Attrs \cup {NoAttr, NilItems} /\ typed \in BOOLEAN
  /\ stored = Absent =>
       ~typed /\ codes = <<>> /\ roles = <<>> /\ attr = NoAttr /\ terms = <<>>
  /\ stored # Absent =>
       IF Legible(terms) THEN Means(Unmarshal(stored), codes, roles, attr, terms)
                         ELSE Unmarshal(stored) = Err
  /\ typed => JavaMeans(stored, codes, roles, attr, terms)

LEMMA OKLegible ==
  ASSUME NEW ts, InfosOK(ts) PROVE Legible(ts)
BY Kinds DEF InfosOK, InfoOK, Legible, Is

\* What Go has read, it has read whole.
LEMMA ReadableMeans ==
  ASSUME IInv, Readable PROVE Means(Loaded, codes, roles, attr, terms)
BY DEF IInv, Readable, Loaded

LEMMA MeansAgain ==
  ASSUME NEW s, NEW cs, NEW rs, NEW a, NEW ts, IsList(cs), IsList(rs),
         Means(s, cs, rs, a, ts)
  PROVE  Means(Again(s), cs, rs, a, ts)
<1> DEFINE r == [k \in DOMAIN s.data |-> Rewritten(s.data[k])]
<1>1. Again(s).data = r /\ Again(s).terms = s.terms /\ DOMAIN r = DOMAIN s.data
  BY DEF Again, Means, SessionOK
<1>2. SessionOK(s) /\ SessionOK(Again(s))
  BY RewriteKeeps DEF Means
<1>3. ASSUME NEW key, NEW l, IsList(l), Holds(s, key, l) PROVE Holds(Again(s), key, l)
  BY <1>1, <1>3, TextsValue DEF Holds
<1>4. HoldsAttr(Again(s), a)
  <2>1. ASSUME "attr" \in DOMAIN s.data PROVE AttrOK(r["attr"], a)
    <3> DEFINE v == s.data["attr"]
    <3>1. AttrOK(v, a) /\ Value(v)
      BY <1>2, <2>1 DEF Means, HoldsAttr, SessionOK
    <3>2. r["attr"] = Rewritten(v)
      BY <2>1
    <3> HIDE DEF v, r
    <3>3. /\ Rewritten(v) # Err /\ Value(Rewritten(v))
          /\ v # NilList => WrapValue(Rewritten(v)) = WrapValue(v) /\ Rewritten(v) # NilList
      BY <3>1, DecodeWrapped, Kinds DEF Rewritten
    <3> QED
      BY <3>1, <3>2, <3>3 DEF AttrOK
  <2> HIDE DEF r
  <2> QED
    BY <1>1, <2>1 DEF HoldsAttr, Means
<1> HIDE DEF r
<1> QED
  BY <1>1, <1>2, <1>3, <1>4 DEF Means

\* A dataMap in an array with its class.
LEMMA TypedMap ==
  ASSUME NEW f
  PROVE  ClassedMap(Typed(SessionMap, Obj(f))) /\ MapOf(Typed(SessionMap, Obj(f))) = f
<1> DEFINE p == <<Str(SessionMap), Obj(f)>>
<1>1. /\ Arr(p).arr = p /\ DOMAIN Arr(p) = {"arr"} /\ Len(p) = 2 /\ p[1] = Str(SessionMap)
      /\ p[2] = Obj(f) /\ Obj(f).obj = f /\ DOMAIN Obj(f) = {"obj"}
      /\ Str(SessionMap).str = SessionMap /\ DOMAIN Str(SessionMap) = {"str"}
  BY Kinds
<1>2. SessionMap \in MapClasses
  BY DEF SessionMap, MapClasses
<1> HIDE DEF p
<1>3. ClassedMap(Arr(p)) /\ MapOf(Arr(p)) = f
  BY <1>1, <1>2 DEF ClassedMap, Classed, MapOf, Is
<1> QED
  BY <1>3 DEF p, Typed

\* What Go writes means the same, to Go and to Java.
LEMMA SaveMeans ==
  ASSUME NEW s, NEW cs \in CodeLists \cup {<<>>}, NEW rs \in RoleLists \cup {<<>>},
         NEW a, NEW ts, Means(s, cs, rs, a, ts)
  PROVE  /\ Means(Unmarshal(Marshal(s)), cs, rs, a, ts) /\ Legible(ts)
         /\ JavaMeans(Marshal(s), cs, rs, a, ts) /\ Marshal(s) # Absent
<1> DEFINE j == Marshal(s)
           f == [k \in DOMAIN s.data |-> WrapValue(s.data[k])]
<1>1. CodesOK(cs) /\ CodesOK(rs)
  BY CodesAreText
<1>2. SessionOK(s) /\ s.terms = ts
  BY DEF Means
<1>3. Means(Unmarshal(j), cs, rs, a, ts)
  BY <1>1, <1>2, MeansAgain, RewriteKeeps DEF CodesOK
<1>4. j = [loginId |-> s.loginId, count |-> s.count, dataMap |-> Typed(SessionMap, Obj(f)),
           terminalList |-> IF ts = <<>> THEN Null ELSE Typed("java.util.Vector", Terms(ts, TRUE))]
  BY <1>2, MarshalParts
<1>5. /\ Members(f) = DOMAIN s.data /\ DOMAIN s.data \subseteq Keys
      /\ \A k \in DOMAIN s.data : f[k] = WrapValue(s.data[k])
  BY DEF Means, SessionOK, Members
<1> HIDE DEF f, j
<1>6. /\ j.dataMap = Typed(SessionMap, Obj(f)) /\ j # Absent
      /\ j.terminalList = IF ts = <<>> THEN Null ELSE Typed("java.util.Vector", Terms(ts, TRUE))
  <2>1. DOMAIN j = {"loginId", "count", "dataMap", "terminalList"}
    BY <1>4
  <2> QED
    BY <1>4, <2>1, Kinds
<1>7. ClassedMap(j.dataMap) /\ MapOf(j.dataMap) = f
  BY <1>6, TypedMap
<1>8. ASSUME NEW key, NEW l, CodesOK(l), Holds(s, key, l) PROVE Reads(f, key, l)
  <2>1. CASE key \in DOMAIN s.data
    <3>1. f[key] = Arr(<<Str(ListClass), Arr(Texts(l))>>)
      BY <1>5, <1>8, <2>1, TextsValue DEF Holds, CodesOK
    <3>2. JavaValue(f[key]) = Arr(Texts(l))
      <4>1. ListClass \in ListClasses
        BY DEF ListClasses
      <4> QED
        BY <1>8, <3>1, <4>1, JavaReadsCodes DEF Typed
    <3> QED
      BY <1>5, <2>1, <3>2 DEF Reads
  <2>2. CASE key \notin DOMAIN s.data
    BY <1>5, <1>8, <2>2 DEF Reads, Holds
  <2> QED
    BY <2>1, <2>2
<1>9. ReadsAttr(f, a)
  BY <1>5 DEF ReadsAttr, HoldsAttr, AttrOK, Means
<1>10. Reads(f, "permissions", cs) /\ Reads(f, "roles", rs)
  BY <1>1, <1>8 DEF Means
<1>11. JavaMeans(j, cs, rs, a, ts)
  BY <1>5, <1>6, <1>7, <1>9, <1>10 DEF JavaMeans
<1>12. Legible(ts)
  BY <1>2, OKLegible DEF SessionOK
<1> QED
  BY <1>3, <1>6, <1>11, <1>12 DEF j

LEMMA SaveStep ==
  ASSUME NEW s, Means(s, codes', roles', attr', terms'),
         codes' \in CodeLists \cup {<<>>}, roles' \in RoleLists \cup {<<>>},
         attr' \in Attrs \cup {NoAttr, NilItems},
         stored' = Marshal(s), typed' = TRUE
  PROVE  IInv'
BY SaveMeans DEF IInv

-----------------------------------------------------------------------------
(* A login by another writer *)

\* The JSON of a login with the members f and the terminals ts, in any form.
LoginJson(j, f, ts) ==
  /\ j.dataMap \in {Obj(f), Typed(SessionMap, Obj(f))}
  /\ DecodeCollection(j.terminalList) \in {Terms(ts, TRUE), Terms(ts, FALSE)}
  /\ j.count \in Nat /\ j.loginId \in LoginIds

\* It holds the codes that the login meant.
LoginCodes(f, key, l) ==
  key \in Members(f) /\ DecodeDataValue(f[key]) \in {Strs(l), Arr(Texts(l))}

LoginAttr(f, a) == IF "attr" \in Members(f) THEN f["attr"] = a ELSE a = NoAttr

LEMMA LoginIdOnce ==
  ASSUME NEW id \in LoginIds PROVE Any(Any(id)) = Any(id)
<1>1. CASE DOMAIN id = {"str"}
  BY <1>1 DEF Any, Is
<1>2. CASE DOMAIN id = {"num"} /\ Whole(id)
  BY <1>2, AnyOnce DEF Inside
<1> QED
  BY <1>1, <1>2, LoginIdsAssumption

\* The one terminal of a login.
LEMMA LoginTerms ==
  ASSUME NEW t, NEW extra \in Extras \cup {Null}
  PROVE  LET ts == <<Terminal(t, extra)>> IN
         /\ IsList(ts) /\ Len(ts) = 1 /\ ts # <<>> /\ DOMAIN ts = {1} /\ ts[1] = Terminal(t, extra)
         /\ Legible(ts) => InfosOK(ts)
<1> DEFINE ts == <<Terminal(t, extra)>>
<1>1. /\ IsList(ts) /\ Len(ts) = 1 /\ ts # <<>> /\ DOMAIN ts = {1}
      /\ ts[1] = Terminal(t, extra)
  BY DEF IsList
<1>2. /\ Terminal(t, extra).extra = extra /\ Terminal(t, extra).term = t
      /\ Terminal(t, extra) =
           [term |-> Terminal(t, extra).term, extra |-> Terminal(t, extra).extra]
  BY DEF Terminal
<1> HIDE DEF ts
<1>3. ASSUME Legible(ts) PROVE InfosOK(ts)
  <2>1. "arr" \notin DOMAIN extra
    BY <1>1, <1>2, <1>3 DEF Legible, Is
  <2>2. extra # Null => DOMAIN extra = {"obj"} /\ AnyNested(extra) = extra /\ extra # Obj(<<>>)
    BY <2>1, ExtrasAssumption
  <2>3. InfoOK(Terminal(t, extra))
    BY <1>2, <2>2 DEF InfoOK, Any, Is
  <2> QED
    BY <1>1, <2>3 DEF InfosOK
<1> QED
  BY <1>1, <1>3 DEF ts

\* Such a session, as Go reads it.
LEMMA LoginMeans ==
  ASSUME NEW j, NEW f, NEW t, NEW extra \in Extras \cup {Null},
         NEW cs \in CodeLists, NEW rs \in RoleLists, NEW a \in Attrs \cup {NoAttr, NilItems},
         LoginJson(j, f, <<Terminal(t, extra)>>), Members(f) \subseteq Keys,
         LoginCodes(f, "permissions", cs), LoginCodes(f, "roles", rs), LoginAttr(f, a)
  PROVE  LET ts == <<Terminal(t, extra)>>
         IN  IF Legible(ts) THEN Means(Unmarshal(j), cs, rs, a, ts) ELSE Unmarshal(j) = Err
<1> DEFINE ts == <<Terminal(t, extra)>>
           g == [k \in Members(f) |-> DecodeDataValue(f[k])]
           s == Unmarshal(j)
<1>1. /\ IsList(ts) /\ Len(ts) = 1 /\ DOMAIN ts = {1} /\ ts[1] = Terminal(t, extra)
      /\ Legible(ts) => InfosOK(ts)
  BY LoginTerms
<1>2. PICK b \in BOOLEAN : DecodeCollection(j.terminalList) = Terms(ts, b)
  BY DEF LoginJson
<1>3. ASSUME NEW k \in Members(f) PROVE Settled(g[k])
  <2>1. IsList(cs) /\ IsList(rs)
    BY CodesAreText DEF CodesOK
  <2>2. CASE k = "attr"
    BY <1>3, <2>2, AttrDecoded DEF Settled, AttrOK, LoginAttr
  <2>3. CASE k = "permissions"
    BY <1>3, <2>1, <2>3, SettledLists DEF LoginCodes
  <2>4. CASE k = "roles"
    BY <1>3, <2>1, <2>4, SettledLists DEF LoginCodes
  <2> QED
    BY <2>2, <2>3, <2>4 DEF Keys
<1>4. /\ IsFunction(g) /\ DOMAIN g = Members(f) /\ DOMAIN g = DOMAIN f \ {"class"}
      /\ \A k \in DOMAIN g : DecodeDataValue(f[k]) = g[k]
  BY DEF IsFunction, Members
<1> HIDE DEF ts, g
<1>5. DecodeDataMap(j.dataMap) = Obj(g)
  <2>1. \A k \in DOMAIN g : DecodeDataValue(f[k]) = g[k] /\ g[k] # Err
    BY <1>3, <1>4 DEF Settled
  <2>2. DecodeDataMap(Obj(f)) = Obj(g) /\ DecodeDataMap(Typed(SessionMap, Obj(f))) = Obj(g)
    BY <1>4, <2>1, DecodeMap
  <2> QED
    BY <2>2 DEF LoginJson
<1>6. ASSUME Legible(ts) PROVE Means(s, cs, rs, a, ts)
  <2>1. InfosOK(ts)
    BY <1>1, <1>6
  <2>2. Terms(ts, b) # Err /\ InfosOf(ItemsOf(Terms(ts, b))) = ts
    BY <1>1, <2>1, TermsFacts, InfosRead
  <2>3. s = [loginId |-> Any(j.loginId), data |-> g, terms |-> ts,
             count |-> IF j.count < Len(ts) THEN Len(ts) ELSE j.count]
    BY <1>2, <1>5, <2>1, <2>2, UnmarshalParts
  <2>4. PICK m \in Nat : Len(ts) =< m /\ s =
          [loginId |-> Any(j.loginId), data |-> g, terms |-> ts, count |-> m]
    BY <1>1, <2>3 DEF LoginJson
  <2> HIDE DEF s
  <2>5. /\ s = [loginId |-> s.loginId, data |-> s.data, terms |-> s.terms, count |-> s.count]
        /\ s.data = g /\ s.terms = ts /\ s.count = m /\ s.loginId = Any(j.loginId)
    BY <2>4
  <2>6. "class" \notin DOMAIN g /\ \A k \in DOMAIN g : Value(g[k])
    BY <1>3, <1>4 DEF Settled
  <2>7. Any(s.loginId) = s.loginId
    BY <2>5, LoginIdOnce DEF LoginJson
  <2>8. SessionOK(s)
    BY <1>4, <2>1, <2>4, <2>5, <2>6, <2>7 DEF SessionOK
  <2>9. Holds(s, "permissions", cs) /\ Holds(s, "roles", rs)
    BY <1>4, <2>5 DEF Holds, LoginCodes
  <2>10. HoldsAttr(s, a)
    BY <1>4, <2>5, AttrDecoded DEF HoldsAttr, LoginAttr
  <2> QED
    BY <1>4, <2>5, <2>8, <2>9, <2>10 DEF Means
<1>7. ASSUME ~Legible(ts) PROVE s = Err
  <2> DEFINE e == Terms(ts, b).arr
  <2>1. /\ ItemsOf(Terms(ts, b)) = e /\ DOMAIN e = {1}
        /\ e[1] = [term |-> ts[1].term, class |-> b, extra |-> ts[1].extra]
    BY <1>1, TermsFacts
  <2>2. e[1].extra = ts[1].extra /\ DOMAIN e[1] = {"term", "class", "extra"}
    BY <2>1
  <2>3. Is("arr", ts[1].extra)
    BY <1>1, <1>7 DEF Legible
  <2>4. ts[1].extra = extra
    BY <1>1 DEF Terminal
  <2>5. DOMAIN extra = {"arr"}
    BY <2>3, <2>4, ExtrasAssumption, Kinds DEF Is
  <2>6. e[1] # Null /\ extra # Null /\ ~Is("obj", extra)
    BY <2>2, <2>5, Kinds DEF Is
  <2>7. TerminalInfo(e[1]) = Err
    BY <2>2, <2>4, <2>6 DEF TerminalInfo
  <2> HIDE DEF e
  <2>8. 1 \in DOMAIN InfosOf(e) /\ InfosOf(e)[1] = Err
    BY <2>1, <2>7 DEF InfosOf
  <2> QED
    BY <1>2, <2>1, <2>8, UnmarshalRefuses
<1> QED
  BY <1>6, <1>7 DEF ts

-----------------------------------------------------------------------------
(* The steps *)

LEMMA InitStep == Init => IInv
BY DEF Init, IInv

\* Both forms of a dataMap have the same members.
LEMMA FormsRead ==
  ASSUME NEW f, "class" \notin DOMAIN f, NEW m \in DataMapForms(f)
  PROVE  /\ ClassedMap(m) /\ Members(MapOf(m)) = DOMAIN f
         /\ \A k \in DOMAIN f : MapOf(m)[k] = f[k]
         /\ m \in {Obj(MapOf(m)), Typed(SessionMap, Obj(MapOf(m)))}
<1> DEFINE g == [k \in DOMAIN f \cup {"class"} |-> IF k = "class" THEN Str(SessionMap) ELSE f[k]]
<1>1. CASE m = Typed(SessionMap, Obj(f))
  <2>1. ClassedMap(m) /\ MapOf(m) = f
    BY <1>1, TypedMap
  <2> QED
    BY <1>1, <2>1 DEF Members
<1>2. CASE m = Obj(g)
  <2>1. /\ DOMAIN g = DOMAIN f \cup {"class"} /\ g["class"] = Str(SessionMap)
        /\ \A k \in DOMAIN f : g[k] = f[k]
    OBVIOUS
  <2>2. DOMAIN m = {"obj"} /\ m.obj = g
    BY <1>2, Kinds
  <2>3. SessionMap \in MapClasses
    BY DEF SessionMap, MapClasses
  <2> HIDE DEF g
  <2>4. ClassedMap(m) /\ MapOf(m) = g
    BY <2>1, <2>2, <2>3 DEF ClassedMap, MapOf, Is
  <2> QED
    BY <1>2, <2>1, <2>4 DEF Members
<1> QED
  BY <1>1, <1>2 DEF DataMapForms

LEMMA JavaStep ==
  ASSUME NEW id \in LoginIds, NEW cs \in CodeLists, NEW rs \in RoleLists,
         NEW a \in Attrs, NEW t \in TokenValues, NEW extra \in Extras,
         JavaWrites(id, cs, rs, a, t, extra)
  PROVE  IInv'
<1> DEFINE n == "java.util.ImmutableCollections$List12"
           h == [permissions |-> Typed(n, Arr(Texts(cs))),
                 roles |-> Typed(n, Arr(Texts(rs))), attr |-> a]
           ts == <<Terminal(t, extra)>>
           tl == Typed("java.util.Vector", Terms(ts, TRUE))
<1>1. PICK m \in DataMapForms(h) :
        stored' = [loginId |-> id, dataMap |-> m, terminalList |-> tl, count |-> 1]
  BY DEF JavaWrites, Wrote
<1>2. codes' = cs /\ roles' = rs /\ attr' = a /\ terms' = ts /\ typed' = TRUE
  BY DEF JavaWrites, Wrote
<1>3. CodesOK(cs) /\ CodesOK(rs) /\ IsList(ts) /\ ts # <<>>
  BY CodesAreText, LoginTerms
<1>4. /\ h["permissions"] = Typed(n, Arr(Texts(cs))) /\ h["roles"] = Typed(n, Arr(Texts(rs)))
      /\ h["attr"] = a /\ DOMAIN h = Keys /\ "class" \notin DOMAIN h
  BY DEF Keys
<1>5. /\ DecodeDataValue(Typed(n, Arr(Texts(cs)))) = Strs(cs)
      /\ DecodeDataValue(Typed(n, Arr(Texts(rs)))) = Strs(rs)
  BY <1>3, ListsRead DEF CodesOK
<1>6. /\ JavaValue(Typed(n, Arr(Texts(cs)))) = Arr(Texts(cs))
      /\ JavaValue(Typed(n, Arr(Texts(rs)))) = Arr(Texts(rs))
  BY <1>3, JavaReadsCodes DEF ListClasses
<1> HIDE DEF h
<1> DEFINE f == MapOf(m)
<1>7. /\ ClassedMap(m) /\ Members(f) = Keys /\ m \in {Obj(f), Typed(SessionMap, Obj(f))}
      /\ \A k \in Keys : f[k] = h[k]
  BY <1>4, FormsRead
<1>8. /\ stored'.dataMap = m /\ stored'.terminalList = tl
      /\ stored'.count = 1 /\ stored'.loginId = id /\ stored' # Absent
  BY <1>1, Kinds
<1>9. DecodeCollection(tl) = Terms(ts, TRUE)
  BY <1>3, DecodeTerms DEF Typed
<1> HIDE DEF f, tl, ts
<1>10. LoginJson(stored', f, ts)
  BY <1>7, <1>8, <1>9 DEF LoginJson
<1>11. LoginCodes(f, "permissions", cs) /\ LoginCodes(f, "roles", rs) /\ LoginAttr(f, a)
  BY <1>4, <1>5, <1>7 DEF LoginCodes, LoginAttr, Keys
<1>12. IF Legible(ts) THEN Means(Unmarshal(stored'), cs, rs, a, ts) ELSE Unmarshal(stored') = Err
  BY <1>7, <1>10, <1>11, LoginMeans DEF ts
<1>13. JavaMeans(stored', cs, rs, a, ts)
  BY <1>3, <1>4, <1>6, <1>7, <1>8 DEF JavaMeans, Reads, ReadsAttr, Keys, f, tl
<1> QED
  BY <1>2, <1>8, <1>12, <1>13 DEF IInv

LEMMA OldGoStep ==
  ASSUME NEW id \in LoginIds, NEW cs \in CodeLists, NEW rs \in RoleLists,
         NEW a \in {NoAttr, NilItems}, NEW t \in TokenValues, OldGoWrites(id, cs, rs, a, t)
  PROVE  IInv'
<1> DEFINE List(l) == Obj([class |-> Str(ListClass), items |-> Arr(Texts(l))])
           f == [class |-> Str("java.util.LinkedHashMap"),
                 permissions |-> List(cs), roles |-> List(rs), attr |-> a]
           ts == <<Terminal(t, Null)>>
           tl == Obj([class |-> Str("java.util.Vector"), items |-> Terms(ts, TRUE)])
<1>1. /\ stored' = [loginId |-> id, dataMap |-> Obj(f), terminalList |-> tl, count |-> 0]
      /\ codes' = cs /\ roles' = rs /\ attr' = a /\ terms' = ts /\ typed' = FALSE
  BY DEF OldGoWrites, Wrote
<1>2. IsList(cs) /\ IsList(rs) /\ IsList(ts)
  BY CodesAreText, LoginTerms DEF CodesOK
<1>3. /\ f["permissions"] = List(cs) /\ f["roles"] = List(rs) /\ f["attr"] = a
      /\ Members(f) = Keys
  BY DEF Keys, Members
<1>4. /\ DecodeDataValue(List(cs)) = Arr(Texts(cs))
      /\ DecodeDataValue(List(rs)) = Arr(Texts(rs))
  BY <1>2, ListsRead
<1>5. DecodeCollection(tl) = Terms(ts, TRUE)
  BY <1>2, DecodeTerms
<1> HIDE DEF f, tl, ts, List
<1>6. /\ stored'.dataMap = Obj(f) /\ stored'.terminalList = tl
      /\ stored'.count = 0 /\ stored'.loginId = id /\ stored' # Absent
  BY <1>1, Kinds
<1>7. LoginJson(stored', f, ts)
  BY <1>5, <1>6 DEF LoginJson
<1>8. LoginCodes(f, "permissions", cs) /\ LoginCodes(f, "roles", rs) /\ LoginAttr(f, a)
  BY <1>3, <1>4 DEF LoginCodes, LoginAttr, Keys
<1>9. IF Legible(ts) THEN Means(Unmarshal(stored'), cs, rs, a, ts) ELSE Unmarshal(stored') = Err
  BY <1>3, <1>7, <1>8, LoginMeans DEF ts
<1> QED
  BY <1>1, <1>6, <1>9 DEF IInv

LEMMA BareStep ==
  ASSUME NEW id \in LoginIds, NEW cs \in CodeLists, NEW rs \in RoleLists,
         NEW t \in TokenValues, BareWrites(id, cs, rs, t)
  PROVE  IInv'
<1> DEFINE f == [permissions |-> Arr(Texts(cs)), roles |-> Arr(Texts(rs))]
           ts == <<Terminal(t, Null)>>
           tl == Terms(ts, FALSE)
<1>1. /\ stored' = [loginId |-> id, dataMap |-> Obj(f), terminalList |-> tl, count |-> 0]
      /\ codes' = cs /\ roles' = rs /\ attr' = NoAttr /\ terms' = ts /\ typed' = FALSE
  BY DEF BareWrites, Wrote
<1>2. IsList(cs) /\ IsList(rs) /\ IsList(ts)
  BY CodesAreText, LoginTerms DEF CodesOK
<1>3. /\ f["permissions"] = Arr(Texts(cs)) /\ f["roles"] = Arr(Texts(rs))
      /\ Members(f) = {"permissions", "roles"}
  BY DEF Members
<1>4. DecodeDataValue(Arr(Texts(cs))) = Strs(cs) /\ DecodeDataValue(Arr(Texts(rs))) = Strs(rs)
  BY <1>2, ListsRead
<1>5. DecodeCollection(tl) = Terms(ts, FALSE)
  BY <1>2, DecodeTerms
<1> HIDE DEF f, tl, ts
<1>6. /\ stored'.dataMap = Obj(f) /\ stored'.terminalList = tl
      /\ stored'.count = 0 /\ stored'.loginId = id /\ stored' # Absent
  BY <1>1, Kinds
<1>7. LoginJson(stored', f, ts)
  BY <1>5, <1>6 DEF LoginJson
<1>8. /\ LoginCodes(f, "permissions", cs) /\ LoginCodes(f, "roles", rs) /\ LoginAttr(f, NoAttr)
      /\ Members(f) \subseteq Keys
  BY <1>3, <1>4 DEF LoginCodes, LoginAttr, Keys
<1>9. IF Legible(ts) THEN Means(Unmarshal(stored'), cs, rs, NoAttr, ts)
                     ELSE Unmarshal(stored') = Err
  BY <1>7, <1>8, LoginMeans DEF ts
<1> QED
  BY <1>1, <1>6, <1>9 DEF IInv

LEMMA LoginStep ==
  ASSUME IInv, NEW id \in LoginIds, NEW t \in TokenValues, Is("str", id), GoLogin(id, t)
  PROVE  IInv'
<1> DEFINE s == IF stored = Absent THEN NewSession ELSE Unmarshal(stored)
           e == Terminal(t, Null)
           l == Append(s.terms, e)
           n == s.count + 1
           r == [loginId |-> id, data |-> s.data, terms |-> l, count |-> n]
<1>1. /\ s # Err /\ Save([s EXCEPT !.loginId = id, !.terms = Append(@, e), !.count = s.count + 1])
      /\ terms' = Append(terms, e) /\ UNCHANGED <<codes, roles, attr>>
  BY DEF GoLogin
<1>2. Means(s, codes, roles, attr, terms)
  <2>1. Means(NewSession, <<>>, <<>>, NoAttr, <<>>)
    <3>1. Any(Null) = Null
      BY Kinds, AnyKeeps
    <3> QED
      BY <3>1 DEF Means, SessionOK, NewSession, Holds, HoldsAttr, IsFunction, IsList, InfosOK
  <2>2. CASE stored = Absent
    BY <2>1, <2>2 DEF IInv
  <2>3. CASE stored # Absent
    BY <1>1, <2>3, ReadableMeans DEF Readable, Loaded
  <2> QED
    BY <2>2, <2>3
<1>3. SameKey(id) /\ Any(id) = id
  <2>1. DOMAIN id = {"str"}
    BY LoginIdsAssumption DEF Is
  <2> QED
    BY <2>1 DEF SameKey, Any, Is
<1>4. s = [loginId |-> s.loginId, data |-> s.data, terms |-> s.terms, count |-> s.count]
  BY <1>2 DEF Means, SessionOK
<1>5. InfoOK(e)
  BY DEF InfoOK, Terminal
<1>6. SessionOK(s) /\ s.terms = terms /\ InfosOK(s.terms) /\ IsList(s.terms) /\ Len(s.terms) \in Nat
  BY <1>2, ListFacts DEF Means, SessionOK, InfosOK
<1> HIDE DEF s, e
<1>7. InfosOK(l) /\ Len(l) = Len(s.terms) + 1
  <2>1. IsFunction(l) /\ DOMAIN l = 1..(Len(s.terms) + 1)
    <3>1. l \in Seq({s.terms[i] : i \in DOMAIN s.terms} \cup {e}) /\ Len(l) = Len(s.terms) + 1
      BY <1>6 DEF IsList
    <3> HIDE DEF l
    <3> QED
      BY <1>6, <3>1 DEF IsFunction
  <2>2. \A i \in DOMAIN l : l[i] = IF i = Len(s.terms) + 1 THEN e ELSE s.terms[i]
    BY <1>6 DEF IsList
  <2>3. \A i \in DOMAIN l : i # Len(s.terms) + 1 => i \in DOMAIN s.terms
    BY <1>6, <2>1, ListFacts
  <2> HIDE DEF l
  <2>4. IsList(l) /\ Len(l) = Len(s.terms) + 1
    BY <1>6, <2>1, ListMade
  <2> QED
    BY <1>5, <1>6, <2>2, <2>3, <2>4 DEF InfosOK
<1>8. Save([s EXCEPT !.loginId = id, !.terms = l, !.count = n])
  BY <1>1
<1> HIDE DEF l, n
<1>9. [s EXCEPT !.loginId = id, !.terms = l, !.count = n] = r
  <2> DEFINE R == {"loginId", "data", "terms", "count"}
  <2>1. DOMAIN s = R
    BY <1>4
  <2>2. [s EXCEPT !.loginId = id, !.terms = l, !.count = n] =
          [k \in R |-> IF k = "loginId" THEN id ELSE IF k = "terms" THEN l
                       ELSE IF k = "count" THEN n ELSE s.data]
    BY <2>1
  <2>3. r = [k \in R |-> IF k = "loginId" THEN id ELSE IF k = "terms" THEN l
                       ELSE IF k = "count" THEN n ELSE s.data]
    OBVIOUS
  <2> QED
    BY <2>2, <2>3
<1>10. r.loginId = id /\ r.data = s.data /\ r.terms = l /\ r.count = n
  OBVIOUS
<1>11. stored' = Marshal(r) /\ typed' = TRUE
  BY <1>3, <1>8, <1>9, <1>10 DEF Save
<1>12. r = [loginId |-> r.loginId, data |-> r.data, terms |-> r.terms, count |-> r.count]
  OBVIOUS
<1> HIDE DEF r
<1>13. SessionOK(r)
  <2>1. s.count \in Nat /\ Len(s.terms) =< s.count
    BY <1>6 DEF SessionOK
  <2>2. r.count \in Nat /\ Len(r.terms) =< r.count
    BY <1>6, <1>7, <1>10, <2>1 DEF n
  <2> QED
    BY <1>3, <1>6, <1>7, <1>10, <1>12, <2>2 DEF SessionOK
<1>14. Means(r, codes, roles, attr, Append(terms, e))
  BY <1>2, <1>6, <1>10, <1>13 DEF Means, Holds, HoldsAttr, l
<1> QED
  BY <1>1, <1>11, <1>14, SaveStep DEF IInv

\* A write back, under the same key or lost.
LEMMA WriteBack ==
  ASSUME IInv, NEW s, Save(s), codes' \in CodeLists \cup {<<>>}, roles' \in RoleLists \cup {<<>>},
         attr' \in Attrs \cup {NoAttr, NilItems},
         SameKey(s.loginId) => Means(s, codes', roles', attr', terms'),
         ~SameKey(s.loginId) => UNCHANGED meant
  PROVE  IInv'
<1>1. CASE SameKey(s.loginId)
  BY <1>1, SaveStep DEF Save
<1>2. CASE ~SameKey(s.loginId)
  BY <1>2 DEF Save, IInv, meant
<1> QED
  BY <1>1, <1>2

LEMMA RenewStep == IInv /\ GoRenew => IInv'
<1> SUFFICES ASSUME IInv, GoRenew PROVE IInv'
  OBVIOUS
<1>1. Means(Loaded, codes, roles, attr, terms) /\ Save(Loaded) /\ UNCHANGED meant
  BY ReadableMeans DEF GoRenew
<1> QED
  BY <1>1, WriteBack DEF IInv, meant

LEMMA LogoutStep ==
  ASSUME IInv, NEW t \in TokenValues, GoLogout(t) PROVE IInv'
<1> DEFINE s == Loaded
           rest == RemoveTerminal(s.terms, t)
           r == [loginId |-> s.loginId, data |-> s.data, terms |-> rest, count |-> s.count]
<1>1. Means(s, codes, roles, attr, terms)
  BY ReadableMeans DEF GoLogout
<1>2. CASE rest = <<>>
  BY <1>2 DEF GoLogout, IInv
<1>3. CASE rest # <<>>
  <2>1. /\ Save([s EXCEPT !.terms = rest])
        /\ terms' = IF SameKey(s.loginId) THEN RemoveTerminal(terms, t) ELSE terms
        /\ UNCHANGED <<codes, roles, attr>>
    BY <1>3 DEF GoLogout
  <2>2. s = [loginId |-> s.loginId, data |-> s.data, terms |-> s.terms, count |-> s.count]
    BY <1>1 DEF Means, SessionOK
  <2>3. /\ InfosOK(s.terms) /\ IsList(s.terms) /\ Len(s.terms) \in Nat /\ s.count \in Nat
        /\ Len(s.terms) =< s.count
    BY <1>1, ListFacts DEF Means, SessionOK, InfosOK
  <2>4. InfosOK(rest) /\ Len(rest) =< s.count
    <3> DEFINE I == {i \in DOMAIN s.terms : s.terms[i].term # t}
    <3>1. I \in SUBSET DOMAIN s.terms /\ rest = Picked(s.terms, I)
      BY DEF RemoveTerminal
    <3> HIDE DEF I, rest, s
    <3>2. /\ IsList(rest) /\ Len(rest) =< Len(s.terms)
          /\ \A k \in DOMAIN rest : \E i \in I : rest[k] = s.terms[i]
      BY <2>3, <3>1, PickedFacts
    <3>3. Len(rest) \in Nat
      BY <3>2, ListFacts
    <3>4. InfosOK(rest)
      BY <2>3, <3>1, <3>2 DEF InfosOK
    <3> QED
      BY <2>3, <3>2, <3>3, <3>4
  <2> HIDE DEF s, rest
  <2>5. [s EXCEPT !.terms = rest] = r
    BY <2>2
  <2>6. /\ r = [loginId |-> r.loginId, data |-> r.data, terms |-> r.terms, count |-> r.count]
        /\ r.loginId = s.loginId /\ r.data = s.data /\ r.terms = rest /\ r.count = s.count
    OBVIOUS
  <2> HIDE DEF r
  <2>7. SessionOK(r)
    BY <1>1, <2>3, <2>4, <2>6 DEF Means, SessionOK
  <2>8. Means(r, codes, roles, attr, RemoveTerminal(terms, t))
    BY <1>1, <2>6, <2>7 DEF Means, Holds, HoldsAttr, rest
  <2>9. Save(r)
    BY <2>1, <2>5
  <2> QED
    BY <2>1, <2>6, <2>8, <2>9, WriteBack DEF IInv, meant
<1> QED
  BY <1>2, <1>3

\* r is s but for one value of the dataMap.
Sets(r, s, key, v) ==
  /\ SessionOK(r) /\ r.terms = s.terms /\ r.loginId = s.loginId
  /\ DOMAIN r.data = DOMAIN s.data \cup {key}
  /\ \A k \in DOMAIN s.data \cup {key} : r.data[k] = IF k = key THEN v ELSE s.data[k]

LEMMA SetDataOK ==
  ASSUME NEW s, SessionOK(s), NEW key, key # "class", NEW v, Value(v)
  PROVE  Sets(SetData(s, key, v), s, key, v)
<1> DEFINE g == [k \in DOMAIN s.data \cup {key} |-> IF k = key THEN v ELSE s.data[k]]
           r == SetData(s, key, v)
<1>1. r = [loginId |-> s.loginId, data |-> g, terms |-> s.terms, count |-> s.count]
  <2>1. s = [loginId |-> s.loginId, data |-> s.data, terms |-> s.terms, count |-> s.count]
    BY DEF SessionOK
  <2>2. r = [s EXCEPT !.data = g]
    BY DEF SetData
  <2> HIDE DEF g, r
  <2> QED
    BY <2>1, <2>2
<1>2. /\ IsFunction(g) /\ DOMAIN g = DOMAIN s.data \cup {key}
      /\ \A k \in DOMAIN s.data \cup {key} : g[k] = IF k = key THEN v ELSE s.data[k]
  BY DEF IsFunction
<1> HIDE DEF g, r
<1>3. /\ r = [loginId |-> r.loginId, data |-> r.data, terms |-> r.terms, count |-> r.count]
      /\ r.loginId = s.loginId /\ r.data = g /\ r.terms = s.terms /\ r.count = s.count
  BY <1>1
<1>4. SessionOK(r)
  BY <1>2, <1>3 DEF SessionOK
<1> QED
  BY <1>2, <1>3, <1>4 DEF r, Sets

LEMMA SavesStep ==
  ASSUME IInv, NEW cs \in CodeLists, NEW rs \in RoleLists, GoSaves(cs, rs) PROVE IInv'
<1> DEFINE s == Loaded
           q == SetData(s, "permissions", Strs(cs))
           r == SetData(q, "roles", Strs(rs))
<1>1. Means(s, codes, roles, attr, terms)
  BY ReadableMeans DEF GoSaves
<1>2. Value(Strs(cs)) /\ Value(Strs(rs))
  BY TextsValue, CodesAreText DEF CodesOK
<1>3. SessionOK(s) /\ s.terms = terms
  BY <1>1 DEF Means
<1>4. Sets(q, s, "permissions", Strs(cs))
  <2> HIDE DEF s
  <2> QED
    BY <1>2, <1>3, SetDataOK
<1>5. SessionOK(q)
  BY <1>4 DEF Sets
<1>6. Sets(r, q, "roles", Strs(rs))
  <2> HIDE DEF s, q
  <2> QED
    BY <1>2, <1>5, SetDataOK
<1>7. /\ Save(r) /\ UNCHANGED <<attr, terms>>
      /\ IF SameKey(s.loginId) THEN codes' = cs /\ roles' = rs ELSE UNCHANGED <<codes, roles>>
  BY DEF GoSaves
<1> HIDE DEF s, q, r
<1>8. Means(r, cs, rs, attr, terms)
  <2>1. HoldsAttr(r, attr)
    BY <1>1, <1>4, <1>6 DEF Means, HoldsAttr, Sets
  <2>2. Holds(r, "permissions", cs) /\ Holds(r, "roles", rs)
    BY <1>4, <1>6 DEF Holds, Sets
  <2> QED
    BY <1>1, <1>3, <1>4, <1>6, <2>1, <2>2 DEF Means, Sets, Keys
<1>9. r.loginId = s.loginId
  BY <1>4, <1>6 DEF Sets
<1> QED
  BY <1>7, <1>8, <1>9, WriteBack DEF IInv, meant

\* The invariant of the session in the store, for every list of codes, every
\* other value that Java writes, and any functions for the values inside them.
THEOREM SharingInvariant == Spec => []IInv
<1>1. ASSUME IInv, [Next]_vars PROVE IInv'
  <2>1. CASE UNCHANGED vars
    BY <1>1, <2>1 DEF IInv, vars, meant
  <2>2. ASSUME NEW id \in LoginIds, NEW cs \in CodeLists, NEW rs \in RoleLists,
               NEW t \in TokenValues,
               \/ \E a \in Attrs, extra \in Extras : JavaWrites(id, cs, rs, a, t, extra)
               \/ \E a \in {NoAttr, NilItems} : OldGoWrites(id, cs, rs, a, t)
               \/ BareWrites(id, cs, rs, t)
        PROVE  IInv'
    BY <2>2, JavaStep, OldGoStep, BareStep
  <2>3. ASSUME NEW id \in LoginIds, NEW t \in TokenValues, Is("str", id), GoLogin(id, t)
        PROVE  IInv'
    BY <1>1, <2>3, LoginStep
  <2>4. CASE GoRenew
    BY <1>1, <2>4, RenewStep
  <2>5. ASSUME NEW t \in TokenValues, GoLogout(t) PROVE IInv'
    BY <1>1, <2>5, LogoutStep
  <2>6. ASSUME NEW cs \in CodeLists, NEW rs \in RoleLists, GoSaves(cs, rs) PROVE IInv'
    BY <1>1, <2>6, SavesStep
  <2> QED
    BY <1>1, <2>1, <2>2, <2>3, <2>4, <2>5, <2>6 DEF Next
<1> QED
  BY <1>1, InitStep, PTL DEF Spec

-----------------------------------------------------------------------------
(* Permissions *)

\* The actor that a handler behind Auth and a loader of permissions has.
Ready(actor) == actor # NIL /\ actor.checker = "ready" /\ actor.session # NIL

\* A user with the role "root" passes every check, groups without codes and
\* checks without a checker included (permission.go:52, 113).
THEOREM RootPasses ==
  ASSUME NEW actor, IsRoot(actor), NEW wanted, NEW groups, NEW code
  PROVE  /\ RequirePermission(actor, code)
         /\ RequireAllPermissions(actor, wanted)
         /\ RequireAnyPermission(actor, wanted)
         /\ RequirePermissionGroups(actor, groups)
BY DEF IsRoot, RequirePermission, RequireAllPermissions, RequireAnyPermission,
       RequirePermissionGroups

\* Nobody who is not logged in passes a check that asks for anything; a check
\* that asks for nothing lets even them pass (permission.go:120-170).
THEOREM NobodyPasses ==
  ASSUME NEW wanted, NEW groups
  PROVE  /\ RequireAllPermissions(NIL, wanted) <=> DOMAIN wanted = {}
         /\ RequirePermissionGroups(NIL, groups) <=> DOMAIN groups = {}
         /\ ~RequireAnyPermission(NIL, wanted)
BY DEF RequireAllPermissions, RequirePermission, RequireAnyPermission,
       RequirePermissionGroups

\* The groups mean: one code of every group is among the permissions of the
\* session, or the user is root.  A group that only names the empty code is
\* open to root alone.
THEOREM GroupsMeaning ==
  ASSUME NEW actor, Ready(actor), NEW groups
  PROVE  RequirePermissionGroups(actor, groups) <=>
           \/ Has(actor.session.roles, RootRoleID)
           \/ \A i \in DOMAIN groups : \E j \in DOMAIN groups[i] :
                /\ groups[i][j] # NoCode
                /\ Has(actor.session.permissions, groups[i][j])
<1>1. actor # NIL /\ actor.session # NIL /\ actor.checker = "ready"
  BY DEF Ready
<1>2. IsRoot(actor) <=> Has(actor.session.roles, RootRoleID)
  BY <1>1 DEF IsRoot, IsRootSession
<1>3. CASE IsRoot(actor)
  BY <1>2, <1>3, RootPasses
<1>4. CASE ~IsRoot(actor)
  <2>1. \A code : CheckPermission(actor.checker, actor.session, code) <=>
                    code # NoCode /\ Has(actor.session.permissions, code)
    BY <1>1, <1>4 DEF CheckPermission, Granted, IsRoot
  <2>2. \A wanted : RequireAnyPermission(actor, wanted) <=>
          wanted # <<>> /\ \E j \in DOMAIN wanted :
            wanted[j] # NoCode /\ Has(actor.session.permissions, wanted[j])
    BY <1>1, <1>4, <2>1 DEF RequireAnyPermission
  <2>3. DOMAIN <<>> = {}
    OBVIOUS
  <2>4. \A wanted : RequireAnyPermission(actor, wanted) <=>
          \E j \in DOMAIN wanted :
            wanted[j] # NoCode /\ Has(actor.session.permissions, wanted[j])
    BY <2>2, <2>3
  <2> QED BY <1>2, <1>4, <2>4 DEF RequirePermissionGroups
<1> QED BY <1>3, <1>4

\* More permissions and roles never take anything away: what is allowed stays
\* allowed for a session that holds all the codes of the first.
THEOREM GrantsAreMonotone ==
  ASSUME NEW actor, NEW other, Ready(actor), Ready(other), NEW groups,
         \A code : Has(actor.session.permissions, code) => Has(other.session.permissions, code),
         \A role : Has(actor.session.roles, role) => Has(other.session.roles, role),
         RequirePermissionGroups(actor, groups)
  PROVE  RequirePermissionGroups(other, groups)
<1>1. CASE Has(actor.session.roles, RootRoleID)
  BY <1>1, GroupsMeaning
<1>2. CASE \A i \in DOMAIN groups : \E j \in DOMAIN groups[i] :
             groups[i][j] # NoCode /\ Has(actor.session.permissions, groups[i][j])
  BY <1>2, GroupsMeaning
<1> QED BY <1>1, <1>2, GroupsMeaning

-----------------------------------------------------------------------------
(* What the writers may rely on *)

\* A session decodes unless the extraData of a terminal is no object; no rewrite
\* loses, repeats or changes a terminal, and the counter is never behind the list.
THEOREM SharingTerminals == Spec => []TerminalsSurvive
<1>1. ASSUME IInv PROVE TerminalsSurvive
  <2> DEFINE s == Unmarshal(stored)
             l == stored.terminalList
  <2> SUFFICES ASSUME stored # Absent
               PROVE  /\ s = Err <=> \E i \in DOMAIN terms : Is("arr", terms[i].extra)
                      /\ s # Err => s.terms = terms /\ s.count >= Len(s.terms)
                      /\ typed => IF terms = <<>> THEN l = Null
                                  ELSE l.arr[1].str = "java.util.Vector"
                                       /\ l.arr[2] = Terms(terms, TRUE)
    BY DEF TerminalsSurvive
  <2>1. IF Legible(terms) THEN Means(s, codes, roles, attr, terms) ELSE s = Err
    BY <1>1 DEF IInv
  <2>2. ASSUME Legible(terms) PROVE s # Err /\ s.terms = terms /\ s.count >= Len(s.terms)
    <3>1. SessionOK(s) /\ s.terms = terms
      BY <2>1, <2>2 DEF Means
    <3> HIDE DEF s
    <3>2. Len(s.terms) \in Nat
      BY <3>1, ListFacts DEF SessionOK, InfosOK
    <3>3. DOMAIN s = {"loginId", "data", "terms", "count"}
      BY <3>1 DEF SessionOK
    <3>4. s # Err
      BY <3>3, Kinds
    <3> QED
      BY <3>1, <3>2, <3>4 DEF SessionOK
  <2>3. ASSUME typed PROVE IF terms = <<>> THEN l = Null
                           ELSE l.arr[1].str = "java.util.Vector"
                                /\ l.arr[2] = Terms(terms, TRUE)
    <3>1. l = IF terms = <<>> THEN Null ELSE Typed("java.util.Vector", Terms(terms, TRUE))
      BY <1>1, <2>3 DEF IInv, JavaMeans
    <3>2. /\ Typed("java.util.Vector", Terms(terms, TRUE)).arr[1].str = "java.util.Vector"
          /\ Typed("java.util.Vector", Terms(terms, TRUE)).arr[2] = Terms(terms, TRUE)
      <4> DEFINE ts == Terms(terms, TRUE)
                 p == <<Str("java.util.Vector"), ts>>
      <4>1. p[1].str = "java.util.Vector" /\ p[2] = ts
        BY Kinds
      <4>2. Typed("java.util.Vector", ts).arr = p
        BY Kinds DEF Typed
      <4> HIDE DEF p
      <4> QED
        BY <4>1, <4>2
    <3> HIDE DEF l
    <3> QED
      BY <3>1, <3>2
  <2> HIDE DEF s, l
  <2>4. Legible(terms) <=> ~\E i \in DOMAIN terms : Is("arr", terms[i].extra)
    BY DEF Legible
  <2> QED
    BY <2>1, <2>2, <2>3, <2>4
<1> QED
  BY <1>1, SharingInvariant, PTL

\* After any number of rewrites Java reads the lists of codes that the last
\* login wrote, and the portable values it wrote itself with their numbers as
\* float64, lists nested to any depth included; a value that is not portable may
\* cost Java the whole session.
THEOREM SharingJava == Spec => []JavaReadsBack
<1>1. ASSUME IInv PROVE JavaReadsBack
  <2> DEFINE f == MapOf(stored.dataMap)
             g == [k \in Members(f) |-> JavaValue(f[k])]
             read == JavaDataMap(stored.dataMap)
             At(key) == IF key \in DOMAIN read.obj THEN read.obj[key] ELSE Null
  <2> SUFFICES ASSUME typed
      PROVE  /\ Portable(attr) =>
                  read # Bad /\ At("attr") \in {JavaValue(attr), JavaValue(AsDoubles(attr))}
             /\ read # Bad =>
                  /\ At("permissions") \in {Arr(Texts(codes))} \cup
                                           (IF codes = <<>> THEN {Null} ELSE {})
                  /\ At("roles") \in {Arr(Texts(roles))} \cup
                                     (IF roles = <<>> THEN {Null} ELSE {})
    BY DEF JavaReadsBack
  <2>1. /\ ClassedMap(stored.dataMap) /\ Members(f) \subseteq Keys
        /\ Reads(f, "permissions", codes) /\ Reads(f, "roles", roles) /\ ReadsAttr(f, attr)
    BY <1>1 DEF IInv, JavaMeans
  <2>2. read = Accepted(g, Obj(g))
    BY <2>1 DEF JavaDataMap
  <2>3. DOMAIN g = Members(f) /\ \A k \in Members(f) : g[k] = JavaValue(f[k])
    OBVIOUS
  <2>4. Obj(g).obj = g /\ Obj(g) # Bad
    BY Kinds
  <2> HIDE DEF f, g, read
  <2>5. read # Bad => read.obj = g
    BY <2>2, <2>4 DEF Accepted
  <2>6. ASSUME read # Bad
        PROVE  /\ At("permissions") \in {Arr(Texts(codes))} \cup
                                        (IF codes = <<>> THEN {Null} ELSE {})
               /\ At("roles") \in {Arr(Texts(roles))} \cup
                                  (IF roles = <<>> THEN {Null} ELSE {})
    BY <2>1, <2>3, <2>5, <2>6 DEF Reads
  <2>7. ASSUME Portable(attr)
        PROVE  read # Bad /\ At("attr") \in {JavaValue(attr), JavaValue(AsDoubles(attr))}
    <3>1. JavaValue(attr) # Bad /\ JavaValue(AsDoubles(attr)) # Bad
      <4>1. CASE attr \in Attrs
        BY <2>7, <4>1, JavaAttrsAssumption
      <4>2. CASE attr = NoAttr
        <5>1. JavaValue(Null) = Null /\ AsDoubles(Null) = Null /\ Null # Bad
          BY Kinds, JavaText DEF AsDoubles, Is
        <5> QED
          BY <4>2, <5>1 DEF NoAttr
      <4>3. CASE attr = NilItems
        <5>1. ~Portable(NilItems)
          BY Kinds DEF NilItems, Portable, Is
        <5> QED
          BY <2>7, <4>3, <5>1
      <4> QED
        BY <1>1, <4>1, <4>2, <4>3 DEF IInv
    <3>2. /\ CodesOK(codes) /\ CodesOK(roles) /\ ListClass \in ListClasses
          /\ \A l : CodesOK(l) => Arr(Texts(l)) # Bad
      BY <1>1, CodesAreText, JavaReadsCodes DEF IInv, ListClasses
    <3>3. ASSUME NEW k \in Members(f) PROVE g[k] # Bad
      <4>1. CASE k = "permissions"
        BY <2>1, <2>3, <3>2, <4>1 DEF Reads
      <4>2. CASE k = "roles"
        BY <2>1, <2>3, <3>2, <4>2 DEF Reads
      <4>3. CASE k = "attr"
        BY <2>1, <2>3, <2>7, <3>1, <4>3 DEF ReadsAttr
      <4> QED
        BY <2>1, <4>1, <4>2, <4>3 DEF Keys
    <3>4. read = Obj(g)
      BY <2>2, <2>3, <3>3 DEF Accepted
    <3>5. CASE "attr" \in Members(f)
      BY <2>1, <2>3, <2>4, <2>7, <3>4, <3>5 DEF ReadsAttr
    <3>6. CASE "attr" \notin Members(f)
      <4>1. attr = Null
        BY <2>1, <3>6 DEF ReadsAttr, NoAttr
      <4>2. JavaValue(Null) = Null
        BY Kinds, JavaText
      <4> QED
        BY <2>3, <2>4, <3>4, <3>6, <4>1, <4>2
    <3> QED
      BY <3>5, <3>6
  <2> QED
    BY <2>6, <2>7
<1> QED
  BY <1>1, SharingInvariant, PTL

LEMMA StringListHolds ==
  ASSUME NEW s, NEW key, NEW l, IsList(l), Holds(s, key, l)
  PROVE  StringList(s, key) = l
<1>1. CASE key \notin DOMAIN s.data
  BY <1>1 DEF StringList, Holds
<1>2. CASE key \in DOMAIN s.data
  <2> DEFINE v == s.data[key]
             x == Texts(l)
  <2>1. StringList(s, key) =
          IF Is("strs", v) THEN v.strs
          ELSE IF Is("arr", v)
            THEN LET strings == Picked(v.arr, {i \in DOMAIN v.arr : Is("str", v.arr[i])})
                 IN  [i \in DOMAIN strings |-> strings[i].str]
            ELSE <<>>
    BY <1>2 DEF StringList
  <2>2. CASE v = Strs(l)
    <3>1. Is("strs", Strs(l)) /\ Strs(l).strs = l
      BY Kinds DEF Is
    <3> QED
      BY <2>1, <2>2, <3>1
  <2>3. CASE v = Arr(x)
    <3>1. ~Is("strs", Arr(x)) /\ Is("arr", Arr(x)) /\ Arr(x).arr = x
      BY Kinds DEF Is
    <3>2. /\ IsList(x) /\ [i \in DOMAIN x |-> x[i].str] = l
          /\ {i \in DOMAIN x : Is("str", x[i])} = DOMAIN x
      BY TextsFacts, TextsValue, <3>1 DEF ListJson, AllText
    <3> HIDE DEF x
    <3>3. Picked(x, DOMAIN x) = x
      BY <3>2, PickedFacts
    <3> HIDE DEF v
    <3> QED
      BY <2>1, <2>3, <3>1, <3>2, <3>3
  <2> QED
    BY <1>2, <2>2, <2>3 DEF Holds
<1> QED
  BY <1>1, <1>2

\* Of a session that decodes, whoever wrote it last and however often Go rewrote
\* it, a handler allows what the roles and codes of the last login allow.
THEOREM SharingDecisions == Spec => []DecisionsFollowSnapshot
<1>1. ASSUME IInv PROVE DecisionsFollowSnapshot
  <2> DEFINE c == InContext
             actor == [session |-> c, checker |-> "ready"]
  <2> SUFFICES ASSUME Readable
      PROVE  /\ \A groups \in Samples :
                  RequirePermissionGroups(actor, groups) <=> Allowed(groups)
             /\ \A rs \in RoleLists : \A i \in DOMAIN rs :
                  CheckRole(c, rs[i]) <=> rs[i] # NoCode /\ Has(roles, rs[i])
    BY DEF DecisionsFollowSnapshot
  <2>1. /\ codes \in CodeLists \cup {<<>>} /\ roles \in RoleLists \cup {<<>>}
        /\ Holds(Unmarshal(stored), "permissions", codes)
        /\ Holds(Unmarshal(stored), "roles", roles)
    BY <1>1, ReadableMeans DEF IInv, Means, Loaded
  <2>2. IsList(codes) /\ IsList(roles)
    BY <2>1, CodesAreText DEF CodesOK
  <2>3. c = [permissions |-> codes, roles |-> roles]
    BY <2>1, <2>2, StringListHolds DEF InContext, Readable
  <2>4. c # NIL /\ actor # NIL
    BY <2>1, <2>3, NilAssumption
  <2>5. c.permissions = codes /\ c.roles = roles
    BY <2>3
  <2>6. Ready(actor) /\ actor.session = c
    BY <2>4 DEF Ready
  <2> HIDE DEF actor, c
  <2>7. \A groups : RequirePermissionGroups(actor, groups) <=> Allowed(groups)
    BY <2>5, <2>6, GroupsMeaning DEF Allowed
  <2>8. \A role : CheckRole(c, role) <=> role # NoCode /\ Has(roles, role)
    BY <2>4, <2>5 DEF CheckRole
  <2> QED
    BY <2>7, <2>8
<1> QED
  BY <1>1, SharingInvariant, PTL
=============================================================================
