---- MODULE RoundTripProofs ----
(***************************************************************************)
(* What from_json accepts of toBlock's text is what becomes of the object  *)
(* on the way, for every registration, every object and every bound.       *)
(*                                                                         *)
(* The writer appends to a text the reader has not begun; then it is       *)
(* constant.  So the text is that of a run of the writer's moves, one      *)
(* stack of activations after another (IsRun), and the invariant RInv is   *)
(* about the states of that run: what is written is a run (RunAt), and     *)
(* what is read matches the state of the run that wrote this much of it    *)
(* (ReaderAt).  In a Match every node of the reader's stack stands beside  *)
(* the activation that wrote its bracket, and holds of it what has         *)
(* Travelled.  The handler of the next token keeps the match, or the       *)
(* parse ends.                                                             *)
(***************************************************************************)
EXTENDS RoundTrip, SaxParserProofs

-----------------------------------------------------------------------------
\* What the registrations say.
LEMMA Apart ==
  /\ Class \cap List = {} /\ Class \cap Map = {} /\ List \cap Map = {}
  /\ Class \cup List \cup Map \subseteq TypeId
  /\ \A t \in TypeId : t \in Class \cup List \cup Map \/ Kind[t] \in {"int", "bool", "string", "var", "enum", "port", "none"}
  BY SchemaAssumption DEF Class, List, Map, Kinds

LEMMA OneKind ==
  ASSUME NEW t
  PROVE  /\ t \in Map => t \notin List /\ t \notin Class
         /\ t \in List => t \notin Map /\ t \notin Class
         /\ t \in Class => t \notin Map /\ t \notin List
  BY DEF Class, List, Map

\* What the contents are.
LEMMA NotNull == \A t \in TypeId : NullPtr \notin Content[t]
  BY ContentAssumption

LEMMA ObjectContent ==
  ASSUME NEW c \in Class, NEW v \in Content[c]
  PROVE  /\ DOMAIN v = DOMAIN Meta[c] /\ v["type"] = Fresh[c]["type"]
         /\ \A k \in DOMAIN Meta[c] : v[k] \in Content[Meta[c][k]]
         /\ v # NullPtr
  <1>1. /\ v = [k \in DOMAIN Meta[c] |-> v[k]]
        /\ \A k \in DOMAIN Meta[c] : v[k] \in Content[Meta[c][k]]
        /\ v["type"] = Fresh[c]["type"]
    BY ContentAssumption
  <1>2. v # NullPtr
    BY NotNull, Apart
  <1>3. DOMAIN v = DOMAIN Meta[c]
    BY <1>1
  <1> QED BY <1>1, <1>2, <1>3

LEMMA ListContent ==
  ASSUME NEW t \in List, NEW v \in Content[t]
  PROVE  /\ Len(v) \in Nat /\ IsSeq(v, Len(v)) /\ v # NullPtr
         /\ \A i \in 1..Len(v) : v[i] \in Content[Elem[t].id] \/ (Elem[t].ptr /\ v[i] = NullPtr)
  <1> DEFINE C == Content[Elem[t].id] \cup (IF Elem[t].ptr THEN {NullPtr} ELSE {})
  <1>1. v \in Seq(C)
    BY ContentAssumption
  <1>2. \A x \in C : x \in Content[Elem[t].id] \/ (Elem[t].ptr /\ x = NullPtr)
    OBVIOUS
  <1>3. v # NullPtr
    BY NotNull, Apart
  <1> HIDE DEF C
  <1>4. \A i \in 1..Len(v) : v[i] \in C
    BY <1>1, ElementOfSeq
  <1>5. Len(v) \in Nat /\ IsSeq(v, Len(v))
    BY <1>1, SeqIsSeq, LenProperties
  <1> QED BY <1>2, <1>3, <1>4, <1>5

LEMMA MapContent ==
  ASSUME NEW t \in Map, NEW v \in Content[t]
  PROVE  /\ v = [k \in DOMAIN v |-> v[k]] /\ DOMAIN v \subseteq Key /\ v # NullPtr
         /\ \A k \in DOMAIN v : v[k] \in Content[Elem[t].id]
         /\ \A k \in DOMAIN v : (AsRead(k) \in Key \/ AsRead(k) = Refused) /\ AsRead(k) # NoKey
         /\ \A j, k \in DOMAIN v : AsRead(j) = AsRead(k) /\ AsRead(j) # Refused => j = k
  <1>1. v # NullPtr
    BY NotNull, Apart
  <1>2. /\ v = [k \in DOMAIN v |-> v[k]] /\ DOMAIN v \subseteq Key
        /\ \A k \in DOMAIN v : v[k] \in Content[Elem[t].id]
    BY ContentAssumption
  <1>3. /\ \A k \in DOMAIN v : (AsRead(k) \in Key \/ AsRead(k) = Refused) /\ AsRead(k) # NoKey
        /\ \A j, k \in DOMAIN v : AsRead(j) = AsRead(k) /\ AsRead(j) # Refused => j = k
    BY TextAssumption, SchemaAssumption
  <1> QED BY <1>1, <1>2, <1>3

LEMMA ScalarContent ==
  ASSUME NEW t \in TypeId, NEW v \in Content[t]
  PROVE  /\ v # NullPtr
         /\ Kind[t] = "int" => v \in Int
         /\ Kind[t] = "bool" => v \in BOOLEAN
         /\ Kind[t] = "port" /\ v \in DOMAIN PortUrl => \E n \in DOMAIN PortUrl : PortUrl[n] = v
         /\ Kind[t] = "var" => /\ v = [t |-> v.t, v |-> v.v]
                               /\ v.t \in {"none", "int", "double", "float", "string", "date"}
                               /\ v.t = "int" => v.v \in Int
  BY ContentAssumption

-----------------------------------------------------------------------------
\* What contents become i levels below the object.
Inside(i) == Travelled[MaxDepth - i]

Identity == [t \in TypeId |-> [v \in Content[t] |-> v]]
ByLevel(g, n) == [t \in TypeId |-> [v \in Content[t] |-> TravelledWith(IF n = 0 THEN Identity ELSE g[n - 1], t, v)]]

LEMMA TravelledExists ==
  \E g : g = [n \in 0..MaxDepth |-> ByLevel(g, n)]
  <1> DEFINE Upto(g, m) == \A n \in 0..m : g[n] = ByLevel(g, n)
             S == {m \in 0..MaxDepth : \E g : Upto(g, m)}
  <1>0. MaxDepth \in Nat
    BY BoundsAssumption
  <1>1. 0 \in S
    <2> DEFINE g == [n \in 0..0 |-> ByLevel(<<>>, 0)]
    <2>1. g[0] = ByLevel(<<>>, 0)
      OBVIOUS
    <2>2. ByLevel(<<>>, 0) = ByLevel(g, 0)
      BY DEF ByLevel
    <2> HIDE DEF g
    <2>3. Upto(g, 0)
      BY <2>1, <2>2
    <2> QED BY <1>0, <2>3
  <1>2. ASSUME NEW m \in 0..(MaxDepth - 1), m \in S
        PROVE  m + 1 \in S
    <2>1. PICK g : Upto(g, m)
      BY <1>2
    <2> DEFINE h == [n \in 0..(m + 1) |-> IF n = m + 1 THEN ByLevel(g, m + 1) ELSE g[n]]
    <2>2. m \in Nat /\ m + 1 \in 0..MaxDepth
      BY <1>0
    <2>3. /\ \A n \in 0..m : h[n] = g[n] /\ n \in 0..(m + 1) 
          /\ h[m + 1] = ByLevel(g, m + 1)
      BY <2>2
    <2> HIDE DEF h
    <2>4. ASSUME NEW n \in 0..(m + 1)
          PROVE  ByLevel(h, n) = ByLevel(g, n)
      <3>1. n # 0 => n - 1 \in 0..m
        BY <2>2
      <3>2. n # 0 => h[n - 1] = g[n - 1]
        BY <3>1, <2>3
      <3> QED BY <3>2 DEF ByLevel
    <2>5. \A n \in 0..(m + 1) : n \in 0..m \/ n = m + 1
      BY <2>2
    <2>6. Upto(h, m + 1)
      BY <2>1, <2>3, <2>4, <2>5
    <2> QED BY <2>2, <2>6
  <1> HIDE DEF S
  <1>3. MaxDepth \in S
    <2>1. 0..MaxDepth \subseteq S
      BY <1>0, <1>1, <1>2, UpTo
    <2> QED BY <1>0, <2>1
  <1>4. PICK g : Upto(g, MaxDepth)
    BY <1>3 DEF S
  <1> DEFINE h == [n \in 0..MaxDepth |-> g[n]]
  <1>5. \A n \in 0..MaxDepth : h[n] = g[n] /\ (n # 0 => n - 1 \in 0..MaxDepth)
    BY <1>0
  <1>6. h = [n \in 0..MaxDepth |-> h[n]]
    OBVIOUS
  <1> HIDE DEF h
  <1>7. \A n \in 0..MaxDepth : ByLevel(h, n) = ByLevel(g, n)
    BY <1>5 DEF ByLevel
  <1>8. \A n \in 0..MaxDepth : h[n] = ByLevel(h, n)
    BY <1>4, <1>5, <1>7
  <1>9. h = [n \in 0..MaxDepth |-> ByLevel(h, n)]
    BY <1>6, <1>8
  <1> QED BY <1>9

LEMMA TravelledIs ==
  Travelled = [n \in 0..MaxDepth |-> ByLevel(Travelled, n)]
  <1> DEFINE P(g) == g = [n \in 0..MaxDepth |-> ByLevel(g, n)]
  <1>1. \E g : P(g)
    BY TravelledExists
  <1>2. Travelled = CHOOSE g : P(g)
    BY DEF Travelled, ByLevel, Identity
  <1> QED BY <1>1, <1>2

LEMMA Becomes ==
  ASSUME NEW i \in 1..MaxDepth, NEW t \in TypeId, NEW v \in Content[t]
  PROVE  Inside(i - 1)[t][v] = TravelledWith(Inside(i), t, v)
  <1>1. MaxDepth \in Nat /\ MaxDepth - (i - 1) \in 0..MaxDepth /\ MaxDepth - (i - 1) # 0
        /\ (MaxDepth - (i - 1)) - 1 = MaxDepth - i
    BY BoundsAssumption
  <1>2. Travelled[MaxDepth - (i - 1)] = ByLevel(Travelled, MaxDepth - (i - 1))
    BY SMTT(30), <1>1, TravelledIs
  <1> QED BY <1>1, <1>2 DEF Inside, ByLevel

LEMMA ScalarBecomes ==
  ASSUME NEW i \in 0..MaxDepth, NEW t \in TypeId, NEW v \in Content[t], t \notin Class \cup List \cup Map
  PROVE  Inside(i)[t][v] = ScalarTravelled(t, v)
  <1>1. MaxDepth \in Nat /\ MaxDepth - i \in 0..MaxDepth
    BY BoundsAssumption
  <1>2. Travelled[MaxDepth - i] = ByLevel(Travelled, MaxDepth - i)
    BY <1>1, TravelledIs
  <1> QED BY Zenon, <1>2 DEF Inside, ByLevel, TravelledWith
-----------------------------------------------------------------------------
\* What is written of a list, element by element.
Step(t, s, f, u, i) == CASE i = 0 -> <<>>
                         [] i > 0 /\ Absent(t, s[i]) -> u[i - 1]
                         [] OTHER -> Append(u[i - 1], f[s[i]])

LEMMA WrittenExists ==
  ASSUME NEW t, NEW s, NEW f, Len(s) \in Nat
  PROVE  \E g : g = [i \in 0..Len(s) |-> Step(t, s, f, g, i)]
  <1> DEFINE N == Len(s)
             Upto(g, m) == \A i \in 0..m : g[i] = Step(t, s, f, g, i)
             S == {m \in 0..N : \E g : Upto(g, m)}
  <1>0. N \in Nat
    OBVIOUS
  <1> HIDE DEF N
  <1>1. 0 \in S
    <2> DEFINE g == [i \in 0..0 |-> <<>>]
    <2>1. g[0] = <<>>
      OBVIOUS
    <2> HIDE DEF g
    <2>2. Upto(g, 0)
      BY <2>1 DEF Step
    <2> QED BY <1>0, <2>2
  <1>2. ASSUME NEW m \in 0..(N - 1), m \in S
        PROVE  m + 1 \in S
    <2>1. PICK g : Upto(g, m)
      BY <1>2
    <2> DEFINE h == [i \in 0..(m + 1) |-> IF i = m + 1 THEN Step(t, s, f, g, m + 1) ELSE g[i]]
    <2>2. m \in Nat /\ m + 1 \in 0..N
      BY <1>0
    <2>3. /\ \A i \in 0..m : h[i] = g[i] /\ i \in 0..(m + 1)
          /\ h[m + 1] = Step(t, s, f, g, m + 1)
      BY <2>2
    <2> HIDE DEF h
    <2>4. ASSUME NEW i \in 0..(m + 1)
          PROVE  Step(t, s, f, h, i) = Step(t, s, f, g, i)
      <3>1. i # 0 => i - 1 \in 0..m
        BY <2>2
      <3>2. i # 0 => h[i - 1] = g[i - 1]
        BY <3>1, <2>3
      <3> QED BY <3>2 DEF Step
    <2>5. \A i \in 0..(m + 1) : i \in 0..m \/ i = m + 1
      BY <2>2
    <2>6. Upto(h, m + 1)
      BY <2>1, <2>3, <2>4, <2>5
    <2> QED BY <2>2, <2>6
  <1> HIDE DEF S
  <1>3. N \in S
    <2>1. 0..N \subseteq S
      BY <1>0, <1>1, <1>2, UpTo
    <2> QED BY <1>0, <2>1
  <1>4. PICK g : Upto(g, N)
    BY <1>3 DEF S
  <1> DEFINE h == [i \in 0..N |-> g[i]]
  <1>5. \A i \in 0..N : h[i] = g[i] /\ (i # 0 => i - 1 \in 0..N)
    BY <1>0
  <1>6. h = [i \in 0..N |-> h[i]]
    OBVIOUS
  <1> HIDE DEF h
  <1>7. \A i \in 0..N : Step(t, s, f, h, i) = Step(t, s, f, g, i)
    BY <1>5 DEF Step
  <1>8. \A i \in 0..N : h[i] = Step(t, s, f, h, i)
    BY <1>4, <1>5, <1>7
  <1>9. h = [i \in 0..N |-> Step(t, s, f, h, i)]
    BY <1>6, <1>8
  <1> QED BY <1>9 DEF N

LEMMA WrittenIs ==
  ASSUME NEW t, NEW s, NEW f, Len(s) \in Nat
  PROVE  /\ Written(t, s, f, 0) = <<>>
         /\ \A i \in 1..Len(s) : Written(t, s, f, i) = IF Absent(t, s[i]) THEN Written(t, s, f, i - 1)
                                                      ELSE Append(Written(t, s, f, i - 1), f[s[i]])
  <1> DEFINE P(g) == g = [i \in 0..Len(s) |-> Step(t, s, f, g, i)]
             u == CHOOSE g : P(g)
  <1>1. P(u)
    BY WrittenExists
  <1>2. \A n : Written(t, s, f, n) = u[n]
    BY DEF Written, Step
  <1> HIDE DEF u
  <1>3. \A i \in 0..Len(s) : u[i] = Step(t, s, f, u, i)
    BY <1>1
  <1>4. \A i \in 1..Len(s) : i \in 0..Len(s) /\ i > 0 /\ i # 0
    OBVIOUS
  <1>5. u[0] = <<>>
    <2>1. 0 \in 0..Len(s)
      OBVIOUS
    <2> QED BY <1>3, <2>1 DEF Step
  <1>6. \A i \in 1..Len(s) : u[i] = IF Absent(t, s[i]) THEN u[i - 1] ELSE Append(u[i - 1], f[s[i]])
    BY <1>3, <1>4 DEF Step
  <1> QED BY <1>2, <1>5, <1>6

More(u, x) == Append(u, x)

LEMMA WrittenNext ==
  ASSUME NEW t, NEW s, NEW f, NEW i \in 1..Len(s), NEW x, Len(s) \in Nat, x = s[i]
  PROVE  /\ Absent(t, x) => Written(t, s, f, i) = Written(t, s, f, i - 1)
         /\ ~Absent(t, x) => Written(t, s, f, i) = More(Written(t, s, f, i - 1), f[x])
  <1>1. \A j \in 1..Len(s) : Written(t, s, f, j) = IF Absent(t, s[j]) THEN Written(t, s, f, j - 1)
                                                  ELSE Append(Written(t, s, f, j - 1), f[s[j]])
    BY WrittenIs
  <1> QED BY <1>1 DEF More

-----------------------------------------------------------------------------
\* What an object, a list and a map become, i levels deep.
LEMMA ObjectBecomes ==
  ASSUME NEW i \in 1..MaxDepth, NEW c \in Class, NEW v \in Content[c], NEW g, g = Inside(i - 1)[c][v]
  PROVE  /\ g = [k \in DOMAIN Meta[c] |-> g[k]]
         /\ \A k \in Answered(c) : k \in DOMAIN Meta[c] /\ g[k] = Inside(i)[Meta[c][k]][v[k]]
         /\ \A k \in DOMAIN Meta[c] : k \notin Answered(c) => g[k] = Fresh[c][k]
  <1>1. c \in TypeId /\ DOMAIN v = DOMAIN Meta[c] /\ v["type"] = Fresh[c]["type"]
    BY ObjectContent, Apart
  <1>2. g = TravelledWith(Inside(i), c, v)
    BY <1>1, Becomes
  <1>3. g = [k \in DOMAIN Meta[c] |-> CASE k \in Answered(c) -> Inside(i)[Meta[c][k]][v[k]]
                                       [] k = "type" -> v[k]
                                       [] OTHER -> Fresh[c][k]]
    BY <1>1, <1>2, Apart DEF TravelledWith
  <1>4. \A k \in Answered(c) : k \in DOMAIN Meta[c]
    BY WriterAssumption DEF Answered
  <1>5. "type" \notin Answered(c)
    BY WriterAssumption DEF Answered
  <1>6. \A k \in DOMAIN Meta[c] : g[k] = CASE k \in Answered(c) -> Inside(i)[Meta[c][k]][v[k]]
                                       [] k = "type" -> v[k]
                                       [] OTHER -> Fresh[c][k]
    BY <1>3
  <1>7. g = [k \in DOMAIN Meta[c] |-> g[k]]
    BY <1>3
  <1> QED BY <1>1, <1>4, <1>5, <1>6, <1>7

LEMMA ListBecomes ==
  ASSUME NEW i \in 1..MaxDepth, NEW t \in List, NEW v \in Content[t]
  PROVE  Inside(i - 1)[t][v] = Written(Elem[t].id, v, Inside(i)[Elem[t].id], Len(v))
  BY Becomes, Apart DEF TravelledWith

IsFun(g) == g = [k \in DOMAIN g |-> g[k]]

LEMMA MapBecomes ==
  ASSUME NEW i \in 1..MaxDepth, NEW t \in Map, NEW v \in Content[t], NEW g, g = Inside(i - 1)[t][v]
  PROVE  /\ IsFun(g)
         /\ \A k : k \in DOMAIN g <=> \E x \in DOMAIN v : AsRead(x) = k /\ ~Absent(Elem[t].id, v[x])
         /\ \A x \in DOMAIN v : ~Absent(Elem[t].id, v[x]) /\ AsRead(x) # Refused =>
              g[AsRead(x)] = Inside(i)[Elem[t].id][v[x]]
  <1>1. PICK sent, inside : sent = Sent(Elem[t].id, v) /\ inside = Inside(i)
    OBVIOUS
  <1>2. \A x : x \in sent <=> x \in DOMAIN v /\ ~Absent(Elem[t].id, v[x])
    BY <1>1 DEF Sent
  <1>3. g = [k \in {AsRead(x) : x \in sent} |-> Inside(i)[Elem[t].id][v[Source(sent, k)]]]
    <2>1. g = TravelledWith(inside, t, v)
      BY <1>1, Becomes, Apart
    <2>2. t \notin Class /\ t \notin List
      BY OneKind
    <2>3. TravelledWith(inside, t, v) = [k \in {AsRead(x) : x \in sent} |-> inside[Elem[t].id][v[Source(sent, k)]]]
      BY Zenon, <1>1, <2>2 DEF TravelledWith
    <2> QED BY Zenon, <1>1, <2>1, <2>3
  <1>4. ASSUME NEW x \in sent, AsRead(x) # Refused
        PROVE  Source(sent, AsRead(x)) = x
    <2>1. \A y \in sent : AsRead(y) = AsRead(x) => y = x
      BY <1>2, <1>4, MapContent
    <2> QED BY <2>1 DEF Source
  <1>5. ASSUME NEW x \in sent, AsRead(x) # Refused
        PROVE  g[AsRead(x)] = Inside(i)[Elem[t].id][v[x]]
    <2>1. AsRead(x) \in {AsRead(y) : y \in sent}
      OBVIOUS
    <2> QED BY <1>3, <1>4, <1>5, <2>1
  <1>6. \A k : k \in DOMAIN g <=> \E x \in sent : AsRead(x) = k
    BY <1>3
  <1>7. IsFun(g)
    BY <1>3 DEF IsFun
  <1> QED BY <1>2, <1>5, <1>6, <1>7

LEMMA MapKeys ==
  ASSUME NEW i \in 1..MaxDepth, NEW t \in Map, NEW v \in Content[t]
  PROVE  \A k \in DOMAIN Inside(i - 1)[t][v] : \E x \in DOMAIN v : AsRead(x) = k
  <1>1. PICK g : g = Inside(i - 1)[t][v]
    OBVIOUS
  <1>2. \A k : k \in DOMAIN g <=> \E x \in DOMAIN v : AsRead(x) = k /\ ~Absent(Elem[t].id, v[x])
    BY <1>1, MapBecomes
  <1> QED BY <1>1, <1>2

-----------------------------------------------------------------------------
\* A move of the innermost activation.
Move(a, typed) ==
  LET f == Last(a)
  IN CASE f.pc \in {"type", "type_text", "type_comma"} -> EnvelopeMove(a, f)
       [] f.pc \in {"kvs", "base_comma"} -> KvsMove(a, f, typed)
       [] f.pc \in {"fields", "field"} -> FieldsMove(a, f)
       [] f.pc = "elems" -> ListMove(a, f)
       [] f.pc \in {"entries", "entry", "object"} -> MapMove(a, f, typed)
       [] f.pc = "close" -> CloseMove(a, f)
       [] OTHER -> ValMove(a, f, ValueOf(f), typed)

\* What the value of the activation f, i levels deep, becomes.
Goal(f, i) == Inside(i - 1)[f.id][f.val]

\* The class whose fields f is writing, and the fields f has yet to write.
Own(f) == IF f.last THEN f.ct ELSE f.at
Ahead(f) == f.keys \cup (IF f.last THEN {} ELSE FieldsAbove(f.at) \cup DOMAIN OwnAst[f.ct])

AtTheHead == {"type", "type_text", "type_comma", "kvs"}
ObjectPcs == AtTheHead \cup {"base_comma", "fields", "field", "value", "close"}
ObjectCalls(c) ==
  [id : {c}, ct : {c}, val : Content[c], pc : ObjectPcs, at : Class, last : BOOLEAN, comma : BOOLEAN,
   keys : SUBSET Key, slot : Key \cup {NoKey}, first : BOOLEAN]
ListCalls(t) ==
  [id : {t}, ct : TypeId \cup {"bool"}, val : Content[t], pc : {"elems", "value", "close"}, next : Nat \ {0}]
MapCalls(t) ==
  [id : {t}, ct : TypeId \cup {"bool"}, val : Content[t], pc : {"entries", "entry", "object", "value", "close"},
   keys : SUBSET Key, slot : Key \cup {NoKey}, first : BOOLEAN]

ObjectCall(f) ==
  /\ f \in ObjectCalls(f.id)
  /\ FieldsAbove(f.at) \subseteq FieldsAbove(f.ct)
  /\ \A k \in FieldsAbove(f.at) : Ast[BaseAst[f.at]][k] = Ast[f.ct][k]
  /\ \A k \in DOMAIN OwnAst[Own(f)] : k \in DOMAIN Ast[f.ct] /\ OwnAst[Own(f)][k] = Ast[f.ct][k]
  /\ f.keys \subseteq DOMAIN OwnAst[Own(f)]
  /\ ~f.last => f.keys \cap (FieldsAbove(f.at) \cup DOMAIN OwnAst[f.ct]) = {}
  /\ f.pc \in AtTheHead => f.keys = {} /\ ~f.last
  /\ f.pc = "close" => f.keys = {} /\ f.last
  /\ f.pc = "field" => f.keys # {}
  /\ f.pc = "value" => f.slot \in DOMAIN OwnAst[Own(f)] \ Ahead(f)
ListCall(f) ==
  /\ f \in ListCalls(f.id) /\ (f.ct = f.id \/ f.val = <<>>)
  /\ f.next <= Len(f.val) + 1
  /\ f.pc = "value" => f.next <= Len(f.val)
  /\ f.pc = "close" => f.next = Len(f.val) + 1
MapCall(f) ==
  /\ f \in MapCalls(f.id) /\ (f.ct = f.id \/ f.val = <<>>)
  /\ f.keys \subseteq DOMAIN f.val
  /\ f.pc = "close" => f.keys = {}
  /\ f.pc = "entry" => f.keys # {}
  /\ f.pc = "object" => Elem[f.id].id \in Class
  /\ f.pc = "value" => Elem[f.id].id \notin Asts
  /\ f.pc \in {"value", "object"} => f.slot \in DOMAIN f.val \ f.keys

\* The activation f, i levels deep, and what the reader has of its text: the
\* bracket d, the node nd and the content v.
ObjectAt(f, d, nd, v, i) ==
  /\ ObjectCall(f)
  /\ d.open = Brace /\ nd.val_astid = f.id /\ ~nd.is_list /\ ~nd.is_map
  /\ f.pc = "value" => d.key = f.slot
  /\ f.pc = "type_text" => d.key = "type"
  /\ v = [k \in DOMAIN Meta[f.id] |-> v[k]]
  /\ \A k \in DOMAIN Meta[f.id] : v[k] = IF k \in Ahead(f) \cup {d.key} THEN Fresh[f.id][k] ELSE Goal(f, i)[k]
ListAt(f, d, nd, v, i) ==
  /\ ListCall(f)
  /\ d.open = "[" /\ d.key = NoKey
  /\ nd.val_astid = Elem[f.id].id /\ nd.is_val_ptr = Elem[f.id].ptr /\ nd.is_list /\ ~nd.is_map
  /\ v = Written(Elem[f.id].id, f.val, Inside(i)[Elem[f.id].id], f.next - 1)
Awaits(f, k) == \E x \in f.keys : AsRead(x) = k
MapAt(f, d, nd, v, i) ==
  /\ MapCall(f)
  /\ d.open = Brace
  /\ nd.val_astid = Elem[f.id].id /\ ~nd.is_list /\ nd.is_map
  /\ f.pc = "value" => d.key = AsRead(f.slot) /\ d.key \in Key
  /\ Elem[f.id].id \in Asts => d.key = NoKey
  /\ d.key # NoKey => nd.map_key = d.key
  /\ f.pc # "object" =>
       /\ IsFun(v)
       /\ \A k : k \in DOMAIN v <=> k \in DOMAIN Goal(f, i) /\ ~Awaits(f, k) /\ k # d.key
       /\ \A k \in DOMAIN v : v[k] = Goal(f, i)[k]
At(f, d, nd, v, i) ==
  /\ f.id \in TypeId /\ d.ty = f.id /\ nd.ty = f.id /\ (i > 1 => nd.activekey # NoKey)
  /\ \/ f.id \in Class /\ ObjectAt(f, d, nd, v, i)
     \/ f.id \in List /\ ListAt(f, d, nd, v, i)
     \/ f.id \in Map /\ MapAt(f, d, nd, v, i)

\* The activation g writes the value that f is at, into the node nd.
SlotType(f) == IF f.id \in Class THEN Meta[f.ct][f.slot] ELSE Elem[f.id].id
SlotGoal(f, i) ==
  CASE f.id \in Class -> Goal(f, i)[f.slot]
    [] f.id \in List -> Inside(i)[Elem[f.id].id][f.val[f.next]]
    [] OTHER -> Inside(i)[Elem[f.id].id][f.val[f.slot]]
Chain(f, g, nd, i) ==
  /\ f.pc = "value"
  /\ g.id = SlotType(f) /\ Goal(g, i + 1) = SlotGoal(f, i)
  /\ f.id \in Class => nd.activekey = f.slot
  /\ f.id \in List => f.val[f.next] # NullPtr

Levels(a, d, s, c, n) ==
  /\ \A i \in 1..n : At(a[i], d[i], s[i], c[i], i)
  /\ \A i \in 1..(n - 1) : Chain(a[i], a[i + 1], s[i + 1], i)

KeysOK(d, k) == /\ k \in Key \cup {NoKey} /\ (Len(d) > 1 => k # NoKey)
                /\ d[Len(d)].ty \in Class /\ d[Len(d)].key # NoKey => k = d[Len(d)].key

Nested(a) ==
  LET n == Len(doc)
  IN /\ n \in 1..MaxDepth /\ Len(stack) = n /\ IsSeq(a, n)
     /\ a[1].id = RootType /\ a[1].val = obj
     /\ Levels(a, doc, stack, inst, n)
     /\ KeysOK(doc, active_key)
Match(a) ==
  /\ DocOK /\ StackOK
  /\ \/ doc = <<>> /\ a = <<>> /\ inst[1] = Inside(0)[RootType][obj]
     \/ doc # <<>> /\ Nested(a)

-----------------------------------------------------------------------------
\* The activations, as a sequence whose elements nothing is known of.
LEMMA LastIs ==
  ASSUME NEW a, NEW n \in Nat, n > 0, IsSeq(a, n)
  PROVE  Len(a) = n /\ Last(a) = a[n]
  BY SeqOfContents DEF Last

OnTop(a, f) == [a EXCEPT ![Len(a)] = f]

LEMMA ReplacedIs ==
  ASSUME NEW a, NEW n \in Nat, n > 0, IsSeq(a, n), NEW f
  PROVE  IsSeq(OnTop(a, f), n) /\ Agree(OnTop(a, f), a, n - 1) /\ OnTop(a, f)[n] = f
  <1>1. Len(a) = n
    BY LastIs
  <1>2. PICK b : b = [a EXCEPT ![Len(a)] = f]
    OBVIOUS
  <1>3. IsSeq(b, n) /\ Agree(b, a, n - 1) /\ b[n] = f
    BY <1>1, <1>2, ExceptIsSeq
  <1> QED BY <1>2, <1>3 DEF OnTop

LEMMA AppendedIs ==
  ASSUME NEW a, NEW n \in Nat, NEW f, IsSeq(a, n)
  PROVE  IsSeq(More(a, f), n + 1) /\ Agree(More(a, f), a, n) /\ More(a, f)[n + 1] = f
  <1>0. PICK b : b = Append(a, f)
    OBVIOUS
  <1>1. IsSeq(b, n + 1) /\ Agree(b, a, n)
    BY <1>0, AppendIsSeq
  <1>2. b[n + 1] = f
    <2>1. PICK S : a \in Seq(S) /\ f \in S /\ Len(a) = n
      <3> DEFINE S == {a[i] : i \in 1..n}
                 T == S \cup {f}
      <3>1. a \in Seq(S) /\ Len(a) = n
        BY SeqOfContents
      <3>2. S \subseteq T /\ f \in T
        OBVIOUS
      <3> HIDE DEF S, T
      <3> QED BY <3>1, <3>2, SeqMonotonic
    <2> QED BY <1>0, <2>1, AppendProperties
  <1> QED BY <1>0, <1>1, <1>2 DEF More

Under(a, f) == [Front(a) EXCEPT ![Len(a) - 1] = f]

LEMMA PoppedIs ==
  ASSUME NEW a, NEW n \in Nat, NEW f, n > 1, IsSeq(a, n)
  PROVE  IsSeq(Under(a, f), n - 1) /\ Agree(Under(a, f), a, n - 2) /\ Under(a, f)[n - 1] = f
  <1>0. PICK b : b = [Front(a) EXCEPT ![Len(a) - 1] = f]
    OBVIOUS
  <1>1. Len(a) = n
    BY LastIs
  <1>2. IsSeq(Front(a), n - 1) /\ Agree(Front(a), a, n - 1)
    <2>1. n > 0
      OBVIOUS
    <2> QED BY <2>1, FrontIsSeq
  <1>3. n - 1 \in Nat /\ n - 1 > 0 /\ (n - 1) - 1 = n - 2 /\ \A i \in 1..(n - 2) : i \in 1..(n - 1)
    OBVIOUS
  <1>4. IsSeq(b, n - 1) /\ Agree(b, Front(a), n - 2) /\ b[n - 1] = f
    BY <1>0, <1>1, <1>2, <1>3, ExceptIsSeq
  <1>5. IsSeq(b, n - 1) /\ Agree(b, a, n - 2) /\ b[n - 1] = f
    BY <1>2, <1>3, <1>4 DEF Agree
  <1> QED BY <1>0, <1>5 DEF Under

-----------------------------------------------------------------------------
\* A step changes the innermost level, adds one or takes one away.
LEMMA LevelsTop ==
  ASSUME NEW n \in Nat \ {0}, NEW a, NEW d, NEW s, NEW c, Levels(a, d, s, c, n),
         NEW a2, NEW d2, NEW s2, NEW c2,
         Agree(a2, a, n - 1), Agree(d2, d, n - 1), Agree(s2, s, n - 1), Agree(c2, c, n - 1),
         At(a2[n], d2[n], s2[n], c2[n], n),
         a2[n].id = a[n].id, a2[n].val = a[n].val, s2[n].activekey = s[n].activekey
  PROVE  Levels(a2, d2, s2, c2, n)
  <1>1. ASSUME NEW i \in 1..n
        PROVE  At(a2[i], d2[i], s2[i], c2[i], i)
    <2>1. i \in 1..(n - 1) \/ i = n
      OBVIOUS
    <2> QED BY <2>1 DEF Levels, Agree
  <1>2. ASSUME NEW i \in 1..(n - 1)
        PROVE  Chain(a2[i], a2[i + 1], s2[i + 1], i)
    <2>1. (i + 1 \in 1..(n - 1) \/ i + 1 = n) /\ a2[i] = a[i]
      BY DEF Agree
    <2>2. Chain(a[i], a[i + 1], s[i + 1], i)
      BY DEF Levels
    <2>3. CASE i + 1 \in 1..(n - 1)
      BY <2>1, <2>2, <2>3 DEF Agree
    <2>4. CASE i + 1 = n
      <3>1. /\ a2[i + 1].id = a[i + 1].id /\ a2[i + 1].val = a[i + 1].val
            /\ s2[i + 1].activekey = s[i + 1].activekey
        BY <2>4
      <3> HIDE <2>4
      <3> QED BY <2>1, <2>2, <3>1 DEF Chain, Goal
    <2> QED BY <2>1, <2>3, <2>4
  <1> QED BY <1>1, <1>2 DEF Levels

LEMMA LevelsPush ==
  ASSUME NEW n \in Nat \ {0}, NEW a, NEW d, NEW s, NEW c, Levels(a, d, s, c, n),
         NEW a2, NEW d2, NEW s2, NEW c2,
         Agree(a2, a, n), Agree(d2, d, n), Agree(s2, s, n), Agree(c2, c, n),
         At(a2[n + 1], d2[n + 1], s2[n + 1], c2[n + 1], n + 1),
         Chain(a2[n], a2[n + 1], s2[n + 1], n)
  PROVE  Levels(a2, d2, s2, c2, n + 1)
  <1>1. ASSUME NEW i \in 1..(n + 1)
        PROVE  At(a2[i], d2[i], s2[i], c2[i], i)
    <2>1. i \in 1..n \/ i = n + 1
      OBVIOUS
    <2> QED BY <2>1 DEF Levels, Agree
  <1>2. ASSUME NEW i \in 1..n
        PROVE  Chain(a2[i], a2[i + 1], s2[i + 1], i)
    <2>1. (i \in 1..(n - 1) /\ i + 1 \in 1..n) \/ i = n
      OBVIOUS
    <2>2. CASE i \in 1..(n - 1) /\ i + 1 \in 1..n
      <3>1. Chain(a[i], a[i + 1], s[i + 1], i)
        BY <2>2 DEF Levels
      <3> QED BY <2>2, <3>1 DEF Agree
    <2> QED BY <2>1, <2>2
  <1>3. (n + 1) - 1 = n
    OBVIOUS
  <1> QED BY <1>1, <1>2, <1>3 DEF Levels

LEMMA LevelsPop ==
  ASSUME NEW n \in Nat, n > 1, NEW a, NEW d, NEW s, NEW c, Levels(a, d, s, c, n)
  PROVE  Levels(a, d, s, c, n - 1) /\ Chain(a[n - 1], a[n], s[n], n - 1)
  <1>1. \A i \in 1..(n - 1) : i \in 1..n
    OBVIOUS
  <1>2. \A i \in 1..((n - 1) - 1) : i \in 1..(n - 1)
    OBVIOUS
  <1>3. n - 1 \in 1..(n - 1) /\ (n - 1) + 1 = n
    OBVIOUS
  <1>4. Chain(a[n - 1], a[(n - 1) + 1], s[(n - 1) + 1], n - 1)
    BY <1>3 DEF Levels
  <1> QED BY <1>1, <1>2, <1>3, <1>4 DEF Levels

-----------------------------------------------------------------------------
\* What an event does to the brackets.
LEMMA AppendOK ==
  ASSUME NEW S, NEW s \in Seq(S), NEW e \in S, NEW t, t = Append(s, e)
  PROVE  /\ Len(t) = Len(s) + 1 /\ t[Len(s) + 1] = e /\ Agree(t, s, Len(s)) /\ t # <<>>
  <1>1. Len(t) = Len(s) + 1 /\ t[Len(s) + 1] = e /\ Agree(t, s, Len(s))
    BY AppendLonger
  <1>2. Len(s) \in Nat /\ Len(<<>>) = 0
    BY LenProperties, EmptySeq
  <1> QED BY <1>1, <1>2

LEMMA OpensBracket ==
  ASSUME DocOK, NEW b \in {Brace, "["}, EvOpen(b),
         Kind[DueType] \in (IF b = Brace THEN {"object", "map"} ELSE {"list"}), DueType \in TypeId
  PROVE  /\ ValueDue /\ Len(doc) < MaxDepth
         /\ Len(doc') = Len(doc) + 1 /\ Agree(doc', doc, Len(doc)) /\ doc' # <<>>
         /\ doc'[Len(doc) + 1] = [open |-> b, ty |-> DueType, key |-> NoKey]
  <1> DEFINE e == [open |-> b, ty |-> DueType, key |-> NoKey]
  <1>1. doc' = Append(doc, e)
    <2>1. Kind[DueType] \in (IF b = "{" THEN {"object", "map"} ELSE {"list"})
      BY DEF Brace
    <2>2. b \in {"{", "["}
      BY DEF Brace
    <2> QED BY <2>1 DEF EvOpen
  <1>2. e \in Bracket /\ doc \in Seq(Bracket)
    <2>1. PICK opening : opening = {Brace, "["}
      OBVIOUS
    <2>2. Bracket = [open : opening, ty : TypeId \cup {Untyped}, key : Key \cup {NoKey}]
      BY <2>1 DEF Bracket, Brace
    <2>3. b \in opening /\ doc \in Seq(Bracket)
      BY <2>1 DEF DocOK
    <2> QED BY <2>2, <2>3
  <1>3. ValueDue /\ Len(doc) < MaxDepth
    BY DEF EvOpen
  <1> HIDE DEF e
  <1>4. /\ Len(doc') = Len(doc) + 1 /\ Agree(doc', doc, Len(doc)) /\ doc' # <<>>
        /\ doc'[Len(doc) + 1] = e
    BY <1>1, <1>2, AppendOK
  <1> QED BY <1>3, <1>4 DEF e

LEMMA GivenIs ==
  ASSUME NEW d \in Seq(Bracket), d # <<>>
  PROVE  /\ Len(Given(d)) = Len(d) /\ Agree(Given(d), d, Len(d) - 1) /\ Given(d) # <<>>
         /\ Given(d)[Len(d)] = [d[Len(d)] EXCEPT !.key = NoKey]
  <1> DEFINE l == Len(d)
             b == [d[l] EXCEPT !.key = NoKey]
  <1>1. l \in 1..l /\ d[l] \in Bracket /\ l \in Nat
    BY LastOK, LenProperties
  <1>2. b \in Bracket
    BY <1>1 DEF Bracket
  <1>3. Given(d) = [d EXCEPT ![l] = b]
    BY DEF Given
  <1>4. /\ [d EXCEPT ![l] = b] \in Seq(Bracket) /\ Len([d EXCEPT ![l] = b]) = Len(d)
        /\ \A i \in 1..Len(d) : [d EXCEPT ![l] = b][i] = IF i = l THEN b ELSE d[i]
    <2> HIDE DEF b, l
    <2> QED BY <1>1, <1>2, ExceptSeq DEF l
  <1>5. \A i \in 1..(l - 1) : i \in 1..l /\ i # l
    BY SMTT(30), <1>1
  <1> HIDE DEF b
  <1>6. Agree(Given(d), d, l - 1) /\ Given(d)[l] = b /\ Len(Given(d)) = l
    BY Zenon, <1>1, <1>3, <1>4, <1>5 DEF Agree
  <1>7. Given(d) # <<>>
    BY <1>1, <1>6
  <1> QED BY <1>6, <1>7 DEF b

LEMMA GivesValue ==
  ASSUME DocOK, doc # <<>>, doc' = Given(doc)
  PROVE  /\ Len(doc') = Len(doc) /\ Agree(doc', doc, Len(doc) - 1) /\ doc' # <<>>
         /\ doc'[Len(doc)] = [doc[Len(doc)] EXCEPT !.key = NoKey]
  BY GivenIs DEF DocOK

LEMMA NamesKey ==
  ASSUME DocOK, NEW k \in Key, EvKey(k)
  PROVE  /\ doc # <<>> /\ doc[Len(doc)].open = Brace /\ doc[Len(doc)].key = NoKey
         /\ Len(doc') = Len(doc) /\ Agree(doc', doc, Len(doc) - 1) /\ doc' # <<>>
         /\ doc'[Len(doc)] = [doc[Len(doc)] EXCEPT !.key = k]
  <1> DEFINE l == Len(doc)
             b == [doc[l] EXCEPT !.key = k]
  <1>1. doc \in Seq(Bracket) /\ doc # <<>>
    BY DEF DocOK, EvKey
  <1>2. l \in 1..l /\ doc[l] \in Bracket /\ l \in Nat
    BY <1>1, LastOK, LenProperties
  <1>3. doc' = [doc EXCEPT ![l] = b] /\ doc[l].open = Brace /\ doc[l].key = NoKey
    BY DEF EvKey, Last, Brace
  <1>4. b \in Bracket
    BY <1>2 DEF Bracket
  <1>5. /\ [doc EXCEPT ![l] = b] \in Seq(Bracket) /\ Len([doc EXCEPT ![l] = b]) = Len(doc)
        /\ \A i \in 1..Len(doc) : [doc EXCEPT ![l] = b][i] = IF i = l THEN b ELSE doc[i]
    <2> HIDE DEF b, l
    <2> QED BY <1>1, <1>2, <1>4, ExceptSeq DEF l
  <1>6. \A i \in 1..(l - 1) : i \in 1..l /\ i # l
    BY SMTT(30), <1>2
  <1> HIDE DEF b
  <1>7. Agree(doc', doc, l - 1) /\ doc'[l] = b /\ Len(doc') = l
    BY Zenon, <1>2, <1>3, <1>5, <1>6 DEF Agree
  <1>8. doc' # <<>>
    BY <1>2, <1>7
  <1> QED BY <1>1, <1>3, <1>7, <1>8 DEF b

LEMMA ClosesBracket ==
  ASSUME DocOK, NEW b, EvClose(b)
  PROVE  /\ Len(doc) \in Nat \ {0} /\ doc[Len(doc)].open = b /\ (b = Brace => doc[Len(doc)].key = NoKey)
         /\ Len(doc) = 1 => doc' = <<>>
         /\ Len(doc) > 1 => /\ Len(doc') = Len(doc) - 1 /\ Agree(doc', doc, Len(doc) - 2) /\ doc' # <<>>
                            /\ doc'[Len(doc) - 1] = [doc[Len(doc) - 1] EXCEPT !.key = NoKey]
  <1> DEFINE n == Len(doc)
             f == Front(doc)
  <1>1. doc \in Seq(Bracket) /\ doc # <<>>
    BY DEF DocOK, EvClose
  <1>2. n \in Nat \ {0}
    BY <1>1, LastOK, LenProperties
  <1>3. f \in Seq(Bracket) /\ Len(f) = n - 1 /\ Agree(f, doc, n - 1)
    BY <1>1, FrontShorter
  <1>4. doc' = Given(f) /\ doc[n].open = b /\ (b = Brace => doc[n].key = NoKey)
    BY DEF EvClose, Last, Brace
  <1> HIDE DEF f, n
  <1>5. CASE n = 1
    <2>1. f = <<>>
      BY <1>3, <1>5, EmptySeq
    <2>2. Given(f) = <<>>
      BY <2>1 DEF Given
    <2>3. ~(n > 1)
      BY <1>5
    <2> QED BY <1>2, <1>4, <2>2, <2>3 DEF n
  <1>6. CASE n > 1
    <2>1. n - 1 > 0 /\ (n - 1) - 1 = n - 2 /\ \A i \in 1..(n - 2) : i \in 1..(n - 1)
      BY <1>2, <1>6
    <2>2. f # <<>>
      BY <1>3, <2>1, EmptySeq
    <2>3. /\ Len(doc') = n - 1 /\ Agree(doc', f, n - 2) /\ doc' # <<>>
          /\ doc'[n - 1] = [f[n - 1] EXCEPT !.key = NoKey]
      BY <1>3, <1>4, <2>1, <2>2, GivenIs
    <2>4. f[n - 1] = doc[n - 1] /\ Agree(doc', doc, n - 2)
      <3>1. n - 1 \in 1..(n - 1)
        BY <1>2, <1>6
      <3> QED BY <1>3, <2>1, <2>3, <3>1 DEF Agree
    <2>5. n # 1
      BY <1>6
    <2> QED BY <1>2, <1>4, <1>6, <2>3, <2>4, <2>5 DEF n
  <1>7. n = 1 \/ n > 1
    BY <1>2
  <1> QED BY <1>5, <1>6, <1>7

-----------------------------------------------------------------------------
\* The registrations of a class.
LEMMA ClassIs ==
  ASSUME NEW c \in Class
  PROVE  /\ c \in TypeId /\ c \in Asts /\ c \notin List \cup Map /\ Kind[c] = "object"
         /\ DOMAIN Ast[c] = DOMAIN OwnAst[c] \cup FieldsAbove(c)
         /\ DOMAIN OwnAst[c] \cap FieldsAbove(c) = {}
         /\ \A k \in DOMAIN OwnAst[c] : OwnAst[c][k] = Ast[c][k]
         /\ \A k \in FieldsAbove(c) : Ast[c][k] = Ast[BaseAst[c]][k]
         /\ BaseAst[c] \in Asts => BaseAst[c] \in Class /\ FieldsAbove(c) = DOMAIN Ast[BaseAst[c]]
         /\ BaseAst[c] \notin Asts => FieldsAbove(c) = {}
         /\ "type" \in DOMAIN Meta[c] /\ "type" \notin DOMAIN Ast[c]
  <1>1. c \in TypeId /\ c \notin List \cup Map /\ Kind[c] = "object"
    BY DEF Class, List, Map
  <1>2. c \in Asts
    BY <1>1, WriterAssumption
  <1>3. /\ DOMAIN Ast[c] = DOMAIN OwnAst[c] \cup FieldsAbove(c)
        /\ DOMAIN OwnAst[c] \cap FieldsAbove(c) = {}
        /\ \A k \in DOMAIN Ast[c] : Ast[c][k] = IF k \in DOMAIN OwnAst[c] THEN OwnAst[c][k] ELSE Ast[BaseAst[c]][k]
        /\ BaseAst[c] \in Asts => BaseAst[c] \in Class
        /\ "type" \in DOMAIN Meta[c] /\ "type" \notin DOMAIN Ast[c]
    BY WriterAssumption
  <1>4. /\ BaseAst[c] \in Asts => FieldsAbove(c) = DOMAIN Ast[BaseAst[c]]
        /\ BaseAst[c] \notin Asts => FieldsAbove(c) = {}
    BY DEF FieldsAbove
  <1> QED BY <1>1, <1>2, <1>3, <1>4

LEMMA FieldIs ==
  ASSUME NEW c \in Class, NEW k \in DOMAIN Ast[c]
  PROVE  /\ k \in DOMAIN Meta[c] /\ k \in Key /\ k # NoKey /\ k # "type"
         /\ Meta[c][k] = Ast[c][k] /\ Ast[c][k] \in TypeId
         /\ Kind[Ast[c][k]] \in {"object", "list", "map", "int", "bool", "string", "enum", "port"}
         /\ k \notin Getter[c] => Ast[c][k] \in List \cup Map
         /\ k \in Answered(c) <=> k \in Getter[c]
  <1>1. /\ k \in DOMAIN Meta[c] /\ Meta[c][k] = Ast[c][k] /\ Kind[Ast[c][k]] \notin {"var", "none"}
        /\ k \notin Getter[c] => Ast[c][k] \in List \cup Map
        /\ k # "type"
    BY WriterAssumption
  <1>2. k \in Key /\ k # NoKey /\ Ast[c][k] \in TypeId /\ Kind[Ast[c][k]] \in Kinds
    BY <1>1, SchemaAssumption
  <1> QED BY <1>1, <1>2 DEF Kinds, Answered

LEMMA ElemIs ==
  ASSUME NEW t \in List \cup Map
  PROVE  /\ Elem[t].id \in TypeId /\ Elem[t].ptr \in BOOLEAN
         /\ Kind[Elem[t].id] \in {"object", "list", "int", "bool", "string", "var"}
         /\ Elem[t].id \in Asts <=> Elem[t].id \in Class
         /\ Elem[t].id \in List => Elem[t].id \in VarCtor
         /\ Elem[t].ptr => t \in List /\ Elem[t].id \in CreatePtr /\ Elem[t].id \in Class
  <1>1. Elem[t] \in [id : TypeId, ptr : BOOLEAN] /\ CreatePtr \subseteq Class
    BY SchemaAssumption
  <1>2. /\ Kind[Elem[t].id] \notin {"map", "enum", "port", "none"}
        /\ Elem[t].id \in List => Elem[t].id \in VarCtor
        /\ Elem[t].ptr => t \in List /\ Elem[t].id \in CreatePtr
    BY WriterAssumption
  <1>3. Elem[t].id \in TypeId /\ Elem[t].ptr \in BOOLEAN /\ Kind[Elem[t].id] \in Kinds
    BY <1>1, SchemaAssumption
  <1>4. Elem[t].id \in Asts <=> Kind[Elem[t].id] \in {"object", "enum", "port"}
    BY <1>3, WriterAssumption
  <1>5. Elem[t].id \in Class <=> Kind[Elem[t].id] = "object"
    BY <1>3 DEF Class
  <1> QED BY <1>1, <1>2, <1>3, <1>4, <1>5 DEF Kinds

-----------------------------------------------------------------------------
\* An object goes on to the next AST of its chain.
Based(f, typed) ==
  LET base == BaseOf(f.at, f.ct)
      own == IF base \in Asts THEN base ELSE f.ct
  IN [f EXCEPT !.pc = IF BaseComma(f, own) THEN "base_comma" ELSE "fields",
               !.at = IF base \in Asts THEN base ELSE @, !.last = base \notin Asts,
               !.comma = @ \/ DOMAIN OwnAst[own] # {},
               !.keys = Shown(own, typed), !.first = TRUE]

LEMMA OwnShown ==
  ASSUME NEW c \in Class, NEW typed
  PROVE  Shown(c, typed) = DOMAIN OwnAst[c] /\ DOMAIN OwnAst[c] \subseteq Key
  <1>1. \A k \in DOMAIN OwnAst[c] : k # "type" /\ k \in Key
    BY ClassIs, FieldIs
  <1> QED BY <1>1 DEF Shown

LEMMA BasedIs ==
  ASSUME NEW f, f.id \in Class, ObjectCall(f), f.pc = "kvs", NEW typed, NEW g, g = Based(f, typed)
  PROVE  /\ ObjectCall(g) /\ Ahead(g) = Ahead(f)
         /\ g.id = f.id /\ g.val = f.val /\ g.pc \in {"base_comma", "fields"}
  <1> DEFINE base == BaseAst[f.at]
             own == IF base \in Asts THEN base ELSE f.ct
  <1>1. f \in ObjectCalls(f.id) /\ f.at \in Class /\ f.ct = f.id /\ f.keys = {} /\ ~f.last
    BY DEF ObjectCall, ObjectCalls, AtTheHead
  <1>2. own \in Class /\ (base \in Asts => base \in Class)
    BY <1>1, ClassIs
  <1>3. /\ Shown(own, typed) = DOMAIN OwnAst[own] /\ DOMAIN OwnAst[own] \subseteq Key
    BY <1>2, OwnShown
  <1>4. g = [f EXCEPT !.pc = IF BaseComma(f, own) THEN "base_comma" ELSE "fields",
               !.at = IF base \in Asts THEN base ELSE @, !.last = base \notin Asts,
               !.comma = @ \/ DOMAIN OwnAst[own] # {},
               !.keys = DOMAIN OwnAst[own], !.first = TRUE]
    BY <1>3 DEF Based, BaseOf
  <1> HIDE DEF own, base
  <1>5. /\ g \in ObjectCalls(f.id) /\ g.id = f.id /\ g.ct = f.ct /\ g.val = f.val /\ g.keys = DOMAIN OwnAst[own]
        /\ g.last = (base \notin Asts) /\ g.at = (IF base \in Asts THEN base ELSE f.at)
        /\ g.pc \in {"base_comma", "fields"}
    BY ZenonT(60), <1>1, <1>2, <1>3, <1>4 DEF ObjectCalls, ObjectPcs
  <1>6. CASE base \in Asts
    <2>1. g.at = base /\ ~g.last /\ Own(g) = base /\ own = base /\ base \in Class
      BY <1>2, <1>5, <1>6 DEF Own, own
    <2>2. FieldsAbove(f.at) = DOMAIN Ast[base]
      BY <1>1, <1>6, ClassIs DEF base
    <2>3. /\ DOMAIN Ast[base] = DOMAIN OwnAst[base] \cup FieldsAbove(base)
          /\ DOMAIN OwnAst[base] \cap FieldsAbove(base) = {}
          /\ \A k \in DOMAIN OwnAst[base] : OwnAst[base][k] = Ast[base][k]
          /\ \A k \in FieldsAbove(base) : Ast[base][k] = Ast[BaseAst[base]][k]
      BY <2>1, ClassIs
    <2>4. /\ FieldsAbove(f.at) \subseteq FieldsAbove(f.ct)
          /\ \A k \in FieldsAbove(f.at) : Ast[base][k] = Ast[f.ct][k]
      BY DEF ObjectCall, base
    <2>5. DOMAIN OwnAst[f.ct] \cap FieldsAbove(f.ct) = {} /\ FieldsAbove(f.ct) \subseteq DOMAIN Ast[f.ct]
      BY <1>1, ClassIs
    <2>6. FieldsAbove(g.at) \subseteq FieldsAbove(g.ct) /\ \A k \in FieldsAbove(g.at) : Ast[BaseAst[g.at]][k] = Ast[g.ct][k]
      <3>1. FieldsAbove(base) \subseteq FieldsAbove(f.at)
        BY <2>2, <2>3
      <3>2. \A k \in FieldsAbove(base) : Ast[BaseAst[base]][k] = Ast[f.ct][k]
        BY <2>3, <2>4, <3>1
      <3> QED BY <1>5, <2>1, <2>4, <3>1, <3>2
    <2>7. \A k \in DOMAIN OwnAst[Own(g)] : k \in DOMAIN Ast[g.ct] /\ OwnAst[Own(g)][k] = Ast[g.ct][k]
      <3>1. DOMAIN OwnAst[base] \subseteq FieldsAbove(f.at)
        BY <2>2, <2>3
      <3>2. \A k \in DOMAIN OwnAst[base] : k \in DOMAIN Ast[f.ct] /\ OwnAst[base][k] = Ast[f.ct][k]
        BY <2>3, <2>4, <2>5, <3>1
      <3> QED BY <1>5, <2>1, <3>2
    <2>8. g.keys \cap (FieldsAbove(g.at) \cup DOMAIN OwnAst[g.ct]) = {} /\ g.keys \subseteq DOMAIN OwnAst[Own(g)]
      BY <1>5, <2>1, <2>2, <2>3, <2>4, <2>5
    <2>9. Ahead(g) = Ahead(f)
      BY <1>1, <1>5, <2>1, <2>2, <2>3 DEF Ahead
    <2> QED BY <1>5, <2>1, <2>6, <2>7, <2>8, <2>9 DEF ObjectCall, AtTheHead
  <1>7. CASE base \notin Asts
    <2>1. g.at = f.at /\ g.last /\ Own(g) = f.ct /\ own = f.ct /\ g.ct \in Class
      BY <1>1, <1>5, <1>7 DEF Own, own
    <2>2. FieldsAbove(f.at) = {}
      BY <1>1, <1>7, ClassIs DEF base
    <2>3. \A k \in DOMAIN OwnAst[f.ct] : k \in DOMAIN Ast[f.ct] /\ OwnAst[f.ct][k] = Ast[f.ct][k]
      BY <1>1, ClassIs
    <2>4. Ahead(g) = Ahead(f)
      BY <1>1, <1>5, <2>1, <2>2 DEF Ahead
    <2>5. FieldsAbove(g.at) \subseteq FieldsAbove(g.ct) /\ \A k \in FieldsAbove(g.at) : Ast[BaseAst[g.at]][k] = Ast[g.ct][k]
      BY <2>1, <2>2
    <2>6. \A k \in DOMAIN OwnAst[Own(g)] : k \in DOMAIN Ast[g.ct] /\ OwnAst[Own(g)][k] = Ast[g.ct][k]
      BY <1>5, <2>1, <2>3
    <2>7. g.keys \subseteq DOMAIN OwnAst[Own(g)]
      BY <1>5, <2>1
    <2> QED BY <1>5, <2>1, <2>4, <2>5, <2>6, <2>7 DEF ObjectCall, AtTheHead
  <1> QED BY <1>5, <1>6, <1>7

-----------------------------------------------------------------------------
\* Moves of an object that leave what is ahead of it alone.
LEMMA ObjectGoesTo ==
  ASSUME NEW f, ObjectCall(f), NEW x \in ObjectPcs, x # "value",
         x \in AtTheHead => f.keys = {} /\ ~f.last, x = "close" => f.keys = {} /\ f.last, x = "field" => f.keys # {},
         NEW g, g = [f EXCEPT !.pc = x]
  PROVE  ObjectCall(g) /\ Ahead(g) = Ahead(f) /\ g.id = f.id /\ g.val = f.val /\ g.pc = x
  <1>1. f \in ObjectCalls(f.id)
    BY DEF ObjectCall
  <1>2. /\ g \in ObjectCalls(f.id) /\ g.id = f.id /\ g.ct = f.ct /\ g.val = f.val /\ g.pc = x
        /\ g.at = f.at /\ g.last = f.last /\ g.keys = f.keys
    BY <1>1 DEF ObjectCalls
  <1>3. Own(g) = Own(f) /\ Ahead(g) = Ahead(f)
    BY <1>2 DEF Own, Ahead
  <1> QED BY <1>2, <1>3 DEF ObjectCall, AtTheHead

LEMMA ObjectStays ==
  ASSUME NEW f, NEW d, NEW nd, NEW v, NEW i, f.id \in Class, At(f, d, nd, v, i),
         NEW g, ObjectCall(g), Ahead(g) = Ahead(f), g.id = f.id, g.val = f.val, g.pc \notin {"value", "type_text"}
  PROVE  At(g, d, nd, v, i)
  <1>1. ObjectAt(f, d, nd, v, i)
    BY ClassIs DEF At
  <1>2. Goal(g, i) = Goal(f, i)
    BY DEF Goal
  <1>3. ObjectAt(g, d, nd, v, i)
    BY <1>1, <1>2 DEF ObjectAt
  <1> QED BY <1>3 DEF At

\* The value of the member an object is at.
LEMMA ObjectValue ==
  ASSUME NEW f, f.id \in Class, ObjectCall(f), f.pc = "value", NEW k, k = f.slot, NEW t, t = Meta[f.id][k]
  PROVE  /\ k \in DOMAIN Ast[f.id] /\ t = Ast[f.id][k] /\ f.ct = f.id /\ f.val \in Content[f.id]
         /\ f.val[k] \in Content[t] /\ t \in TypeId
         /\ k \in Getter[f.id] => ValueOf(f) = Val(t, t, f.val[k])
         /\ k \notin Getter[f.id] => (\E no : ValueOf(f) = Val(t, "bool", no)) /\ t \in List \cup Map
  <1>1. f.ct = f.id /\ f.val \in Content[f.id] /\ k \in DOMAIN OwnAst[Own(f)]
    BY DEF ObjectCall, ObjectCalls
  <1>2. k \in DOMAIN Ast[f.id] /\ OwnAst[Own(f)][k] = Ast[f.id][k]
    BY <1>1 DEF ObjectCall
  <1>3. k \in DOMAIN Meta[f.id] /\ t = Ast[f.id][k] /\ t \in TypeId /\ k # "type"
        /\ (k \notin Getter[f.id] => t \in List \cup Map)
    BY <1>2, FieldIs
  <1>4. f.val[k] \in Content[t]
    BY <1>1, <1>3, ObjectContent
  <1>5. ValueOf(f) = get_field_instance(f.id, f.val, k, t)
    BY <1>1, <1>2, <1>3, Apart DEF ValueOf, Own
  <1>6. ValueOf(f) = IF k \in Getter[f.id] THEN Val(t, t, f.val[k]) ELSE Val(t, "bool", FALSE)
    BY <1>3, <1>5 DEF get_field_instance
  <1> QED BY <1>1, <1>2, <1>3, <1>4, <1>6

\* What the writer does with a value of type t.
LEMMA Entered ==
  ASSUME NEW a, NEW f, NEW t, NEW val, NEW typed, t \in Class, val \in Content[t]
  PROVE  EnterObject(a, f, t, val, typed) = Enters(a, Brace, Object(t, val, typed))
  BY ClassIs, ObjectContent DEF EnterObject

LEMMA TokenOut ==
  ASSUME NEW a, NEW f, NEW x
  PROVE  /\ Writes(a, x, f).out = <<x>> /\ Writes(a, x, f).calls = OnTop(a, f)
         /\ Enters(a, x, f).out = <<Mark(x)>> /\ Enters(a, x, f).calls = More(a, f)
  BY DEF Writes, Enters, OnTop, More

LEMMA SomeToken ==
  ASSUME NEW a, NEW f, NEW x
  PROVE  Writes(a, x, f).out # <<>> /\ Enters(a, x, f).out # <<>>
  BY DEF Writes, Enters

LEMMA NoToken ==
  ASSUME NEW a, NEW f
  PROVE  Goes(a, f).out = <<>> /\ Goes(a, f).calls = OnTop(a, f)
  BY DEF Goes, OnTop

LEMMA BracketOut ==
  ASSUME NEW a, NEW f
  PROVE  CloseMove(a, f).out # <<>>
  BY DEF CloseMove

Held(ct, types, val) == IF ct \in types THEN val ELSE <<>>

LEMMA ValueMove ==
  ASSUME NEW a, Last(a).pc = "value", NEW typed, NEW v, v = ValueOf(Last(a))
  PROVE  /\ v.id \in List => Move(a, typed) = Enters(a, "[", ListOf(v.id, v.ct, Held(v.ct, List, v.val)))
         /\ v.id \in Map => Move(a, typed) = Enters(a, Brace, MapOf(v.id, v.ct, Held(v.ct, Map, v.val)))
         /\ v.id \in Asts \ (List \cup Map) => Move(a, typed) = JsonableMove(a, Last(a), v, typed)
         /\ v.id \notin Asts \cup List \cup Map => Move(a, typed) = Writes(a, prim_token(v), Returned(Last(a)))
  <1>1. PICK f : f = Last(a)
    OBVIOUS
  <1>2. Move(a, typed) = ValMove(a, f, v, typed)
    BY <1>1 DEF Move
  <1>3. /\ v.id \in Map => v.id \notin List
        /\ v.id \in List => v.id \notin Map
    BY OneKind
  <1>4. ASSUME v.id \in List, v.id \notin Map
        PROVE  ValMove(a, f, v, typed) = Enters(a, "[", ListOf(v.id, v.ct, Held(v.ct, List, v.val)))
    BY <1>4 DEF ValMove, Held
  <1>5. ASSUME v.id \in Map, v.id \notin List
        PROVE  ValMove(a, f, v, typed) = Enters(a, Brace, MapOf(v.id, v.ct, Held(v.ct, Map, v.val)))
    BY <1>5 DEF ValMove, Held
  <1>6. ASSUME v.id \in Asts \ (List \cup Map)
        PROVE  ValMove(a, f, v, typed) = JsonableMove(a, f, v, typed)
    BY <1>6 DEF ValMove
  <1>7. ASSUME v.id \notin Asts \cup List \cup Map
        PROVE  ValMove(a, f, v, typed) = Writes(a, prim_token(v), Returned(f))
    BY <1>7 DEF ValMove
  <1> QED BY <1>1, <1>2, <1>3, <1>4, <1>5, <1>6, <1>7

LEMMA ValIs ==
  ASSUME NEW t, NEW ct, NEW val
  PROVE  Val(t, ct, val).id = t /\ Val(t, ct, val).ct = ct /\ Val(t, ct, val).val = val
  BY DEF Val

\* What an object does with the value of a member.
MemberToken(t, val) == CASE Kind[t] = "enum" -> name_of(t, val)
                         [] Kind[t] = "port" -> Str(valof(val))
                         [] OTHER -> prim_token(Val(t, t, val))
MemberContent(f) == IF f.slot \in Getter[f.id] THEN f.val[f.slot] ELSE <<>>

LEMMA MemberMove ==
  ASSUME NEW a, NEW f, NEW typed, NEW t, Last(a) = f, f.id \in Class, ObjectCall(f), f.pc = "value", t = Meta[f.id][f.slot]
  PROVE  /\ t \in List => \E ct \in TypeId \cup {"bool"} :
              /\ Move(a, typed) = Enters(a, "[", ListOf(t, ct, MemberContent(f)))
              /\ MemberContent(f) \in Content[t] /\ (ct = t \/ MemberContent(f) = <<>>)
         /\ t \in Map => \E ct \in TypeId \cup {"bool"} :
              /\ Move(a, typed) = Enters(a, Brace, MapOf(t, ct, MemberContent(f)))
              /\ MemberContent(f) \in Content[t] /\ (ct = t \/ MemberContent(f) = <<>>)
         /\ t \in Class => f.slot \in Getter[f.id] /\ Move(a, typed) = Enters(a, Brace, Object(t, f.val[f.slot], typed))
         /\ t \notin List \cup Map \cup Class =>
              f.slot \in Getter[f.id] /\ Move(a, typed) = Writes(a, MemberToken(t, f.val[f.slot]), Returned(f))
  <1>0. PICK k : k = f.slot
    OBVIOUS
  <1>1. /\ k \in DOMAIN Ast[f.id] /\ t = Ast[f.id][k]
        /\ f.val[k] \in Content[t] /\ t \in TypeId
        /\ k \in Getter[f.id] => ValueOf(f) = Val(t, t, f.val[k])
        /\ k \notin Getter[f.id] => (\E no : ValueOf(f) = Val(t, "bool", no)) /\ t \in List \cup Map
    <2>1. t = Meta[f.id][k]
      BY <1>0
    <2>2. /\ k \in DOMAIN Ast[f.id] /\ t = Ast[f.id][k]
        /\ f.val[k] \in Content[t] /\ t \in TypeId
      BY <1>0, <2>1, ObjectValue
    <2>3. k \in Getter[f.id] => ValueOf(f) = Val(t, t, f.val[k])
      BY <1>0, <2>1, ObjectValue
    <2>4. k \notin Getter[f.id] => \E no : ValueOf(f) = Val(t, "bool", no)
      BY <1>0, <2>1, ObjectValue
    <2>5. k \notin Getter[f.id] => t \in List \cup Map
      BY <1>0, <2>1, ObjectValue
    <2> QED BY <2>2, <2>3, <2>4, <2>5
  <1>2. CASE k \notin Getter[f.id]
    <2>1. "bool" \notin List /\ "bool" \notin Map
      BY WriterAssumption
    <2>0. PICK no : ValueOf(f) = Val(t, "bool", no)
      BY <1>1, <1>2
    <2>2. PICK v : v = Val(t, "bool", no)
      OBVIOUS
    <2>3. v = ValueOf(Last(a)) /\ Last(a).pc = "value" /\ t \in List \cup Map /\ t \in TypeId
      BY <1>1, <1>2, <2>0, <2>2
    <2>4. v.id = t /\ v.ct = "bool"
      BY <2>2, ValIs
    <2>5. Held("bool", List, v.val) = <<>> /\ Held("bool", Map, v.val) = <<>>
      BY <2>1 DEF Held
    <2>6. /\ t \in List => Move(a, typed) = Enters(a, "[", ListOf(t, "bool", <<>>))
          /\ t \in Map => Move(a, typed) = Enters(a, Brace, MapOf(t, "bool", <<>>))
      BY <2>3, <2>4, <2>5, ValueMove
    <2>7. MemberContent(f) = <<>> /\ <<>> \in Content[t]
      BY <1>0, <1>2, <2>3, ContentAssumption DEF MemberContent
    <2>8. t \notin Class
      BY <2>3, OneKind
    <2> QED BY <2>3, <2>6, <2>7, <2>8
  <1>3. CASE k \in Getter[f.id]
    <2>1. PICK x : x = f.val[k]
      OBVIOUS
    <2>2. PICK v : v = Val(t, t, x)
      OBVIOUS
    <2>3. v = ValueOf(Last(a)) /\ Last(a).pc = "value"
      BY <1>1, <1>3, <2>1, <2>2
    <2>4. v.id = t /\ v.ct = t /\ v.val = x
      BY <2>2, ValIs
    <2>5. MemberContent(f) = x /\ x \in Content[t]
      BY <1>0, <1>1, <1>3, <2>1 DEF MemberContent
    <2>6. CASE t \in List
      <3>1. Held(t, List, x) = x /\ t \notin Class /\ t \notin Map
        BY <2>6, OneKind DEF Held
      <3>2. Move(a, typed) = Enters(a, "[", ListOf(t, t, x))
        BY <2>3, <2>4, <2>6, <3>1, ValueMove
      <3> QED BY <1>1, <2>5, <2>6, <3>1, <3>2
    <2>7. CASE t \in Map
      <3>1. Held(t, Map, x) = x /\ t \notin Class /\ t \notin List
        BY <2>7, OneKind DEF Held
      <3>2. Move(a, typed) = Enters(a, Brace, MapOf(t, t, x))
        BY <2>3, <2>4, <2>7, <3>1, ValueMove
      <3> QED BY <1>1, <2>5, <2>7, <3>1, <3>2
    <2>8. CASE t \in Class
      <3>1. t \in Asts /\ t \notin List /\ t \notin Map /\ Kind[t] = "object"
        BY <2>8, ClassIs
      <3>2. Move(a, typed) = JsonableMove(a, f, v, typed)
        BY <2>3, <2>4, <3>1, ValueMove
      <3>3. JsonableMove(a, f, v, typed) = EnterObject(a, f, t, x, typed)
        BY <2>4, <3>1 DEF JsonableMove
      <3>4. EnterObject(a, f, t, x, typed) = Enters(a, Brace, Object(t, x, typed))
        BY <2>5, <2>8, Entered
      <3> QED BY <1>0, <1>3, <2>1, <2>8, <3>1, <3>2, <3>3, <3>4
    <2>9. CASE t \notin List \cup Map \cup Class
      <3>1. t \in Asts <=> Kind[t] \in {"enum", "port"}
        BY <1>1, <2>9, WriterAssumption DEF Class
      <3>2. CASE t \in Asts
        <4>1. Move(a, typed) = JsonableMove(a, f, v, typed)
          BY <2>3, <2>4, <2>9, <3>2, ValueMove
        <4>2. JsonableMove(a, f, v, typed) = Writes(a, MemberToken(t, x), Returned(f))
          BY <2>4, <3>1, <3>2 DEF JsonableMove, MemberToken
        <4> QED BY <1>0, <1>3, <2>1, <2>9, <4>1, <4>2
      <3>3. CASE t \notin Asts
        <4>1. Move(a, typed) = Writes(a, prim_token(v), Returned(f))
          BY <2>3, <2>4, <2>9, <3>3, ValueMove
        <4>2. MemberToken(t, x) = prim_token(v)
          BY <2>2, <3>1, <3>3 DEF MemberToken
        <4> QED BY <1>0, <1>3, <2>1, <2>9, <4>1, <4>2
      <3> QED BY <3>2, <3>3
    <2> QED BY <2>6, <2>7, <2>8, <2>9
  <1> QED BY <1>2, <1>3

-----------------------------------------------------------------------------
\* A move that writes nothing changes the innermost activation only, and
\* leaves what the reader has right.
Silent(a, typed, f, d, nd, v, i) ==
  \E g : /\ Move(a, typed).calls = OnTop(a, g)
         /\ g.id = f.id /\ g.val = f.val /\ At(g, d, nd, v, i)

LEMMA SilentObject ==
  ASSUME NEW a, NEW f, NEW typed, NEW d, NEW nd, NEW v, NEW i, Last(a) = f, f.id \in Class, At(f, d, nd, v, i),
         Move(a, typed).out = <<>>
  PROVE  Silent(a, typed, f, d, nd, v, i)
  <1>1. ObjectAt(f, d, nd, v, i) /\ ObjectCall(f)
    BY ClassIs DEF At, ObjectAt
  <1>2. f.pc \in ObjectPcs /\ (f.pc \in AtTheHead => f.keys = {} /\ ~f.last) /\ (f.pc = "field" => f.keys # {})
    BY <1>1 DEF ObjectCall, ObjectCalls
  <1>3. ASSUME NEW g, Move(a, typed) = Goes(a, g), ObjectCall(g), Ahead(g) = Ahead(f),
               g.id = f.id, g.val = f.val, g.pc \notin {"value", "type_text"}
        PROVE  Silent(a, typed, f, d, nd, v, i)
    <2>1. At(g, d, nd, v, i)
      BY <1>3, ObjectStays
    <2>2. Move(a, typed).calls = OnTop(a, g)
      BY <1>3, NoToken
    <2> QED BY <1>3, <2>1, <2>2 DEF Silent
  <1>4. ASSUME NEW x, NEW g, Move(a, typed) = Writes(a, x, g)
        PROVE  FALSE
    BY <1>4, SomeToken
  <1>5. CASE f.pc \in {"type", "type_text", "type_comma"}
    <2>1. Move(a, typed) = EnvelopeMove(a, f)
      BY <1>5 DEF Move
    <2> QED BY <1>4, <1>5, <2>1 DEF EnvelopeMove
  <1>6. CASE f.pc = "kvs"
    <2>1. Move(a, typed) = KvsMove(a, f, typed)
      BY <1>6 DEF Move
    <2>2. KvsMove(a, f, typed) = Goes(a, Based(f, typed))
      BY <1>6 DEF KvsMove, Based
    <2>3. PICK g : g = Based(f, typed)
      OBVIOUS
    <2>4. /\ ObjectCall(g) /\ Ahead(g) = Ahead(f)
          /\ g.id = f.id /\ g.val = f.val /\ g.pc \in {"base_comma", "fields"}
      BY <1>1, <1>6, <2>3, BasedIs
    <2> QED BY <1>3, <2>1, <2>2, <2>3, <2>4
  <1>7. CASE f.pc = "base_comma"
    <2>1. Move(a, typed) = KvsMove(a, f, typed)
      BY <1>7 DEF Move
    <2> QED BY <1>4, <1>7, <2>1 DEF KvsMove
  <1>8. CASE f.pc \in {"fields", "field"}
    <2>1. Move(a, typed) = FieldsMove(a, f)
      BY <1>8 DEF Move
    <2>2. CASE f.pc = "field"
      BY <1>4, <2>1, <2>2 DEF FieldsMove, Named
    <2>3. CASE f.pc = "fields" /\ f.keys = {}
      <3>1. PICK x : x = IF f.last THEN "close" ELSE "kvs"
        OBVIOUS
      <3>2. PICK g : g = [f EXCEPT !.pc = x]
        OBVIOUS
      <3>3. FieldsMove(a, f) = Goes(a, g)
        BY <2>3, <3>1, <3>2 DEF FieldsMove
      <3>4. /\ x \in ObjectPcs /\ x # "value" /\ x # "field" /\ x # "type_text"
            /\ x \in AtTheHead => f.keys = {} /\ ~f.last
            /\ x = "close" => f.keys = {} /\ f.last
        BY <2>3, <3>1 DEF ObjectPcs, AtTheHead
      <3>5. ObjectCall(g) /\ Ahead(g) = Ahead(f) /\ g.id = f.id /\ g.val = f.val /\ g.pc = x
        BY <1>1, <3>2, <3>4, ObjectGoesTo
      <3> QED BY <1>3, <2>1, <3>3, <3>4, <3>5
    <2>4. CASE f.pc = "fields" /\ f.keys # {} /\ ~f.first
      BY <1>4, <2>1, <2>4 DEF FieldsMove
    <2>5. CASE f.pc = "fields" /\ f.keys # {} /\ f.first
      <3>1. PICK g : g = [f EXCEPT !.pc = "field"]
        OBVIOUS
      <3>2. FieldsMove(a, f) = Goes(a, g)
        BY <2>5, <3>1 DEF FieldsMove
      <3>3. "field" \in ObjectPcs /\ "field" \notin AtTheHead
        BY DEF ObjectPcs, AtTheHead
      <3>4. ObjectCall(g) /\ Ahead(g) = Ahead(f) /\ g.id = f.id /\ g.val = f.val /\ g.pc = "field"
        BY <1>1, <2>5, <3>1, <3>3, ObjectGoesTo
      <3> QED BY <1>3, <2>1, <3>2, <3>4
    <2> QED BY <1>8, <2>2, <2>3, <2>4, <2>5
  <1>9. CASE f.pc = "value"
    <2>1. PICK t : t = Meta[f.id][f.slot]
      OBVIOUS
    <2>2. t \in TypeId
      BY <1>1, <1>9, <2>1, ObjectValue
    <2>3. CASE t \in List
      BY <1>1, <1>9, <2>1, <2>3, MemberMove, SomeToken
    <2>4. CASE t \in Map
      BY <1>1, <1>9, <2>1, <2>4, MemberMove, SomeToken
    <2>5. CASE t \in Class
      BY <1>1, <1>9, <2>1, <2>5, MemberMove, SomeToken
    <2>6. CASE t \notin List \cup Map \cup Class
      BY <1>1, <1>9, <2>1, <2>6, MemberMove, SomeToken
    <2> QED BY <2>3, <2>4, <2>5, <2>6
  <1>10. CASE f.pc = "close"
    <2>1. Move(a, typed) = CloseMove(a, f)
      BY <1>10 DEF Move
    <2> QED BY <2>1, BracketOut
  <1> QED BY <1>2, <1>5, <1>6, <1>7, <1>8, <1>9, <1>10 DEF ObjectPcs, AtTheHead

\* The value a list or a map is at, and what the writer does with it.
Element(f) == IF f.id \in List THEN f.val[f.next] ELSE f.val[f.slot]
Elemental(f) == (f.id \in List /\ ListCall(f)) \/ (f.id \in Map /\ MapCall(f))

LEMMA ElementIs ==
  ASSUME NEW f, NEW e, f.pc = "value", Elemental(f), e = Elem[f.id].id
  PROVE  /\ ValueOf(f) = Val(e, e, Element(f))
         /\ Element(f) \in Content[e] \/ (Element(f) = NullPtr /\ f.id \in List /\ Elem[f.id].ptr)
         /\ f.id \in Map => e \notin Class
  <1>1. CASE f.id \in List /\ ListCall(f)
    <2>1. /\ f.val \in Content[f.id] /\ (f.ct = f.id \/ f.val = <<>>) /\ f.next \in Nat \ {0} /\ f.next <= Len(f.val)
      BY <1>1 DEF ListCall, ListCalls
    <2>2. Len(f.val) \in Nat /\ \A i \in 1..Len(f.val) : f.val[i] \in Content[e] \/ (Elem[f.id].ptr /\ f.val[i] = NullPtr)
      BY <1>1, <2>1, ListContent
    <2>3. f.next \in 1..Len(f.val)
      BY <2>1, <2>2
    <2>4. f.val # <<>>
      BY <2>3, EmptySeq
    <2>5. f.id \notin Map
      BY <1>1, OneKind
    <2>6. ValueOf(f) = Val(e, e, f.val[f.next])
      BY <1>1, <2>1, <2>4, <2>5 DEF ValueOf
    <2>7. Element(f) = f.val[f.next]
      BY <1>1 DEF Element
    <2> QED BY <1>1, <2>2, <2>3, <2>5, <2>6, <2>7
  <1>2. CASE f.id \in Map /\ MapCall(f)
    <2>1. /\ f.val \in Content[f.id] /\ (f.ct = f.id \/ f.val = <<>>) /\ f.slot \in DOMAIN f.val
          /\ e \notin Asts
      BY <1>2 DEF MapCall, MapCalls
    <2>2. f.id \notin List
      BY <1>2, OneKind
    <2>3. f.val[f.slot] \in Content[e]
      BY <1>2, <2>1, MapContent
    <2>4. f.val # <<>>
      BY <2>1, EmptySeq
    <2>5. ValueOf(f) = Val(e, e, f.val[f.slot])
      BY <1>2, <2>1, <2>2, <2>4 DEF ValueOf
    <2>6. e \notin Class
      BY <2>1, ClassIs
    <2>7. Element(f) = f.val[f.slot]
      BY <2>2 DEF Element
    <2> QED BY <1>2, <2>3, <2>5, <2>6, <2>7
  <1> QED BY <1>1, <1>2 DEF Elemental

LEMMA ElementMove ==
  ASSUME NEW a, NEW f, NEW e, NEW typed, NEW x, Last(a) = f, f.pc = "value", Elemental(f), e = Elem[f.id].id, x = Element(f)
  PROVE  /\ x = NullPtr => Move(a, typed) = Goes(a, Returned(f)) /\ f.id \in List
         /\ x # NullPtr => x \in Content[e]
         /\ x # NullPtr /\ e \in Class => Move(a, typed) = Enters(a, Brace, Object(e, x, typed)) /\ f.id \in List
         /\ e \in List => Move(a, typed) = Enters(a, "[", ListOf(e, e, x)) /\ x # NullPtr
         /\ e \notin Class \cup List => Move(a, typed) = Writes(a, prim_token(Val(e, e, x)), Returned(f)) /\ x # NullPtr
  <1>0. f.id \in List \cup Map
    BY DEF Elemental
  <1>1. /\ e \in TypeId /\ Kind[e] \in {"object", "list", "int", "bool", "string", "var"}
        /\ e \in Asts <=> e \in Class
        /\ Elem[f.id].ptr => e \in Class
    BY <1>0, ElemIs
  <1>2. e \notin Map /\ (e \in Class => e \notin List)
    BY <1>1, OneKind DEF Map
  <1>3. PICK v : v = Val(e, e, x)
    OBVIOUS
  <1>4. /\ ValueOf(f) = v
        /\ x \in Content[e] \/ (x = NullPtr /\ f.id \in List /\ Elem[f.id].ptr)
        /\ f.id \in Map => e \notin Class
    BY <1>3, ElementIs
  <1>5. v.id = e /\ v.ct = e /\ v.val = x /\ v = ValueOf(Last(a)) /\ Last(a).pc = "value"
    BY <1>3, <1>4, ValIs
  <1>6. NullPtr \notin Content[e]
    BY <1>1, NotNull
  <1>7. CASE e \in List
    <2>1. Held(e, List, x) = x
      BY <1>7 DEF Held
    <2>2. Move(a, typed) = Enters(a, "[", ListOf(e, e, x))
      BY <1>5, <1>7, <2>1, ValueMove
    <2>3. e \notin Class
      BY <1>7, OneKind
    <2> QED BY <1>1, <1>4, <1>6, <1>7, <2>2, <2>3
  <1>8. CASE e \in Class
    <2>1. Move(a, typed) = JsonableMove(a, f, v, typed)
      BY <1>1, <1>2, <1>5, <1>8, ValueMove
    <2>2. Kind[e] = "object" /\ e \notin List /\ f.id \in List
      BY <1>0, <1>2, <1>4, <1>8 DEF Class
    <2>3. JsonableMove(a, f, v, typed) = EnterObject(a, f, e, x, typed)
      BY <1>5, <2>2 DEF JsonableMove
    <2>4. x = NullPtr => EnterObject(a, f, e, x, typed) = Goes(a, Returned(f))
      BY DEF EnterObject
    <2>5. x # NullPtr => EnterObject(a, f, e, x, typed) = Enters(a, Brace, Object(e, x, typed))
      BY <2>2 DEF EnterObject
    <2> QED BY <1>4, <1>8, <2>1, <2>2, <2>3, <2>4, <2>5
  <1>9. CASE e \notin Class \cup List
    <2>1. Move(a, typed) = Writes(a, prim_token(v), Returned(f))
      BY <1>1, <1>2, <1>5, <1>9, ValueMove
    <2> QED BY <1>1, <1>3, <1>4, <1>6, <1>9, <2>1
  <1> QED BY <1>7, <1>8, <1>9

\* The activation f at another place.
To(f, x) == [f EXCEPT !.pc = x]

LEMMA ListGoesTo ==
  ASSUME NEW f, NEW x, NEW d, NEW nd, NEW v, NEW i, f.id \in List, At(f, d, nd, v, i),
         x \in {"value", "close"}, x = "value" => f.next <= Len(f.val), x = "close" => f.next = Len(f.val) + 1
  PROVE  At(To(f, x), d, nd, v, i) /\ To(f, x).id = f.id /\ To(f, x).val = f.val
  <1>0. PICK g : g = To(f, x)
    OBVIOUS
  <1>1. ListAt(f, d, nd, v, i) /\ f \in ListCalls(f.id)
    BY OneKind DEF At, ListAt, ListCall
  <1>2. g \in ListCalls(f.id) /\ g.id = f.id /\ g.val = f.val /\ g.next = f.next /\ g.pc = x /\ g.ct = f.ct
    BY <1>0, <1>1 DEF ListCalls, To
  <1>3. ListCall(g)
    BY <1>1, <1>2 DEF ListAt, ListCall
  <1>4. ListAt(g, d, nd, v, i)
    BY <1>1, <1>2, <1>3 DEF ListAt
  <1> QED BY <1>0, <1>2, <1>4 DEF At

LEMMA SilentList ==
  ASSUME NEW a, NEW f, NEW typed, NEW d, NEW nd, NEW v, NEW i, Last(a) = f, f.id \in List, At(f, d, nd, v, i),
         Move(a, typed).out = <<>>
  PROVE  Silent(a, typed, f, d, nd, v, i)
  <1>1. ListAt(f, d, nd, v, i) /\ ListCall(f) /\ f.val \in Content[f.id]
    BY OneKind DEF At, ListAt, ListCall, ListCalls
  <1>2. f.pc \in {"elems", "value", "close"} /\ f.next \in Nat \ {0} /\ f.next <= Len(f.val) + 1 /\ Len(f.val) \in Nat
    BY <1>1, ListContent DEF ListCall, ListCalls
  <1>3. ASSUME NEW x, NEW g, Move(a, typed) = Writes(a, x, g) \/ Move(a, typed) = Enters(a, x, g)
        PROVE  FALSE
    BY <1>3, SomeToken
  <1>4. ASSUME NEW x, Move(a, typed) = Goes(a, To(f, x)), x \in {"value", "close"},
               x = "value" => f.next <= Len(f.val), x = "close" => f.next = Len(f.val) + 1
        PROVE  Silent(a, typed, f, d, nd, v, i)
    <2>1. At(To(f, x), d, nd, v, i) /\ To(f, x).id = f.id /\ To(f, x).val = f.val
      BY <1>4, ListGoesTo
    <2>2. Move(a, typed).calls = OnTop(a, To(f, x))
      BY <1>4, NoToken
    <2> QED BY <2>1, <2>2 DEF Silent
  <1>5. CASE f.pc = "elems"
    <2>1. Move(a, typed) = ListMove(a, f)
      BY <1>5 DEF Move
    <2>2. CASE f.next > Len(f.val)
      <3>1. ListMove(a, f) = Goes(a, To(f, "close"))
        BY <1>2, <2>2 DEF ListMove, To
      <3> QED BY <1>2, <1>4, <2>1, <2>2, <3>1
    <2>3. CASE f.next <= Len(f.val) /\ f.next > 1
      <3>1. ListMove(a, f) = Writes(a, Comma, [f EXCEPT !.pc = "value"])
        BY <1>2, <2>3 DEF ListMove
      <3> QED BY <1>3, <2>1, <3>1
    <2>4. CASE f.next <= Len(f.val) /\ ~(f.next > 1)
      <3>1. ListMove(a, f) = Goes(a, To(f, "value"))
        BY <1>2, <2>4 DEF ListMove, To
      <3> QED BY <1>4, <2>1, <2>4, <3>1
    <2> QED BY <1>2, <2>2, <2>3, <2>4
  <1>6. CASE f.pc = "value"
    <2>1. PICK e, x : e = Elem[f.id].id /\ x = Element(f)
      OBVIOUS
    <2>2. Elemental(f)
      BY <1>1 DEF Elemental
    <2>3. CASE x # NullPtr
      <3>1. CASE e \in List
        BY <1>3, <1>6, <2>1, <2>2, <3>1, ElementMove
      <3>2. CASE e \in Class
        BY <1>3, <1>6, <2>1, <2>2, <2>3, <3>2, ElementMove
      <3>3. CASE e \notin Class \cup List
        BY <1>3, <1>6, <2>1, <2>2, <3>3, ElementMove
      <3> QED BY <3>1, <3>2, <3>3
    <2>4. CASE x = NullPtr
      <3>1. PICK g : g = Returned(f)
        OBVIOUS
      <3>2. Move(a, typed) = Goes(a, g)
        BY <1>6, <2>1, <2>2, <2>4, <3>1, ElementMove
      <3>3. g = [f EXCEPT !.pc = "elems", !.next = f.next + 1]
        BY <3>1, OneKind DEF Returned
      <3>4. f.next <= Len(f.val) /\ f.val[f.next] = NullPtr
        BY <1>1, <1>6, <2>1, <2>4 DEF ListCall, Element
      <3>5. g \in ListCalls(f.id) /\ g.id = f.id /\ g.val = f.val /\ g.next = f.next + 1 /\ g.ct = f.ct /\ g.pc = "elems"
        <4>1. f \in ListCalls(f.id) /\ f.next + 1 \in Nat \ {0}
          BY <1>1, <1>2 DEF ListCall
        <4> QED BY <3>3, <4>1 DEF ListCalls
      <3>6. ListCall(g) /\ g.next - 1 = f.next
        BY <1>1, <1>2, <3>4, <3>5 DEF ListCall
      <3>7. Written(e, f.val, Inside(i)[e], f.next) = Written(e, f.val, Inside(i)[e], f.next - 1)
        <4>1. f.next \in 1..Len(f.val) /\ Absent(e, f.val[f.next])
          BY <1>2, <3>4 DEF Absent
        <4> QED BY <1>2, <4>1, WrittenIs
      <3>8. ListAt(g, d, nd, v, i)
        BY <1>1, <2>1, <3>5, <3>6, <3>7 DEF ListAt
      <3>9. At(g, d, nd, v, i)
        BY <3>5, <3>8 DEF At
      <3> QED BY <3>2, <3>5, <3>9, NoToken DEF Silent
    <2> QED BY <2>3, <2>4
  <1>7. CASE f.pc = "close"
    <2>1. Move(a, typed) = CloseMove(a, f)
      BY <1>7 DEF Move
    <2> QED BY <2>1, BracketOut
  <1> QED BY <1>2, <1>5, <1>6, <1>7

\* A map at another place.
LEMMA MapIs ==
  ASSUME NEW f, NEW d, NEW nd, NEW v, NEW i, f.id \in Map, At(f, d, nd, v, i)
  PROVE  /\ MapAt(f, d, nd, v, i) /\ MapCall(f) /\ f \in MapCalls(f.id) /\ f.val \in Content[f.id]
         /\ f.pc \in {"entries", "entry", "object", "value", "close"}
  <1>1. MapAt(f, d, nd, v, i) /\ MapCall(f) /\ f \in MapCalls(f.id)
    BY OneKind DEF At, MapAt, MapCall
  <1> QED BY <1>1 DEF MapCalls

LEMMA MapGoesTo ==
  ASSUME NEW f, NEW x, NEW d, NEW nd, NEW v, NEW i, f.id \in Map, At(f, d, nd, v, i), f.pc # "object",
         x \in {"entry", "close"}, x = "entry" => f.keys # {}, x = "close" => f.keys = {}
  PROVE  At(To(f, x), d, nd, v, i) /\ To(f, x).id = f.id /\ To(f, x).val = f.val
  <1>0. PICK g : g = To(f, x)
    OBVIOUS
  <1>1. MapAt(f, d, nd, v, i) /\ MapCall(f) /\ f \in MapCalls(f.id)
    BY MapIs
  <1>2. /\ g \in MapCalls(f.id) /\ g.id = f.id /\ g.val = f.val /\ g.keys = f.keys /\ g.pc = x /\ g.ct = f.ct
    BY <1>0, <1>1 DEF MapCalls, To
  <1>3. MapCall(g)
    BY <1>1, <1>2 DEF MapCall
  <1>4. Goal(g, i) = Goal(f, i)
    BY <1>2 DEF Goal
  <1>5. \A k : Awaits(g, k) <=> Awaits(f, k)
    BY <1>2 DEF Awaits
  <1>6. MapAt(g, d, nd, v, i)
    BY <1>1, <1>2, <1>3, <1>4, <1>5 DEF MapAt
  <1> QED BY <1>0, <1>2, <1>6 DEF At

LEMMA NextIs ==
  ASSUME NEW keys, keys # {}
  PROVE  NextOf(keys) \in keys
  BY DEF NextOf

LEMMA SilentMap ==
  ASSUME NEW a, NEW f, NEW typed, NEW d, NEW nd, NEW v, NEW i, Last(a) = f, f.id \in Map, At(f, d, nd, v, i),
         Move(a, typed).out = <<>>
  PROVE  Silent(a, typed, f, d, nd, v, i)
  <1>1. /\ MapAt(f, d, nd, v, i) /\ MapCall(f) /\ f \in MapCalls(f.id) /\ f.val \in Content[f.id]
        /\ f.pc \in {"entries", "entry", "object", "value", "close"}
    BY MapIs
  <1>2. Elem[f.id].id \in Asts <=> Elem[f.id].id \in Class
    BY ElemIs
  <1>3. ASSUME NEW x, NEW g, Move(a, typed) = Writes(a, x, g) \/ Move(a, typed) = Enters(a, x, g)
        PROVE  FALSE
    BY <1>3, SomeToken
  <1>4. ASSUME NEW x, Move(a, typed) = Goes(a, To(f, x)), x \in {"entry", "close"}, f.pc # "object",
               x = "entry" => f.keys # {}, x = "close" => f.keys = {}
        PROVE  Silent(a, typed, f, d, nd, v, i)
    <2>1. At(To(f, x), d, nd, v, i) /\ To(f, x).id = f.id /\ To(f, x).val = f.val
      BY <1>4, MapGoesTo
    <2>2. Move(a, typed).calls = OnTop(a, To(f, x))
      BY <1>4, NoToken
    <2> QED BY <2>1, <2>2 DEF Silent
  <1>5. CASE f.pc = "entries"
    <2>1. Move(a, typed) = MapMove(a, f, typed)
      BY <1>5 DEF Move
    <2>2. CASE f.keys = {}
      <3>1. MapMove(a, f, typed) = Goes(a, To(f, "close"))
        BY <1>5, <2>2 DEF MapMove, To
      <3> QED BY <1>4, <1>5, <2>1, <2>2, <3>1
    <2>3. CASE f.keys # {} /\ ~f.first
      <3>1. MapMove(a, f, typed) = Writes(a, Comma, [f EXCEPT !.pc = "entry"])
        BY <1>5, <2>3 DEF MapMove
      <3> QED BY <1>3, <2>1, <3>1
    <2>4. CASE f.keys # {} /\ f.first
      <3>1. MapMove(a, f, typed) = Goes(a, To(f, "entry"))
        BY <1>5, <2>4 DEF MapMove, To
      <3> QED BY <1>4, <1>5, <2>1, <2>4, <3>1
    <2> QED BY <2>2, <2>3, <2>4
  <1>6. CASE f.pc = "entry"
    <2>1. Move(a, typed) = MapMove(a, f, typed)
      BY <1>6 DEF Move
    <2>2. PICK k : k = NextOf(f.keys)
      OBVIOUS
    <2>3. f.keys # {} /\ k \in f.keys /\ f.keys \subseteq DOMAIN f.val
      BY <1>1, <1>6, <2>2, NextIs DEF MapCall
    <2>4. CASE Elem[f.id].id \notin Asts
      <3>1. MapMove(a, f, typed) = Named(a, f, k, RawKey(k))
        BY <1>6, <2>2, <2>4 DEF MapMove
      <3> QED BY <1>3, <2>1, <3>1 DEF Named
    <2>5. CASE Elem[f.id].id \in Asts
      <3>1. PICK g : g = [f EXCEPT !.pc = "object", !.slot = k, !.keys = @ \ {k}, !.first = FALSE]
        OBVIOUS
      <3>2. MapMove(a, f, typed) = Goes(a, g)
        BY <1>6, <2>2, <2>5, <3>1 DEF MapMove
      <3>3. /\ g \in MapCalls(f.id) /\ g.id = f.id /\ g.val = f.val /\ g.keys = f.keys \ {k} /\ g.slot = k
            /\ g.ct = f.ct /\ g.pc = "object"
        <4>1. k \in Key
          BY <1>1, <2>3 DEF MapCalls
        <4> QED BY <1>1, <3>1, <4>1 DEF MapCalls
      <3>4. MapCall(g)
        BY <1>1, <1>2, <2>3, <2>5, <3>3 DEF MapCall
      <3>5. MapAt(g, d, nd, v, i)
        BY <1>1, <3>3, <3>4 DEF MapAt
      <3>6. At(g, d, nd, v, i)
        BY <3>3, <3>5 DEF At
      <3> QED BY <2>1, <3>2, <3>3, <3>6, NoToken DEF Silent
    <2> QED BY <2>4, <2>5
  <1>7. CASE f.pc = "object"
    <2>1. Move(a, typed) = MapMove(a, f, typed)
      BY <1>7 DEF Move
    <2>2. Elem[f.id].id \in Class /\ f.slot \in DOMAIN f.val /\ (f.ct = f.id \/ f.val = <<>>)
      BY <1>1, <1>7 DEF MapCall
    <2>3. f.val # <<>>
      BY <2>2, EmptySeq
    <2>4. f.ct = f.id /\ f.val[f.slot] \in Content[Elem[f.id].id]
      BY <1>1, <2>2, <2>3, MapContent
    <2>5. MapMove(a, f, typed) = EnterObject(a, f, Elem[f.id].id, f.val[f.slot], typed)
      BY <1>7, <2>4 DEF MapMove
    <2>6. EnterObject(a, f, Elem[f.id].id, f.val[f.slot], typed) = Enters(a, Brace, Object(Elem[f.id].id, f.val[f.slot], typed))
      BY <2>2, <2>4, Entered
    <2> QED BY <1>3, <2>1, <2>5, <2>6
  <1>8. CASE f.pc = "value"
    <2>1. PICK e, x : e = Elem[f.id].id /\ x = Element(f)
      OBVIOUS
    <2>2. Elemental(f) /\ f.id \notin List
      BY <1>1, OneKind DEF Elemental
    <2>3. CASE x # NullPtr
      <3>1. CASE e \in List
        BY <1>3, <1>8, <2>1, <2>2, <3>1, ElementMove
      <3>2. CASE e \in Class
        BY <1>3, <1>8, <2>1, <2>2, <2>3, <3>2, ElementMove
      <3>3. CASE e \notin Class \cup List
        BY <1>3, <1>8, <2>1, <2>2, <3>3, ElementMove
      <3> QED BY <3>1, <3>2, <3>3
    <2>4. CASE x = NullPtr
      BY <1>8, <2>1, <2>2, <2>4, ElementMove
    <2> QED BY <2>3, <2>4
  <1>9. CASE f.pc = "close"
    <2>1. Move(a, typed) = CloseMove(a, f)
      BY <1>9 DEF Move
    <2> QED BY <2>1, BracketOut
  <1> QED BY <1>1, <1>5, <1>6, <1>7, <1>8, <1>9

LEMMA SilentMove ==
  ASSUME NEW a, NEW f, NEW typed, NEW d, NEW nd, NEW v, NEW i, Last(a) = f, At(f, d, nd, v, i), Move(a, typed).out = <<>>
  PROVE  Silent(a, typed, f, d, nd, v, i)
  <1>1. f.id \in Class \/ f.id \in List \/ f.id \in Map
    BY DEF At
  <1> QED BY <1>1, SilentObject, SilentList, SilentMap

LEMMA SilentMatch ==
  ASSUME NEW a, NEW typed, NEW b, Match(a), a # <<>>, Move(a, typed).out = <<>>, b = Move(a, typed).calls
  PROVE  Match(b)
  <1> DEFINE n == Len(doc)
  <1>1. DocOK /\ StackOK /\ doc # <<>> /\ Nested(a)
    BY DEF Match
  <1>2. /\ n \in 1..MaxDepth /\ n \in Nat \ {0} /\ n > 0 /\ n \in 1..n
        /\ IsSeq(a, n) /\ Len(stack) = n /\ Levels(a, doc, stack, inst, n) /\ KeysOK(doc, active_key)
        /\ a[1].id = RootType /\ a[1].val = obj
    BY <1>1 DEF Nested
  <1> HIDE DEF n
  <1>3. PICK f : f = a[n]
    OBVIOUS
  <1>4. Last(a) = f /\ Len(a) = n
    BY <1>2, <1>3, LastIs
  <1>5. At(f, doc[n], stack[n], inst[n], n)
    BY <1>2, <1>3 DEF Levels
  <1>6. PICK g : /\ b = OnTop(a, g)
                 /\ g.id = f.id /\ g.val = f.val /\ At(g, doc[n], stack[n], inst[n], n)
    BY <1>4, <1>5, SilentMove DEF Silent
  <1>7. IsSeq(b, n) /\ Agree(b, a, n - 1) /\ b[n] = g
    BY <1>2, <1>6, ReplacedIs
  <1>8. Agree(doc, doc, n - 1) /\ Agree(stack, stack, n - 1) /\ Agree(inst, inst, n - 1)
    BY DEF Agree
  <1>9. Levels(b, doc, stack, inst, n)
    <2>1. /\ At(b[n], doc[n], stack[n], inst[n], n)
          /\ b[n].id = a[n].id /\ b[n].val = a[n].val /\ stack[n].activekey = stack[n].activekey
      BY <1>3, <1>6, <1>7
    <2> QED BY <1>2, <1>7, <1>8, <2>1, LevelsTop
  <1>10. b[1].id = RootType /\ b[1].val = obj
    <2>1. CASE n = 1
      BY <1>2, <1>3, <1>6, <1>7, <2>1
    <2>2. CASE n # 1
      <3>1. 1 \in 1..(n - 1)
        BY <1>2, <2>2
      <3> QED BY <1>2, <1>7, <3>1 DEF Agree
    <2> QED BY <2>1, <2>2
  <1>11. Nested(b)
    BY <1>2, <1>7, <1>9, <1>10 DEF Nested, n
  <1> QED BY <1>1, <1>11 DEF Match

-----------------------------------------------------------------------------
\* What is entered: nothing of it is written, nothing of it read.
Opened(d, b, t) == d.open = b /\ d.ty = t /\ d.key = NoKey
NodeOf(nd, t, id, ptr, list, map) ==
  nd.ty = t /\ nd.val_astid = id /\ nd.is_val_ptr = ptr /\ nd.is_list = list /\ nd.is_map = map

LEMMA EmptyIsFunction == DOMAIN <<>> = {} /\ <<>> = [k \in {} |-> <<>>[k]]
  <1>0. PICK v : v = <<>>
    OBVIOUS
  <1>1. v \in Seq({}) /\ Len(v) = 0
    BY <1>0, EmptySeq
  <1>2. DOMAIN v = {}
    BY <1>1, LenProperties
  <1>3. v = [k \in 1..Len(v) |-> v[k]]
    BY <1>1, SeqIsSeq DEF IsSeq
  <1>4. 1..Len(v) = {}
    BY <1>1
  <1> QED BY <1>0, <1>2, <1>3, <1>4

LEMMA FreshObject ==
  ASSUME NEW c, NEW val, NEW typed, NEW d, NEW nd, NEW v, NEW i \in 1..MaxDepth,
         c \in Class, val \in Content[c], Opened(d, Brace, c), NodeOf(nd, c, c, FALSE, FALSE, FALSE),
         i > 1 => nd.activekey # NoKey, v = Fresh[c]
  PROVE  At(Object(c, val, typed), d, nd, v, i) /\ Object(c, val, typed).id = c /\ Object(c, val, typed).val = val
  <1>0. PICK f : f = Object(c, val, typed)
    OBVIOUS
  <1>1. /\ f.id = c /\ f.ct = c /\ f.val = val /\ f.at = c /\ ~f.last /\ f.keys = {} /\ f.pc \in {"type", "kvs"}
        /\ f \in ObjectCalls(c)
    BY <1>0 DEF Object, ObjectCalls, ObjectPcs, AtTheHead
  <1>2. /\ \A k \in FieldsAbove(c) : Ast[BaseAst[c]][k] = Ast[c][k]
        /\ \A k \in DOMAIN OwnAst[c] : k \in DOMAIN Ast[c] /\ OwnAst[c][k] = Ast[c][k]
        /\ DOMAIN Ast[c] = DOMAIN OwnAst[c] \cup FieldsAbove(c)
    BY ClassIs
  <1>3. Own(f) = c /\ Ahead(f) = DOMAIN Ast[c]
    BY <1>1, <1>2 DEF Own, Ahead
  <1>4. ObjectCall(f)
    BY <1>1, <1>2, <1>3 DEF ObjectCall, AtTheHead
  <1>5. Fresh[c] = [k \in DOMAIN Meta[c] |-> Fresh[c][k]]
    BY FreshAssumption
  <1>6. \A k \in DOMAIN Meta[c] : k \notin DOMAIN Ast[c] => Goal(f, i)[k] = Fresh[c][k]
    <2>1. PICK g : g = Inside(i - 1)[c][val]
      OBVIOUS
    <2>2. \A k \in DOMAIN Meta[c] : k \notin Answered(c) => g[k] = Fresh[c][k]
      BY <2>1, ObjectBecomes
    <2>3. Goal(f, i) = g
      BY <1>1, <2>1 DEF Goal
    <2> QED BY <2>2, <2>3 DEF Answered
  <1>7. ObjectAt(f, d, nd, v, i)
    BY <1>1, <1>3, <1>4, <1>5, <1>6 DEF ObjectAt, Opened, NodeOf
  <1>8. At(f, d, nd, v, i)
    BY <1>1, <1>7, Apart DEF At, Opened, NodeOf
  <1> QED BY <1>0, <1>1, <1>8

LEMMA FreshList ==
  ASSUME NEW t, NEW ct, NEW val, NEW d, NEW nd, NEW v, NEW i \in 1..MaxDepth,
         t \in List, ct \in TypeId \cup {"bool"}, val \in Content[t], ct = t \/ val = <<>>,
         Opened(d, "[", t), NodeOf(nd, t, Elem[t].id, Elem[t].ptr, TRUE, FALSE), nd.activekey # NoKey, v = <<>>
  PROVE  At(ListOf(t, ct, val), d, nd, v, i) /\ ListOf(t, ct, val).id = t /\ ListOf(t, ct, val).val = val
  <1>0. PICK f : f = ListOf(t, ct, val)
    OBVIOUS
  <1>1. /\ f.id = t /\ f.ct = ct /\ f.val = val /\ f.next = 1 /\ f.pc = "elems"
        /\ f \in ListCalls(t)
    BY <1>0 DEF ListOf, ListCalls
  <1>2. Len(val) \in Nat
    BY ListContent
  <1>3. ListCall(f)
    BY <1>1, <1>2 DEF ListCall
  <1>4. Written(Elem[t].id, val, Inside(i)[Elem[t].id], 0) = <<>>
    BY <1>2, WrittenIs
  <1>5. f.next - 1 = 0
    BY <1>1
  <1>6. ListAt(f, d, nd, v, i)
    BY <1>1, <1>3, <1>4, <1>5 DEF ListAt, Opened, NodeOf
  <1>7. At(f, d, nd, v, i)
    BY <1>1, <1>6, Apart DEF At, Opened, NodeOf
  <1> QED BY <1>0, <1>1, <1>7

LEMMA FreshMap ==
  ASSUME NEW t, NEW ct, NEW val, NEW d, NEW nd, NEW v, NEW i \in 1..MaxDepth,
         t \in Map, ct \in TypeId \cup {"bool"}, val \in Content[t], ct = t \/ val = <<>>,
         Opened(d, Brace, t), NodeOf(nd, t, Elem[t].id, FALSE, FALSE, TRUE), nd.activekey # NoKey, v = <<>>
  PROVE  At(MapOf(t, ct, val), d, nd, v, i) /\ MapOf(t, ct, val).id = t /\ MapOf(t, ct, val).val = val
  <1>0. PICK f : f = MapOf(t, ct, val)
    OBVIOUS
  <1>1. DOMAIN val \subseteq Key
    BY MapContent
  <1>2. /\ f.id = t /\ f.ct = ct /\ f.val = val /\ f.keys = DOMAIN val /\ f.pc = "entries"
        /\ f \in MapCalls(t)
    BY <1>0, <1>1 DEF MapOf, MapCalls
  <1>3. MapCall(f)
    BY <1>2 DEF MapCall
  <1>4. \A k \in DOMAIN Goal(f, i) : Awaits(f, k)
    <2>1. PICK g : g = Inside(i - 1)[t][val]
      OBVIOUS
    <2>2. \A k \in DOMAIN g : \E x \in DOMAIN val : AsRead(x) = k
      BY <2>1, MapKeys
    <2>3. Goal(f, i) = g
      BY <1>2, <2>1 DEF Goal
    <2> QED BY <1>2, <2>2, <2>3 DEF Awaits
  <1>5. v = [k \in DOMAIN v |-> v[k]] /\ DOMAIN v = {}
    BY EmptyIsFunction
  <1>6. \A k : k \in DOMAIN v <=> k \in DOMAIN Goal(f, i) /\ ~Awaits(f, k) /\ k # d.key
    BY <1>2, <1>4, <1>5
  <1>7. MapAt(f, d, nd, v, i)
    BY <1>2, <1>3, <1>5, <1>6 DEF MapAt, Opened, NodeOf, IsFun
  <1>8. At(f, d, nd, v, i)
    BY <1>2, <1>7, Apart DEF At, Opened, NodeOf
  <1> QED BY <1>0, <1>2, <1>8

-----------------------------------------------------------------------------
\* What is read of the value an activation is at: the reader's copy of the
\* content has taken it, and the activation goes on behind it.
SameNode(n, m) == /\ n.ty = m.ty /\ n.val_astid = m.val_astid /\ n.is_val_ptr = m.is_val_ptr
                  /\ n.is_list = m.is_list /\ n.is_map = m.is_map /\ n.activekey = m.activekey
Emptied(d2, d) == d2.open = d.open /\ d2.ty = d.ty /\ d2.key = NoKey

LEMMA ListTakes ==
  ASSUME NEW f, NEW d, NEW nd, NEW v, NEW i \in 1..MaxDepth, NEW d2, NEW nd2, NEW v2, NEW e, NEW x,
         At(f, d, nd, v, i), f.id \in List, f.pc = "value", Emptied(d2, d), SameNode(nd2, nd),
         e = Elem[f.id].id, x = Element(f),
         v2 = IF Absent(e, x) THEN v ELSE More(v, Inside(i)[e][x])
  PROVE  At(Returned(f), d2, nd2, v2, i) /\ Returned(f).id = f.id /\ Returned(f).val = f.val
  <1>1. ListAt(f, d, nd, v, i) /\ ListCall(f) /\ f \in ListCalls(f.id) /\ f.val \in Content[f.id]
    BY OneKind DEF At, ListAt, ListCall, ListCalls
  <1>2. /\ f.next \in Nat \ {0} /\ f.next <= Len(f.val) /\ Len(f.val) \in Nat
        /\ x = f.val[f.next]
    BY <1>1, ListContent DEF ListCall, ListCalls, Element
  <1>3. PICK g : g = Returned(f)
    OBVIOUS
  <1>4. g = [f EXCEPT !.pc = "elems", !.next = f.next + 1]
    BY <1>3, OneKind DEF Returned
  <1>5. f.next + 1 \in Nat \ {0}
    BY <1>2
  <1>6. /\ g \in ListCalls(f.id) /\ g.id = f.id /\ g.val = f.val /\ g.next = f.next + 1 /\ g.ct = f.ct /\ g.pc = "elems"
    BY <1>1, <1>4, <1>5 DEF ListCalls
  <1>7. ListCall(g) /\ g.next - 1 = f.next /\ f.next \in 1..Len(f.val)
    BY <1>1, <1>2, <1>6 DEF ListCall
  <1>8. v2 = Written(e, f.val, Inside(i)[e], f.next)
    <2>1. v = Written(e, f.val, Inside(i)[e], f.next - 1)
      BY <1>1 DEF ListAt
    <2>2. PICK s, h : s = f.val /\ h = Inside(i)[e]
      OBVIOUS
    <2>3. PICK n \in 1..Len(s) : n = f.next /\ s[n] = x /\ Len(s) \in Nat
      BY <1>2, <1>7, <2>2
    <2>4. /\ Absent(e, x) => Written(e, s, h, n) = Written(e, s, h, n - 1)
          /\ ~Absent(e, x) => Written(e, s, h, n) = More(Written(e, s, h, n - 1), h[x])
      BY <2>3, WrittenNext
    <2> QED BY <2>1, <2>2, <2>3, <2>4
  <1>9. ListAt(g, d2, nd2, v2, i)
    BY <1>1, <1>6, <1>7, <1>8 DEF ListAt, Emptied, SameNode
  <1>10. At(g, d2, nd2, v2, i)
    BY <1>6, <1>9 DEF At, Emptied, SameNode
  <1> QED BY <1>3, <1>6, <1>10

LEMMA MapTakes ==
  ASSUME NEW f, NEW d, NEW nd, NEW v, NEW i \in 1..MaxDepth, NEW d2, NEW nd2, NEW v2, NEW e, NEW x,
         At(f, d, nd, v, i), f.id \in Map, f.pc = "value", Emptied(d2, d), SameNode(nd2, nd),
         e = Elem[f.id].id, x = Element(f),
         v2 = IF Absent(e, x) THEN v ELSE Insert(v, AsRead(f.slot), Inside(i)[e][x])
  PROVE  At(Returned(f), d2, nd2, v2, i) /\ Returned(f).id = f.id /\ Returned(f).val = f.val
  <1>1. MapAt(f, d, nd, v, i) /\ MapCall(f) /\ f \in MapCalls(f.id) /\ f.val \in Content[f.id]
    BY MapIs
  <1>2. f.id \notin List /\ x = f.val[f.slot] /\ f.slot \in DOMAIN f.val \ f.keys /\ f.keys \subseteq DOMAIN f.val
    BY <1>1, OneKind DEF MapCall, Element
  <1>3. PICK g : g = Returned(f)
    OBVIOUS
  <1>4. g = [f EXCEPT !.pc = "entries"]
    BY <1>2, <1>3 DEF Returned
  <1>5. /\ g \in MapCalls(f.id) /\ g.id = f.id /\ g.val = f.val /\ g.keys = f.keys /\ g.ct = f.ct /\ g.pc = "entries"
    BY <1>1, <1>4 DEF MapCalls
  <1>6. MapCall(g)
    BY <1>1, <1>5 DEF MapCall
  <1>7. PICK w : w = Goal(f, i)
    OBVIOUS
  <1>8. PICK j : j = AsRead(f.slot)
    OBVIOUS
  <1>9. /\ IsFun(v) /\ \A k : k \in DOMAIN v <=> k \in DOMAIN w /\ ~Awaits(f, k) /\ k # j
        /\ \A k \in DOMAIN v : v[k] = w[k]
        /\ j \in Key
    BY <1>1, <1>7, <1>8 DEF MapAt
  <1>10. j # Refused /\ j # NoKey
    BY <1>9, TextAssumption, SchemaAssumption
  <1>11. /\ NoKey \notin DOMAIN w /\ (j \in DOMAIN w <=> ~Absent(e, x))
         /\ (~Absent(e, x) => w[j] = Inside(i)[e][x]) /\ ~Awaits(f, j)
    <2>1. PICK y : y = f.val
      OBVIOUS
    <2>2. y \in Content[f.id] /\ w = Inside(i - 1)[f.id][y]
      BY <1>1, <1>7, <2>1 DEF Goal
    <2>3. /\ \A k : k \in DOMAIN w <=> \E z \in DOMAIN y : AsRead(z) = k /\ ~Absent(e, y[z])
          /\ \A z \in DOMAIN y : ~Absent(e, y[z]) /\ AsRead(z) # Refused => w[AsRead(z)] = Inside(i)[e][y[z]]
      BY <2>2, MapBecomes
    <2>4. /\ \A z \in DOMAIN y : AsRead(z) # NoKey
          /\ \A z \in DOMAIN y : AsRead(z) = j => z = f.slot
      BY <1>2, <1>8, <1>10, <2>1, <2>2, MapContent
    <2>5. ~Awaits(f, j)
      BY <1>2, <2>1, <2>4 DEF Awaits
    <2> QED BY <1>2, <1>8, <1>10, <2>1, <2>3, <2>4, <2>5
  <1>12. /\ IsFun(v2) /\ \A k : k \in DOMAIN v2 <=> k \in DOMAIN w /\ ~Awaits(f, k) /\ k # d2.key
         /\ \A k \in DOMAIN v2 : v2[k] = w[k]
    <2>1. d2.key = NoKey
      BY DEF Emptied
    <2>2. CASE Absent(e, x)
      BY <1>9, <1>11, <2>1, <2>2
    <2>3. CASE ~Absent(e, x)
      <3>1. j \in DOMAIN w /\ w[j] = Inside(i)[e][x] /\ j \notin DOMAIN v
        BY <1>9, <1>11, <2>3
      <3>2. v2 = [k \in DOMAIN v \cup {j} |-> IF k \in DOMAIN v THEN v[k] ELSE w[j]]
        BY SMTT(30), <1>8, <2>3, <3>1 DEF Insert
      <3>3. IsFun(v2) /\ DOMAIN v2 = DOMAIN v \cup {j} /\ v2[j] = w[j] /\ \A k \in DOMAIN v : v2[k] = v[k]
        BY <3>1, <3>2 DEF IsFun
      <3> QED BY Zenon, <1>9, <1>11, <2>1, <3>1, <3>3
    <2> QED BY <2>2, <2>3
  <1>15. \A k : Awaits(g, k) <=> Awaits(f, k)
    BY <1>5 DEF Awaits
  <1>16. Goal(g, i) = w
    BY SMTT(30), <1>5, <1>7 DEF Goal
  <1>13. MapAt(g, d2, nd2, v2, i)
    BY <1>1, <1>5, <1>6, <1>12, <1>15, <1>16 DEF MapAt, Emptied, SameNode
  <1>14. At(g, d2, nd2, v2, i)
    BY <1>1, <1>5, <1>13, Apart DEF At, Emptied, SameNode
  <1> QED BY <1>3, <1>5, <1>14

LEMMA ObjectTakes ==
  ASSUME NEW f, NEW d, NEW nd, NEW v, NEW i \in 1..MaxDepth, NEW d2, NEW nd2, NEW v2,
         At(f, d, nd, v, i), f.id \in Class, f.pc = "value", Emptied(d2, d), SameNode(nd2, nd),
         v2 = [v EXCEPT ![f.slot] = Goal(f, i)[f.slot]]
  PROVE  At(Returned(f), d2, nd2, v2, i) /\ Returned(f).id = f.id /\ Returned(f).val = f.val
  <1>1. ObjectAt(f, d, nd, v, i) /\ ObjectCall(f) /\ f \in ObjectCalls(f.id) /\ f.id \notin List \cup Map
    BY ClassIs DEF At, ObjectAt, ObjectCall
  <1>2. PICK k : k = f.slot
    OBVIOUS
  <1>3. /\ k \in DOMAIN OwnAst[Own(f)] /\ k \notin Ahead(f) /\ f.ct = f.id
    BY <1>1, <1>2 DEF ObjectCall, ObjectCalls
  <1>4. k \in DOMAIN Ast[f.id]
    BY <1>1, <1>3 DEF ObjectCall
  <1>5. k \in DOMAIN Meta[f.id]
    BY <1>4, FieldIs
  <1>6. PICK g : g = Returned(f)
    OBVIOUS
  <1>7. g = [f EXCEPT !.pc = "fields"]
    BY <1>1, <1>6 DEF Returned
  <1>8. "fields" \in ObjectPcs /\ "fields" \notin AtTheHead
    BY DEF ObjectPcs, AtTheHead
  <1>9. ObjectCall(g) /\ Ahead(g) = Ahead(f) /\ g.id = f.id /\ g.val = f.val /\ g.pc = "fields"
    BY <1>1, <1>7, <1>8, ObjectGoesTo
  <1>10. PICK w : w = Goal(f, i) /\ w = Goal(g, i)
    BY <1>9 DEF Goal
  <1>11. /\ v = [j \in DOMAIN Meta[f.id] |-> v[j]]
         /\ \A j \in DOMAIN Meta[f.id] : v[j] = IF j \in Ahead(f) \cup {k} THEN Fresh[f.id][j] ELSE w[j]
    BY <1>1, <1>2, <1>10 DEF ObjectAt
  <1>12. \A j \in DOMAIN Meta[f.id] : j # NoKey
    BY SchemaAssumption
  <1>13. v2 = [v EXCEPT ![k] = w[k]] /\ d2.key = NoKey
    BY <1>2, <1>10 DEF Emptied
  <1>14. /\ v2 = [j \in DOMAIN Meta[f.id] |-> v2[j]]
         /\ \A j \in DOMAIN Meta[f.id] : v2[j] = IF j = k THEN w[k] ELSE v[j]
    BY <1>5, <1>11, <1>13
  <1>15. \A j \in DOMAIN Meta[f.id] : v2[j] = IF j \in Ahead(f) \cup {d2.key} THEN Fresh[f.id][j] ELSE w[j]
    BY <1>3, <1>11, <1>12, <1>13, <1>14
  <1>16. ObjectAt(g, d2, nd2, v2, i)
    BY <1>1, <1>9, <1>10, <1>14, <1>15 DEF ObjectAt, Emptied, SameNode
  <1>17. At(g, d2, nd2, v2, i)
    BY <1>1, <1>9, <1>16, Apart DEF At, Emptied, SameNode
  <1> QED BY <1>6, <1>9, <1>17

-----------------------------------------------------------------------------
\* The reader follows the writer: on the same level, one up, one down.
Keeps(g, f) == g.id = f.id /\ g.val = f.val

LEMMA MatchIs ==
  ASSUME NEW a, NEW n, NEW f, Match(a), a # <<>>, n = Len(doc), f = a[n]
  PROVE  /\ DocOK /\ StackOK /\ doc # <<>>
         /\ n \in 1..MaxDepth /\ n \in Nat \ {0} /\ n > 0 /\ Len(stack) = n /\ IsSeq(a, n)
         /\ Len(a) = n /\ Last(a) = f
         /\ a[1].id = RootType /\ a[1].val = obj
         /\ Levels(a, doc, stack, inst, n) /\ KeysOK(doc, active_key)
         /\ At(f, doc[n], stack[n], inst[n], n)
  <1>1. DocOK /\ StackOK /\ doc # <<>> /\ Nested(a)
    BY DEF Match
  <1>2. /\ n \in 1..MaxDepth /\ n \in Nat \ {0} /\ n > 0 /\ Len(stack) = n /\ IsSeq(a, n)
        /\ a[1].id = RootType /\ a[1].val = obj
        /\ Levels(a, doc, stack, inst, n) /\ KeysOK(doc, active_key)
    BY <1>1 DEF Nested
  <1>3. Len(a) = n /\ Last(a) = f
    BY <1>2, LastIs
  <1>4. At(f, doc[n], stack[n], inst[n], n)
    BY <1>2 DEF Levels
  <1> QED BY <1>1, <1>2, <1>3, <1>4

LEMMA SameLevel ==
  ASSUME NEW a, NEW n \in Nat, NEW f, NEW g, NEW b, Match(a), a # <<>>, n = Len(doc), f = a[n],
         DocOK', StackOK', doc' # <<>>, Len(doc') = n, Len(stack') = n, obj' = obj,
         Agree(doc', doc, n - 1), Agree(stack', stack, n - 1), Agree(inst', inst, n - 1),
         stack'[n].activekey = stack[n].activekey, KeysOK(doc', active_key'),
         b = OnTop(a, g), Keeps(g, f), At(g, doc'[n], stack'[n], inst'[n], n)
  PROVE  Match(b)'
  <1>1. /\ n \in 1..MaxDepth /\ n \in Nat \ {0} /\ n > 0 /\ IsSeq(a, n)
        /\ a[1].id = RootType /\ a[1].val = obj /\ Levels(a, doc, stack, inst, n)
    BY MatchIs
  <1>2. IsSeq(b, n) /\ Agree(b, a, n - 1) /\ b[n] = g
    BY <1>1, ReplacedIs
  <1>3. b[n].id = a[n].id /\ b[n].val = a[n].val
    BY <1>2 DEF Keeps
  <1>4. Levels(b, doc', stack', inst', n)
    BY <1>1, <1>2, <1>3, LevelsTop
  <1>5. b[1].id = RootType /\ b[1].val = obj
    <2>1. CASE n = 1
      BY <1>1, <1>3, <2>1
    <2>2. CASE n # 1
      <3>1. 1 \in 1..(n - 1)
        BY <1>1, <2>2
      <3> QED BY <1>1, <1>2, <3>1 DEF Agree
    <2> QED BY <2>1, <2>2
  <1>6. Nested(b)'
    BY <1>1, <1>2, <1>4, <1>5 DEF Nested
  <1> QED BY <1>6 DEF Match

LEMMA LevelUp ==
  ASSUME NEW a, NEW n \in Nat, NEW f, NEW g, NEW b, Match(a), a # <<>>, n = Len(doc), f = a[n], n < MaxDepth,
         DocOK', StackOK', doc' # <<>>, Len(doc') = n + 1, Len(stack') = n + 1, obj' = obj,
         Agree(doc', doc, n), Agree(stack', stack, n), Agree(inst', inst, n), KeysOK(doc', active_key'),
         b = More(a, g), Chain(f, g, stack'[n + 1], n), At(g, doc'[n + 1], stack'[n + 1], inst'[n + 1], n + 1)
  PROVE  Match(b)'
  <1>1. /\ n \in 1..MaxDepth /\ n \in Nat \ {0} /\ n > 0 /\ IsSeq(a, n)
        /\ a[1].id = RootType /\ a[1].val = obj /\ Levels(a, doc, stack, inst, n)
    BY MatchIs
  <1>2. IsSeq(b, n + 1) /\ Agree(b, a, n) /\ b[n + 1] = g
    BY <1>1, AppendedIs
  <1>3. b[n] = a[n] /\ b[1] = a[1] /\ n + 1 \in 1..MaxDepth
    <2>1. 1 \in 1..n /\ n \in 1..n /\ n + 1 \in 1..MaxDepth
      BY <1>1, BoundsAssumption
    <2> QED BY <1>2, <2>1 DEF Agree
  <1>4. Levels(b, doc', stack', inst', n + 1)
    BY <1>1, <1>2, <1>3, LevelsPush
  <1>5. Nested(b)'
    BY <1>1, <1>2, <1>3, <1>4 DEF Nested
  <1> QED BY <1>5 DEF Match

LEMMA LevelDown ==
  ASSUME NEW a, NEW n \in Nat, NEW p, NEW g, NEW b, Match(a), a # <<>>, n = Len(doc), n > 1, p = a[n - 1],
         DocOK', StackOK', doc' # <<>>, Len(doc') = n - 1, Len(stack') = n - 1, obj' = obj,
         Agree(doc', doc, n - 2), Agree(stack', stack, n - 2), Agree(inst', inst, n - 2), KeysOK(doc', active_key'),
         stack'[n - 1].activekey = stack[n - 1].activekey,
         b = Under(a, g), Keeps(g, p), At(g, doc'[n - 1], stack'[n - 1], inst'[n - 1], n - 1)
  PROVE  Match(b)'
  <1>1. /\ n \in 1..MaxDepth /\ n \in Nat \ {0} /\ IsSeq(a, n)
        /\ a[1].id = RootType /\ a[1].val = obj /\ Levels(a, doc, stack, inst, n)
    BY MatchIs
  <1>2. IsSeq(b, n - 1) /\ Agree(b, a, n - 2) /\ b[n - 1] = g
    BY <1>1, PoppedIs
  <1>3. b[n - 1].id = a[n - 1].id /\ b[n - 1].val = a[n - 1].val
    BY <1>2 DEF Keeps
  <1>4. Levels(a, doc, stack, inst, n - 1)
    BY <1>1, LevelsPop
  <1>5. PICK m \in Nat \ {0} : m = n - 1
    BY <1>1, BoundsAssumption
  <1>6. Levels(b, doc', stack', inst', n - 1)
    <2>1. m - 1 = n - 2
      BY <1>1, <1>5
    <2>2. Levels(b, doc', stack', inst', m)
      BY <1>2, <1>3, <1>4, <1>5, <2>1, LevelsTop
    <2> QED BY <1>5, <2>2
  <1>7. b[1].id = RootType /\ b[1].val = obj
    <2>1. CASE n - 1 = 1
      BY <1>1, <1>3, <2>1
    <2>2. CASE n - 1 # 1
      <3>1. 1 \in 1..(n - 2)
        BY <1>1, <2>2
      <3> QED BY <1>1, <1>2, <3>1 DEF Agree
    <2> QED BY <2>1, <2>2
  <1>8. n - 1 \in 1..MaxDepth
    BY <1>1, BoundsAssumption
  <1>9. Nested(b)'
    BY <1>2, <1>6, <1>7, <1>8 DEF Nested
  <1> QED BY <1>9 DEF Match

-----------------------------------------------------------------------------
\* The token the reader is at says which handler it is given to.
CommaSign == ","

LEMMA Signs ==
  /\ Comma = Mark(CommaSign) /\ Unlexable = Mark("not JSON")
  /\ Brace # EndBrace /\ Brace # CommaSign /\ Brace # "[" /\ Brace # "]" /\ Brace # "not JSON"
  /\ EndBrace # CommaSign /\ EndBrace # "[" /\ EndBrace # "]" /\ EndBrace # "not JSON"
  /\ CommaSign # "[" /\ CommaSign # "]" /\ CommaSign # "not JSON"
  /\ "[" # "]" /\ "[" # "not JSON" /\ "]" # "not JSON"
  BY Zenon DEF Brace, EndBrace, CommaSign, Comma, Unlexable

LEMMA Tokens ==
  /\ \A m : Mark(m).t = "mark" /\ Mark(m).v = m
  /\ \A k : KeyOf(k).t = "key" /\ KeyOf(k).v = k
  /\ \A s : Str(s).t = "string" /\ Str(s).v = s
  /\ \A i : Number(i).t \in {"uint", "int"} /\ Number(i).v = i
  /\ Null.t = "null"
  BY DEF Mark, KeyOf, Str, Number, Null

ReadsOn == /\ status = "parsing" /\ pos <= Len(text) /\ pos' = pos + 1
           /\ calls' = calls /\ text' = text /\ serialize_type' = serialize_type /\ obj' = obj
ReadOne == /\ ReadsOn
           /\ \/ Cur = Mark(Brace) /\ start_object
              \/ Cur = Mark("[") /\ start_array
              \/ Cur = Mark(EndBrace) /\ end_object
              \/ Cur = Mark("]") /\ end_array
              \/ Cur = Mark(CommaSign) /\ doc # <<>> /\ UNCHANGED vars
              \/ Cur.t = "key" /\ key(Cur.v)
              \/ Cur.t \notin {"mark", "key", "null"} /\ set_value(Cur)
              \/ Cur.t = "null" /\ null

LEMMA ReadsOne ==
  ASSUME Read, status' = "parsing"
  PROVE  ReadOne
  <1>1. ASSUME NEW s, Reading, Consume(s)
        PROVE  ReadsOn
    BY <1>1 DEF Reading, Consume, ReadsOn, peer, writing
  <1>2. CASE read_open
    <2>1. \/ Cur = Mark(Brace) /\ start_object /\ Reading
          \/ Cur = Mark("[") /\ start_array /\ Reading
      BY <1>2, Zenon DEF read_open, Marked, Brace
    <2>2. Consume("open")
      BY <1>2, Zenon DEF read_open
    <2> QED BY <1>1, <2>1, <2>2 DEF ReadOne
  <1>3. CASE read_close
    <2>1. \/ Cur = Mark(EndBrace) /\ end_object /\ Reading
          \/ Cur = Mark("]") /\ end_array /\ Reading
      BY <1>3, Zenon DEF read_close, Marked, EndBrace
    <2>2. Consume("given")
      BY <1>3, Zenon DEF read_close
    <2> QED BY <1>1, <2>1, <2>2 DEF ReadOne
  <1>4. CASE read_comma
    <2>1. Cur = Mark(CommaSign) /\ Reading /\ doc # <<>> /\ UNCHANGED vars /\ Consume("comma")
      BY <1>4, Zenon DEF read_comma, Marked, CommaSign
    <2> QED BY <1>1, <2>1 DEF ReadOne
  <1>5. CASE read_key
    BY <1>1, <1>5 DEF read_key, ReadOne
  <1>6. CASE read_scalar
    BY <1>1, <1>6 DEF read_scalar, Scalar, ReadOne
  <1>7. CASE read_null
    BY <1>1, <1>7 DEF read_null, ReadOne
  <1>8. CASE read_misfit
    BY <1>8 DEF read_misfit, parse_error, EvError
  <1>9. CASE read_end
    BY <1>9 DEF read_end, finish, EvFinish, parse_error, EvError
  <1> QED BY <1>2, <1>3, <1>4, <1>5, <1>6, <1>7, <1>8, <1>9 DEF Read

LEMMA Handled ==
  ASSUME Read, status' = "parsing"
  PROVE  /\ ReadsOn /\ Cur # Unlexable
         /\ Cur = Mark(Brace) => start_object
         /\ Cur = Mark("[") => start_array
         /\ Cur = Mark(EndBrace) => end_object
         /\ Cur = Mark("]") => end_array
         /\ Cur = Comma => UNCHANGED vars
         /\ Cur.t = "key" => key(Cur.v)
         /\ Cur = Null => null
         /\ Cur.t \notin {"mark", "key", "null"} => set_value(Cur)
  <1>1. ReadOne
    BY ReadsOne
  <1>2. /\ Cur = Unlexable => Cur.t = "mark" /\ Cur.v = "not JSON"
        /\ Cur = Comma => Cur.t = "mark" /\ Cur.v = CommaSign
        /\ Cur = Null => Cur.t = "null"
        /\ Cur = Mark(Brace) => Cur.t = "mark" /\ Cur.v = Brace
        /\ Cur = Mark(EndBrace) => Cur.t = "mark" /\ Cur.v = EndBrace
        /\ Cur = Mark(CommaSign) => Cur.t = "mark" /\ Cur.v = CommaSign
        /\ Cur = Mark("[") => Cur.t = "mark" /\ Cur.v = "["
        /\ Cur = Mark("]") => Cur.t = "mark" /\ Cur.v = "]"
    BY Signs, Tokens
  <1>3. ReadsOn
    BY <1>1 DEF ReadOne
  <1>4. Cur # Unlexable
    BY <1>1, <1>2, Signs DEF ReadOne
  <1>5. Cur = Mark(Brace) => start_object
    BY <1>1, <1>2, Signs DEF ReadOne
  <1>6. Cur = Mark("[") => start_array
    BY <1>1, <1>2, Signs DEF ReadOne
  <1>7. Cur = Mark(EndBrace) => end_object
    BY <1>1, <1>2, Signs DEF ReadOne
  <1>8. Cur = Mark("]") => end_array
    BY <1>1, <1>2, Signs DEF ReadOne
  <1>9. Cur = Comma => UNCHANGED vars
    BY <1>1, <1>2, Signs DEF ReadOne
  <1>10. Cur.t = "key" => key(Cur.v)
    BY <1>1, <1>2, Signs DEF ReadOne
  <1>11. Cur = Null => null
    BY <1>1, <1>2, Signs DEF ReadOne
  <1>12. Cur.t \notin {"mark", "key", "null"} => set_value(Cur)
    BY <1>1, <1>2, Signs DEF ReadOne
  <1> QED BY <1>3, <1>4, <1>5, <1>6, <1>7, <1>8, <1>9, <1>10, <1>11, <1>12

-----------------------------------------------------------------------------
\* A comma: the writer goes on to the next field, element or entry.
LEMMA CommaRead ==
  ASSUME NEW a, NEW n \in Nat, NEW f, NEW g, NEW b, Match(a), a # <<>>, n = Len(doc), f = a[n],
         UNCHANGED vars, obj' = obj, b = OnTop(a, g), Keeps(g, f), At(g, doc[n], stack[n], inst[n], n)
  PROVE  Match(b)'
  <1>1. DocOK /\ StackOK /\ doc # <<>> /\ Len(stack) = n /\ KeysOK(doc, active_key)
    BY MatchIs
  <1>2. doc' = doc /\ nev' = nev /\ nparse' = nparse /\ stack' = stack /\ inst' = inst /\ active_key' = active_key
    BY DEF vars
  <1>3. DocOK' /\ StackOK' /\ KeysOK(doc', active_key')
    BY <1>1, <1>2 DEF DocOK, StackOK
  <1>4. Agree(doc', doc, n - 1) /\ Agree(stack', stack, n - 1) /\ Agree(inst', inst, n - 1)
    BY <1>2 DEF Agree
  <1>5. doc' # <<>> /\ Len(doc') = n /\ Len(stack') = n /\ stack'[n].activekey = stack[n].activekey
    BY <1>1, <1>2
  <1>6. At(g, doc'[n], stack'[n], inst'[n], n)
    BY <1>2
  <1> QED BY <1>3, <1>4, <1>5, <1>6, SameLevel

LEMMA ObjectComma ==
  ASSUME NEW f, NEW d, NEW nd, NEW v, NEW i, NEW x, f.id \in Class, At(f, d, nd, v, i),
         \/ (f.pc = "type_comma" /\ x = "kvs")
         \/ (f.pc = "base_comma" /\ x = "fields")
         \/ (f.pc = "fields" /\ f.keys # {} /\ x = "field")
  PROVE  At(To(f, x), d, nd, v, i) /\ Keeps(To(f, x), f)
  <1>1. ObjectCall(f)
    BY ClassIs DEF At, ObjectAt
  <1>2. PICK g : g = To(f, x)
    OBVIOUS
  <1>3. g = [f EXCEPT !.pc = x]
    BY <1>2 DEF To
  <1>4. f.pc = "type_comma" => f.keys = {} /\ ~f.last
    BY <1>1 DEF ObjectCall, AtTheHead
  <1>5. x \in ObjectPcs /\ x \notin {"value", "type_text", "close"} /\ (x \in AtTheHead => f.keys = {} /\ ~f.last) /\ (x = "field" => f.keys # {})
    BY <1>4 DEF ObjectPcs, AtTheHead
  <1>6. ObjectCall(g) /\ Ahead(g) = Ahead(f) /\ g.id = f.id /\ g.val = f.val /\ g.pc = x
    BY <1>1, <1>3, <1>5, ObjectGoesTo
  <1>7. At(g, d, nd, v, i)
    BY <1>5, <1>6, ObjectStays
  <1> QED BY <1>2, <1>6, <1>7 DEF Keeps

-----------------------------------------------------------------------------
LEMMA Renamed ==
  ASSUME NEW i, NEW s, NEW n, SameNodes(s, stack, n), i \in 1..n, StackOK, n \in 0..Len(stack)
  PROVE  SameNode(s[i], stack[i])
  <1>1. PICK m, x : m = stack[i] /\ x = s[i].map_key
    OBVIOUS
  <1>2. stack \in Seq(Node) /\ Len(stack) \in Nat
    BY LenProperties DEF StackOK
  <1>3. i \in 1..Len(stack)
    BY <1>2
  <1>4. m \in Node
    BY <1>1, <1>2, <1>3, ElementOfSeq
  <1>5. s[i] = [m EXCEPT !.map_key = x]
    BY <1>1 DEF SameNodes
  <1>6. SameNode(s[i], m)
    BY <1>4, <1>5 DEF Node, SameNode
  <1> QED BY <1>1, <1>6

\* A key: what it names is ahead no more, but not read yet.
Named1(d2, d, k) == d2.open = d.open /\ d2.ty = d.ty /\ d2.key = k
NamesIn(nd2, nd, k) == SameNode(nd2, nd) /\ nd2.map_key = k

LEMMA KeyRead ==
  ASSUME NEW a, NEW n \in Nat, NEW f, NEW g, NEW b, NEW k \in Key, Match(a), a # <<>>, n = Len(doc), f = a[n],
         key(k), obj' = obj, b = OnTop(a, g), Keeps(g, f),
         doc[n].open = Brace /\ doc[n].key = NoKey =>
           \A d2, nd2 : Named1(d2, doc[n], k) /\ NamesIn(nd2, stack[n], k) => At(g, d2, nd2, inst[n], n)
  PROVE  Match(b)'
  <1>1. DocOK /\ StackOK /\ doc # <<>> /\ Len(stack) = n /\ n \in Nat \ {0} /\ KeysOK(doc, active_key)
    BY MatchIs
  <1>2. EvKey(k) /\ active_key' = k /\ stack' = [stack EXCEPT ![Len(stack)].map_key = k] /\ inst' = inst
    BY DEF key
  <1>3. /\ doc[n].open = Brace /\ doc[n].key = NoKey
        /\ Len(doc') = n /\ Agree(doc', doc, n - 1) /\ doc' # <<>>
        /\ doc'[n] = [doc[n] EXCEPT !.key = k]
    BY <1>1, <1>2, NamesKey
  <1>4. DocOK'
    BY <1>1, <1>2, KeyOK
  <1>5. stack \in Seq(Node) /\ stack # <<>> /\ IsSeq(inst, Len(stack))
    BY <1>1 DEF StackOK
  <1>6. PICK s : s = [stack EXCEPT ![Len(stack)].map_key = k]
    OBVIOUS
  <1>7. s \in Seq(Node) /\ Len(s) = n /\ SameNodes(s, stack, n) /\ Agree(s, stack, n - 1) /\ s[n].map_key = k
    BY ZenonT(60), <1>1, <1>5, <1>6, MapKeyOK
  <1>8. stack' = s
    BY <1>2, <1>6
  <1>9. StackOK'
    <2>1. s # <<>>
      BY <1>1, <1>7, EmptySeq
    <2> QED BY <1>1, <1>2, <1>5, <1>7, <1>8, <2>1 DEF StackOK
  <1>10. n \in 1..n
    BY <1>1
  <1>11. NamesIn(stack'[n], stack[n], k)
    <2>1. SameNode(s[n], stack[n])
      BY <1>1, <1>7, <1>10, Renamed
    <2> QED BY <1>7, <1>8, <2>1 DEF NamesIn
  <1>12. Named1(doc'[n], doc[n], k)
    <2>1. doc[n] \in Bracket
      BY <1>1, LastOK DEF DocOK
    <2> QED BY <1>3, <2>1 DEF Named1, Bracket
  <1>13. At(g, doc'[n], stack'[n], inst'[n], n)
    BY <1>2, <1>3, <1>11, <1>12
  <1>14. KeysOK(doc', active_key')
    <2>1. k # NoKey
      BY SchemaAssumption
    <2> QED BY <1>2, <1>3, <1>12, <2>1 DEF KeysOK, Named1
  <1>15. Agree(stack', stack, n - 1) /\ Agree(inst', inst, n - 1) /\ Len(stack') = n
    BY <1>2, <1>7, <1>8 DEF Agree
  <1>16. stack'[n].activekey = stack[n].activekey
    BY <1>11 DEF NamesIn, SameNode
  <1> QED BY <1>3, <1>4, <1>9, <1>13, <1>14, <1>15, <1>16, SameLevel

LEMMA TypeNamed ==
  ASSUME NEW f, NEW d, NEW nd, NEW v, NEW i \in 1..MaxDepth, NEW d2, NEW nd2, f.id \in Class, At(f, d, nd, v, i), f.pc = "type",
         d.key = NoKey, Named1(d2, d, "type"), SameNode(nd2, nd)
  PROVE  At(To(f, "type_text"), d2, nd2, v, i) /\ Keeps(To(f, "type_text"), f)
  <1>1. ObjectAt(f, d, nd, v, i) /\ ObjectCall(f) /\ f \in ObjectCalls(f.id) /\ f.val \in Content[f.id]
    BY ClassIs DEF At, ObjectAt, ObjectCall, ObjectCalls
  <1>2. PICK g : g = To(f, "type_text")
    OBVIOUS
  <1>3. g = [f EXCEPT !.pc = "type_text"]
    BY <1>2 DEF To
  <1>4. /\ "type_text" \in ObjectPcs /\ "type_text" \notin {"value", "close", "field"}
        /\ ("type_text" \in AtTheHead => f.keys = {} /\ ~f.last)
    BY <1>1 DEF ObjectPcs, AtTheHead, ObjectCall
  <1>5. ObjectCall(g) /\ Ahead(g) = Ahead(f) /\ g.id = f.id /\ g.val = f.val /\ g.pc = "type_text"
    BY <1>1, <1>3, <1>4, ObjectGoesTo
  <1>6. PICK w : w = Goal(f, i) /\ w = Goal(g, i)
    BY <1>5 DEF Goal
  <1>7. w["type"] = Fresh[f.id]["type"]
    <2>1. "type" \in DOMAIN Meta[f.id] /\ "type" \notin Answered(f.id)
      BY ClassIs DEF Answered
    <2> QED BY <1>1, <1>6, <2>1, ObjectBecomes DEF Goal
  <1>8. \A k \in DOMAIN Meta[f.id] : k # NoKey
    BY SchemaAssumption
  <1>9. ObjectAt(g, d2, nd2, v, i)
    BY <1>1, <1>5, <1>6, <1>7, <1>8 DEF ObjectAt, Named1, SameNode
  <1>10. At(g, d2, nd2, v, i)
    BY <1>1, <1>5, <1>9, Apart DEF At, Named1, SameNode
  <1> QED BY <1>2, <1>5, <1>10 DEF Keeps

Naming(f, k) == [f EXCEPT !.pc = "value", !.slot = k, !.keys = @ \ {k}, !.first = FALSE]

LEMMA FieldNamed ==
  ASSUME NEW f, NEW d, NEW nd, NEW v, NEW i, NEW d2, NEW nd2, NEW k, f.id \in Class, At(f, d, nd, v, i), f.pc = "field",
         k \in f.keys, d.key = NoKey, Named1(d2, d, k), SameNode(nd2, nd)
  PROVE  At(Naming(f, k), d2, nd2, v, i) /\ Keeps(Naming(f, k), f)
  <1>1. ObjectAt(f, d, nd, v, i) /\ ObjectCall(f) /\ f \in ObjectCalls(f.id)
    BY ClassIs DEF At, ObjectAt, ObjectCall
  <1>2. PICK g : g = Naming(f, k)
    OBVIOUS
  <1>3. k \in Key
    BY <1>1 DEF ObjectCalls
  <1>4. /\ g \in ObjectCalls(f.id) /\ g.id = f.id /\ g.ct = f.ct /\ g.val = f.val /\ g.pc = "value"
        /\ g.at = f.at /\ g.last = f.last /\ g.keys = f.keys \ {k} /\ g.slot = k
    BY <1>1, <1>2, <1>3 DEF ObjectCalls, ObjectPcs, Naming
  <1>5. Own(g) = Own(f) /\ k \in DOMAIN OwnAst[Own(f)]
    BY <1>1, <1>4 DEF Own, ObjectCall
  <1>6. k \notin Ahead(g) /\ Ahead(f) = Ahead(g) \cup {k}
    BY <1>1, <1>4 DEF Ahead, ObjectCall
  <1>7. ObjectCall(g)
    BY <1>1, <1>4, <1>5, <1>6 DEF ObjectCall, AtTheHead
  <1>8. PICK w : w = Goal(f, i) /\ w = Goal(g, i)
    BY <1>4 DEF Goal
  <1>9. \A j \in DOMAIN Meta[f.id] : j # NoKey
    BY SchemaAssumption
  <1>10. ObjectAt(g, d2, nd2, v, i)
    BY <1>1, <1>4, <1>6, <1>7, <1>8, <1>9 DEF ObjectAt, Named1, SameNode
  <1>11. At(g, d2, nd2, v, i)
    BY <1>1, <1>4, <1>10, Apart DEF At, Named1, SameNode
  <1> QED BY <1>2, <1>4, <1>11 DEF Keeps

LEMMA EntryNamed ==
  ASSUME NEW f, NEW d, NEW nd, NEW v, NEW i \in 1..MaxDepth, NEW d2, NEW nd2, NEW k, NEW j, f.id \in Map, At(f, d, nd, v, i), f.pc = "entry",
         Elem[f.id].id \notin Asts, k \in f.keys, j = AsRead(k), j # Refused, d.key = NoKey, Named1(d2, d, j), NamesIn(nd2, nd, j)
  PROVE  At(Naming(f, k), d2, nd2, v, i) /\ Keeps(Naming(f, k), f)
  <1>1. MapAt(f, d, nd, v, i) /\ MapCall(f) /\ f \in MapCalls(f.id) /\ f.val \in Content[f.id]
    BY MapIs
  <1>2. PICK g : g = Naming(f, k)
    OBVIOUS
  <1>3. k \in Key /\ f.keys \subseteq DOMAIN f.val /\ j \in Key /\ j # NoKey
    <2>1. k \in Key /\ f.keys \subseteq DOMAIN f.val
      BY <1>1 DEF MapCalls, MapCall
    <2> QED BY <1>1, <2>1, MapContent
  <1>4. /\ g \in MapCalls(f.id) /\ g.id = f.id /\ g.ct = f.ct /\ g.val = f.val /\ g.pc = "value"
        /\ g.keys = f.keys \ {k} /\ g.slot = k
    BY <1>1, <1>2, <1>3 DEF MapCalls, Naming
  <1>5. MapCall(g)
    BY <1>1, <1>3, <1>4 DEF MapCall
  <1>6. PICK w : w = Goal(f, i) /\ w = Goal(g, i)
    BY <1>4 DEF Goal
  <1>7. NoKey \notin DOMAIN w
    <2>1. \A y \in DOMAIN w : \E x \in DOMAIN f.val : AsRead(x) = y
      BY <1>1, <1>6, MapBecomes DEF Goal
    <2> QED BY <1>1, <2>1, MapContent
  <1>10. \A y : Awaits(f, y) <=> Awaits(g, y) \/ y = j
    BY <1>4 DEF Awaits
  <1>8. MapAt(g, d2, nd2, v, i)
    BY <1>1, <1>3, <1>4, <1>5, <1>6, <1>7, <1>10 DEF MapAt, Named1, NamesIn, SameNode
  <1>9. At(g, d2, nd2, v, i)
    BY <1>1, <1>4, <1>8, Apart DEF At, Named1, NamesIn, SameNode
  <1> QED BY <1>2, <1>4, <1>9 DEF Keeps

-----------------------------------------------------------------------------
\* A scalar: the top of the reader's stack takes it, or drops it.
LEMMA ScalarRead ==
  ASSUME NEW a, NEW n \in Nat, NEW f, NEW g, NEW b, NEW tok, Match(a), a # <<>>, n = Len(doc), f = a[n],
         set_value(tok), obj' = obj, b = OnTop(a, g), Keeps(g, f),
         ValueDue => \A d2 : Emptied(d2, doc[n]) => At(g, d2, stack[n], ValueSet(stack[n], inst[n], tok), n)
  PROVE  Match(b)'
  <1>1. DocOK /\ StackOK /\ doc # <<>> /\ Len(stack) = n /\ n \in Nat \ {0} /\ KeysOK(doc, active_key)
    BY MatchIs
  <1>2. PICK w : w = ValueSet(stack[n], inst[n], tok)
    OBVIOUS
  <1>3. EvScalar(tok) /\ stack' = stack /\ active_key' = active_key /\ inst' = [inst EXCEPT ![n] = w]
    <2>1. Len(inst) = n /\ Top = stack[n] /\ TopInst = inst[n]
      BY <1>1, SeqOfContents DEF StackOK, Top, TopInst
    <2> QED BY <1>2, <2>1 DEF set_value
  <1>4. ValueDue /\ doc' = Given(doc)
    BY <1>3 DEF EvScalar
  <1>5. Len(doc') = n /\ Agree(doc', doc, n - 1) /\ doc' # <<>> /\ doc'[n] = [doc[n] EXCEPT !.key = NoKey]
    BY <1>1, <1>4, GivesValue
  <1>6. DocOK'
    BY <1>1, <1>3, GiveOK
  <1>7. IsSeq(inst, n)
    BY <1>1 DEF StackOK
  <1>8. IsSeq(inst', n) /\ Agree(inst', inst, n - 1) /\ inst'[n] = w
    <2>1. n > 0
      BY <1>1
    <2>2. inst' = [inst EXCEPT ![n] = w]
      BY <1>3
    <2>3. /\ IsSeq([inst EXCEPT ![n] = w], n) /\ Agree([inst EXCEPT ![n] = w], inst, n - 1)
          /\ n > 0 => [inst EXCEPT ![n] = w][n] = w
      BY <1>7, ExceptIsSeq
    <2> QED BY <2>1, <2>2, <2>3
  <1>9. StackOK'
    BY <1>1, <1>3, <1>8 DEF StackOK
  <1>10. Emptied(doc'[n], doc[n])
    <2>1. doc[n] \in Bracket
      BY <1>1, LastOK DEF DocOK
    <2> QED BY <1>5, <2>1 DEF Emptied, Bracket
  <1>11. At(g, doc'[n], stack'[n], inst'[n], n)
    BY <1>2, <1>3, <1>4, <1>8, <1>10
  <1>12. KeysOK(doc', active_key')
    BY <1>1, <1>3, <1>5, <1>10 DEF KeysOK, Emptied
  <1>13. Agree(stack', stack, n - 1) /\ Len(stack') = n /\ stack'[n].activekey = stack[n].activekey
    BY <1>1, <1>3 DEF Agree
  <1> QED BY <1>5, <1>6, <1>8, <1>9, <1>11, <1>12, <1>13, SameLevel

LEMMA NullRead ==
  ASSUME NEW a, NEW n \in Nat, NEW f, NEW g, NEW b, Match(a), a # <<>>, n = Len(doc), f = a[n],
         null, obj' = obj, b = OnTop(a, g), Keeps(g, f),
         ValueDue => \A d2 : Emptied(d2, doc[n]) => At(g, d2, stack[n], inst[n], n)
  PROVE  Match(b)'
  <1>1. DocOK /\ StackOK /\ doc # <<>> /\ Len(stack) = n /\ n \in Nat \ {0} /\ KeysOK(doc, active_key)
    BY MatchIs
  <1>2. EvNull /\ stack' = stack /\ active_key' = active_key /\ inst' = inst
    BY DEF null
  <1>3. ValueDue /\ doc' = Given(doc)
    BY <1>2 DEF EvNull
  <1>4. Len(doc') = n /\ Agree(doc', doc, n - 1) /\ doc' # <<>> /\ doc'[n] = [doc[n] EXCEPT !.key = NoKey]
    BY <1>1, <1>3, GivesValue
  <1>5. DocOK' /\ StackOK'
    BY <1>1, <1>2, GiveOK DEF StackOK
  <1>6. Emptied(doc'[n], doc[n])
    <2>1. doc[n] \in Bracket
      BY <1>1, LastOK DEF DocOK
    <2> QED BY <1>4, <2>1 DEF Emptied, Bracket
  <1>7. At(g, doc'[n], stack'[n], inst'[n], n)
    BY <1>2, <1>3, <1>6
  <1>8. KeysOK(doc', active_key')
    BY <1>1, <1>2, <1>4, <1>6 DEF KeysOK, Emptied
  <1>9. Agree(stack', stack, n - 1) /\ Agree(inst', inst, n - 1) /\ Len(stack') = n /\ stack'[n].activekey = stack[n].activekey
    BY <1>1, <1>2 DEF Agree
  <1> QED BY <1>4, <1>5, <1>7, <1>8, <1>9, SameLevel

\* The scalars the writer makes, and what the reader makes of them.
LEMMA IntRead ==
  ASSUME NEW x \in Int
  PROVE  AsInt(Number(x)) = x
  <1>1. Number(x).t \in {"uint", "int"} /\ Number(x).v = x
    BY Tokens
  <1> QED BY <1>1 DEF AsInt

Plain(t, tok, x) == tok.t \notin {"mark", "key", "null"} /\ Castable(t, tok) /\ Cast(t, tok) = x

LEMMA PlainRead ==
  ASSUME NEW t \in TypeId, NEW x \in Content[t], Kind[t] \in {"int", "bool", "string"}
  PROVE  \/ prim_token(Val(t, t, x)) = Unlexable
         \/ Plain(t, prim_token(Val(t, t, x)), ScalarTravelled(t, x))
  <1>1. PICK v : v = Val(t, t, x)
    OBVIOUS
  <1>2. v.id = t /\ v.ct = t /\ v.val = x
    BY <1>1, ValIs
  <1>3. PICK tok : tok = prim_token(v)
    OBVIOUS
  <1>4. CASE Kind[t] = "int"
    <2>1. x \in Int
      BY <1>4, ScalarContent
    <2>2. tok = Number(x)
      BY <1>2, <1>3, <1>4 DEF prim_token
    <2>3. tok.t \in {"uint", "int"} /\ AsInt(tok) = x
      BY <2>1, <2>2, IntRead, Tokens
    <2> QED BY <1>1, <1>3, <1>4, <2>3 DEF Plain, Castable, Cast, ScalarTravelled
  <1>5. CASE Kind[t] = "bool"
    <2>1. tok = [t |-> "bool", v |-> x]
      BY <1>2, <1>3, <1>5 DEF prim_token
    <2>2. tok.t = "bool" /\ tok.v = x /\ AsBool(tok) = x
      BY <2>1 DEF AsBool
    <2> QED BY <1>1, <1>3, <1>5, <2>2 DEF Plain, Castable, Cast, ScalarTravelled
  <1>6. CASE Kind[t] = "string"
    <2>1. tok = IF AsRead(x) = Refused THEN Unlexable ELSE Str(AsRead(x))
      BY <1>2, <1>3, <1>6 DEF prim_token, Quoted
    <2>2. CASE AsRead(x) = Refused
      BY <1>1, <1>3, <2>1, <2>2
    <2>3. CASE AsRead(x) # Refused
      <3>1. tok.t = "string" /\ tok.v = AsRead(x)
        BY <2>1, <2>3, Tokens
      <3>2. ScalarTravelled(t, x) = AsRead(x)
        BY <1>6 DEF ScalarTravelled
      <3> QED BY <1>1, <1>3, <1>6, <3>1, <3>2 DEF Plain, Castable, Cast
    <2> QED BY <2>2, <2>3
  <1> QED BY <1>4, <1>5, <1>6

LEMMA NameRead ==
  ASSUME NEW t \in TypeId, NEW x \in Content[t], Kind[t] \in {"enum", "port"}
  PROVE  /\ MemberToken(t, x).t = "string"
         /\ Kind[t] = "enum" => EnumOf(MemberToken(t, x)) = ScalarTravelled(t, x)
         /\ Kind[t] = "port" => PortOf(MemberToken(t, x)) = x
  <1>1. PICK tok : tok = MemberToken(t, x)
    OBVIOUS
  <1>2. CASE Kind[t] = "enum"
    <2>1. tok = IF x \in EnumName THEN Str(x) ELSE Str("null")
      BY <1>1, <1>2 DEF MemberToken, name_of
    <2>2. tok.t = "string" /\ tok.v = IF x \in EnumName THEN x ELSE "null"
      BY <2>1, Tokens
    <2>3. "null" \notin EnumName
      BY WriterAssumption
    <2>4. EnumOf(tok) = IF x \in EnumName THEN x ELSE Sentinel
      BY <2>2, <2>3 DEF EnumOf, TextOf
    <2>5. ScalarTravelled(t, x) = IF x \in EnumName THEN x ELSE Sentinel
      BY <1>2 DEF ScalarTravelled
    <2> QED BY <1>1, <1>2, <2>2, <2>4, <2>5
  <1>3. CASE Kind[t] = "port"
    <2>1. tok = Str(valof(x))
      BY <1>1, <1>3 DEF MemberToken
    <2>2. tok.t = "string" /\ tok.v = valof(x)
      BY <2>1, Tokens
    <2>3. x \in DOMAIN PortUrl => \E n \in DOMAIN PortUrl : PortUrl[n] = x
      BY <1>3, ScalarContent
    <2>4. IF valof(x) \in DOMAIN PortUrl THEN PortUrl[valof(x)] = x ELSE valof(x) = x
      <3>1. CASE \E n \in DOMAIN PortUrl : PortUrl[n] = x
        BY <3>1 DEF valof
      <3>2. CASE ~\E n \in DOMAIN PortUrl : PortUrl[n] = x
        <4>1. valof(x) = x
          BY <3>2 DEF valof
        <4> QED BY <2>3, <3>2, <4>1
      <3> QED BY <3>1, <3>2
    <2>5. PortOf(tok) = x
      BY <2>2, <2>4 DEF PortOf, TextOf
    <2> QED BY <1>1, <1>3, <2>2, <2>5
  <1> QED BY <1>2, <1>3

\* A scalar member is set to what it becomes; so is the type, to itself.
TakesAs(nd, v, k, tok, x) == /\ tok.t \notin {"mark", "key", "null"}
                             /\ set_member(nd, v, k, tok) = [v EXCEPT ![k] = x]

LEMMA MemberRead ==
  ASSUME NEW c \in Class, NEW k, NEW t, NEW nd, NEW v, NEW tok, NEW x,
         nd.ty = c, nd.val_astid = c, k \in DOMAIN Ast[c], t = Ast[c][k],
         \/ Kind[t] \in {"int", "bool", "string"} /\ Plain(t, tok, x)
         \/ Kind[t] = "enum" /\ tok.t = "string" /\ EnumOf(tok) = x
         \/ Kind[t] = "port" /\ tok.t = "string" /\ PortOf(tok) = x
  PROVE  TakesAs(nd, v, k, tok, x)
  <1>1. Meta[c][k] = t /\ t \in TypeId /\ c \in Asts
    BY FieldIs, ClassIs
  <1>2. find_field_astid(c, k) = t
    BY <1>1 DEF find_field_astid
  <1>3. t \in Asts <=> Kind[t] \in {"object", "enum", "port"}
    BY <1>1, WriterAssumption
  <1>4. CASE Kind[t] \in {"int", "bool", "string"} /\ Plain(t, tok, x)
    <2>1. set_member(nd, v, k, tok) = [v EXCEPT ![k] = x]
      BY <1>1, <1>2, <1>3, <1>4 DEF set_member, Plain
    <2> QED BY <1>4, <2>1 DEF Plain, TakesAs
  <1>5. CASE Kind[t] = "enum" /\ tok.t = "string" /\ EnumOf(tok) = x
    <2>1. set_member(nd, v, k, tok) = [v EXCEPT ![k] = x]
      BY <1>1, <1>2, <1>3, <1>5 DEF set_member
    <2> QED BY <1>5, <2>1 DEF TakesAs
  <1>6. CASE Kind[t] = "port" /\ tok.t = "string" /\ PortOf(tok) = x
    <2>1. set_member(nd, v, k, tok) = [v EXCEPT ![k] = x]
      BY <1>1, <1>2, <1>3, <1>6 DEF set_member
    <2> QED BY <1>6, <2>1 DEF TakesAs
  <1> QED BY <1>4, <1>5, <1>6

LEMMA FieldRead ==
  ASSUME NEW f, NEW d, NEW nd, NEW v, NEW i \in 1..MaxDepth, NEW t, NEW tok, f.id \in Class, At(f, d, nd, v, i), f.pc = "value",
         t = Meta[f.id][f.slot], t \notin List \cup Map \cup Class, f.slot \in Getter[f.id], tok = MemberToken(t, f.val[f.slot])
  PROVE  tok = Unlexable \/ TakesAs(nd, v, f.slot, tok, Goal(f, i)[f.slot])
  <1>1. ObjectAt(f, d, nd, v, i) /\ ObjectCall(f)
    BY ClassIs DEF At, ObjectAt
  <1>2. PICK k, x, c : k = f.slot /\ x = f.val[k] /\ c = f.id
    OBVIOUS
  <1>3. k \in DOMAIN Ast[c] /\ t = Ast[c][k] /\ x \in Content[t] /\ t \in TypeId /\ f.val \in Content[c]
    BY <1>1, <1>2, ObjectValue
  <1>4. Kind[t] \in {"int", "bool", "string", "enum", "port"} /\ k \in Answered(c)
    BY <1>2, <1>3, FieldIs DEF Class, List, Map
  <1>5. PICK w : w = Goal(f, i)
    OBVIOUS
  <1>6. w[k] = Inside(i)[t][x]
    <2>1. PICK y : y = f.val
      OBVIOUS
    <2>2. c \in Class /\ y \in Content[c] /\ w = Inside(i - 1)[c][y]
      BY <1>2, <1>3, <1>5, <2>1 DEF Goal
    <2>3. \A j \in Answered(c) : w[j] = Inside(i)[Meta[c][j]][y[j]]
      BY <2>2, ObjectBecomes
    <2>4. w[k] = Inside(i)[Meta[c][k]][y[k]]
      BY <1>4, <2>3
    <2> QED BY <1>2, <2>1, <2>4
  <1>7. Inside(i)[t][x] = ScalarTravelled(t, x)
    <2>1. i \in 0..MaxDepth
      BY BoundsAssumption
    <2> QED BY <1>3, <2>1, ScalarBecomes
  <1>8. nd.ty = c /\ nd.val_astid = c
    BY <1>1, <1>2 DEF At, ObjectAt
  <1>9. CASE Kind[t] \in {"int", "bool", "string"}
    <2>1. tok = prim_token(Val(t, t, x))
      BY <1>2, <1>9 DEF MemberToken
    <2>2. tok = Unlexable \/ Plain(t, tok, ScalarTravelled(t, x))
      BY <1>3, <1>9, <2>1, PlainRead
    <2>3. tok = Unlexable \/ TakesAs(nd, v, k, tok, ScalarTravelled(t, x))
      BY <1>2, <1>3, <1>8, <1>9, <2>2, MemberRead
    <2> QED BY <1>2, <1>5, <1>6, <1>7, <2>3
  <1>10. CASE Kind[t] = "enum"
    <2>1. tok.t = "string" /\ EnumOf(tok) = ScalarTravelled(t, x)
      BY <1>2, <1>3, <1>10, NameRead
    <2>2. TakesAs(nd, v, k, tok, ScalarTravelled(t, x))
      BY <1>2, <1>3, <1>8, <1>10, <2>1, MemberRead
    <2> QED BY <1>2, <1>5, <1>6, <1>7, <2>2
  <1>11. CASE Kind[t] = "port"
    <2>1. tok.t = "string" /\ PortOf(tok) = x
      BY <1>2, <1>3, <1>11, NameRead
    <2>2. ScalarTravelled(t, x) = x
      BY <1>11 DEF ScalarTravelled
    <2>3. TakesAs(nd, v, k, tok, x)
      BY <1>2, <1>3, <1>8, <1>11, <2>1, MemberRead
    <2> QED BY <1>2, <1>5, <1>6, <1>7, <2>2, <2>3
  <1> QED BY <1>4, <1>9, <1>10, <1>11

LEMMA TypeRead ==
  ASSUME NEW c \in Class, NEW nd, NEW v, NEW x, nd.ty = c, nd.val_astid = c
  PROVE  TakesAs(nd, v, "type", Str(x), x)
  <1>1. c \in Asts /\ "type" \notin DOMAIN Ast[c] /\ Kind[Meta[c]["type"]] = "string"
    BY ClassIs, WriterAssumption
  <1>2. find_field_astid(c, "type") = NoAst /\ NoAst \notin Asts
    BY <1>1, SchemaAssumption DEF find_field_astid
  <1>3. PICK tok : tok = Str(x) /\ tok.t = "string" /\ tok.v = x
    BY Tokens
  <1>4. Castable(Meta[c]["type"], tok) /\ Cast(Meta[c]["type"], tok) = x
    BY <1>1, <1>3 DEF Castable, Cast
  <1>5. set_member(nd, v, "type", tok) = [v EXCEPT !["type"] = x]
    BY <1>1, <1>2, <1>4 DEF set_member
  <1> QED BY <1>3, <1>5 DEF TakesAs

LEMMA TypeTakes ==
  ASSUME NEW f, NEW d, NEW nd, NEW v, NEW i \in 1..MaxDepth, NEW d2, NEW x, NEW v2, f.id \in Class, At(f, d, nd, v, i), f.pc = "type_text",
         Emptied(d2, d), x \in {"type_comma", "kvs"}, v2 = [v EXCEPT !["type"] = f.val["type"]]
  PROVE  At(To(f, x), d2, nd, v2, i) /\ Keeps(To(f, x), f)
  <1>1. ObjectAt(f, d, nd, v, i) /\ ObjectCall(f) /\ f \in ObjectCalls(f.id) /\ f.val \in Content[f.id]
    BY ClassIs DEF At, ObjectAt, ObjectCall, ObjectCalls
  <1>2. PICK g : g = To(f, x)
    OBVIOUS
  <1>3. g = [f EXCEPT !.pc = x]
    BY <1>2 DEF To
  <1>4. x \in ObjectPcs /\ x \notin {"value", "type_text", "close", "field"} /\ f.keys = {} /\ ~f.last
    BY <1>1 DEF ObjectPcs, AtTheHead, ObjectCall
  <1>5. ObjectCall(g) /\ Ahead(g) = Ahead(f) /\ g.id = f.id /\ g.val = f.val /\ g.pc = x
    BY <1>1, <1>3, <1>4, ObjectGoesTo
  <1>6. PICK w : w = Goal(f, i) /\ w = Goal(g, i)
    BY <1>5 DEF Goal
  <1>7. "type" \in DOMAIN Meta[f.id] /\ "type" \notin DOMAIN Ast[f.id] /\ f.val["type"] = Fresh[f.id]["type"]
    BY <1>1, ClassIs, ObjectContent
  <1>8. w["type"] = f.val["type"]
    <2>1. "type" \notin Answered(f.id)
      BY <1>7 DEF Answered
    <2> QED BY <1>1, <1>6, <1>7, <2>1, ObjectBecomes DEF Goal
  <1>9. \A k \in DOMAIN Meta[f.id] : k # NoKey
    BY SchemaAssumption
  <1>10. d.key = "type" /\ d2.key = NoKey
    BY <1>1 DEF ObjectAt, Emptied
  <1>11. /\ v2 = [k \in DOMAIN Meta[f.id] |-> v2[k]]
         /\ \A k \in DOMAIN Meta[f.id] : v2[k] = IF k = "type" THEN w["type"] ELSE v[k]
    <2>1. v = [k \in DOMAIN Meta[f.id] |-> v[k]]
      BY <1>1 DEF ObjectAt
    <2> QED BY <1>7, <1>8, <2>1
  <1>12. "type" \notin Ahead(f)
    BY <1>1, <1>7, ClassIs DEF Ahead, ObjectCall, ObjectCalls
  <1>13. \A k \in DOMAIN Meta[f.id] : v2[k] = IF k \in Ahead(g) \cup {d2.key} THEN Fresh[f.id][k] ELSE w[k]
    BY <1>1, <1>5, <1>6, <1>9, <1>10, <1>11, <1>12 DEF ObjectAt
  <1>14. ObjectAt(g, d2, nd, v2, i)
    BY <1>1, <1>4, <1>5, <1>6, <1>11, <1>13 DEF ObjectAt, Emptied
  <1>15. At(g, d2, nd, v2, i)
    BY <1>1, <1>5, <1>14, Apart DEF At, Emptied
  <1> QED BY <1>2, <1>5, <1>15 DEF Keeps

\* A scalar element: a cell without a value is null and vanishes, what is no
\* JSON is refused, the others are taken for what they become.
ElementRead(e, x, tok, y) ==
  \/ tok = Null /\ Absent(e, x)
  \/ tok = Unlexable
  \/ /\ tok.t \notin {"mark", "key", "null"} /\ ~Absent(e, x)
     /\ ElemCastable(e, tok) /\ ElemCast(e, tok) = y

LEMMA ElementTaken ==
  ASSUME NEW e \in TypeId, NEW x \in Content[e], NEW i \in 1..MaxDepth, Kind[e] \in {"int", "bool", "string", "var"}
  PROVE  ElementRead(e, x, prim_token(Val(e, e, x)), Inside(i)[e][x])
  <1>1. PICK tok : tok = prim_token(Val(e, e, x))
    OBVIOUS
  <1>2. Inside(i)[e][x] = ScalarTravelled(e, x)
    <2>1. i \in 0..MaxDepth /\ e \notin Class \cup List \cup Map
      BY BoundsAssumption DEF Class, List, Map
    <2> QED BY <2>1, ScalarBecomes
  <1>3. x # NullPtr
    BY ScalarContent
  <1>4. CASE Kind[e] \in {"int", "bool", "string"}
    <2>1. tok = Unlexable \/ Plain(e, tok, ScalarTravelled(e, x))
      BY <1>1, <1>4, PlainRead
    <2>2. ~Absent(e, x)
      BY <1>3, <1>4 DEF Absent
    <2> QED BY <1>1, <1>2, <1>4, <2>1, <2>2 DEF Plain, ElementRead, ElemCastable, ElemCast
  <1>5. CASE Kind[e] = "var"
    <2>1. tok = serialize_var(e, x)
      <3>1. PICK v : v = Val(e, e, x) /\ v.id = e /\ v.ct = e /\ v.val = x
        BY ValIs
      <3> QED BY <1>1, <1>5, <3>1 DEF prim_token
    <2>2. x.t \in {"none", "int", "double", "float", "string", "date"}
      BY <1>5, ScalarContent
    <2>3. Absent(e, x) <=> x.t = "none"
      BY <1>3, <1>5 DEF Absent
    <2>4. ElemCastable(e, tok) /\ ElemCast(e, tok) = VarOf(tok)
      BY <1>5 DEF ElemCastable, ElemCast
    <2>5. ScalarTravelled(e, x) = VarTravelled(x)
      BY <1>5 DEF ScalarTravelled
    <2>6. CASE x.t = "none"
      BY <1>1, <1>5, <2>1, <2>3, <2>6 DEF serialize_var, ElementRead
    <2>7. CASE x.t = "int"
      <3>1. tok = Number(x.v) /\ VarTravelled(x) = VarOf(Number(x.v))
        BY <1>5, <2>1, <2>7 DEF serialize_var, VarTravelled
      <3>2. tok.t \in {"uint", "int"}
        BY <3>1, Tokens
      <3> QED BY <1>1, <1>2, <2>3, <2>4, <2>5, <2>7, <3>1, <3>2 DEF ElementRead
    <2>8. CASE x.t = "double"
      <3>1. tok = Decimal(x.v) /\ VarTravelled(x) = [t |-> "float", v |-> Narrowed[x.v]]
        BY <1>5, <2>1, <2>8 DEF serialize_var, VarTravelled
      <3>2. CASE Narrowed[x.v] = Refused
        BY <1>1, <3>1, <3>2 DEF Decimal, ElementRead
      <3>3. CASE Narrowed[x.v] # Refused
        <4>1. tok = [t |-> "float", v |-> Narrowed[x.v]]
          BY <3>1, <3>3 DEF Decimal
        <4>2. tok.t = "float" /\ VarOf(tok) = tok
          BY <4>1 DEF VarOf
        <4> QED BY <1>1, <1>2, <2>3, <2>4, <2>5, <2>8, <3>1, <4>1, <4>2 DEF ElementRead
      <3> QED BY <3>2, <3>3
    <2>9. CASE x.t = "string"
      <3>1. tok = Quoted(x.v) /\ VarTravelled(x) = Str(AsRead(x.v))
        BY <1>5, <2>1, <2>9 DEF serialize_var, VarTravelled
      <3>2. CASE AsRead(x.v) = Refused
        BY <1>1, <3>1, <3>2 DEF Quoted, ElementRead
      <3>3. CASE AsRead(x.v) # Refused
        <4>1. tok = Str(AsRead(x.v))
          BY <3>1, <3>3 DEF Quoted
        <4>2. tok.t = "string" /\ VarOf(tok) = tok
          BY <4>1, Tokens DEF VarOf
        <4> QED BY <1>1, <1>2, <2>3, <2>4, <2>5, <2>9, <3>1, <4>1, <4>2 DEF ElementRead
      <3> QED BY <3>2, <3>3
    <2>10. CASE x.t \in {"float", "date"}
      <3>1. tok = Unlexable
        BY <1>5, <2>1, <2>10 DEF serialize_var
      <3> QED BY <1>1, <3>1 DEF ElementRead
    <2> QED BY <2>2, <2>6, <2>7, <2>8, <2>9, <2>10
  <1> QED BY <1>4, <1>5

-----------------------------------------------------------------------------
\* The writer is at f, the reader at its text; the writer's next move writes
\* the token that the reader takes next.
Facing(a, n, f) == Match(a) /\ a # <<>> /\ n = Len(doc) /\ f = a[n]
Hears(a, typed, n, f) == Facing(a, n, f) /\ Read /\ status' = "parsing" /\ Move(a, typed).out = <<Cur>>

LEMMA FacingIs ==
  ASSUME NEW a, NEW n, NEW f, Facing(a, n, f)
  PROVE  /\ Match(a) /\ a # <<>> /\ n = Len(doc) /\ f = a[n] /\ Last(a) = f /\ Len(a) = n
         /\ DocOK /\ StackOK /\ doc # <<>> /\ n \in 1..MaxDepth /\ n \in Nat \ {0} /\ n > 0 /\ n \in Nat
         /\ Len(stack) = n /\ IsSeq(a, n) /\ Len(inst) = n
         /\ Top = stack[n] /\ TopInst = inst[n]
         /\ KeysOK(doc, active_key) /\ At(f, doc[n], stack[n], inst[n], n)
  <1>1. Match(a) /\ a # <<>> /\ n = Len(doc) /\ f = a[n]
    BY DEF Facing
  <1>2. /\ DocOK /\ StackOK /\ doc # <<>> /\ n \in 1..MaxDepth /\ n \in Nat \ {0} /\ n > 0 /\ Last(a) = f /\ Len(a) = n
        /\ Len(stack) = n /\ IsSeq(a, n) /\ KeysOK(doc, active_key) /\ At(f, doc[n], stack[n], inst[n], n)
    BY <1>1, MatchIs
  <1>3. Len(inst) = n
    BY <1>2, SeqOfContents DEF StackOK
  <1>4. Top = stack[n] /\ TopInst = inst[n]
    BY <1>2, <1>3 DEF Top, TopInst
  <1> QED BY <1>1, <1>2, <1>3, <1>4

LEMMA HearsIs ==
  ASSUME NEW a, NEW typed, NEW n, NEW f, Hears(a, typed, n, f)
  PROVE  /\ Facing(a, n, f)
         /\ Match(a) /\ a # <<>> /\ n = Len(doc) /\ f = a[n] /\ obj' = obj /\ Last(a) = f /\ Len(a) = n
         /\ DocOK /\ StackOK /\ doc # <<>> /\ n \in 1..MaxDepth /\ n \in Nat \ {0} /\ n > 0 /\ n \in Nat
         /\ Len(stack) = n /\ IsSeq(a, n) /\ Len(inst) = n
         /\ Top = stack[n] /\ TopInst = inst[n]
         /\ KeysOK(doc, active_key) /\ At(f, doc[n], stack[n], inst[n], n)
  <1>1. Facing(a, n, f) /\ Read /\ status' = "parsing"
    BY DEF Hears
  <1>2. obj' = obj
    BY <1>1, Handled DEF ReadsOn
  <1> QED BY <1>1, <1>2, FacingIs

LEMMA HearsFaces ==
  ASSUME NEW a, NEW typed, NEW n, NEW f, Hears(a, typed, n, f)
  PROVE  Facing(a, n, f)
  BY DEF Hears

LEMMA Heard ==
  ASSUME NEW a, NEW typed, NEW n, NEW f, NEW x, NEW g, Hears(a, typed, n, f)
  PROVE  /\ Move(a, typed) = Writes(a, x, g) => Cur = x /\ Move(a, typed).calls = OnTop(a, g)
         /\ Move(a, typed) = Enters(a, x, g) => Cur = Mark(x) /\ Move(a, typed).calls = More(a, g)
         /\ Move(a, typed) # Goes(a, g)
  <1>1. Move(a, typed).out = <<Cur>>
    BY DEF Hears
  <1>2. \A y : <<Cur>> = <<y>> => Cur = y
    OBVIOUS
  <1>3. <<Cur>> # <<>>
    OBVIOUS
  <1> QED BY <1>1, <1>2, <1>3, TokenOut, NoToken

\* A value for the member k of the object on top.
LEMMA MemberSet ==
  ASSUME NEW n \in Nat, NEW f, NEW k, NEW tok, NEW x, n = Len(doc), KeysOK(doc, active_key),
         f.id \in Class, At(f, doc[n], stack[n], inst[n], n), doc[n].key = k, k \in DOMAIN Meta[f.id],
         TakesAs(stack[n], inst[n], k, tok, x)
  PROVE  ValueSet(stack[n], inst[n], tok) = [inst[n] EXCEPT ![k] = x]
  <1>1. doc[n].ty = f.id /\ stack[n].ty = f.id /\ ~stack[n].is_list /\ ~stack[n].is_map
    BY ClassIs DEF At, ObjectAt
  <1>2. k \in Key /\ k # NoKey
    BY SchemaAssumption
  <1>3. active_key = k
    BY <1>1, <1>2 DEF KeysOK
  <1>4. find_field_recursive(stack[n].ty, k)
    BY <1>1 DEF find_field_recursive
  <1>5. ValueSet(stack[n], inst[n], tok) = set_member(stack[n], inst[n], k, tok)
    BY <1>1, <1>2, <1>3, <1>4 DEF ValueSet
  <1> QED BY <1>5 DEF TakesAs

\* An object's type, its commas and the names of its fields.
LEMMA ReadsType ==
  ASSUME NEW a, NEW typed, NEW n, NEW f, NEW b, Hears(a, typed, n, f), f.id \in Class, f.pc = "type",
         b = Move(a, typed).calls
  PROVE  Match(b)'
  <1>1. /\ Match(a) /\ a # <<>> /\ n = Len(doc) /\ f = a[n] /\ obj' = obj /\ Last(a) = f
        /\ n \in 1..MaxDepth /\ n \in Nat /\ At(f, doc[n], stack[n], inst[n], n)
    BY HearsIs
  <1>2. PICK g : g = To(f, "type_text")
    OBVIOUS
  <1>3. Move(a, typed) = Writes(a, KeyOf("type"), g)
    BY <1>1, <1>2 DEF Move, EnvelopeMove, To
  <1>4. Cur = KeyOf("type") /\ b = OnTop(a, g)
    BY <1>3, Heard
  <1>5. key("type")
    <2>1. Cur.t = "key" /\ Cur.v = "type"
      BY <1>4, Tokens
    <2> QED BY <2>1, Handled DEF Hears
  <1>6. "type" \in Key
    BY ClassIs, SchemaAssumption
  <1>7. ASSUME doc[n].key = NoKey, NEW d2, NEW nd2, Named1(d2, doc[n], "type"), NamesIn(nd2, stack[n], "type")
        PROVE  At(g, d2, nd2, inst[n], n)
    <2>1. SameNode(nd2, stack[n])
      BY <1>7 DEF NamesIn
    <2> QED BY <1>1, <1>2, <1>7, <2>1, TypeNamed
  <1>9. Keeps(g, f)
    <2>1. f \in ObjectCalls(f.id)
      BY <1>1, ClassIs DEF At, ObjectAt, ObjectCall
    <2> QED BY <1>2, <2>1 DEF To, Keeps, ObjectCalls
  <1> QED BY <1>1, <1>4, <1>5, <1>6, <1>7, <1>9, KeyRead

LEMMA ReadsTypeText ==
  ASSUME NEW a, NEW typed, NEW n, NEW f, NEW b, Hears(a, typed, n, f), f.id \in Class, f.pc = "type_text",
         b = Move(a, typed).calls
  PROVE  Match(b)'
  <1>1. /\ Match(a) /\ a # <<>> /\ n = Len(doc) /\ f = a[n] /\ obj' = obj /\ Last(a) = f
        /\ n \in 1..MaxDepth /\ n \in Nat /\ At(f, doc[n], stack[n], inst[n], n) /\ KeysOK(doc, active_key)
    BY HearsIs
  <1>2. PICK x : x = IF TypeComma(f.ct) THEN "type_comma" ELSE "kvs"
    OBVIOUS
  <1>3. PICK g, w : g = To(f, x) /\ w = f.val["type"]
    OBVIOUS
  <1>4. Move(a, typed) = Writes(a, Str(w), g)
    <2>1. Move(a, typed) = EnvelopeMove(a, f)
      BY <1>1 DEF Move
    <2>2. EnvelopeMove(a, f) = Writes(a, Str(w), [f EXCEPT !.pc = x])
      BY <1>2, <1>3 DEF EnvelopeMove
    <2> QED BY <1>3, <2>1, <2>2 DEF To
  <1>5. Cur = Str(w) /\ b = OnTop(a, g)
    BY <1>4, Heard
  <1>6. set_value(Str(w))
    <2>1. Cur.t \notin {"mark", "key", "null"}
      BY <1>5, Tokens
    <2>2. set_value(Cur)
      BY <2>1, Handled DEF Hears
    <2> QED BY <1>5, <2>2
  <1>7. doc[n].key = "type" /\ "type" \in DOMAIN Meta[f.id] /\ stack[n].ty = f.id /\ stack[n].val_astid = f.id
    BY <1>1, ClassIs DEF At, ObjectAt
  <1>8. TakesAs(stack[n], inst[n], "type", Str(w), w)
    BY <1>7, TypeRead
  <1>9. ValueSet(stack[n], inst[n], Str(w)) = [inst[n] EXCEPT !["type"] = w]
    <2>1. PICK k, tok : k = "type" /\ tok = Str(w)
      OBVIOUS
    <2>2. doc[n].key = k /\ k \in DOMAIN Meta[f.id] /\ TakesAs(stack[n], inst[n], k, tok, w)
      BY <1>7, <1>8, <2>1
    <2>3. ValueSet(stack[n], inst[n], tok) = [inst[n] EXCEPT ![k] = w]
      BY <1>1, <2>2, MemberSet
    <2> QED BY <2>1, <2>3
  <1>10. x \in {"type_comma", "kvs"}
    BY <1>2
  <1>11. ASSUME NEW d2, Emptied(d2, doc[n])
         PROVE  At(g, d2, stack[n], ValueSet(stack[n], inst[n], Str(w)), n)
    BY <1>1, <1>3, <1>9, <1>10, <1>11, TypeTakes
  <1>12. Keeps(g, f)
    <2>1. f \in ObjectCalls(f.id)
      BY <1>1, ClassIs DEF At, ObjectAt, ObjectCall
    <2> QED BY <1>3, <2>1 DEF To, Keeps, ObjectCalls
  <1> QED BY <1>1, <1>5, <1>6, <1>11, <1>12, ScalarRead

\* A comma, of an object, a list or a map.
LEMMA ReadsComma ==
  ASSUME NEW a, NEW typed, NEW n, NEW f, NEW b, NEW x, Hears(a, typed, n, f), Move(a, typed) = Writes(a, Comma, To(f, x)),
         At(To(f, x), doc[n], stack[n], inst[n], n), Keeps(To(f, x), f), b = Move(a, typed).calls
  PROVE  Match(b)'
  <1>1. PICK g : g = To(f, x)
    OBVIOUS
  <1>2. Match(a) /\ a # <<>> /\ n = Len(doc) /\ f = a[n] /\ obj' = obj /\ n \in Nat
    BY HearsIs
  <1>3. Cur = Comma /\ b = OnTop(a, g)
    BY <1>1, Heard
  <1>4. UNCHANGED vars
    BY <1>3, Handled DEF Hears
  <1> QED BY <1>1, <1>2, <1>3, <1>4, CommaRead

LEMMA ReadsObjectComma ==
  ASSUME NEW a, NEW typed, NEW n, NEW f, NEW b, Hears(a, typed, n, f), f.id \in Class,
         f.pc \in {"type_comma", "base_comma", "fields"}, b = Move(a, typed).calls
  PROVE  Match(b)'
  <1>1. Last(a) = f /\ At(f, doc[n], stack[n], inst[n], n)
    BY HearsIs
  <1>2. ASSUME NEW x, Move(a, typed) = Writes(a, Comma, To(f, x)),
               \/ (f.pc = "type_comma" /\ x = "kvs")
               \/ (f.pc = "base_comma" /\ x = "fields")
               \/ (f.pc = "fields" /\ f.keys # {} /\ x = "field")
        PROVE  Match(b)'
    <2>1. At(To(f, x), doc[n], stack[n], inst[n], n) /\ Keeps(To(f, x), f)
      BY <1>1, <1>2, ObjectComma
    <2> QED BY <1>2, <2>1, ReadsComma
  <1>3. CASE f.pc = "type_comma"
    <2>1. Move(a, typed) = Writes(a, Comma, To(f, "kvs"))
      BY <1>1, <1>3 DEF Move, EnvelopeMove, To
    <2> QED BY <1>2, <1>3, <2>1
  <1>4. CASE f.pc = "base_comma"
    <2>1. Move(a, typed) = KvsMove(a, f, typed)
      BY <1>1, <1>4 DEF Move
    <2>2. KvsMove(a, f, typed) = Writes(a, Comma, To(f, "fields"))
      BY <1>4 DEF KvsMove, To
    <2> QED BY <1>2, <1>4, <2>1, <2>2
  <1>5. CASE f.pc = "fields"
    <2>1. Move(a, typed) = FieldsMove(a, f)
      BY <1>1, <1>5 DEF Move
    <2>2. CASE f.keys = {} \/ f.first
      <3>1. \E g : FieldsMove(a, f) = Goes(a, g)
        BY <1>5, <2>2 DEF FieldsMove
      <3> QED BY <2>1, <3>1, Heard
    <2>3. CASE f.keys # {} /\ ~f.first
      <3>1. FieldsMove(a, f) = Writes(a, Comma, To(f, "field"))
        BY <1>5, <2>3 DEF FieldsMove, To
      <3> QED BY <1>2, <1>5, <2>1, <2>3, <3>1
    <2> QED BY <2>2, <2>3
  <1> QED BY <1>3, <1>4, <1>5

\* The name of a field, or of an entry of a map.
LEMMA ReadsName ==
  ASSUME NEW a, NEW typed, NEW n, NEW f, NEW b, NEW k, NEW j \in Key, Hears(a, typed, n, f),
         Move(a, typed) = Named(a, f, k, KeyOf(j)), b = Move(a, typed).calls,
         \A d2, nd2 : doc[n].key = NoKey /\ Named1(d2, doc[n], j) /\ NamesIn(nd2, stack[n], j) =>
                        At(Naming(f, k), d2, nd2, inst[n], n) /\ Keeps(Naming(f, k), f)
  PROVE  Match(b)'
  <1>1. /\ Match(a) /\ a # <<>> /\ n = Len(doc) /\ f = a[n] /\ obj' = obj /\ Last(a) = f
        /\ n \in 1..MaxDepth /\ n \in Nat /\ At(f, doc[n], stack[n], inst[n], n)
    BY HearsIs
  <1>2. PICK g : g = Naming(f, k)
    OBVIOUS
  <1>3. Move(a, typed) = Writes(a, KeyOf(j), g)
    BY <1>2 DEF Named, Naming
  <1>4. Cur = KeyOf(j) /\ b = OnTop(a, g)
    BY <1>3, Heard
  <1>5. key(j)
    <2>1. Cur.t = "key" /\ Cur.v = j
      BY <1>4, Tokens
    <2> QED BY <2>1, Handled DEF Hears
  <1>6. ASSUME doc[n].key = NoKey, NEW d2, NEW nd2, Named1(d2, doc[n], j), NamesIn(nd2, stack[n], j)
        PROVE  At(g, d2, nd2, inst[n], n)
    BY <1>2, <1>6
  <1>7. Keeps(g, f)
    BY <1>2 DEF Naming, Keeps
  <1> QED BY <1>1, <1>4, <1>5, <1>6, <1>7, KeyRead

LEMMA ReadsField ==
  ASSUME NEW a, NEW typed, NEW n, NEW f, NEW b, Hears(a, typed, n, f), f.id \in Class, f.pc = "field",
         b = Move(a, typed).calls
  PROVE  Match(b)'
  <1>1. Last(a) = f /\ At(f, doc[n], stack[n], inst[n], n)
    BY HearsIs
  <1>2. PICK k : k = NextOf(f.keys)
    OBVIOUS
  <1>3. Move(a, typed) = Named(a, f, k, KeyOf(k))
    BY <1>1, <1>2 DEF Move, FieldsMove
  <1>4. k \in f.keys /\ k \in Key
    <2>1. ObjectCall(f)
      BY <1>1, ClassIs DEF At, ObjectAt
    <2>2. f.keys # {} /\ f.keys \subseteq Key
      BY <2>1 DEF ObjectCall, ObjectCalls
    <2> QED BY <1>2, <2>2, NextIs
  <1>5. ASSUME NEW d2, NEW nd2, doc[n].key = NoKey, Named1(d2, doc[n], k), NamesIn(nd2, stack[n], k)
        PROVE  At(Naming(f, k), d2, nd2, inst[n], n) /\ Keeps(Naming(f, k), f)
    <2>1. SameNode(nd2, stack[n])
      BY <1>5 DEF NamesIn
    <2> QED BY <1>1, <1>4, <1>5, <2>1, FieldNamed
  <1> QED BY <1>3, <1>4, <1>5, ReadsName

\* The comma of a list, the comma and the names of the entries of a map.
LEMMA ReadsListComma ==
  ASSUME NEW a, NEW typed, NEW n, NEW f, NEW b, Hears(a, typed, n, f), f.id \in List, f.pc = "elems",
         b = Move(a, typed).calls
  PROVE  Match(b)'
  <1>1. Last(a) = f /\ At(f, doc[n], stack[n], inst[n], n)
    BY HearsIs
  <1>2. Move(a, typed) = ListMove(a, f)
    BY <1>1 DEF Move
  <1>3. CASE f.next > Len(f.val)
    <2>1. f.next \in Nat /\ Len(f.val) \in Nat
      <3>1. f \in ListCalls(f.id) /\ f.val \in Content[f.id]
        BY <1>1, OneKind DEF At, ListAt, ListCall, ListCalls
      <3> QED BY <3>1, ListContent DEF ListCalls
    <2>2. ~(f.next <= Len(f.val))
      BY <1>3, <2>1
    <2>3. ListMove(a, f) = Goes(a, To(f, "close"))
      BY <1>3, <2>2 DEF ListMove, To
    <2> QED BY <1>2, <2>3, Heard
  <1>4. CASE f.next <= Len(f.val) /\ ~(f.next > Len(f.val)) /\ f.next > 1
    <2>1. ListMove(a, f) = Writes(a, Comma, To(f, "value"))
      BY <1>4 DEF ListMove, To
    <2>2. At(To(f, "value"), doc[n], stack[n], inst[n], n) /\ Keeps(To(f, "value"), f)
      BY <1>1, <1>4, ListGoesTo DEF Keeps
    <2> QED BY <1>2, <2>1, <2>2, ReadsComma
  <1>5. CASE ~(f.next > Len(f.val)) /\ ~(f.next <= Len(f.val) /\ f.next > 1)
    <2>1. \E g : ListMove(a, f) = Goes(a, g)
      BY <1>5 DEF ListMove
    <2> QED BY <1>2, <2>1, Heard
  <1> QED BY <1>3, <1>4, <1>5

LEMMA ReadsMapComma ==
  ASSUME NEW a, NEW typed, NEW n, NEW f, NEW b, Hears(a, typed, n, f), f.id \in Map, f.pc = "entries",
         b = Move(a, typed).calls
  PROVE  Match(b)'
  <1>1. Last(a) = f /\ At(f, doc[n], stack[n], inst[n], n)
    BY HearsIs
  <1>2. Move(a, typed) = MapMove(a, f, typed)
    BY <1>1 DEF Move
  <1>3. CASE f.keys = {} \/ f.first
    <2>1. \E g : MapMove(a, f, typed) = Goes(a, g)
      BY <1>3 DEF MapMove
    <2> QED BY <1>2, <2>1, Heard
  <1>4. CASE f.keys # {} /\ ~f.first
    <2>1. MapMove(a, f, typed) = Writes(a, Comma, To(f, "entry"))
      BY <1>4 DEF MapMove, To
    <2>2. At(To(f, "entry"), doc[n], stack[n], inst[n], n) /\ Keeps(To(f, "entry"), f)
      BY <1>1, <1>4, MapGoesTo DEF Keeps
    <2> QED BY <1>2, <2>1, <2>2, ReadsComma
  <1> QED BY <1>3, <1>4

LEMMA ReadsEntry ==
  ASSUME NEW a, NEW typed, NEW n, NEW f, NEW b, Hears(a, typed, n, f), f.id \in Map, f.pc = "entry",
         b = Move(a, typed).calls
  PROVE  Match(b)'
  <1>1. Last(a) = f /\ At(f, doc[n], stack[n], inst[n], n) /\ n \in 1..MaxDepth
    BY HearsIs
  <1>2. Move(a, typed) = MapMove(a, f, typed)
    BY <1>1 DEF Move
  <1>3. CASE Elem[f.id].id \in Asts
    <2>1. \E g : MapMove(a, f, typed) = Goes(a, g)
      BY <1>3 DEF MapMove
    <2> QED BY <1>2, <2>1, Heard
  <1>4. CASE Elem[f.id].id \notin Asts
    <2>1. PICK k : k = NextOf(f.keys)
      OBVIOUS
    <2>2. MapMove(a, f, typed) = Named(a, f, k, RawKey(k))
      BY <1>4, <2>1 DEF MapMove
    <2>3. k \in f.keys /\ (AsRead(k) \in Key \/ AsRead(k) = Refused)
      <3>1. MapCall(f) /\ f.val \in Content[f.id]
        BY <1>1, MapIs
      <3>2. f.keys # {} /\ f.keys \subseteq DOMAIN f.val
        BY <3>1 DEF MapCall
      <3>3. k \in f.keys
        BY <2>1, <3>2, NextIs
      <3> QED BY <3>1, <3>2, <3>3, MapContent
    <2>4. CASE AsRead(k) = Refused
      <3>1. Move(a, typed) = Writes(a, Unlexable, Naming(f, k))
        BY <1>2, <2>2, <2>4 DEF Named, RawKey, Naming
      <3>2. Cur = Unlexable
        BY <3>1, Heard
      <3> QED BY <3>2, Handled DEF Hears
    <2>5. CASE AsRead(k) \in Key /\ AsRead(k) # Refused
      <3>1. PICK j \in Key : j = AsRead(k)
        BY <2>5
      <3>2. Move(a, typed) = Named(a, f, k, KeyOf(j))
        BY <1>2, <2>2, <2>5, <3>1 DEF RawKey
      <3>3. ASSUME NEW d2, NEW nd2, doc[n].key = NoKey, Named1(d2, doc[n], j), NamesIn(nd2, stack[n], j)
            PROVE  At(Naming(f, k), d2, nd2, inst[n], n) /\ Keeps(Naming(f, k), f)
        BY <1>1, <1>4, <2>3, <2>5, <3>1, <3>3, EntryNamed
      <3> QED BY <3>2, <3>3, ReadsName
    <2> QED BY <2>3, <2>4, <2>5
  <1> QED BY <1>3, <1>4

\* A scalar member, and a scalar element of a list or a map.
LEMMA ReadsMember ==
  ASSUME NEW a, NEW typed, NEW n, NEW f, NEW b, NEW t, Hears(a, typed, n, f), f.id \in Class, f.pc = "value",
         t = Meta[f.id][f.slot], t \notin List \cup Map \cup Class, b = Move(a, typed).calls
  PROVE  Match(b)'
  <1>1. /\ Match(a) /\ a # <<>> /\ n = Len(doc) /\ f = a[n] /\ obj' = obj /\ Last(a) = f
        /\ n \in 1..MaxDepth /\ n \in Nat /\ At(f, doc[n], stack[n], inst[n], n) /\ KeysOK(doc, active_key)
    BY HearsIs
  <1>2. ObjectCall(f) /\ doc[n].key = f.slot
    BY <1>1, ClassIs DEF At, ObjectAt
  <1>3. f.slot \in DOMAIN Meta[f.id]
    <2>1. f.slot \in DOMAIN Ast[f.id]
      BY <1>2, ObjectValue
    <2> QED BY <2>1, FieldIs
  <1>4. PICK tok, g, k, w : tok = MemberToken(t, f.val[f.slot]) /\ g = Returned(f) /\ k = f.slot /\ w = Goal(f, n)[f.slot]
    OBVIOUS
  <1>5. k \in Getter[f.id] /\ Move(a, typed) = Writes(a, tok, g)
    BY <1>1, <1>2, <1>4, MemberMove
  <1>6. Cur = tok /\ b = OnTop(a, g)
    BY <1>5, Heard
  <1>7. TakesAs(stack[n], inst[n], k, tok, w)
    <2>1. tok = Unlexable \/ TakesAs(stack[n], inst[n], k, tok, w)
      BY <1>1, <1>4, <1>5, FieldRead
    <2>2. Cur # Unlexable
      BY Handled DEF Hears
    <2> QED BY <1>6, <2>1, <2>2
  <1>8. set_value(tok)
    <2>1. Cur.t \notin {"mark", "key", "null"}
      BY <1>6, <1>7 DEF TakesAs
    <2>2. set_value(Cur)
      BY <2>1, Handled DEF Hears
    <2> QED BY <1>6, <2>2
  <1>9. ValueSet(stack[n], inst[n], tok) = [inst[n] EXCEPT ![k] = w]
    BY <1>1, <1>2, <1>3, <1>4, <1>7, MemberSet
  <1>10. ASSUME NEW d2, Emptied(d2, doc[n])
         PROVE  At(g, d2, stack[n], ValueSet(stack[n], inst[n], tok), n) /\ Keeps(g, f)
    <2>1. PICK v2 : v2 = ValueSet(stack[n], inst[n], tok)
      OBVIOUS
    <2>2. SameNode(stack[n], stack[n])
      BY DEF SameNode
    <2>3. v2 = [inst[n] EXCEPT ![f.slot] = Goal(f, n)[f.slot]]
      BY <1>4, <1>9, <2>1
    <2>4. At(Returned(f), d2, stack[n], v2, n) /\ Returned(f).id = f.id /\ Returned(f).val = f.val
      BY <1>1, <1>10, <2>2, <2>3, ObjectTakes
    <2> QED BY <1>4, <2>1, <2>4 DEF Keeps
  <1>11. Keeps(g, f)
    <2>1. f \in ObjectCalls(f.id)
      BY <1>2 DEF ObjectCall
    <2>2. f.id \notin List /\ f.id \notin Map
      BY OneKind
    <2> QED BY <1>4, <2>1, <2>2 DEF Returned, Keeps, ObjectCalls
  <1> QED BY <1>1, <1>6, <1>8, <1>10, <1>11, ScalarRead

LEMMA ElementSet ==
  ASSUME NEW f, NEW d, NEW nd, NEW v, NEW i, NEW e, NEW tok, NEW y, f.id \in List \cup Map, f.pc = "value",
         At(f, d, nd, v, i), e = Elem[f.id].id, ElemCastable(e, tok), ElemCast(e, tok) = y, d.key # NoKey \/ f.id \in List
  PROVE  /\ f.id \in List => ValueSet(nd, v, tok) = More(v, y)
         /\ f.id \in Map => ValueSet(nd, v, tok) = Insert(v, AsRead(f.slot), y)
  <1>1. CASE f.id \in List
    <2>1. nd.ty = f.id /\ nd.is_list /\ f.id \notin Map
      BY <1>1, OneKind DEF At, ListAt
    <2>2. ValueSet(nd, v, tok) = insert_list(f.id, v, tok)
      BY <2>1 DEF ValueSet
    <2>3. insert_list(f.id, v, tok) = More(v, y)
      BY <1>1 DEF insert_list, is_sequence, More
    <2> QED BY <2>1, <2>2, <2>3
  <1>2. CASE f.id \in Map
    <2>1. nd.ty = f.id /\ ~nd.is_list /\ nd.is_map /\ f.id \notin List /\ nd.map_key = d.key /\ d.key = AsRead(f.slot)
      BY <1>2, OneKind DEF At, MapAt
    <2>2. ValueSet(nd, v, tok) = insert_map(f.id, v, AsRead(f.slot), tok)
      BY <2>1 DEF ValueSet
    <2>3. insert_map(f.id, v, AsRead(f.slot), tok) = Insert(v, AsRead(f.slot), y)
      BY <1>2 DEF insert_map, is_associative
    <2> QED BY <2>1, <2>2, <2>3
  <1> QED BY <1>1, <1>2

\* An element that is taken, or dropped, leaves the list or the map right.
LEMMA Takes ==
  ASSUME NEW f, NEW d, NEW nd, NEW v, NEW i \in 1..MaxDepth, NEW d2, NEW nd2, NEW v2, NEW e, NEW x,
         At(f, d, nd, v, i), f.id \in List \cup Map, f.pc = "value", Emptied(d2, d), SameNode(nd2, nd),
         e = Elem[f.id].id, x = Element(f),
         f.id \in List => v2 = IF Absent(e, x) THEN v ELSE More(v, Inside(i)[e][x]),
         f.id \in Map => v2 = IF Absent(e, x) THEN v ELSE Insert(v, AsRead(f.slot), Inside(i)[e][x])
  PROVE  At(Returned(f), d2, nd2, v2, i) /\ Keeps(Returned(f), f)
  <1>1. CASE f.id \in List
    <2>1. v2 = IF Absent(e, x) THEN v ELSE More(v, Inside(i)[e][x])
      BY <1>1
    <2>2. At(Returned(f), d2, nd2, v2, i) /\ Returned(f).id = f.id /\ Returned(f).val = f.val
      BY <1>1, <2>1, ListTakes
    <2> QED BY <2>2 DEF Keeps
  <1>2. CASE f.id \in Map
    <2>1. v2 = IF Absent(e, x) THEN v ELSE Insert(v, AsRead(f.slot), Inside(i)[e][x])
      BY <1>2
    <2>2. At(Returned(f), d2, nd2, v2, i) /\ Returned(f).id = f.id /\ Returned(f).val = f.val
      BY <1>2, <2>1, MapTakes
    <2> QED BY <2>2 DEF Keeps
  <1> QED BY <1>1, <1>2

LEMMA KeptReturned ==
  ASSUME NEW f, Elemental(f)
  PROVE  Keeps(Returned(f), f)
  <1>1. CASE f.id \in List
    <2>1. f \in ListCalls(f.id)
      BY <1>1, OneKind DEF Elemental, ListCall
    <2> QED BY <1>1, <2>1 DEF Returned, Keeps, ListCalls
  <1>2. CASE f.id \in Map
    <2>1. f \in MapCalls(f.id) /\ f.id \notin List
      BY <1>2, OneKind DEF Elemental, MapCall
    <2> QED BY <1>2, <2>1 DEF Returned, Keeps, MapCalls
  <1> QED BY <1>1, <1>2 DEF Elemental

LEMMA ElementalIs ==
  ASSUME NEW f, NEW d, NEW nd, NEW v, NEW i, At(f, d, nd, v, i), f.id \in List \cup Map
  PROVE  /\ Elemental(f) /\ f.id \in TypeId
         /\ f.id \in Map /\ f.pc = "value" => d.key = AsRead(f.slot) /\ d.key # NoKey /\ Elem[f.id].id \notin Asts
  <1>1. CASE f.id \in List
    <2>1. ListAt(f, d, nd, v, i) /\ f.id \notin Map
      BY <1>1, OneKind DEF At
    <2> QED BY <1>1, <2>1 DEF ListAt, Elemental, At
  <1>2. CASE f.id \in Map
    <2>1. MapAt(f, d, nd, v, i) /\ MapCall(f) /\ f.val \in Content[f.id]
      BY <1>2, MapIs
    <2>2. f.pc = "value" => d.key = AsRead(f.slot) /\ d.key \in Key /\ Elem[f.id].id \notin Asts
      BY <2>1 DEF MapAt, MapCall
    <2>3. NoKey \notin Key
      BY SchemaAssumption
    <2> QED BY <1>2, <2>1, <2>2, <2>3 DEF Elemental, At
  <1> QED BY <1>1, <1>2

LEMMA ReadsElement ==
  ASSUME NEW a, NEW typed, NEW n, NEW f, NEW b, NEW e, Hears(a, typed, n, f), f.id \in List \cup Map, f.pc = "value",
         e = Elem[f.id].id, e \notin Class \cup List, b = Move(a, typed).calls
  PROVE  Match(b)'
  <1>1. /\ Match(a) /\ a # <<>> /\ n = Len(doc) /\ f = a[n] /\ obj' = obj /\ Last(a) = f
        /\ n \in 1..MaxDepth /\ n \in Nat /\ At(f, doc[n], stack[n], inst[n], n)
    BY HearsIs
  <1>2. Elemental(f) /\ (f.id \in Map => doc[n].key # NoKey)
    BY <1>1, ElementalIs
  <1>3. PICK x, g, v : x = Element(f) /\ g = Returned(f) /\ v = inst[n]
    OBVIOUS
  <1>4. PICK tok, y : tok = prim_token(Val(e, e, x)) /\ y = Inside(n)[e][x]
    OBVIOUS
  <1>5. Move(a, typed) = Writes(a, tok, g) /\ x # NullPtr
    BY <1>1, <1>2, <1>3, <1>4, ElementMove
  <1>6. x \in Content[e]
    BY <1>1, <1>2, <1>3, <1>5, ElementMove
  <1>7. Cur = tok /\ b = OnTop(a, g)
    BY <1>5, Heard
  <1>8. Kind[e] \in {"int", "bool", "string", "var"} /\ e \in TypeId
    BY ElemIs DEF Class, List
  <1>9. ElementRead(e, x, tok, y)
    BY <1>1, <1>4, <1>6, <1>8, ElementTaken
  <1>10. Keeps(g, f)
    BY <1>2, <1>3, KeptReturned
  <1>11. SameNode(stack[n], stack[n])
    BY DEF SameNode
  <1>12. CASE tok = Null /\ Absent(e, x)
    <2>1. null
      BY <1>7, <1>12, Handled DEF Hears
    <2>2. ASSUME NEW d2, Emptied(d2, doc[n])
          PROVE  At(g, d2, stack[n], inst[n], n)
      BY <1>1, <1>3, <1>11, <1>12, <2>2, Takes
    <2> QED BY <1>1, <1>7, <1>10, <2>1, <2>2, NullRead
  <1>13. CASE tok = Unlexable
    BY <1>7, <1>13, Handled DEF Hears
  <1>14. CASE tok.t \notin {"mark", "key", "null"} /\ ~Absent(e, x) /\ ElemCastable(e, tok) /\ ElemCast(e, tok) = y
    <2>1. set_value(tok)
      BY <1>7, <1>14, Handled DEF Hears
    <2>2. PICK v2 : v2 = ValueSet(stack[n], inst[n], tok)
      OBVIOUS
    <2>3. /\ f.id \in List => v2 = More(v, y)
          /\ f.id \in Map => v2 = Insert(v, AsRead(f.slot), y)
      BY <1>1, <1>2, <1>3, <1>14, <2>2, ElementSet
    <2>4. ASSUME NEW d2, Emptied(d2, doc[n])
          PROVE  At(g, d2, stack[n], v2, n)
      <3>1. f.id \in List => v2 = IF Absent(e, x) THEN v ELSE More(v, Inside(n)[e][x])
        BY <1>4, <1>14, <2>3
      <3>2. f.id \in Map => v2 = IF Absent(e, x) THEN v ELSE Insert(v, AsRead(f.slot), Inside(n)[e][x])
        BY <1>4, <1>14, <2>3
      <3>3. At(f, doc[n], stack[n], v, n)
        BY <1>1, <1>3
      <3> QED BY <1>1, <1>3, <1>11, <2>4, <3>1, <3>2, <3>3, Takes
    <2> QED BY <1>1, <1>7, <1>10, <2>1, <2>2, <2>4, ScalarRead
  <1> QED BY <1>9, <1>12, <1>13, <1>14 DEF ElementRead

-----------------------------------------------------------------------------
\* A bracket that opens: the writer calls one function more, and the reader
\* pushes one node more.
LEMMA BraceOK ==
  ASSUME DocOK, NEW b \in {Brace, "["}, EvOpen(b)
  PROVE  DocOK'
  <1>1. b \in {"{", "["}
    BY Zenon DEF Brace
  <1> QED BY <1>1, OpenOK

LEMMA Descends ==
  ASSUME NEW a, NEW typed, NEW n, NEW f, NEW g, NEW b, NEW t, NEW br \in {Brace, "["}, NEW node \in Node, NEW content,
         Hears(a, typed, n, f), EvOpen(br), Push(node, content), active_key' = active_key, active_key # NoKey,
         t \in TypeId, DueType = t, Kind[t] \in (IF br = Brace THEN {"object", "map"} ELSE {"list"}),
         b = More(a, g), n < MaxDepth => Chain(f, g, node, n),
         n < MaxDepth => \A d : Opened(d, br, t) => At(g, d, node, content, n + 1)
  PROVE  Match(b)'
  <1>1. /\ Match(a) /\ a # <<>> /\ n = Len(doc) /\ f = a[n] /\ obj' = obj /\ DocOK /\ StackOK
        /\ n \in 1..MaxDepth /\ n \in Nat /\ Len(stack) = n /\ KeysOK(doc, active_key)
    BY HearsIs
  <1>2. /\ Len(doc) < MaxDepth /\ Len(doc') = Len(doc) + 1 /\ Agree(doc', doc, Len(doc)) /\ doc' # <<>>
        /\ doc'[Len(doc) + 1] = [open |-> br, ty |-> DueType, key |-> NoKey]
    BY <1>1, OpensBracket
  <1>3. n < MaxDepth /\ Len(doc') = n + 1 /\ Agree(doc', doc, n) /\ Opened(doc'[n + 1], br, t)
    BY <1>1, <1>2 DEF Opened
  <1>4. /\ StackOK' /\ Len(stack') = n + 1 /\ stack'[n + 1] = node /\ Agree(stack', stack, n)
        /\ Agree(inst', inst, n) /\ inst'[n + 1] = content
    BY <1>1, PushOK
  <1>5. DocOK'
    BY <1>1, BraceOK
  <1>6. KeysOK(doc', active_key')
    BY <1>1, <1>3 DEF KeysOK, Opened
  <1>7. At(g, doc'[n + 1], stack'[n + 1], inst'[n + 1], n + 1) /\ Chain(f, g, stack'[n + 1], n)
    BY <1>3, <1>4
  <1> QED BY <1>1, <1>2, <1>3, <1>4, <1>5, <1>6, <1>7, LevelUp

\* What the handlers of an opening bracket do where a value is due.
ObjectMember(k) ==
  LET fd_astid == find_field_astid(Top.val_astid, k)
      ft == Meta[Top.ty][k]
  IN IF fd_astid \in Asts
     THEN Push(ParseNode(ft, fd_astid, FALSE, FALSE, FALSE, k), TopInst[k])
     ELSE push_map(ft, TopInst[k], k, fd_astid)
Constructible == (Top.is_map \/ Top.is_list) /\ Top.val_astid \in Asts /\ Kind[Top.val_astid] # "none"
ObjectElement(k) ==
  Push(ParseNode(Top.val_astid, Top.val_astid, FALSE, FALSE, FALSE, k), Fresh[Top.val_astid])

LEMMA BraceHandled ==
  ASSUME start_object, active_key # NoKey
  PROVE  /\ EvOpen(Brace) /\ active_key' = active_key
         /\ find_field_recursive(Top.ty, active_key) /\ Top.val_astid \in Asts => ObjectMember(active_key)
         /\ ~find_field_recursive(Top.ty, active_key) /\ Constructible => ObjectElement(active_key)
  <1>1. CASE start_object_member
    <2>1. EvOpen(Brace) /\ active_key' = active_key /\ find_field_recursive(Top.ty, active_key) /\ ObjectMember(active_key)
      BY <1>1, Zenon DEF start_object_member, ObjectMember, Brace
    <2> QED BY <2>1
  <1>2. CASE start_object_element
    <2>1. EvOpen(Brace) /\ active_key' = active_key /\ ~find_field_recursive(Top.ty, active_key) /\ ObjectElement(active_key)
      BY <1>2, Zenon DEF start_object_element, ObjectElement, Brace
    <2> QED BY <2>1
  <1>3. CASE start_object_skipped
    <2>1. /\ EvOpen(Brace) /\ active_key' = active_key
          /\ \/ active_key = NoKey
             \/ find_field_recursive(Top.ty, active_key) /\ Top.val_astid \notin Asts
             \/ ~find_field_recursive(Top.ty, active_key) /\ ~Constructible
      BY <1>3, Zenon DEF start_object_skipped, Constructible, Brace
    <2> QED BY <2>1
  <1> QED BY <1>1, <1>2, <1>3 DEF start_object

LEMMA BracketHandled ==
  ASSUME start_array, active_key # NoKey, status' = "parsing"
  PROVE  /\ EvOpen("[") /\ active_key' = active_key
         /\ find_field_recursive(Top.ty, active_key) =>
              push_list(Meta[Top.ty][active_key], TopInst[active_key], active_key, find_field_astid(Top.val_astid, active_key))
         /\ ~find_field_recursive(Top.ty, active_key) /\ (Top.is_map \/ Top.is_list) =>
              push_list(Top.val_astid, Fresh[Top.val_astid], active_key, Top.val_astid)
  <1>1. CASE start_array_member
    BY <1>1 DEF start_array_member, ListCopy
  <1>2. CASE start_array_element
    BY <1>2 DEF start_array_element, InContainer
  <1>3. CASE start_array_refused
    BY <1>3 DEF start_array_refused
  <1>4. CASE start_array_skipped
    BY <1>4 DEF start_array_skipped
  <1> QED BY <1>1, <1>2, <1>3, <1>4 DEF start_array

\* An empty container stays empty.
LEMMA EmptyBecomes ==
  ASSUME NEW t \in List \cup Map, NEW i \in 1..MaxDepth
  PROVE  Inside(i - 1)[t][<<>>] = <<>>
  <1>1. PICK v : v = <<>>
    OBVIOUS
  <1>2. v \in Content[t]
    BY <1>1, ContentAssumption
  <1>3. PICK g : g = Inside(i - 1)[t][v]
    OBVIOUS
  <1>4. CASE t \in List
    <2>1. Len(v) = 0
      BY <1>1, EmptySeq
    <2>2. g = Written(Elem[t].id, v, Inside(i)[Elem[t].id], Len(v))
      BY <1>2, <1>3, <1>4, ListBecomes
    <2>3. Written(Elem[t].id, v, Inside(i)[Elem[t].id], 0) = <<>>
      BY <2>1, WrittenIs
    <2> QED BY <1>1, <1>3, <2>1, <2>2, <2>3
  <1>5. CASE t \in Map
    <2>1. IsFun(g) /\ \A k : k \in DOMAIN g <=> \E x \in DOMAIN v : AsRead(x) = k /\ ~Absent(Elem[t].id, v[x])
      BY <1>2, <1>3, <1>5, MapBecomes
    <2>2. DOMAIN v = {} /\ v = [k \in {} |-> v[k]]
      BY <1>1, EmptyIsFunction
    <2>3. DOMAIN g = {} /\ g = [k \in DOMAIN g |-> g[k]]
      BY <2>1, <2>2 DEF IsFun
    <2>4. g = v
      BY <2>2, <2>3
    <2> QED BY <1>1, <1>3, <2>4
  <1> QED BY <1>4, <1>5

\* The member an object is at, for the writer and for the reader.
LEMMA MemberIs ==
  ASSUME NEW a, NEW n, NEW f, NEW k, NEW t, Facing(a, n, f), f.id \in Class, f.pc = "value",
         k = f.slot, t = Meta[f.id][k]
  PROVE  /\ ObjectCall(f) /\ f.ct = f.id /\ SlotType(f) = t /\ t \in TypeId /\ k \in DOMAIN Ast[f.id] /\ k \in DOMAIN Meta[f.id]
         /\ k \in Key /\ k # NoKey /\ active_key = k /\ DueType = t
         /\ find_field_recursive(Top.ty, k) /\ Top.val_astid \in Asts /\ find_field_astid(Top.val_astid, k) = t
         /\ Meta[Top.ty][k] = t /\ (t \in Class \cup List \cup Map => TopInst[k] = Fresh[t])
         /\ Fresh[f.id][k] = Fresh[t] \/ t \notin Class \cup List \cup Map
  <1>1. /\ n = Len(doc) /\ n \in Nat /\ n > 0 /\ doc # <<>> /\ Top = stack[n] /\ TopInst = inst[n]
        /\ At(f, doc[n], stack[n], inst[n], n) /\ KeysOK(doc, active_key)
    BY FacingIs
  <1>2. ObjectAt(f, doc[n], stack[n], inst[n], n) /\ doc[n].ty = f.id /\ stack[n].ty = f.id
    BY <1>1, ClassIs DEF At
  <1>3. ObjectCall(f) /\ doc[n].key = k /\ stack[n].val_astid = f.id
    BY <1>2 DEF ObjectAt
  <1>4. f.ct = f.id
    BY <1>3 DEF ObjectCall, ObjectCalls
  <1>5. k \in DOMAIN Ast[f.id] /\ t = Ast[f.id][k] /\ t \in TypeId
    BY <1>3, ObjectValue
  <1>6. k \in DOMAIN Meta[f.id] /\ k \in Key /\ k # NoKey
    BY <1>5, FieldIs
  <1>7. active_key = k
    BY <1>1, <1>2, <1>3, <1>6 DEF KeysOK
  <1>8. DueType = t
    <2>1. Last(doc) = doc[n]
      BY <1>1 DEF Last
    <2>2. DueType = MemberType(f.id, k)
      BY <1>1, <1>2, <1>3, <2>1 DEF DueType
    <2> QED BY <1>6, <2>2, OneKind DEF MemberType
  <1>9. find_field_recursive(Top.ty, k) /\ Top.val_astid \in Asts /\ find_field_astid(Top.val_astid, k) = t /\ Meta[Top.ty][k] = t
    BY <1>1, <1>2, <1>3, <1>5, <1>6, ClassIs DEF find_field_recursive, find_field_astid
  <1>10. inst[n][k] = Fresh[f.id][k]
    BY <1>2, <1>3, <1>6 DEF ObjectAt
  <1>11. t \in Class \cup List \cup Map => Fresh[f.id][k] = Fresh[t]
    BY <1>6, FreshAssumption
  <1>12. SlotType(f) = t
    BY <1>4 DEF SlotType
  <1> QED BY <1>1, <1>3, <1>4, <1>5, <1>6, <1>7, <1>8, <1>9, <1>10, <1>11, <1>12

LEMMA MemberChain ==
  ASSUME NEW a, NEW typed, NEW n \in Nat, NEW f, NEW g, NEW nd, NEW k, NEW t, Hears(a, typed, n, f), f.id \in Class, f.pc = "value",
         k = f.slot, t = Meta[f.id][k], n < MaxDepth, g.id = t, g.val = MemberContent(f), nd.activekey = k,
         t \in Class => k \in Getter[f.id], t \in Class \cup List \cup Map
  PROVE  Chain(f, g, nd, n)
  <1>1. /\ ObjectCall(f) /\ SlotType(f) = t /\ k \in DOMAIN Ast[f.id] /\ k \in DOMAIN Meta[f.id]
        /\ Fresh[f.id][k] = Fresh[t] /\ f.id \notin List /\ f.id \notin Map
    BY HearsFaces, MemberIs, OneKind
  <1>2. f.val \in Content[f.id] /\ n \in 1..MaxDepth
    BY <1>1, ObjectValue, HearsIs
  <1>3. PICK i \in 1..MaxDepth : i = n + 1 /\ i - 1 = n
    BY <1>2, BoundsAssumption
  <1>4. PICK w, y, c : w = Goal(f, n) /\ y = f.val /\ c = f.id
    OBVIOUS
  <1>5. /\ \A j \in Answered(c) : w[j] = Inside(n)[Meta[c][j]][y[j]]
        /\ \A j \in DOMAIN Meta[c] : j \notin Answered(c) => w[j] = Fresh[c][j]
    <2>1. c \in Class /\ y \in Content[c] /\ w = Inside(n - 1)[c][y]
      BY <1>2, <1>4 DEF Goal
    <2> QED BY <1>2, <2>1, ObjectBecomes
  <1>6. k \in Answered(c) <=> k \in Getter[c]
    BY <1>1, <1>4, FieldIs
  <1>7. Goal(g, i) = Inside(n)[t][MemberContent(f)]
    BY <1>3 DEF Goal
  <1>8. w[k] = Inside(n)[t][MemberContent(f)]
    <2>1. CASE k \in Getter[c]
      <3>1. w[k] = Inside(n)[t][y[k]]
        BY <1>4, <1>5, <1>6, <2>1
      <3> QED BY <1>4, <2>1, <3>1 DEF MemberContent
    <2>2. CASE k \notin Getter[c]
      <3>1. t \in List \cup Map
        BY <1>4, <2>2
      <3>2. w[k] = Fresh[t]
        BY <1>1, <1>4, <1>5, <1>6, <2>2
      <3>3. Fresh[t] = <<>> /\ MemberContent(f) = <<>>
        BY <1>4, <2>2, <3>1, FreshAssumption DEF MemberContent
      <3>4. Inside(n)[t][<<>>] = <<>>
        BY <1>3, <3>1, EmptyBecomes
      <3> QED BY <3>2, <3>3, <3>4
    <2> QED BY <2>1, <2>2
  <1>9. Goal(g, n + 1) = SlotGoal(f, n)
    BY <1>1, <1>3, <1>4, <1>7, <1>8 DEF SlotGoal
  <1> QED BY <1>1, <1>9 DEF Chain

LEMMA ReadsMemberObject ==
  ASSUME NEW a, NEW typed, NEW n, NEW f, NEW b, NEW t, Hears(a, typed, n, f), f.id \in Class, f.pc = "value",
         t = Meta[f.id][f.slot], t \in Class, b = Move(a, typed).calls
  PROVE  Match(b)'
  <1>1. PICK k : k = f.slot
    OBVIOUS
  <1>2. /\ ObjectCall(f) /\ t \in TypeId /\ k \in Key /\ k # NoKey /\ active_key = k /\ DueType = t
        /\ find_field_recursive(Top.ty, k) /\ Top.val_astid \in Asts /\ find_field_astid(Top.val_astid, k) = t
        /\ Meta[Top.ty][k] = t /\ TopInst[k] = Fresh[t]
    BY <1>1, HearsFaces, MemberIs
  <1>3. Last(a) = f /\ n \in 1..MaxDepth /\ n \in Nat
    BY HearsIs
  <1>4. PICK x : x = f.val[k]
    OBVIOUS
  <1>5. PICK g : g = Object(t, x, typed)
    OBVIOUS
  <1>6. k \in Getter[f.id] /\ Move(a, typed) = Enters(a, Brace, g)
    BY <1>1, <1>2, <1>3, <1>4, <1>5, MemberMove
  <1>7. Cur = Mark(Brace) /\ b = More(a, g)
    BY <1>6, Heard
  <1>8. EvOpen(Brace) /\ active_key' = active_key /\ ObjectMember(k)
    <2>1. start_object
      BY <1>7, Handled DEF Hears
    <2> QED BY <1>2, <2>1, BraceHandled
  <1>9. PICK nd : nd = ParseNode(t, t, FALSE, FALSE, FALSE, k)
    OBVIOUS
  <1>10. t \in Asts /\ Kind[t] = "object"
    BY ClassIs
  <1>11. Push(nd, Fresh[t])
    BY <1>2, <1>8, <1>9, <1>10 DEF ObjectMember
  <1>12. nd \in Node /\ NodeOf(nd, t, t, FALSE, FALSE, FALSE) /\ nd.activekey = k
    BY <1>2, <1>9 DEF ParseNode, Node, NodeOf, AstId
  <1>13. x \in Content[t] /\ x = MemberContent(f)
    <2>1. f.val[k] \in Content[t]
      BY <1>1, <1>2, ObjectValue
    <2> QED BY <1>1, <1>4, <1>6, <2>1 DEF MemberContent
  <1>14. ASSUME n < MaxDepth
         PROVE  Chain(f, g, nd, n) /\ \A d : Opened(d, Brace, t) => At(g, d, nd, Fresh[t], n + 1)
    <2>1. PICK i \in 1..MaxDepth : i = n + 1
      BY <1>3, <1>14, BoundsAssumption
    <2>2. ASSUME NEW d, Opened(d, Brace, t)
          PROVE  At(g, d, nd, Fresh[t], i)
      BY <1>2, <1>5, <1>12, <1>13, <2>2, FreshObject
    <2>3. g.id = t /\ g.val = x
      BY <1>5 DEF Object
    <2>4. Chain(f, g, nd, n)
      BY <1>1, <1>3, <1>6, <1>12, <1>13, <1>14, <2>3, MemberChain
    <2> QED BY <2>1, <2>2, <2>4
  <1> QED BY <1>2, <1>3, <1>7, <1>8, <1>10, <1>11, <1>12, <1>14, Descends

LEMMA ReadsMemberMap ==
  ASSUME NEW a, NEW typed, NEW n, NEW f, NEW b, NEW t, Hears(a, typed, n, f), f.id \in Class, f.pc = "value",
         t = Meta[f.id][f.slot], t \in Map, b = Move(a, typed).calls
  PROVE  Match(b)'
  <1>1. PICK k : k = f.slot
    OBVIOUS
  <1>2. /\ ObjectCall(f) /\ t \in TypeId /\ k \in Key /\ k # NoKey /\ active_key = k /\ DueType = t
        /\ find_field_recursive(Top.ty, k) /\ Top.val_astid \in Asts /\ find_field_astid(Top.val_astid, k) = t
        /\ Meta[Top.ty][k] = t /\ TopInst[k] = Fresh[t]
    BY <1>1, HearsFaces, MemberIs
  <1>3. Last(a) = f /\ n \in 1..MaxDepth /\ n \in Nat
    BY HearsIs
  <1>4. PICK x : x = MemberContent(f)
    OBVIOUS
  <1>5. PICK ct \in TypeId \cup {"bool"} :
          Move(a, typed) = Enters(a, Brace, MapOf(t, ct, x)) /\ x \in Content[t] /\ (ct = t \/ x = <<>>)
    BY <1>1, <1>2, <1>3, <1>4, MemberMove
  <1>6. PICK g : g = MapOf(t, ct, x)
    OBVIOUS
  <1>7. Cur = Mark(Brace) /\ b = More(a, g)
    BY <1>5, <1>6, Heard
  <1>8. EvOpen(Brace) /\ active_key' = active_key /\ ObjectMember(k)
    <2>1. start_object
      BY <1>7, Handled DEF Hears
    <2> QED BY <1>2, <2>1, BraceHandled
  <1>9. PICK nd : nd = ParseNode(t, Elem[t].id, FALSE, FALSE, TRUE, k)
    OBVIOUS
  <1>10. t \notin Asts /\ Kind[t] = "map" /\ t # NoAst /\ t \notin Class /\ t \notin List
    BY SchemaAssumption, OneKind DEF Map
  <1>11. Elem[t].id \in TypeId /\ Elem[t].ptr = FALSE /\ Fresh[t] = <<>>
    BY SMTT(30), <1>10, ElemIs, FreshAssumption
  <1>12. Push(nd, <<>>)
    <2>1. push_map(t, Fresh[t], k, t)
      BY <1>2, <1>8, <1>10 DEF ObjectMember
    <2> QED BY <1>9, <1>10, <1>11, <2>1 DEF push_map, parseMapValtype
  <1>13. nd \in Node /\ NodeOf(nd, t, Elem[t].id, FALSE, FALSE, TRUE) /\ nd.activekey = k
    BY <1>2, <1>9, <1>11 DEF ParseNode, Node, NodeOf, AstId
  <1>14. ASSUME n < MaxDepth
         PROVE  Chain(f, g, nd, n) /\ \A d : Opened(d, Brace, t) => At(g, d, nd, <<>>, n + 1)
    <2>1. PICK i \in 1..MaxDepth : i = n + 1
      BY <1>3, <1>14, BoundsAssumption
    <2>2. PICK v : v = <<>>
      OBVIOUS
    <2>3. ASSUME NEW d, Opened(d, Brace, t)
          PROVE  At(g, d, nd, v, i)
      BY <1>2, <1>5, <1>6, <1>13, <2>2, <2>3, FreshMap
    <2>4. g.id = t /\ g.val = x
      BY <1>6 DEF MapOf
    <2>5. Chain(f, g, nd, n)
      BY SMTT(30), <1>1, <1>3, <1>4, <1>10, <1>13, <1>14, <2>4, MemberChain
    <2> QED BY <2>1, <2>2, <2>3, <2>5
  <1> QED BY <1>2, <1>3, <1>7, <1>8, <1>10, <1>12, <1>13, <1>14, Descends

LEMMA ReadsMemberList ==
  ASSUME NEW a, NEW typed, NEW n, NEW f, NEW b, NEW t, Hears(a, typed, n, f), f.id \in Class, f.pc = "value",
         t = Meta[f.id][f.slot], t \in List, b = Move(a, typed).calls
  PROVE  Match(b)'
  <1>1. PICK k : k = f.slot
    OBVIOUS
  <1>2. /\ ObjectCall(f) /\ t \in TypeId /\ k \in Key /\ k # NoKey /\ active_key = k /\ DueType = t
        /\ find_field_recursive(Top.ty, k) /\ find_field_astid(Top.val_astid, k) = t
        /\ Meta[Top.ty][k] = t /\ TopInst[k] = Fresh[t]
    BY <1>1, HearsFaces, MemberIs
  <1>3. Last(a) = f /\ n \in 1..MaxDepth /\ n \in Nat
    BY HearsIs
  <1>4. PICK x : x = MemberContent(f)
    OBVIOUS
  <1>5. PICK ct \in TypeId \cup {"bool"} :
          Move(a, typed) = Enters(a, "[", ListOf(t, ct, x)) /\ x \in Content[t] /\ (ct = t \/ x = <<>>)
    BY <1>1, <1>2, <1>3, <1>4, MemberMove
  <1>6. PICK g : g = ListOf(t, ct, x)
    OBVIOUS
  <1>7. Cur = Mark("[") /\ b = More(a, g)
    BY <1>5, <1>6, Heard
  <1>8. EvOpen("[") /\ active_key' = active_key /\ push_list(t, Fresh[t], k, t)
    <2>1. start_array /\ status' = "parsing"
      BY <1>7, Handled DEF Hears
    <2> QED BY <1>2, <2>1, BracketHandled
  <1>9. PICK nd : nd = ParseNode(t, Elem[t].id, Elem[t].ptr, TRUE, FALSE, k)
    OBVIOUS
  <1>10. Kind[t] = "list" /\ t \notin Class /\ t \notin Map
    BY OneKind DEF List
  <1>11. Elem[t].id \in TypeId /\ Elem[t].ptr \in BOOLEAN /\ Fresh[t] = <<>>
    BY <1>10, ElemIs, FreshAssumption
  <1>12. Push(nd, <<>>)
    BY Zenon, <1>8, <1>9, <1>11 DEF push_list, parseListValtype
  <1>13. nd \in Node /\ NodeOf(nd, t, Elem[t].id, Elem[t].ptr, TRUE, FALSE) /\ nd.activekey = k
    BY <1>2, <1>9, <1>11 DEF ParseNode, Node, NodeOf, AstId
  <1>14. ASSUME n < MaxDepth
         PROVE  Chain(f, g, nd, n) /\ \A d : Opened(d, "[", t) => At(g, d, nd, <<>>, n + 1)
    <2>1. PICK i \in 1..MaxDepth : i = n + 1
      BY <1>3, <1>14, BoundsAssumption
    <2>2. PICK v : v = <<>>
      OBVIOUS
    <2>3. ASSUME NEW d, Opened(d, "[", t)
          PROVE  At(g, d, nd, v, i)
      BY <1>2, <1>5, <1>6, <1>13, <2>2, <2>3, FreshList
    <2>4. g.id = t /\ g.val = x
      BY <1>6 DEF ListOf
    <2>5. Chain(f, g, nd, n)
      BY <1>1, <1>3, <1>4, <1>10, <1>13, <1>14, <2>4, MemberChain
    <2> QED BY <2>1, <2>2, <2>3, <2>5
  <1>15. Brace # "["
    BY Signs
  <1> QED BY <1>2, <1>3, <1>7, <1>8, <1>10, <1>12, <1>13, <1>14, <1>15, Descends

\* The element a list or a map is at.
LEMMA ElementPlace ==
  ASSUME NEW a, NEW n, NEW f, NEW e, Facing(a, n, f), f.id \in List \cup Map, f.pc = "value",
         e = Elem[f.id].id
  PROVE  /\ Elemental(f) /\ n > 1 /\ active_key \in Key /\ active_key # NoKey /\ DueType = e
         /\ ~find_field_recursive(Top.ty, active_key) /\ Top.val_astid = e /\ (Top.is_map \/ Top.is_list)
         /\ e \in TypeId /\ (e \in List => e \in VarCtor)
  <1>1. /\ Match(a) /\ a # <<>> /\ n = Len(doc) /\ n \in Nat /\ n > 0 /\ doc # <<>> /\ Top = stack[n] /\ f = a[n]
        /\ At(f, doc[n], stack[n], inst[n], n) /\ KeysOK(doc, active_key)
    BY FacingIs
  <1>2. f.id \notin Class
    BY OneKind
  <1>3. n > 1
    <2>1. a[1].id = RootType
      BY <1>1, MatchIs
    <2>2. n # 1
      BY <1>1, <1>2, <2>1, SchemaAssumption
    <2> QED BY <1>1, <2>2
  <1>4. active_key \in Key /\ active_key # NoKey
    BY <1>1, <1>3 DEF KeysOK
  <1>5. doc[n].ty = f.id /\ stack[n].ty = f.id
    BY <1>1 DEF At
  <1>6. stack[n].val_astid = e /\ (stack[n].is_map \/ stack[n].is_list)
    <2>1. ListAt(f, doc[n], stack[n], inst[n], n) \/ MapAt(f, doc[n], stack[n], inst[n], n)
      BY <1>1, <1>2 DEF At
    <2> QED BY <2>1 DEF ListAt, MapAt
  <1>7. DueType = e
    <2>1. Last(doc) = doc[n]
      BY <1>1 DEF Last
    <2> QED BY <1>1, <1>2, <1>5, <2>1 DEF DueType, MemberType
  <1>8. ~find_field_recursive(Top.ty, active_key)
    BY <1>1, <1>2, <1>5 DEF find_field_recursive
  <1>9. Elemental(f)
    BY <1>1, ElementalIs
  <1>10. e \in TypeId /\ (e \in List => e \in VarCtor)
    BY ElemIs
  <1> QED BY <1>1, <1>3, <1>4, <1>6, <1>7, <1>8, <1>9, <1>10

LEMMA ElementChain ==
  ASSUME NEW n \in Nat, NEW f, NEW g, NEW nd, NEW x, n < MaxDepth, f.id \in List \cup Map, f.pc = "value",
         g.id = Elem[f.id].id, g.val = x, x = Element(f), x # NullPtr
  PROVE  Chain(f, g, nd, n)
  <1>1. f.id \notin Class /\ (f.id \in Map <=> f.id \notin List)
    BY OneKind
  <1>2. PICK i \in Nat : i = n + 1 /\ i - 1 = n
    OBVIOUS
  <1>3. Goal(g, i) = Inside(n)[Elem[f.id].id][x]
    BY <1>2 DEF Goal
  <1>4. SlotGoal(f, n) = Inside(n)[Elem[f.id].id][x]
    BY <1>1 DEF SlotGoal, Element
  <1>5. SlotType(f) = Elem[f.id].id
    BY <1>1 DEF SlotType
  <1>6. f.id \in List => f.val[f.next] # NullPtr
    BY DEF Element
  <1> QED BY <1>1, <1>2, <1>3, <1>4, <1>5, <1>6 DEF Chain

LEMMA ReadsElementObject ==
  ASSUME NEW a, NEW typed, NEW n, NEW f, NEW b, NEW e, Hears(a, typed, n, f), f.id \in List \cup Map, f.pc = "value",
         e = Elem[f.id].id, e \in Class, b = Move(a, typed).calls
  PROVE  Match(b)'
  <1>1. /\ Elemental(f) /\ active_key \in Key /\ active_key # NoKey /\ DueType = e
        /\ ~find_field_recursive(Top.ty, active_key) /\ Top.val_astid = e /\ (Top.is_map \/ Top.is_list) /\ e \in TypeId
    BY HearsFaces, ElementPlace
  <1>2. Last(a) = f /\ n \in 1..MaxDepth /\ n \in Nat
    BY HearsIs
  <1>3. PICK x, g, k : x = Element(f) /\ g = Object(e, x, typed) /\ k = active_key
    OBVIOUS
  <1>4. x # NullPtr
    <2> SUFFICES ASSUME x = NullPtr
                 PROVE  FALSE
      OBVIOUS
    <2>1. Move(a, typed) = Goes(a, Returned(f))
      BY <1>1, <1>2, <1>3, ElementMove
    <2> QED BY <2>1, Heard
  <1>5. x \in Content[e] /\ Move(a, typed) = Enters(a, Brace, g)
    BY <1>1, <1>2, <1>3, <1>4, ElementMove
  <1>6. Cur = Mark(Brace) /\ b = More(a, g)
    BY <1>5, Heard
  <1>7. e \in Asts /\ Kind[e] = "object"
    BY ClassIs
  <1>8. EvOpen(Brace) /\ active_key' = active_key /\ ObjectElement(active_key)
    <2>1. start_object
      BY <1>6, Handled DEF Hears
    <2>2. Constructible
      BY <1>1, <1>7 DEF Constructible
    <2> QED BY <1>1, <2>1, <2>2, BraceHandled
  <1>9. PICK nd : nd = ParseNode(e, e, FALSE, FALSE, FALSE, k)
    OBVIOUS
  <1>10. Push(nd, Fresh[e])
    BY <1>1, <1>3, <1>8, <1>9 DEF ObjectElement
  <1>11. nd \in Node /\ NodeOf(nd, e, e, FALSE, FALSE, FALSE) /\ nd.activekey # NoKey
    BY <1>1, <1>3, <1>9 DEF ParseNode, Node, NodeOf, AstId
  <1>12. ASSUME n < MaxDepth
         PROVE  Chain(f, g, nd, n) /\ \A d : Opened(d, Brace, e) => At(g, d, nd, Fresh[e], n + 1)
    <2>1. PICK i \in 1..MaxDepth : i = n + 1
      BY <1>2, <1>12, BoundsAssumption
    <2>2. ASSUME NEW d, Opened(d, Brace, e)
          PROVE  At(g, d, nd, Fresh[e], i)
      BY <1>3, <1>5, <1>11, <2>2, FreshObject
    <2>3. g.id = e /\ g.val = x
      BY <1>3 DEF Object
    <2>4. Chain(f, g, nd, n)
      BY <1>2, <1>3, <1>4, <1>12, <2>3, ElementChain
    <2> QED BY <2>1, <2>2, <2>4
  <1> QED BY <1>1, <1>2, <1>6, <1>7, <1>8, <1>10, <1>11, <1>12, Descends

LEMMA ReadsElementList ==
  ASSUME NEW a, NEW typed, NEW n, NEW f, NEW b, NEW e, Hears(a, typed, n, f), f.id \in List \cup Map, f.pc = "value",
         e = Elem[f.id].id, e \in List, b = Move(a, typed).calls
  PROVE  Match(b)'
  <1>1. /\ Elemental(f) /\ active_key \in Key /\ active_key # NoKey /\ DueType = e
        /\ ~find_field_recursive(Top.ty, active_key) /\ Top.val_astid = e /\ (Top.is_map \/ Top.is_list) /\ e \in TypeId
    BY HearsFaces, ElementPlace
  <1>2. Last(a) = f /\ n \in 1..MaxDepth /\ n \in Nat
    BY HearsIs
  <1>3. PICK x, g, k : x = Element(f) /\ g = ListOf(e, e, x) /\ k = active_key
    OBVIOUS
  <1>4. x # NullPtr /\ Move(a, typed) = Enters(a, "[", g)
    BY <1>1, <1>2, <1>3, ElementMove
  <1>5. x \in Content[e]
    BY <1>1, <1>2, <1>3, <1>4, ElementMove
  <1>6. Cur = Mark("[") /\ b = More(a, g)
    BY <1>4, Heard
  <1>7. EvOpen("[") /\ active_key' = active_key /\ push_list(e, Fresh[e], active_key, e)
    <2>1. start_array /\ status' = "parsing"
      BY <1>6, Handled DEF Hears
    <2> QED BY <1>1, <2>1, BracketHandled
  <1>8. Kind[e] = "list"
    BY DEF List
  <1>9. Elem[e].id \in TypeId /\ Elem[e].ptr \in BOOLEAN /\ Fresh[e] = <<>>
    BY ElemIs, FreshAssumption
  <1>10. PICK nd : nd = ParseNode(e, Elem[e].id, Elem[e].ptr, TRUE, FALSE, k)
    OBVIOUS
  <1>11. Push(nd, <<>>)
    BY <1>3, <1>7, <1>9, <1>10 DEF push_list, parseListValtype
  <1>12. nd \in Node /\ NodeOf(nd, e, Elem[e].id, Elem[e].ptr, TRUE, FALSE) /\ nd.activekey # NoKey
    BY <1>1, <1>3, <1>9, <1>10 DEF ParseNode, Node, NodeOf, AstId
  <1>13. ASSUME n < MaxDepth
         PROVE  Chain(f, g, nd, n) /\ \A d : Opened(d, "[", e) => At(g, d, nd, <<>>, n + 1)
    <2>1. PICK i \in 1..MaxDepth : i = n + 1
      BY <1>2, <1>13, BoundsAssumption
    <2>2. PICK v : v = <<>>
      OBVIOUS
    <2>3. ASSUME NEW d, Opened(d, "[", e)
          PROVE  At(g, d, nd, v, i)
      BY <1>1, <1>3, <1>5, <1>12, <2>2, <2>3, FreshList
    <2>4. g.id = e /\ g.val = x
      BY <1>3 DEF ListOf
    <2>5. Chain(f, g, nd, n)
      BY <1>2, <1>3, <1>4, <1>13, <2>4, ElementChain
    <2> QED BY <2>1, <2>2, <2>3, <2>5
  <1>14. Brace # "["
    BY Signs
  <1> QED BY <1>1, <1>2, <1>6, <1>7, <1>8, <1>11, <1>12, <1>13, <1>14, Descends

-----------------------------------------------------------------------------
\* A bracket that closes: what the function wrote is read, and is the value
\* that its caller is at.
LEMMA Finished ==
  ASSUME NEW f, NEW d, NEW nd, NEW v, NEW i \in 1..MaxDepth, At(f, d, nd, v, i), f.pc = "close", d.open = Brace => d.key = NoKey
  PROVE  v = Goal(f, i) /\ (f.id \in List <=> nd.is_list) /\ nd.ty = f.id /\ (i > 1 => nd.activekey # NoKey)
  <1>1. nd.ty = f.id /\ (i > 1 => nd.activekey # NoKey) /\ f.id \in Class \cup List \cup Map
    BY DEF At
  <1>2. CASE f.id \in Class
    <2>1. ObjectAt(f, d, nd, v, i) /\ ObjectCall(f) /\ f.id \notin List
      BY <1>2, OneKind DEF At, ObjectAt
    <2>2. PICK w, c, x : w = Goal(f, i) /\ c = f.id /\ x = f.val
      OBVIOUS
    <2>3. c \in Class /\ x \in Content[c] /\ w = Inside(i - 1)[c][x]
      BY <1>2, <2>1, <2>2 DEF ObjectCall, ObjectCalls, Goal
    <2>4. w = [k \in DOMAIN Meta[c] |-> w[k]]
      BY <2>3, ObjectBecomes
    <2>5. f.keys = {} /\ f.last /\ d.key = NoKey
      BY <2>1 DEF ObjectCall, ObjectAt
    <2>6. Ahead(f) = {}
      BY <2>5 DEF Ahead
    <2>7. \A k \in DOMAIN Meta[c] : k \notin Ahead(f) \cup {d.key}
      BY <2>3, <2>5, <2>6, SchemaAssumption
    <2>8. v = [k \in DOMAIN Meta[c] |-> v[k]] /\ \A k \in DOMAIN Meta[c] : v[k] = w[k]
      BY <2>1, <2>2, <2>7 DEF ObjectAt
    <2>9. v = w
      BY <2>4, <2>8
    <2> QED BY <1>1, <2>1, <2>2, <2>9 DEF ObjectAt
  <1>3. CASE f.id \in List
    <2>1. ListAt(f, d, nd, v, i) /\ ListCall(f)
      BY <1>3, OneKind DEF At, ListAt
    <2>2. PICK t, x : t = f.id /\ x = f.val
      OBVIOUS
    <2>3. t \in List /\ x \in Content[t] /\ f.next = Len(x) + 1
      BY <1>3, <2>1, <2>2 DEF ListCall, ListCalls
    <2>4. f.next - 1 = Len(x)
      BY <2>3, ListContent
    <2>5. v = Written(Elem[t].id, x, Inside(i)[Elem[t].id], Len(x))
      BY <2>1, <2>2, <2>4 DEF ListAt
    <2>6. Inside(i - 1)[t][x] = Written(Elem[t].id, x, Inside(i)[Elem[t].id], Len(x))
      BY <2>3, ListBecomes
    <2> QED BY <1>1, <1>3, <2>1, <2>2, <2>5, <2>6 DEF Goal, ListAt
  <1>4. CASE f.id \in Map
    <2>1. MapAt(f, d, nd, v, i) /\ MapCall(f) /\ f.id \notin List
      BY <1>4, OneKind DEF At, MapAt
    <2>2. PICK w, t, x : w = Goal(f, i) /\ t = f.id /\ x = f.val
      OBVIOUS
    <2>3. t \in Map /\ x \in Content[t] /\ w = Inside(i - 1)[t][x] /\ f.keys = {} /\ d.key = NoKey
      BY <1>4, <2>1, <2>2 DEF MapCall, MapCalls, MapAt, Goal
    <2>4. IsFun(w) /\ \A k : k \in DOMAIN w => \E y \in DOMAIN x : AsRead(y) = k
      BY <2>3, MapBecomes
    <2>5. \A k : k \in DOMAIN w => k # NoKey /\ ~Awaits(f, k)
      BY <2>3, <2>4, MapContent DEF Awaits
    <2>6. IsFun(v) /\ (\A k : k \in DOMAIN v <=> k \in DOMAIN w /\ ~Awaits(f, k) /\ k # d.key) /\ \A k \in DOMAIN v : v[k] = w[k]
      BY <2>1, <2>2 DEF MapAt
    <2>7. DOMAIN v = DOMAIN w
      BY <2>3, <2>5, <2>6
    <2>8. v = w
      BY <2>4, <2>6, <2>7 DEF IsFun
    <2> QED BY <1>1, <2>1, <2>2, <2>8 DEF MapAt
  <1> QED BY <1>1, <1>2, <1>3, <1>4

\* The value f of a bracket, taken into the content of the caller p.
TakenBack(p, v, x) == CASE p.id \in List -> More(v, x)
                        [] p.id \in Map -> Insert(v, AsRead(p.slot), x)
                        [] OTHER -> [v EXCEPT ![p.slot] = x]

LEMMA TakesBack ==
  ASSUME NEW p, NEW f, NEW node, NEW i \in 1..MaxDepth, NEW d, NEW nd, NEW v, NEW d2, NEW nd2, NEW v2, NEW x,
         At(p, d, nd, v, i), Chain(p, f, node, i), f.id \in Class \cup List \cup Map, x = Goal(f, i + 1),
         Emptied(d2, d), SameNode(nd2, nd), v2 = TakenBack(p, v, x)
  PROVE  At(Returned(p), d2, nd2, v2, i) /\ Keeps(Returned(p), p)
  <1>1. p.pc = "value" /\ f.id = SlotType(p) /\ x = SlotGoal(p, i) /\ (p.id \in List => p.val[p.next] # NullPtr)
    BY DEF Chain
  <1>2. p.id \in Class \cup List \cup Map
    BY DEF At
  <1>3. CASE p.id \in Class
    <2>1. p.id \notin List /\ p.id \notin Map
      BY <1>3, OneKind
    <2>2. v2 = [v EXCEPT ![p.slot] = x] /\ x = Goal(p, i)[p.slot]
      BY <1>1, <1>3, <2>1 DEF TakenBack, SlotGoal
    <2>3. v2 = [v EXCEPT ![p.slot] = Goal(p, i)[p.slot]]
      BY <2>2
    <2> QED BY <1>1, <1>3, <2>3, ObjectTakes DEF Keeps
  <1>4. ASSUME p.id \in List \cup Map
        PROVE  \A y, e : y = Element(p) /\ e = Elem[p.id].id => ~Absent(e, y) /\ x = Inside(i)[e][y]
    <2>1. p.id \notin Class /\ (p.id \in List => p.id \notin Map) /\ (p.id \in Map => p.id \notin List)
      BY <1>4, OneKind
    <2>2. PICK y, e : y = Element(p) /\ e = Elem[p.id].id
      OBVIOUS
    <2>3. Kind[e] # "var"
      BY <1>1, <2>1, <2>2 DEF SlotType, Class, List, Map
    <2>4. y # NullPtr
      <3>1. CASE p.id \in List
        BY <1>1, <2>2, <3>1 DEF Element
      <3>2. CASE p.id \in Map
        <4>1. MapCall(p) /\ p \in MapCalls(p.id)
          BY <1>1, <3>2, MapIs
        <4>2. p.val \in Content[p.id] /\ p.slot \in DOMAIN p.val
          BY <1>1, <4>1 DEF MapCall, MapCalls
        <4>3. p.val[p.slot] \in Content[e] /\ e \in TypeId
          BY <2>2, <3>2, <4>2, MapContent, ElemIs
        <4> QED BY <2>1, <2>2, <3>2, <4>3, NotNull DEF Element
      <3> QED BY <1>4, <3>1, <3>2
    <2>5. x = Inside(i)[e][y]
      BY <1>1, <1>4, <2>1, <2>2 DEF SlotGoal, Element
    <2>6. ~Absent(e, y)
      BY <2>3, <2>4 DEF Absent
    <2> QED BY <2>2, <2>5, <2>6
  <1>5. PICK y, e : y = Element(p) /\ e = Elem[p.id].id
    OBVIOUS
  <1>6. CASE p.id \in List
    <2>1. v2 = IF Absent(e, y) THEN v ELSE More(v, Inside(i)[e][y])
      BY <1>4, <1>5, <1>6, OneKind DEF TakenBack
    <2> QED BY <1>1, <1>5, <1>6, <2>1, ListTakes DEF Keeps
  <1>7. CASE p.id \in Map
    <2>1. v2 = IF Absent(e, y) THEN v ELSE Insert(v, AsRead(p.slot), Inside(i)[e][y])
      BY <1>4, <1>5, <1>7, OneKind DEF TakenBack
    <2> QED BY <1>1, <1>5, <1>7, <2>1, MapTakes DEF Keeps
  <1> QED BY <1>2, <1>3, <1>6, <1>7

\* The handlers of a closing bracket.
LEMMA ClosedOK ==
  ASSUME DocOK, NEW b \in {Brace, "["}, EvClose(b)
  PROVE  DocOK'
  <1>1. b \in {"{", "["}
    BY Zenon DEF Brace
  <1> QED BY <1>1, CloseOK

LEMMA EndBraceHandled ==
  ASSUME end_object, status' = "parsing", status = "parsing"
  PROVE  /\ EvClose(Brace)
         /\ Len(stack) = 1 => inst' = inst /\ stack' = stack /\ active_key' = active_key
         /\ Len(stack) # 1 => /\ PopInto(ObjectInto(Parent, ParentInst, Top, TopInst), KeyLeft(Parent, Top))
                              /\ active_key' = RestoredKey(Top) /\ ~PtrMissing(Parent, Top)
  <1>1. CASE end_object_root
    <2>1. EvClose(Brace) /\ Len(stack) = 1 /\ inst' = inst /\ stack' = stack /\ active_key' = active_key
      BY <1>1, Zenon DEF end_object_root, Brace
    <2> QED BY <2>1
  <1>2. CASE end_object_nested
    <2>1. /\ EvClose(Brace) /\ Len(stack) > 1
          /\ PopInto(ObjectInto(Parent, ParentInst, Top, TopInst), KeyLeft(Parent, Top))
          /\ \/ PtrMissing(Parent, Top) /\ status' = "failed"
             \/ ~PtrMissing(Parent, Top) /\ active_key' = RestoredKey(Top)
      BY <1>2, Zenon DEF end_object_nested, Brace
    <2>2. Len(stack) # 1
      BY <2>1
    <2>3. "parsing" # "failed"
      OBVIOUS
    <2> QED BY <2>1, <2>2, <2>3, Zenon
  <1> QED BY <1>1, <1>2 DEF end_object

LEMMA EndBracketHandled ==
  ASSUME end_array, Top.is_list
  PROVE  EvClose("[") /\ PopInto(ListInto(Parent, ParentInst, Top, TopInst), Parent.map_key) /\ active_key' = active_key
  BY DEF end_array, end_array_list, end_array_skipped

LEMMA Ascends ==
  ASSUME NEW a, NEW typed, NEW n, NEW f, NEW p, NEW b, NEW br \in {Brace, "["}, NEW k \in Key \cup {NoKey}, NEW v,
         Hears(a, typed, n, f), n > 1, p = a[n - 1], EvClose(br), PopInto(v, k), active_key' \in Key, active_key' # NoKey,
         b = Under(a, Returned(p)), f.pc = "close", v = TakenBack(p, inst[n - 1], inst[n])
  PROVE  Match(b)'
  <1>1. /\ Match(a) /\ a # <<>> /\ n = Len(doc) /\ f = a[n] /\ obj' = obj /\ DocOK /\ StackOK
        /\ n \in 1..MaxDepth /\ n \in Nat /\ Len(stack) = n /\ At(f, doc[n], stack[n], inst[n], n)
    BY HearsIs
  <1>2. Levels(a, doc, stack, inst, n)
    BY <1>1, MatchIs
  <1>3. PICK i \in 1..MaxDepth : i = n - 1 /\ i + 1 = n /\ i \in 1..i
    BY <1>1, BoundsAssumption
  <1>4. At(p, doc[i], stack[i], inst[i], i) /\ Chain(p, f, stack[n], i)
    <2>1. Levels(a, doc, stack, inst, i) /\ Chain(a[i], a[n], stack[n], i)
      BY <1>1, <1>2, <1>3, LevelsPop
    <2> QED BY <1>1, <1>3, <2>1 DEF Levels
  <1>5. /\ doc[n].open = br /\ (br = Brace => doc[n].key = NoKey)
        /\ Len(doc') = i /\ Agree(doc', doc, n - 2) /\ doc' # <<>>
        /\ doc'[i] = [doc[i] EXCEPT !.key = NoKey]
    BY <1>1, <1>3, ClosesBracket
  <1>6. /\ StackOK' /\ Len(stack') = i /\ SameNodes(stack', stack, i)
        /\ Agree(inst', inst, n - 2) /\ inst'[i] = v /\ Agree(stack', stack, n - 2)
    BY <1>1, <1>3, PopOK
  <1>7. DocOK'
    BY <1>1, ClosedOK
  <1>8. Emptied(doc'[i], doc[i])
    <2>1. doc \in Seq(Bracket) /\ i \in 1..Len(doc)
      BY <1>1, <1>3 DEF DocOK
    <2>2. doc[i] \in Bracket
      BY <2>1, ElementOfSeq
    <2> QED BY <1>5, <2>2 DEF Emptied, Bracket
  <1>9. SameNode(stack'[i], stack[i])
    <2>1. PICK s : s = stack'
      OBVIOUS
    <2>2. SameNodes(s, stack, i) /\ i \in 0..Len(stack)
      BY <1>1, <1>3, <1>6, <2>1
    <2>3. SameNode(s[i], stack[i])
      BY <1>1, <1>3, <2>2, Renamed
    <2> QED BY <2>1, <2>3
  <1>10. inst[n] = Goal(f, n) /\ f.id \in Class \cup List \cup Map
    <2>1. f.id \in Class \cup List \cup Map
      BY <1>1 DEF At
    <2> QED BY <1>1, <1>5, <2>1, Finished
  <1>11. v = TakenBack(p, inst[i], inst[n]) /\ inst[n] = Goal(f, i + 1)
    BY <1>3, <1>10
  <1>12. At(Returned(p), doc'[i], stack'[i], v, i) /\ Keeps(Returned(p), p)
    BY <1>4, <1>8, <1>9, <1>10, <1>11, TakesBack
  <1>13. KeysOK(doc', active_key')
    BY <1>5, <1>8 DEF KeysOK, Emptied
  <1>14. stack'[i].activekey = stack[i].activekey
    BY <1>9 DEF SameNode
  <1> QED BY Zenon, <1>1, <1>3, <1>5, <1>6, <1>7, <1>12, <1>13, <1>14, LevelDown

\* The node of the caller, and what it takes of the value that is finished.
LEMMA CallerIs ==
  ASSUME NEW a, NEW n, NEW f, NEW p, NEW i, Facing(a, n, f), f.pc = "close", n > 1, i = n - 1, p = a[i]
  PROVE  /\ Parent = stack[i] /\ ParentInst = inst[i] /\ i \in 1..MaxDepth
         /\ At(p, doc[i], stack[i], inst[i], i) /\ Chain(p, f, stack[n], i)
         /\ p.id \in Class => /\ Owns(Parent, Top) /\ Top.activekey = p.slot /\ Meta[p.id][p.slot] = f.id
                              /\ Parent.ty = p.id
         /\ p.id \in List \cup Map => ~Owns(Parent, Top) /\ Elem[p.id].id = f.id
         /\ Top.ty = f.id /\ Top.activekey \in Key /\ Top.activekey # NoKey
         /\ active_key \in Key /\ active_key # NoKey /\ (f.id \in List <=> Top.is_list)
         /\ Parent.map_key \in Key \cup {NoKey}
  <1>1. /\ Match(a) /\ a # <<>> /\ n = Len(doc) /\ f = a[n] /\ DocOK /\ StackOK
        /\ n \in 1..MaxDepth /\ n \in Nat /\ Len(stack) = n /\ Len(inst) = n /\ Top = stack[n]
        /\ At(f, doc[n], stack[n], inst[n], n) /\ KeysOK(doc, active_key)
    BY FacingIs
  <1>2. Levels(a, doc, stack, inst, n)
    BY <1>1, MatchIs
  <1>3. i \in 1..MaxDepth /\ i \in 1..n /\ n \in 1..n /\ i \in 1..i
    BY <1>1, BoundsAssumption
  <1>4. Levels(a, doc, stack, inst, i) /\ Chain(p, f, stack[n], i)
    BY <1>1, <1>2, LevelsPop
  <1>5. At(p, doc[i], stack[i], inst[i], i)
    BY <1>3, <1>4 DEF Levels
  <1>6. Parent = stack[i] /\ ParentInst = inst[i]
    BY <1>1 DEF Parent, ParentInst
  <1>7. Top.ty = f.id /\ Top.activekey # NoKey /\ (f.id \in List <=> Top.is_list)
    <2>1. Top.ty = f.id /\ Top.activekey # NoKey
      BY <1>1 DEF At
    <2>2. f.id \in List <=> Top.is_list
      BY <1>1, OneKind DEF At, ObjectAt, ListAt, MapAt
    <2> QED BY <2>1, <2>2
  <1>8. stack[n] \in Node /\ stack[i] \in Node
    <2>1. stack \in Seq(Node)
      BY <1>1 DEF StackOK
    <2> QED BY <1>1, <1>3, <2>1, ElementOfSeq
  <1>9. Top.activekey \in Key /\ Parent.map_key \in Key \cup {NoKey}
    BY <1>1, <1>6, <1>7, <1>8 DEF Node
  <1>10. active_key \in Key /\ active_key # NoKey
    BY <1>1 DEF KeysOK
  <1>11. Parent.ty = p.id /\ p.id \in Class \cup List \cup Map
    BY <1>5, <1>6 DEF At
  <1>12. ASSUME p.id \in Class
         PROVE  Owns(Parent, Top) /\ Top.activekey = p.slot /\ Meta[p.id][p.slot] = f.id
    <2>1. ObjectCall(p)
      BY <1>5, <1>12, OneKind DEF At, ObjectAt
    <2>2. p.pc = "value" /\ f.id = SlotType(p) /\ stack[n].activekey = p.slot
      BY <1>4, <1>12 DEF Chain
    <2>3. PICK k, t : k = p.slot /\ t = Meta[p.id][k]
      OBVIOUS
    <2>4. k \in DOMAIN Ast[p.id] /\ p.ct = p.id
      BY <1>12, <2>1, <2>2, <2>3, ObjectValue
    <2>5. k \in DOMAIN Meta[p.id]
      BY <1>12, <2>4, FieldIs
    <2>6. Owns(Parent, Top)
      BY <1>1, <1>11, <1>12, <2>2, <2>3, <2>5 DEF Owns, find_field_recursive
    <2> QED BY <1>1, <1>12, <2>2, <2>3, <2>4, <2>6 DEF SlotType
  <1>13. ASSUME p.id \in List \cup Map
         PROVE  ~Owns(Parent, Top) /\ Elem[p.id].id = f.id
    <2>1. p.id \notin Class
      BY <1>13, OneKind
    <2>2. f.id = SlotType(p)
      BY <1>4 DEF Chain
    <2> QED BY <1>11, <2>1, <2>2 DEF SlotType, Owns, find_field_recursive
  <1> QED BY <1>3, <1>4, <1>5, <1>6, <1>7, <1>9, <1>10, <1>11, <1>12, <1>13

LEMMA CloseOut ==
  ASSUME NEW a, NEW typed, NEW n, NEW f, NEW x, Facing(a, n, f), f.pc = "close", x = IF f.id \in List THEN "]" ELSE EndBrace
  PROVE  /\ Move(a, typed).out = <<Mark(x)>>
         /\ n = 1 => Move(a, typed).calls = <<>>
         /\ n > 1 => \A p : p = a[n - 1] => Move(a, typed).calls = Under(a, Returned(p))
  <1>1. n \in Nat /\ n > 0 /\ Last(a) = f /\ Len(a) = n /\ IsSeq(a, n)
    BY FacingIs
  <1>2. Move(a, typed) = CloseMove(a, f)
    BY <1>1 DEF Move
  <1>3. PICK c : c = IF Len(a) = 1 THEN <<>> ELSE [Front(a) EXCEPT ![Len(a) - 1] = Returned(@)]
    OBVIOUS
  <1>4. Move(a, typed) = [out |-> <<Mark(x)>>, calls |-> c]
    BY <1>2, <1>3, Zenon DEF CloseMove
  <1>5. Move(a, typed).out = <<Mark(x)>> /\ Move(a, typed).calls = c
    BY <1>4
  <1>6. ASSUME n > 1, NEW p, p = a[n - 1]
        PROVE  c = Under(a, Returned(p))
    <2>1. IsSeq(Front(a), n - 1) /\ Agree(Front(a), a, n - 1)
      BY <1>1, FrontIsSeq
    <2>2. n - 1 \in 1..(n - 1)
      BY <1>1, <1>6
    <2>3. Front(a)[n - 1] = p
      BY <1>6, <2>1, <2>2 DEF Agree
    <2>4. Len(a) # 1 /\ Len(a) - 1 = n - 1
      BY <1>1, <1>6
    <2>5. c = [Front(a) EXCEPT ![Len(a) - 1] = Returned(@)]
      BY <1>3, <2>4
    <2>6. PICK s, m : s = Front(a) /\ m = Len(a) - 1
      OBVIOUS
    <2>7. s[m] = p
      BY <2>3, <2>4, <2>6
    <2>8. c = [s EXCEPT ![m] = Returned(s[m])]
      BY <2>5, <2>6
    <2>9. c = [s EXCEPT ![m] = Returned(p)]
      BY <2>7, <2>8
    <2> QED BY <2>6, <2>9 DEF Under
  <1>7. n = 1 => c = <<>>
    BY <1>1, <1>3
  <1> QED BY <1>5, <1>6, <1>7

LEMMA CloseIs ==
  ASSUME NEW a, NEW typed, NEW n, NEW f, Hears(a, typed, n, f), f.pc = "close"
  PROVE  /\ f.id \in List => Cur = Mark("]")
         /\ f.id \notin List => Cur = Mark(EndBrace)
         /\ n = 1 => Move(a, typed).calls = <<>>
         /\ n > 1 => \A p : p = a[n - 1] => Move(a, typed).calls = Under(a, Returned(p))
  <1>1. PICK x : x = IF f.id \in List THEN "]" ELSE EndBrace
    OBVIOUS
  <1>2. Facing(a, n, f) /\ Move(a, typed).out = <<Cur>>
    BY DEF Hears
  <1>3. Move(a, typed).out = <<Mark(x)>>
    BY <1>1, <1>2, CloseOut
  <1>4. \A y, z : <<y>> = <<z>> => y = z
    OBVIOUS
  <1>5. Cur = Mark(x)
    BY <1>2, <1>3, <1>4
  <1> QED BY <1>1, <1>2, <1>5, CloseOut

LEMMA ReadsEndList ==
  ASSUME NEW a, NEW typed, NEW n, NEW f, NEW b, Hears(a, typed, n, f), f.id \in List, f.pc = "close",
         b = Move(a, typed).calls
  PROVE  Match(b)'
  <1>1. /\ n \in Nat /\ n > 0 /\ Last(a) = f /\ Len(a) = n /\ Top = stack[n] /\ TopInst = inst[n]
        /\ Match(a) /\ a # <<>> /\ n = Len(doc) /\ f = a[n]
    BY HearsIs
  <1>2. n > 1
    <2>1. a[1].id = RootType
      BY <1>1, MatchIs
    <2>2. n # 1
      BY <1>1, <2>1, SchemaAssumption, OneKind
    <2> QED BY <1>1, <2>2
  <1>3. PICK i, p : i = n - 1 /\ p = a[i]
    OBVIOUS
  <1>5. Cur = Mark("]") /\ b = Under(a, Returned(p))
    BY <1>2, <1>3, CloseIs
  <1>6. Cur = Mark("]") /\ Read /\ status' = "parsing"
    BY <1>5 DEF Hears
  <1>7. /\ Parent = stack[i] /\ ParentInst = inst[i]
        /\ At(p, doc[i], stack[i], inst[i], i)
        /\ p.id \in Class => /\ Owns(Parent, Top) /\ Top.activekey = p.slot /\ Meta[p.id][p.slot] = f.id
                             /\ Parent.ty = p.id
        /\ p.id \in List \cup Map => ~Owns(Parent, Top) /\ Elem[p.id].id = f.id
        /\ Top.ty = f.id /\ active_key \in Key /\ active_key # NoKey /\ Top.is_list
        /\ Parent.map_key \in Key \cup {NoKey}
    BY <1>2, <1>3, HearsFaces, CallerIs
  <1>8. /\ EvClose("[") /\ active_key' = active_key
        /\ PopInto(ListInto(Parent, ParentInst, Top, TopInst), Parent.map_key)
    <2>1. end_array
      BY <1>6, Handled
    <2> QED BY <1>7, <2>1, EndBracketHandled
  <1>9. PICK v : v = ListInto(Parent, ParentInst, Top, TopInst)
    OBVIOUS
  <1>10. v = TakenBack(p, inst[n - 1], inst[n])
    <2>1. p.id \in Class \cup List \cup Map /\ Parent.ty = p.id
      BY <1>7 DEF At
    <2>2. CASE p.id \in Class
      <3>1. v = SetMember(p.id, inst[i], p.slot, f.id, inst[n])
        BY <1>1, <1>7, <1>9, <2>1, <2>2 DEF ListInto
      <3>2. v = [inst[i] EXCEPT ![p.slot] = inst[n]]
        BY <1>7, <2>2, <3>1 DEF SetMember
      <3> QED BY <1>3, <2>2, <3>2, OneKind DEF TakenBack
    <2>3. CASE p.id \in List
      <3>1. ListAt(p, doc[i], stack[i], inst[i], i)
        BY <1>7, <2>3, OneKind DEF At
      <3>2. Parent.is_list /\ ~Parent.is_map /\ Parent.val_astid = f.id
        BY <1>7, <2>3, <3>1 DEF ListAt
      <3>3. f.id \in VarCtor
        BY <1>7, <2>3, ElemIs
      <3>4. v = AppendValue(p.id, inst[i], f.id, inst[n])
        BY <1>1, <1>7, <1>9, <2>1, <2>3, <3>2, <3>3 DEF ListInto
      <3>5. v = More(inst[i], inst[n])
        BY <1>7, <2>3, <3>4 DEF AppendValue, is_sequence, More
      <3> QED BY <1>3, <2>3, <3>5, OneKind DEF TakenBack
    <2>4. CASE p.id \in Map
      <3>1. MapAt(p, doc[i], stack[i], inst[i], i) /\ MapCall(p) /\ p \in MapCalls(p.id) /\ p.val \in Content[p.id]
        BY <1>7, <2>4, MapIs
      <3>2. ~Parent.is_list /\ Parent.is_map /\ Parent.val_astid = f.id
        BY <1>7, <2>4, <3>1 DEF MapAt
      <3>3. f.id \in VarCtor /\ Elem[p.id].ptr = FALSE
        <4>1. p.id \notin List
          BY <2>4, OneKind
        <4> QED BY <1>7, <2>4, <4>1, ElemIs
      <3>4. Chain(p, f, stack[n], i)
        BY <1>2, <1>3, HearsFaces, CallerIs
      <3>5. PICK k : k = AsRead(p.slot)
        OBVIOUS
      <3>6. doc[i].key = k /\ k \in Key /\ k # NoKey
        BY <3>1, <3>4, <3>5, SchemaAssumption DEF Chain, MapAt
      <3>7. Parent.map_key = k
        BY <1>7, <3>1, <3>5, <3>6 DEF MapAt
      <3>8. v = InsertValue(p.id, inst[i], k, f.id, inst[n])
        BY <1>1, <1>7, <1>9, <2>1, <2>4, <3>2, <3>3, <3>7 DEF ListInto
      <3>9. v = Insert(inst[i], k, inst[n])
        BY <1>7, <2>4, <3>3, <3>8 DEF InsertValue, is_associative
      <3> QED BY <1>3, <2>4, <3>5, <3>9, OneKind DEF TakenBack
    <2> QED BY <2>1, <2>2, <2>3, <2>4
  <1>11. PICK k \in Key \cup {NoKey} : k = Parent.map_key
    BY <1>7
  <1>12. PopInto(v, k) /\ active_key' \in Key /\ active_key' # NoKey /\ p = a[n - 1]
    BY <1>3, <1>7, <1>8, <1>9, <1>11
  <1> QED BY <1>2, <1>5, <1>8, <1>10, <1>12, Ascends

LEMMA ReadsEndBrace ==
  ASSUME NEW a, NEW typed, NEW n, NEW f, NEW b, Hears(a, typed, n, f), f.id \in Class \cup Map, f.pc = "close", n > 1,
         b = Move(a, typed).calls
  PROVE  Match(b)'
  <1>1. /\ n \in Nat /\ n > 0 /\ Top = stack[n] /\ TopInst = inst[n] /\ Len(stack) = n
    BY HearsIs
  <1>2. PICK i, p : i = n - 1 /\ p = a[i]
    OBVIOUS
  <1>3. f.id \notin List
    BY OneKind
  <1>4. Cur = Mark(EndBrace) /\ b = Under(a, Returned(p))
    BY <1>2, <1>3, CloseIs
  <1>5. Read /\ status' = "parsing" /\ status = "parsing"
    <2>1. Read /\ status' = "parsing"
      BY DEF Hears
    <2> QED BY <2>1, Handled DEF ReadsOn
  <1>6. /\ Parent = stack[i] /\ ParentInst = inst[i]
        /\ At(p, doc[i], stack[i], inst[i], i) /\ Chain(p, f, stack[n], i)
        /\ p.id \in Class => /\ Owns(Parent, Top) /\ Top.activekey = p.slot /\ Meta[p.id][p.slot] = f.id
                             /\ Parent.ty = p.id
        /\ p.id \in List \cup Map => ~Owns(Parent, Top) /\ Elem[p.id].id = f.id
        /\ Top.ty = f.id /\ Top.activekey \in Key /\ Top.activekey # NoKey
        /\ Parent.map_key \in Key \cup {NoKey}
    BY <1>2, HearsFaces, CallerIs
  <1>7. /\ EvClose(Brace) /\ active_key' = RestoredKey(Top) /\ ~PtrMissing(Parent, Top)
        /\ PopInto(ObjectInto(Parent, ParentInst, Top, TopInst), KeyLeft(Parent, Top))
    <2>1. end_object
      BY <1>4, <1>5, Handled
    <2>2. Len(stack) # 1
      BY <1>1
    <2> QED BY <1>5, <2>1, <2>2, EndBraceHandled
  <1>8. PICK v : v = ObjectInto(Parent, ParentInst, Top, TopInst)
    OBVIOUS
  <1>9. v = TakenBack(p, inst[n - 1], inst[n])
    <2>1. p.id \in Class \cup List \cup Map /\ Parent.ty = p.id
      BY <1>6 DEF At
    <2>2. CASE p.id \in Class
      <3>1. v = SetMember(p.id, inst[i], p.slot, f.id, inst[n])
        BY <1>1, <1>6, <1>8, <2>1, <2>2 DEF ObjectInto
      <3>2. v = [inst[i] EXCEPT ![p.slot] = inst[n]]
        BY <1>6, <2>2, <3>1 DEF SetMember
      <3> QED BY <1>2, <2>2, <3>2, OneKind DEF TakenBack
    <2>3. CASE p.id \in List
      <3>1. ListAt(p, doc[i], stack[i], inst[i], i)
        BY <1>6, <2>3, OneKind DEF At
      <3>2. Parent.is_list /\ ~Parent.is_map /\ Parent.is_val_ptr = Elem[p.id].ptr
        BY <1>6, <2>3, <3>1 DEF ListAt
      <3>3. PtrAgrees(Parent, Top)
        BY <1>7, <2>1, <3>2 DEF PtrAgrees
      <3>4. v = AppendValue(p.id, inst[i], f.id, inst[n])
        BY <1>1, <1>6, <1>8, <2>1, <2>3, <3>2, <3>3 DEF ObjectInto
      <3>5. v = More(inst[i], inst[n])
        BY <1>6, <2>3, <3>4 DEF AppendValue, is_sequence, More
      <3> QED BY <1>2, <2>3, <3>5, OneKind DEF TakenBack
    <2>4. CASE p.id \in Map
      <3>1. MapCall(p)
        BY <1>6, <2>4, MapIs
      <3>2. p.pc = "value"
        BY <1>6 DEF Chain
      <3>3. f.id \notin Asts
        BY <1>6, <2>4, <3>1, <3>2 DEF MapCall
      <3>4. f.id \notin Class
        BY <3>3, ClassIs
      <3>5. f.id \notin Map
        BY <1>6, <2>4, ElemIs DEF Map
      <3> QED BY <3>4, <3>5
    <2> QED BY <2>1, <2>2, <2>3, <2>4
  <1>10. PICK k \in Key \cup {NoKey} : k = KeyLeft(Parent, Top)
    BY <1>6 DEF KeyLeft
  <1>11. PopInto(v, k) /\ active_key' \in Key /\ active_key' # NoKey /\ p = a[n - 1]
    BY <1>2, <1>6, <1>7, <1>8, <1>10 DEF RestoredKey
  <1> QED BY <1>4, <1>7, <1>9, <1>11, Ascends

LEMMA ReadsEnd ==
  ASSUME NEW a, NEW typed, NEW n, NEW f, NEW b, Hears(a, typed, n, f), f.pc = "close", n = 1, b = Move(a, typed).calls
  PROVE  Match(b)'
  <1>1. /\ Top = stack[n] /\ TopInst = inst[n] /\ Len(stack) = n /\ f = a[n] /\ DocOK /\ StackOK /\ n = Len(doc)
        /\ Match(a) /\ a # <<>> /\ n \in 1..MaxDepth /\ At(f, doc[n], stack[n], inst[n], n) /\ obj' = obj
    BY HearsIs
  <1>2. f.id = RootType /\ f.val = obj
    BY <1>1, MatchIs
  <1>3. f.id \notin List
    BY <1>2, SchemaAssumption, OneKind
  <1>4. Cur = Mark(EndBrace) /\ b = <<>>
    BY <1>3, CloseIs
  <1>5. Read /\ status' = "parsing" /\ status = "parsing"
    <2>1. Read /\ status' = "parsing"
      BY DEF Hears
    <2> QED BY <2>1, Handled DEF ReadsOn
  <1>6. EvClose(Brace) /\ inst' = inst /\ stack' = stack /\ active_key' = active_key
    <2>1. end_object
      BY <1>4, <1>5, Handled
    <2> QED BY <1>1, <1>5, <2>1, EndBraceHandled
  <1>7. doc' = <<>> /\ doc[n].key = NoKey
    BY <1>1, <1>6, ClosesBracket
  <1>8. inst[n] = Goal(f, n)
    BY <1>1, <1>7, Finished
  <1>9. inst'[1] = Inside(0)[RootType][obj]
    BY <1>2, <1>6, <1>8 DEF Goal
  <1>10. DocOK' /\ StackOK'
    BY <1>1, <1>6, ClosedOK DEF StackOK
  <1> QED BY <1>1, <1>4, <1>7, <1>9, <1>10 DEF Match, Inside

\* The values of a map of objects have no keys: no value is due, and the
\* reader cannot take the bracket.
LEMMA NoObjectInMap ==
  ASSUME NEW a, NEW typed, NEW n, NEW f, Hears(a, typed, n, f), f.id \in Map, f.pc = "object"
  PROVE  FALSE
  <1>1. /\ Match(a) /\ a # <<>> /\ n = Len(doc) /\ f = a[n] /\ doc # <<>> /\ n \in Nat /\ n > 0 /\ Last(a) = f
        /\ At(f, doc[n], stack[n], inst[n], n) /\ KeysOK(doc, active_key)
    BY HearsIs
  <1>2. active_key # NoKey
    <2>1. a[1].id = RootType
      BY <1>1, MatchIs
    <2>2. n # 1
      BY <1>1, <2>1, OneKind, SchemaAssumption
    <2>3. n > 1
      BY <1>1, <2>2
    <2> QED BY <1>1, <2>3 DEF KeysOK
  <1>3. MapAt(f, doc[n], stack[n], inst[n], n) /\ MapCall(f) /\ f \in MapCalls(f.id)
    BY <1>1, MapIs
  <1>4. PICK e, x : e = Elem[f.id].id /\ x = f.val[f.slot]
    OBVIOUS
  <1>5. e \in Class /\ f.slot \in DOMAIN f.val /\ (f.ct = f.id \/ f.val = <<>>) /\ f.val \in Content[f.id]
    BY <1>3, <1>4 DEF MapCall, MapCalls
  <1>6. f.ct = f.id /\ x \in Content[e]
    <2>1. f.val # <<>>
      BY <1>5, EmptyIsFunction
    <2> QED BY <1>4, <1>5, <2>1, MapContent
  <1>7. Move(a, typed) = Enters(a, Brace, Object(e, x, typed))
    <2>1. Move(a, typed) = MapMove(a, f, typed)
      BY <1>1 DEF Move
    <2>2. MapMove(a, f, typed) = EnterObject(a, f, e, x, typed)
      BY <1>4, <1>6 DEF MapMove
    <2> QED BY <1>5, <1>6, <2>1, <2>2, Entered
  <1>8. PICK g : g = Object(e, x, typed)
    OBVIOUS
  <1>9. Cur = Mark(Brace)
    BY <1>7, <1>8, Heard
  <1>10. start_object
    BY <1>9, Handled DEF Hears
  <1>11. EvOpen(Brace)
    BY <1>2, <1>10, BraceHandled
  <1>12. doc[n].open = Brace /\ doc[n].key = NoKey
    <2>1. e \in Asts
      BY <1>5, ClassIs
    <2> QED BY <1>3, <1>4, <2>1 DEF MapAt
  <1>13. ~ValueDue
    <2>1. Last(doc) = doc[n]
      BY <1>1 DEF Last
    <2> QED BY <1>1, <1>12, <2>1, Signs DEF ValueDue
  <1> QED BY <1>11, <1>13 DEF EvOpen

\* Whatever the writer's token is, the reader that takes it is where the
\* writer goes.
LEMMA ReadsNext ==
  ASSUME NEW a, NEW typed, Match(a), a # <<>>, Read, status' = "parsing", Move(a, typed).out = <<Cur>>
  PROVE  Match(Move(a, typed).calls)'
  <1>1. PICK n, f, b : n = Len(doc) /\ f = a[n] /\ b = Move(a, typed).calls
    OBVIOUS
  <1>2. Hears(a, typed, n, f)
    BY <1>1 DEF Hears, Facing
  <1>3. At(f, doc[n], stack[n], inst[n], n) /\ Last(a) = f /\ n \in Nat /\ n > 0
    BY <1>2, HearsIs
  <1>4. ASSUME NEW g, Move(a, typed) = Goes(a, g)
        PROVE  FALSE
    BY <1>2, <1>4, Heard
  <1>5. CASE f.id \in Class
    <2>1. f.pc \in ObjectPcs
      BY <1>3, <1>5, ClassIs DEF At, ObjectAt, ObjectCall, ObjectCalls
    <2>2. CASE f.pc = "kvs"
      <3>1. Move(a, typed) = KvsMove(a, f, typed)
        BY <1>3, <2>2 DEF Move
      <3>2. KvsMove(a, f, typed) = Goes(a, Based(f, typed))
        BY <2>2 DEF KvsMove, Based
      <3> QED BY <1>4, <3>1, <3>2
    <2>3. CASE f.pc = "value"
      <3>1. PICK t : t = Meta[f.id][f.slot]
        OBVIOUS
      <3>2. CASE t \in Class
        BY <1>1, <1>2, <1>5, <2>3, <3>1, <3>2, ReadsMemberObject
      <3>3. CASE t \in Map
        BY <1>1, <1>2, <1>5, <2>3, <3>1, <3>3, ReadsMemberMap
      <3>4. CASE t \in List
        BY <1>1, <1>2, <1>5, <2>3, <3>1, <3>4, ReadsMemberList
      <3>5. CASE t \notin List \cup Map \cup Class
        BY <1>1, <1>2, <1>5, <2>3, <3>1, <3>5, ReadsMember
      <3> QED BY <3>2, <3>3, <3>4, <3>5
    <2>4. CASE f.pc = "close"
      <3>1. n > 1 \/ n = 1
        BY <1>3
      <3> QED BY <1>1, <1>2, <1>5, <2>4, <3>1, ReadsEnd, ReadsEndBrace
    <2>5. CASE f.pc = "type"
      BY <1>1, <1>2, <1>5, <2>5, ReadsType
    <2>6. CASE f.pc = "type_text"
      BY <1>1, <1>2, <1>5, <2>6, ReadsTypeText
    <2>7. CASE f.pc \in {"type_comma", "base_comma", "fields"}
      BY <1>1, <1>2, <1>5, <2>7, ReadsObjectComma
    <2>8. CASE f.pc = "field"
      BY <1>1, <1>2, <1>5, <2>8, ReadsField
    <2> QED BY <2>1, <2>2, <2>3, <2>4, <2>5, <2>6, <2>7, <2>8 DEF ObjectPcs, AtTheHead
  <1>6. ASSUME f.id \in List \cup Map, f.pc = "value"
        PROVE  Match(b)'
    <2>1. PICK e : e = Elem[f.id].id
      OBVIOUS
    <2>2. CASE e \in Class
      BY <1>1, <1>2, <1>6, <2>1, <2>2, ReadsElementObject
    <2>3. CASE e \in List
      BY <1>1, <1>2, <1>6, <2>1, <2>3, ReadsElementList
    <2>4. CASE e \notin Class \cup List
      BY <1>1, <1>2, <1>6, <2>1, <2>4, ReadsElement
    <2> QED BY <2>2, <2>3, <2>4
  <1>7. CASE f.id \in List
    <2>1. f.pc \in {"elems", "value", "close"}
      BY <1>3, <1>7, OneKind DEF At, ListAt, ListCall, ListCalls
    <2>2. CASE f.pc = "elems"
      BY <1>1, <1>2, <1>7, <2>2, ReadsListComma
    <2>3. CASE f.pc = "close"
      BY <1>1, <1>2, <1>7, <2>3, ReadsEndList
    <2> QED BY <1>1, <1>6, <1>7, <2>1, <2>2, <2>3
  <1>8. CASE f.id \in Map
    <2>1. f.pc \in {"entries", "entry", "object", "value", "close"}
      BY <1>3, <1>8, MapIs
    <2>2. CASE f.pc = "entries"
      BY <1>1, <1>2, <1>8, <2>2, ReadsMapComma
    <2>3. CASE f.pc = "entry"
      BY <1>1, <1>2, <1>8, <2>3, ReadsEntry
    <2>4. CASE f.pc = "object"
      BY <1>2, <1>8, <2>4, NoObjectInMap
    <2>5. CASE f.pc = "close"
      <3>1. n > 1
        <4>1. Match(a) /\ a # <<>> /\ n = Len(doc) /\ f = a[n]
          BY <1>2, HearsIs
        <4>2. a[1].id = RootType
          BY <4>1, MatchIs
        <4>3. n # 1
          BY <1>8, <4>1, <4>2, OneKind, SchemaAssumption
        <4> QED BY <1>3, <4>3
      <3> QED BY <1>1, <1>2, <1>8, <2>5, <3>1, ReadsEndBrace
    <2> QED BY <1>1, <1>6, <1>8, <2>1, <2>2, <2>3, <2>4, <2>5
  <1>9. f.id \in Class \/ f.id \in List \/ f.id \in Map
    BY <1>3 DEF At
  <1> QED BY <1>5, <1>7, <1>8, <1>9

-----------------------------------------------------------------------------
\* A run of the writer: after j moves, h[j] are its activations and p[j] the
\* number of tokens of tx that are written.
IsRun(h, p, n, x, typed, tx) ==
  /\ h[0] = <<Object(RootType, x, typed)>> /\ p[0] = 1 /\ tx[1] = Mark(Brace)
  /\ \A j \in 0..n : p[j] \in Nat \ {0}
  /\ \A j \in 0..(n - 1) :
       /\ h[j] # <<>> /\ h[j + 1] = Move(h[j], typed).calls
       /\ \/ Move(h[j], typed).out = <<>> /\ p[j + 1] = p[j]
          \/ Move(h[j], typed).out = <<tx[p[j] + 1]>> /\ p[j + 1] = p[j] + 1
       /\ p[j + 1] <= p[n]

\* Every move writes one token at most.
OneOut(move) == move.out = <<>> \/ \E y : move.out = <<y>>

LEMMA EachOut ==
  ASSUME NEW a, NEW f, NEW g, NEW x
  PROVE  OneOut(Goes(a, g)) /\ OneOut(Writes(a, x, g)) /\ OneOut(Enters(a, x, g)) /\ OneOut(CloseMove(a, f))
  BY DEF OneOut, Goes, Writes, Enters, CloseMove

LEMMA EntersOut ==
  ASSUME NEW a, NEW f, NEW ct, NEW val, NEW typed
  PROVE  OneOut(EnterObject(a, f, ct, val, typed))
  BY EachOut DEF EnterObject

LEMMA MoveOut ==
  ASSUME NEW a, NEW typed
  PROVE  OneOut(Move(a, typed))
  <1>1. PICK f : f = Last(a)
    OBVIOUS
  <1>2. OneOut(EnvelopeMove(a, f))
    BY EachOut DEF EnvelopeMove
  <1>3. OneOut(KvsMove(a, f, typed))
    <2>1. PICK g : g = Based(f, typed)
      OBVIOUS
    <2>2. KvsMove(a, f, typed) = (IF f.pc = "kvs" THEN Goes(a, Based(f, typed)) ELSE Writes(a, Comma, [f EXCEPT !.pc = "fields"]))
      BY DEF KvsMove, Based
    <2> QED BY <2>1, <2>2, EachOut
  <1>4. ASSUME NEW k, NEW x
        PROVE  OneOut(Named(a, f, k, x))
    BY EachOut DEF Named
  <1>5. OneOut(FieldsMove(a, f))
    BY <1>4, EachOut DEF FieldsMove
  <1>6. OneOut(ListMove(a, f))
    BY EachOut DEF ListMove
  <1>7. OneOut(MapMove(a, f, typed))
    BY <1>4, EachOut, EntersOut DEF MapMove
  <1>8. ASSUME NEW v
        PROVE  OneOut(ValMove(a, f, v, typed))
    <2>1. OneOut(JsonableMove(a, f, v, typed))
      BY EachOut, EntersOut DEF JsonableMove
    <2> QED BY <2>1, EachOut DEF ValMove
  <1> QED BY <1>1, <1>2, <1>3, <1>5, <1>6, <1>7, <1>8, EachOut DEF Move

\* A step of the writer is the move of its innermost activation.
LEMMA StepIsMove ==
  ASSUME Serialize
  PROVE  calls # <<>> /\ text' = text \o Move(calls, serialize_type).out /\ calls' = Move(calls, serialize_type).calls
         /\ serialize_type' = serialize_type
  <1>1. PICK a, f, typed, m : a = calls /\ f = Last(calls) /\ typed = serialize_type /\ m = Move(a, typed)
    OBVIOUS
  <1>2. ASSUME NEW move, calls # <<>>, Does(move), move = m
        PROVE  calls # <<>> /\ text' = text \o m.out /\ calls' = m.calls /\ serialize_type' = serialize_type
    BY <1>2 DEF Does
  <1>3. CASE serialize_envelope
    <2>1. m = EnvelopeMove(calls, Last(calls)) /\ calls # <<>>
      BY <1>1, <1>3 DEF serialize_envelope, Due, Move
    <2> QED BY <1>1, <1>2, <1>3, <2>1 DEF serialize_envelope
  <1>4. CASE serialize_kvs
    <2>1. m = KvsMove(calls, Last(calls), serialize_type) /\ calls # <<>>
      BY <1>1, <1>4 DEF serialize_kvs, Due, Move
    <2> QED BY <1>1, <1>2, <1>4, <2>1 DEF serialize_kvs
  <1>5. CASE serialize_fields
    <2>1. m = FieldsMove(calls, Last(calls)) /\ calls # <<>>
      BY <1>1, <1>5 DEF serialize_fields, Due, Move
    <2> QED BY <1>1, <1>2, <1>5, <2>1 DEF serialize_fields
  <1>6. CASE serialize_list
    <2>1. m = ListMove(calls, Last(calls)) /\ calls # <<>>
      BY <1>1, <1>6 DEF serialize_list, Due, Move
    <2> QED BY <1>1, <1>2, <1>6, <2>1 DEF serialize_list
  <1>7. CASE serialize_map
    <2>1. m = MapMove(calls, Last(calls), serialize_type) /\ calls # <<>>
      BY <1>1, <1>7 DEF serialize_map, Due, Move
    <2> QED BY <1>1, <1>2, <1>7, <2>1 DEF serialize_map
  <1>8. CASE close
    <2>1. m = CloseMove(calls, Last(calls)) /\ calls # <<>>
      BY <1>1, <1>8 DEF close, Due, Move
    <2> QED BY <1>1, <1>2, <1>8, <2>1 DEF close
  <1>9. CASE serialize_val
    <2>1. m = ValMove(calls, Last(calls), ValueOf(Last(calls)), serialize_type) /\ calls # <<>>
      BY <1>1, <1>9 DEF serialize_val, Due, Move
    <2> QED BY <1>1, <1>2, <1>9, <2>1 DEF serialize_val
  <1> QED BY <1>1, <1>3, <1>4, <1>5, <1>6, <1>7, <1>8, <1>9 DEF Serialize

Extended(s, x) == s \o <<x>>

\* The text grows at its end.
LEMMA Concatenated ==
  ASSUME NEW s, NEW n \in Nat, IsSeq(s, n), NEW x
  PROVE  /\ s \o <<>> = s
         /\ IsSeq(Extended(s, x), n + 1) /\ Agree(Extended(s, x), s, n) /\ Extended(s, x)[n + 1] = x
  <1>1. PICK S : s \in Seq(S) /\ <<x>> \in Seq(S) /\ Len(s) = n
    <2> DEFINE R == {s[i] : i \in 1..n}
               T == R \cup {x}
    <2>1. s \in Seq(R) /\ Len(s) = n
      BY SeqOfContents
    <2>2. R \subseteq T /\ x \in T
      OBVIOUS
    <2> HIDE DEF R, T
    <2>3. s \in Seq(T) /\ <<x>> \in Seq(T)
      BY <2>1, <2>2, SeqMonotonic
    <2> QED BY <2>1, <2>3
  <1>2. s \o <<>> = s
    BY <1>1, ConcatEmptySeq
  <1>3. PICK t : t = <<x>> /\ t \in Seq(S) /\ Len(t) = 1 /\ t[1] = x
    <2>1. PICK t : t = <<x>>
      OBVIOUS
    <2>2. t \in Seq(S) /\ Len(t) = 1 /\ t[1] = x
      BY <1>1, <2>1
    <2> QED BY <2>1, <2>2
  <1>4. PICK c : c = s \o <<x>> /\ c = Extended(s, x)
    BY DEF Extended
  <1>5. /\ c \in Seq(S) /\ Len(c) = n + 1
        /\ \A i \in 1..(n + 1) : c[i] = IF i <= n THEN s[i] ELSE t[i - n]
    BY <1>1, <1>3, <1>4, ConcatProperties
  <1>6. IsSeq(c, n + 1)
    BY <1>5, SeqIsSeq
  <1>7. Agree(c, s, n) /\ c[n + 1] = x
    <2>1. \A i \in 1..n : i \in 1..(n + 1) /\ i <= n
      OBVIOUS
    <2>2. n + 1 \in 1..(n + 1) /\ ~(n + 1 <= n) /\ (n + 1) - n = 1
      OBVIOUS
    <2> QED BY <1>3, <1>5, <2>1, <2>2 DEF Agree
  <1> QED BY <1>2, <1>4, <1>6, <1>7

Ran(n, x, typed, tx, c) == \E h, p : IsRun(h, p, n, x, typed, tx) /\ IsSeq(tx, p[n]) /\ h[n] = c
Continues(tx2, tx, m) == tx2 = tx \o m.out

LEMMA RunGrows ==
  ASSUME NEW h, NEW p, NEW n \in Nat, NEW x, NEW typed, NEW tx, NEW tx2, NEW m,
         IsRun(h, p, n, x, typed, tx), IsSeq(tx, p[n]), h[n] # <<>>, m = Move(h[n], typed), Continues(tx2, tx, m)
  PROVE  Ran(n + 1, x, typed, tx2, m.calls)
  <1>0. tx2 = tx \o m.out
    BY DEF Continues
  <1>1. m.out = <<>> \/ \E y : m.out = <<y>>
    BY MoveOut DEF OneOut
  <1>2. PICK q \in Nat \ {0} : q = p[n]
    BY DEF IsRun
  <1>3. PICK q2 \in Nat \ {0} : /\ q <= q2 /\ IsSeq(tx2, q2) /\ Agree(tx2, tx, q)
                                /\ \/ m.out = <<>> /\ q2 = q
                                   \/ m.out = <<tx2[q + 1]>> /\ q2 = q + 1
    <2>1. CASE m.out = <<>>
      BY <1>0, <1>2, <2>1, Concatenated DEF Agree
    <2>2. CASE \E y : m.out = <<y>>
      <3>1. PICK y : m.out = <<y>>
        BY <2>2
      <3>2. tx2 = Extended(tx, y)
        BY <1>0, <3>1 DEF Extended
      <3>3. /\ IsSeq(Extended(tx, y), q + 1) /\ Agree(Extended(tx, y), tx, q)
            /\ Extended(tx, y)[q + 1] = y
        <4>1. IsSeq(tx, q) /\ q \in Nat
          BY <1>2
        <4> QED BY <4>1, Concatenated
      <3>4. IsSeq(tx2, q + 1) /\ Agree(tx2, tx, q) /\ tx2[q + 1] = y
        BY <3>2, <3>3, Zenon
      <3>5. q + 1 \in Nat \ {0} /\ q <= q + 1
        BY <1>2
      <3> QED BY <3>1, <3>4, <3>5
    <2> QED BY <1>1, <2>1, <2>2
  <1>4. PICK h2, p2 : /\ h2 = [j \in 0..(n + 1) |-> IF j = n + 1 THEN m.calls ELSE h[j]]
                      /\ p2 = [j \in 0..(n + 1) |-> IF j = n + 1 THEN q2 ELSE p[j]]
    OBVIOUS
  <1>5. /\ h2[n + 1] = m.calls /\ p2[n + 1] = q2
        /\ \A j \in 0..n : h2[j] = h[j] /\ p2[j] = p[j]
    BY <1>4
  <1>6. /\ h[0] = <<Object(RootType, x, typed)>> /\ p[0] = 1 /\ tx[1] = Mark(Brace)
        /\ \A j \in 0..n : p[j] \in Nat \ {0}
    BY DEF IsRun
  <1>7. tx2[1] = tx[1]
    <2>1. 1 \in 1..q
      BY <1>2
    <2> QED BY <1>3, <2>1 DEF Agree
  <1>8. h2[0] = h[0] /\ p2[0] = p[0]
    <2>1. 0 \in 0..n
      OBVIOUS
    <2> QED BY <1>5, <2>1
  <1>9. ASSUME NEW j \in 0..(n + 1)
        PROVE  p2[j] \in Nat \ {0}
    <2>1. j \in 0..n \/ j = n + 1
      OBVIOUS
    <2> QED BY <1>5, <1>6, <2>1
  <1>10. ASSUME NEW j \in 0..n
         PROVE  /\ h2[j] # <<>> /\ h2[j + 1] = Move(h2[j], typed).calls
                /\ \/ Move(h2[j], typed).out = <<>> /\ p2[j + 1] = p2[j]
                   \/ Move(h2[j], typed).out = <<tx2[p2[j] + 1]>> /\ p2[j + 1] = p2[j] + 1
                /\ p2[j + 1] <= p2[n + 1]
    <2>1. h2[j] = h[j] /\ p2[j] = p[j]
      BY <1>5
    <2>2. CASE j = n
      <3>1. h2[j + 1] = m.calls /\ p2[j + 1] = q2 /\ p2[j] = q
        BY <1>2, <1>5, <2>1, <2>2
      <3>2. h2[j] # <<>> /\ Move(h2[j], typed) = m
        BY <2>1, <2>2
      <3>3. q2 = p2[n + 1] /\ q2 \in Nat /\ q2 <= q2
        BY <1>5
      <3>4. \/ m.out = <<>> /\ p2[j + 1] = p2[j]
            \/ m.out = <<tx2[p2[j] + 1]>> /\ p2[j + 1] = p2[j] + 1
        BY <1>3, <3>1, Zenon
      <3> QED BY <3>1, <3>2, <3>3, <3>4, Zenon
    <2>3. CASE j # n
      <3>1. j \in 0..(n - 1) /\ j + 1 \in 0..n
        BY <2>3
      <3>2. /\ h[j] # <<>> /\ h[j + 1] = Move(h[j], typed).calls
            /\ \/ Move(h[j], typed).out = <<>> /\ p[j + 1] = p[j]
               \/ Move(h[j], typed).out = <<tx[p[j] + 1]>> /\ p[j + 1] = p[j] + 1
            /\ p[j + 1] <= q
        BY <1>2, <3>1 DEF IsRun
      <3>3. h2[j + 1] = h[j + 1] /\ p2[j + 1] = p[j + 1] /\ p[j] \in Nat \ {0} /\ p[j + 1] \in Nat \ {0}
        BY <1>5, <1>6, <3>1
      <3>4. p[j + 1] = p[j] + 1 => tx2[p[j] + 1] = tx[p[j] + 1]
        <4>1. p[j + 1] = p[j] + 1 => p[j] + 1 \in 1..q
          BY <1>2, <3>2, <3>3
        <4> QED BY <1>3, <4>1 DEF Agree
      <3>5. p2[j + 1] <= p2[n + 1]
        BY <1>3, <1>5, <3>2, <3>3
      <3> QED BY <2>1, <3>2, <3>3, <3>4, <3>5
    <2> QED BY <2>2, <2>3
  <1>11. IsRun(h2, p2, n + 1, x, typed, tx2)
    <2>1. (n + 1) - 1 = n
      OBVIOUS
    <2> QED BY <1>6, <1>7, <1>8, <1>9, <1>10, <2>1 DEF IsRun
  <1> QED BY <1>3, <1>5, <1>11 DEF Ran

\* The move that wrote the token the reader is at, from where it is.
Writer(h, p, n, typed, e) ==
  /\ p[e] = pos - 1 /\ Match(h[e]) /\ h[e] # <<>>
  /\ Move(h[e], typed).out = <<Cur>> /\ p[e + 1] = pos /\ h[e + 1] = Move(h[e], typed).calls
WriterFound(h, p, n, typed) == \E e \in 0..(n - 1) : Writer(h, p, n, typed, e)

LEMMA Expects ==
  ASSUME NEW h, NEW p, NEW n \in Nat, NEW typed, NEW i \in 0..n, IsRun(h, p, n, obj, typed, text),
         p[i] = pos - 1, pos \in Nat, pos <= p[n], Match(h[i])
  PROVE  WriterFound(h, p, n, typed)
  <1> DEFINE Found == \E e \in 0..(n - 1) : /\ p[e] = pos - 1 /\ Match(h[e]) /\ h[e] # <<>>
                        /\ Move(h[e], typed).out = <<Cur>> /\ p[e + 1] = pos /\ h[e + 1] = Move(h[e], typed).calls
             S == {k \in 0..(n - i) : Found \/ (p[i + k] = pos - 1 /\ Match(h[i + k]))}
  <1>1. 0 \in S
    BY SMT
  <1>2. ASSUME NEW k \in 0..((n - i) - 1), k \in S
        PROVE  k + 1 \in S
    <2>1. k + 1 \in 0..(n - i)
      OBVIOUS
    <2>2. CASE Found
      BY <2>1, <2>2
    <2>3. CASE p[i + k] = pos - 1 /\ Match(h[i + k])
      <3>1. PICK j \in 0..(n - 1) : j = i + k /\ j + 1 = i + (k + 1)
        OBVIOUS
      <3>2. p[j] = pos - 1 /\ Match(h[j])
        BY <2>3, <3>1
      <3>3. /\ h[j] # <<>> /\ h[j + 1] = Move(h[j], typed).calls
            /\ \/ Move(h[j], typed).out = <<>> /\ p[j + 1] = p[j]
               \/ Move(h[j], typed).out = <<text[p[j] + 1]>> /\ p[j + 1] = p[j] + 1
        BY DEF IsRun
      <3>4. CASE Move(h[j], typed).out = <<>> /\ p[j + 1] = p[j]
        <4>1. Match(h[j + 1])
          BY <3>2, <3>3, <3>4, SilentMatch
        <4> QED BY <2>1, <3>1, <3>2, <3>4, <4>1
      <3>5. CASE Move(h[j], typed).out = <<text[p[j] + 1]>> /\ p[j + 1] = p[j] + 1
        <4>1. p[j] + 1 = pos
          BY <3>2
        <4>2. Move(h[j], typed).out = <<Cur>> /\ p[j + 1] = pos
          BY <3>5, <4>1 DEF Cur
        <4>3. Found
          BY <3>2, <3>3, <4>2
        <4> QED BY <2>1, <4>3
      <3> QED BY <3>3, <3>4, <3>5
    <2> QED BY <1>2, <2>2, <2>3
  <1>3. PICK m \in Nat : m = n - i
    OBVIOUS
  <1> HIDE DEF Found
  <1>4. m \in S
    <2>1. PICK T : T = S
      OBVIOUS
    <2> HIDE DEF S
    <2>2. 0..m \subseteq T
      BY <1>1, <1>2, <1>3, <2>1, UpTo
    <2> QED BY <1>3, <2>1, <2>2
  <1>5. i + m = n
    BY <1>3
  <1>6. Found \/ p[n] = pos - 1
    BY <1>4, <1>5
  <1>7. p[n] \in Nat
    BY DEF IsRun
  <1>8. Found
    BY <1>6, <1>7
  <1> QED BY <1>8 DEF Found, WriterFound, Writer

-----------------------------------------------------------------------------
\* The reader before its first token.
Unread == /\ doc = <<>> /\ nev = 0 /\ nparse \in Nat /\ pos = 1
          /\ stack = <<RootNode>> /\ inst = <<Fresh[RootType]>> /\ active_key = NoKey

LEMMA UnreadOK ==
  ASSUME Unread
  PROVE  /\ DocOK /\ StackOK /\ Len(doc) = 0 /\ Len(stack) = 1
         /\ stack[1] = RootNode /\ inst[1] = Fresh[RootType]
  <1>1. RootNode \in Node
    BY RootAlone
  <1>2. Len(stack) = 1 /\ stack \in Seq(Node) /\ stack[1] = RootNode /\ stack # <<>>
    BY <1>1 DEF Unread
  <1>3. IsSeq(inst, 1) /\ inst[1] = Fresh[RootType]
    BY DEF Unread, IsSeq
  <1>4. DocOK /\ Len(doc) = 0
    BY EmptySeq DEF Unread, DocOK
  <1> QED BY <1>2, <1>3, <1>4 DEF StackOK

\* The bracket of the object itself: the reader's node for it is there already.
LEMMA RootBrace ==
  ASSUME start_object, active_key = NoKey
  PROVE  EvOpen(Brace) /\ stack' = stack /\ inst' = inst /\ active_key' = active_key
  <1>1. EvOpen(Brace) /\ UNCHANGED <<stack, inst, active_key, status>>
    BY Zenon DEF start_object, start_object_member, start_object_element, start_object_skipped, Brace
  <1> QED BY <1>1

LEMMA ReadsFirst ==
  ASSUME Unread, Read, status' = "parsing", text[1] = Mark(Brace), obj \in Content[RootType],
         NEW typed, NEW a, a = <<Object(RootType, obj, typed)>>
  PROVE  Match(a)'
  <1>1. /\ DocOK /\ StackOK /\ Len(doc) = 0 /\ Len(stack) = 1
        /\ stack[1] = RootNode /\ inst[1] = Fresh[RootType]
    BY UnreadOK
  <1>2. start_object /\ obj' = obj
    <2>1. Cur = Mark(Brace)
      BY DEF Unread, Cur
    <2> QED BY <2>1, Handled DEF ReadsOn
  <1>3. EvOpen(Brace) /\ stack' = stack /\ inst' = inst /\ active_key' = NoKey
    BY <1>2, RootBrace DEF Unread
  <1>4. DueType = RootType /\ RootType \in Class /\ RootType \in TypeId /\ Kind[RootType] = "object"
    BY SchemaAssumption DEF Unread, DueType, Class
  <1>5. /\ Len(doc) < MaxDepth /\ Len(doc') = 1 /\ doc' # <<>>
        /\ Opened(doc'[1], Brace, RootType)
    <2>1. Kind[DueType] \in (IF Brace = Brace THEN {"object", "map"} ELSE {"list"})
      BY <1>4
    <2>2. /\ Len(doc) < MaxDepth /\ Len(doc') = Len(doc) + 1 /\ doc' # <<>>
          /\ doc'[Len(doc) + 1] = [open |-> Brace, ty |-> DueType, key |-> NoKey]
      BY <1>1, <1>3, <1>4, <2>1, OpensBracket
    <2>3. Len(doc) + 1 = 1
      BY <1>1
    <2> QED BY <1>4, <2>2, <2>3 DEF Opened
  <1>6. DocOK' /\ StackOK'
    <2>1. DocOK'
      BY <1>1, <1>3, BraceOK
    <2> QED BY <1>1, <1>3, <2>1 DEF StackOK
  <1>7. 1 \in 1..MaxDepth
    BY <1>1, <1>5, BoundsAssumption
  <1>8. PICK f : f = Object(RootType, obj, typed)
    OBVIOUS
  <1>9. At(f, doc[1], stack[1], inst[1], 1)' /\ f.id = RootType /\ f.val = obj
    <2>1. NodeOf(RootNode, RootType, RootType, FALSE, FALSE, FALSE)
      BY DEF NodeOf, RootNode, ParseNode
    <2>2. PICK d, v : d = doc'[1] /\ v = inst'[1]
      OBVIOUS
    <2>3. Opened(d, Brace, RootType) /\ v = Fresh[RootType]
      BY <1>1, <1>3, <1>5, <2>2
    <2>4. /\ At(Object(RootType, obj, typed), d, RootNode, v, 1)
          /\ Object(RootType, obj, typed).id = RootType /\ Object(RootType, obj, typed).val = obj
      <3>1. PICK i \in 1..MaxDepth : i = 1
        BY <1>7
      <3>2. PICK nd, x : nd = RootNode /\ x = obj
        OBVIOUS
      <3>3. NodeOf(nd, RootType, RootType, FALSE, FALSE, FALSE) /\ x \in Content[RootType]
        BY <2>1, <3>2
      <3>4. i > 1 => nd.activekey # NoKey
        BY <3>1
      <3>5. PICK g : g = Object(RootType, x, typed)
        OBVIOUS
      <3>6. PICK t : t = RootType
        OBVIOUS
      <3>7. /\ t \in Class /\ x \in Content[t] /\ Opened(d, Brace, t) /\ NodeOf(nd, t, t, FALSE, FALSE, FALSE)
            /\ g = Object(t, x, typed)
        BY <1>4, <2>3, <3>3, <3>5, <3>6
      <3>8. At(g, d, nd, Fresh[t], i)
        BY <3>4, <3>7, FreshObject
      <3>9. g.id = t /\ g.val = x
        BY <3>7 DEF Object
      <3> QED BY <2>3, <3>1, <3>2, <3>5, <3>6, <3>8, <3>9, Zenon
    <2>5. stack'[1] = RootNode
      BY <1>1, <1>3
    <2>6. At(f, d, RootNode, v, 1) /\ f.id = RootType /\ f.val = obj
      BY <1>8, <2>4, Zenon
    <2> QED BY <2>2, <2>5, <2>6, Zenon
  <1>10. a = <<f>> /\ a[1] = f /\ IsSeq(a, 1)
    BY <1>8 DEF IsSeq
  <1>11. Levels(a, doc, stack, inst, 1)'
    BY <1>9, <1>10 DEF Levels
  <1>12. KeysOK(doc, active_key)'
    BY <1>3, <1>5 DEF KeysOK, Opened
  <1>13. Nested(a)'
    BY <1>1, <1>2, <1>3, <1>5, <1>7, <1>9, <1>10, <1>11, <1>12 DEF Nested
  <1> QED BY <1>5, <1>6, <1>13 DEF Match

\* The token that ends a parse; it is accepted only at the end of the text.
LEMMA ReadsLast ==
  ASSUME Read, status' # "parsing"
  PROVE  /\ status' \notin {"idle", "parsing"} /\ status = "parsing"
         /\ calls' = calls /\ text' = text /\ serialize_type' = serialize_type /\ obj' = obj
         /\ status' = "ok" => doc = <<>> /\ nev > 0 /\ inst' = inst
  <1> DEFINE Refuses == status = "parsing" /\ status' \in {"failed", "undefined"} /\ peer' = peer
             Complete == status = "parsing" /\ status' = "ok" /\ peer' = peer /\ doc = <<>> /\ nev > 0 /\ inst' = inst
  <1> SUFFICES Refuses \/ Complete
    <2>1. peer' = peer => calls' = calls /\ text' = text /\ serialize_type' = serialize_type /\ obj' = obj
      BY DEF peer, writing
    <2> QED BY <2>1
  <1>1. CASE read_open
    <2>1. (start_object \/ start_array) /\ peer' = peer /\ status = "parsing"
      BY <1>1, Zenon DEF read_open, Marked, Reading, Consume
    <2>2. start_object => status' = status
      BY Zenon DEF start_object, start_object_member, start_object_element, start_object_skipped
    <2>3. start_array => status' = status \/ status' = "failed"
      BY Zenon DEF start_array, start_array_member, start_array_element, start_array_refused, start_array_skipped
    <2> QED BY <2>1, <2>2, <2>3
  <1>2. CASE read_close
    <2>1. (end_object \/ end_array) /\ peer' = peer /\ status = "parsing"
      BY <1>2, Zenon DEF read_close, Marked, Reading, Consume
    <2>2. end_object => status' = status \/ status' = "failed"
      BY DEF end_object, end_object_root, end_object_nested
    <2>3. end_array => status' = status \/ status' \in {"parsing", "failed", "undefined"}
      <3>1. ArrayVerdict(Parent, Top) \in {"parsing", "failed", "undefined"}
        BY DEF ArrayVerdict
      <3> QED BY <3>1 DEF end_array, end_array_list, end_array_skipped
    <2> QED BY <2>1, <2>2, <2>3
  <1>3. CASE read_comma
    BY <1>3 DEF read_comma, Marked, Reading, vars
  <1>4. CASE read_key
    BY <1>4 DEF read_key, Reading, key
  <1>5. CASE read_scalar
    BY <1>5 DEF read_scalar, Reading, set_value
  <1>6. CASE read_null
    BY <1>6 DEF read_null, Reading, null
  <1>7. CASE read_misfit
    BY <1>7 DEF read_misfit, Reading, parse_error, EvError
  <1>8. CASE read_end
    BY <1>8 DEF read_end, finish, EvFinish, parse_error, EvError
  <1> QED BY <1>1, <1>2, <1>3, <1>4, <1>5, <1>6, <1>7, <1>8 DEF Read

-----------------------------------------------------------------------------
\* The inductive invariant.  The reader only begins when the whole text is
\* written, so that what it is at is a place in the finished run of the writer.
ReaderAt(h, p, n) ==
  \/ status = "idle" /\ Unread
  \/ status = "undefined"
  \/ status = "parsing" /\ calls = <<>> /\ Unread
  \/ status = "parsing" /\ calls = <<>> /\ pos \in Nat /\ pos > 1 /\ \E i \in 0..n : p[i] = pos - 1 /\ Match(h[i])
  \/ status \notin {"idle", "parsing"} /\ calls = <<>> /\ NeverMisread

RunAt(h, p, n) == IsRun(h, p, n, obj, serialize_type, text) /\ IsSeq(text, p[n]) /\ h[n] = calls
RInv == obj \in Objects /\ \E h, p : \E n \in Nat : RunAt(h, p, n) /\ ReaderAt(h, p, n)

LEMMA WriteKeeps ==
  ASSUME RInv, Write
  PROVE  RInv'
  <1>1. PICK h, p : \E n \in Nat : RunAt(h, p, n) /\ ReaderAt(h, p, n)
    BY DEF RInv
  <1>2. PICK n \in Nat : RunAt(h, p, n) /\ ReaderAt(h, p, n)
    BY <1>1
  <1>3. PICK m : m = Move(h[n], serialize_type)
    OBVIOUS
  <1>4. /\ h[n] # <<>> /\ text' = text \o m.out /\ calls' = m.calls /\ serialize_type' = serialize_type
        /\ obj' = obj /\ UNCHANGED vars /\ pos' = pos /\ calls # <<>>
    BY <1>2, <1>3, StepIsMove DEF Write, RunAt
  <1>5. PICK tx, tx2, x, typed : tx = text /\ tx2 = text' /\ x = obj /\ typed = serialize_type
    OBVIOUS
  <1>6. Ran(n + 1, x, typed, tx2, m.calls)
    <2>1. IsRun(h, p, n, x, typed, tx) /\ IsSeq(tx, p[n])
      BY <1>2, <1>5 DEF RunAt
    <2>2. h[n] # <<>> /\ m = Move(h[n], typed) /\ Continues(tx2, tx, m)
      BY <1>3, <1>4, <1>5 DEF Continues
    <2> QED BY <2>1, <2>2, RunGrows
  <1>7. PICK h2, p2 : IsRun(h2, p2, n + 1, x, typed, tx2) /\ IsSeq(tx2, p2[n + 1]) /\ h2[n + 1] = m.calls
    BY <1>6 DEF Ran
  <1>8. RunAt(h2, p2, n + 1)'
    BY <1>4, <1>5, <1>7 DEF RunAt
  <1>9. (status = "idle" /\ Unread) \/ status = "undefined"
    BY <1>2, <1>4 DEF ReaderAt
  <1>10. ReaderAt(h2, p2, n + 1)'
    BY <1>4, <1>9 DEF ReaderAt, Unread, vars
  <1>11. n + 1 \in Nat /\ obj' \in Objects
    BY <1>4 DEF RInv
  <1> QED BY <1>8, <1>10, <1>11 DEF RInv

LEMMA BeginKeeps ==
  ASSUME RInv, from_json
  PROVE  RInv'
  <1>1. PICK h, p : \E n \in Nat : RunAt(h, p, n) /\ ReaderAt(h, p, n)
    BY DEF RInv
  <1>2. PICK n \in Nat : RunAt(h, p, n) /\ ReaderAt(h, p, n)
    BY <1>1
  <1>3. /\ calls = <<>> /\ status = "idle" /\ parse /\ pos' = pos
        /\ calls' = calls /\ text' = text /\ serialize_type' = serialize_type /\ obj' = obj
    BY DEF from_json, peer, writing
  <1>4. RunAt(h, p, n)'
    BY <1>2, <1>3 DEF RunAt
  <1>5. Unread
    BY <1>2, <1>3 DEF ReaderAt
  <1>6. Unread' /\ status' = "parsing"
    <2>1. inst[1] = Fresh[RootType]
      BY <1>5, UnreadOK
    <2>2. /\ stack' = <<RootNode>> /\ inst' = <<inst[1]>> /\ active_key' = NoKey
          /\ status' = "parsing" /\ doc' = <<>> /\ nev' = 0 /\ nparse' = nparse + 1
      BY <1>3 DEF parse, EvBegin
    <2> QED BY <1>3, <1>5, <2>1, <2>2 DEF Unread
  <1>7. ReaderAt(h, p, n)'
    BY <1>3, <1>6 DEF ReaderAt
  <1>8. obj' \in Objects
    BY <1>3 DEF RInv
  <1> QED BY <1>4, <1>7, <1>8 DEF RInv

LEMMA CastKeeps ==
  ASSUME RInv, invalid_cast
  PROVE  RInv'
  <1>1. PICK h, p : \E n \in Nat : RunAt(h, p, n) /\ ReaderAt(h, p, n)
    BY DEF RInv
  <1>2. PICK n \in Nat : RunAt(h, p, n)
    BY <1>1
  <1>3. status' = "undefined" /\ calls' = calls /\ text' = text /\ serialize_type' = serialize_type /\ obj' = obj
    BY DEF invalid_cast, peer, writing
  <1>4. RunAt(h, p, n)'
    BY <1>2, <1>3 DEF RunAt
  <1>5. ReaderAt(h, p, n)'
    BY <1>3 DEF ReaderAt
  <1>6. obj' \in Objects
    BY <1>3 DEF RInv
  <1> QED BY <1>4, <1>5, <1>6 DEF RInv

\* A token that is handled takes the reader along the run, the last one leaves
\* the object that the run's end matches.
LEMMA ReadKeeps ==
  ASSUME RInv, Read
  PROVE  RInv'
  <1>1. PICK h, p : \E n \in Nat : RunAt(h, p, n) /\ ReaderAt(h, p, n)
    BY DEF RInv
  <1>2. PICK n \in Nat : RunAt(h, p, n) /\ ReaderAt(h, p, n)
    BY <1>1
  <1>3. status = "parsing"
    BY ReadsLast, Handled DEF ReadsOn
  <1>4. calls' = calls /\ text' = text /\ serialize_type' = serialize_type /\ obj' = obj
    BY ReadsLast, Handled DEF ReadsOn
  <1>5. RunAt(h, p, n)' /\ obj' \in Objects /\ obj \in Content[RootType]
    BY <1>2, <1>4, ContentAssumption DEF RunAt, RInv
  <1>6. /\ calls = <<>>
        /\ \/ Unread
           \/ pos \in Nat /\ pos > 1 /\ \E i \in 0..n : p[i] = pos - 1 /\ Match(h[i])
    BY <1>2, <1>3 DEF ReaderAt
  <1>7. PICK typed : typed = serialize_type
    OBVIOUS
  <1>8. IsRun(h, p, n, obj, typed, text) /\ IsSeq(text, p[n])
    BY <1>2, <1>7 DEF RunAt
  <1>9. CASE status' # "parsing"
    <2>1. status' \notin {"idle", "parsing"} /\ (status' = "ok" => doc = <<>> /\ nev > 0 /\ inst' = inst)
      BY <1>9, ReadsLast
    <2>2. ASSUME status' = "ok"
          PROVE  inst'[1] = Travelled[MaxDepth][RootType][obj']
      <3>1. ~Unread
        BY <2>1, <2>2 DEF Unread
      <3>2. PICK i \in 0..n : Match(h[i])
        BY <1>6, <3>1
      <3>3. inst[1] = Inside(0)[RootType][obj]
        BY <2>1, <2>2, <3>2 DEF Match
      <3>4. MaxDepth - 0 = MaxDepth
        BY BoundsAssumption
      <3> QED BY <1>4, <2>1, <2>2, <3>3, <3>4 DEF Inside
    <2>3. NeverMisread'
      BY <2>2 DEF NeverMisread
    <2>4. ReaderAt(h, p, n)'
      BY <1>4, <1>6, <2>1, <2>3 DEF ReaderAt
    <2> QED BY <1>5, <2>4 DEF RInv
  <1>10. CASE status' = "parsing"
    <2>1. pos' = pos + 1 /\ pos <= Len(text)
      BY <1>10, Handled DEF ReadsOn
    <2>2. ASSUME NEW i \in 0..n, p[i] = pos, Match(h[i])', pos \in Nat, pos > 0
          PROVE  RInv'
      <3>1. pos' \in Nat /\ pos' > 1 /\ p[i] = pos' - 1
        BY <2>1, <2>2
      <3>2. ReaderAt(h, p, n)'
        BY <1>4, <1>6, <1>10, <2>2, <3>1 DEF ReaderAt
      <3> QED BY <1>5, <3>2 DEF RInv
    <2>3. CASE Unread
      <3>1. h[0] = <<Object(RootType, obj, typed)>> /\ p[0] = 1 /\ text[1] = Mark(Brace) /\ 0 \in 0..n
        BY <1>8 DEF IsRun
      <3>2. PICK a : a = h[0]
        OBVIOUS
      <3>3. Match(a)'
        BY <1>5, <1>10, <2>3, <3>1, <3>2, ReadsFirst
      <3>4. pos = 1
        BY <2>3 DEF Unread
      <3> QED BY <2>2, <3>1, <3>2, <3>3, <3>4
    <2>4. CASE pos \in Nat /\ pos > 1 /\ \E i \in 0..n : p[i] = pos - 1 /\ Match(h[i])
      <3>1. PICK i \in 0..n : p[i] = pos - 1 /\ Match(h[i])
        BY <2>4
      <3>2. pos <= p[n]
        <4>1. Len(text) = p[n]
          BY <1>8, SeqOfContents
        <4> QED BY <2>1, <4>1
      <3>3. PICK e \in 0..(n - 1) : /\ Match(h[e]) /\ h[e] # <<>> /\ Move(h[e], typed).out = <<Cur>>
                                    /\ p[e + 1] = pos /\ h[e + 1] = Move(h[e], typed).calls
        <4>1. WriterFound(h, p, n, typed)
          BY <1>8, <2>4, <3>1, <3>2, Expects
        <4> QED BY <4>1 DEF WriterFound, Writer
      <3>4. PICK j \in 0..n : j = e + 1
        BY <3>3
      <3>5. PICK b : b = Move(h[e], typed).calls
        OBVIOUS
      <3>6. PICK a : a = h[e]
        OBVIOUS
      <3>7. Match(Move(a, typed).calls)'
        BY <1>10, <3>3, <3>6, ReadsNext
      <3>8. Match(h[j])' /\ p[j] = pos
        BY <3>3, <3>4, <3>6, <3>7
      <3> QED BY <2>2, <2>4, <3>8
    <2> QED BY <1>6, <2>3, <2>4
  <1> QED BY <1>9, <1>10

LEMMA RInvInvariant == RSpec => []RInv
  <1>1. RInit => RInv
    <2> SUFFICES ASSUME RInit
                 PROVE  RInv
      OBVIOUS
    <2>1. PICK h, p : h = [j \in 0..0 |-> calls] /\ p = [j \in 0..0 |-> 1]
      OBVIOUS
    <2>2. h[0] = calls /\ p[0] = 1 /\ 0..0 = {0} /\ 0..(0 - 1) = {}
      BY <2>1
    <2>3. calls = <<Object(RootType, obj, serialize_type)>> /\ text = <<Mark(Brace)>>
      BY Zenon DEF RInit, toBlock, Brace
    <2>4. IsSeq(text, 1) /\ text[1] = Mark(Brace)
      BY <2>3 DEF IsSeq
    <2>5. RunAt(h, p, 0)
      BY <2>2, <2>3, <2>4 DEF RunAt, IsRun
    <2>6. ReaderAt(h, p, 0)
      BY DEF RInit, Init, ReaderAt, Unread
    <2>7. obj \in Objects
      BY DEF RInit
    <2> QED BY <2>5, <2>6, <2>7 DEF RInv
  <1>2. RInv /\ [RNext]_allvars => RInv'
    <2> SUFFICES ASSUME RInv, [RNext]_allvars
                 PROVE  RInv'
      OBVIOUS
    <2>1. CASE RNext
      BY <2>1, WriteKeeps, CastKeeps, BeginKeeps, ReadKeeps DEF RNext
    <2>2. CASE UNCHANGED allvars
      <3>1. UNCHANGED vars /\ calls' = calls /\ text' = text /\ serialize_type' = serialize_type /\ obj' = obj /\ pos' = pos
        BY <2>2 DEF allvars, peer, writing
      <3>2. doc' = doc /\ nev' = nev /\ nparse' = nparse /\ status' = status /\ stack' = stack /\ inst' = inst /\ active_key' = active_key
        BY <3>1 DEF vars
      <3>3. PICK h, p : \E n \in Nat : RunAt(h, p, n) /\ ReaderAt(h, p, n)
        BY DEF RInv
      <3>4. PICK n \in Nat : RunAt(h, p, n) /\ ReaderAt(h, p, n)
        BY <3>3
      <3>5. RunAt(h, p, n)'
        BY <3>1, <3>4 DEF RunAt
      <3>6. NeverMisread => NeverMisread'
        BY <3>1, <3>2 DEF NeverMisread
      <3>7. Unread => Unread'
        BY <3>1, <3>2 DEF Unread
      <3>8. ASSUME NEW a, Match(a)
            PROVE  Match(a)'
        BY <3>1, <3>2, <3>8 DEF Match, DocOK, StackOK, Nested
      <3>9. ReaderAt(h, p, n)'
        BY <3>1, <3>2, <3>4, <3>6, <3>7, <3>8 DEF ReaderAt
      <3>10. obj' \in Objects
        BY <3>1 DEF RInv
      <3> QED BY <3>5, <3>9, <3>10 DEF RInv
    <2> QED BY <2>1, <2>2
  <1> QED BY <1>1, <1>2, PTL DEF RSpec

\* An object that travels is read back as what becomes of it on the way
\* (Travelled: escapes in texts and keys are read, decimals rounded, ...), or
\* refused: the reader takes no garbled text for any further object, whatever
\* the registrations of the classes, as long as both peers agree on them
\* (anserializer.h:341-353 against 588-988).
THEOREM ReadBackOrRefused == RSpec => []NeverMisread
  <1>1. RInv => NeverMisread
    BY DEF RInv, ReaderAt, NeverMisread
  <1> QED BY <1>1, RInvInvariant, PTL
====
