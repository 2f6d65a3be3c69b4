---- MODULE JservRegistryProofs ----
(***************************************************************************)
(* What the registering functions promise, whatever contexts there are and *)
(* however far each is with its registrations.  "Please register the base  *)
(* first" (json.h:89): a registered class reaches its base in its own      *)
(* context (RegInv).  Every id is registered once in a context and as its  *)
(* class says (SettledInv), from which follow what lookups answer, that it *)
(* stays so, and that getters answer what the ASTs declare.  A function    *)
(* registers its classes all at once (WholeInv), so that what a declared   *)
(* type id takes to be constructed is there when register_jserv is done.   *)
(***************************************************************************)
EXTENDS JservRegistry, SequenceTheorems, TLAPS

\* The ASTs of a table name bases among known; a batch of classes, among those
\* and its own.
BasesIn(astmap, known) ==
  \A id \in DOMAIN astmap : "base" \in DOMAIN astmap[id] /\ astmap[id].base \in known \cup {""}
Based(classes, known) ==
  \A i \in DOMAIN classes : classes[i].base \in known \cup Ids(classes) \cup {""}

\* What each of the functions finds of the bases it needs.
AstBases == {"IJsonable", "Anson", "Semantics", "SemanExpr", "AnsonAst"}
BasesDue(c) == /\ turn[c] > 2 => AstBases \subseteq DOMAIN asts[c]
               /\ turn[c] > 3 => "AnsonBody" \in DOMAIN asts[c]
               /\ turn[c] > 5 => "JavaEnum" \in aliases[c]
               /\ turn[c] > 6 => "AnsonResp" \in DOMAIN asts[c]
Shaped == turn \in [Ctx -> Nat] /\ DOMAIN asts = Ctx /\ DOMAIN aliases = Ctx
RegInv == Shaped /\ \A c \in Ctx : BasesDue(c) /\ BasesIn(asts[c], Known(c))

-----------------------------------------------------------------------------
(* What is registered in a table.                                          *)

\* Classes installed over a table bring their ids and keep its bases in reach.
LEMMA TableInstalled ==
  ASSUME NEW astmap, NEW other, NEW classes,
         BasesIn(astmap, DOMAIN astmap \cup other), Based(classes, DOMAIN astmap \cup other)
  PROVE  LET new == Replacing(astmap, AstsOf(classes))
         IN DOMAIN new = DOMAIN astmap \cup Ids(classes) /\ BasesIn(new, DOMAIN new \cup other)
  <1> DEFINE new == Replacing(astmap, AstsOf(classes))
  <1>1. /\ DOMAIN AstsOf(classes) = Ids(classes)
        /\ \A id \in Ids(classes) : AstsOf(classes)[id] = AstOf(LastOf(classes, id))
    BY DEF AstsOf
  <1>2. /\ DOMAIN new = DOMAIN astmap \cup Ids(classes)
        /\ \A id \in DOMAIN new :
             new[id] = IF id \in Ids(classes) THEN AstOf(LastOf(classes, id)) ELSE astmap[id]
    BY <1>1 DEF Replacing
  <1>3. ASSUME NEW id \in Ids(classes)
        PROVE  \E i \in DOMAIN classes : LastOf(classes, id) = classes[i]
    BY DEF Ids, LastOf
  <1>4. ASSUME NEW class
        PROVE  "base" \in DOMAIN AstOf(class) /\ AstOf(class).base = class.base
    BY DEF AstOf
  <1> HIDE DEF new
  <1>5. ASSUME NEW id \in DOMAIN new
        PROVE  "base" \in DOMAIN new[id] /\ new[id].base \in DOMAIN new \cup other \cup {""}
    <2>1. CASE id \in Ids(classes)
      <3>1. PICK i \in DOMAIN classes : LastOf(classes, id) = classes[i]
        BY <1>3, <2>1
      <3> QED
        BY <1>2, <1>4, <2>1, <3>1 DEF Based
    <2>2. CASE id \notin Ids(classes)
      BY <1>2, <2>2 DEF BasesIn
    <2> QED
      BY <2>1, <2>2
  <1> QED
    BY <1>2, <1>5 DEF BasesIn, new

\* Reading a text changes the fields of one AST and no base.
LEMMA TextRead ==
  ASSUME NEW astmap, NEW known, BasesIn(astmap, known)
  PROVE  DOMAIN ReadText(astmap) = DOMAIN astmap /\ BasesIn(ReadText(astmap), known)
  <1>1. DOMAIN ReadText(astmap) = DOMAIN astmap
    BY DEF ReadText
  <1>2. ASSUME NEW id \in DOMAIN astmap
        PROVE  /\ "base" \in DOMAIN ReadText(astmap)[id]
               /\ ReadText(astmap)[id].base = astmap[id].base
    <2>1. "base" \in DOMAIN astmap[id]
      BY DEF BasesIn
    <2>2. CASE id = "AnsonBodyAst"
      BY <2>1, <2>2 DEF ReadText
    <2>3. CASE id # "AnsonBodyAst"
      BY <2>1, <2>3 DEF ReadText
    <2> QED
      BY <2>2, <2>3
  <1> QED
    BY <1>1, <1>2 DEF BasesIn

-----------------------------------------------------------------------------
(* The classes: their ids and the bases they name.                         *)

\* A class of this id that names this base.
Names(class, id, base) ==
  {"id", "base"} \subseteq DOMAIN class /\ class.id = id /\ class.base = base

\* The constructors of classes keep the id and the base they are given.
LEMMA ClassMade ==
  ASSUME NEW id, NEW base, NEW fields
  PROVE  /\ Names(Class(id, base, fields), id, base)
         /\ Names(ReadOnly(Class(id, base, fields)), id, base)
         /\ Names(Body(id, base, fields), id, base)
         /\ Names(ReadOnly(Body(id, base, fields)), id, base)
  <1>1. Names(Class(id, base, fields), id, base)
    BY DEF Class, Names
  <1>2. Names(Body(id, base, fields), id, base)
    BY <1>1 DEF Body, Names
  <1>3. ASSUME NEW class, Names(class, id, base)
        PROVE  Names(ReadOnly(class), id, base)
    BY <1>3 DEF ReadOnly, Names
  <1> QED
    BY <1>1, <1>2, <1>3

\* So do the changes the code makes to one of its three tables.
LEMMA ClassAmended ==
  ASSUME NEW class, NEW id, NEW base, Names(class, id, base), NEW x, NEW y, NEW z, NEW k, NEW l
  PROVE  /\ Names([class EXCEPT !.data = x], id, base)
         /\ Names([class EXCEPT !.data = x, !.answers = y], id, base)
         /\ Names([class EXCEPT !.entt_base = x], id, base)
         /\ Names([class EXCEPT !.entt_base = x, !.data[k] = y, !.data[l] = z], id, base)
         /\ Names([class EXCEPT !.data[k] = x], id, base)
         /\ Names([class EXCEPT !.data[k] = x, !.data[l] = y], id, base)
  BY DEF Names

LEMMA AstClassNames ==
  /\ Names(IJsonable, "IJsonable", "")
  /\ Names(AnsonField, "AnsonField", "")
  /\ Names(Anson, "Anson", "IJsonable")
  /\ Names(Semantics, "Semantics", "Anson")
  /\ Names(SemanExpr, "SemanExpr", "Semantics")
  /\ Names(AnCtor, "AnCtor", "SemanExpr")
  /\ Names(AnsonAst, "AnsonAst", "Anson")
  /\ Names(AnsonJavaEnumAst, "AnsonJavaEnumAst", "AnsonAst")
  /\ Names(AnsonBodyAst, "AnsonBodyAst", "AnsonAst")
  /\ Names(AnsonMsgAst, "AnsonMsgAst", "AnsonAst")
  <1>1. Names(IJsonable, "IJsonable", "")
    BY ClassMade, ClassAmended, Zenon DEF IJsonable
  <1>2. Names(AnsonField, "AnsonField", "")
    BY ClassMade, Zenon DEF AnsonField
  <1>3. Names(Anson, "Anson", "IJsonable")
    BY ClassMade, ClassAmended, Zenon DEF Anson
  <1>4. Names(Semantics, "Semantics", "Anson")
    BY ClassMade, Zenon DEF Semantics
  <1>5. Names(SemanExpr, "SemanExpr", "Semantics")
    BY ClassMade, ClassAmended, Zenon DEF SemanExpr
  <1>6. Names(AnCtor, "AnCtor", "SemanExpr")
    BY ClassMade, ClassAmended, Zenon DEF AnCtor
  <1>7. Names(AnsonAst, "AnsonAst", "Anson")
    BY ClassMade, ClassAmended, Zenon DEF AnsonAst, AnsonAstOf
  <1>8. Names(AnsonJavaEnumAst, "AnsonJavaEnumAst", "AnsonAst")
    BY ClassMade, Zenon DEF AnsonJavaEnumAst
  <1>9. Names(AnsonBodyAst, "AnsonBodyAst", "AnsonAst")
    BY ClassMade, ClassAmended, Zenon DEF AnsonBodyAst
  <1>10. Names(AnsonMsgAst, "AnsonMsgAst", "AnsonAst")
    BY ClassMade, Zenon DEF AnsonMsgAst
  <1> QED
    BY <1>1, <1>2, <1>3, <1>4, <1>5, <1>6, <1>7, <1>8, <1>9, <1>10

LEMMA MessageClassNames ==
  /\ Names(SemanticObject, "SemanticObject", "Anson")
  /\ Names(AnResultset, "AnResultset", "Anson")
  /\ Names(SessionInf, "SessionInf", "Anson")
  /\ Names(AnsonHeader, "AnsonHeader", "Anson")
  /\ Names(AnsonBody, "AnsonBody", "Anson")
  <1>1. Names(SemanticObject, "SemanticObject", "Anson")
    BY ClassMade, ClassAmended, Zenon DEF SemanticObject
  <1>2. Names(AnResultset, "AnResultset", "Anson")
    BY ClassMade, Zenon DEF AnResultset
  <1>3. Names(SessionInf, "SessionInf", "Anson")
    BY ClassMade, Zenon DEF SessionInf
  <1>4. Names(AnsonHeader, "AnsonHeader", "Anson")
    BY ClassMade, Zenon DEF AnsonHeader
  <1>5. Names(AnsonBody, "AnsonBody", "Anson")
    BY ClassMade, Zenon DEF AnsonBody
  <1> QED
    BY <1>1, <1>2, <1>3, <1>4, <1>5

LEMMA BodyClassNames ==
  /\ Names(AnsonResp, "AnsonResp", "AnsonBody")
  /\ Names(AnQueryReq, "AnQueryReq", "AnsonBody")
  /\ Names(AnUpdateReq, "AnUpdateReq", "AnsonBody")
  /\ Names(AnInsertReq, "AnInsertReq", "AnUpdateReq")
  /\ Names(UserReq, "UserReq", "AnsonBody")
  /\ Names(EchoReq, "EchoReq", "AnsonBody")
  /\ Names(HeartBeat, "HeartBeat", "AnsonBody")
  /\ Names(AnSessionReq, "AnSessionReq", "AnsonBody")
  /\ Names(AnSessionResp, "AnSessionResp", "AnsonResp")
  <1>1. Names(AnsonResp, "AnsonResp", "AnsonBody")
    BY ClassMade, ClassAmended, Zenon DEF AnsonResp
  <1>2. Names(AnQueryReq, "AnQueryReq", "AnsonBody")
    BY ClassMade, Zenon DEF AnQueryReq
  <1>3. Names(AnUpdateReq, "AnUpdateReq", "AnsonBody")
    BY ClassMade, ClassAmended, Zenon DEF AnUpdateReq
  <1>4. Names(AnInsertReq, "AnInsertReq", "AnUpdateReq")
    BY ClassMade, Zenon DEF AnInsertReq
  <1>5. Names(UserReq, "UserReq", "AnsonBody") /\ Names(EchoReq, "EchoReq", "AnsonBody")
    BY ClassMade, Zenon DEF UserReq, EchoReq
  <1>6. Names(HeartBeat, "HeartBeat", "AnsonBody") /\ Names(AnSessionReq, "AnSessionReq", "AnsonBody")
    BY ClassMade, Zenon DEF HeartBeat, AnSessionReq
  <1>7. Names(AnSessionResp, "AnSessionResp", "AnsonResp")
    BY ClassMade, Zenon DEF AnSessionResp
  <1> QED
    BY <1>1, <1>2, <1>3, <1>4, <1>5, <1>6, <1>7

LEMMA OtherClassNames ==
  /\ Names(MsgCode, "MsgCode", "") /\ Names(Port, "Port", "JavaEnum")
  /\ Names(PeerSettings, "PeerSettings", "Anson") /\ Names(LangString, "LangString", "Anson")
  BY ClassMade, Zenon DEF MsgCode, Port, PeerSettings, LangString

\* A body and its message: the message's base is Anson.
LEMMA BodyAndMessage ==
  ASSUME NEW body, NEW id, NEW base, Names(body, id, base)
  PROVE  /\ body_specialize_msg(body) = <<body, specialize_req(id)>>
         /\ Names(specialize_req(id), MsgOf(id), "Anson")
  <1>1. Names(specialize_req(id), MsgOf(id), "Anson")
    BY ClassMade, Zenon DEF specialize_req
  <1> QED
    BY <1>1 DEF body_specialize_msg, Names

\* The bases a batch of classes names, and the ids it is sure to bring.
AstIds == {"IJsonable", "AnsonField", "Anson", "Semantics", "SemanExpr", "AnCtor", "AnsonAst",
           "AnsonJavaEnumAst", "AnsonBodyAst", "AnsonMsgAst"}
MessageIds == {"SemanticObject", "AnResultset", "SessionInf", "AnsonHeader", "AnsonBody"}
WithMessages(bodies) == bodies \cup {MsgOf(T) : T \in bodies}
Batch(classes, bases, ids) ==
  /\ \A i \in DOMAIN classes : classes[i].base \in bases
  /\ ids \subseteq Ids(classes)

LEMMA BatchBased ==
  ASSUME NEW classes, NEW bases, NEW ids, NEW known, Batch(classes, bases, ids),
         bases \subseteq known \cup ids \cup {""}
  PROVE  Based(classes, known)
  BY DEF Batch, Based

LEMMA SingleBatch ==
  ASSUME NEW class, NEW id, NEW base, Names(class, id, base)
  PROVE  Batch(<<class>>, {base}, {id})
  BY DEF Batch, Names, Ids

LEMMA MessageBatch ==
  ASSUME NEW body, NEW id, NEW base, Names(body, id, base)
  PROVE  Batch(body_specialize_msg(body), {base, "Anson"}, WithMessages({id}))
  <1> DEFINE msg == specialize_req(id)
  <1>1. body_specialize_msg(body) = <<body, msg>> /\ msg.base = "Anson" /\ msg.id = MsgOf(id)
    BY BodyAndMessage DEF Names
  <1> HIDE DEF msg
  <1> QED
    BY <1>1 DEF Batch, Names, Ids, WithMessages

\* register_asts brings every base its classes name.
LEMMA AstsBatch ==
  Batch(classes_of_register_asts, AstBases \cup {""}, AstIds) /\ AstBases \subseteq AstIds
  <1> DEFINE cs == classes_of_register_asts
  <1>1. /\ DOMAIN cs = 1..10
        /\ cs[1] = IJsonable /\ cs[2] = AnsonField /\ cs[3] = Anson /\ cs[4] = Semantics
        /\ cs[5] = SemanExpr /\ cs[6] = AnCtor /\ cs[7] = AnsonAst
        /\ cs[8] = AnsonJavaEnumAst /\ cs[9] = AnsonBodyAst /\ cs[10] = AnsonMsgAst
    BY DEF classes_of_register_asts
  <1> HIDE DEF cs
  <1>2. ASSUME NEW i \in DOMAIN cs
        PROVE  cs[i].base \in AstBases \cup {""}
    <2>1. /\ cs[1].base = "" /\ cs[2].base = "" /\ cs[3].base = "IJsonable"
          /\ cs[4].base = "Anson" /\ cs[5].base = "Semantics" /\ cs[6].base = "SemanExpr"
          /\ cs[7].base = "Anson" /\ cs[8].base = "AnsonAst" /\ cs[9].base = "AnsonAst"
          /\ cs[10].base = "AnsonAst"
      BY <1>1, AstClassNames, Zenon DEF Names
    <2>2. \/ i = 1 \/ i = 2 \/ i = 3 \/ i = 4 \/ i = 5
          \/ i = 6 \/ i = 7 \/ i = 8 \/ i = 9 \/ i = 10
      BY <1>1
    <2> QED
      BY <2>1, <2>2, Zenon DEF AstBases
  <1>3. ASSUME NEW id \in AstIds
        PROVE  \E i \in DOMAIN cs : cs[i].id = id
    <2>1. /\ cs[1].id = "IJsonable" /\ cs[2].id = "AnsonField" /\ cs[3].id = "Anson"
          /\ cs[4].id = "Semantics" /\ cs[5].id = "SemanExpr" /\ cs[6].id = "AnCtor"
          /\ cs[7].id = "AnsonAst" /\ cs[8].id = "AnsonJavaEnumAst" /\ cs[9].id = "AnsonBodyAst"
          /\ cs[10].id = "AnsonMsgAst"
      BY <1>1, AstClassNames, Zenon DEF Names
    <2>2. {1, 2, 3, 4, 5, 6, 7, 8, 9, 10} \subseteq DOMAIN cs
      BY <1>1
    <2> QED
      BY <2>1, <2>2, Zenon DEF AstIds
  <1>4. AstIds \subseteq Ids(cs) /\ AstBases \subseteq AstIds
    BY <1>3 DEF Ids, AstIds, AstBases
  <1> QED
    BY <1>2, <1>4 DEF Batch, cs

LEMMA MessagesBatch == Batch(classes_of_register_msgs, {"Anson"}, MessageIds)
  <1> DEFINE cs == classes_of_register_msgs
  <1>1. /\ DOMAIN cs = 1..5
        /\ cs[1] = SemanticObject /\ cs[2] = AnResultset /\ cs[3] = SessionInf
        /\ cs[4] = AnsonHeader /\ cs[5] = AnsonBody
    BY DEF classes_of_register_msgs
  <1> HIDE DEF cs
  <1>2. \A i \in DOMAIN cs : cs[i].base = "Anson"
    BY <1>1, MessageClassNames DEF Names
  <1>3. MessageIds \subseteq Ids(cs)
    BY <1>1, MessageClassNames DEF Names, Ids, MessageIds
  <1> QED
    BY <1>2, <1>3 DEF Batch, cs

LEMMA RespBatch ==
  Batch(classes_of_specialize_respmsg, {"AnsonBody", "Anson"}, WithMessages({"AnsonResp"}))
  <1>1. Batch(body_specialize_msg(AnsonResp), {"AnsonBody", "Anson"}, WithMessages({"AnsonResp"}))
    BY BodyClassNames, MessageBatch
  <1>2. classes_of_specialize_respmsg = body_specialize_msg(AnsonResp)
    BY BodyClassNames, BodyAndMessage, Zenon DEF classes_of_specialize_respmsg
  <1> QED
    BY <1>1, <1>2

\* One batch after another.
Joins(both, one, two) ==
  /\ \A i \in DOMAIN both : \/ \E j \in DOMAIN one : both[i] = one[j]
                           \/ \E j \in DOMAIN two : both[i] = two[j]
  /\ \A j \in DOMAIN one : \E i \in DOMAIN both : both[i] = one[j]
  /\ \A j \in DOMAIN two : \E i \in DOMAIN both : both[i] = two[j]

LEMMA ConcatJoins ==
  ASSUME NEW S, NEW one \in Seq(S), NEW two \in Seq(S)
  PROVE  one \o two \in Seq(S) /\ Joins(one \o two, one, two)
  <1> DEFINE both == one \o two
  <1>1. /\ both \in Seq(S) /\ Len(both) = Len(one) + Len(two)
        /\ Len(one) \in Nat /\ Len(two) \in Nat
        /\ DOMAIN one = 1..Len(one) /\ DOMAIN two = 1..Len(two) /\ DOMAIN both = 1..Len(both)
        /\ \A i \in 1..Len(both) :
             both[i] = IF i <= Len(one) THEN one[i] ELSE two[i - Len(one)]
    BY ConcatProperties, LenProperties
  <1> HIDE DEF both
  <1>2. ASSUME NEW i \in DOMAIN both
        PROVE  \/ \E j \in DOMAIN one : both[i] = one[j]
               \/ \E j \in DOMAIN two : both[i] = two[j]
    <2>1. CASE i <= Len(one)
      BY <1>1, <2>1
    <2>2. CASE ~(i <= Len(one))
      <3>1. i - Len(one) \in 1..Len(two) /\ both[i] = two[i - Len(one)]
        BY <1>1, <2>2
      <3> QED
        BY <1>1, <3>1
    <2> QED
      BY <2>1, <2>2
  <1>3. \A j \in DOMAIN one : \E i \in DOMAIN both : both[i] = one[j]
    BY <1>1
  <1>4. ASSUME NEW j \in DOMAIN two
        PROVE  \E i \in DOMAIN both : both[i] = two[j]
    <2>1. Len(one) + j \in DOMAIN both /\ both[Len(one) + j] = two[j]
      BY <1>1
    <2> QED
      BY <2>1
  <1>5. Joins(both, one, two)
    BY <1>2, <1>3, <1>4 DEF Joins
  <1> QED
    BY <1>1, <1>5 DEF both

LEMMA JoinedBatch ==
  ASSUME NEW both, NEW one, NEW two, Joins(both, one, two), NEW bases, NEW ids1, NEW ids2,
         Batch(one, bases, ids1), Batch(two, bases, ids2)
  PROVE  Batch(both, bases, ids1 \cup ids2)
  <1>1. ASSUME NEW id \in Ids(one) \cup Ids(two)
        PROVE  id \in Ids(both)
    <2>1. \/ \E j \in DOMAIN one : id = one[j].id
          \/ \E j \in DOMAIN two : id = two[j].id
      BY DEF Ids
    <2>2. \E i \in DOMAIN both : id = both[i].id
      BY <2>1 DEF Joins
    <2> QED
      BY <2>2 DEF Ids
  <1>2. \A i \in DOMAIN both : both[i].base \in bases
    BY DEF Batch, Joins
  <1> QED
    BY <1>1, <1>2 DEF Batch

LEMMA BatchesConcat ==
  ASSUME NEW S, NEW one \in Seq(S), NEW two \in Seq(S), NEW bases, NEW ids1, NEW ids2,
         Batch(one, bases, ids1), Batch(two, bases, ids2)
  PROVE  one \o two \in Seq(S) /\ Batch(one \o two, bases, ids1 \cup ids2)
  BY ConcatJoins, JoinedBatch

\* AnUpdateReq, the base of AnInsertReq, comes with it.
LEMMA CrudBatch ==
  Batch(classes_of_setup_jserv_crud, {"AnsonBody", "Anson", "AnUpdateReq"},
        WithMessages({"AnQueryReq", "AnUpdateReq", "AnInsertReq"}))
  <1> DEFINE bases == {"AnsonBody", "Anson", "AnUpdateReq"}
  <1>1. PICK q, u, i : /\ q = body_specialize_msg(AnQueryReq) /\ u = body_specialize_msg(AnUpdateReq)
                       /\ i = body_specialize_msg(AnInsertReq)
    OBVIOUS
  <1> DEFINE S == {q[1], q[2], u[1], u[2], i[1], i[2]}
  <1>2. q \in Seq(S) /\ u \in Seq(S) /\ i \in Seq(S)
    BY <1>1 DEF body_specialize_msg
  <1> HIDE DEF S
  <1>3. /\ Batch(q, {"AnsonBody", "Anson"}, WithMessages({"AnQueryReq"}))
        /\ Batch(u, {"AnsonBody", "Anson"}, WithMessages({"AnUpdateReq"}))
        /\ Batch(i, {"AnUpdateReq", "Anson"}, WithMessages({"AnInsertReq"}))
    BY <1>1, BodyClassNames, MessageBatch
  <1>4. /\ Batch(q, bases, WithMessages({"AnQueryReq"})) /\ Batch(u, bases, WithMessages({"AnUpdateReq"}))
        /\ Batch(i, bases, WithMessages({"AnInsertReq"}))
    BY <1>3 DEF Batch
  <1> HIDE DEF bases
  <1>5. q \o u \in Seq(S) /\ Batch(q \o u, bases, WithMessages({"AnQueryReq"}) \cup WithMessages({"AnUpdateReq"}))
    BY <1>2, <1>4, BatchesConcat
  <1>6. Batch((q \o u) \o i, bases, (WithMessages({"AnQueryReq"}) \cup WithMessages({"AnUpdateReq"}))
                                        \cup WithMessages({"AnInsertReq"}))
    BY <1>2, <1>4, <1>5, BatchesConcat
  <1>7. classes_of_setup_jserv_crud = (q \o u) \o i
    BY <1>1, Zenon DEF classes_of_setup_jserv_crud
  <1>8. (WithMessages({"AnQueryReq"}) \cup WithMessages({"AnUpdateReq"})) \cup WithMessages({"AnInsertReq"})
          = WithMessages({"AnQueryReq", "AnUpdateReq", "AnInsertReq"})
    BY DEF WithMessages
  <1> QED
    BY <1>6, <1>7, <1>8 DEF bases

-----------------------------------------------------------------------------
(* The steps.                                                              *)

\* The place of each function in the order.
LEMMA TurnOf ==
  ASSUME NEW c \in Ctx
  PROVE  /\ Turn(c, "varctors") => turn[c] = 1
         /\ Turn(c, "asts") => turn[c] = 2
         /\ Turn(c, "msgs") => turn[c] = 3
         /\ Turn(c, "enums") => turn[c] = 4
         /\ Turn(c, "port") => turn[c] = 5
         /\ Turn(c, "respmsg") => turn[c] = 6
         /\ Turn(c, "crud") => turn[c] = 7
         /\ Turn(c, "usereq") => turn[c] = 8
         /\ Turn(c, "echo") => turn[c] = 9
         /\ Turn(c, "peersettings") => turn[c] = 10
         /\ Turn(c, "heartbeat") => turn[c] = 11
         /\ Turn(c, "sessionreq") => turn[c] = 12
         /\ Turn(c, "sessionresp") => turn[c] = 13
  <1>1. turn[c] \in DOMAIN script =>
          \/ turn[c] = 1 \/ turn[c] = 2 \/ turn[c] = 3 \/ turn[c] = 4 \/ turn[c] = 5
          \/ turn[c] = 6 \/ turn[c] = 7 \/ turn[c] = 8 \/ turn[c] = 9 \/ turn[c] = 10
          \/ turn[c] = 11 \/ turn[c] = 12 \/ turn[c] = 13
    BY DEF script
  <1>2. /\ script[1] = "varctors" /\ script[2] = "asts" /\ script[3] = "msgs" /\ script[4] = "enums"
        /\ script[5] = "port" /\ script[6] = "respmsg" /\ script[7] = "crud" /\ script[8] = "usereq"
        /\ script[9] = "echo" /\ script[10] = "peersettings" /\ script[11] = "heartbeat"
        /\ script[12] = "sessionreq" /\ script[13] = "sessionresp"
    BY DEF script
  <1> QED
    BY <1>1, <1>2 DEF Turn

\* What a step does to the tables of the contexts: none loses an id or an
\* alias, every base stays in reach, and c has these ids.
Brings(c, ids) ==
  /\ DOMAIN asts' = Ctx /\ DOMAIN aliases' = Ctx
  /\ \A d \in Ctx : /\ BasesIn(asts'[d], DOMAIN asts'[d] \cup aliases'[d])
                    /\ DOMAIN asts[d] \subseteq DOMAIN asts'[d]
                    /\ aliases[d] \subseteq aliases'[d]
  /\ ids \subseteq DOMAIN asts'[c]

LEMMA Installed ==
  ASSUME NEW c \in Ctx, NEW classes, NEW bases, NEW ids, NEW read, RegInv,
         DOMAIN read = DOMAIN asts[c], BasesIn(read, Known(c)),
         asts' = [asts EXCEPT ![c] = Replacing(read, AstsOf(classes))],
         DOMAIN aliases' = Ctx, aliases[c] \subseteq aliases'[c],
         \A d \in Ctx \ {c} : aliases'[d] = aliases[d],
         Batch(classes, bases, ids), bases \subseteq DOMAIN asts[c] \cup aliases'[c] \cup ids \cup {""}
  PROVE  Brings(c, ids)
  <1> DEFINE new == Replacing(read, AstsOf(classes))
  <1>1. Based(classes, DOMAIN read \cup aliases'[c])
    BY BatchBased
  <1>2. BasesIn(read, DOMAIN read \cup aliases'[c])
    BY DEF BasesIn, Known
  <1>3. DOMAIN new = DOMAIN read \cup Ids(classes) /\ BasesIn(new, DOMAIN new \cup aliases'[c])
    BY <1>1, <1>2, TableInstalled
  <1> HIDE DEF new
  <1>4. DOMAIN asts' = Ctx /\ asts'[c] = new /\ \A d \in Ctx \ {c} : asts'[d] = asts[d]
    BY DEF RegInv, Shaped, new
  <1>5. ids \subseteq Ids(classes)
    BY DEF Batch
  <1>6. ASSUME NEW d \in Ctx
        PROVE  /\ BasesIn(asts'[d], DOMAIN asts'[d] \cup aliases'[d])
               /\ DOMAIN asts[d] \subseteq DOMAIN asts'[d]
               /\ aliases[d] \subseteq aliases'[d]
    <2>1. CASE d = c
      BY <1>3, <1>4, <2>1
    <2>2. CASE d # c
      BY <1>4, <2>2 DEF RegInv, Known
    <2> QED
      BY <2>1, <2>2
  <1> QED
    BY <1>3, <1>4, <1>5, <1>6 DEF Brings

DueBrought(c, ids) == /\ turn[c] = 2 => AstBases \subseteq ids
                      /\ turn[c] = 3 => "AnsonBody" \in ids
                      /\ turn[c] = 5 => "JavaEnum" \in aliases'[c]
                      /\ turn[c] = 6 => "AnsonResp" \in ids

\* A function that brings what those after it find keeps the invariant.
LEMMA Advanced ==
  ASSUME NEW c \in Ctx, NEW ids, NEW n \in Nat, RegInv, Brings(c, ids),
         turn' = [turn EXCEPT ![c] = n], n > turn[c] + 1 => turn[c] > 6,
         DueBrought(c, ids)
  PROVE  RegInv'
  <1>1. /\ turn' \in [Ctx -> Nat] /\ turn'[c] = n /\ turn[c] \in Nat
        /\ \A d \in Ctx \ {c} : turn'[d] = turn[d]
    BY DEF RegInv, Shaped
  <1>2. Shaped'
    BY <1>1 DEF Shaped, Brings
  <1>3. \A d \in Ctx : BasesIn(asts[d], Known(d))'
    BY DEF Brings, Known
  <1>4. ASSUME NEW d \in Ctx
        PROVE  BasesDue(d)'
    <2>1. /\ BasesDue(d)
          /\ DOMAIN asts[d] \subseteq DOMAIN asts'[d] /\ aliases[d] \subseteq aliases'[d]
          /\ ids \subseteq DOMAIN asts'[c]
      BY DEF RegInv, Brings
    <2>2. CASE d # c
      BY <1>1, <2>1, <2>2 DEF BasesDue
    <2>3. CASE d = c
      BY <1>1, <2>1, <2>3 DEF BasesDue, DueBrought
    <2> QED
      BY <2>2, <2>3
  <1> QED
    BY <1>2, <1>3, <1>4 DEF RegInv

LEMMA InstallBrings ==
  ASSUME NEW c \in Ctx, NEW classes, NEW bases, NEW ids, RegInv,
         Install(c, classes) \/ Load(c, classes),
         Batch(classes, bases, ids), bases \subseteq DOMAIN asts[c] \cup aliases[c] \cup ids \cup {""}
  PROVE  Brings(c, ids)
  <1>1. DOMAIN asts = Ctx /\ DOMAIN aliases = Ctx /\ BasesIn(asts[c], Known(c))
    BY DEF RegInv, Shaped
  <1>2. PICK read \in {asts[c], ReadText(asts[c])} :
          asts' = [asts EXCEPT ![c] = Replacing(read, AstsOf(classes))]
    BY DEF Install, InstallAsts, Load
  <1>3. DOMAIN read = DOMAIN asts[c] /\ BasesIn(read, Known(c))
    BY <1>1, <1>2, TextRead
  <1>4. aliases' = aliases
    BY DEF Install, Load
  <1> QED
    BY <1>1, <1>2, <1>3, <1>4, Installed

LEMMA NothingBrought ==
  ASSUME NEW c \in Ctx, RegInv, UNCHANGED <<asts, aliases>>
  PROVE  Brings(c, {})
  BY DEF Brings, RegInv, Shaped, Known

\* The function is the next one of its context and brings what is due.
LEMMA TurnTaken ==
  ASSUME NEW c \in Ctx, NEW step, NEW ids, RegInv, Turn(c, step), Brings(c, ids),
         DueBrought(c, ids)
  PROVE  RegInv'
  <1>1. turn[c] \in Nat /\ turn' = [turn EXCEPT ![c] = turn[c] + 1]
    BY DEF RegInv, Shaped, Turn
  <1>2. PICK n \in Nat : n = turn[c] + 1
    BY <1>1
  <1>3. turn' = [turn EXCEPT ![c] = n] /\ (n > turn[c] + 1 => turn[c] > 6)
    BY <1>1, <1>2
  <1> QED
    BY <1>3, Advanced

LEMMA FirstFunctions ==
  ASSUME NEW c \in Ctx, RegInv,
         \/ register_varctors(c) \/ register_asts(c) \/ register_msgs(c)
         \/ register_enums(c) \/ register_port(c) \/ specialize_respmsg(c)
  PROVE  RegInv'
  <1>1. /\ turn[c] \in Nat /\ BasesDue(c)
        /\ DOMAIN asts = Ctx /\ DOMAIN aliases = Ctx /\ BasesIn(asts[c], Known(c))
    BY DEF RegInv, Shaped
  <1>2. CASE register_varctors(c)
    <2>1. Turn(c, "varctors") /\ turn[c] = 1 /\ Brings(c, {})
      BY <1>2, TurnOf, NothingBrought DEF register_varctors
    <2> QED
      BY <2>1, TurnTaken DEF DueBrought
  <1>3. CASE register_asts(c)
    <2>1. Turn(c, "asts") /\ turn[c] = 2 /\ Install(c, classes_of_register_asts)
      BY <1>3, TurnOf DEF register_asts
    <2>2. AstBases \subseteq AstIds
      BY AstsBatch
    <2>3. Brings(c, AstIds)
      BY <2>1, <2>2, AstsBatch, InstallBrings
    <2>4. DueBrought(c, AstIds)
      BY <2>1, <2>2 DEF DueBrought
    <2> QED
      BY <2>1, <2>3, <2>4, TurnTaken
  <1>4. CASE register_msgs(c)
    <2>1. Turn(c, "msgs") /\ turn[c] = 3 /\ Install(c, classes_of_register_msgs)
      BY <1>4, TurnOf DEF register_msgs
    <2>2. "Anson" \in DOMAIN asts[c]
      BY <1>1, <2>1 DEF BasesDue, AstBases
    <2>3. Brings(c, MessageIds)
      BY <2>1, <2>2, MessagesBatch, InstallBrings
    <2> QED
      BY <2>1, <2>3, TurnTaken DEF DueBrought, MessageIds
  <1>5. CASE register_enums(c)
    <2>1. /\ Turn(c, "enums") /\ turn[c] = 4 /\ aliases' = aliases
          /\ asts' = [asts EXCEPT ![c] = Replacing(asts[c], AstsOf(<<MsgCode>>))]
      BY <1>5, TurnOf DEF register_enums, InstallAsts
    <2>2. Batch(<<MsgCode>>, {""}, {"MsgCode"})
      BY OtherClassNames, SingleBatch
    <2>3. Brings(c, {"MsgCode"})
      BY <1>1, <2>1, <2>2, Installed
    <2> QED
      BY <2>1, <2>3, TurnTaken DEF DueBrought
  <1>6. CASE register_port(c)
    <2>1. /\ Turn(c, "port") /\ turn[c] = 5
          /\ asts' = [asts EXCEPT ![c] = Replacing(asts[c], AstsOf(<<Port>>))]
          /\ aliases' = [aliases EXCEPT ![c] = @ \cup {"JavaEnum"}]
      BY <1>6, TurnOf DEF register_port, InstallAsts
    <2>2. Batch(<<Port>>, {"JavaEnum"}, {"Port"})
      BY OtherClassNames, SingleBatch
    <2>3. /\ DOMAIN aliases' = Ctx /\ aliases'[c] = aliases[c] \cup {"JavaEnum"}
          /\ \A d \in Ctx \ {c} : aliases'[d] = aliases[d]
      BY <1>1, <2>1
    <2>4. Brings(c, {"Port"})
      BY <1>1, <2>1, <2>2, <2>3, Installed
    <2> QED
      BY <2>1, <2>3, <2>4, TurnTaken DEF DueBrought
  <1>7. CASE specialize_respmsg(c)
    <2>1. Turn(c, "respmsg") /\ turn[c] = 6 /\ Install(c, classes_of_specialize_respmsg)
      BY <1>7, TurnOf DEF specialize_respmsg
    <2>2. {"Anson", "AnsonBody"} \subseteq DOMAIN asts[c]
      BY <1>1, <2>1 DEF BasesDue, AstBases
    <2>3. Brings(c, WithMessages({"AnsonResp"}))
      BY <2>1, <2>2, RespBatch, InstallBrings
    <2> QED
      BY <2>1, <2>3, TurnTaken DEF DueBrought, WithMessages
  <1> QED
    BY <1>2, <1>3, <1>4, <1>5, <1>6, <1>7

\* Past specialize_respmsg everything due has come.
LEMMA LaterFunctions ==
  ASSUME NEW c \in Ctx, RegInv,
         \/ setup_jserv_crud(c) \/ load_usereqAst_ext(c) \/ load_echoAst_ext(c)
         \/ register_peersettings(c) \/ load_heartbeatAst(c) \/ load_ansessionreqAst(c)
         \/ load_ansessionrespAst(c)
  PROVE  RegInv'
  <1> DEFINE BodyBases == {"AnsonBody", "Anson"}
  <1>1. turn[c] \in Nat /\ BasesDue(c)
    BY DEF RegInv, Shaped
  <1>2. PICK step : Turn(c, step) /\ turn[c] > 6
    BY <1>1, TurnOf DEF setup_jserv_crud, load_usereqAst_ext, load_echoAst_ext, register_peersettings,
                        load_heartbeatAst, load_ansessionreqAst, load_ansessionrespAst
  <1>3. {"Anson", "AnsonBody", "AnsonResp"} \subseteq DOMAIN asts[c]
    BY <1>1, <1>2 DEF BasesDue, AstBases
  <1>4. ASSUME NEW classes, NEW bases, NEW ids, Install(c, classes) \/ Load(c, classes),
               Batch(classes, bases, ids), bases \subseteq {"Anson", "AnsonBody", "AnsonResp"} \cup ids
        PROVE  RegInv'
    <2>1. Brings(c, ids)
      BY <1>3, <1>4, InstallBrings
    <2> QED
      BY <1>1, <1>2, <2>1, TurnTaken DEF DueBrought
  <1>5. CASE setup_jserv_crud(c)
    BY <1>4, <1>5, CrudBatch DEF setup_jserv_crud, WithMessages
  <1>6. CASE load_usereqAst_ext(c)
    <2>1. Batch(classes_of_load_usereqAst_ext, BodyBases, WithMessages({"UserReq"}))
      BY BodyClassNames, MessageBatch DEF classes_of_load_usereqAst_ext
    <2> QED
      BY <1>4, <1>6, <2>1 DEF load_usereqAst_ext
  <1>7. CASE load_echoAst_ext(c)
    <2>1. Batch(classes_of_load_echoAst_ext, BodyBases, WithMessages({"EchoReq"}))
      BY BodyClassNames, MessageBatch DEF classes_of_load_echoAst_ext
    <2> QED
      BY <1>4, <1>7, <2>1 DEF load_echoAst_ext
  <1>8. CASE register_peersettings(c)
    <2>1. Batch(classes_of_register_peersettings, {"Anson"}, {"PeerSettings"})
      BY OtherClassNames, SingleBatch DEF classes_of_register_peersettings
    <2> QED
      BY <1>4, <1>8, <2>1 DEF register_peersettings
  <1>9. CASE load_heartbeatAst(c)
    <2>1. Batch(classes_of_load_heartbeatAst, BodyBases, WithMessages({"HeartBeat"}))
      BY BodyClassNames, MessageBatch DEF classes_of_load_heartbeatAst
    <2> QED
      BY <1>4, <1>9, <2>1 DEF load_heartbeatAst
  <1>10. CASE load_ansessionreqAst(c)
    <2>1. Batch(classes_of_load_ansessionreqAst, BodyBases, WithMessages({"AnSessionReq"}))
      BY BodyClassNames, MessageBatch DEF classes_of_load_ansessionreqAst
    <2> QED
      BY <1>4, <1>10, <2>1 DEF load_ansessionreqAst
  <1>11. CASE load_ansessionrespAst(c)
    <2>1. Batch(classes_of_load_ansessionrespAst, {"AnsonResp", "Anson"}, WithMessages({"AnSessionResp"}))
      BY BodyClassNames, MessageBatch DEF classes_of_load_ansessionrespAst
    <2> QED
      BY <1>4, <1>11, <2>1 DEF load_ansessionrespAst
  <1> QED
    BY <1>5, <1>6, <1>7, <1>8, <1>9, <1>10, <1>11

\* A missing file skips what is left; the language strings wait for register_jserv.
LEMMA OtherSteps ==
  ASSUME NEW c \in Ctx, RegInv, missing_ast_file(c) \/ register_langstringAst(c)
  PROVE  RegInv'
  <1>1. /\ turn[c] \in Nat /\ turn[c] > 10 /\ BasesDue(c) /\ turn \in [Ctx -> Nat]
    BY DEF RegInv, Shaped, missing_ast_file, register_langstringAst, JservDone
  <1>2. CASE missing_ast_file(c)
    <2>1. Brings(c, {})
      BY <1>2, NothingBrought DEF missing_ast_file
    <2>2. Len(script) = 13
      BY DEF script
    <2>3. turn' = [turn EXCEPT ![c] = 14] /\ DueBrought(c, {}) /\ (14 > turn[c] + 1 => turn[c] > 6)
      BY <1>1, <1>2, <2>2 DEF missing_ast_file, DueBrought
    <2> QED
      BY <1>1, <2>1, <2>3, Advanced
  <1>3. CASE register_langstringAst(c)
    <2>1. Batch(classes_of_register_langstringAst, {"Anson"}, {"LangString"})
      BY OtherClassNames, SingleBatch DEF classes_of_register_langstringAst
    <2>2. "Anson" \in DOMAIN asts[c]
      BY <1>1 DEF BasesDue, AstBases
    <2>3. Brings(c, {"LangString"})
      BY <1>3, <2>1, <2>2, InstallBrings DEF register_langstringAst
    <2>4. PICK n \in Nat : n = turn[c]
      BY <1>1
    <2>5. turn' = [turn EXCEPT ![c] = n] /\ DueBrought(c, {"LangString"}) /\ n > 6
      BY <1>1, <1>3, <2>4 DEF register_langstringAst, DueBrought
    <2> QED
      BY <2>3, <2>4, <2>5, Advanced
  <1> QED
    BY <1>2, <1>3

LEMMA RegInvInit == Init => RegInv
  <1> SUFFICES ASSUME Init PROVE RegInv
    OBVIOUS
  <1>1. <<>> \in Seq({}) /\ Len(<<>>) = 0
    BY EmptySeq
  <1>2. DOMAIN <<>> = {}
    BY <1>1, LenProperties
  <1> QED
    BY <1>2 DEF Init, RegInv, Shaped, BasesDue, BasesIn

LEMMA RegInvNext == RegInv /\ [Next]_vars => RegInv'
  <1> SUFFICES ASSUME RegInv, [Next]_vars PROVE RegInv'
    OBVIOUS
  <1>1. CASE Next
    BY <1>1, FirstFunctions, LaterFunctions, OtherSteps DEF Next
  <1>2. CASE UNCHANGED vars
    BY <1>2 DEF vars, RegInv, Shaped, BasesDue, BasesIn, Known
  <1> QED
    BY <1>1, <1>2

\* Whichever contexts are set up at a time and however far each has come, with
\* AST files missing or not, no class is registered before the base it names
\* (json.h:89-92).
THEOREM BaseFirst == Spec => []BasesRegistered
  <1>1. RegInv => BasesRegistered
    BY DEF RegInv, BasesIn, BasesRegistered
  <1> QED
    BY <1>1, RegInvInit, RegInvNext, PTL DEF Spec

-----------------------------------------------------------------------------
(* The lookup along bases.  A class has a higher rank than its base, so    *)
(* that the recursion of FieldsOf ends.                                    *)

Rank(id) ==
  IF id \in {"", "JavaEnum"} THEN 0
  ELSE IF id \in {"IJsonable", "AnsonField", "MsgCode", "Port"} THEN 1
  ELSE IF id = "Anson" THEN 2
  ELSE IF id \in {"SemanExpr", "AnsonJavaEnumAst", "AnsonBodyAst", "AnsonMsgAst", "AnsonResp", "AnQueryReq",
                  "AnUpdateReq", "UserReq", "EchoReq", "HeartBeat", "AnSessionReq"} THEN 4
  ELSE IF id \in {"AnCtor", "AnInsertReq", "AnSessionResp"} THEN 5
  ELSE 3
Ranked(astmap) == \A id \in DOMAIN astmap : Rank(astmap[id].base) < Rank(id)

LEMMA RankBounds == ASSUME NEW id PROVE Rank(id) \in 0..5
  BY DEF Rank

\* No class has the lowest rank.
LEMMA LowestUnregistered ==
  ASSUME NEW astmap, Ranked(astmap), NEW id, Rank(id) = 0
  PROVE  id \notin DOMAIN astmap
  <1> SUFFICES ASSUME id \in DOMAIN astmap PROVE FALSE
    OBVIOUS
  <1>1. Rank(astmap[id].base) < Rank(id)
    BY DEF Ranked
  <1>2. Rank(astmap[id].base) \in 0..5
    BY RankBounds
  <1> QED
    BY <1>1, <1>2

\* The walk along the bases of any tables whose classes rank above their bases:
\* what a class's table is made of, and the tables of the classes of low rank.
Rising(own, base) == \A id \in DOMAIN own : base[id] \in DOMAIN own => Rank(base[id]) < Rank(id)
TableOf(own, base, f, id) ==
  IF base[id] \in DOMAIN own THEN Replacing(f[base[id]], own[id]) ELSE own[id]
Below(own, n) == {id \in DOMAIN own : Rank(id) < n}
TablesBelow(own, base, f, n) ==
  /\ DOMAIN f = Below(own, n)
  /\ \A id \in Below(own, n) : f[id] = TableOf(own, base, f, id)

LEMMA TablesOneMore ==
  ASSUME NEW own, NEW base, Rising(own, base), NEW n \in Nat, \E f : TablesBelow(own, base, f, n)
  PROVE  \E f : TablesBelow(own, base, f, n + 1)
  <1> PICK f : TablesBelow(own, base, f, n)
    OBVIOUS
  <1> DEFINE g == [id \in Below(own, n + 1) |-> TableOf(own, base, f, id)]
  <1>1. \A id \in Below(own, n) : id \in Below(own, n + 1)
    BY RankBounds DEF Below
  <1>2. \A id \in Below(own, n) : g[id] = f[id]
    BY <1>1 DEF TablesBelow
  <1>3. \A id \in Below(own, n + 1) : base[id] \in DOMAIN own => base[id] \in Below(own, n)
    BY RankBounds DEF Below, Rising
  <1>4. ASSUME NEW id \in Below(own, n + 1)
        PROVE  TableOf(own, base, g, id) = TableOf(own, base, f, id)
    <2>1. CASE base[id] \in DOMAIN own
      <3>1. g[base[id]] = f[base[id]]
        BY <1>2, <1>3, <2>1
      <3> HIDE DEF g
      <3> QED
        BY <2>1, <3>1 DEF TableOf
    <2>2. CASE base[id] \notin DOMAIN own
      BY <2>2 DEF TableOf
    <2> QED
      BY <2>1, <2>2
  <1>5. DOMAIN g = Below(own, n + 1) /\ \A id \in Below(own, n + 1) : g[id] = TableOf(own, base, f, id)
    OBVIOUS
  <1> HIDE DEF g
  <1> QED
    BY <1>4, <1>5 DEF TablesBelow

LEMMA TablesExist ==
  ASSUME NEW own, NEW base, Rising(own, base)
  PROVE  \E f : TablesBelow(own, base, f, 6)
  <1>0. \E f : TablesBelow(own, base, f, 0)
    <2> DEFINE f == [id \in {} |-> id]
    <2>1. Below(own, 0) = {}
      BY RankBounds DEF Below
    <2>2. TablesBelow(own, base, f, 0)
      BY <2>1 DEF TablesBelow
    <2> QED
      BY <2>2
  <1>1. \E f : TablesBelow(own, base, f, 0 + 1)
    BY <1>0, TablesOneMore
  <1>2. \E f : TablesBelow(own, base, f, 1 + 1)
    BY <1>1, TablesOneMore
  <1>3. \E f : TablesBelow(own, base, f, 2 + 1)
    BY <1>2, TablesOneMore
  <1>4. \E f : TablesBelow(own, base, f, 3 + 1)
    BY <1>3, TablesOneMore
  <1>5. \E f : TablesBelow(own, base, f, 4 + 1)
    BY <1>4, TablesOneMore
  <1>6. \E f : TablesBelow(own, base, f, 5 + 1)
    BY <1>5, TablesOneMore
  <1> QED
    BY <1>6

\* The recursion of Inherited defines the tables.
LEMMA InheritedIs ==
  ASSUME NEW own, NEW base, Rising(own, base), NEW id \in DOMAIN own
  PROVE  Inherited(own, base)[id] = TableOf(own, base, Inherited(own, base), id)
  <1> DEFINE IsTable(f) == f = [x \in DOMAIN own |-> TableOf(own, base, f, x)]
  <1>1. Below(own, 6) = DOMAIN own
    BY RankBounds DEF Below
  <1>2. PICK f : TablesBelow(own, base, f, 6)
    BY TablesExist
  <1> DEFINE g == [x \in DOMAIN own |-> f[x]]
  <1>3. \A x \in DOMAIN own : TableOf(own, base, g, x) = TableOf(own, base, f, x)
    BY DEF TableOf
  <1>4. \A x \in DOMAIN own : g[x] = TableOf(own, base, g, x)
    BY <1>1, <1>2, <1>3 DEF TablesBelow
  <1>5. IsTable(g)
    BY <1>4
  <1>6. Inherited(own, base) = CHOOSE all : IsTable(all)
    BY DEF Inherited, TableOf
  <1>7. IsTable(Inherited(own, base))
    BY <1>5, <1>6
  <1> QED
    BY <1>7

\* What is found for a class is its own, or else its base's.
Inherits(all, own, base, id) ==
  /\ DOMAIN all[id] = DOMAIN own[id] \cup (IF base[id] \in DOMAIN own THEN DOMAIN all[base[id]] ELSE {})
  /\ \A k \in DOMAIN all[id] :
       all[id][k] = IF k \in DOMAIN own[id] THEN own[id][k] ELSE all[base[id]][k]

LEMMA InheritedAt ==
  ASSUME NEW own, NEW base, Rising(own, base), NEW id \in DOMAIN own
  PROVE  Inherits(Inherited(own, base), own, base, id)
  <1> SUFFICES ASSUME NEW all, all = Inherited(own, base) PROVE Inherits(all, own, base, id)
    OBVIOUS
  <1>1. all[id] = IF base[id] \in DOMAIN own THEN Replacing(all[base[id]], own[id]) ELSE own[id]
    BY InheritedIs, Zenon DEF TableOf
  <1>2. CASE base[id] \in DOMAIN own
    <2>1. PICK over, under : over = own[id] /\ under = all[base[id]]
      OBVIOUS
    <2>2. all[id] = Replacing(under, over)
      BY <1>1, <1>2, <2>1
    <2>3. /\ DOMAIN all[id] = DOMAIN under \cup DOMAIN over
          /\ \A k \in DOMAIN all[id] : all[id][k] = IF k \in DOMAIN over THEN over[k] ELSE under[k]
      BY <2>2 DEF Replacing
    <2> QED
      BY <1>2, <2>1, <2>3 DEF Inherits
  <1>3. CASE base[id] \notin DOMAIN own
    BY <1>1, <1>3 DEF Inherits
  <1> QED
    BY <1>2, <1>3

\* What the recursion of Fields finds.
LEMMA FieldsInherited ==
  ASSUME NEW astmap, Ranked(astmap), NEW id \in DOMAIN astmap
  PROVE  /\ \A k : k \in DOMAIN FieldsOf(astmap)[id] <=>
                     \/ k \in DOMAIN astmap[id].fields
                     \/ astmap[id].base \in DOMAIN astmap /\ k \in DOMAIN FieldsOf(astmap)[astmap[id].base]
         /\ \A k \in DOMAIN FieldsOf(astmap)[id] :
              FieldsOf(astmap)[id][k] = IF k \in DOMAIN astmap[id].fields THEN astmap[id].fields[k]
                                        ELSE FieldsOf(astmap)[astmap[id].base][k]
  <1> DEFINE own == [x \in DOMAIN astmap |-> astmap[x].fields]
             base == Bases(astmap)
  <1>1. /\ DOMAIN own = DOMAIN astmap /\ own[id] = astmap[id].fields /\ base[id] = astmap[id].base
        /\ \A x \in DOMAIN astmap : base[x] = astmap[x].base
    BY DEF Bases
  <1>2. FieldsOf(astmap) = Inherited(own, base)
    BY DEF FieldsOf
  <1> HIDE DEF own, base
  <1>3. Rising(own, base)
    BY <1>1 DEF Rising, Ranked
  <1>4. Inherits(FieldsOf(astmap), own, base, id)
    BY <1>1, <1>2, <1>3, InheritedAt
  <1> QED
    BY <1>1, <1>4 DEF Inherits

LookupIn(astmap, id, k) == LET f == FieldsOf(astmap)[id] IN IF k \in DOMAIN f THEN f[k] ELSE NoType

\* What find_field_astid does: the class's own field, else its base's.
LEMMA LookupUnfolds ==
  ASSUME NEW astmap, Ranked(astmap), NEW id \in DOMAIN astmap, NEW k
  PROVE  LookupIn(astmap, id, k) =
           IF k \in DOMAIN astmap[id].fields THEN astmap[id].fields[k]
           ELSE IF astmap[id].base \in DOMAIN astmap THEN LookupIn(astmap, astmap[id].base, k)
           ELSE NoType
  <1>1. PICK all : all = FieldsOf(astmap)
    OBVIOUS
  <1>2. \A x : LookupIn(astmap, x, k) = IF k \in DOMAIN all[x] THEN all[x][k] ELSE NoType
    BY <1>1 DEF LookupIn
  <1> QED
    BY <1>1, <1>2, FieldsInherited

\* The AST of AnsonBodyAst, whose fields reading a text indexes, and its bases:
\* none of them declares "fields".
AstChain == [IJsonable |-> "", Anson |-> "IJsonable", AnsonAst |-> "Anson", AnsonBodyAst |-> "AnsonAst"]
Undeclared(fields) == "fields" \in DOMAIN fields => fields["fields"] = NoType
ChainOK(astmap) ==
  \A id \in DOMAIN astmap \cap DOMAIN AstChain :
    astmap[id].base = AstChain[id] /\ Undeclared(astmap[id].fields)

LEMMA FieldsUndeclared ==
  ASSUME NEW astmap, Ranked(astmap), ChainOK(astmap), "AnsonBodyAst" \in DOMAIN astmap
  PROVE  LookupIn(astmap, "AnsonBodyAst", "fields") = NoType
  <1>1. /\ DOMAIN AstChain = {"IJsonable", "Anson", "AnsonAst", "AnsonBodyAst"}
        /\ AstChain["IJsonable"] = "" /\ AstChain["Anson"] = "IJsonable"
        /\ AstChain["AnsonAst"] = "Anson" /\ AstChain["AnsonBodyAst"] = "AnsonAst"
    BY DEF AstChain
  <1>2. ASSUME NEW id \in DOMAIN astmap \cap DOMAIN AstChain,
               AstChain[id] \in DOMAIN astmap => LookupIn(astmap, AstChain[id], "fields") = NoType
        PROVE  LookupIn(astmap, id, "fields") = NoType
    BY <1>2, LookupUnfolds DEF ChainOK, Undeclared
  <1>3. "" \notin DOMAIN astmap
    BY LowestUnregistered DEF Rank
  <1>4. "IJsonable" \in DOMAIN astmap => LookupIn(astmap, "IJsonable", "fields") = NoType
    BY <1>1, <1>2, <1>3
  <1>5. "Anson" \in DOMAIN astmap => LookupIn(astmap, "Anson", "fields") = NoType
    BY <1>1, <1>2, <1>4
  <1>6. "AnsonAst" \in DOMAIN astmap => LookupIn(astmap, "AnsonAst", "fields") = NoType
    BY <1>1, <1>2, <1>5
  <1> QED
    BY <1>1, <1>2, <1>6

\* One table is another one with more classes and perhaps the blank.
Extends(old, new) ==
  /\ Ranked(old) /\ Ranked(new) /\ ChainOK(old)
  /\ DOMAIN old \subseteq DOMAIN new
  /\ \A id \in DOMAIN old :
       /\ new[id].base = old[id].base
       /\ old[id].base \in DOMAIN new => old[id].base \in DOMAIN old
       /\ \/ new[id].fields = old[id].fields
          \/ id = "AnsonBodyAst" /\ new[id].fields = IndexFields(old[id].fields)
SameBelow(old, new, n) ==
  \A id \in Below(old, n) : \A k : LookupIn(new, id, k) = LookupIn(old, id, k)

LEMMA SameOneMore ==
  ASSUME NEW old, NEW new, Extends(old, new), NEW n \in Nat, SameBelow(old, new, n)
  PROVE  SameBelow(old, new, n + 1)
  <1> SUFFICES ASSUME NEW id \in Below(old, n + 1), NEW k
               PROVE  LookupIn(new, id, k) = LookupIn(old, id, k)
    BY DEF SameBelow
  <1>1. /\ id \in DOMAIN old /\ id \in DOMAIN new /\ Ranked(old) /\ Ranked(new)
        /\ new[id].base = old[id].base
        /\ old[id].base \in DOMAIN new <=> old[id].base \in DOMAIN old
    BY DEF Extends, Below
  <1>2. old[id].base \in DOMAIN old => old[id].base \in Below(old, n)
    BY <1>1, RankBounds DEF Below, Ranked
  <1>3. old[id].base \in DOMAIN old => LookupIn(new, old[id].base, k) = LookupIn(old, old[id].base, k)
    BY <1>2 DEF SameBelow
  <1>4. /\ LookupIn(new, id, k) =
             IF k \in DOMAIN new[id].fields THEN new[id].fields[k]
             ELSE IF new[id].base \in DOMAIN new THEN LookupIn(new, new[id].base, k) ELSE NoType
        /\ LookupIn(old, id, k) =
             IF k \in DOMAIN old[id].fields THEN old[id].fields[k]
             ELSE IF old[id].base \in DOMAIN old THEN LookupIn(old, old[id].base, k) ELSE NoType
    BY <1>1, LookupUnfolds
  <1>5. CASE new[id].fields = old[id].fields
    BY <1>1, <1>3, <1>4, <1>5
  <1>6. CASE id = "AnsonBodyAst" /\ new[id].fields = IndexFields(old[id].fields)
    <2>1. /\ DOMAIN new[id].fields = {"fields"} \cup DOMAIN old[id].fields
          /\ k \in DOMAIN old[id].fields => new[id].fields[k] = old[id].fields[k]
          /\ k \in {"fields"} \ DOMAIN old[id].fields => new[id].fields[k] = NoType
      <3> PICK f : f = [fields |-> NoType]
        OBVIOUS
      <3>1. DOMAIN f = {"fields"} /\ f["fields"] = NoType
        OBVIOUS
      <3>2. new[id].fields = Replacing(f, old[id].fields)
        BY <1>6 DEF IndexFields
      <3> QED
        BY <3>1, <3>2 DEF Replacing
    <2>2. CASE k = "fields" /\ k \notin DOMAIN old[id].fields
      <3>1. LookupIn(old, id, k) = NoType
        BY <1>1, <1>6, <2>2, FieldsUndeclared DEF Extends
      <3> QED
        BY <1>4, <2>1, <2>2, <3>1
    <2>3. CASE ~(k = "fields" /\ k \notin DOMAIN old[id].fields)
      BY <1>1, <1>3, <1>4, <2>1, <2>3
    <2> QED
      BY <2>2, <2>3
  <1> QED
    BY <1>1, <1>5, <1>6 DEF Extends

LEMMA SameLookups ==
  ASSUME NEW old, NEW new, Extends(old, new), NEW id \in DOMAIN old, NEW k
  PROVE  LookupIn(new, id, k) = LookupIn(old, id, k)
  <1>0. SameBelow(old, new, 0)
    BY RankBounds DEF SameBelow, Below
  <1>1. SameBelow(old, new, 0 + 1)
    BY <1>0, SameOneMore
  <1>2. SameBelow(old, new, 1 + 1)
    BY <1>1, SameOneMore
  <1>3. SameBelow(old, new, 2 + 1)
    BY <1>2, SameOneMore
  <1>4. SameBelow(old, new, 3 + 1)
    BY <1>3, SameOneMore
  <1>5. SameBelow(old, new, 4 + 1)
    BY <1>4, SameOneMore
  <1>6. SameBelow(old, new, 5 + 1)
    BY <1>5, SameOneMore
  <1> QED
    BY <1>6, RankBounds DEF SameBelow, Below

-----------------------------------------------------------------------------
(* Every id is registered by one function only.                            *)

\* The turn of the function that registers a class, a message with its body; 0
\* for the language strings, which have no turn.
ClassStage(id) ==
  IF id \in AstIds THEN 2
  ELSE IF id \in MessageIds THEN 3
  ELSE IF id = "MsgCode" THEN 4
  ELSE IF id = "Port" THEN 5
  ELSE IF id = "AnsonResp" THEN 6
  ELSE IF id \in {"AnQueryReq", "AnUpdateReq", "AnInsertReq"} THEN 7
  ELSE IF id = "UserReq" THEN 8
  ELSE IF id = "EchoReq" THEN 9
  ELSE IF id = "PeerSettings" THEN 10
  ELSE IF id = "HeartBeat" THEN 11
  ELSE IF id = "AnSessionReq" THEN 12
  ELSE IF id = "AnSessionResp" THEN 13
  ELSE 0
Stage(id) == IF \E T \in BodyIds : id = MsgOf(T)
             THEN ClassStage(CHOOSE T \in BodyIds : id = MsgOf(T)) ELSE ClassStage(id)

LEMMA StageIsTurn == ASSUME NEW id PROVE Stage(id) \in Nat
  <1>1. \A x : ClassStage(x) \in Nat
    BY DEF ClassStage
  <1> QED
    BY <1>1 DEF Stage

LEMMA StageOfMessage ==
  ASSUME NEW T \in BodyIds
  PROVE  /\ Stage(MsgOf(T)) = ClassStage(T)
         /\ Rank("Anson") < Rank(MsgOf(T))
         /\ MsgOf(T) \notin DOMAIN AstChain
  <1>1. MsgOf(T) \notin ClassIds \cup {""}
    BY MsgOfAssumption
  <1>2. (CHOOSE U \in BodyIds : MsgOf(T) = MsgOf(U)) = T
    BY MsgOfAssumption
  <1>3. Stage(MsgOf(T)) = ClassStage(T)
    BY <1>2 DEF Stage
  <1>4. Rank("Anson") = 2
    BY DEF Rank
  <1>5. Rank(MsgOf(T)) = 3
    <2> PICK id : id = MsgOf(T)
      OBVIOUS
    <2>1. id \notin ClassIds /\ id # ""
      BY <1>1
    <2>2. Rank(id) = 3
      BY <2>1, Zenon DEF Rank, ClassIds, BodyIds
    <2> QED
      BY <2>2
  <1>6. MsgOf(T) \notin DOMAIN AstChain
    BY <1>1 DEF ClassIds, AstChain
  <1>7. Rank("Anson") < Rank(MsgOf(T))
    BY <1>4, <1>5
  <1> QED
    BY <1>3, <1>6, <1>7

LEMMA StageOfClass ==
  ASSUME NEW id \in ClassIds
  PROVE  Stage(id) = ClassStage(id)
  BY MsgOfAssumption DEF Stage

\* The class that is registered under an id.
RegisteredIds == (ClassIds \ {"JavaEnum"}) \cup {MsgOf(T) : T \in BodyIds}
PlainClass(id) ==
  CASE id = "IJsonable" -> IJsonable  [] id = "AnsonField" -> AnsonField
    [] id = "Anson" -> Anson  [] id = "Semantics" -> Semantics
    [] id = "SemanExpr" -> SemanExpr  [] id = "AnCtor" -> AnCtor
    [] id = "AnsonAst" -> AnsonAst  [] id = "AnsonJavaEnumAst" -> AnsonJavaEnumAst
    [] id = "AnsonBodyAst" -> AnsonBodyAst  [] id = "AnsonMsgAst" -> AnsonMsgAst
    [] id = "SemanticObject" -> SemanticObject  [] id = "AnResultset" -> AnResultset
    [] id = "SessionInf" -> SessionInf  [] id = "AnsonHeader" -> AnsonHeader
    [] id = "AnsonBody" -> AnsonBody  [] id = "MsgCode" -> MsgCode
    [] id = "Port" -> Port  [] id = "AnsonResp" -> AnsonResp
    [] id = "AnQueryReq" -> AnQueryReq  [] id = "AnUpdateReq" -> AnUpdateReq
    [] id = "AnInsertReq" -> AnInsertReq  [] id = "UserReq" -> UserReq
    [] id = "EchoReq" -> EchoReq  [] id = "PeerSettings" -> PeerSettings
    [] id = "LangString" -> LangString  [] id = "HeartBeat" -> HeartBeat
    [] id = "AnSessionReq" -> AnSessionReq  [] id = "AnSessionResp" -> AnSessionResp
ClassOf(id) ==
  IF \E T \in BodyIds : id = MsgOf(T)
  THEN specialize_req(CHOOSE T \in BodyIds : id = MsgOf(T))
  ELSE PlainClass(id)

LEMMA ClassOfMessage ==
  ASSUME NEW T \in BodyIds
  PROVE  MsgOf(T) \in RegisteredIds /\ ClassOf(MsgOf(T)) = specialize_req(T)
  <1>1. (CHOOSE U \in BodyIds : MsgOf(T) = MsgOf(U)) = T
    BY MsgOfAssumption
  <1> QED
    BY <1>1 DEF RegisteredIds, ClassOf

LEMMA ClassOfPlain ==
  /\ ClassOf("IJsonable") = IJsonable /\ ClassOf("AnsonField") = AnsonField /\ ClassOf("Anson") = Anson
  /\ ClassOf("Semantics") = Semantics /\ ClassOf("SemanExpr") = SemanExpr /\ ClassOf("AnCtor") = AnCtor
  /\ ClassOf("AnsonAst") = AnsonAst /\ ClassOf("AnsonJavaEnumAst") = AnsonJavaEnumAst /\ ClassOf("AnsonBodyAst") = AnsonBodyAst
  /\ ClassOf("AnsonMsgAst") = AnsonMsgAst /\ ClassOf("SemanticObject") = SemanticObject /\ ClassOf("AnResultset") = AnResultset
  /\ ClassOf("SessionInf") = SessionInf /\ ClassOf("AnsonHeader") = AnsonHeader /\ ClassOf("AnsonBody") = AnsonBody
  /\ ClassOf("MsgCode") = MsgCode /\ ClassOf("Port") = Port /\ ClassOf("AnsonResp") = AnsonResp
  /\ ClassOf("AnQueryReq") = AnQueryReq /\ ClassOf("AnUpdateReq") = AnUpdateReq /\ ClassOf("AnInsertReq") = AnInsertReq
  /\ ClassOf("UserReq") = UserReq /\ ClassOf("EchoReq") = EchoReq /\ ClassOf("PeerSettings") = PeerSettings
  /\ ClassOf("LangString") = LangString /\ ClassOf("HeartBeat") = HeartBeat /\ ClassOf("AnSessionReq") = AnSessionReq
  /\ ClassOf("AnSessionResp") = AnSessionResp
  <1>1. \A id \in ClassIds : ClassOf(id) = PlainClass(id)
    BY MsgOfAssumption DEF ClassOf
  <1>2. /\ PlainClass("IJsonable") = IJsonable /\ PlainClass("AnsonField") = AnsonField /\ PlainClass("Anson") = Anson
        /\ PlainClass("Semantics") = Semantics /\ PlainClass("SemanExpr") = SemanExpr /\ PlainClass("AnCtor") = AnCtor
    BY DEF PlainClass
  <1>3. /\ PlainClass("AnsonAst") = AnsonAst /\ PlainClass("AnsonJavaEnumAst") = AnsonJavaEnumAst /\ PlainClass("AnsonBodyAst") = AnsonBodyAst
        /\ PlainClass("AnsonMsgAst") = AnsonMsgAst /\ PlainClass("SemanticObject") = SemanticObject /\ PlainClass("AnResultset") = AnResultset
    BY DEF PlainClass
  <1>4. /\ PlainClass("SessionInf") = SessionInf /\ PlainClass("AnsonHeader") = AnsonHeader /\ PlainClass("AnsonBody") = AnsonBody
        /\ PlainClass("MsgCode") = MsgCode /\ PlainClass("Port") = Port /\ PlainClass("AnsonResp") = AnsonResp
    BY DEF PlainClass
  <1>5. /\ PlainClass("AnQueryReq") = AnQueryReq /\ PlainClass("AnUpdateReq") = AnUpdateReq /\ PlainClass("AnInsertReq") = AnInsertReq
        /\ PlainClass("UserReq") = UserReq /\ PlainClass("EchoReq") = EchoReq /\ PlainClass("PeerSettings") = PeerSettings
    BY DEF PlainClass
  <1>6. /\ PlainClass("LangString") = LangString /\ PlainClass("HeartBeat") = HeartBeat /\ PlainClass("AnSessionReq") = AnSessionReq
        /\ PlainClass("AnSessionResp") = AnSessionResp
    BY DEF PlainClass
  <1>7. {"IJsonable", "AnsonField", "Anson", "Semantics", "SemanExpr", "AnCtor", "AnsonAst", "AnsonJavaEnumAst", "AnsonBodyAst", "AnsonMsgAst", "SemanticObject", "AnResultset", "SessionInf", "AnsonHeader", "AnsonBody", "MsgCode", "Port", "AnsonResp", "AnQueryReq", "AnUpdateReq", "AnInsertReq", "UserReq", "EchoReq", "PeerSettings", "LangString", "HeartBeat", "AnSessionReq", "AnSessionResp"}
          \subseteq ClassIds
    BY DEF ClassIds, BodyIds
  <1> QED
    BY <1>1, <1>2, <1>3, <1>4, <1>5, <1>6, <1>7

\* A class that the function of this turn registers, above its base.
Placed(class, turnof) ==
  /\ class.id \in RegisteredIds /\ class = ClassOf(class.id)
  /\ Stage(class.id) = turnof /\ Rank(class.base) < Rank(class.id)
  /\ class.id \in DOMAIN AstChain => class.base = AstChain[class.id] /\ Undeclared(class.fields)
AllPlaced(classes, turnof) == \A i \in DOMAIN classes : Placed(classes[i], turnof)

LEMMA PlacedByName ==
  ASSUME NEW class, NEW id \in ClassIds \ {"JavaEnum"}, NEW base, Names(class, id, base), ClassOf(id) = class,
         NEW n, ClassStage(id) = n, Rank(base) < Rank(id), id \notin DOMAIN AstChain
  PROVE  Placed(class, n)
  BY StageOfClass DEF Placed, Names, RegisteredIds

LEMMA MessagePlaced ==
  ASSUME NEW body, NEW id \in BodyIds, NEW base, Names(body, id, base), ClassOf(id) = body,
         NEW n, ClassStage(id) = n, Rank(base) < Rank(id), id \notin DOMAIN AstChain
  PROVE  AllPlaced(body_specialize_msg(body), n)
  <1>1. PICK msg : msg = specialize_req(id)
    OBVIOUS
  <1>2. body_specialize_msg(body) = <<body, msg>> /\ Names(msg, MsgOf(id), "Anson")
    BY <1>1, BodyAndMessage
  <1>3. Placed(body, n)
    <2>1. id \in ClassIds \ {"JavaEnum"}
      BY DEF BodyIds, ClassIds
    <2> QED
      BY <2>1, PlacedByName
  <1>4. Placed(msg, n)
    BY <1>1, <1>2, StageOfMessage, ClassOfMessage DEF Placed, Names
  <1> QED
    BY <1>2, <1>3, <1>4 DEF AllPlaced

LEMMA SinglePlaced ==
  ASSUME NEW class, NEW n, Placed(class, n)
  PROVE  AllPlaced(<<class>>, n)
  BY DEF AllPlaced

LEMMA RankOf ==
  /\ Rank("") = 0 /\ Rank("JavaEnum") = 0 /\ Rank("IJsonable") = 1 /\ Rank("AnsonField") = 1
  /\ Rank("MsgCode") = 1 /\ Rank("Port") = 1 /\ Rank("Anson") = 2 /\ Rank("Semantics") = 3
  /\ Rank("AnsonAst") = 3 /\ Rank("SemanticObject") = 3 /\ Rank("AnResultset") = 3 /\ Rank("SessionInf") = 3
  /\ Rank("AnsonHeader") = 3 /\ Rank("AnsonBody") = 3 /\ Rank("PeerSettings") = 3 /\ Rank("LangString") = 3
  /\ Rank("SemanExpr") = 4 /\ Rank("AnsonJavaEnumAst") = 4 /\ Rank("AnsonBodyAst") = 4 /\ Rank("AnsonMsgAst") = 4
  /\ Rank("AnsonResp") = 4 /\ Rank("AnQueryReq") = 4 /\ Rank("AnUpdateReq") = 4 /\ Rank("UserReq") = 4
  /\ Rank("EchoReq") = 4 /\ Rank("HeartBeat") = 4 /\ Rank("AnSessionReq") = 4 /\ Rank("AnCtor") = 5
  /\ Rank("AnInsertReq") = 5 /\ Rank("AnSessionResp") = 5
  BY DEF Rank

LEMMA Ascending == 0 < 1 /\ 1 < 2 /\ 2 < 3 /\ 2 < 4 /\ 3 < 4 /\ 3 < 5 /\ 4 < 5
  OBVIOUS

\* The fields a class declares itself.
Declares(class, fields) == "fields" \in DOMAIN class /\ class.fields = fields

LEMMA FieldsMade ==
  ASSUME NEW id, NEW base, NEW fields
  PROVE  /\ Declares(Class(id, base, fields), fields)
         /\ Declares(ReadOnly(Class(id, base, fields)), fields)
  BY DEF Class, ReadOnly, Declares

LEMMA FieldsAmended ==
  ASSUME NEW class, NEW fields, Declares(class, fields), NEW x, NEW y
  PROVE  /\ Declares([class EXCEPT !.data = x], fields)
         /\ Declares([class EXCEPT !.data = x, !.answers = y], fields)
  BY DEF Declares

LEMMA ChainFields ==
  /\ Undeclared(IJsonable.fields) /\ Undeclared(Anson.fields)
  /\ Undeclared(AnsonAst.fields) /\ Undeclared(AnsonBodyAst.fields)
  <1>1. <<>> \in Seq({}) /\ Len(<<>>) = 0
    BY EmptySeq
  <1>2. Undeclared(<<>>)
    BY <1>1, LenProperties DEF Undeclared
  <1>3. Declares(IJsonable, <<>>) /\ Declares(Anson, <<>>)
    BY FieldsMade, FieldsAmended, Zenon DEF IJsonable, Anson
  <1>4. PICK ctors, semantics : Declares(AnsonAst, [ctors |-> ctors, ctorsemantics |-> semantics])
    BY FieldsMade, FieldsAmended, Zenon DEF AnsonAst, AnsonAstOf
  <1>5. PICK A : Declares(AnsonBodyAst, [A |-> A])
    BY FieldsMade, FieldsAmended, Zenon DEF AnsonBodyAst
  <1>6. Undeclared([ctors |-> ctors, ctorsemantics |-> semantics]) /\ Undeclared([A |-> A])
    BY DEF Undeclared
  <1> QED
    BY <1>2, <1>3, <1>4, <1>5, <1>6 DEF Declares

LEMMA AstsPlaced == AllPlaced(classes_of_register_asts, 2)
  <1> DEFINE cs == classes_of_register_asts
  <1>1. /\ DOMAIN cs = 1..10
        /\ cs[1] = IJsonable /\ cs[2] = AnsonField /\ cs[3] = Anson /\ cs[4] = Semantics
        /\ cs[5] = SemanExpr /\ cs[6] = AnCtor /\ cs[7] = AnsonAst
        /\ cs[8] = AnsonJavaEnumAst /\ cs[9] = AnsonBodyAst /\ cs[10] = AnsonMsgAst
    BY DEF classes_of_register_asts
  <1> HIDE DEF cs
  <1>2. AstIds \subseteq ClassIds \ {"JavaEnum"} /\ \A id \in AstIds : ClassStage(id) = 2
    BY DEF AstIds, ClassIds, ClassStage
  <1>3. \A id \in AstIds : Stage(id) = 2
    BY <1>2, StageOfClass
  <1>4. /\ DOMAIN AstChain = {"IJsonable", "Anson", "AnsonAst", "AnsonBodyAst"}
        /\ AstChain["IJsonable"] = "" /\ AstChain["Anson"] = "IJsonable"
        /\ AstChain["AnsonAst"] = "Anson" /\ AstChain["AnsonBodyAst"] = "AnsonAst"
    BY DEF AstChain
  <1>5. /\ Rank("") < Rank("IJsonable") /\ Rank("") < Rank("AnsonField")
        /\ Rank("IJsonable") < Rank("Anson") /\ Rank("Anson") < Rank("Semantics")
        /\ Rank("Semantics") < Rank("SemanExpr") /\ Rank("SemanExpr") < Rank("AnCtor")
        /\ Rank("Anson") < Rank("AnsonAst") /\ Rank("AnsonAst") < Rank("AnsonJavaEnumAst")
        /\ Rank("AnsonAst") < Rank("AnsonBodyAst") /\ Rank("AnsonAst") < Rank("AnsonMsgAst")
    BY RankOf, Ascending, Zenon
  <1>6. ASSUME NEW class, NEW id \in AstIds \ DOMAIN AstChain, NEW base, Names(class, id, base),
               ClassOf(id) = class, Rank(base) < Rank(id)
        PROVE  Placed(class, 2)
    BY <1>2, <1>6, PlacedByName
  <1>7. ASSUME NEW class, NEW id \in AstIds \cap DOMAIN AstChain, NEW base, Names(class, id, base),
               ClassOf(id) = class, Rank(base) < Rank(id), base = AstChain[id], Undeclared(class.fields)
        PROVE  Placed(class, 2)
    BY <1>2, <1>3, <1>7 DEF Placed, Names, RegisteredIds
  <1>8. /\ Placed(AnsonField, 2) /\ Placed(Semantics, 2) /\ Placed(SemanExpr, 2) /\ Placed(AnCtor, 2)
        /\ Placed(AnsonJavaEnumAst, 2) /\ Placed(AnsonMsgAst, 2)
    <2>1. {"AnsonField", "Semantics", "SemanExpr", "AnCtor", "AnsonJavaEnumAst", "AnsonMsgAst"}
            \subseteq AstIds \ DOMAIN AstChain
      BY <1>4 DEF AstIds
    <2> QED
      BY <1>5, <1>6, <2>1, AstClassNames, ClassOfPlain
  <1>9. Placed(IJsonable, 2) /\ Placed(Anson, 2) /\ Placed(AnsonAst, 2) /\ Placed(AnsonBodyAst, 2)
    <2>1. {"IJsonable", "Anson", "AnsonAst", "AnsonBodyAst"} \subseteq AstIds \cap DOMAIN AstChain
      BY <1>4 DEF AstIds
    <2> QED
      BY <1>4, <1>5, <1>7, <2>1, AstClassNames, ClassOfPlain, ChainFields
  <1>10. ASSUME NEW i \in DOMAIN cs
         PROVE  Placed(cs[i], 2)
    <2>1. \/ i = 1 \/ i = 2 \/ i = 3 \/ i = 4 \/ i = 5
          \/ i = 6 \/ i = 7 \/ i = 8 \/ i = 9 \/ i = 10
      BY <1>1
    <2> QED
      BY <1>1, <1>8, <1>9, <2>1, Zenon
  <1> QED
    BY <1>10 DEF AllPlaced, cs

LEMMA MessagesPlaced == AllPlaced(classes_of_register_msgs, 3)
  <1> DEFINE cs == classes_of_register_msgs
  <1>1. /\ DOMAIN cs = 1..5
        /\ cs[1] = SemanticObject /\ cs[2] = AnResultset /\ cs[3] = SessionInf
        /\ cs[4] = AnsonHeader /\ cs[5] = AnsonBody
    BY DEF classes_of_register_msgs
  <1> HIDE DEF cs
  <1>2. ASSUME NEW id \in MessageIds
        PROVE  id \in ClassIds \ {"JavaEnum"} /\ ClassStage(id) = 3 /\ id \notin DOMAIN AstChain
    BY DEF MessageIds, ClassIds, ClassStage, AstIds, AstChain
  <1>3. \A id \in MessageIds : Rank("Anson") < Rank(id)
    <2>1. \A id \in MessageIds : Rank(id) = 3
      BY RankOf DEF MessageIds
    <2> QED
      BY <2>1, RankOf, Ascending, Zenon
  <1>4. ASSUME NEW class, NEW id \in MessageIds, Names(class, id, "Anson"), ClassOf(id) = class
        PROVE  Placed(class, 3)
    BY <1>2, <1>3, <1>4, PlacedByName
  <1>5. {"SemanticObject", "AnResultset", "SessionInf", "AnsonHeader", "AnsonBody"} \subseteq MessageIds
    BY DEF MessageIds
  <1>6. /\ Placed(SemanticObject, 3) /\ Placed(AnResultset, 3) /\ Placed(SessionInf, 3)
        /\ Placed(AnsonHeader, 3) /\ Placed(AnsonBody, 3)
    BY <1>4, <1>5, MessageClassNames, ClassOfPlain
  <1>7. ASSUME NEW i \in DOMAIN cs
        PROVE  Placed(cs[i], 3)
    <2>1. i = 1 \/ i = 2 \/ i = 3 \/ i = 4 \/ i = 5
      BY <1>1
    <2> QED
      BY <1>1, <1>6, <2>1, Zenon
  <1> QED
    BY <1>7 DEF AllPlaced, cs

\* The bodies: the place of each.
LEMMA BodyPlaces ==
  /\ BodyIds \subseteq ClassIds
  /\ \A id \in BodyIds : id \notin DOMAIN AstChain
  /\ ClassStage("AnsonResp") = 6 /\ ClassStage("AnQueryReq") = 7 /\ ClassStage("AnUpdateReq") = 7
  /\ ClassStage("AnInsertReq") = 7 /\ ClassStage("UserReq") = 8 /\ ClassStage("EchoReq") = 9
  /\ ClassStage("HeartBeat") = 11 /\ ClassStage("AnSessionReq") = 12
  /\ ClassStage("AnSessionResp") = 13
  BY DEF BodyIds, ClassIds, AstChain, ClassStage, AstIds, MessageIds

LEMMA BodyRanks ==
  /\ Rank("AnsonBody") < Rank("AnsonResp") /\ Rank("AnsonBody") < Rank("AnQueryReq")
  /\ Rank("AnsonBody") < Rank("AnUpdateReq") /\ Rank("AnUpdateReq") < Rank("AnInsertReq")
  /\ Rank("AnsonBody") < Rank("UserReq") /\ Rank("AnsonBody") < Rank("EchoReq")
  /\ Rank("AnsonBody") < Rank("HeartBeat") /\ Rank("AnsonBody") < Rank("AnSessionReq")
  /\ Rank("AnsonResp") < Rank("AnSessionResp")
  BY RankOf, Ascending, Zenon

LEMMA BodiesPlaced ==
  /\ AllPlaced(classes_of_specialize_respmsg, 6)
  /\ AllPlaced(classes_of_load_usereqAst_ext, 8)
  /\ AllPlaced(classes_of_load_echoAst_ext, 9)
  /\ AllPlaced(classes_of_load_heartbeatAst, 11)
  /\ AllPlaced(classes_of_load_ansessionreqAst, 12)
  /\ AllPlaced(classes_of_load_ansessionrespAst, 13)
  <1>1. {"AnsonResp", "UserReq", "EchoReq", "HeartBeat", "AnSessionReq", "AnSessionResp"} \subseteq BodyIds
    BY DEF BodyIds
  <1>2. AllPlaced(body_specialize_msg(AnsonResp), 6)
    BY <1>1, BodyPlaces, BodyRanks, BodyClassNames, ClassOfPlain, MessagePlaced
  <1>3. AllPlaced(body_specialize_msg(UserReq), 8)
    BY <1>1, BodyPlaces, BodyRanks, BodyClassNames, ClassOfPlain, MessagePlaced
  <1>4. AllPlaced(body_specialize_msg(EchoReq), 9)
    BY <1>1, BodyPlaces, BodyRanks, BodyClassNames, ClassOfPlain, MessagePlaced
  <1>5. AllPlaced(body_specialize_msg(HeartBeat), 11)
    BY <1>1, BodyPlaces, BodyRanks, BodyClassNames, ClassOfPlain, MessagePlaced
  <1>6. AllPlaced(body_specialize_msg(AnSessionReq), 12)
    BY <1>1, BodyPlaces, BodyRanks, BodyClassNames, ClassOfPlain, MessagePlaced
  <1>7. AllPlaced(body_specialize_msg(AnSessionResp), 13)
    BY <1>1, BodyPlaces, BodyRanks, BodyClassNames, ClassOfPlain, MessagePlaced
  <1>8. classes_of_specialize_respmsg = body_specialize_msg(AnsonResp)
    BY BodyClassNames, BodyAndMessage, Zenon DEF classes_of_specialize_respmsg
  <1> QED
    BY <1>2, <1>3, <1>4, <1>5, <1>6, <1>7, <1>8
    DEF classes_of_load_usereqAst_ext, classes_of_load_echoAst_ext, classes_of_load_heartbeatAst,
        classes_of_load_ansessionreqAst, classes_of_load_ansessionrespAst

LEMMA CrudPlaced == AllPlaced(classes_of_setup_jserv_crud, 7)
  <1>1. PICK q, u, i : /\ q = body_specialize_msg(AnQueryReq) /\ u = body_specialize_msg(AnUpdateReq)
                       /\ i = body_specialize_msg(AnInsertReq)
    OBVIOUS
  <1> DEFINE S == {q[1], q[2], u[1], u[2], i[1], i[2]}
  <1>2. q \in Seq(S) /\ u \in Seq(S) /\ i \in Seq(S)
    BY <1>1 DEF body_specialize_msg
  <1> HIDE DEF S
  <1>3. {"AnQueryReq", "AnUpdateReq", "AnInsertReq"} \subseteq BodyIds
    BY DEF BodyIds
  <1>4. AllPlaced(q, 7) /\ AllPlaced(u, 7) /\ AllPlaced(i, 7)
    BY <1>1, <1>3, BodyPlaces, BodyRanks, BodyClassNames, ClassOfPlain, MessagePlaced
  <1>5. ASSUME NEW one \in Seq(S), NEW two \in Seq(S), AllPlaced(one, 7), AllPlaced(two, 7)
        PROVE  one \o two \in Seq(S) /\ AllPlaced(one \o two, 7)
    <2>1. one \o two \in Seq(S) /\ Joins(one \o two, one, two)
      BY ConcatJoins
    <2> QED
      BY <1>5, <2>1, Zenon DEF AllPlaced, Joins
  <1>6. q \o u \in Seq(S) /\ AllPlaced(q \o u, 7)
    BY <1>2, <1>4, <1>5
  <1>7. AllPlaced((q \o u) \o i, 7)
    BY <1>2, <1>4, <1>5, <1>6
  <1>8. classes_of_setup_jserv_crud = (q \o u) \o i
    BY <1>1, Zenon DEF classes_of_setup_jserv_crud
  <1> QED
    BY <1>7, <1>8

LEMMA SinglesPlaced ==
  /\ AllPlaced(<<MsgCode>>, 4) /\ AllPlaced(<<Port>>, 5)
  /\ AllPlaced(classes_of_register_peersettings, 10)
  /\ AllPlaced(classes_of_register_langstringAst, 0)
  <1>1. \A id \in {"MsgCode", "Port", "PeerSettings", "LangString"} :
          id \in ClassIds \ {"JavaEnum"} /\ id \notin DOMAIN AstChain
    BY DEF ClassIds, AstChain
  <1>2. /\ ClassStage("MsgCode") = 4 /\ ClassStage("Port") = 5
        /\ ClassStage("PeerSettings") = 10 /\ ClassStage("LangString") = 0
    BY DEF ClassStage, AstIds, MessageIds
  <1>3. /\ Rank("") < Rank("MsgCode") /\ Rank("JavaEnum") < Rank("Port")
        /\ Rank("Anson") < Rank("PeerSettings") /\ Rank("Anson") < Rank("LangString")
    BY RankOf, Ascending, Zenon
  <1>4. /\ Placed(MsgCode, 4) /\ Placed(Port, 5) /\ Placed(PeerSettings, 10) /\ Placed(LangString, 0)
    BY <1>1, <1>2, <1>3, OtherClassNames, ClassOfPlain, PlacedByName
  <1> QED
    BY <1>4, SinglePlaced DEF classes_of_register_peersettings, classes_of_register_langstringAst

-----------------------------------------------------------------------------
(* A step leaves a table as it is or extends it.                           *)

\* The AST of a class, with the blank perhaps.
AstParts == {"base", "fields", "answers", "asks_base"}
Made(ast, id) ==
  /\ id \in RegisteredIds /\ AstParts \subseteq DOMAIN ast
  /\ ast.base = ClassOf(id).base
  /\ ast.answers = ClassOf(id).answers /\ ast.asks_base = ClassOf(id).asks_base
  /\ \/ ast.fields = ClassOf(id).fields
     \/ id = "AnsonBodyAst" /\ ast.fields = IndexFields(ClassOf(id).fields)

\* The table of a context whose next function is n.
Settled(astmap, n) ==
  /\ Ranked(astmap) /\ ChainOK(astmap)
  /\ \A id \in DOMAIN astmap : Made(astmap[id], id) /\ Stage(id) < n

\* Reading a text changes nothing but that blank.
Reads(read, astmap) ==
  /\ DOMAIN read = DOMAIN astmap
  /\ \A id \in DOMAIN astmap :
       /\ Made(read[id], id) /\ read[id].base = astmap[id].base
       /\ \/ read[id].fields = astmap[id].fields
          \/ id = "AnsonBodyAst" /\ read[id].fields = IndexFields(astmap[id].fields)

\* The second text finds the blank of the first.
LEMMA IndexedTwice ==
  ASSUME NEW fields
  PROVE  IndexFields(IndexFields(fields)) = IndexFields(fields)
  <1>1. PICK f : f = [fields |-> NoType]
    OBVIOUS
  <1>2. DOMAIN f = {"fields"} /\ f["fields"] = NoType
    BY <1>1
  <1>3. ASSUME NEW g
        PROVE  IndexFields(g) = [k \in DOMAIN f \cup DOMAIN g |-> IF k \in DOMAIN g THEN g[k] ELSE f[k]]
    BY <1>1 DEF IndexFields, Replacing
  <1>4. PICK once : once = IndexFields(fields)
    OBVIOUS
  <1>5. once = [k \in DOMAIN f \cup DOMAIN fields |-> IF k \in DOMAIN fields THEN fields[k] ELSE f[k]]
    BY <1>3, <1>4
  <1>6. IndexFields(once) = [k \in DOMAIN f \cup DOMAIN once |-> IF k \in DOMAIN once THEN once[k] ELSE f[k]]
    BY <1>3
  <1>7. DOMAIN f \cup DOMAIN once = DOMAIN once
    BY <1>5
  <1>8. once = [k \in DOMAIN once |-> once[k]]
    BY <1>5
  <1>9. IndexFields(once) = once
    BY <1>6, <1>7, <1>8
  <1> QED
    BY <1>4, <1>9

LEMMA TextReads ==
  ASSUME NEW astmap, NEW n, Settled(astmap, n), NEW read \in {astmap, ReadText(astmap)}
  PROVE  Reads(read, astmap)
  <1>1. CASE read = astmap
    BY <1>1 DEF Reads, Settled
  <1>2. CASE read = ReadText(astmap)
    <2>1. DOMAIN read = DOMAIN astmap
      BY <1>2 DEF ReadText
    <2>2. ASSUME NEW id \in DOMAIN astmap
          PROVE  /\ Made(read[id], id) /\ read[id].base = astmap[id].base
                 /\ \/ read[id].fields = astmap[id].fields
                    \/ id = "AnsonBodyAst" /\ read[id].fields = IndexFields(astmap[id].fields)
      <3>1. Made(astmap[id], id) /\ AstParts \subseteq DOMAIN astmap[id]
        BY DEF Settled, Made
      <3>2. CASE id = "AnsonBodyAst"
        <4>1. read[id] = [astmap[id] EXCEPT !.fields = IndexFields(@)]
          BY <1>2, <3>2 DEF ReadText
        <4>2. /\ DOMAIN read[id] = DOMAIN astmap[id] /\ read[id].base = astmap[id].base
              /\ read[id].answers = astmap[id].answers /\ read[id].asks_base = astmap[id].asks_base
              /\ read[id].fields = IndexFields(astmap[id].fields)
          BY <3>1, <4>1 DEF AstParts
        <4>3. read[id].fields = IndexFields(ClassOf(id).fields)
          BY <3>1, <4>2, IndexedTwice DEF Made
        <4> QED
          BY <3>1, <3>2, <4>2, <4>3 DEF Made
      <3>3. CASE id # "AnsonBodyAst"
        BY <1>2, <3>1, <3>3 DEF ReadText
      <3> QED
        BY <3>2, <3>3
    <2> QED
      BY <2>1, <2>2 DEF Reads
  <1> QED
    BY <1>1, <1>2

\* The blank declares nothing.
LEMMA BlankUndeclared ==
  ASSUME NEW fields, Undeclared(fields)
  PROVE  Undeclared(IndexFields(fields))
  <1> PICK f : f = [fields |-> NoType]
    OBVIOUS
  <1>1. DOMAIN f = {"fields"} /\ f["fields"] = NoType
    OBVIOUS
  <1>2. IndexFields(fields) = Replacing(f, fields)
    BY DEF IndexFields
  <1> QED
    BY <1>1, <1>2 DEF Replacing, Undeclared

\* Classes of a turn, none of them in the table yet, extend it.
LEMMA TableExtended ==
  ASSUME NEW astmap, NEW n \in Nat, NEW k \in Nat, NEW m \in Nat, n <= m, k < m,
         Settled(astmap, n), BasesIn(astmap, DOMAIN astmap \cup {"JavaEnum"}),
         NEW read, Reads(read, astmap),
         NEW classes, AllPlaced(classes, k), Ids(classes) \cap DOMAIN astmap = {}
  PROVE  LET new == Replacing(read, AstsOf(classes))
         IN Extends(astmap, new) /\ Settled(new, m)
  <1> DEFINE new == Replacing(read, AstsOf(classes))
  <1>1. /\ DOMAIN AstsOf(classes) = Ids(classes)
        /\ \A id \in Ids(classes) : AstsOf(classes)[id] = AstOf(LastOf(classes, id))
    BY DEF AstsOf
  <1>2. /\ DOMAIN new = DOMAIN astmap \cup Ids(classes)
        /\ \A id \in Ids(classes) : new[id] = AstOf(LastOf(classes, id))
        /\ \A id \in DOMAIN astmap : new[id] = read[id]
    BY <1>1 DEF Replacing, Reads
  <1> HIDE DEF new
  <1>3. ASSUME NEW id \in Ids(classes)
        PROVE  /\ Stage(id) = k /\ Rank(new[id].base) < Rank(id)
               /\ Made(new[id], id)
               /\ id \in DOMAIN AstChain => new[id].base = AstChain[id] /\ Undeclared(new[id].fields)
    <2>1. PICK i \in DOMAIN classes : LastOf(classes, id) = classes[i] /\ classes[i].id = id
      BY DEF Ids, LastOf
    <2>2. Placed(classes[i], k)
      BY DEF AllPlaced
    <2>3. new[id] = AstOf(classes[i])
      BY <1>2, <2>1
    <2>4. /\ new[id].base = classes[i].base /\ new[id].fields = classes[i].fields
          /\ new[id].answers = classes[i].answers /\ new[id].asks_base = classes[i].asks_base
          /\ AstParts \subseteq DOMAIN new[id]
      BY <2>3 DEF AstOf, AstParts
    <2>5. Made(new[id], id)
      BY <2>1, <2>2, <2>4, Zenon DEF Placed, Made
    <2> QED
      BY <2>1, <2>2, <2>4, <2>5, Zenon DEF Placed
  <1>4. ASSUME NEW id \in DOMAIN astmap
        PROVE  /\ Made(new[id], id) /\ new[id].base = astmap[id].base
               /\ \/ new[id].fields = astmap[id].fields
                  \/ id = "AnsonBodyAst" /\ new[id].fields = IndexFields(astmap[id].fields)
    BY <1>2 DEF Reads
  <1>5. Ranked(new)
    <2> SUFFICES ASSUME NEW id \in DOMAIN new
                 PROVE  Rank(new[id].base) < Rank(id)
      BY DEF Ranked
    <2>1. CASE id \in Ids(classes)
      BY <1>3, <2>1, Zenon
    <2>2. CASE id \in DOMAIN astmap
      <3>1. new[id].base = astmap[id].base /\ Rank(astmap[id].base) < Rank(id)
        BY <1>4, <2>2 DEF Settled, Ranked
      <3> QED
        BY <3>1, Zenon
    <2> QED
      BY <1>2, <2>1, <2>2
  <1>6. ChainOK(new)
    <2> SUFFICES ASSUME NEW id \in DOMAIN new \cap DOMAIN AstChain
                 PROVE  new[id].base = AstChain[id] /\ Undeclared(new[id].fields)
      BY DEF ChainOK
    <2>1. CASE id \in Ids(classes)
      BY <1>3, <2>1
    <2>2. CASE id \in DOMAIN astmap
      <3>1. astmap[id].base = AstChain[id] /\ Undeclared(astmap[id].fields)
        BY <2>2 DEF Settled, ChainOK
      <3>2. Undeclared(new[id].fields)
        BY <1>4, <2>2, <3>1, BlankUndeclared, Zenon
      <3> QED
        BY <1>4, <2>2, <3>1, <3>2
    <2> QED
      BY <1>2, <2>1, <2>2
  <1>7. ASSUME NEW id \in DOMAIN new
        PROVE  Made(new[id], id) /\ Stage(id) < m
    <2>1. CASE id \in Ids(classes)
      <3>1. Stage(id) = k
        BY <1>3, <2>1
      <3> QED
        BY <1>3, <2>1, <3>1
    <2>2. CASE id \in DOMAIN astmap
      <3>1. Stage(id) < n
        BY <2>2 DEF Settled
      <3>2. Stage(id) \in Nat
        BY StageIsTurn
      <3> QED
        BY <1>4, <2>2, <3>1, <3>2
    <2> QED
      BY <1>2, <2>1, <2>2
  <1>8. ASSUME NEW id \in DOMAIN astmap, astmap[id].base \in DOMAIN new
        PROVE  astmap[id].base \in DOMAIN astmap
    <2>1. astmap[id].base \in DOMAIN astmap \cup {"JavaEnum", ""}
      BY DEF BasesIn
    <2>2. Rank("JavaEnum") = 0 /\ Rank("") = 0
      BY RankOf
    <2>3. "JavaEnum" \notin DOMAIN new /\ "" \notin DOMAIN new
      BY <1>5, <2>2, LowestUnregistered
    <2> QED
      BY <1>8, <2>1, <2>3
  <1>9. Extends(astmap, new)
    BY <1>2, <1>4, <1>5, <1>8 DEF Extends, Settled
  <1>10. Settled(new, m)
    BY <1>5, <1>6, <1>7 DEF Settled
  <1> QED
    BY <1>9, <1>10 DEF new

LEMMA TableKept ==
  ASSUME NEW astmap, NEW n, Settled(astmap, n), BasesIn(astmap, DOMAIN astmap \cup {"JavaEnum"})
  PROVE  Extends(astmap, astmap)
  BY DEF Settled, Extends

\* The EnTT types that all contexts share.
TypesMade(types) == \A id \in DOMAIN types : id \in RegisteredIds /\ types[id] = EnttOf(ClassOf(id))
CodeIds == {"MsgCode"}  \* classes with an AST and no EnTT type
TypesOK == TypesMade(entt) /\ \A c \in Ctx : DOMAIN asts[c] \ CodeIds \subseteq DOMAIN entt

\* The invariant: beside RegInv, the tables settled and JavaEnum the only alias.
SettledInv ==
  /\ RegInv /\ TypesOK
  /\ \A c \in Ctx : Settled(asts[c], turn[c]) /\ aliases[c] \subseteq {"JavaEnum"}

\* Every step takes its context c from turn k, or from any turn, where the step
\* is not in the order, to a turn m by classes of which the table has none.
Adds(c, classes) ==
  /\ \E read \in {asts[c], ReadText(asts[c])} :
       asts' = [asts EXCEPT ![c] = Replacing(read, AstsOf(classes))]
  /\ InstallTypes(classes) \/ (entt' = entt /\ Ids(classes) \subseteq CodeIds)
Advances(c, m) ==
  /\ turn' = [turn EXCEPT ![c] = m] /\ m >= turn[c]
  /\ aliases' \in {aliases, [aliases EXCEPT ![c] = @ \cup {"JavaEnum"}]}
TablesExtended == \A d \in Ctx : Extends(asts[d], asts'[d])

LEMMA ContextAdvances ==
  ASSUME NEW c \in Ctx, NEW m \in Nat, SettledInv, RegInv', TypesOK', Advances(c, m), DOMAIN asts' = Ctx,
         \A d \in Ctx \ {c} : asts'[d] = asts[d],
         Extends(asts[c], asts'[c]), Settled(asts'[c], m)
  PROVE  TablesExtended /\ SettledInv'
  <1>1. /\ turn'[c] = m /\ \A d \in Ctx \ {c} : turn'[d] = turn[d]
        /\ DOMAIN aliases = Ctx
    BY DEF Advances, SettledInv, RegInv, Shaped
  <1>2. ASSUME NEW d \in Ctx
        PROVE  aliases'[d] \subseteq {"JavaEnum"}
    <2>1. aliases[d] \subseteq {"JavaEnum"}
      BY DEF SettledInv
    <2> QED
      BY <1>1, <2>1 DEF Advances
  <1>3. ASSUME NEW d \in Ctx \ {c}
        PROVE  Extends(asts[d], asts'[d]) /\ Settled(asts'[d], turn'[d])
    <2>1. /\ Settled(asts[d], turn[d]) /\ aliases[d] \subseteq {"JavaEnum"}
          /\ BasesIn(asts[d], DOMAIN asts[d] \cup aliases[d])
      BY DEF SettledInv, RegInv, Known
    <2>2. BasesIn(asts[d], DOMAIN asts[d] \cup {"JavaEnum"})
      BY <2>1 DEF BasesIn
    <2> QED
      BY <1>1, <2>1, <2>2, TableKept
  <1>4. \A d \in Ctx : Extends(asts[d], asts'[d]) /\ Settled(asts'[d], turn'[d])
    BY <1>1, <1>3
  <1> QED
    BY <1>2, <1>4 DEF TablesExtended, SettledInv

LEMMA TypesInstalled ==
  ASSUME NEW types, TypesMade(types), NEW classes, NEW k, AllPlaced(classes, k)
  PROVE  LET new == Replacing(types, [id \in Ids(classes) |-> EnttOf(LastOf(classes, id))])
         IN TypesMade(new) /\ DOMAIN new = DOMAIN types \cup Ids(classes)
  <1> DEFINE brought == [id \in Ids(classes) |-> EnttOf(LastOf(classes, id))]
             new == Replacing(types, brought)
  <1>1. /\ DOMAIN brought = Ids(classes)
        /\ \A id \in Ids(classes) : brought[id] = EnttOf(LastOf(classes, id))
    OBVIOUS
  <1> HIDE DEF brought
  <1>2. /\ DOMAIN new = DOMAIN types \cup Ids(classes)
        /\ \A id \in DOMAIN new :
             new[id] = IF id \in Ids(classes) THEN EnttOf(LastOf(classes, id)) ELSE types[id]
    BY <1>1 DEF Replacing
  <1>3. ASSUME NEW id \in Ids(classes)
        PROVE  id \in RegisteredIds /\ LastOf(classes, id) = ClassOf(id)
    <2>1. PICK i \in DOMAIN classes : LastOf(classes, id) = classes[i] /\ classes[i].id = id
      BY DEF Ids, LastOf
    <2> QED
      BY <2>1, Zenon DEF AllPlaced, Placed
  <1> HIDE DEF new
  <1>4. TypesMade(new)
    BY <1>2, <1>3 DEF TypesMade
  <1> QED
    BY <1>2, <1>4 DEF new, brought

LEMMA ClassesAdded ==
  ASSUME NEW c \in Ctx, NEW classes, NEW k \in Nat, NEW m \in Nat, SettledInv, RegInv',
         Adds(c, classes), Advances(c, m), AllPlaced(classes, k), k < m,
         Ids(classes) \cap DOMAIN asts[c] = {}
  PROVE  TablesExtended /\ SettledInv'
  <1>1. /\ Settled(asts[c], turn[c]) /\ aliases[c] \subseteq {"JavaEnum"} /\ turn[c] \in Nat
        /\ BasesIn(asts[c], DOMAIN asts[c] \cup aliases[c]) /\ DOMAIN asts = Ctx
    BY DEF SettledInv, RegInv, Shaped, Known
  <1>2. BasesIn(asts[c], DOMAIN asts[c] \cup {"JavaEnum"})
    BY <1>1 DEF BasesIn
  <1>3. PICK read \in {asts[c], ReadText(asts[c])} :
          asts' = [asts EXCEPT ![c] = Replacing(read, AstsOf(classes))]
    BY DEF Adds
  <1>4. Reads(read, asts[c])
    BY <1>1, TextReads
  <1>5. turn[c] <= m
    BY <1>1 DEF Advances
  <1>6. /\ Extends(asts[c], Replacing(read, AstsOf(classes)))
        /\ Settled(Replacing(read, AstsOf(classes)), m)
    BY <1>1, <1>2, <1>4, <1>5, TableExtended
  <1>7. /\ DOMAIN asts' = Ctx /\ asts'[c] = Replacing(read, AstsOf(classes))
        /\ \A d \in Ctx \ {c} : asts'[d] = asts[d]
    BY <1>1, <1>3
  <1>8. TypesMade(entt') /\ DOMAIN entt \cup (Ids(classes) \ CodeIds) \subseteq DOMAIN entt'
    <2>1. CASE InstallTypes(classes)
      <3>1. TypesMade(entt') /\ DOMAIN entt' = DOMAIN entt \cup Ids(classes)
        BY <2>1, TypesInstalled DEF InstallTypes, SettledInv, TypesOK
      <3> QED
        BY <3>1
    <2>2. CASE entt' = entt /\ Ids(classes) \subseteq CodeIds
      BY <2>2 DEF SettledInv, TypesOK
    <2> QED
      BY <2>1, <2>2 DEF Adds
  <1>9. DOMAIN asts'[c] = DOMAIN asts[c] \cup Ids(classes)
    BY <1>4, <1>7 DEF Reads, Replacing, AstsOf
  <1>10. ASSUME NEW d \in Ctx
         PROVE  DOMAIN asts'[d] \ CodeIds \subseteq DOMAIN entt'
    BY <1>7, <1>8, <1>9 DEF SettledInv, TypesOK
  <1>11. TypesOK'
    BY <1>8, <1>10 DEF TypesOK
  <1> QED
    BY <1>6, <1>7, <1>11, ContextAdvances

\* A function in the order adds classes of its own turn: none is there yet.
LEMMA TurnAdds ==
  ASSUME NEW c \in Ctx, NEW step, NEW classes, SettledInv, RegInv', Turn(c, step),
         Adds(c, classes), aliases' \in {aliases, [aliases EXCEPT ![c] = @ \cup {"JavaEnum"}]},
         AllPlaced(classes, turn[c])
  PROVE  TablesExtended /\ SettledInv'
  <1>1. PICK k \in Nat : k = turn[c]
    BY DEF SettledInv, RegInv, Shaped
  <1>2. Advances(c, k + 1) /\ k + 1 \in Nat /\ k < k + 1
    BY <1>1 DEF Turn, Advances
  <1>3. ASSUME NEW id \in Ids(classes)
        PROVE  id \notin DOMAIN asts[c]
    <2>1. PICK i \in DOMAIN classes : classes[i].id = id
      BY DEF Ids
    <2>2. Stage(id) = k
      BY <1>1, <2>1, Zenon DEF AllPlaced, Placed
    <2>3. id \in DOMAIN asts[c] => Stage(id) < k
      BY <1>1 DEF SettledInv, Settled
    <2> QED
      BY <2>2, <2>3
  <1> QED
    BY <1>1, <1>2, <1>3, ClassesAdded

LEMMA InstallAdds ==
  ASSUME NEW c \in Ctx, NEW classes, Install(c, classes) \/ Load(c, classes)
  PROVE  Adds(c, classes) /\ aliases' = aliases
  BY DEF Install, InstallAsts, Load, Adds

LEMMA EnumsAdd ==
  ASSUME NEW c \in Ctx, register_enums(c)
  PROVE  Adds(c, <<MsgCode>>) /\ aliases' = aliases /\ var_ctors' = var_ctors
  <1>1. PICK class : class = MsgCode
    OBVIOUS
  <1>2. class.id = "MsgCode" /\ DOMAIN <<class>> = {1} /\ <<class>>[1] = class
    <2>1. class.id = "MsgCode"
      BY <1>1, OtherClassNames DEF Names
    <2> QED
      BY <2>1
  <1>3. Ids(<<class>>) \subseteq CodeIds
    BY <1>2 DEF Ids, CodeIds
  <1>4. /\ asts' = [asts EXCEPT ![c] = Replacing(asts[c], AstsOf(<<class>>))]
        /\ entt' = entt /\ aliases' = aliases /\ var_ctors' = var_ctors
    BY <1>1 DEF register_enums, InstallAsts
  <1> QED
    BY <1>1, <1>3, <1>4 DEF Adds

\* Nothing registered.
LEMMA NothingAdded ==
  ASSUME NEW c \in Ctx, NEW m \in Nat, SettledInv, RegInv', Advances(c, m), asts' = asts, entt' = entt
  PROVE  TablesExtended /\ SettledInv'
  <1>1. /\ Settled(asts[c], turn[c]) /\ aliases[c] \subseteq {"JavaEnum"} /\ turn[c] \in Nat
        /\ BasesIn(asts[c], DOMAIN asts[c] \cup aliases[c]) /\ DOMAIN asts = Ctx
    BY DEF SettledInv, RegInv, Shaped, Known
  <1>2. BasesIn(asts[c], DOMAIN asts[c] \cup {"JavaEnum"})
    BY <1>1 DEF BasesIn
  <1>3. Extends(asts[c], asts'[c])
    BY <1>1, <1>2, TableKept
  <1>4. Settled(asts'[c], m)
    <2> SUFFICES ASSUME NEW id \in DOMAIN asts[c] PROVE Stage(id) < m
      BY <1>1 DEF Settled
    <2>1. Stage(id) < turn[c] /\ turn[c] <= m /\ Stage(id) \in Nat
      BY <1>1, StageIsTurn DEF Settled, Advances
    <2> QED
      BY <1>1, <2>1
  <1>5. TypesOK'
    BY DEF SettledInv, TypesOK
  <1> QED
    BY <1>1, <1>3, <1>4, <1>5, ContextAdvances

LEMMA SettledStep ==
  ASSUME NEW c \in Ctx, SettledInv, RegInv',
         \/ register_varctors(c) \/ register_asts(c) \/ register_msgs(c) \/ register_enums(c)
         \/ register_port(c) \/ specialize_respmsg(c) \/ setup_jserv_crud(c)
         \/ load_usereqAst_ext(c) \/ load_echoAst_ext(c) \/ register_peersettings(c)
         \/ load_heartbeatAst(c) \/ load_ansessionreqAst(c) \/ load_ansessionrespAst(c)
         \/ missing_ast_file(c) \/ register_langstringAst(c)
  PROVE  TablesExtended /\ SettledInv'
  <1>1. turn[c] \in Nat /\ turn \in [Ctx -> Nat]
    BY DEF SettledInv, RegInv, Shaped
  <1>2. ASSUME NEW step, NEW classes, Turn(c, step), Install(c, classes) \/ Load(c, classes),
               AllPlaced(classes, turn[c])
        PROVE  TablesExtended /\ SettledInv'
    BY <1>2, InstallAdds, TurnAdds
  <1>3. CASE register_varctors(c)
    <2>1. Advances(c, turn[c] + 1) /\ asts' = asts /\ entt' = entt /\ turn[c] + 1 \in Nat
      BY <1>1, <1>3 DEF register_varctors, Turn, Advances
    <2> QED
      BY <2>1, NothingAdded
  <1>4. CASE register_asts(c)
    BY <1>2, <1>4, TurnOf, AstsPlaced DEF register_asts
  <1>5. CASE register_msgs(c)
    BY <1>2, <1>5, TurnOf, MessagesPlaced DEF register_msgs
  <1>6. CASE register_enums(c)
    <2>1. Turn(c, "enums") /\ turn[c] = 4
      BY <1>6, TurnOf DEF register_enums
    <2> QED
      BY <1>6, <2>1, EnumsAdd, SinglesPlaced, TurnAdds
  <1>7. CASE register_port(c)
    <2>1. Turn(c, "port") /\ turn[c] = 5
      BY <1>7, TurnOf DEF register_port
    <2>2. /\ asts' = [asts EXCEPT ![c] = Replacing(asts[c], AstsOf(<<Port>>))]
          /\ aliases' = [aliases EXCEPT ![c] = @ \cup {"JavaEnum"}]
          /\ InstallTypes(<<Port>>)
      BY <1>7 DEF register_port, InstallAsts
    <2>3. Adds(c, <<Port>>)
      BY <2>2 DEF Adds
    <2> QED
      BY <2>1, <2>2, <2>3, SinglesPlaced, TurnAdds
  <1>8. CASE specialize_respmsg(c)
    BY <1>2, <1>8, TurnOf, BodiesPlaced DEF specialize_respmsg
  <1>9. CASE setup_jserv_crud(c)
    BY <1>2, <1>9, TurnOf, CrudPlaced DEF setup_jserv_crud
  <1>10. CASE load_usereqAst_ext(c)
    BY <1>2, <1>10, TurnOf, BodiesPlaced DEF load_usereqAst_ext
  <1>11. CASE load_echoAst_ext(c)
    BY <1>2, <1>11, TurnOf, BodiesPlaced DEF load_echoAst_ext
  <1>12. CASE register_peersettings(c)
    BY <1>2, <1>12, TurnOf, SinglesPlaced DEF register_peersettings
  <1>13. CASE load_heartbeatAst(c)
    BY <1>2, <1>13, TurnOf, BodiesPlaced DEF load_heartbeatAst
  <1>14. CASE load_ansessionreqAst(c)
    BY <1>2, <1>14, TurnOf, BodiesPlaced DEF load_ansessionreqAst
  <1>15. CASE load_ansessionrespAst(c)
    BY <1>2, <1>15, TurnOf, BodiesPlaced DEF load_ansessionrespAst
  <1>16. CASE missing_ast_file(c)
    <2>1. Len(script) = 13 /\ DOMAIN script = 1..13
      BY DEF script
    <2>2. Advances(c, 14) /\ asts' = asts /\ entt' = entt
      BY <1>1, <1>16, <2>1 DEF missing_ast_file, Advances
    <2> QED
      BY <2>2, NothingAdded
  <1>17. CASE register_langstringAst(c)
    <2>1. /\ turn[c] > 10 /\ turn' = turn /\ "LangString" \notin DOMAIN asts[c]
          /\ Install(c, classes_of_register_langstringAst)
      BY <1>17 DEF register_langstringAst, JservDone
    <2>2. Adds(c, classes_of_register_langstringAst) /\ aliases' = aliases
      BY <2>1, InstallAdds
    <2>3. Advances(c, turn[c])
      BY <1>1, <2>1, <2>2 DEF Advances
    <2>4. Ids(classes_of_register_langstringAst) = {"LangString"}
      <3>1. PICK class : class = LangString
        OBVIOUS
      <3>2. class.id = "LangString" /\ classes_of_register_langstringAst = <<class>>
        BY <3>1, OtherClassNames DEF classes_of_register_langstringAst, Names
      <3>3. DOMAIN <<class>> = {1} /\ <<class>>[1] = class
        OBVIOUS
      <3> QED
        BY <3>2, <3>3 DEF Ids
    <2> QED
      BY <1>1, <2>1, <2>2, <2>3, <2>4, SinglesPlaced, ClassesAdded
  <1> QED
    BY <1>3, <1>4, <1>5, <1>6, <1>7, <1>8, <1>9, <1>10, <1>11, <1>12, <1>13, <1>14, <1>15, <1>16, <1>17

LEMMA SettledInit == Init => SettledInv
  <1> SUFFICES ASSUME Init PROVE SettledInv
    OBVIOUS
  <1>1. <<>> \in Seq({}) /\ Len(<<>>) = 0
    BY EmptySeq
  <1>2. DOMAIN <<>> = {}
    BY <1>1, LenProperties
  <1> QED
    BY <1>2, RegInvInit DEF Init, SettledInv, Settled, Ranked, ChainOK, TypesOK, TypesMade

LEMMA SettledNext == SettledInv /\ [Next]_vars => SettledInv'
  <1> SUFFICES ASSUME SettledInv, [Next]_vars PROVE SettledInv'
    OBVIOUS
  <1>1. RegInv'
    BY RegInvNext DEF SettledInv
  <1>2. CASE Next
    BY <1>1, <1>2, SettledStep DEF Next
  <1>3. CASE UNCHANGED vars
    BY <1>1, <1>3 DEF vars, SettledInv, TypesOK
  <1> QED
    BY <1>2, <1>3

\* The step of LookupsStay.
LookupsStep ==
  \A c \in Ctx : \A id \in DOMAIN asts[c] :
    \A k \in DOMAIN Fields(c, id) \cup DOMAIN Fields(c, id)' : Lookup(c, id, k)' = Lookup(c, id, k)

LEMMA LookupsNext == SettledInv /\ [Next]_vars => [LookupsStep]_vars
  <1> SUFFICES ASSUME SettledInv, Next PROVE LookupsStep
    OBVIOUS
  <1>1. TablesExtended
    BY RegInvNext, SettledStep DEF Next, SettledInv
  <1>2. ASSUME NEW c \in Ctx, NEW id \in DOMAIN asts[c], NEW k
        PROVE  LookupIn(asts'[c], id, k) = LookupIn(asts[c], id, k)
    BY <1>1, SameLookups DEF TablesExtended
  <1> QED
    BY <1>2 DEF LookupsStep, Lookup, Fields, LookupIn

\* What the parser finds for a field of a registered class, it finds after
\* whatever is registered or read later: for any contexts, whichever are being
\* set up (anserializer.h:608, json.h:89-92).
THEOREM LookupsKept == Spec => LookupsStay
  <1>1. SettledInv /\ [Next]_vars => [LookupsStep]_vars
    BY LookupsNext
  <1>2. [LookupsStep]_vars => [\A c \in Ctx : \A id \in DOMAIN asts[c] :
                                \A k \in DOMAIN Fields(c, id) \cup DOMAIN Fields(c, id)' :
                                  Lookup(c, id, k)' = Lookup(c, id, k)]_vars
    BY DEF LookupsStep
  <1> QED
    BY <1>1, <1>2, SettledInit, SettledNext, PTL DEF Spec, LookupsStay

-----------------------------------------------------------------------------
(* What the registered classes declare and answer.                         *)

\* A class whose getter answers its fields and asks its base's.
Written(class) ==
  /\ {"fields", "answers", "asks_base"} \subseteq DOMAIN class
  /\ class.answers = DOMAIN class.fields /\ class.asks_base = TRUE

LEMMA WrittenMade ==
  ASSUME NEW id, NEW base, NEW fields
  PROVE  /\ Written(Class(id, base, fields)) /\ Declares(Class(id, base, fields), fields)
         /\ Written(Body(id, base, fields)) /\ Declares(Body(id, base, fields), fields)
  <1>1. Written(Class(id, base, fields)) /\ Declares(Class(id, base, fields), fields)
    BY DEF Class, Written, Declares
  <1> QED
    BY <1>1 DEF Body, Written, Declares

LEMMA WrittenAmended ==
  ASSUME NEW class, NEW fields, Written(class), Declares(class, fields), NEW k, NEW l, NEW x, NEW y
  PROVE  /\ Written([class EXCEPT !.data[k] = x]) /\ Declares([class EXCEPT !.data[k] = x], fields)
         /\ Written([class EXCEPT !.data[k] = x, !.data[l] = y])
         /\ Declares([class EXCEPT !.data[k] = x, !.data[l] = y], fields)
  BY DEF Written, Declares

\* A class that has fields of its own, all answered.
WrittenWith(class, k) == Written(class) /\ k \in DOMAIN class.fields

LEMMA FieldWritten ==
  ASSUME NEW class, NEW fields, Written(class), Declares(class, fields), NEW k \in DOMAIN fields
  PROVE  WrittenWith(class, k)
  BY DEF WrittenWith, Declares

LEMMA WrittenMessages ==
  /\ WrittenWith(AnResultset, "rows") /\ WrittenWith(SessionInf, "ssid")
  /\ WrittenWith(AnsonHeader, "uid") /\ WrittenWith(AnsonBody, "uri")
  <1>1. PICK columns, rows : Written(AnResultset) /\ Declares(AnResultset, [columns |-> columns, rows |-> rows])
    BY WrittenMade, Zenon DEF AnResultset
  <1>2. PICK fields : /\ fields = [seq |-> int, ssid |-> str, uid |-> str, roleId |-> str, userName |-> str,
                                   roleName |-> str, ssToken |-> str, device |-> str]
                      /\ Written(SessionInf) /\ Declares(SessionInf, fields)
    BY WrittenMade, Zenon DEF SessionInf
  <1>3. PICK headed : /\ headed = [usrAct |-> list(str), uid |-> str, ssid |-> str, iv64 |-> str,
                                   ssToken |-> str]
                      /\ Written(AnsonHeader) /\ Declares(AnsonHeader, headed)
    BY WrittenMade, Zenon DEF AnsonHeader
  <1>4. Written(AnsonBody) /\ Declares(AnsonBody, Strings({"uri", "a"}))
    BY WrittenMade, Zenon DEF AnsonBody
  <1>5. /\ "rows" \in DOMAIN [columns |-> columns, rows |-> rows]
        /\ "ssid" \in DOMAIN fields /\ "uid" \in DOMAIN headed
        /\ "uri" \in DOMAIN Strings({"uri", "a"})
    BY <1>2, <1>3 DEF Strings
  <1> QED
    BY <1>1, <1>2, <1>3, <1>4, <1>5, FieldWritten

LEMMA WrittenRequests ==
  /\ WrittenWith(AnQueryReq, "mtabl") /\ WrittenWith(AnUpdateReq, "mtabl")
  /\ Written(AnInsertReq) /\ Declares(AnInsertReq, <<>>)
  <1>1. PICK asked : /\ asked = [mtabl |-> str, mAlias |-> str, page |-> int, pgsize |-> int,
                                 groups |-> list(str), limt |-> list(str),
                                 joins |-> table(str), exprs |-> table(str), where |-> table(str),
                                 orders |-> table(str), havings |-> table(str)]
                     /\ Written(AnQueryReq) /\ Declares(AnQueryReq, asked)
    BY WrittenMade, Zenon DEF AnQueryReq
  <1>2. PICK updated : /\ updated = [mtabl |-> str, limt |-> str, nvs |-> table(cls("VarType")),
                                     nvss |-> list(table(cls("VarType"))),
                                     cols |-> table(str), where |-> table(cls("VarTypae")),
                                     postUpds |-> list(cls("AnUpdateReq")),
                                     attacheds |-> table(cls("VarType"))]
                       /\ Written(AnUpdateReq) /\ Declares(AnUpdateReq, updated)
    BY WrittenMade, WrittenAmended, Zenon DEF AnUpdateReq
  <1>3. "mtabl" \in DOMAIN asked /\ "mtabl" \in DOMAIN updated
    BY <1>1, <1>2
  <1>4. Written(AnInsertReq) /\ Declares(AnInsertReq, <<>>)
    BY WrittenMade, Zenon DEF AnInsertReq
  <1> QED
    BY <1>1, <1>2, <1>3, <1>4, FieldWritten

LEMMA WrittenBodies ==
  /\ WrittenWith(AnsonResp, "map") /\ WrittenWith(UserReq, "data") /\ WrittenWith(EchoReq, "echo")
  /\ WrittenWith(HeartBeat, "ssid") /\ WrittenWith(AnSessionReq, "uid")
  /\ WrittenWith(AnSessionResp, "ssInf")
  <1>1. PICK m, rs, x : Written(AnsonResp) /\ Declares(AnsonResp, [m |-> m, rs |-> rs, map |-> x])
    BY WrittenMade, WrittenAmended, Zenon DEF AnsonResp
  <1>2. PICK data : Written(UserReq) /\ Declares(UserReq, [data |-> data])
    BY WrittenMade, Zenon DEF UserReq
  <1>3. PICK echo : Written(EchoReq) /\ Declares(EchoReq, [echo |-> echo])
    BY WrittenMade, Zenon DEF EchoReq
  <1>4. PICK ssid, uid : Written(HeartBeat) /\ Declares(HeartBeat, [ssid |-> ssid, uid |-> uid])
    BY WrittenMade, Zenon DEF HeartBeat
  <1>5. Written(AnSessionReq) /\ Declares(AnSessionReq, Strings({"uid", "token", "iv", "deviceId"}))
    BY WrittenMade, Zenon DEF AnSessionReq
  <1>6. PICK inf, profile :
          Written(AnSessionResp) /\ Declares(AnSessionResp, [ssInf |-> inf, profile |-> profile])
    BY WrittenMade, Zenon DEF AnSessionResp
  <1>7. /\ "map" \in DOMAIN [m |-> m, rs |-> rs, map |-> x]
        /\ "data" \in DOMAIN [data |-> data] /\ "echo" \in DOMAIN [echo |-> echo]
        /\ "ssid" \in DOMAIN [ssid |-> ssid, uid |-> uid]
        /\ "uid" \in DOMAIN Strings({"uid", "token", "iv", "deviceId"})
        /\ "ssInf" \in DOMAIN [ssInf |-> inf, profile |-> profile]
    BY DEF Strings
  <1> QED
    BY <1>1, <1>2, <1>3, <1>4, <1>5, <1>6, <1>7, FieldWritten

LEMMA WrittenOthers ==
  /\ WrittenWith(PeerSettings, "ansons") /\ WrittenWith(LangString, "lang")
  /\ \A T \in BodyIds : WrittenWith(specialize_req(T), "port")
  <1>1. PICK set : /\ set = [ansonMsg |-> str, ansonBody |-> str, cpp_gen |-> str,
                             ansons |-> list(str), scopeEnums |-> list(str), javaEnums |-> list(str),
                             anRequests |-> list(str)]
                   /\ Written(PeerSettings) /\ Declares(PeerSettings, set)
    BY WrittenMade, Zenon DEF PeerSettings
  <1>2. PICK lang, en, loc : Written(LangString) /\ Declares(LangString, [lang |-> lang, en |-> en, local |-> loc])
    BY WrittenMade, Zenon DEF LangString
  <1>3. ASSUME NEW T \in BodyIds
        PROVE  WrittenWith(specialize_req(T), "port")
    <2>1. PICK sent : /\ sent = [port |-> cls("JavaEnum"), code |-> cls("MsgCode"), version |-> str, seq |-> int,
                                 header |-> cls("AnsonHeader"), body |-> list(ptr(cls(T)))]
                      /\ Written(specialize_req(T)) /\ Declares(specialize_req(T), sent)
      BY WrittenMade, Zenon DEF specialize_req
    <2>2. "port" \in DOMAIN sent
      BY <2>1
    <2> QED
      BY <2>1, <2>2, FieldWritten
  <1>4. "ansons" \in DOMAIN set /\ "lang" \in DOMAIN [lang |-> lang, en |-> en, local |-> loc]
    BY <1>1
  <1> QED
    BY <1>1, <1>2, <1>3, <1>4, FieldWritten

\* The classes that declare nothing, and their bases; and SemanticObject, which
\* does not answer what it declares.
BareIds == {"IJsonable", "Anson", "Semantics", "MsgCode", "Port"}
Bare == {"", "JavaEnum", "IJsonable", "Anson"}

LEMMA BareClasses ==
  ASSUME NEW id \in BareIds
  PROVE  DOMAIN ClassOf(id).fields = {} /\ ClassOf(id).base \in Bare /\ id \notin AstClasses
  <1>1. <<>> \in Seq({}) /\ Len(<<>>) = 0
    BY EmptySeq
  <1>2. DOMAIN <<>> = {}
    BY <1>1, LenProperties
  <1>3. Declares(IJsonable, <<>>) /\ Declares(Anson, <<>>)
    BY FieldsMade, FieldsAmended, Zenon DEF IJsonable, Anson
  <1>4. Declares(Semantics, <<>>) /\ Declares(MsgCode, <<>>) /\ Declares(Port, <<>>)
    BY FieldsMade, Zenon DEF Semantics, MsgCode, Port
  <1>5. /\ IJsonable.base = "" /\ Anson.base = "IJsonable" /\ Semantics.base = "Anson"
        /\ MsgCode.base = "" /\ Port.base = "JavaEnum"
    BY AstClassNames, OtherClassNames, Zenon DEF Names
  <1>6. /\ id = "IJsonable" => ClassOf(id) = IJsonable
        /\ id = "Anson" => ClassOf(id) = Anson
        /\ id = "Semantics" => ClassOf(id) = Semantics
        /\ id = "MsgCode" => ClassOf(id) = MsgCode
        /\ id = "Port" => ClassOf(id) = Port
    BY ClassOfPlain
  <1>7. id \notin AstClasses
    BY DEF BareIds, AstClasses
  <1> QED
    BY <1>2, <1>3, <1>4, <1>5, <1>6, <1>7 DEF Declares, BareIds, Bare

LEMMA SemanticObjectIs ==
  /\ DOMAIN SemanticObject.fields = {"data"} /\ SemanticObject.fields["data"] = map(str)
  /\ SemanticObject.answers = {} /\ SemanticObject.asks_base = FALSE
  <1> DEFINE ReadBack(class, fields) == /\ {"fields", "answers", "asks_base"} \subseteq DOMAIN class
                                        /\ class.fields = fields
                                        /\ class.answers = {} /\ class.asks_base = FALSE
  <1>1. ASSUME NEW id, NEW base, NEW fields
        PROVE  ReadBack(ReadOnly(Class(id, base, fields)), fields)
    BY DEF Class, ReadOnly
  <1>2. ASSUME NEW class, NEW fields, ReadBack(class, fields), NEW k, NEW x
        PROVE  ReadBack([class EXCEPT !.data[k] = x], fields)
    BY <1>2
  <1> HIDE DEF ReadBack
  <1>3. ReadBack(SemanticObject, [data |-> map(str)])
    BY <1>1, <1>2, Zenon DEF SemanticObject
  <1> QED
    BY <1>3 DEF ReadBack

\* All the others have fields of their own and answer them, but for AnInsertReq,
\* which has none; each is over a class of its kind.
WrittenIds == RegisteredIds \ (AstClasses \cup BareIds \cup {"SemanticObject"})
WrittenBases == {"Anson", "AnsonBody", "AnUpdateReq", "AnsonResp"}

LEMMA WrittenClasses ==
  ASSUME NEW id \in WrittenIds
  PROVE  /\ Written(ClassOf(id)) /\ ClassOf(id).base \in WrittenBases
         /\ id # "AnInsertReq" => DOMAIN ClassOf(id).fields # {}
  <1> DEFINE Fine(x) == /\ Written(ClassOf(x)) /\ ClassOf(x).base \in WrittenBases
                        /\ x # "AnInsertReq" => DOMAIN ClassOf(x).fields # {}
  <1>1. ASSUME NEW class, NEW x, NEW base \in WrittenBases, NEW k, Names(class, x, base), WrittenWith(class, k),
               ClassOf(x) = class
        PROVE  Fine(x)
    BY <1>1 DEF Names, WrittenWith
  <1>2. {"Anson", "AnsonBody", "AnUpdateReq", "AnsonResp"} \subseteq WrittenBases
    BY DEF WrittenBases
  <1>3. Fine("AnInsertReq")
    BY <1>2, WrittenRequests, BodyClassNames, ClassOfPlain DEF Names
  <1> HIDE DEF Fine
  <1>4. /\ Fine("AnResultset") /\ Fine("SessionInf") /\ Fine("AnsonHeader") /\ Fine("AnsonBody")
    BY <1>1, <1>2, WrittenMessages, MessageClassNames, ClassOfPlain
  <1>5. Fine("AnQueryReq") /\ Fine("AnUpdateReq")
    BY <1>1, <1>2, WrittenRequests, BodyClassNames, ClassOfPlain
  <1>6. /\ Fine("AnsonResp") /\ Fine("UserReq") /\ Fine("EchoReq") /\ Fine("HeartBeat")
        /\ Fine("AnSessionReq") /\ Fine("AnSessionResp")
    BY <1>1, <1>2, WrittenBodies, BodyClassNames, ClassOfPlain
  <1>7. Fine("PeerSettings") /\ Fine("LangString")
    BY <1>1, <1>2, WrittenOthers, OtherClassNames, ClassOfPlain
  <1>8. ASSUME NEW T \in BodyIds
        PROVE  Fine(MsgOf(T))
    <2>1. PICK body, i, base : Names(body, i, base) /\ i = T
      <3>1. Names(Class(T, "", <<>>), T, "")
        BY ClassMade
      <3> QED
        BY <3>1
    <2>2. Names(specialize_req(T), MsgOf(T), "Anson")
      BY <2>1, BodyAndMessage
    <2> QED
      BY <1>1, <1>2, <2>2, WrittenOthers, ClassOfMessage
  <1>9. CASE \E T \in BodyIds : id = MsgOf(T)
    BY <1>8, <1>9 DEF Fine
  <1>10. CASE id \in ClassIds \ {"JavaEnum"}
    <2>1. id \in {"AnResultset", "SessionInf", "AnsonHeader", "AnsonBody", "AnQueryReq", "AnUpdateReq",
                  "AnInsertReq", "AnsonResp", "UserReq", "EchoReq", "HeartBeat", "AnSessionReq",
                  "AnSessionResp", "PeerSettings", "LangString"}
      BY <1>10 DEF WrittenIds, RegisteredIds, ClassIds, BodyIds, AstClasses, BareIds
    <2>2. Fine(id)
      BY <1>3, <1>4, <1>5, <1>6, <1>7, <2>1
    <2> QED
      BY <2>2 DEF Fine
  <1> QED
    BY <1>9, <1>10 DEF WrittenIds, RegisteredIds

-----------------------------------------------------------------------------
(* The fields and the answers of a registered class.                       *)

\* What the recursion of Answered finds.
LEMMA AnswersInherited ==
  ASSUME NEW astmap, Ranked(astmap), NEW id \in DOMAIN astmap
  PROVE  \A k : k \in DOMAIN AnswersOf(astmap)[id] <=>
                  \/ k \in astmap[id].answers
                  \/ /\ astmap[id].asks_base /\ astmap[id].base \in DOMAIN astmap
                     /\ k \in DOMAIN AnswersOf(astmap)[astmap[id].base]
  <1> DEFINE own == [x \in DOMAIN astmap |-> [k \in astmap[x].answers |-> x]]
             base == [x \in DOMAIN astmap |-> IF astmap[x].asks_base THEN astmap[x].base ELSE ""]
  <1>1. /\ DOMAIN own = DOMAIN astmap /\ DOMAIN own[id] = astmap[id].answers
        /\ base[id] = IF astmap[id].asks_base THEN astmap[id].base ELSE ""
        /\ \A x \in DOMAIN astmap : base[x] \in {astmap[x].base, ""}
    OBVIOUS
  <1>2. AnswersOf(astmap) = Inherited(own, base)
    BY DEF AnswersOf
  <1>3. "" \notin DOMAIN astmap
    BY RankOf, LowestUnregistered
  <1> HIDE DEF own, base
  <1>4. Rising(own, base)
    BY <1>1, <1>3 DEF Rising, Ranked
  <1>5. Inherits(AnswersOf(astmap), own, base, id)
    BY <1>1, <1>2, <1>4, InheritedAt
  <1> QED
    BY <1>1, <1>3, <1>5 DEF Inherits

\* Every AST that is there is its class's; but for AnsonBodyAst, its fields are.
LEMMA MadeOf ==
  ASSUME NEW astmap, NEW n, Settled(astmap, n), NEW id \in DOMAIN astmap
  PROVE  /\ id \in RegisteredIds /\ astmap[id].base = ClassOf(id).base
         /\ astmap[id].answers = ClassOf(id).answers /\ astmap[id].asks_base = ClassOf(id).asks_base
         /\ id # "AnsonBodyAst" => astmap[id].fields = ClassOf(id).fields
  BY DEF Settled, Made

LEMMA BareFields ==
  ASSUME NEW astmap, NEW n, Settled(astmap, n), NEW id \in DOMAIN astmap \cap BareIds
  PROVE  DOMAIN FieldsOf(astmap)[id] = {}
  <1>1. Ranked(astmap) /\ "" \notin DOMAIN astmap /\ "JavaEnum" \notin DOMAIN astmap
    BY RankOf, LowestUnregistered DEF Settled
  <1>2. ASSUME NEW x \in DOMAIN astmap \cap BareIds, NEW b, b = astmap[x].base,
               b \in {"IJsonable", "Anson"} \cap DOMAIN astmap => DOMAIN FieldsOf(astmap)[b] = {}
        PROVE  DOMAIN FieldsOf(astmap)[x] = {}
    <2>1. x # "AnsonBodyAst"
      BY DEF BareIds
    <2>2. DOMAIN astmap[x].fields = {} /\ astmap[x].base \in Bare
      BY <2>1, BareClasses, MadeOf
    <2>3. b \in DOMAIN astmap => b \in {"IJsonable", "Anson"}
      BY <1>1, <1>2, <2>2 DEF Bare
    <2>4. \A k : k \notin DOMAIN FieldsOf(astmap)[x]
      BY <1>1, <1>2, <2>2, <2>3, FieldsInherited
    <2> QED
      BY <2>4
  <1>3. ClassOf("IJsonable").base = "" /\ ClassOf("Anson").base = "IJsonable"
    BY AstClassNames, ClassOfPlain DEF Names
  <1>4. /\ "IJsonable" \in DOMAIN astmap => astmap["IJsonable"].base = ""
        /\ "Anson" \in DOMAIN astmap => astmap["Anson"].base = "IJsonable"
        /\ "IJsonable" \in BareIds /\ "Anson" \in BareIds
    BY <1>3, MadeOf DEF BareIds
  <1>5. "IJsonable" \in DOMAIN astmap => DOMAIN FieldsOf(astmap)["IJsonable"] = {}
    BY <1>1, <1>2, <1>4
  <1>6. "Anson" \in DOMAIN astmap => DOMAIN FieldsOf(astmap)["Anson"] = {}
    BY <1>2, <1>4, <1>5
  <1> QED
    BY <1>2, <1>5, <1>6

\* A getter answers what is declared, through the bases too.
LEMMA WrittenAnswered ==
  ASSUME NEW astmap, NEW n, Settled(astmap, n), NEW id \in DOMAIN astmap \cap WrittenIds
  PROVE  DOMAIN FieldsOf(astmap)[id] \subseteq DOMAIN AnswersOf(astmap)[id]
  <1> DEFINE Answers(x) == DOMAIN FieldsOf(astmap)[x] \subseteq DOMAIN AnswersOf(astmap)[x]
  <1>1. Ranked(astmap)
    BY DEF Settled
  <1>2. ASSUME NEW x \in DOMAIN astmap \cap WrittenIds,
               astmap[x].base \in DOMAIN astmap => Answers(astmap[x].base)
        PROVE  Answers(x)
    <2>1. x # "AnsonBodyAst"
      BY DEF WrittenIds, AstClasses
    <2>2. astmap[x].answers = DOMAIN astmap[x].fields /\ astmap[x].asks_base = TRUE
      BY <2>1, WrittenClasses, MadeOf DEF Written
    <2> QED
      BY <1>1, <1>2, <2>2, FieldsInherited, AnswersInherited
  <1>3. "Anson" \in DOMAIN astmap => Answers("Anson")
    BY BareFields DEF BareIds
  <1>4. /\ ClassOf("AnsonBody").base = "Anson" /\ ClassOf("AnUpdateReq").base = "AnsonBody"
        /\ ClassOf("AnsonResp").base = "AnsonBody"
    BY MessageClassNames, BodyClassNames, ClassOfPlain DEF Names
  <1>5. {"AnsonBody", "AnUpdateReq", "AnsonResp"} \cap DOMAIN astmap \subseteq WrittenIds
    <2>1. DOMAIN astmap \subseteq RegisteredIds
      BY MadeOf
    <2> QED
      BY <2>1 DEF WrittenIds, AstClasses, BareIds
  <1> HIDE DEF Answers
  <1>6. "AnsonBody" \in DOMAIN astmap => Answers("AnsonBody")
    BY <1>2, <1>3, <1>4, <1>5, MadeOf
  <1>7. /\ "AnUpdateReq" \in DOMAIN astmap => Answers("AnUpdateReq")
        /\ "AnsonResp" \in DOMAIN astmap => Answers("AnsonResp")
    BY <1>2, <1>4, <1>5, <1>6, MadeOf
  <1>8. astmap[id].base \in WrittenBases
    BY WrittenClasses, MadeOf
  <1>9. Answers(id)
    BY <1>2, <1>3, <1>6, <1>7, <1>8 DEF WrittenBases
  <1> QED
    BY <1>9 DEF Answers

LEMMA ObjectFields ==
  ASSUME NEW astmap, NEW n, Settled(astmap, n), "SemanticObject" \in DOMAIN astmap
  PROVE  /\ DOMAIN FieldsOf(astmap)["SemanticObject"] = {"data"}
         /\ FieldsOf(astmap)["SemanticObject"]["data"] = map(str)
         /\ DOMAIN AnswersOf(astmap)["SemanticObject"] = {}
  <1>1. Ranked(astmap)
    BY DEF Settled
  <1>2. /\ astmap["SemanticObject"].base = "Anson"
        /\ DOMAIN astmap["SemanticObject"].fields = {"data"}
        /\ astmap["SemanticObject"].fields["data"] = map(str)
        /\ astmap["SemanticObject"].answers = {} /\ astmap["SemanticObject"].asks_base = FALSE
    BY MadeOf, SemanticObjectIs, MessageClassNames, ClassOfPlain DEF Names
  <1>3. "Anson" \in DOMAIN astmap => DOMAIN FieldsOf(astmap)["Anson"] = {}
    BY BareFields DEF BareIds
  <1> QED
    BY <1>1, <1>2, <1>3, FieldsInherited, AnswersInherited

LEMMA DeclaredIs ==
  ASSUME NEW c \in Ctx, NEW id, NEW k
  PROVE  <<id, k>> \in Declared(c) <=>
           id \in DOMAIN asts[c] /\ k \in DOMAIN Fields(c, id) /\ Fields(c, id)[k] # NoType
  BY DEF Declared, Lookup

LEMMA DeclaredPairs ==
  ASSUME NEW c \in Ctx, NEW f \in Declared(c)
  PROVE  f = <<f[1], f[2]>>
  BY DEF Declared

LEMMA SettledAnswered == SettledInv => DeclaredAnswered
  <1> SUFFICES ASSUME SettledInv, NEW c \in Ctx
               PROVE  {f \in Declared(c) : f[2] \notin Answered(c, f[1]) /\ f[1] \notin AstClasses}
                        = Registered(c, {<<"SemanticObject", "data">>})
    BY DEF DeclaredAnswered
  <1>1. Settled(asts[c], turn[c])
    BY DEF SettledInv
  <1>2. ASSUME NEW f \in Declared(c), f[2] \notin Answered(c, f[1]), f[1] \notin AstClasses
        PROVE  f \in Registered(c, {<<"SemanticObject", "data">>})
    <2>1. PICK id, k : id = f[1] /\ k = f[2]
      OBVIOUS
    <2>2. f = <<id, k>>
      BY <2>1, DeclaredPairs
    <2>3. /\ id \in DOMAIN asts[c] /\ k \in DOMAIN FieldsOf(asts[c])[id]
          /\ k \notin DOMAIN AnswersOf(asts[c])[id] /\ id \notin AstClasses
      BY <1>2, <2>1, <2>2, DeclaredIs DEF Fields, Answered
    <2>4. id \in RegisteredIds
      BY <1>1, <2>3, MadeOf
    <2>5. id \notin BareIds /\ id \notin WrittenIds
      BY <1>1, <2>3, BareFields, WrittenAnswered
    <2>6. id = "SemanticObject"
      BY <2>3, <2>4, <2>5 DEF WrittenIds
    <2>7. k = "data"
      BY <1>1, <2>3, <2>6, ObjectFields
    <2> QED
      BY <2>2, <2>3, <2>6, <2>7 DEF Registered
  <1>3. ASSUME "SemanticObject" \in DOMAIN asts[c]
        PROVE  /\ <<"SemanticObject", "data">> \in Declared(c)
               /\ "data" \notin Answered(c, "SemanticObject") /\ "SemanticObject" \notin AstClasses
    <2>1. map(str) # NoType
      BY DEF map, str, NoType
    <2>2. /\ DOMAIN FieldsOf(asts[c])["SemanticObject"] = {"data"}
          /\ FieldsOf(asts[c])["SemanticObject"]["data"] = map(str)
          /\ DOMAIN AnswersOf(asts[c])["SemanticObject"] = {}
      BY <1>1, <1>3, ObjectFields
    <2>3. "SemanticObject" \notin AstClasses
      BY DEF AstClasses
    <2> QED
      BY <1>3, <2>1, <2>2, <2>3, DeclaredIs DEF Fields, Answered
  <1> QED
    BY <1>2, <1>3 DEF Registered

LEMMA SettledInserts == SettledInv => OnlyInsertOnlyInherits
  <1> SUFFICES ASSUME SettledInv, NEW c \in Ctx
               PROVE  {id \in DOMAIN asts[c] \ AstClasses :
                         DOMAIN asts[c][id].fields = {} /\ DOMAIN Fields(c, id) # {}}
                        = {"AnInsertReq"} \cap DOMAIN asts[c]
    BY DEF OnlyInsertOnlyInherits
  <1>1. PICK astmap : astmap = asts[c]
    OBVIOUS
  <1>2. /\ Settled(astmap, turn[c]) /\ Ranked(astmap)
        /\ BasesIn(astmap, DOMAIN astmap \cup aliases[c]) /\ aliases[c] \subseteq {"JavaEnum"}
    BY <1>1 DEF SettledInv, Settled, RegInv, Known
  <1>3. ASSUME NEW id \in DOMAIN astmap \ AstClasses, DOMAIN astmap[id].fields = {},
               DOMAIN FieldsOf(astmap)[id] # {}
        PROVE  id = "AnInsertReq"
    <2>1. id \in RegisteredIds /\ id # "AnsonBodyAst"
      BY <1>2, MadeOf DEF AstClasses
    <2>2. DOMAIN ClassOf(id).fields = {}
      BY <1>2, <1>3, <2>1, MadeOf
    <2>3. id \notin BareIds
      BY <1>2, <1>3, BareFields
    <2>4. id # "SemanticObject"
      BY <2>2, SemanticObjectIs, ClassOfPlain
    <2> QED
      BY <1>3, <2>1, <2>2, <2>3, <2>4, WrittenClasses DEF WrittenIds
  <1>4. ASSUME "AnInsertReq" \in DOMAIN astmap
        PROVE  /\ DOMAIN astmap["AnInsertReq"].fields = {} /\ DOMAIN FieldsOf(astmap)["AnInsertReq"] # {}
               /\ "AnInsertReq" \notin AstClasses
    <2>1. <<>> \in Seq({}) /\ Len(<<>>) = 0
      BY EmptySeq
    <2>2. DOMAIN <<>> = {}
      BY <2>1, LenProperties
    <2>3. DOMAIN astmap["AnInsertReq"].fields = {} /\ astmap["AnInsertReq"].base = "AnUpdateReq"
      BY <1>2, <1>4, <2>2, MadeOf, WrittenRequests, BodyClassNames, ClassOfPlain DEF Declares, Names
    <2>4. "AnUpdateReq" \in DOMAIN astmap
      BY <1>2, <1>4, <2>3 DEF BasesIn
    <2>5. "mtabl" \in DOMAIN astmap["AnUpdateReq"].fields
      BY <1>2, <2>4, MadeOf, WrittenRequests, ClassOfPlain DEF WrittenWith
    <2>6. "mtabl" \in DOMAIN FieldsOf(astmap)["AnInsertReq"]
      BY <1>2, <1>4, <2>3, <2>4, <2>5, FieldsInherited
    <2> QED
      BY <2>3, <2>6 DEF AstClasses
  <1> QED
    BY <1>1, <1>3, <1>4 DEF Fields

\* Whatever contexts there are and however far each is, the one declared field
\* of a class that no getter answers is SemanticObject's data (json.h:399).
THEOREM DeclaredIsAnswered == Spec => []DeclaredAnswered
  BY SettledAnswered, SettledInit, SettledNext, PTL DEF Spec

\* In none of them is there another class than AnInsertReq that has fields but
\* none of its own, which the writer separates from the type by no comma
\* (anserializer.h:349).
THEOREM OnlyInsertInherits == Spec => []OnlyInsertOnlyInherits
  BY SettledInserts, SettledInit, SettledNext, PTL DEF Spec

-----------------------------------------------------------------------------
(* A class's EnTT type beside its AST.                                     *)

\* The two agree: the same base, the same members, of the types declared.
TypeParts == {"base", "fields", "entt_base", "data"}
Typed(class) ==
  /\ TypeParts \subseteq DOMAIN class
  /\ class.entt_base = class.base /\ DOMAIN class.data = DOMAIN class.fields
  /\ \A k \in DOMAIN class.fields : class.data[k] = Cpp(class.fields[k])

LEMMA TypedMade ==
  ASSUME NEW id, NEW base, NEW fields
  PROVE  /\ Typed(Class(id, base, fields)) /\ Typed(ReadOnly(Class(id, base, fields)))
         /\ Typed(Body(id, base, fields))
  <1>1. Typed(Class(id, base, fields))
    BY DEF Class, Typed, TypeParts
  <1> QED
    BY <1>1 DEF ReadOnly, Body, Typed, TypeParts

TypedIds == {"AnsonField", "Semantics", "AnsonJavaEnumAst", "AnsonMsgAst", "AnResultset", "SessionInf",
             "AnsonHeader", "AnsonBody", "MsgCode", "Port", "AnQueryReq", "AnInsertReq", "UserReq", "EchoReq",
             "PeerSettings", "LangString", "HeartBeat", "AnSessionReq", "AnSessionResp"}
            \cup {MsgOf(T) : T \in BodyIds}
UntypedIds == {"IJsonable", "Anson", "SemanExpr", "AnCtor", "AnsonAst", "AnsonBodyAst", "SemanticObject",
               "AnsonResp", "AnUpdateReq"}

LEMMA TypedOrNot == RegisteredIds \subseteq TypedIds \cup UntypedIds
  BY DEF RegisteredIds, ClassIds, BodyIds, TypedIds, UntypedIds

LEMMA TypedClasses ==
  ASSUME NEW id \in TypedIds
  PROVE  Typed(ClassOf(id))
  <1>1. Typed(AnsonField) /\ Typed(Semantics) /\ Typed(AnsonJavaEnumAst) /\ Typed(AnsonMsgAst)
    BY TypedMade, Zenon DEF AnsonField, Semantics, AnsonJavaEnumAst, AnsonMsgAst
  <1>2. Typed(AnResultset) /\ Typed(SessionInf) /\ Typed(AnsonHeader) /\ Typed(AnsonBody)
    BY TypedMade, Zenon DEF AnResultset, SessionInf, AnsonHeader, AnsonBody
  <1>3. Typed(MsgCode) /\ Typed(Port) /\ Typed(PeerSettings) /\ Typed(LangString)
    BY TypedMade, Zenon DEF MsgCode, Port, PeerSettings, LangString
  <1>4. Typed(AnQueryReq) /\ Typed(AnInsertReq) /\ Typed(UserReq) /\ Typed(EchoReq)
    BY TypedMade, Zenon DEF AnQueryReq, AnInsertReq, UserReq, EchoReq
  <1>5. Typed(HeartBeat) /\ Typed(AnSessionReq) /\ Typed(AnSessionResp)
    BY TypedMade, Zenon DEF HeartBeat, AnSessionReq, AnSessionResp
  <1>6. ASSUME NEW T \in BodyIds
        PROVE  Typed(specialize_req(T))
    BY TypedMade, Zenon DEF specialize_req
  <1>7. CASE \E T \in BodyIds : id = MsgOf(T)
    BY <1>6, <1>7, ClassOfMessage
  <1>8. CASE ~\E T \in BodyIds : id = MsgOf(T)
    BY <1>1, <1>2, <1>3, <1>4, <1>5, <1>8, ClassOfPlain DEF TypedIds
  <1> QED
    BY <1>7, <1>8

\* Those that do not: what is put into their EnTT types.
TypedAs(class, base, fields, data) ==
  /\ TypeParts \subseteq DOMAIN class
  /\ class.entt_base = base /\ class.fields = fields /\ class.data = data

CppOf(fields) == [k \in DOMAIN fields |-> Cpp(fields[k])]

LEMMA TypedAsMade ==
  ASSUME NEW id, NEW base, NEW fields
  PROVE  /\ TypedAs(Class(id, base, fields), base, fields, CppOf(fields))
         /\ TypedAs(ReadOnly(Class(id, base, fields)), base, fields, CppOf(fields))
         /\ TypedAs(Body(id, base, fields), base, fields, CppOf(fields))
  <1>1. TypedAs(Class(id, base, fields), base, fields, CppOf(fields))
    BY DEF Class, TypedAs, TypeParts, CppOf
  <1> QED
    BY <1>1 DEF ReadOnly, Body, TypedAs, TypeParts

LEMMA TypedAsAmended ==
  ASSUME NEW class, NEW base, NEW fields, NEW data, TypedAs(class, base, fields, data),
         NEW k, NEW l, NEW x, NEW y, NEW z
  PROVE  /\ TypedAs([class EXCEPT !.data = x], base, fields, x)
         /\ TypedAs([class EXCEPT !.data = x, !.answers = y], base, fields, x)
         /\ TypedAs([class EXCEPT !.entt_base = x], x, fields, data)
         /\ TypedAs([class EXCEPT !.data[k] = x], base, fields, [data EXCEPT ![k] = x])
         /\ TypedAs([class EXCEPT !.data[k] = x, !.data[l] = y], base, fields,
                    [data EXCEPT ![k] = x, ![l] = y])
         /\ TypedAs([class EXCEPT !.entt_base = x, !.data[k] = y, !.data[l] = z], x, fields,
                    [data EXCEPT ![k] = y, ![l] = z])
  BY DEF TypedAs, TypeParts

-----------------------------------------------------------------------------
(* What the type ids that disagree are in C++.                             *)

\* A word put before an id.
LEMMA Prefixed ==
  ASSUME NEW S, NEW v \in S, NEW id \in Seq(S)
  PROVE  /\ <<v>> \o id \in Seq(S) /\ Len(<<v>> \o id) = Len(id) + 1
         /\ \A i \in 1..Len(id) : (<<v>> \o id)[i + 1] = id[i]
  <1>1. <<v>> \in Seq(S) /\ Len(<<v>>) = 1
    OBVIOUS
  <1>2. PICK one : one = <<v>>
    OBVIOUS
  <1>3. /\ one \o id \in Seq(S) /\ Len(one \o id) = Len(one) + Len(id) /\ Len(id) \in Nat
        /\ \A i \in 1..Len(one) + Len(id) :
             (one \o id)[i] = IF i <= Len(one) THEN one[i] ELSE id[i - Len(one)]
    BY <1>1, <1>2, ConcatProperties, LenProperties
  <1>4. ASSUME NEW i \in 1..Len(id)
        PROVE  (one \o id)[i + 1] = id[i]
    <2>1. i + 1 \in 1..Len(one) + Len(id) /\ ~(i + 1 <= Len(one)) /\ (i + 1) - Len(one) = i
      BY <1>1, <1>2, <1>3
    <2> QED
      BY <1>3, <2>1
  <1> QED
    BY <1>1, <1>2, <1>3, <1>4

\* Ids are told apart by a word.
LEMMA Words ==
  ASSUME NEW w
  PROVE  /\ list(cls(w))[2] = w /\ DOMAIN list(cls(w)) = 1..2
         /\ map(cls(w))[2] = w /\ DOMAIN map(cls(w)) = 1..2
         /\ table(cls(w))[2] = "list" /\ table(cls(w))[3] = w /\ DOMAIN table(cls(w)) = 1..3
  <1> DEFINE S == {"list", "map", w}
  <1>1. PICK c : c = cls(w)
    OBVIOUS
  <1>2. c \in Seq(S) /\ Len(c) = 1 /\ c[1] = w
    BY <1>1 DEF cls
  <1>3. "list" \in S /\ "map" \in S
    OBVIOUS
  <1> HIDE DEF S
  <1>4. PICK l, m : l = <<"list">> \o c /\ m = <<"map">> \o c
    OBVIOUS
  <1>5. l = list(cls(w)) /\ m = map(cls(w)) /\ table(cls(w)) = <<"list">> \o l
    BY <1>1, <1>4, Zenon DEF list, map, table
  <1>6. l \in Seq(S) /\ Len(l) = 1 + 1 /\ l[1 + 1] = c[1] /\ l[1] = "list"
    <2>1. l \in Seq(S) /\ Len(l) = Len(c) + 1 /\ \A i \in 1..Len(c) : l[i + 1] = c[i]
      BY <1>2, <1>3, <1>4, Prefixed
    <2>2. l[1] = "list"
      BY <1>2, <1>4
    <2> QED
      BY <1>2, <2>1, <2>2
  <1>7. m \in Seq(S) /\ Len(m) = 1 + 1 /\ m[1 + 1] = c[1]
    <2>1. m \in Seq(S) /\ Len(m) = Len(c) + 1 /\ \A i \in 1..Len(c) : m[i + 1] = c[i]
      BY <1>2, <1>3, <1>4, Prefixed
    <2> QED
      BY <1>2, <2>1
  <1>8. PICK t : t = <<"list">> \o l
    OBVIOUS
  <1>9. t \in Seq(S) /\ Len(t) = 3 /\ t[2] = "list" /\ t[3] = w
    <2>1. t \in Seq(S) /\ Len(t) = Len(l) + 1 /\ \A i \in 1..Len(l) : t[i + 1] = l[i]
      BY <1>3, <1>6, <1>8, Prefixed
    <2>2. t[1 + 1] = l[1] /\ t[2 + 1] = l[2]
      BY <1>6, <2>1
    <2> QED
      BY <1>2, <1>6, <2>1, <2>2
  <1>10. DOMAIN l = 1..2 /\ DOMAIN m = 1..2 /\ DOMAIN t = 1..3
    BY <1>6, <1>7, <1>9, LenProperties
  <1>11. l[2] = w /\ m[2] = w
    BY <1>2, <1>6, <1>7
  <1> QED
    BY <1>5, <1>8, <1>9, <1>10, <1>11, Zenon

LEMMA CppAt ==
  ASSUME NEW id, NEW i \in DOMAIN id
  PROVE  Cpp(id)[i] = CppWord(id[i])
  BY DEF Cpp

\* The type ids that stand in an AST for something else than the EnTT type has.
LEMMA Mistyped ==
  /\ Cpp(list(cls("SemanExpr"))) # list(str) /\ Cpp(list(str)) # list(cls("SemanExpr"))
  /\ Cpp(map(str)) # map(<<"any">>) /\ Cpp(map(str)) # map(cls("Anson"))
  /\ Cpp(table(str)) # list(str) /\ Cpp(table(cls("VarTypae"))) # table(cls("VarType"))
  <1>1. str = cls("string") /\ <<"any">> = cls("any")
    BY DEF str, cls
  <1>2. \A w \in {"SemanExpr", "string", "list", "VarTypae"} : CppWord(w) = w
    BY DEF CppWord
  <1>3. 2 \in 1..2 /\ 2 \in 1..3 /\ 3 \in 1..3
    OBVIOUS
  <1>4. /\ Cpp(list(cls("SemanExpr")))[2] = "SemanExpr" /\ Cpp(list(str))[2] = "string"
        /\ Cpp(map(str))[2] = "string"
        /\ Cpp(table(str))[2] = "list" /\ Cpp(table(cls("VarTypae")))[3] = "VarTypae"
    BY <1>1, <1>2, <1>3, Words, CppAt
  <1>5. /\ list(str)[2] = "string" /\ list(cls("SemanExpr"))[2] = "SemanExpr" /\ map(<<"any">>)[2] = "any"
        /\ map(cls("Anson"))[2] = "Anson" /\ table(cls("VarType"))[3] = "VarType"
    BY <1>1, Words
  <1> QED
    BY <1>4, <1>5

\* None of them is blank.
LEMMA NotBlank ==
  /\ str # NoType /\ \A w : list(cls(w)) # NoType /\ map(cls(w)) # NoType /\ table(cls(w)) # NoType
  <1>1. <<>> \in Seq({}) /\ Len(<<>>) = 0
    BY EmptySeq
  <1>2. DOMAIN NoType = {}
    BY <1>1, LenProperties DEF NoType
  <1>3. 1 \in DOMAIN str
    BY DEF str
  <1>4. 1 \in 1..2 /\ 1 \in 1..3
    OBVIOUS
  <1> QED
    BY <1>2, <1>3, <1>4, Words

-----------------------------------------------------------------------------
(* The classes whose tables disagree.                                      *)

\* The members of the EnTT type are the fields declared, and of the types
\* declared save those that are wrong.
Fits(class, base, fields, wrong) ==
  /\ TypeParts \subseteq DOMAIN class
  /\ class.entt_base = base /\ class.fields = fields /\ DOMAIN class.data = DOMAIN fields
  /\ \A k \in DOMAIN fields : class.data[k] = Cpp(fields[k]) <=> k \notin wrong

LEMMA FitsMade ==
  ASSUME NEW class, NEW base, NEW fields, NEW k \in DOMAIN fields, NEW x, x # Cpp(fields[k])
  PROVE  /\ TypedAs(class, base, fields, CppOf(fields)) => Fits(class, base, fields, {})
         /\ TypedAs(class, base, fields, [CppOf(fields) EXCEPT ![k] = x]) => Fits(class, base, fields, {k})
         /\ \A y : \A l \in DOMAIN fields : y # Cpp(fields[l]) /\ l # k =>
              (TypedAs(class, base, fields, [CppOf(fields) EXCEPT ![k] = x, ![l] = y])
                 => Fits(class, base, fields, {k, l}))
  BY DEF TypedAs, Fits, CppOf

LEMMA SemanExprTypes ==
  Fits(SemanExpr, "Anson",
       [stype |-> str, expect_result |-> str, args |-> list(cls("SemanExpr")), semantics |-> list(str)],
       {"args", "semantics"})
  <1>1. PICK f : f = [stype |-> str, expect_result |-> str, args |-> list(cls("SemanExpr")),
                      semantics |-> list(str)]
    OBVIOUS
  <1>2. /\ {"args", "semantics"} \subseteq DOMAIN f
        /\ f["args"] = list(cls("SemanExpr")) /\ f["semantics"] = list(str)
    BY <1>1
  <1>3. PICK x, y : x = list(str) /\ y = list(cls("SemanExpr"))
    OBVIOUS
  <1>4. TypedAs(ReadOnly(Class("SemanExpr", "Semantics", f)), "Semantics", f, CppOf(f))
    BY TypedAsMade, Zenon
  <1>5. SemanExpr = [ReadOnly(Class("SemanExpr", "Semantics", f))
                     EXCEPT !.entt_base = "Anson", !.data["args"] = x, !.data["semantics"] = y]
    BY <1>1, <1>3, Zenon DEF SemanExpr
  <1>6. TypedAs(SemanExpr, "Anson", f, [CppOf(f) EXCEPT !["args"] = x, !["semantics"] = y])
    BY <1>4, <1>5, TypedAsAmended, Zenon
  <1>7. x # Cpp(f["args"]) /\ y # Cpp(f["semantics"])
    BY <1>2, <1>3, Mistyped
  <1>8. Fits(SemanExpr, "Anson", f, {"args", "semantics"})
    BY <1>2, <1>6, <1>7, FitsMade
  <1> QED
    BY <1>1, <1>8

LEMMA AnCtorTypes ==
  \E base, args, body, expect :
    Fits(AnCtor, "Anson", [base |-> base, args |-> args, body |-> body, expect_result |-> expect], {})
  <1>1. PICK f : f = [base |-> cls("SemanExpr"), args |-> list(cls("SemanExpr")),
                      body |-> list(cls("SemanExpr")), expect_result |-> str]
    OBVIOUS
  <1>2. TypedAs(ReadOnly(Class("AnCtor", "SemanExpr", f)), "SemanExpr", f, CppOf(f))
    BY TypedAsMade, Zenon
  <1>3. AnCtor = [ReadOnly(Class("AnCtor", "SemanExpr", f)) EXCEPT !.entt_base = "Anson"]
    BY <1>1, Zenon DEF AnCtor
  <1>4. TypedAs(AnCtor, "Anson", f, CppOf(f))
    BY <1>2, <1>3, TypedAsAmended, Zenon
  <1>5. Fits(AnCtor, "Anson", f, {})
    BY <1>4 DEF TypedAs, Fits, CppOf
  <1> QED
    BY <1>1, <1>5

LEMMA SemanticObjectTypes == Fits(SemanticObject, "Anson", [data |-> map(str)], {"data"})
  <1>1. PICK f, x : f = [data |-> map(str)] /\ x = map(<<"any">>)
    OBVIOUS
  <1>2. TypedAs(ReadOnly(Class("SemanticObject", "Anson", f)), "Anson", f, CppOf(f))
    BY TypedAsMade, Zenon
  <1>3. SemanticObject = [ReadOnly(Class("SemanticObject", "Anson", f)) EXCEPT !.data["data"] = x]
    BY <1>1, Zenon DEF SemanticObject
  <1>4. TypedAs(SemanticObject, "Anson", f, [CppOf(f) EXCEPT !["data"] = x])
    BY <1>2, <1>3, TypedAsAmended, Zenon
  <1>5. "data" \in DOMAIN f /\ x # Cpp(f["data"])
    BY <1>1, Mistyped
  <1> QED
    BY <1>1, <1>4, <1>5, FitsMade

LEMMA AnsonRespTypes ==
  \E m, rs : Fits(AnsonResp, "AnsonBody", [m |-> m, rs |-> rs, map |-> map(str)], {"map"})
  <1>1. PICK f, x : f = [m |-> str, rs |-> list(cls("AnResultset")), map |-> map(str)] /\ x = map(cls("Anson"))
    OBVIOUS
  <1>2. TypedAs(Body("AnsonResp", "AnsonBody", f), "AnsonBody", f, CppOf(f))
    BY TypedAsMade, Zenon
  <1>3. AnsonResp = [Body("AnsonResp", "AnsonBody", f) EXCEPT !.data["map"] = x]
    BY <1>1, Zenon DEF AnsonResp
  <1>4. TypedAs(AnsonResp, "AnsonBody", f, [CppOf(f) EXCEPT !["map"] = x])
    BY <1>2, <1>3, TypedAsAmended, Zenon
  <1>5. "map" \in DOMAIN f /\ f["map"] = map(str)
    BY <1>1
  <1>6. Fits(AnsonResp, "AnsonBody", f, {"map"})
    BY <1>1, <1>4, <1>5, Mistyped, FitsMade
  <1> QED
    BY <1>1, <1>6

LEMMA AnUpdateReqTypes ==
  \E fields : /\ Fits(AnUpdateReq, "AnsonBody", fields, {"cols", "where"})
              /\ {"cols", "where"} \subseteq DOMAIN fields
              /\ fields["cols"] = table(str) /\ fields["where"] = table(cls("VarTypae"))
  <1>1. PICK f : f = [mtabl |-> str, limt |-> str, nvs |-> table(cls("VarType")),
                      nvss |-> list(table(cls("VarType"))), cols |-> table(str),
                      where |-> table(cls("VarTypae")), postUpds |-> list(cls("AnUpdateReq")),
                      attacheds |-> table(cls("VarType"))]
    OBVIOUS
  <1>2. PICK x, y : x = list(str) /\ y = table(cls("VarType"))
    OBVIOUS
  <1>3. TypedAs(Body("AnUpdateReq", "AnsonBody", f), "AnsonBody", f, CppOf(f))
    BY TypedAsMade, Zenon
  <1>4. AnUpdateReq = [Body("AnUpdateReq", "AnsonBody", f) EXCEPT !.data["cols"] = x, !.data["where"] = y]
    BY <1>1, <1>2, Zenon DEF AnUpdateReq
  <1>5. TypedAs(AnUpdateReq, "AnsonBody", f, [CppOf(f) EXCEPT !["cols"] = x, !["where"] = y])
    BY <1>3, <1>4, TypedAsAmended, Zenon
  <1>6. /\ {"cols", "where"} \subseteq DOMAIN f
        /\ f["cols"] = table(str) /\ f["where"] = table(cls("VarTypae"))
    BY <1>1
  <1>7. x # Cpp(f["cols"]) /\ y # Cpp(f["where"])
    BY <1>2, <1>6, Mistyped
  <1>8. Fits(AnUpdateReq, "AnsonBody", f, {"cols", "where"})
    BY <1>5, <1>6, <1>7, FitsMade
  <1> QED
    BY <1>6, <1>8

LEMMA ReplacingTwice ==
  ASSUME NEW one, NEW two, NEW three, NEW k \in DOMAIN three
  PROVE  /\ k \in DOMAIN Replacing(two, three) /\ Replacing(two, three)[k] = three[k]
         /\ k \in DOMAIN Replacing(one, Replacing(two, three))
         /\ Replacing(one, Replacing(two, three))[k] = three[k]
  <1>1. ASSUME NEW old, NEW new, NEW x \in DOMAIN new
        PROVE  x \in DOMAIN Replacing(old, new) /\ Replacing(old, new)[x] = new[x]
    BY DEF Replacing
  <1> QED
    BY <1>1

\* The AST of ASTs holds flags of its own beside the fields it declares, the
\* one of bodies an uri.
LEMMA AnsonAstTypes ==
  /\ TypeParts \subseteq DOMAIN AnsonAst /\ AnsonAst.entt_base = "Anson"
  /\ DOMAIN AnsonAst.fields = {"ctors", "ctorsemantics"}
  /\ \A k \in DOMAIN AnsonAst.fields :
       k \in DOMAIN AnsonAst.data /\ AnsonAst.data[k] = Cpp(AnsonAst.fields[k])
  <1>1. PICK f : f = [ctors |-> list(list(list(str))), ctorsemantics |-> list(cls("AnCtor"))]
    OBVIOUS
  <1>2. PICK class : class = ReadOnly(Class("AnsonAst", "Anson", f))
    OBVIOUS
  <1>3. TypedAs(class, "Anson", f, CppOf(f))
    BY <1>2, TypedAsMade, Zenon
  <1>4. PICK flags, members :
          AnsonAst = [class EXCEPT !.data = Replacing(flags, Replacing(members, @))]
    BY <1>1, <1>2, Zenon DEF AnsonAst, AnsonAstOf
  <1>5. PICK x : x = Replacing(flags, Replacing(members, CppOf(f)))
    OBVIOUS
  <1>6. AnsonAst = [class EXCEPT !.data = x]
    BY <1>3, <1>4, <1>5 DEF TypedAs, TypeParts
  <1>7. TypedAs(AnsonAst, "Anson", f, x)
    BY <1>3, <1>6, TypedAsAmended, Zenon
  <1>8. DOMAIN CppOf(f) = DOMAIN f /\ \A k \in DOMAIN f : CppOf(f)[k] = Cpp(f[k])
    BY DEF CppOf
  <1>9. \A k \in DOMAIN f : k \in DOMAIN x /\ x[k] = Cpp(f[k])
    BY <1>5, <1>8, ReplacingTwice
  <1>10. DOMAIN f = {"ctors", "ctorsemantics"}
    BY <1>1
  <1> QED
    BY <1>7, <1>9, <1>10 DEF TypedAs

LEMMA AnsonBodyAstTypes ==
  /\ TypeParts \subseteq DOMAIN AnsonBodyAst /\ AnsonBodyAst.entt_base = "AnsonAst"
  /\ DOMAIN AnsonBodyAst.fields = {"A"} /\ DOMAIN AnsonBodyAst.data = {"A", "uri"}
  /\ AnsonBodyAst.data["A"] = Cpp(AnsonBodyAst.fields["A"])
  <1>1. PICK f, u : f = [A |-> map(str)] /\ u = [uri |-> str]
    OBVIOUS
  <1>2. PICK class : class = ReadOnly(Class("AnsonBodyAst", "AnsonAst", f))
    OBVIOUS
  <1>3. TypedAs(class, "AnsonAst", f, CppOf(f))
    BY <1>2, TypedAsMade, Zenon
  <1>4. AnsonBodyAst = [class EXCEPT !.data = Replacing(u, @)]
    BY <1>1, <1>2, Zenon DEF AnsonBodyAst
  <1>5. PICK x : x = Replacing(u, CppOf(f))
    OBVIOUS
  <1>6. AnsonBodyAst = [class EXCEPT !.data = x]
    BY <1>3, <1>4, <1>5 DEF TypedAs, TypeParts
  <1>7. TypedAs(AnsonBodyAst, "AnsonAst", f, x)
    BY <1>3, <1>6, TypedAsAmended, Zenon
  <1>8. PICK d : d = CppOf(f)
    OBVIOUS
  <1>9. DOMAIN f = {"A"} /\ DOMAIN u = {"uri"}
    BY <1>1
  <1>10. DOMAIN d = {"A"} /\ d["A"] = Cpp(f["A"])
    BY <1>8, <1>9 DEF CppOf
  <1>11. DOMAIN x = {"A", "uri"} /\ x["A"] = Cpp(f["A"])
    BY <1>5, <1>8, <1>9, <1>10 DEF Replacing
  <1> QED
    BY <1>7, <1>9, <1>11 DEF TypedAs

-----------------------------------------------------------------------------
(* The EnTT types' bases rank below them too.                              *)

\* The roots of all classes hold what no AST declares.
LEMMA RootTypes ==
  /\ IJsonable.entt_base = "" /\ DOMAIN IJsonable.data = {"anclass"}
  /\ Anson.entt_base = "IJsonable" /\ DOMAIN Anson.data = {"type"}
  <1>1. PICK f, x, y, a : f = <<>> /\ x = [anclass |-> str] /\ y = [type |-> str] /\ a = {"type"}
    OBVIOUS
  <1>2. /\ IJsonable = [ReadOnly(Class("IJsonable", "", f)) EXCEPT !.data = x]
        /\ Anson = [ReadOnly(Class("Anson", "IJsonable", f)) EXCEPT !.data = y, !.answers = a]
    BY <1>1, Zenon DEF IJsonable, Anson
  <1>3. TypedAs(IJsonable, "", f, x) /\ TypedAs(Anson, "IJsonable", f, y)
    BY <1>2, TypedAsMade, TypedAsAmended, Zenon
  <1>4. DOMAIN x = {"anclass"} /\ DOMAIN y = {"type"}
    BY <1>1
  <1> QED
    BY <1>3, <1>4 DEF TypedAs

LEMMA EnttBasesRank ==
  ASSUME NEW id \in RegisteredIds
  PROVE  Rank(ClassOf(id).entt_base) < Rank(id)
  <1> DEFINE Fine(x) == Rank(ClassOf(x).entt_base) < Rank(x)
  <1>3. {"AnsonField", "Semantics", "AnsonJavaEnumAst", "AnsonMsgAst", "AnResultset", "SessionInf",
         "AnsonHeader", "AnsonBody", "MsgCode", "Port", "AnQueryReq", "AnInsertReq", "UserReq", "EchoReq",
         "PeerSettings", "LangString", "HeartBeat", "AnSessionReq", "AnSessionResp"} \subseteq TypedIds
    BY DEF TypedIds
  <1>4. /\ Rank("") < Rank("AnsonField") /\ Rank("Anson") < Rank("Semantics")
        /\ Rank("AnsonAst") < Rank("AnsonJavaEnumAst") /\ Rank("AnsonAst") < Rank("AnsonMsgAst")
        /\ Rank("Anson") < Rank("AnResultset") /\ Rank("Anson") < Rank("SessionInf")
        /\ Rank("Anson") < Rank("AnsonHeader") /\ Rank("Anson") < Rank("AnsonBody")
        /\ Rank("") < Rank("MsgCode") /\ Rank("JavaEnum") < Rank("Port")
        /\ Rank("Anson") < Rank("PeerSettings") /\ Rank("Anson") < Rank("LangString")
    BY RankOf, Ascending, Zenon
  <1>5. /\ Rank("") < Rank("IJsonable") /\ Rank("IJsonable") < Rank("Anson")
        /\ Rank("Anson") < Rank("SemanExpr") /\ Rank("Anson") < Rank("AnCtor")
        /\ Rank("Anson") < Rank("AnsonAst") /\ Rank("AnsonAst") < Rank("AnsonBodyAst")
        /\ Rank("Anson") < Rank("SemanticObject")
    <2>1. 2 < 5
      OBVIOUS
    <2> QED
      BY <2>1, RankOf, Ascending, Zenon
  <1> HIDE DEF Fine
  <1>6. ASSUME NEW class, NEW x \in TypedIds, NEW base, Names(class, x, base), ClassOf(x) = class,
               Rank(base) < Rank(x)
        PROVE  Fine(x)
    BY <1>6, TypedClasses DEF Fine, Typed, Names
  <1>7. /\ Fine("AnsonField") /\ Fine("Semantics") /\ Fine("AnsonJavaEnumAst") /\ Fine("AnsonMsgAst")
    BY <1>3, <1>4, <1>6, AstClassNames, ClassOfPlain
  <1>8. /\ Fine("AnResultset") /\ Fine("SessionInf") /\ Fine("AnsonHeader") /\ Fine("AnsonBody")
    BY <1>3, <1>4, <1>6, MessageClassNames, ClassOfPlain
  <1>9. /\ Fine("MsgCode") /\ Fine("Port") /\ Fine("PeerSettings") /\ Fine("LangString")
    BY <1>3, <1>4, <1>6, OtherClassNames, ClassOfPlain
  <1>10. /\ Fine("AnQueryReq") /\ Fine("AnInsertReq") /\ Fine("UserReq") /\ Fine("EchoReq")
         /\ Fine("HeartBeat") /\ Fine("AnSessionReq") /\ Fine("AnSessionResp")
    BY <1>3, <1>6, BodyRanks, BodyClassNames, ClassOfPlain
  <1>11. Fine("IJsonable") /\ Fine("Anson")
    BY <1>5, RootTypes, ClassOfPlain DEF Fine
  <1>12. Fine("SemanExpr") /\ Fine("AnCtor") /\ Fine("SemanticObject")
    BY <1>5, SemanExprTypes, AnCtorTypes, SemanticObjectTypes, ClassOfPlain DEF Fine, Fits
  <1>13. Fine("AnsonAst") /\ Fine("AnsonBodyAst")
    BY <1>5, AnsonAstTypes, AnsonBodyAstTypes, ClassOfPlain DEF Fine
  <1>14. Fine("AnsonResp") /\ Fine("AnUpdateReq")
    BY BodyRanks, AnsonRespTypes, AnUpdateReqTypes, ClassOfPlain DEF Fine, Fits
  <1>15. ASSUME NEW T \in BodyIds
         PROVE  Fine(MsgOf(T))
    <2>1. Typed(specialize_req(T))
      BY TypedMade, Zenon DEF specialize_req
    <2>2. Names(specialize_req(T), MsgOf(T), "Anson")
      BY ClassMade, Zenon DEF specialize_req
    <2> QED
      BY <2>1, <2>2, StageOfMessage, ClassOfMessage DEF Fine, Typed, Names
  <1>16. id \in TypedIds \cup UntypedIds
    BY TypedOrNot
  <1>17. CASE \E T \in BodyIds : id = MsgOf(T)
    BY <1>15, <1>17 DEF Fine
  <1>18. CASE ~\E T \in BodyIds : id = MsgOf(T)
    <2>1. Fine(id)
      BY <1>7, <1>8, <1>9, <1>10, <1>11, <1>12, <1>13, <1>14, <1>16, <1>18 DEF TypedIds, UntypedIds
    <2> QED
      BY <2>1 DEF Fine
  <1> QED
    BY <1>17, <1>18

-----------------------------------------------------------------------------
(* Fields declared beside members held.                                    *)

\* What the recursion of Data finds.
LEMMA DataInherited ==
  ASSUME NEW types, TypesMade(types), NEW id \in DOMAIN types, NEW class, class = ClassOf(id)
  PROVE  /\ \A k : k \in DOMAIN DataOf(types)[id] <=>
                     \/ k \in DOMAIN class.data
                     \/ class.entt_base \in DOMAIN types /\ k \in DOMAIN DataOf(types)[class.entt_base]
         /\ \A k \in DOMAIN DataOf(types)[id] :
              DataOf(types)[id][k] = IF k \in DOMAIN class.data THEN class.data[k]
                                     ELSE DataOf(types)[class.entt_base][k]
  <1> DEFINE own == [x \in DOMAIN types |-> types[x].data]
             base == Bases(types)
  <1>1. \A x \in DOMAIN types : x \in RegisteredIds /\ types[x] = EnttOf(ClassOf(x))
    BY DEF TypesMade
  <1>2. \A x \in DOMAIN types : types[x].base = ClassOf(x).entt_base /\ types[x].data = ClassOf(x).data
    BY <1>1 DEF EnttOf
  <1>3. /\ DOMAIN own = DOMAIN types /\ own[id] = class.data /\ base[id] = class.entt_base
        /\ \A x \in DOMAIN types : base[x] = ClassOf(x).entt_base
    BY <1>2 DEF Bases
  <1>4. DataOf(types) = Inherited(own, base)
    BY DEF DataOf
  <1> HIDE DEF own, base
  <1>5. Rising(own, base)
    BY <1>1, <1>3, EnttBasesRank DEF Rising
  <1>6. Inherits(DataOf(types), own, base, id)
    BY <1>3, <1>4, <1>5, InheritedAt
  <1> QED
    BY <1>3, <1>6 DEF Inherits

\* The ASTs of a context and the types of the process.
Aligned(astmap, types) ==
  /\ \E n : Settled(astmap, n)
  /\ BasesIn(astmap, DOMAIN astmap \cup {"JavaEnum"})
  /\ TypesMade(types) /\ DOMAIN astmap \ CodeIds \subseteq DOMAIN types

\* The exceptions of DeclaredAsHeld, by class.
Wrong(id) ==
  IF id = "SemanExpr" THEN {"args", "semantics"}
  ELSE IF id = "AnCtor" THEN {"stype", "semantics"}
  ELSE IF id = "SemanticObject" THEN {"data"}
  ELSE IF id \in {"AnsonResp", "AnSessionResp"} THEN {"map"}
  ELSE IF id \in {"AnUpdateReq", "AnInsertReq"} THEN {"cols", "where"}
  ELSE {}

LEMMA WrongIs ==
  ASSUME NEW id, NEW k
  PROVE  <<id, k>> \in Misdeclared <=> k \in Wrong(id)
  BY DEF Misdeclared, Wrong

LEMMA WrongOf ==
  /\ Wrong("SemanExpr") = {"args", "semantics"} /\ Wrong("AnCtor") = {"stype", "semantics"}
  /\ Wrong("SemanticObject") = {"data"} /\ Wrong("AnsonResp") = {"map"} /\ Wrong("AnSessionResp") = {"map"}
  /\ Wrong("AnUpdateReq") = {"cols", "where"} /\ Wrong("AnInsertReq") = {"cols", "where"}
  BY DEF Wrong

WrongIds == {"SemanExpr", "AnCtor", "SemanticObject", "AnsonResp", "AnSessionResp", "AnUpdateReq", "AnInsertReq"}

LEMMA NoneWrong == ASSUME NEW id, id \notin WrongIds PROVE Wrong(id) = {}
  BY DEF Wrong, WrongIds

DeclaredIn(astmap, id, k) ==
  k \in DOMAIN FieldsOf(astmap)[id] /\ FieldsOf(astmap)[id][k] # NoType
HeldIn(astmap, types, id, k) ==
  k \in DOMAIN DataOf(types)[id] /\ DataOf(types)[id][k] = Cpp(FieldsOf(astmap)[id][k])
AsHeld(astmap, types, id) ==
  \A k : /\ DeclaredIn(astmap, id, k) => (HeldIn(astmap, types, id, k) <=> k \notin Wrong(id))
         /\ k \in Wrong(id) => DeclaredIn(astmap, id, k)

\* A class's own fields and members.
OwnHeld(class, wrong) ==
  \A k \in DOMAIN class.fields :
    /\ k \in DOMAIN class.data
    /\ class.data[k] = Cpp(class.fields[k]) <=> k \notin wrong
    /\ k \in wrong => class.fields[k] # NoType

\* A member is found where its field is: with the class, or both with the base.
LEMMA HeldStep ==
  ASSUME NEW astmap, NEW types, Aligned(astmap, types), NEW id \in DOMAIN astmap \ CodeIds,
         id # "AnsonBodyAst", NEW class, class = ClassOf(id), NEW base, base = class.base,
         OwnHeld(class, Wrong(id)),
         base \in DOMAIN astmap => AsHeld(astmap, types, base),
         \A k : k \notin DOMAIN class.fields =>
           /\ base \in DOMAIN astmap /\ DeclaredIn(astmap, base, k) =>
                k \notin DOMAIN class.data /\ class.entt_base = base
           /\ k \in Wrong(id) <=> base \in DOMAIN astmap /\ k \in Wrong(base)
  PROVE  AsHeld(astmap, types, id)
  <1>1. /\ Ranked(astmap) /\ astmap[id].fields = class.fields /\ astmap[id].base = base
        /\ id \in DOMAIN types /\ TypesMade(types) /\ DOMAIN astmap \ CodeIds \subseteq DOMAIN types
    BY MadeOf DEF Aligned, Settled
  <1>2. PICK all, data : all = FieldsOf(astmap) /\ data = DataOf(types)
    OBVIOUS
  <1>3. /\ \A k : k \in DOMAIN all[id] <=>
                    \/ k \in DOMAIN class.fields
                    \/ base \in DOMAIN astmap /\ k \in DOMAIN all[base]
        /\ \A k \in DOMAIN all[id] :
             all[id][k] = IF k \in DOMAIN class.fields THEN class.fields[k] ELSE all[base][k]
    BY <1>1, <1>2, FieldsInherited
  <1>4. /\ \A k : k \in DOMAIN data[id] <=>
                    \/ k \in DOMAIN class.data
                    \/ class.entt_base \in DOMAIN types /\ k \in DOMAIN data[class.entt_base]
        /\ \A k \in DOMAIN data[id] :
             data[id][k] = IF k \in DOMAIN class.data THEN class.data[k] ELSE data[class.entt_base][k]
    BY <1>1, <1>2, DataInherited
  <1>5. ASSUME NEW k \in DOMAIN class.fields
        PROVE  /\ DeclaredIn(astmap, id, k) => (HeldIn(astmap, types, id, k) <=> k \notin Wrong(id))
               /\ k \in Wrong(id) => DeclaredIn(astmap, id, k)
    <2>1. /\ k \in DOMAIN class.data
          /\ class.data[k] = Cpp(class.fields[k]) <=> k \notin Wrong(id)
          /\ k \in Wrong(id) => class.fields[k] # NoType
      BY DEF OwnHeld
    <2>2. k \in DOMAIN all[id] /\ all[id][k] = class.fields[k]
      BY <1>3
    <2>3. k \in DOMAIN data[id] /\ data[id][k] = class.data[k]
      BY <1>4, <2>1
    <2> QED
      BY <1>2, <2>1, <2>2, <2>3 DEF DeclaredIn, HeldIn
  <1>6. ASSUME NEW k, k \notin DOMAIN class.fields, base \in DOMAIN astmap
        PROVE  /\ DeclaredIn(astmap, id, k) => (HeldIn(astmap, types, id, k) <=> k \notin Wrong(id))
               /\ k \in Wrong(id) => DeclaredIn(astmap, id, k)
    <2>1. DeclaredIn(astmap, id, k) <=> DeclaredIn(astmap, base, k)
      BY <1>2, <1>3, <1>6 DEF DeclaredIn
    <2>2. ASSUME DeclaredIn(astmap, base, k)
          PROVE  HeldIn(astmap, types, id, k) <=> HeldIn(astmap, types, base, k)
      <3>1. k \in DOMAIN all[base] /\ k \notin DOMAIN class.data /\ class.entt_base = base
        BY <1>2, <1>6, <2>2 DEF DeclaredIn
      <3>2. all[id][k] = all[base][k]
        BY <1>3, <1>6, <3>1
      <3>0. base \notin CodeIds
        <4>1. DOMAIN all["MsgCode"] = {} \/ base # "MsgCode"
          BY <1>2, <1>6, BareFields DEF BareIds, Aligned
        <4> QED
          BY <3>1, <4>1 DEF CodeIds
      <3>3. k \in DOMAIN data[id] <=> k \in DOMAIN data[base]
        BY <1>1, <1>4, <1>6, <3>0, <3>1
      <3>4. k \in DOMAIN data[id] => data[id][k] = data[base][k]
        BY <1>4, <3>1
      <3> QED
        BY <1>2, <3>2, <3>3, <3>4 DEF HeldIn
    <2> QED
      BY <1>6, <2>1, <2>2 DEF AsHeld
  <1>7. ASSUME NEW k, k \notin DOMAIN class.fields, base \notin DOMAIN astmap
        PROVE  ~DeclaredIn(astmap, id, k) /\ k \notin Wrong(id)
    BY <1>2, <1>3, <1>7 DEF DeclaredIn
  <1> QED
    BY <1>5, <1>6, <1>7 DEF AsHeld

LEMMA TypedNotBodyAst == "AnsonBodyAst" \notin TypedIds
  <1>1. "AnsonBodyAst" \in ClassIds
    BY DEF ClassIds
  <1> QED
    BY <1>1, MsgOfAssumption DEF TypedIds

\* Classes of which the two tables agree add nothing to what is wrong above.
LEMMA TypedHeld ==
  ASSUME NEW astmap, NEW types, Aligned(astmap, types), NEW id \in (DOMAIN astmap \cap TypedIds) \ CodeIds,
         NEW base, ClassOf(id).base = base,
         base \in DOMAIN astmap => AsHeld(astmap, types, base),
         Wrong(id) \cap DOMAIN ClassOf(id).fields = {},
         \/ Wrong(id) = {} /\ base \notin WrongIds
         \/ base \in DOMAIN astmap /\ Wrong(id) = Wrong(base)
  PROVE  AsHeld(astmap, types, id)
  <1>1. PICK class : class = ClassOf(id)
    OBVIOUS
  <1>2. /\ class.entt_base = base /\ DOMAIN class.data = DOMAIN class.fields
        /\ \A k \in DOMAIN class.fields : class.data[k] = Cpp(class.fields[k])
    BY <1>1, TypedClasses DEF Typed
  <1>3. OwnHeld(class, Wrong(id))
    BY <1>1, <1>2 DEF OwnHeld
  <1>4. id # "AnsonBodyAst"
    BY TypedNotBodyAst
  <1>5. \A k : k \in Wrong(id) <=> base \in DOMAIN astmap /\ k \in Wrong(base)
    BY NoneWrong
  <1> QED
    BY <1>1, <1>2, <1>3, <1>4, <1>5, HeldStep

\* Classes of which they do not.
LEMMA FitsHeld ==
  ASSUME NEW astmap, NEW types, Aligned(astmap, types), NEW id \in DOMAIN astmap \ CodeIds, id # "AnsonBodyAst",
         NEW base, ClassOf(id).base = base, NEW entt_base, NEW fields,
         Fits(ClassOf(id), entt_base, fields, Wrong(id)),
         \A k \in Wrong(id) : k \in DOMAIN fields /\ fields[k] # NoType,
         base \in DOMAIN astmap => AsHeld(astmap, types, base),
         base \in DOMAIN astmap => base = entt_base \/ DOMAIN FieldsOf(astmap)[base] = {},
         base \notin WrongIds
  PROVE  AsHeld(astmap, types, id)
  <1>1. PICK class : class = ClassOf(id)
    OBVIOUS
  <1>2. OwnHeld(class, Wrong(id))
    BY <1>1 DEF Fits, OwnHeld
  <1>3. Wrong(base) = {}
    BY NoneWrong
  <1>4. ASSUME NEW k, k \notin DOMAIN class.fields
        PROVE  /\ base \in DOMAIN astmap /\ DeclaredIn(astmap, base, k) =>
                    k \notin DOMAIN class.data /\ class.entt_base = base
               /\ k \in Wrong(id) <=> base \in DOMAIN astmap /\ k \in Wrong(base)
    BY <1>1, <1>3, <1>4 DEF Fits, DeclaredIn
  <1> QED
    BY <1>1, <1>2, <1>4, HeldStep

\* Where nothing is declared nothing is wrong.
LEMMA BareHeld ==
  ASSUME NEW astmap, NEW types, Aligned(astmap, types), NEW id \in DOMAIN astmap \cap BareIds
  PROVE  DOMAIN FieldsOf(astmap)[id] = {} /\ AsHeld(astmap, types, id)
  <1>1. DOMAIN FieldsOf(astmap)[id] = {}
    BY BareFields DEF Aligned
  <1>2. Wrong(id) = {}
    BY NoneWrong DEF BareIds, WrongIds
  <1> QED
    BY <1>1, <1>2 DEF AsHeld, DeclaredIn

LEMMA SemanExprDeclared ==
  /\ DOMAIN SemanExpr.fields = {"stype", "expect_result", "args", "semantics"}
  /\ \A k \in DOMAIN SemanExpr.fields : SemanExpr.fields[k] # NoType
  <1>1. PICK f : f = [stype |-> str, expect_result |-> str, args |-> list(cls("SemanExpr")),
                      semantics |-> list(str)]
    OBVIOUS
  <1>2. SemanExpr.fields = f
    BY <1>1, SemanExprTypes DEF Fits
  <1>3. str = cls("string")
    BY DEF str, cls
  <1>4. str # NoType /\ list(cls("SemanExpr")) # NoType /\ list(str) # NoType
    BY <1>3, NotBlank
  <1>5. DOMAIN f = {"stype", "expect_result", "args", "semantics"}
    BY <1>1
  <1>6. f["stype"] = str /\ f["expect_result"] = str /\ f["args"] = list(cls("SemanExpr"))
        /\ f["semantics"] = list(str)
    BY <1>1
  <1> QED
    BY <1>2, <1>4, <1>5, <1>6

LEMMA RootData ==
  ASSUME NEW types, TypesMade(types), "Anson" \in DOMAIN types
  PROVE  \A k \in DOMAIN DataOf(types)["Anson"] : k \in {"type", "anclass"}
  <1>1. PICK i, a : i = ClassOf("IJsonable") /\ a = ClassOf("Anson")
    OBVIOUS
  <1>2. /\ i.entt_base = "" /\ DOMAIN i.data = {"anclass"}
        /\ a.entt_base = "IJsonable" /\ DOMAIN a.data = {"type"}
    BY <1>1, RootTypes, ClassOfPlain, Zenon
  <1>3. "" \notin DOMAIN types
    <2>1. ASSUME NEW x \in DOMAIN types
          PROVE  Rank(x) # 0
      <3>1. Rank(ClassOf(x).entt_base) < Rank(x)
        BY EnttBasesRank DEF TypesMade
      <3>2. Rank(ClassOf(x).entt_base) \in 0..5
        BY RankBounds
      <3> QED
        BY <3>1, <3>2
    <2> QED
      BY <2>1, RankOf
  <1>4. ASSUME "IJsonable" \in DOMAIN types
        PROVE  \A k \in DOMAIN DataOf(types)["IJsonable"] : k = "anclass"
    <2>1. \A k : k \in DOMAIN DataOf(types)["IJsonable"] <=>
                   k \in DOMAIN i.data \/ (i.entt_base \in DOMAIN types /\ k \in DOMAIN DataOf(types)[i.entt_base])
      BY <1>1, <1>4, DataInherited
    <2> QED
      BY <1>2, <1>3, <2>1
  <1>5. \A k : k \in DOMAIN DataOf(types)["Anson"] <=>
                 k \in DOMAIN a.data \/ (a.entt_base \in DOMAIN types /\ k \in DOMAIN DataOf(types)[a.entt_base])
    BY <1>1, DataInherited
  <1> QED
    BY <1>2, <1>4, <1>5

\* What AnCtor inherits is declared over SemanExpr and held over Anson.
LEMMA AnCtorHeld ==
  ASSUME NEW astmap, NEW types, Aligned(astmap, types), "AnCtor" \in DOMAIN astmap,
         AsHeld(astmap, types, "SemanExpr")
  PROVE  AsHeld(astmap, types, "AnCtor")
  <1>1. Ranked(astmap) /\ TypesMade(types) /\ DOMAIN astmap \ CodeIds \subseteq DOMAIN types
    BY DEF Aligned, Settled
  <1>0. /\ ClassOf("AnCtor") = AnCtor /\ ClassOf("SemanExpr") = SemanExpr
        /\ AnCtor.base = "SemanExpr" /\ SemanExpr.base = "Semantics"
    BY AstClassNames, ClassOfPlain, Zenon DEF Names
  <1>2. astmap["AnCtor"].base = "SemanExpr" /\ astmap["AnCtor"].fields = AnCtor.fields
    BY <1>0, MadeOf DEF Aligned
  <1>3. "SemanExpr" \in DOMAIN astmap
    BY <1>2 DEF Aligned, BasesIn
  <1>4. PICK expr : expr = SemanExpr.fields
    OBVIOUS
  <1>5. DOMAIN expr = {"stype", "expect_result", "args", "semantics"}
    BY <1>4, SemanExprTypes DEF Fits
  <1>6. astmap["SemanExpr"].base = "Semantics" /\ astmap["SemanExpr"].fields = expr
    BY <1>0, <1>3, <1>4, MadeOf DEF Aligned
  <1>7. "Semantics" \in DOMAIN astmap => DOMAIN FieldsOf(astmap)["Semantics"] = {}
    BY BareHeld DEF BareIds
  <1>8. \A k : k \in DOMAIN FieldsOf(astmap)["SemanExpr"] <=> k \in DOMAIN expr
    BY <1>1, <1>3, <1>6, <1>7, FieldsInherited
  <1>9. PICK class : class = AnCtor
    OBVIOUS
  <1>10. /\ DOMAIN class.fields = {"base", "args", "body", "expect_result"}
         /\ class.entt_base = "Anson" /\ DOMAIN class.data = DOMAIN class.fields
         /\ \A k \in DOMAIN class.fields : class.data[k] = Cpp(class.fields[k])
    BY <1>9, AnCtorTypes DEF Fits
  <1>11. PICK all, data : all = FieldsOf(astmap)["AnCtor"] /\ data = DataOf(types)["AnCtor"]
    OBVIOUS
  <1>12. /\ \A k : k \in DOMAIN all <=> k \in DOMAIN class.fields \cup DOMAIN expr
         /\ \A k \in DOMAIN all :
              all[k] = IF k \in DOMAIN class.fields THEN class.fields[k] ELSE FieldsOf(astmap)["SemanExpr"][k]
    BY <1>1, <1>2, <1>3, <1>8, <1>9, <1>11, FieldsInherited
  <1>13. /\ \A k : k \in DOMAIN data <=>
                     \/ k \in DOMAIN class.data
                     \/ "Anson" \in DOMAIN types /\ k \in DOMAIN DataOf(types)["Anson"]
         /\ \A k \in DOMAIN class.data : data[k] = class.data[k]
    <2>1. "AnCtor" \in DOMAIN types
      BY <1>1 DEF CodeIds
    <2> QED
      BY <1>1, <1>9, <1>10, <1>11, <2>1, ClassOfPlain, DataInherited
  <1>14. "Anson" \in DOMAIN types => \A k \in DOMAIN DataOf(types)["Anson"] : k \in {"type", "anclass"}
    BY <1>1, RootData
  <1>15. ASSUME NEW k \in DOMAIN class.fields
         PROVE  HeldIn(astmap, types, "AnCtor", k) /\ k \notin Wrong("AnCtor")
    <2>1. k \in DOMAIN data /\ data[k] = class.data[k] /\ k \in DOMAIN all /\ all[k] = class.fields[k]
      BY <1>10, <1>12, <1>13
    <2> QED
      BY <1>10, <1>11, <2>1, WrongOf DEF HeldIn
  <1>16. ASSUME NEW k \in {"stype", "semantics"}
         PROVE  DeclaredIn(astmap, "AnCtor", k) /\ ~HeldIn(astmap, types, "AnCtor", k)
    <2>1. k \notin DOMAIN class.fields /\ k \notin {"type", "anclass"} /\ k \in DOMAIN expr
      BY <1>5, <1>10
    <2>2. ~HeldIn(astmap, types, "AnCtor", k)
      BY <1>10, <1>11, <1>13, <1>14, <2>1 DEF HeldIn
    <2>3. FieldsOf(astmap)["SemanExpr"][k] = expr[k]
      BY <1>1, <1>3, <1>6, <1>8, <2>1, FieldsInherited
    <2>4. expr[k] # NoType
      BY <1>4, <2>1, SemanExprDeclared
    <2> QED
      BY <1>11, <1>12, <2>1, <2>2, <2>3, <2>4 DEF DeclaredIn
  <1>17. \A k : DeclaredIn(astmap, "AnCtor", k) => k \in DOMAIN class.fields \cup {"stype", "semantics"}
    BY <1>5, <1>10, <1>11, <1>12 DEF DeclaredIn
  <1> QED
    BY <1>15, <1>16, <1>17, WrongOf DEF AsHeld

LEMMA AnsonAstHeld ==
  ASSUME NEW astmap, NEW types, Aligned(astmap, types), "AnsonAst" \in DOMAIN astmap
  PROVE  /\ AsHeld(astmap, types, "AnsonAst")
         /\ \A k : k \in DOMAIN FieldsOf(astmap)["AnsonAst"] <=> k \in {"ctors", "ctorsemantics"}
  <1>1. ClassOf("AnsonAst").base = "Anson" /\ ClassOf("AnsonAst") = AnsonAst
    BY AstClassNames, ClassOfPlain DEF Names
  <1>2. "Anson" \in DOMAIN astmap =>
          AsHeld(astmap, types, "Anson") /\ DOMAIN FieldsOf(astmap)["Anson"] = {}
    BY BareHeld DEF BareIds
  <1>3. Wrong("AnsonAst") = {} /\ Wrong("Anson") = {}
    BY NoneWrong DEF WrongIds
  <1>4. OwnHeld(AnsonAst, Wrong("AnsonAst"))
    BY <1>3, AnsonAstTypes DEF OwnHeld
  <1>5. AsHeld(astmap, types, "AnsonAst")
    <2>1. "AnsonAst" \notin CodeIds
      BY DEF CodeIds
    <2> QED
      BY <1>1, <1>2, <1>3, <1>4, <2>1, HeldStep DEF DeclaredIn
  <1>6. astmap["AnsonAst"].fields = AnsonAst.fields /\ astmap["AnsonAst"].base = "Anson" /\ Ranked(astmap)
    BY <1>1, MadeOf DEF Aligned, Settled
  <1>7. \A k : k \in DOMAIN FieldsOf(astmap)["AnsonAst"] <=> k \in DOMAIN AnsonAst.fields
    BY <1>2, <1>6, FieldsInherited
  <1> QED
    BY <1>5, <1>7, AnsonAstTypes

\* The blank that reading a text inserts is no declaration.
LEMMA AnsonBodyAstHeld ==
  ASSUME NEW astmap, NEW types, Aligned(astmap, types), "AnsonBodyAst" \in DOMAIN astmap
  PROVE  AsHeld(astmap, types, "AnsonBodyAst")
  <1>1. Ranked(astmap) /\ TypesMade(types) /\ DOMAIN astmap \ CodeIds \subseteq DOMAIN types
    BY Zenon DEF Aligned, Settled
  <1>2. Made(astmap["AnsonBodyAst"], "AnsonBodyAst") /\ astmap["AnsonBodyAst"].base = "AnsonAst"
    <2>1. PICK n : Settled(astmap, n)
      BY Zenon DEF Aligned
    <2>2. ClassOf("AnsonBodyAst").base = "AnsonAst"
      BY AstClassNames, ClassOfPlain, Zenon DEF Names
    <2>3. astmap["AnsonBodyAst"].base = ClassOf("AnsonBodyAst").base
      BY <2>1, MadeOf
    <2>4. Made(astmap["AnsonBodyAst"], "AnsonBodyAst")
      BY <2>1, Zenon DEF Settled
    <2> QED
      BY <2>2, <2>3, <2>4
  <1>3. "AnsonAst" \in DOMAIN astmap
    BY <1>2 DEF Aligned, BasesIn
  <1>4. PICK class : class = AnsonBodyAst
    OBVIOUS
  <1>5. /\ class.entt_base = "AnsonAst" /\ DOMAIN class.fields = {"A"} /\ DOMAIN class.data = {"A", "uri"}
        /\ class.data["A"] = Cpp(class.fields["A"])
    BY <1>4, AnsonBodyAstTypes
  <1>6. PICK fields : fields = astmap["AnsonBodyAst"].fields
    OBVIOUS
  <1>7. /\ DOMAIN fields \in {{"A"}, {"A", "fields"}} /\ fields["A"] = class.fields["A"]
        /\ "fields" \in DOMAIN fields => fields["fields"] = NoType
    <2>1. CASE fields = class.fields
      BY <1>5, <2>1
    <2>2. CASE fields = IndexFields(class.fields)
      <3> PICK f : f = [fields |-> NoType]
        OBVIOUS
      <3>1. DOMAIN f = {"fields"} /\ f["fields"] = NoType
        OBVIOUS
      <3>2. fields = Replacing(f, class.fields)
        BY <2>2 DEF IndexFields
      <3> QED
        BY <1>5, <3>1, <3>2 DEF Replacing
    <2> QED
      BY <1>2, <1>4, <1>6, <2>1, <2>2, ClassOfPlain DEF Made
  <1>8. PICK all, over, data, held :
          /\ all = FieldsOf(astmap)["AnsonBodyAst"] /\ over = FieldsOf(astmap)["AnsonAst"]
          /\ data = DataOf(types)["AnsonBodyAst"] /\ held = DataOf(types)["AnsonAst"]
    OBVIOUS
  <1>9. /\ \A k : k \in DOMAIN all <=> k \in DOMAIN fields \cup DOMAIN over
        /\ \A k \in DOMAIN all : all[k] = IF k \in DOMAIN fields THEN fields[k] ELSE over[k]
    BY <1>1, <1>2, <1>3, <1>6, <1>8, FieldsInherited
  <1>10. /\ \A k : k \in DOMAIN data <=> k \in DOMAIN class.data \cup DOMAIN held
         /\ \A k \in DOMAIN data : data[k] = IF k \in DOMAIN class.data THEN class.data[k] ELSE held[k]
    <2>1. {"AnsonBodyAst", "AnsonAst"} \subseteq DOMAIN types
      BY <1>1, <1>3 DEF CodeIds
    <2> QED
      BY <1>1, <1>3, <1>4, <1>5, <1>8, <2>1, ClassOfPlain, DataInherited
  <1>11. \A k : k \in DOMAIN over <=> k \in {"ctors", "ctorsemantics"}
    BY <1>3, <1>8, AnsonAstHeld
  <1>12. Wrong("AnsonBodyAst") = {} /\ Wrong("AnsonAst") = {}
    BY NoneWrong DEF WrongIds
  <1>13. HeldIn(astmap, types, "AnsonBodyAst", "A")
    BY <1>5, <1>7, <1>8, <1>9, <1>10 DEF HeldIn
  <1>14. ASSUME NEW k \in {"ctors", "ctorsemantics"}, DeclaredIn(astmap, "AnsonBodyAst", k)
         PROVE  HeldIn(astmap, types, "AnsonBodyAst", k)
    <2>1. k \notin DOMAIN fields /\ k \notin DOMAIN class.data /\ k \in DOMAIN over
      BY <1>5, <1>7, <1>11
    <2>2. all[k] = over[k] /\ over[k] # NoType
      BY <1>8, <1>9, <1>14, <2>1 DEF DeclaredIn
    <2>3. k \in DOMAIN held /\ held[k] = Cpp(over[k])
      BY <1>3, <1>8, <1>12, <2>1, <2>2, AnsonAstHeld DEF AsHeld, DeclaredIn, HeldIn
    <2> QED
      BY <1>8, <1>10, <2>1, <2>2, <2>3 DEF HeldIn
  <1>15. ASSUME NEW k, DeclaredIn(astmap, "AnsonBodyAst", k)
         PROVE  k \in {"A", "ctors", "ctorsemantics"}
    BY <1>7, <1>8, <1>9, <1>11, <1>15 DEF DeclaredIn
  <1> QED
    BY <1>12, <1>13, <1>14, <1>15 DEF AsHeld

LEMMA InsertFields == DOMAIN AnInsertReq.fields = {}
  <1>1. <<>> \in Seq({}) /\ Len(<<>>) = 0
    BY EmptySeq
  <1>2. DOMAIN <<>> = {}
    BY <1>1, LenProperties
  <1> QED
    BY <1>2, WrittenRequests DEF Declares

LEMMA SessionFields == "map" \notin DOMAIN AnSessionResp.fields
  <1>1. PICK f : f = [ssInf |-> cls("SessionInf"), profile |-> cls("Anson")]
    OBVIOUS
  <1>2. AnSessionResp = Body("AnSessionResp", "AnsonResp", f)
    BY <1>1, Zenon DEF AnSessionResp
  <1>3. Declares(AnSessionResp, f)
    BY <1>2, WrittenMade
  <1>4. "map" \notin DOMAIN f
    BY <1>1
  <1> QED
    BY <1>3, <1>4 DEF Declares

LEMMA StringsDeclared == map(str) # NoType /\ table(str) # NoType
  <1>1. str = cls("string")
    BY DEF str, cls
  <1> QED
    BY <1>1, NotBlank

LEMMA AllHeld ==
  ASSUME NEW astmap, NEW types, Aligned(astmap, types), NEW id \in DOMAIN astmap
  PROVE  AsHeld(astmap, types, id)
  <1> DEFINE Fine(x) == x \in DOMAIN astmap => AsHeld(astmap, types, x)
  <1>1. PICK n : Settled(astmap, n) /\ Ranked(astmap)
    BY DEF Aligned, Settled
  <1>2. ASSUME NEW class, NEW x \in (TypedIds \ WrongIds) \ CodeIds, NEW base, Names(class, x, base),
               ClassOf(x) = class, Fine(base), base \notin WrongIds
        PROVE  Fine(x)
    BY <1>2, TypedHeld, NoneWrong DEF Names
  <1>3. ASSUME NEW class, NEW x \in WrongIds, NEW base, NEW fields, NEW wrong,
               Names(class, x, base), ClassOf(x) = class, wrong = Wrong(x),
               Fits(class, base, fields, wrong),
               \A k \in wrong : k \in DOMAIN fields /\ fields[k] # NoType,
               Fine(base), base \notin WrongIds
        PROVE  Fine(x)
    <2>1. x # "AnsonBodyAst" /\ x \notin CodeIds
      BY DEF WrongIds, CodeIds
    <2> QED
      BY <1>3, <2>1, FitsHeld DEF Names
  <1>4. /\ Fine("IJsonable") /\ Fine("Anson") /\ Fine("Semantics") /\ Fine("MsgCode") /\ Fine("Port")
        /\ "Semantics" \in DOMAIN astmap => DOMAIN FieldsOf(astmap)["Semantics"] = {}
    BY BareHeld DEF BareIds
  <1>5. Fine("")
    BY <1>1, RankOf, LowestUnregistered
  <1>6. Fine("AnsonAst")
    BY AnsonAstHeld
  <1>7. Fine("AnsonBodyAst")
    BY AnsonBodyAstHeld
  <1>8. "AnCtor" \in DOMAIN astmap => "SemanExpr" \in DOMAIN astmap
    <2>1. ClassOf("AnCtor").base = "SemanExpr"
      BY AstClassNames, ClassOfPlain, Zenon DEF Names
    <2>2. "AnCtor" \in DOMAIN astmap => astmap["AnCtor"].base = "SemanExpr"
      BY <1>1, <2>1, MadeOf
    <2> QED
      BY <2>2 DEF Aligned, BasesIn
  <1>9. Fine("SemanExpr") => Fine("AnCtor")
    BY <1>8, AnCtorHeld
  <1>10. "AnInsertReq" \in DOMAIN astmap => "AnUpdateReq" \in DOMAIN astmap
    <2>1. ClassOf("AnInsertReq").base = "AnUpdateReq"
      BY BodyClassNames, ClassOfPlain, Zenon DEF Names
    <2>2. "AnInsertReq" \in DOMAIN astmap => astmap["AnInsertReq"].base = "AnUpdateReq"
      BY <1>1, <2>1, MadeOf
    <2> QED
      BY <2>2 DEF Aligned, BasesIn
  <1>11. "AnSessionResp" \in DOMAIN astmap => "AnsonResp" \in DOMAIN astmap
    <2>1. ClassOf("AnSessionResp").base = "AnsonResp"
      BY BodyClassNames, ClassOfPlain, Zenon DEF Names
    <2>2. "AnSessionResp" \in DOMAIN astmap => astmap["AnSessionResp"].base = "AnsonResp"
      BY <1>1, <2>1, MadeOf
    <2> QED
      BY <2>2 DEF Aligned, BasesIn
  <1>12. Fine("AnUpdateReq") => Fine("AnInsertReq")
    <2>1. "AnInsertReq" \in TypedIds \ CodeIds
      BY DEF TypedIds, CodeIds
    <2>2. ClassOf("AnInsertReq").base = "AnUpdateReq" /\ DOMAIN ClassOf("AnInsertReq").fields = {}
      BY InsertFields, BodyClassNames, ClassOfPlain, Zenon DEF Names
    <2>3. Wrong("AnInsertReq") = Wrong("AnUpdateReq")
      BY WrongOf
    <2> QED
      BY <1>10, <2>1, <2>2, <2>3, TypedHeld
  <1>13. Fine("AnsonResp") => Fine("AnSessionResp")
    <2>1. "AnSessionResp" \in TypedIds \ CodeIds
      BY DEF TypedIds, CodeIds
    <2>2. ClassOf("AnSessionResp").base = "AnsonResp" /\ "map" \notin DOMAIN ClassOf("AnSessionResp").fields
      BY SessionFields, BodyClassNames, ClassOfPlain, Zenon DEF Names
    <2>3. Wrong("AnSessionResp") = {"map"} /\ Wrong("AnsonResp") = {"map"}
      BY WrongOf
    <2> QED
      BY <1>11, <2>1, <2>2, <2>3, TypedHeld
  <1> HIDE DEF Fine
  <1>14. /\ {"AnsonField", "AnsonJavaEnumAst", "AnsonMsgAst", "AnResultset", "SessionInf",
             "AnsonHeader", "AnsonBody", "AnQueryReq", "UserReq", "EchoReq",
             "PeerSettings", "LangString", "HeartBeat", "AnSessionReq"} \subseteq (TypedIds \ WrongIds) \ CodeIds
         /\ \A base \in {"", "Anson", "Semantics", "AnsonAst", "AnsonBody"} : base \notin WrongIds
         /\ {"SemanExpr", "SemanticObject", "AnsonResp", "AnUpdateReq"} \subseteq WrongIds
    BY DEF TypedIds, WrongIds, CodeIds
  <1>15. Fine("AnsonField") /\ Fine("AnsonJavaEnumAst") /\ Fine("AnsonMsgAst")
    BY <1>2, <1>5, <1>6, <1>14, AstClassNames, ClassOfPlain
  <1>16. Fine("AnResultset") /\ Fine("SessionInf") /\ Fine("AnsonHeader") /\ Fine("AnsonBody")
    BY <1>2, <1>4, <1>14, MessageClassNames, ClassOfPlain
  <1>17. Fine("PeerSettings") /\ Fine("LangString")
    BY <1>2, <1>4, <1>14, OtherClassNames, ClassOfPlain
  <1>18. Fine("AnQueryReq") /\ Fine("UserReq") /\ Fine("EchoReq") /\ Fine("HeartBeat") /\ Fine("AnSessionReq")
    BY <1>2, <1>14, <1>16, BodyClassNames, ClassOfPlain
  <1>19. ASSUME NEW T \in BodyIds
         PROVE  Fine(MsgOf(T))
    <2>1. MsgOf(T) \in (TypedIds \ WrongIds) \ CodeIds
      <3>1. WrongIds \subseteq ClassIds /\ CodeIds \subseteq ClassIds
        BY DEF WrongIds, CodeIds, ClassIds, BodyIds
      <3> QED
        BY <3>1, MsgOfAssumption DEF TypedIds
    <2>2. Names(specialize_req(T), MsgOf(T), "Anson")
      BY ClassMade, Zenon DEF specialize_req
    <2> QED
      BY <1>2, <1>4, <1>14, <2>1, <2>2, ClassOfMessage
  <1>20. Fine("SemanExpr")
    <2>1. \A k \in {"args", "semantics"} : k \in DOMAIN SemanExpr.fields /\ SemanExpr.fields[k] # NoType
      BY SemanExprDeclared
    <2>2. Fits(SemanExpr, "Anson", SemanExpr.fields, Wrong("SemanExpr"))
      BY SemanExprTypes, WrongOf DEF Fits
    <2>3. ClassOf("SemanExpr") = SemanExpr /\ SemanExpr.base = "Semantics"
      BY AstClassNames, ClassOfPlain, Zenon DEF Names
    <2>4. /\ \A k \in Wrong("SemanExpr") : k \in DOMAIN SemanExpr.fields /\ SemanExpr.fields[k] # NoType
          /\ "Semantics" \notin WrongIds /\ "SemanExpr" \notin CodeIds
      BY <1>14, <2>1, WrongOf DEF CodeIds
    <2> QED
      BY <1>4, <2>2, <2>3, <2>4, FitsHeld DEF Fine
  <1>21. Fine("SemanticObject")
    <2>1. PICK f : f = [data |-> map(str)]
      OBVIOUS
    <2>2. DOMAIN f = {"data"} /\ f["data"] # NoType
      BY <2>1, StringsDeclared
    <2>3. Fits(SemanticObject, "Anson", f, {"data"}) /\ {"data"} = Wrong("SemanticObject")
      BY <2>1, SemanticObjectTypes, WrongOf
    <2>4. Names(SemanticObject, "SemanticObject", "Anson") /\ ClassOf("SemanticObject") = SemanticObject
      BY MessageClassNames, ClassOfPlain
    <2>5. /\ \A k \in {"data"} : k \in DOMAIN f /\ f[k] # NoType
          /\ "SemanticObject" \in WrongIds /\ "Anson" \notin WrongIds
      BY <1>14, <2>2
    <2> QED
      BY <1>3, <1>4, <2>3, <2>4, <2>5, Zenon
  <1>22. Fine("AnsonResp")
    <2>1. PICK m, rs : Fits(AnsonResp, "AnsonBody", [m |-> m, rs |-> rs, map |-> map(str)], {"map"})
      BY AnsonRespTypes
    <2>2. PICK f : f = [m |-> m, rs |-> rs, map |-> map(str)]
      OBVIOUS
    <2>3. "map" \in DOMAIN f /\ f["map"] # NoType
      BY <2>2, StringsDeclared
    <2>4. /\ Names(AnsonResp, "AnsonResp", "AnsonBody") /\ ClassOf("AnsonResp") = AnsonResp
          /\ {"map"} = Wrong("AnsonResp")
      BY BodyClassNames, ClassOfPlain, WrongOf
    <2>5. /\ \A k \in {"map"} : k \in DOMAIN f /\ f[k] # NoType
          /\ "AnsonResp" \in WrongIds /\ "AnsonBody" \notin WrongIds
      BY <1>14, <2>3
    <2>6. Fits(AnsonResp, "AnsonBody", f, {"map"})
      BY <2>1, <2>2
    <2> QED
      BY <1>3, <1>16, <2>4, <2>5, <2>6, Zenon
  <1>23. Fine("AnUpdateReq")
    <2>1. PICK f : /\ Fits(AnUpdateReq, "AnsonBody", f, {"cols", "where"})
                   /\ {"cols", "where"} \subseteq DOMAIN f
                   /\ f["cols"] = table(str) /\ f["where"] = table(cls("VarTypae"))
      BY AnUpdateReqTypes
    <2>2. f["cols"] # NoType /\ f["where"] # NoType
      BY <2>1, StringsDeclared, NotBlank
    <2>3. /\ Names(AnUpdateReq, "AnUpdateReq", "AnsonBody") /\ ClassOf("AnUpdateReq") = AnUpdateReq
          /\ {"cols", "where"} = Wrong("AnUpdateReq")
      BY BodyClassNames, ClassOfPlain, WrongOf
    <2>4. /\ \A k \in {"cols", "where"} : k \in DOMAIN f /\ f[k] # NoType
          /\ "AnUpdateReq" \in WrongIds /\ "AnsonBody" \notin WrongIds
      BY <1>14, <2>1, <2>2
    <2> QED
      BY <1>3, <1>16, <2>1, <2>3, <2>4, Zenon
  <1>24. id \in RegisteredIds
    BY <1>1, MadeOf
  <1>25. Fine(id)
    <2>1. CASE \E T \in BodyIds : id = MsgOf(T)
      BY <1>19, <2>1
    <2>2. CASE ~\E T \in BodyIds : id = MsgOf(T)
      <3>1. id \in TypedIds \cup UntypedIds
        BY <1>24, TypedOrNot
      <3> QED
        BY <1>4, <1>6, <1>7, <1>9, <1>12, <1>13, <1>15, <1>16, <1>17, <1>18, <1>20, <1>21, <1>22, <1>23,
           <2>2, <3>1 DEF TypedIds, UntypedIds
    <2> QED
      BY <2>1, <2>2
  <1> QED
    BY <1>25 DEF Fine

LEMMA SettledHeld == SettledInv => DeclaredAsHeld
  <1> SUFFICES ASSUME SettledInv, NEW c \in Ctx
               PROVE  {f \in Declared(c) : ~Held(c, f)} = Registered(c, Misdeclared)
    BY DEF DeclaredAsHeld
  <1>1. PICK astmap : astmap = asts[c]
    OBVIOUS
  <1>2. /\ Settled(astmap, turn[c]) /\ BasesIn(astmap, DOMAIN astmap \cup aliases[c])
        /\ aliases[c] \subseteq {"JavaEnum"} /\ TypesMade(entt) /\ DOMAIN astmap \ CodeIds \subseteq DOMAIN entt
    BY <1>1 DEF SettledInv, RegInv, Known, TypesOK
  <1>3. BasesIn(astmap, DOMAIN astmap \cup {"JavaEnum"})
    BY <1>2 DEF BasesIn
  <1>4. Aligned(astmap, entt)
    BY <1>2, <1>3 DEF Aligned
  <1>5. ASSUME NEW id, NEW k
        PROVE  /\ <<id, k>> \in Declared(c) <=> id \in DOMAIN astmap /\ DeclaredIn(astmap, id, k)
               /\ id \in DOMAIN astmap \ CodeIds => (Held(c, <<id, k>>) <=> HeldIn(astmap, entt, id, k))
    <2>1. <<id, k>> \in Declared(c) <=> id \in DOMAIN astmap /\ DeclaredIn(astmap, id, k)
      BY <1>1, DeclaredIs DEF DeclaredIn, Fields
    <2>2. <<id, k>>[1] = id /\ <<id, k>>[2] = k
      OBVIOUS
    <2>3. id \in DOMAIN astmap \ CodeIds => (Held(c, <<id, k>>) <=> HeldIn(astmap, entt, id, k))
      BY <1>1, <1>2, <2>2 DEF Held, HeldIn, Data, Fields
    <2> QED
      BY <2>1, <2>3
  <1>6. ASSUME NEW id \in DOMAIN astmap, NEW k
        PROVE  <<id, k>> \in Declared(c) /\ ~Held(c, <<id, k>>) <=> <<id, k>> \in Misdeclared
    <2>1. CASE id \in CodeIds
      <3>1. ~DeclaredIn(astmap, id, k) /\ AsHeld(astmap, entt, id)
        BY <1>4, <1>6, <2>1, BareHeld DEF BareIds, CodeIds, DeclaredIn
      <3> QED
        BY <1>5, <3>1, WrongIs DEF AsHeld
    <2>2. CASE id \notin CodeIds
      BY <1>4, <1>5, <2>2, AllHeld, WrongIs DEF AsHeld
    <2> QED
      BY <2>1, <2>2
  <1>7. ASSUME NEW f \in Declared(c), ~Held(c, f)
        PROVE  f \in Registered(c, Misdeclared)
    <2>1. PICK id, k : f = <<id, k>>
      BY DeclaredPairs
    <2>2. id \in DOMAIN astmap /\ f \in Misdeclared
      BY <1>5, <1>6, <1>7, <2>1
    <2> QED
      BY <1>1, <2>1, <2>2 DEF Registered
  <1>8. ASSUME NEW f \in Registered(c, Misdeclared)
        PROVE  f \in Declared(c) /\ ~Held(c, f)
    <2>1. PICK id, k : f = <<id, k>>
      BY DEF Registered, Misdeclared
    <2>2. id \in DOMAIN astmap /\ f \in Misdeclared
      BY <1>1, <1>8, <2>1 DEF Registered
    <2> QED
      BY <1>6, <2>1, <2>2
  <1> QED
    BY <1>7, <1>8

\* Of whatever contexts and however far they are: a declared field is a member
\* of the EnTT type the parser finds, of the type declared, but for the ones
\* Misdeclared lists (json.h:96-279, entt_jserv.h:178).
THEOREM DeclaredIsHeld == Spec => []DeclaredAsHeld
  BY SettledHeld, SettledInit, SettledNext, PTL DEF Spec

-----------------------------------------------------------------------------
(* What a type id needs to be constructed.                                 *)

\* The words of the declared type ids: those of containers, of the classes and
\* primitives declared, of message bodies, and a misspelt one.
UsualWords == {"string", "int", "VarType", "java.lang.String", "Anson", "SemanExpr", "AnCtor", "AnResultset",
               "SessionInf", "AnsonHeader", "MsgCode", "JavaEnum", "AnUpdateReq"}
TypeWord == {"list", "map", "shared_ptr", "VarTypae"} \cup UsualWords \cup BodyIds

\* Constructible, one container at a time: which of the ids inside declared can
\* be constructed, if in those before can.
Inside(declared) == {SubSeq(declared, i, Len(declared)) : i \in DOMAIN declared}
Element(t) == IF Head(t) = "list" THEN parseListValtype(t) ELSE parseMapValtype(t)
OkIn(c, t, before, n) ==
  IF Head(t) \notin {"list", "map"} THEN CppWord(Head(t)) \in Prim \cup Known(c)
  ELSE /\ n > 0 /\ before[Element(t).id]
       /\ Head(Element(t).id) = "list" => Element(t).id \in var_ctors
       /\ Element(t).ptr => Element(t).id[1] \in DOMAIN entt /\ entt[Element(t).id[1]].create_ptr
OkLayer(c, declared, before, n) == [t \in Inside(declared) |-> OkIn(c, t, before, n)]

LEMMA ConstructibleIs ==
  ASSUME NEW c, NEW declared
  PROVE  \E ok : /\ Constructible(c, declared) = ok[3][declared]
                 /\ \A n \in 0..3 : ok[n] = OkLayer(c, declared, ok[n - 1], n)
  <1> DEFINE IsOk(ok) == ok = [n \in 0..3 |-> OkLayer(c, declared, ok[n - 1], n)]
  <1>1. Constructible(c, declared) = (CHOOSE ok : IsOk(ok))[3][declared]
    BY DEF Constructible, OkLayer, OkIn, Inside, Element
  <1>2. \E ok : IsOk(ok)
    <2>1. ASSUME NEW x, NEW y
          PROVE  OkLayer(c, declared, x, 0) = OkLayer(c, declared, y, 0)
      BY DEF OkLayer, OkIn
    <2>2. PICK o0 : o0 = OkLayer(c, declared, 0, 0)
      OBVIOUS
    <2>3. PICK o1 : o1 = OkLayer(c, declared, o0, 1)
      OBVIOUS
    <2>4. PICK o2 : o2 = OkLayer(c, declared, o1, 2)
      OBVIOUS
    <2>5. PICK o3 : o3 = OkLayer(c, declared, o2, 3)
      OBVIOUS
    <2> DEFINE f == [n \in 0..3 |-> IF n = 0 THEN o0 ELSE IF n = 1 THEN o1 ELSE IF n = 2 THEN o2 ELSE o3]
    <2>6. f[0] = o0 /\ f[1] = o1 /\ f[2] = o2 /\ f[3] = o3 /\ f = [n \in 0..3 |-> f[n]]
      OBVIOUS
    <2> HIDE DEF f
    <2>7. ASSUME NEW n \in 0..3
          PROVE  f[n] = OkLayer(c, declared, f[n - 1], n)
      <3>1. f[0] = OkLayer(c, declared, f[0 - 1], 0)
        BY <2>1, <2>2, <2>6
      <3>2. 1 - 1 = 0 /\ 2 - 1 = 1 /\ 3 - 1 = 2
        OBVIOUS
      <3>3. f[1] = OkLayer(c, declared, f[1 - 1], 1)
        BY <2>3, <2>6, <3>2
      <3>4. f[2] = OkLayer(c, declared, f[2 - 1], 2)
        BY <2>4, <2>6, <3>2
      <3>5. f[3] = OkLayer(c, declared, f[3 - 1], 3)
        BY <2>5, <2>6, <3>2
      <3>6. n = 0 \/ n = 1 \/ n = 2 \/ n = 3
        OBVIOUS
      <3> QED
        BY <3>1, <3>3, <3>4, <3>5, <3>6
    <2>8. IsOk(f)
      BY <2>6, <2>7
    <2> QED
      BY <2>8
  <1>3. PICK ok : ok = CHOOSE o : IsOk(o)
    OBVIOUS
  <1>4. IsOk(ok)
    BY <1>2, <1>3
  <1> QED
    BY <1>1, <1>3, <1>4

\* The ids inside an id.
LEMMA InsideOf ==
  ASSUME NEW id \in Seq(TypeWord), id # <<>>
  PROVE  /\ id \in Inside(id) /\ Head(id) = id[1]
         /\ \A t \in Inside(id) : t \in Seq(TypeWord) /\ t # <<>> /\ (Len(t) > 1 => Tail(t) \in Inside(id))
  <1>1. Len(id) \in Nat \ {0} /\ DOMAIN id = 1..Len(id)
    BY EmptySeq, LenProperties
  <1>2. SubSeq(id, 1, Len(id)) = id /\ 1 \in DOMAIN id
    BY <1>1, SubSeqFull
  <1>3. id \in Inside(id)
    BY <1>2, Zenon DEF Inside
  <1>4. ASSUME NEW i \in 1..Len(id), NEW t, t = SubSeq(id, i, Len(id))
        PROVE  t \in Seq(TypeWord) /\ t # <<>> /\ (Len(t) > 1 => Tail(t) \in Inside(id))
    <2>1. \A j \in i..Len(id) : id[j] \in TypeWord
      BY <1>1, ElementOfSeq
    <2>2. t \in Seq(TypeWord) /\ Len(t) = Len(id) - i + 1
      BY <1>1, <1>4, <2>1, SubSeqProperties
    <2>3. Tail(t) = SubSeq(id, i + 1, Len(id))
      BY <1>1, <1>4, HeadTailOfSubSeq
    <2>4. Len(t) > 1 => i + 1 \in DOMAIN id
      BY <1>1, <2>2
    <2>5. t # <<>>
      BY <1>1, <2>2, EmptySeq
    <2> QED
      BY <2>2, <2>3, <2>4, <2>5 DEF Inside
  <1>5. Head(id) = id[1]
    OBVIOUS
  <1> QED
    BY <1>1, <1>3, <1>4, <1>5 DEF Inside

Layers(c, declared, ok) == \A n \in 0..3 : ok[n] = OkLayer(c, declared, ok[n - 1], n)

\* A word put before an id is taken off again.
LEMMA WordBefore ==
  ASSUME NEW v \in TypeWord, NEW id \in Seq(TypeWord), id # <<>>, NEW t, t = <<v>> \o id
  PROVE  t \in Seq(TypeWord) /\ t # <<>> /\ Head(t) = v /\ Tail(t) = id /\ Len(t) > 1
  <1>1. /\ t \in Seq(TypeWord) /\ Len(t) = Len(id) + 1
        /\ \A i \in 1..Len(id) : t[i + 1] = id[i]
    BY Prefixed
  <1>2. Len(id) \in Nat \ {0}
    BY EmptySeq
  <1>3. t # <<>> /\ Len(t) > 1
    BY <1>1, <1>2, EmptySeq
  <1>4. <<v>> \in Seq(TypeWord) /\ Len(<<v>>) = 1 /\ <<v>>[1] = v
    OBVIOUS
  <1>5. t[1] = v
    BY <1>1, <1>2, <1>4, ConcatProperties
  <1>6. Head(t) = v
    BY <1>1, <1>3, <1>5
  <1>7. /\ Tail(t) \in Seq(TypeWord) /\ Len(Tail(t)) = Len(t) - 1
        /\ \A i \in 1..Len(Tail(t)) : Tail(t)[i] = t[i + 1]
    BY <1>1, <1>3, HeadTailProperties
  <1>8. Tail(t) = id
    BY <1>1, <1>2, <1>7, SeqEqual
  <1> QED
    BY <1>1, <1>3, <1>6, <1>8

LEMMA WordIs ==
  ASSUME NEW w \in TypeWord
  PROVE  cls(w) \in Seq(TypeWord) /\ cls(w) # <<>> /\ Head(cls(w)) = w /\ cls(w)[1] = w /\ Len(cls(w)) = 1
  <1>1. cls(w) \in Seq(TypeWord) /\ Len(cls(w)) = 1 /\ Head(cls(w)) = w /\ cls(w)[1] = w
    BY DEF cls
  <1> QED
    BY <1>1, EmptySeq

\* The values a container holds by value, and those it holds by pointer.
LEMMA ElementIs ==
  ASSUME NEW id \in Seq(TypeWord), id # <<>>, NEW t \in {list(id), map(id)}
  PROVE  /\ t \in Seq(TypeWord) /\ t # <<>> /\ Head(t) \in {"list", "map"} /\ Tail(t) = id /\ Len(t) > 1
         /\ Head(id) # "shared_ptr" => Element(t) = [id |-> id, ptr |-> FALSE]
         /\ Head(id) = "shared_ptr" /\ Len(id) > 1 => Element(t) = [id |-> Tail(id), ptr |-> TRUE]
  <1>1. /\ t \in Seq(TypeWord) /\ t # <<>> /\ Tail(t) = id /\ Len(t) > 1
        /\ Head(t) \in {"list", "map"}
    <2>1. PICK v \in {"list", "map"} : t = <<v>> \o id
      BY Zenon DEF list, map
    <2>2. v \in TypeWord
      BY DEF TypeWord
    <2> QED
      BY <2>1, <2>2, WordBefore
  <1>2. Element(t) = parse_val_type(id)
    BY <1>1 DEF Element, parseListValtype, parseMapValtype
  <1> QED
    BY <1>1, <1>2 DEF parse_val_type

LEMMA OkAt ==
  ASSUME NEW c, NEW declared, NEW ok, Layers(c, declared, ok), NEW n \in 0..3, NEW t \in Inside(declared)
  PROVE  ok[n][t] = OkIn(c, t, ok[n - 1], n)
  BY DEF Layers, OkLayer

LEMMA OfWord ==
  ASSUME NEW c, NEW declared, NEW ok, Layers(c, declared, ok), NEW n \in 0..3,
         NEW w \in TypeWord, w \notin {"list", "map"}, cls(w) \in Inside(declared)
  PROVE  ok[n][cls(w)] <=> CppWord(w) \in Prim \cup Known(c)
  <1>1. Head(cls(w)) = w
    BY WordIs
  <1>2. ok[n][cls(w)] = OkIn(c, cls(w), ok[n - 1], n)
    BY OkAt
  <1>3. OkIn(c, cls(w), ok[n - 1], n) <=> CppWord(w) \in Prim \cup Known(c)
    BY <1>1 DEF OkIn
  <1> QED
    BY <1>2, <1>3, Zenon

\* A container needs its elements, and a constructor if they are lists.
OfValues(ok, n, t, id) == ok[n][t] <=> ok[n - 1][id] /\ (Head(id) = "list" => id \in var_ctors)
OfObjects(ok, n, t, w) == ok[n][t] <=> ok[n - 1][cls(w)] /\ w \in DOMAIN entt /\ entt[w].create_ptr

LEMMA OfContainer ==
  ASSUME NEW c, NEW declared \in Seq(TypeWord), declared # <<>>, NEW ok, Layers(c, declared, ok), NEW n \in 1..3,
         NEW id \in Seq(TypeWord), id # <<>>, NEW t \in {list(id), map(id)}, t \in Inside(declared),
         Head(id) # "shared_ptr"
  PROVE  /\ id \in Inside(declared)
         /\ OfValues(ok, n, t, id)
  <1>1. /\ Head(t) \in {"list", "map"} /\ Tail(t) = id /\ Len(t) > 1
        /\ Element(t) = [id |-> id, ptr |-> FALSE]
    BY ElementIs
  <1>2. id \in Inside(declared)
    BY <1>1, InsideOf
  <1>3. ok[n][t] = OkIn(c, t, ok[n - 1], n)
    BY OkAt
  <1>4. Element(t).id = id /\ ~Element(t).ptr /\ n > 0
    BY <1>1
  <1>5. OkIn(c, t, ok[n - 1], n) <=> ok[n - 1][id] /\ (Head(id) = "list" => id \in var_ctors)
    BY <1>1, <1>4, Zenon DEF OkIn
  <1> QED
    BY <1>2, <1>3, <1>5, Zenon DEF OfValues

LEMMA OfPointers ==
  ASSUME NEW c, NEW declared \in Seq(TypeWord), declared # <<>>, NEW ok, Layers(c, declared, ok), NEW n \in 1..3,
         NEW w \in TypeWord, w # "list", NEW t, t = list(ptr(cls(w))), t \in Inside(declared)
  PROVE  /\ cls(w) \in Inside(declared)
         /\ OfObjects(ok, n, t, w)
  <1>1. /\ cls(w) \in Seq(TypeWord) /\ cls(w) # <<>> /\ Head(cls(w)) = w /\ cls(w)[1] = w
    BY WordIs
  <1>2. PICK id : id = ptr(cls(w))
    OBVIOUS
  <1>3. id \in Seq(TypeWord) /\ id # <<>> /\ Head(id) = "shared_ptr" /\ Tail(id) = cls(w) /\ Len(id) > 1
    <2>1. "shared_ptr" \in TypeWord /\ id = <<"shared_ptr">> \o cls(w)
      BY <1>2, Zenon DEF TypeWord, ptr
    <2> QED
      BY <1>1, <2>1, WordBefore
  <1>4. /\ Head(t) \in {"list", "map"} /\ Tail(t) = id /\ Len(t) > 1
        /\ Element(t) = [id |-> cls(w), ptr |-> TRUE]
    BY <1>2, <1>3, ElementIs
  <1>5. id \in Inside(declared)
    BY <1>4, InsideOf
  <1>6. cls(w) \in Inside(declared)
    BY <1>3, <1>5, InsideOf
  <1>7. ok[n][t] = OkIn(c, t, ok[n - 1], n)
    BY OkAt
  <1>8. Element(t).id = cls(w) /\ Element(t).ptr /\ n > 0
    BY <1>4
  <1>9. OkIn(c, t, ok[n - 1], n) <=> ok[n - 1][cls(w)] /\ w \in DOMAIN entt /\ entt[w].create_ptr
    BY <1>1, <1>4, <1>8, Zenon DEF OkIn
  <1> QED
    BY <1>6, <1>7, <1>9, Zenon DEF OfObjects

Containers == {"list", "map", "shared_ptr"}
WordOk(c, w) == CppWord(w) \in Prim \cup Known(c)

\* The type ids of a word w in use, and what each needs.
Simple(t, w) == t \in {cls(w), list(cls(w)), map(cls(w))}
Nested(t, w) == t \in {table(cls(w)), map(list(cls(w))), list(table(cls(w)))}

LEMMA ListHead ==
  ASSUME NEW id \in Seq(TypeWord), id # <<>>
  PROVE  Head(list(id)) = "list"
  <1>1. "list" \in TypeWord /\ list(id) = <<"list">> \o id
    BY Zenon DEF TypeWord, list
  <1> QED
    BY <1>1, WordBefore

LEMMA SimpleOk ==
  ASSUME NEW c, NEW w \in TypeWord \ Containers, NEW t, Simple(t, w)
  PROVE  Constructible(c, t) <=> WordOk(c, w)
  <1>1. cls(w) \in Seq(TypeWord) /\ cls(w) # <<>> /\ Head(cls(w)) = w /\ w \notin {"list", "map"}
        /\ w # "shared_ptr"
    BY WordIs DEF Containers
  <1>2. t \in Seq(TypeWord) /\ t # <<>>
    BY <1>1, ElementIs DEF Simple
  <1>3. t \in Inside(t)
    BY <1>2, InsideOf
  <1>4. PICK ok : Constructible(c, t) = ok[3][t] /\ Layers(c, t, ok)
    BY ConstructibleIs DEF Layers
  <1>5. 3 \in 0..3 /\ 3 \in 1..3 /\ 3 - 1 = 2 /\ 2 \in 0..3
    OBVIOUS
  <1>6. CASE t = cls(w)
    <2>1. ok[3][t] <=> WordOk(c, w)
      BY <1>1, <1>3, <1>4, <1>5, <1>6, OfWord DEF WordOk
    <2> QED
      BY <1>4, <2>1, Zenon
  <1>7. CASE t \in {list(cls(w)), map(cls(w))}
    <2>1. cls(w) \in Inside(t) /\ (ok[3][t] <=> ok[2][cls(w)])
      <3>1. cls(w) \in Inside(t) /\ OfValues(ok, 3, t, cls(w))
        BY <1>1, <1>2, <1>3, <1>4, <1>5, <1>7, OfContainer
      <3>2. Head(cls(w)) # "list" /\ 3 - 1 = 2
        BY <1>1, <1>5
      <3> QED
        BY <3>1, <3>2, Zenon DEF OfValues
    <2>2. ok[2][cls(w)] <=> WordOk(c, w)
      BY <1>1, <1>4, <1>5, <2>1, OfWord DEF WordOk
    <2> QED
      BY <1>4, <2>1, <2>2, Zenon
  <1> QED
    BY <1>6, <1>7 DEF Simple

LEMMA NestedOk ==
  ASSUME NEW c, NEW w \in TypeWord \ Containers, NEW t, Nested(t, w)
  PROVE  /\ Constructible(c, t) => WordOk(c, w)
         /\ WordOk(c, w) /\ list(cls(w)) \in var_ctors /\ table(cls(w)) \in var_ctors => Constructible(c, t)
  <1>1. cls(w) \in Seq(TypeWord) /\ cls(w) # <<>> /\ Head(cls(w)) = w /\ w \notin {"list", "map"}
        /\ w # "shared_ptr"
    BY WordIs DEF Containers
  <1>2. PICK one, two : one = list(cls(w)) /\ two = table(cls(w))
    OBVIOUS
  <1>3. two = list(one)
    BY <1>2, Zenon DEF table
  <1>4. one \in Seq(TypeWord) /\ one # <<>> /\ Head(one) = "list"
    BY <1>1, <1>2, ElementIs, ListHead
  <1>5. two \in Seq(TypeWord) /\ two # <<>> /\ Head(two) = "list"
    BY <1>3, <1>4, ElementIs, ListHead
  <1>6. /\ t \in {list(one), map(one), list(two)}
        /\ two = list(one)
    BY <1>2, <1>3, Zenon DEF Nested
  <1>7. t \in Seq(TypeWord) /\ t # <<>>
    BY <1>4, <1>5, <1>6, ElementIs
  <1>8. t \in Inside(t)
    BY <1>7, InsideOf
  <1>9. PICK ok : Constructible(c, t) = ok[3][t] /\ Layers(c, t, ok)
    BY ConstructibleIs DEF Layers
  <1>10. /\ 3 \in 0..3 /\ 3 \in 1..3 /\ 3 - 1 = 2 /\ 2 \in 1..3 /\ 2 - 1 = 1 /\ 1 \in 1..3 /\ 1 - 1 = 0
         /\ 0 \in 0..3 /\ 1 \in 0..3
    OBVIOUS
  <1>11. ASSUME NEW n \in 1..3, NEW x \in {list(one), map(one)}, x \in Inside(t)
         PROVE  one \in Inside(t) /\ (ok[n][x] <=> ok[n - 1][one] /\ one \in var_ctors)
    <2>1. Head(one) # "shared_ptr" /\ Layers(c, t, ok) /\ x \in Inside(t)
      BY <1>4, <1>9, <1>11
    <2>2. one \in Inside(t) /\ OfValues(ok, n, x, one)
      BY <1>4, <1>7, <1>11, <2>1, OfContainer
    <2> QED
      BY <1>4, <2>2, Zenon DEF OfValues
  <1>12. ASSUME NEW n \in 1..3, n - 1 \in 0..3, one \in Inside(t)
         PROVE  ok[n][one] <=> WordOk(c, w)
    <2>1. cls(w) \in Inside(t) /\ OfValues(ok, n, one, cls(w))
      BY <1>1, <1>2, <1>7, <1>9, <1>12, OfContainer
    <2>2. Head(cls(w)) # "list"
      BY <1>1
    <2>3. ok[n - 1][cls(w)] <=> WordOk(c, w)
      BY <1>1, <1>9, <1>12, <2>1, OfWord DEF WordOk
    <2> QED
      BY <2>1, <2>2, <2>3, Zenon DEF OfValues
  <1>13. CASE t \in {list(one), map(one)}
    <2>1. one \in Inside(t) /\ (ok[3][t] <=> ok[3 - 1][one] /\ one \in var_ctors)
      BY <1>8, <1>10, <1>11, <1>13
    <2>2. ok[2][one] <=> WordOk(c, w)
      BY <1>10, <1>12, <2>1
    <2> QED
      BY <1>2, <1>9, <1>10, <2>1, <2>2, Zenon
  <1>14. CASE t = list(two)
    <2>1. two \in Inside(t) /\ (ok[3][t] <=> ok[3 - 1][two] /\ two \in var_ctors)
      <3>1. two \in Inside(t) /\ OfValues(ok, 3, t, two)
        BY <1>5, <1>7, <1>8, <1>9, <1>10, <1>14, OfContainer
      <3> QED
        BY <1>5, <3>1, Zenon DEF OfValues
    <2>2. one \in Inside(t) /\ (ok[2][two] <=> ok[2 - 1][one] /\ one \in var_ctors)
      BY <1>3, <1>10, <1>11, <2>1
    <2>3. ok[1][one] <=> WordOk(c, w)
      BY <1>10, <1>12, <2>2
    <2> QED
      BY <1>2, <1>9, <1>10, <2>1, <2>2, <2>3, Zenon
  <1> QED
    BY <1>6, <1>13, <1>14

LEMMA PointedOk ==
  ASSUME NEW c, NEW w \in TypeWord \ Containers
  PROVE  Constructible(c, list(ptr(cls(w)))) <=> WordOk(c, w) /\ w \in DOMAIN entt /\ entt[w].create_ptr
  <1>1. cls(w) \in Seq(TypeWord) /\ cls(w) # <<>> /\ w \notin {"list", "map"} /\ w # "list"
    BY WordIs DEF Containers
  <1>2. PICK id, t : id = ptr(cls(w)) /\ t = list(id)
    OBVIOUS
  <1>3. id \in Seq(TypeWord) /\ id # <<>>
    <2>1. "shared_ptr" \in TypeWord /\ id = <<"shared_ptr">> \o cls(w)
      BY <1>2, Zenon DEF TypeWord, ptr
    <2> QED
      BY <1>1, <2>1, WordBefore
  <1>4. t \in Seq(TypeWord) /\ t # <<>>
    BY <1>2, <1>3, ElementIs
  <1>5. t \in Inside(t)
    BY <1>4, InsideOf
  <1>6. PICK ok : Constructible(c, t) = ok[3][t] /\ Layers(c, t, ok)
    BY ConstructibleIs DEF Layers
  <1>7. 3 \in 1..3 /\ 3 - 1 = 2 /\ 2 \in 0..3
    OBVIOUS
  <1>8. cls(w) \in Inside(t) /\ OfObjects(ok, 3, t, w)
    BY <1>1, <1>2, <1>4, <1>5, <1>6, <1>7, OfPointers
  <1>9. ok[2][cls(w)] <=> WordOk(c, w)
    BY <1>1, <1>6, <1>7, <1>8, OfWord DEF WordOk
  <1> QED
    BY <1>2, <1>6, <1>7, <1>8, <1>9, Zenon DEF OfObjects

-----------------------------------------------------------------------------
(* The type ids that are declared.                                        *)

\* All but a few are made of usual words: the fields of each class.
UsualType(t) == \/ \E w \in UsualWords : Simple(t, w)
                \/ \E w \in {"string", "VarType"} : Nested(t, w)
UsualFields(fields) == \A k \in DOMAIN fields : UsualType(fields[k])
Usual(class) == UsualFields(class.fields)

LEMMA UsualTypes ==
  /\ UsualType(str) /\ UsualType(int)
  /\ \A w \in UsualWords : UsualType(cls(w)) /\ UsualType(list(cls(w))) /\ UsualType(map(cls(w)))
  /\ UsualType(list(str)) /\ UsualType(map(str)) /\ UsualType(table(str)) /\ UsualType(list(table(str)))
  /\ \A w \in {"VarType"} : UsualType(map(list(cls(w)))) /\ UsualType(table(cls(w))) /\ UsualType(list(table(cls(w))))
  <1>1. str = cls("string") /\ int = cls("int") /\ {"string", "int", "VarType"} \subseteq UsualWords
    BY DEF str, int, cls, UsualWords
  <1>2. \A w \in UsualWords : UsualType(cls(w)) /\ UsualType(list(cls(w))) /\ UsualType(map(cls(w)))
    BY Zenon DEF UsualType, Simple
  <1>3. ASSUME NEW w \in {"string", "VarType"}
        PROVE  UsualType(map(list(cls(w)))) /\ UsualType(table(cls(w))) /\ UsualType(list(table(cls(w))))
    BY <1>3, Zenon DEF UsualType, Nested
  <1> QED
    BY <1>1, <1>2, <1>3

LEMMA UsualOf ==
  ASSUME NEW class, NEW fields, Declares(class, fields), UsualFields(fields)
  PROVE  Usual(class)
  BY DEF Declares, Usual

LEMMA UsualNone == UsualFields(<<>>)
  <1>1. <<>> \in Seq({}) /\ Len(<<>>) = 0
    BY EmptySeq
  <1>2. DOMAIN <<>> = {}
    BY <1>1, LenProperties
  <1> QED
    BY <1>2 DEF UsualFields

LEMMA UsualStrings == ASSUME NEW names PROVE UsualFields(Strings(names))
  BY UsualTypes DEF UsualFields, Strings

LEMMA UsualAsts ==
  /\ Usual(IJsonable) /\ Usual(AnsonField) /\ Usual(Anson) /\ Usual(Semantics) /\ Usual(SemanExpr)
  /\ Usual(AnCtor) /\ Usual(AnsonAst) /\ Usual(AnsonBodyAst) /\ Usual(AnsonJavaEnumAst) /\ Usual(AnsonMsgAst)
  <1>1. Declares(IJsonable, <<>>) /\ Declares(Anson, <<>>) /\ Declares(Semantics, <<>>)
    BY FieldsMade, FieldsAmended, Zenon DEF IJsonable, Anson, Semantics
  <1>2. /\ Declares(AnsonField, Strings({"fieldname", "valType", "dataAnclass"}))
        /\ Declares(AnsonMsgAst, Strings({"bodyAnclass", "bodyAst", "portAnclass", "portAst"}))
    BY FieldsMade, Zenon DEF AnsonField, AnsonMsgAst
  <1>3. Usual(SemanExpr)
    <2>1. PICK es, s, ss : es = list(cls("SemanExpr")) /\ s = str /\ ss = list(str)
      OBVIOUS
    <2>2. PICK fields : /\ fields = [stype |-> s, expect_result |-> s, args |-> es, semantics |-> ss]
                        /\ Declares(SemanExpr, fields)
      <3>1. ASSUME NEW class, NEW x, Declares(class, x), NEW y, NEW z, NEW v, NEW k, NEW l
            PROVE  Declares([class EXCEPT !.entt_base = y, !.data[k] = z, !.data[l] = v], x)
        BY <3>1 DEF Declares
      <3> QED
        BY <2>1, <3>1, FieldsMade, Zenon DEF SemanExpr
    <2>3. UsualType(es) /\ UsualType(s) /\ UsualType(ss)
      BY <2>1, UsualTypes DEF UsualWords
    <2>4. UsualFields(fields)
      BY <2>2, <2>3 DEF UsualFields
    <2> QED
      BY <2>2, <2>4, UsualOf
  <1>4. Usual(AnCtor)
    <2>1. PICK e, es, s : e = cls("SemanExpr") /\ es = list(cls("SemanExpr")) /\ s = str
      OBVIOUS
    <2>2. PICK fields : /\ fields = [base |-> e, args |-> es, body |-> es, expect_result |-> s]
                        /\ Declares(AnCtor, fields)
      <3>1. ASSUME NEW class, NEW x, Declares(class, x), NEW y
            PROVE  Declares([class EXCEPT !.entt_base = y], x)
        BY <3>1 DEF Declares
      <3> QED
        BY <2>1, <3>1, FieldsMade, Zenon DEF AnCtor
    <2>3. UsualType(e) /\ UsualType(es) /\ UsualType(s)
      BY <2>1, UsualTypes DEF UsualWords
    <2>4. UsualFields(fields)
      BY <2>2, <2>3 DEF UsualFields
    <2> QED
      BY <2>2, <2>4, UsualOf
  <1>5. Usual(AnsonAst)
    <2>1. PICK ctors, semantics : ctors = list(list(list(str))) /\ semantics = list(cls("AnCtor"))
      OBVIOUS
    <2>2. Declares(AnsonAst, [ctors |-> ctors, ctorsemantics |-> semantics])
      BY <2>1, FieldsMade, FieldsAmended, Zenon DEF AnsonAst, AnsonAstOf
    <2>3. UsualType(ctors) /\ UsualType(semantics)
      <3>1. ctors = list(table(str)) /\ "AnCtor" \in UsualWords
        BY <2>1, Zenon DEF table, UsualWords
      <3> QED
        BY <2>1, <3>1, UsualTypes
    <2>4. UsualFields([ctors |-> ctors, ctorsemantics |-> semantics])
      BY <2>3 DEF UsualFields
    <2> QED
      BY <2>2, <2>4, UsualOf
  <1>6. Usual(AnsonBodyAst)
    <2>1. PICK A : A = map(str) /\ UsualType(A)
      BY UsualTypes
    <2>2. Declares(AnsonBodyAst, [A |-> A])
      BY <2>1, FieldsMade, FieldsAmended, Zenon DEF AnsonBodyAst
    <2>3. UsualFields([A |-> A])
      BY <2>1 DEF UsualFields
    <2> QED
      BY <2>2, <2>3, UsualOf
  <1>7. Usual(AnsonJavaEnumAst)
    <2>1. PICK A : A = map(str) /\ UsualType(A)
      BY UsualTypes
    <2>2. Declares(AnsonJavaEnumAst, [encode |-> A, decode |-> A])
      BY <2>1, FieldsMade, Zenon DEF AnsonJavaEnumAst
    <2>3. UsualFields([encode |-> A, decode |-> A])
      BY <2>1 DEF UsualFields
    <2> QED
      BY <2>2, <2>3, UsualOf
  <1> QED
    BY <1>1, <1>2, <1>3, <1>4, <1>5, <1>6, <1>7, UsualOf, UsualNone, UsualStrings

\* The type ids in use, by shorter names.
SomeTypes(s, i, ss, sss, ms, vv, vvv) ==
  /\ s = str /\ i = int /\ ss = list(str) /\ sss = table(str) /\ ms = map(str)
  /\ vv = list(cls("VarType")) /\ vvv = table(cls("VarType"))
  /\ UsualType(s) /\ UsualType(i) /\ UsualType(ss) /\ UsualType(sss) /\ UsualType(ms) /\ UsualType(vvv)

LEMMA SomeTypesAre == \E s, i, ss, sss, ms, vv, vvv : SomeTypes(s, i, ss, sss, ms, vv, vvv)
  <1>1. UsualType(table(cls("VarType")))
    BY UsualTypes
  <1> QED
    BY <1>1, UsualTypes DEF SomeTypes

LEMMA UsualMessages ==
  /\ Usual(SemanticObject) /\ Usual(AnResultset) /\ Usual(SessionInf) /\ Usual(AnsonHeader) /\ Usual(AnsonBody)
  <1>1. PICK s, i, ss, sss, ms, vv, vvv : SomeTypes(s, i, ss, sss, ms, vv, vvv)
    BY SomeTypesAre
  <1>2. Usual(SemanticObject)
    <2>1. UsualFields([data |-> ms])
      BY <1>1 DEF UsualFields, SomeTypes
    <2>2. SemanticObject.fields = [data |-> ms]
      <3>1. \A class, x, k, y : Declares(class, x) => Declares([class EXCEPT !.data[k] = y], x)
        BY DEF Declares
      <3>2. Declares(SemanticObject, [data |-> ms])
        BY <1>1, <3>1, FieldsMade, Zenon DEF SemanticObject, SomeTypes
      <3> QED
        BY <3>2 DEF Declares
    <2> QED
      BY <2>1, <2>2 DEF Usual
  <1>3. Usual(AnResultset)
    <2>1. PICK m : m = map(vv) /\ UsualType(m)
      <3>1. UsualType(map(list(cls("VarType"))))
        BY UsualTypes
      <3> QED
        BY <1>1, <3>1 DEF SomeTypes
    <2>2. vvv = list(vv)
      BY <1>1, Zenon DEF SomeTypes, table
    <2>3. Declares(AnResultset, [columns |-> m, rows |-> vvv])
      BY <1>1, <2>1, <2>2, FieldsMade, Zenon DEF AnResultset, SomeTypes
    <2>4. UsualFields([columns |-> m, rows |-> vvv])
      BY <1>1, <2>1 DEF UsualFields, SomeTypes
    <2> QED
      BY <2>3, <2>4, UsualOf
  <1>4. Usual(SessionInf)
    <2>1. PICK fields : /\ fields = [seq |-> i, ssid |-> s, uid |-> s, roleId |-> s, userName |-> s,
                                     roleName |-> s, ssToken |-> s, device |-> s]
                        /\ Declares(SessionInf, fields)
      BY <1>1, FieldsMade, Zenon DEF SessionInf, SomeTypes
    <2>2. \A k \in DOMAIN fields : fields[k] \in {i, s}
      BY <2>1
    <2> QED
      BY <1>1, <2>1, <2>2, UsualOf DEF UsualFields, SomeTypes
  <1>5. Usual(AnsonHeader)
    <2>1. PICK fields : /\ fields = [usrAct |-> ss, uid |-> s, ssid |-> s, iv64 |-> s, ssToken |-> s]
                        /\ Declares(AnsonHeader, fields)
      BY <1>1, FieldsMade, Zenon DEF AnsonHeader, SomeTypes
    <2>2. \A k \in DOMAIN fields : fields[k] \in {ss, s}
      BY <2>1
    <2> QED
      BY <1>1, <2>1, <2>2, UsualOf DEF UsualFields, SomeTypes
  <1>6. Usual(AnsonBody)
    BY FieldsMade, UsualStrings, UsualOf, Zenon DEF AnsonBody
  <1> QED
    BY <1>2, <1>3, <1>4, <1>5, <1>6

LEMMA UsualBodies ==
  /\ Usual(AnsonResp) /\ Usual(UserReq) /\ Usual(EchoReq) /\ Usual(HeartBeat) /\ Usual(AnSessionReq)
  /\ Usual(AnSessionResp) /\ Usual(AnInsertReq)
  <1>1. PICK s, i, ss, sss, ms, vv, vvv : SomeTypes(s, i, ss, sss, ms, vv, vvv)
    BY SomeTypesAre
  <1>2. Usual(AnsonResp)
    <2>1. PICK rs : rs = list(cls("AnResultset")) /\ UsualType(rs)
      BY UsualTypes DEF UsualWords
    <2>2. Declares(AnsonResp, [m |-> s, rs |-> rs, map |-> ms])
      BY <1>1, <2>1, WrittenMade, WrittenAmended, Zenon DEF AnsonResp, SomeTypes
    <2>3. UsualFields([m |-> s, rs |-> rs, map |-> ms])
      BY <1>1, <2>1 DEF UsualFields, SomeTypes
    <2> QED
      BY <2>2, <2>3, UsualOf
  <1>3. Usual(UserReq)
    <2>1. PICK data : data = map(cls("VarType")) /\ UsualType(data)
      BY UsualTypes DEF UsualWords
    <2>2. Declares(UserReq, [data |-> data])
      BY <2>1, WrittenMade, Zenon DEF UserReq
    <2>3. UsualFields([data |-> data])
      BY <2>1 DEF UsualFields
    <2> QED
      BY <2>2, <2>3, UsualOf
  <1>4. Usual(EchoReq) /\ Usual(HeartBeat)
    <2>1. PICK t : t = cls("java.lang.String") /\ UsualType(t)
      BY UsualTypes DEF UsualWords
    <2>2. Declares(EchoReq, [echo |-> t]) /\ Declares(HeartBeat, [ssid |-> t, uid |-> t])
      BY <2>1, WrittenMade, Zenon DEF EchoReq, HeartBeat
    <2>3. UsualFields([echo |-> t]) /\ UsualFields([ssid |-> t, uid |-> t])
      BY <2>1 DEF UsualFields
    <2> QED
      BY <2>2, <2>3, UsualOf
  <1>5. Usual(AnSessionReq)
    BY WrittenMade, UsualStrings, UsualOf, Zenon DEF AnSessionReq
  <1>6. Usual(AnSessionResp)
    <2>1. PICK inf, profile : /\ inf = cls("SessionInf") /\ profile = cls("Anson")
                              /\ UsualType(inf) /\ UsualType(profile)
      BY UsualTypes DEF UsualWords
    <2>2. Declares(AnSessionResp, [ssInf |-> inf, profile |-> profile])
      BY <2>1, WrittenMade, Zenon DEF AnSessionResp
    <2>3. UsualFields([ssInf |-> inf, profile |-> profile])
      BY <2>1 DEF UsualFields
    <2> QED
      BY <2>2, <2>3, UsualOf
  <1>7. Usual(AnInsertReq)
    BY WrittenRequests, UsualNone, UsualOf
  <1> QED
    BY <1>2, <1>3, <1>4, <1>5, <1>6, <1>7

LEMMA UsualOthers == Usual(MsgCode) /\ Usual(Port) /\ Usual(PeerSettings) /\ Usual(LangString)
  <1>1. PICK s, i, ss, sss, ms, vv, vvv : SomeTypes(s, i, ss, sss, ms, vv, vvv)
    BY SomeTypesAre
  <1>2. Usual(MsgCode) /\ Usual(Port)
    BY FieldsMade, UsualNone, UsualOf, Zenon DEF MsgCode, Port
  <1>3. Usual(PeerSettings)
    <2>1. PICK fields : /\ fields = [ansonMsg |-> s, ansonBody |-> s, cpp_gen |-> s,
                                     ansons |-> ss, scopeEnums |-> ss, javaEnums |-> ss, anRequests |-> ss]
                        /\ Declares(PeerSettings, fields)
      BY <1>1, WrittenMade, Zenon DEF PeerSettings, SomeTypes
    <2>2. \A k \in DOMAIN fields : fields[k] \in {ss, s}
      BY <2>1
    <2> QED
      BY <1>1, <2>1, <2>2, UsualOf DEF UsualFields, SomeTypes
  <1>4. Usual(LangString)
    <2>1. Declares(LangString, [lang |-> s, en |-> ms, local |-> ms])
      BY <1>1, WrittenMade, Zenon DEF LangString, SomeTypes
    <2>2. UsualFields([lang |-> s, en |-> ms, local |-> ms])
      BY <1>1 DEF UsualFields, SomeTypes
    <2> QED
      BY <2>1, <2>2, UsualOf
  <1> QED
    BY <1>2, <1>3, <1>4

\* The requests on tables: AnUpdateReq's misspelt where.
LEMMA UsualRequests ==
  /\ Usual(AnQueryReq)
  /\ "where" \in DOMAIN AnUpdateReq.fields /\ AnUpdateReq.fields["where"] = table(cls("VarTypae"))
  /\ \A k \in DOMAIN AnUpdateReq.fields \ {"where"} : UsualType(AnUpdateReq.fields[k])
  <1>1. PICK s, i, ss, sss, ms, vv, vvv : SomeTypes(s, i, ss, sss, ms, vv, vvv)
    BY SomeTypesAre
  <1>2. Usual(AnQueryReq)
    <2>1. PICK fields : /\ fields = [mtabl |-> s, mAlias |-> s, page |-> i, pgsize |-> i, groups |-> ss,
                                     limt |-> ss, joins |-> sss, exprs |-> sss, where |-> sss,
                                     orders |-> sss, havings |-> sss]
                        /\ Declares(AnQueryReq, fields)
      BY <1>1, WrittenMade, Zenon DEF AnQueryReq, SomeTypes
    <2>2. \A k \in DOMAIN fields : fields[k] \in {s, i, ss, sss}
      BY <2>1
    <2> QED
      BY <1>1, <2>1, <2>2, UsualOf DEF UsualFields, SomeTypes
  <1>3. PICK nvss, postUpds, bad : /\ nvss = list(vvv) /\ postUpds = list(cls("AnUpdateReq"))
                                   /\ bad = table(cls("VarTypae"))
    OBVIOUS
  <1>4. UsualType(nvss) /\ UsualType(postUpds)
    <2>1. UsualType(list(table(cls("VarType")))) /\ "AnUpdateReq" \in UsualWords
      BY UsualTypes DEF UsualWords
    <2> QED
      BY <1>1, <1>3, <2>1, UsualTypes DEF SomeTypes
  <1>5. PICK fields : /\ fields = [mtabl |-> s, limt |-> s, nvs |-> vvv, nvss |-> nvss, cols |-> sss,
                                   where |-> bad, postUpds |-> postUpds, attacheds |-> vvv]
                      /\ Declares(AnUpdateReq, fields)
    BY <1>1, <1>3, WrittenMade, WrittenAmended, Zenon DEF AnUpdateReq, SomeTypes
  <1>6. /\ "where" \in DOMAIN fields /\ fields["where"] = bad
        /\ \A k \in DOMAIN fields \ {"where"} : fields[k] \in {s, vvv, nvss, sss, postUpds}
    BY <1>5
  <1>7. AnUpdateReq.fields = fields
    BY <1>5 DEF Declares
  <1> QED
    BY <1>1, <1>2, <1>3, <1>4, <1>6, <1>7 DEF SomeTypes

\* A message holds its body by pointer.
LEMMA UsualMessage ==
  ASSUME NEW T
  PROVE  \A k \in DOMAIN specialize_req(T).fields :
           UsualType(specialize_req(T).fields[k]) \/ specialize_req(T).fields[k] = list(ptr(cls(T)))
  <1>1. PICK port, code, s, i, header, body :
          /\ port = cls("JavaEnum") /\ code = cls("MsgCode") /\ s = str /\ i = int
          /\ header = cls("AnsonHeader") /\ body = list(ptr(cls(T)))
          /\ UsualType(port) /\ UsualType(code) /\ UsualType(s) /\ UsualType(i) /\ UsualType(header)
    BY UsualTypes DEF UsualWords
  <1>2. PICK fields : /\ fields = [port |-> port, code |-> code, version |-> s, seq |-> i, header |-> header,
                                   body |-> body]
                      /\ Declares(specialize_req(T), fields)
    BY <1>1, WrittenMade, Zenon DEF specialize_req
  <1>3. \A k \in DOMAIN fields : fields[k] \in {port, code, s, i, header, body}
    BY <1>2
  <1>4. specialize_req(T).fields = fields
    BY <1>2 DEF Declares
  <1> QED
    BY <1>1, <1>3, <1>4

-----------------------------------------------------------------------------
(* What a class declares, and where an inherited field comes from.         *)

\* A message's body, and the type of what holds it.
Pointed(id, t) == \E T \in BodyIds : id = MsgOf(T) /\ t = list(ptr(cls(T)))

LEMMA OwnTypes ==
  ASSUME NEW id \in RegisteredIds, NEW k \in DOMAIN ClassOf(id).fields
  PROVE  \/ UsualType(ClassOf(id).fields[k])
         \/ id = "AnUpdateReq" /\ k = "where"
         \/ Pointed(id, ClassOf(id).fields[k])
  <1>1. CASE \E T \in BodyIds : id = MsgOf(T)
    <2>1. PICK T \in BodyIds : id = MsgOf(T)
      BY <1>1
    <2>2. ClassOf(id) = specialize_req(T)
      BY <2>1, ClassOfMessage
    <2> QED
      BY <2>1, <2>2, UsualMessage DEF Pointed
  <1>2. CASE id \in ClassIds \ {"JavaEnum"}
    <2>1. \/ id \in AstIds \/ id \in MessageIds
          \/ id \in {"AnsonResp", "UserReq", "EchoReq", "HeartBeat", "AnSessionReq", "AnSessionResp", "AnInsertReq"}
          \/ id \in {"MsgCode", "Port", "PeerSettings", "LangString"}
          \/ id \in {"AnQueryReq", "AnUpdateReq"}
      BY <1>2 DEF ClassIds, BodyIds, AstIds, MessageIds
    <2>2. CASE id \in AstIds
      BY <2>2, ClassOfPlain, UsualAsts DEF AstIds, Usual, UsualFields
    <2>3. CASE id \in MessageIds
      BY <2>3, ClassOfPlain, UsualMessages DEF MessageIds, Usual, UsualFields
    <2>4. CASE id \in {"AnsonResp", "UserReq", "EchoReq", "HeartBeat", "AnSessionReq", "AnSessionResp", "AnInsertReq"}
      BY <2>4, ClassOfPlain, UsualBodies DEF Usual, UsualFields
    <2>5. CASE id \in {"MsgCode", "Port", "PeerSettings", "LangString"}
      BY <2>5, ClassOfPlain, UsualOthers DEF Usual, UsualFields
    <2>6. CASE id \in {"AnQueryReq", "AnUpdateReq"}
      BY <2>6, ClassOfPlain, UsualRequests DEF Usual, UsualFields
    <2> QED
      BY <2>1, <2>2, <2>3, <2>4, <2>5, <2>6
  <1> QED
    BY <1>1, <1>2 DEF RegisteredIds

\* The class a field comes from: AnInsertReq alone inherits AnUpdateReq's.
Origin(astmap, id, o) == o \in DOMAIN astmap /\ (o = "AnUpdateReq" => id \in {"AnUpdateReq", "AnInsertReq"})
From(astmap, id, k, t) ==
  t = NoType \/ \E o \in DOMAIN astmap : /\ Origin(astmap, id, o) /\ k \in DOMAIN ClassOf(o).fields
                                         /\ t = ClassOf(o).fields[k]
FromBelow(astmap, n) ==
  \A id \in Below(astmap, n) : \A k \in DOMAIN FieldsOf(astmap)[id] : From(astmap, id, k, FieldsOf(astmap)[id][k])

LEMMA UpdateHeir ==
  ASSUME NEW astmap, NEW n, Settled(astmap, n), NEW id \in DOMAIN astmap,
         astmap[id].base \in {"AnUpdateReq", "AnInsertReq"}
  PROVE  id = "AnInsertReq"
  <1>1. Rank(astmap[id].base) < Rank(id) /\ Rank(id) \in 0..5
    BY RankBounds DEF Settled, Ranked
  <1>2. Rank("AnUpdateReq") = 4 /\ Rank("AnInsertReq") = 5
    BY RankOf
  <1>3. Rank(id) = 5
    BY <1>1, <1>2
  <1>4. id \in {"AnCtor", "AnInsertReq", "AnSessionResp"}
    <2>1. 0 # 5 /\ 1 # 5 /\ 2 # 5 /\ 3 # 5 /\ 4 # 5
      OBVIOUS
    <2> QED
      BY <1>3, <2>1, Zenon DEF Rank
  <1>5. ClassOf("AnCtor").base = "SemanExpr" /\ ClassOf("AnSessionResp").base = "AnsonResp"
    BY AstClassNames, BodyClassNames, ClassOfPlain DEF Names
  <1> QED
    BY <1>4, <1>5, MadeOf

LEMMA OwnFields ==
  ASSUME NEW astmap, NEW n, Settled(astmap, n), NEW id \in DOMAIN astmap, NEW k \in DOMAIN astmap[id].fields
  PROVE  From(astmap, id, k, astmap[id].fields[k])
  <1>1. Origin(astmap, id, id)
    BY DEF Origin
  <1>2. CASE astmap[id].fields = ClassOf(id).fields
    BY <1>1, <1>2 DEF From
  <1>3. CASE id = "AnsonBodyAst" /\ astmap[id].fields = IndexFields(ClassOf(id).fields)
    <2>1. PICK own, f : own = ClassOf(id).fields /\ f = [fields |-> NoType]
      OBVIOUS
    <2>2. DOMAIN f = {"fields"} /\ f["fields"] = NoType
      BY <2>1
    <2>3. astmap[id].fields = Replacing(f, own)
      BY <1>3, <2>1 DEF IndexFields
    <2>4. IF k \in DOMAIN own THEN astmap[id].fields[k] = own[k] ELSE astmap[id].fields[k] = NoType
      BY <2>2, <2>3 DEF Replacing
    <2> QED
      BY <1>1, <2>1, <2>4 DEF From
  <1> QED
    BY <1>2, <1>3 DEF Settled, Made

LEMMA FromOneMore ==
  ASSUME NEW astmap, NEW n, Settled(astmap, n), NEW m \in Nat, FromBelow(astmap, m)
  PROVE  FromBelow(astmap, m + 1)
  <1> SUFFICES ASSUME NEW id \in Below(astmap, m + 1), NEW k \in DOMAIN FieldsOf(astmap)[id]
               PROVE  From(astmap, id, k, FieldsOf(astmap)[id][k])
    BY DEF FromBelow
  <1>1. id \in DOMAIN astmap /\ Ranked(astmap)
    BY DEF Below, Settled
  <1>2. CASE k \in DOMAIN astmap[id].fields
    BY <1>1, <1>2, FieldsInherited, OwnFields
  <1>3. CASE k \notin DOMAIN astmap[id].fields
    <2>1. PICK b : b = astmap[id].base
      OBVIOUS
    <2>2. /\ b \in DOMAIN astmap /\ k \in DOMAIN FieldsOf(astmap)[b]
          /\ FieldsOf(astmap)[id][k] = FieldsOf(astmap)[b][k]
      BY <1>1, <1>3, <2>1, FieldsInherited
    <2>3. b \in Below(astmap, m)
      BY <1>1, <2>1, <2>2, RankBounds DEF Below, Ranked
    <2>4. From(astmap, b, k, FieldsOf(astmap)[b][k])
      BY <2>2, <2>3 DEF FromBelow
    <2>5. b \in {"AnUpdateReq", "AnInsertReq"} => id = "AnInsertReq"
      BY <1>1, <2>1, UpdateHeir
    <2>6. \A o : Origin(astmap, b, o) => Origin(astmap, id, o)
      BY <2>5 DEF Origin
    <2> QED
      BY <2>2, <2>4, <2>6 DEF From
  <1> QED
    BY <1>2, <1>3

LEMMA FieldsFrom ==
  ASSUME NEW astmap, NEW n, Settled(astmap, n), NEW id \in DOMAIN astmap, NEW k \in DOMAIN FieldsOf(astmap)[id]
  PROVE  From(astmap, id, k, FieldsOf(astmap)[id][k])
  <1>0. FromBelow(astmap, 0)
    BY RankBounds DEF FromBelow, Below
  <1>1. FromBelow(astmap, 0 + 1)
    BY <1>0, FromOneMore
  <1>2. FromBelow(astmap, 1 + 1)
    BY <1>1, FromOneMore
  <1>3. FromBelow(astmap, 2 + 1)
    BY <1>2, FromOneMore
  <1>4. FromBelow(astmap, 3 + 1)
    BY <1>3, FromOneMore
  <1>5. FromBelow(astmap, 4 + 1)
    BY <1>4, FromOneMore
  <1>6. FromBelow(astmap, 5 + 1)
    BY <1>5, FromOneMore
  <1> QED
    BY <1>6, RankBounds DEF FromBelow, Below

-----------------------------------------------------------------------------
(* What a context has that is set up.                                      *)

\* A function registers all the classes of its turn.
Whole(classes, k) == \A id \in RegisteredIds : Stage(id) = k => id \in Ids(classes)

LEMMA WholeOf ==
  ASSUME NEW classes, NEW k, NEW plain, \A id \in ClassIds \ {"JavaEnum"} : ClassStage(id) = k => id \in plain,
         plain \subseteq Ids(classes), \A T \in BodyIds \cap plain : MsgOf(T) \in Ids(classes)
  PROVE  Whole(classes, k)
  <1> SUFFICES ASSUME NEW id \in RegisteredIds, Stage(id) = k PROVE id \in Ids(classes)
    BY DEF Whole
  <1>1. BodyIds \subseteq ClassIds \ {"JavaEnum"}
    BY DEF BodyIds, ClassIds
  <1>2. CASE \E T \in BodyIds : id = MsgOf(T)
    <2>1. PICK T \in BodyIds : id = MsgOf(T)
      BY <1>2
    <2>2. ClassStage(T) = k
      BY <2>1, StageOfMessage
    <2> QED
      BY <1>1, <2>1, <2>2
  <1>3. CASE id \in ClassIds \ {"JavaEnum"}
    BY <1>3, StageOfClass
  <1> QED
    BY <1>2, <1>3 DEF RegisteredIds

\* The classes of each turn.
LEMMA OfTurns ==
  ASSUME NEW id \in ClassIds \ {"JavaEnum"}
  PROVE  /\ ClassStage(id) = 2 => id \in AstIds
         /\ ClassStage(id) = 3 => id \in MessageIds
         /\ ClassStage(id) = 4 => id \in {"MsgCode"}
         /\ ClassStage(id) = 5 => id \in {"Port"}
         /\ ClassStage(id) = 6 => id \in {"AnsonResp"}
         /\ ClassStage(id) = 7 => id \in {"AnQueryReq", "AnUpdateReq", "AnInsertReq"}
         /\ ClassStage(id) = 8 => id \in {"UserReq"}
         /\ ClassStage(id) = 9 => id \in {"EchoReq"}
         /\ ClassStage(id) = 10 => id \in {"PeerSettings"}
         /\ ClassStage(id) = 11 => id \in {"HeartBeat"}
         /\ ClassStage(id) = 12 => id \in {"AnSessionReq"}
         /\ ClassStage(id) = 13 => id \in {"AnSessionResp"}
         /\ ClassStage(id) = 0 => id \in {"LangString"}
  <1>1. \/ id \in AstIds /\ ClassStage(id) = 2
        \/ id \in MessageIds /\ ClassStage(id) = 3
        \/ id = "MsgCode" /\ ClassStage(id) = 4
        \/ id = "Port" /\ ClassStage(id) = 5
        \/ id = "AnsonResp" /\ ClassStage(id) = 6
        \/ id \in {"AnQueryReq", "AnUpdateReq", "AnInsertReq"} /\ ClassStage(id) = 7
        \/ id = "UserReq" /\ ClassStage(id) = 8
        \/ id = "EchoReq" /\ ClassStage(id) = 9
        \/ id = "PeerSettings" /\ ClassStage(id) = 10
        \/ id = "HeartBeat" /\ ClassStage(id) = 11
        \/ id = "AnSessionReq" /\ ClassStage(id) = 12
        \/ id = "AnSessionResp" /\ ClassStage(id) = 13
        \/ id = "LangString" /\ ClassStage(id) = 0
    <2>1. \/ id \in AstIds \/ id \in MessageIds
          \/ id \in {"MsgCode", "Port", "AnsonResp", "AnQueryReq", "AnUpdateReq", "AnInsertReq", "UserReq", "EchoReq",
                     "PeerSettings", "HeartBeat", "AnSessionReq", "AnSessionResp", "LangString"}
      BY DEF ClassIds, BodyIds, AstIds, MessageIds
    <2>2. AstIds \cap MessageIds = {}
      BY DEF AstIds, MessageIds
    <2> QED
      BY <2>1, <2>2 DEF ClassStage, AstIds, MessageIds
  <1> QED
    BY <1>1

LEMMA WholeBody ==
  ASSUME NEW k, NEW id \in BodyIds, NEW body, NEW base, Names(body, id, base),
         \A x \in ClassIds \ {"JavaEnum"} : ClassStage(x) = k => x \in {id}
  PROVE  Whole(body_specialize_msg(body), k)
  <1>1. WithMessages({id}) \subseteq Ids(body_specialize_msg(body))
    BY MessageBatch DEF Batch
  <1> QED
    BY <1>1, WholeOf DEF WithMessages

LEMMA WholeSingle ==
  ASSUME NEW k, NEW id, NEW class, NEW base, Names(class, id, base), id \notin BodyIds,
         \A x \in ClassIds \ {"JavaEnum"} : ClassStage(x) = k => x \in {id}
  PROVE  Whole(<<class>>, k)
  <1>1. {id} \subseteq Ids(<<class>>)
    BY SingleBatch DEF Batch
  <1> QED
    BY <1>1, WholeOf

LEMMA WholeLists ==
  /\ Whole(classes_of_register_asts, 2) /\ Whole(classes_of_register_msgs, 3)
  /\ Whole(<<MsgCode>>, 4) /\ Whole(<<Port>>, 5) /\ Whole(classes_of_specialize_respmsg, 6)
  /\ Whole(classes_of_setup_jserv_crud, 7)
  /\ Whole(classes_of_load_usereqAst_ext, 8) /\ Whole(classes_of_load_echoAst_ext, 9)
  /\ Whole(classes_of_register_peersettings, 10) /\ Whole(classes_of_register_langstringAst, 0)
  /\ Whole(classes_of_load_heartbeatAst, 11) /\ Whole(classes_of_load_ansessionreqAst, 12)
  /\ Whole(classes_of_load_ansessionrespAst, 13)
  <1>1. /\ AstIds \cap BodyIds = {} /\ MessageIds \cap BodyIds = {}
        /\ {"MsgCode", "Port", "PeerSettings", "LangString"} \cap BodyIds = {}
    BY DEF AstIds, MessageIds, BodyIds
  <1>2. {"AnsonResp", "UserReq", "EchoReq", "HeartBeat", "AnSessionReq", "AnSessionResp"} \subseteq BodyIds
    BY DEF BodyIds
  <1>3. Whole(classes_of_register_asts, 2)
    <2>1. AstIds \subseteq Ids(classes_of_register_asts)
      BY AstsBatch DEF Batch
    <2> QED
      BY <1>1, <2>1, OfTurns, WholeOf
  <1>4. Whole(classes_of_register_msgs, 3)
    <2>1. MessageIds \subseteq Ids(classes_of_register_msgs)
      BY MessagesBatch DEF Batch
    <2> QED
      BY <1>1, <2>1, OfTurns, WholeOf
  <1>5. Whole(classes_of_setup_jserv_crud, 7)
    <2>1. PICK bodies : bodies = {"AnQueryReq", "AnUpdateReq", "AnInsertReq"}
      OBVIOUS
    <2>2. WithMessages(bodies) \subseteq Ids(classes_of_setup_jserv_crud)
      BY <2>1, CrudBatch DEF Batch
    <2>3. \A id \in ClassIds \ {"JavaEnum"} : ClassStage(id) = 7 => id \in bodies
      BY <2>1, OfTurns
    <2> QED
      BY <2>2, <2>3, WholeOf DEF WithMessages
  <1>6. Whole(<<MsgCode>>, 4) /\ Whole(<<Port>>, 5)
    BY <1>1, OtherClassNames, OfTurns, WholeSingle
  <1>7. Whole(classes_of_register_peersettings, 10) /\ Whole(classes_of_register_langstringAst, 0)
    BY <1>1, OtherClassNames, OfTurns, WholeSingle
       DEF classes_of_register_peersettings, classes_of_register_langstringAst
  <1>8. Whole(classes_of_specialize_respmsg, 6)
    <2>1. classes_of_specialize_respmsg = body_specialize_msg(AnsonResp)
      BY BodyClassNames, BodyAndMessage, Zenon DEF classes_of_specialize_respmsg
    <2> QED
      BY <1>2, <2>1, BodyClassNames, OfTurns, WholeBody
  <1>9. Whole(classes_of_load_usereqAst_ext, 8) /\ Whole(classes_of_load_echoAst_ext, 9)
    BY <1>2, BodyClassNames, OfTurns, WholeBody DEF classes_of_load_usereqAst_ext, classes_of_load_echoAst_ext
  <1>10. /\ Whole(classes_of_load_heartbeatAst, 11) /\ Whole(classes_of_load_ansessionreqAst, 12)
         /\ Whole(classes_of_load_ansessionrespAst, 13)
    BY <1>2, BodyClassNames, OfTurns, WholeBody
       DEF classes_of_load_heartbeatAst, classes_of_load_ansessionreqAst, classes_of_load_ansessionrespAst
  <1> QED
    BY <1>3, <1>4, <1>5, <1>6, <1>7, <1>8, <1>9, <1>10

\* A context has the classes of the functions that register_jserv has called
\* and, of a function of register_semantier's, all or none.
Complete(c) == \A id \in RegisteredIds :
                 Stage(id) \in 1..10 /\ Stage(id) < turn[c] => id \in DOMAIN asts[c]
Together(c) == \A x, y \in RegisteredIds : Stage(x) = Stage(y) => (x \in DOMAIN asts[c] <=> y \in DOMAIN asts[c])
CtorsDue(c) == turn[c] > 1 => ctors_of_register_varctors \subseteq var_ctors
Holds == \A c \in Ctx : Complete(c) /\ Together(c) /\ CtorsDue(c)
WholeInv == SettledInv /\ Holds

\* The turn after classes of turn k; the language strings' are of none.
TurnsTo(c, k, m) == /\ turn' = [turn EXCEPT ![c] = m]
                    /\ \/ m = turn[c] /\ k = 0
                       \/ m = turn[c] + 1 /\ k = turn[c] /\ k > 1

LEMMA WholeAdded ==
  ASSUME NEW c \in Ctx, NEW classes, NEW k \in Nat, NEW m \in Nat, WholeInv, Adds(c, classes),
         AllPlaced(classes, k), Whole(classes, k), var_ctors' = var_ctors,
         TurnsTo(c, k, m)
  PROVE  Holds'
  <1>1. /\ turn \in [Ctx -> Nat] /\ DOMAIN asts = Ctx /\ Settled(asts[c], turn[c])
    BY DEF WholeInv, SettledInv, RegInv, Shaped
  <1>2. PICK read \in {asts[c], ReadText(asts[c])} :
          asts' = [asts EXCEPT ![c] = Replacing(read, AstsOf(classes))]
    BY DEF Adds
  <1>3. Reads(read, asts[c])
    BY <1>1, TextReads
  <1>4. /\ DOMAIN asts'[c] = DOMAIN asts[c] \cup Ids(classes)
        /\ \A d \in Ctx \ {c} : asts'[d] = asts[d] /\ turn'[d] = turn[d]
        /\ turn'[c] = m
    BY <1>1, <1>2, <1>3 DEF Reads, Replacing, AstsOf, TurnsTo
  <1>5. \A id \in RegisteredIds : id \in Ids(classes) <=> Stage(id) = k
    <2>1. ASSUME NEW id \in Ids(classes)
          PROVE  Stage(id) = k
      <3>1. PICK i \in DOMAIN classes : classes[i].id = id
        BY DEF Ids
      <3> QED
        BY <3>1, Zenon DEF AllPlaced, Placed
    <2> QED
      BY <2>1 DEF Whole
  <1>6. Complete(c)'
    <2> SUFFICES ASSUME NEW id \in RegisteredIds, Stage(id) \in 1..10, Stage(id) < m
                 PROVE  id \in DOMAIN asts'[c]
      BY <1>4 DEF Complete
    <2>1. turn[c] \in Nat /\ (m = turn[c] \/ (m = turn[c] + 1 /\ k = turn[c]))
      BY <1>1 DEF TurnsTo
    <2>2. Stage(id) < turn[c] \/ Stage(id) = k
      BY <2>1
    <2> QED
      BY <1>4, <1>5, <2>2 DEF WholeInv, Holds, Complete
  <1>7. Together(c)'
    BY <1>4, <1>5 DEF WholeInv, Holds, Together
  <1>8. CtorsDue(c)'
    <2>1. turn[c] \in Nat /\ (m = turn[c] \/ (m = turn[c] + 1 /\ turn[c] > 1))
      BY <1>1 DEF TurnsTo
    <2>2. m > 1 => turn[c] > 1
      BY <2>1
    <2> QED
      BY <1>4, <2>2 DEF WholeInv, Holds, CtorsDue
  <1>9. ASSUME NEW d \in Ctx \ {c}
        PROVE  (Complete(d) /\ Together(d) /\ CtorsDue(d))'
    BY <1>4 DEF WholeInv, Holds, Complete, Together, CtorsDue
  <1> QED
    BY <1>6, <1>7, <1>8, <1>9 DEF Holds

\* The first function registers no class.
LEMMA NoStageOne == ASSUME NEW id PROVE Stage(id) # 1
  <1>1. \A x : ClassStage(x) # 1
    BY DEF ClassStage
  <1> QED
    BY <1>1 DEF Stage

LEMMA WholeStep ==
  ASSUME NEW c \in Ctx, WholeInv,
         \/ register_varctors(c) \/ register_asts(c) \/ register_msgs(c) \/ register_enums(c)
         \/ register_port(c) \/ specialize_respmsg(c) \/ setup_jserv_crud(c)
         \/ load_usereqAst_ext(c) \/ load_echoAst_ext(c) \/ register_peersettings(c)
         \/ load_heartbeatAst(c) \/ load_ansessionreqAst(c) \/ load_ansessionrespAst(c)
         \/ missing_ast_file(c) \/ register_langstringAst(c)
  PROVE  Holds'
  <1>1. turn[c] \in Nat /\ turn \in [Ctx -> Nat]
    BY DEF WholeInv, SettledInv, RegInv, Shaped
  <1>2. ASSUME NEW step, NEW classes, Turn(c, step), turn[c] > 1, Adds(c, classes), var_ctors' = var_ctors,
               AllPlaced(classes, turn[c]), Whole(classes, turn[c])
        PROVE  Holds'
    <2>1. PICK k \in Nat : k = turn[c]
      BY <1>1
    <2>2. k + 1 \in Nat /\ TurnsTo(c, k, k + 1)
      BY <1>2, <2>1 DEF Turn, TurnsTo
    <2> QED
      BY <1>2, <2>1, <2>2, WholeAdded
  <1>3. ASSUME NEW step, NEW classes, Turn(c, step), turn[c] > 1, Install(c, classes) \/ Load(c, classes),
               AllPlaced(classes, turn[c]), Whole(classes, turn[c])
        PROVE  Holds'
    <2>1. Adds(c, classes) /\ var_ctors' = var_ctors
      BY <1>3, InstallAdds DEF Install, Load
    <2> QED
      BY <1>2, <1>3, <2>1
  <1>4. CASE register_varctors(c)
    <2>1. /\ turn[c] = 1 /\ turn' = [turn EXCEPT ![c] = 2] /\ asts' = asts
          /\ var_ctors' = var_ctors \cup ctors_of_register_varctors
      <3>1. turn[c] = 1 /\ turn' = [turn EXCEPT ![c] = turn[c] + 1]
        BY <1>4, TurnOf DEF register_varctors, Turn
      <3>2. turn[c] + 1 = 2
        BY <3>1
      <3> QED
        BY <1>4, <3>1, <3>2 DEF register_varctors
    <2>2. ASSUME NEW d \in Ctx
          PROVE  Together(d)' /\ CtorsDue(d)'
      BY <1>1, <2>1 DEF WholeInv, Holds, Together, CtorsDue
    <2>3. ASSUME NEW d \in Ctx
          PROVE  Complete(d)'
      <3>1. ASSUME NEW id \in RegisteredIds, Stage(id) \in 1..10, Stage(id) < turn'[d]
            PROVE  Stage(id) < turn[d]
        <4>1. CASE d = c
          <5>1. turn'[d] = 2
            BY <1>1, <2>1, <4>1
          <5>2. Stage(id) = 1
            BY <3>1, <5>1
          <5> QED
            BY <5>2, NoStageOne
        <4>2. CASE d # c
          BY <1>1, <2>1, <3>1, <4>2
        <4> QED
          BY <4>1, <4>2
      <3> QED
        BY <2>1, <3>1 DEF WholeInv, Holds, Complete
    <2> QED
      BY <2>2, <2>3 DEF Holds
  <1>5. CASE register_asts(c)
    BY <1>3, <1>5, TurnOf, AstsPlaced, WholeLists DEF register_asts
  <1>6. CASE register_msgs(c)
    BY <1>3, <1>6, TurnOf, MessagesPlaced, WholeLists DEF register_msgs
  <1>7. CASE register_enums(c)
    <2>1. Turn(c, "enums") /\ turn[c] = 4 /\ turn[c] > 1
      BY <1>7, TurnOf DEF register_enums
    <2> QED
      BY <1>2, <1>7, <2>1, EnumsAdd, SinglesPlaced, WholeLists
  <1>8. CASE register_port(c)
    <2>1. Turn(c, "port") /\ turn[c] = 5 /\ turn[c] > 1
      BY <1>8, TurnOf DEF register_port
    <2>2. /\ asts' = [asts EXCEPT ![c] = Replacing(asts[c], AstsOf(<<Port>>))]
          /\ InstallTypes(<<Port>>) /\ var_ctors' = var_ctors
      BY <1>8 DEF register_port, InstallAsts
    <2>3. Adds(c, <<Port>>)
      BY <2>2 DEF Adds
    <2> QED
      BY <1>2, <2>1, <2>2, <2>3, SinglesPlaced, WholeLists
  <1>9. CASE specialize_respmsg(c)
    BY <1>3, <1>9, TurnOf, BodiesPlaced, WholeLists DEF specialize_respmsg
  <1>10. CASE setup_jserv_crud(c)
    BY <1>3, <1>10, TurnOf, CrudPlaced, WholeLists DEF setup_jserv_crud
  <1>11. CASE load_usereqAst_ext(c)
    BY <1>3, <1>11, TurnOf, BodiesPlaced, WholeLists DEF load_usereqAst_ext
  <1>12. CASE load_echoAst_ext(c)
    BY <1>3, <1>12, TurnOf, BodiesPlaced, WholeLists DEF load_echoAst_ext
  <1>13. CASE register_peersettings(c)
    BY <1>3, <1>13, TurnOf, SinglesPlaced, WholeLists DEF register_peersettings
  <1>14. CASE load_heartbeatAst(c)
    BY <1>3, <1>14, TurnOf, BodiesPlaced, WholeLists DEF load_heartbeatAst
  <1>15. CASE load_ansessionreqAst(c)
    BY <1>3, <1>15, TurnOf, BodiesPlaced, WholeLists DEF load_ansessionreqAst
  <1>16. CASE load_ansessionrespAst(c)
    BY <1>3, <1>16, TurnOf, BodiesPlaced, WholeLists DEF load_ansessionrespAst
  <1>17. CASE missing_ast_file(c)
    <2>1. Len(script) = 13
      BY DEF script
    <2>2. /\ turn[c] > 10 /\ turn' = [turn EXCEPT ![c] = 14] /\ asts' = asts /\ var_ctors' = var_ctors
      BY <1>17, <2>1 DEF missing_ast_file, JservDone
    <2>3. ASSUME NEW d \in Ctx
          PROVE  Together(d)' /\ CtorsDue(d)' /\ Complete(d)'
      BY <1>1, <2>2 DEF WholeInv, Holds, Together, CtorsDue, Complete
    <2> QED
      BY <2>3 DEF Holds
  <1>18. CASE register_langstringAst(c)
    <2>1. /\ turn' = turn /\ Install(c, classes_of_register_langstringAst)
      BY <1>18 DEF register_langstringAst
    <2>2. Adds(c, classes_of_register_langstringAst) /\ var_ctors' = var_ctors
      BY <2>1, InstallAdds DEF Install
    <2>3. PICK m \in Nat : m = turn[c]
      BY <1>1
    <2>4. turn' = [turn EXCEPT ![c] = m] /\ m = turn[c]
      BY <1>1, <2>1, <2>3
    <2>5. PICK k \in Nat : k = 0
      OBVIOUS
    <2>6. /\ AllPlaced(classes_of_register_langstringAst, k)
          /\ Whole(classes_of_register_langstringAst, k)
      BY <2>5, SinglesPlaced, WholeLists
    <2>7. TurnsTo(c, k, m)
      BY <2>4, <2>5 DEF TurnsTo
    <2> QED
      BY <2>2, <2>6, <2>7, WholeAdded
  <1> QED
    BY <1>4, <1>5, <1>6, <1>7, <1>8, <1>9, <1>10, <1>11, <1>12, <1>13, <1>14, <1>15, <1>16, <1>17, <1>18

LEMMA WholeInit == Init => WholeInv
  <1> SUFFICES ASSUME Init PROVE WholeInv
    OBVIOUS
  <1>1. <<>> \in Seq({}) /\ Len(<<>>) = 0
    BY EmptySeq
  <1>2. DOMAIN <<>> = {}
    BY <1>1, LenProperties
  <1>3. ASSUME NEW c \in Ctx
        PROVE  turn[c] = 1 /\ asts[c] = <<>>
    BY DEF Init
  <1>4. \A c \in Ctx : Complete(c) /\ Together(c) /\ CtorsDue(c)
    BY <1>2, <1>3 DEF Complete, Together, CtorsDue
  <1> QED
    BY <1>4, SettledInit DEF WholeInv, Holds

LEMMA WholeNext == WholeInv /\ [Next]_vars => WholeInv'
  <1> SUFFICES ASSUME WholeInv, [Next]_vars PROVE WholeInv'
    OBVIOUS
  <1>1. SettledInv'
    BY SettledNext DEF WholeInv
  <1>2. CASE Next
    BY <1>1, <1>2, WholeStep DEF Next, WholeInv
  <1>3. CASE UNCHANGED vars
    BY <1>1, <1>3 DEF vars, WholeInv, Holds, Complete, Together, CtorsDue
  <1> QED
    BY <1>2, <1>3

-----------------------------------------------------------------------------
(* What can be constructed in a context that is set up.                    *)

\* The bodies have create_ptr.
Pointer(class) == "create_ptr" \in DOMAIN class /\ class.create_ptr = TRUE

LEMMA PointersMade ==
  ASSUME NEW id, NEW base, NEW fields, NEW k, NEW l, NEW x, NEW y
  PROVE  /\ Pointer(Body(id, base, fields))
         /\ Pointer([Body(id, base, fields) EXCEPT !.data[k] = x])
         /\ Pointer([Body(id, base, fields) EXCEPT !.data[k] = x, !.data[l] = y])
  <1>1. /\ Pointer(Body(id, base, fields)) /\ {"create_ptr", "data"} \subseteq DOMAIN Body(id, base, fields)
    BY DEF Body, Class, Pointer
  <1> QED
    BY <1>1 DEF Pointer

LEMMA BodiesPointed ==
  ASSUME NEW T \in BodyIds
  PROVE  Pointer(ClassOf(T))
  <1>1. Pointer(AnsonResp) /\ Pointer(AnUpdateReq)
    BY PointersMade, Zenon DEF AnsonResp, AnUpdateReq
  <1>2. Pointer(AnQueryReq) /\ Pointer(AnInsertReq) /\ Pointer(UserReq) /\ Pointer(EchoReq)
    BY PointersMade, Zenon DEF AnQueryReq, AnInsertReq, UserReq, EchoReq
  <1>3. Pointer(HeartBeat) /\ Pointer(AnSessionReq) /\ Pointer(AnSessionResp)
    BY PointersMade, Zenon DEF HeartBeat, AnSessionReq, AnSessionResp
  <1> QED
    BY <1>1, <1>2, <1>3, ClassOfPlain DEF BodyIds

\* The words of C++.
LEMMA WordsInCpp ==
  /\ CppWord("java.lang.String") = "string"
  /\ \A w \in (UsualWords \cup BodyIds \cup {"VarTypae"}) \ {"java.lang.String"} : CppWord(w) = w
  BY DEF CppWord, UsualWords, BodyIds

LEMMA Registrations ==
  ASSUME NEW c \in Ctx, WholeInv, JservDone(c)
  PROVE  /\ {"Anson", "SemanExpr", "AnCtor", "AnResultset", "SessionInf", "AnsonHeader", "MsgCode", "AnUpdateReq"}
              \subseteq DOMAIN asts[c]
         /\ "JavaEnum" \in aliases[c]
         /\ ctors_of_register_varctors \subseteq var_ctors
  <1> DEFINE S == {"Anson", "SemanExpr", "AnCtor", "AnResultset", "SessionInf", "AnsonHeader", "MsgCode", "AnUpdateReq"}
  <1>1. turn[c] \in Nat /\ turn[c] > 10 /\ BasesDue(c)
    BY DEF WholeInv, SettledInv, RegInv, Shaped, JservDone
  <1>2. "JavaEnum" \in aliases[c] /\ ctors_of_register_varctors \subseteq var_ctors
    BY <1>1 DEF BasesDue, WholeInv, Holds, CtorsDue
  <1>3. S \subseteq ClassIds \ {"JavaEnum"}
    BY DEF ClassIds, BodyIds
  <1>4. \A id \in S : ClassStage(id) \in {2, 3, 4, 7}
    BY DEF ClassStage, AstIds, MessageIds
  <1> HIDE DEF S
  <1>5. ASSUME NEW id \in S
        PROVE  id \in DOMAIN asts[c]
    <2>1. id \in RegisteredIds /\ Stage(id) = ClassStage(id)
      BY <1>3, StageOfClass DEF RegisteredIds
    <2>2. Stage(id) \in {2, 3, 4, 7}
      BY <1>4, <2>1
    <2>3. Stage(id) \in 1..10 /\ Stage(id) < turn[c]
      BY <1>1, <2>2
    <2> QED
      BY <2>1, <2>3 DEF WholeInv, Holds, Complete
  <1> QED
    BY <1>2, <1>5 DEF S

LEMMA UsualWordsOk ==
  ASSUME NEW c \in Ctx, WholeInv, JservDone(c), NEW w \in UsualWords
  PROVE  WordOk(c, w)
  <1>1. {"string", "int", "VarType"} \subseteq Prim
    BY DEF Prim
  <1>2. CASE w \in {"string", "int", "VarType", "java.lang.String"}
    BY <1>1, <1>2, WordsInCpp DEF WordOk
  <1>3. CASE w \notin {"string", "int", "VarType", "java.lang.String"}
    <2>1. CppWord(w) = w
      BY <1>3, WordsInCpp
    <2>2. \/ w \in {"Anson", "SemanExpr", "AnCtor", "AnResultset", "SessionInf", "AnsonHeader", "MsgCode", "AnUpdateReq"}
          \/ w = "JavaEnum"
      BY <1>3 DEF UsualWords
    <2> QED
      BY <2>1, <2>2, Registrations DEF WordOk, Known
  <1> QED
    BY <1>2, <1>3

LEMMA UsualOk ==
  ASSUME NEW c \in Ctx, WholeInv, JservDone(c), NEW t, UsualType(t)
  PROVE  Constructible(c, t)
  <1>1. \A w \in UsualWords : w \in TypeWord \ Containers
    BY DEF UsualWords, TypeWord, Containers
  <1>2. CASE \E w \in UsualWords : Simple(t, w)
    BY <1>1, <1>2, SimpleOk, UsualWordsOk
  <1>3. CASE \E w \in {"string", "VarType"} : Nested(t, w)
    <2>1. PICK w \in {"string", "VarType"} : Nested(t, w)
      BY <1>3
    <2>2. w \in UsualWords
      BY DEF UsualWords
    <2>3. list(cls(w)) \in var_ctors /\ table(cls(w)) \in var_ctors
      <3>1. ctors_of_register_varctors \subseteq var_ctors
        BY Registrations
      <3>2. str = cls("string") /\ table(str) = list(list(str)) /\ table(cls("VarType")) = list(list(cls("VarType")))
        BY Zenon DEF str, cls, table
      <3>3. /\ list(str) \in ctors_of_register_varctors /\ list(list(str)) \in ctors_of_register_varctors
            /\ list(cls("VarType")) \in ctors_of_register_varctors
            /\ list(list(cls("VarType"))) \in ctors_of_register_varctors
        BY DEF ctors_of_register_varctors
      <3> QED
        BY <3>1, <3>2, <3>3
    <2> QED
      BY <1>1, <2>1, <2>2, <2>3, NestedOk, UsualWordsOk
  <1> QED
    BY <1>2, <1>3 DEF UsualType

\* A message is registered with its body.
LEMMA PointedType ==
  ASSUME NEW c \in Ctx, WholeInv, NEW id \in DOMAIN asts[c], NEW t, Pointed(id, t)
  PROVE  Constructible(c, t)
  <1>1. PICK T \in BodyIds : id = MsgOf(T) /\ t = list(ptr(cls(T)))
    BY DEF Pointed
  <1>2. T \in ClassIds \ {"JavaEnum"} /\ T \in TypeWord \ Containers
    BY DEF BodyIds, ClassIds, TypeWord, Containers
  <1>3. T \in RegisteredIds /\ id \in RegisteredIds /\ Stage(T) = Stage(id)
    BY <1>1, <1>2, StageOfClass, StageOfMessage, ClassOfMessage DEF RegisteredIds
  <1>4. T \in DOMAIN asts[c]
    BY <1>3 DEF WholeInv, Holds, Together
  <1>5. WordOk(c, T)
    <2>1. CppWord(T) = T
      <3>1. T # "java.lang.String"
        BY DEF BodyIds
      <3> QED
        BY <3>1, WordsInCpp
    <2> QED
      BY <1>4, <2>1 DEF WordOk, Known
  <1>6. T \in DOMAIN entt /\ entt[T] = EnttOf(ClassOf(T))
    <2>1. T \notin CodeIds
      BY DEF BodyIds, CodeIds
    <2> QED
      BY <1>4, <2>1 DEF WholeInv, SettledInv, TypesOK, TypesMade
  <1>7. entt[T].create_ptr
    <2>1. PICK class : class = ClassOf(T)
      OBVIOUS
    <2>2. class.create_ptr = TRUE
      BY <2>1, BodiesPointed DEF Pointer
    <2>3. EnttOf(class).create_ptr = class.create_ptr
      BY Zenon DEF EnttOf
    <2>4. entt[T] = EnttOf(class)
      BY <1>6, <2>1
    <2> QED
      BY <2>2, <2>3, <2>4, Zenon
  <1> QED
    BY <1>1, <1>2, <1>5, <1>6, <1>7, PointedOk

\* The misspelt type is no class.
LEMMA Misspelt ==
  ASSUME NEW c \in Ctx, WholeInv
  PROVE  ~Constructible(c, table(cls("VarTypae")))
  <1>1. "VarTypae" \in TypeWord \ Containers /\ CppWord("VarTypae") = "VarTypae" /\ "VarTypae" \notin Prim
    BY WordsInCpp DEF TypeWord, Containers, Prim
  <1>2. "VarTypae" \notin ClassIds
    BY DEF ClassIds, BodyIds
  <1>3. "VarTypae" \notin RegisteredIds
    BY <1>2, MsgOfAssumption DEF RegisteredIds
  <1>4. DOMAIN asts[c] \subseteq RegisteredIds /\ aliases[c] \subseteq {"JavaEnum"}
    BY MadeOf DEF WholeInv, SettledInv
  <1>5. ~WordOk(c, "VarTypae")
    BY <1>1, <1>3, <1>4 DEF WordOk, Known
  <1>6. Nested(table(cls("VarTypae")), "VarTypae")
    BY Zenon DEF Nested
  <1> QED
    BY <1>1, <1>5, <1>6, NestedOk

LEMMA WholeConstructible == WholeInv => DeclaredConstructible
  <1> DEFINE Wheres == {"AnUpdateReq", "AnInsertReq"} \X {"where"}
  <1> SUFFICES ASSUME WholeInv, NEW c \in Ctx, JservDone(c)
               PROVE  {f \in Declared(c) : ~Constructible(c, Fields(c, f[1])[f[2]])} = Registered(c, Wheres)
    BY DEF DeclaredConstructible
  <1>1. PICK astmap : astmap = asts[c]
    OBVIOUS
  <1>2. /\ Settled(astmap, turn[c]) /\ Ranked(astmap)
        /\ BasesIn(astmap, DOMAIN astmap \cup aliases[c]) /\ aliases[c] \subseteq {"JavaEnum"}
    BY <1>1 DEF WholeInv, SettledInv, Settled, RegInv, Known
  <1>3. ASSUME NEW id, NEW k, <<id, k>> \in Declared(c), ~Constructible(c, Fields(c, id)[k])
        PROVE  id \in DOMAIN astmap /\ id \in {"AnUpdateReq", "AnInsertReq"} /\ k = "where"
    <2>1. PICK t : t = FieldsOf(astmap)[id][k]
      OBVIOUS
    <2>2. /\ id \in DOMAIN astmap /\ k \in DOMAIN FieldsOf(astmap)[id] /\ t # NoType
          /\ ~Constructible(c, t)
      BY <1>1, <1>3, <2>1, DeclaredIs DEF Fields
    <2>3. From(astmap, id, k, t)
      BY <1>2, <2>1, <2>2, FieldsFrom
    <2>4. PICK o \in DOMAIN astmap : /\ Origin(astmap, id, o) /\ k \in DOMAIN ClassOf(o).fields
                                     /\ t = ClassOf(o).fields[k]
      BY <2>2, <2>3 DEF From
    <2>5. o \in RegisteredIds
      BY <1>2, MadeOf
    <2>6. o = "AnUpdateReq" /\ k = "where"
      BY <1>1, <2>2, <2>4, <2>5, OwnTypes, UsualOk, PointedType
    <2> QED
      BY <2>2, <2>4, <2>6 DEF Origin
  <1>4. "AnUpdateReq" \in DOMAIN astmap =>
          /\ "where" \in DOMAIN FieldsOf(astmap)["AnUpdateReq"]
          /\ FieldsOf(astmap)["AnUpdateReq"]["where"] = table(cls("VarTypae"))
    <2> SUFFICES ASSUME "AnUpdateReq" \in DOMAIN astmap
                 PROVE  /\ "where" \in DOMAIN FieldsOf(astmap)["AnUpdateReq"]
                        /\ FieldsOf(astmap)["AnUpdateReq"]["where"] = table(cls("VarTypae"))
      OBVIOUS
    <2>1. astmap["AnUpdateReq"].fields = AnUpdateReq.fields
      BY <1>2, MadeOf, ClassOfPlain
    <2> QED
      BY <1>2, <2>1, UsualRequests, FieldsInherited
  <1>5. "AnInsertReq" \in DOMAIN astmap =>
          /\ "where" \in DOMAIN FieldsOf(astmap)["AnInsertReq"]
          /\ FieldsOf(astmap)["AnInsertReq"]["where"] = table(cls("VarTypae"))
    <2> SUFFICES ASSUME "AnInsertReq" \in DOMAIN astmap
                 PROVE  /\ "where" \in DOMAIN FieldsOf(astmap)["AnInsertReq"]
                        /\ FieldsOf(astmap)["AnInsertReq"]["where"] = table(cls("VarTypae"))
      OBVIOUS
    <2>1. astmap["AnInsertReq"].base = "AnUpdateReq" /\ "where" \notin DOMAIN astmap["AnInsertReq"].fields
      BY <1>2, MadeOf, ClassOfPlain, InsertFields, BodyClassNames DEF Names
    <2>2. "AnUpdateReq" \in DOMAIN astmap
      BY <1>2, <2>1 DEF BasesIn
    <2> QED
      BY <1>2, <1>4, <2>1, <2>2, FieldsInherited
  <1>6. ASSUME NEW id \in {"AnUpdateReq", "AnInsertReq"} \cap DOMAIN astmap
        PROVE  <<id, "where">> \in Declared(c) /\ ~Constructible(c, Fields(c, id)["where"])
    <2>1. table(cls("VarTypae")) # NoType
      BY NotBlank
    <2>2. /\ "where" \in DOMAIN FieldsOf(astmap)[id]
          /\ FieldsOf(astmap)[id]["where"] = table(cls("VarTypae"))
      BY <1>4, <1>5
    <2> QED
      BY <1>1, <2>1, <2>2, DeclaredIs, Misspelt DEF Fields
  <1>7. ASSUME NEW f \in Declared(c), ~Constructible(c, Fields(c, f[1])[f[2]])
        PROVE  f \in Registered(c, Wheres)
    <2>1. PICK id, k : id = f[1] /\ k = f[2]
      OBVIOUS
    <2>2. f = <<id, k>>
      BY <2>1, DeclaredPairs
    <2>3. id \in DOMAIN asts[c] /\ id \in {"AnUpdateReq", "AnInsertReq"} /\ k = "where"
      BY <1>1, <1>3, <1>7, <2>1, <2>2
    <2> QED
      BY <2>1, <2>2, <2>3 DEF Registered
  <1>8. ASSUME NEW f \in Registered(c, Wheres)
        PROVE  f \in Declared(c) /\ ~Constructible(c, Fields(c, f[1])[f[2]])
    <2>1. PICK id \in {"AnUpdateReq", "AnInsertReq"} : f = <<id, "where">> /\ id \in DOMAIN asts[c]
      BY <1>8 DEF Registered
    <2> QED
      BY <1>1, <1>6, <2>1
  <1> QED
    BY <1>7, <1>8

\* In every context that register_jserv has set up, whatever register_semantier
\* and the application have added and whatever the other contexts do, what the
\* ASTs declare can be constructed, but for the element type misspelt in
\* AnUpdateReq.where (entt_jserv.h:178).
THEOREM DeclaredIsConstructible == Spec => []DeclaredConstructible
  BY WholeConstructible, WholeInit, WholeNext, PTL DEF Spec
====
