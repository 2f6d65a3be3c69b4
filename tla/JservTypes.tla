---- MODULE JservTypes ----
(***************************************************************************)
(* The classes register_jserv knows, as its functions register them: each  *)
(* class's AST (base and declared fields), its EnTT type (base, members    *)
(* with their C++ types, whether it has create_ptr) and the names its      *)
(* get_field_instance answers.  The three are written by hand, apart from  *)
(* each other.                                                             *)
(*                                                                         *)
(* A type id is the sequence of its words: "list<shared_ptr<UserReq" is    *)
(* <<"list", "shared_ptr", "UserReq">>.                                    *)
(***************************************************************************)
EXTENDS Naturals, Sequences, AstLookup

Prim == {"string", "int", "VarType", "bool"}

\* The C++ type a type id stands for: primitives have other names.
CppWord(w) == CASE w = "java.lang.String" -> "string"
                [] w = "LangExt::VarType" -> "VarType"
                [] OTHER -> w
Cpp(id) == [i \in DOMAIN id |-> CppWord(id[i])]

\* The element type of a container's id, and whether it is held by pointer.
parse_val_type(id) == IF Len(id) > 1 /\ Head(id) = "shared_ptr" THEN [id |-> Tail(id), ptr |-> TRUE]
                      ELSE [id |-> id, ptr |-> FALSE]
parseListValtype(id) == IF Head(id) = "list" THEN parse_val_type(Tail(id)) ELSE [id |-> id, ptr |-> FALSE]
parseMapValtype(id) == IF Head(id) = "map" THEN parse_val_type(Tail(id)) ELSE [id |-> id, ptr |-> FALSE]

NoType == <<>>  \* the blank type id
str == <<"string">>
int == <<"int">>
cls(c) == <<c>>
list(id) == <<"list">> \o id
map(id) == <<"map">> \o id  \* map<string, id
ptr(id) == <<"shared_ptr">> \o id
Strings(names) == [k \in names |-> str]

-----------------------------------------------------------------------------
\* A class whose three tables agree; one that is read only (it keeps the
\* default getter); a message body, which registers create_ptr.
Class(id, base, fields) ==
  [id |-> id, base |-> base, fields |-> fields,
   entt_base |-> base, data |-> [k \in DOMAIN fields |-> Cpp(fields[k])], create_ptr |-> FALSE,
   answers |-> DOMAIN fields, asks_base |-> TRUE]
ReadOnly(class) == [class EXCEPT !.answers = {}, !.asks_base = FALSE]
Body(id, base, fields) == [Class(id, base, fields) EXCEPT !.create_ptr = TRUE]

\* AnsonMsg<T>, registered with T.
MsgOf(T) == "AnsonMsg<" \o T

\* AnsonMsg<T> is another id for every T, and that of no class; nor is it what
\* AnUpdateReq misspells.
BodyIds == {"AnsonResp", "AnQueryReq", "AnUpdateReq", "AnInsertReq", "UserReq", "EchoReq", "HeartBeat",
            "AnSessionReq", "AnSessionResp"}
ClassIds == BodyIds \cup
  {"IJsonable", "AnsonField", "Anson", "Semantics", "SemanExpr", "AnCtor", "AnsonAst", "AnsonJavaEnumAst",
   "AnsonBodyAst", "AnsonMsgAst", "SemanticObject", "AnResultset", "SessionInf", "AnsonHeader",
   "AnsonBody", "MsgCode", "Port", "JavaEnum", "PeerSettings", "LangString"}
ASSUME MsgOfAssumption ==
  \A T \in BodyIds : MsgOf(T) \notin ClassIds \cup {"", "VarTypae"} /\ \A U \in BodyIds \ {T} : MsgOf(T) # MsgOf(U)

specialize_req(T) ==
  Class(MsgOf(T), "Anson",
        [port |-> cls("JavaEnum"), code |-> cls("MsgCode"), version |-> str, seq |-> int,
         header |-> cls("AnsonHeader"), body |-> list(ptr(cls(T)))])
body_specialize_msg(body) == <<body, specialize_req(body.id)>>

-----------------------------------------------------------------------------
\* register_varctors: the containers a container can hold.
ctors_of_register_varctors_by_alias == {list(cls(v)) : v \in {"string", "LangExt::VarType"}}
ctors_of_register_varctors ==
  {list(str), list(list(str))} \cup UNION {{list(cls(v)), list(list(cls(v)))} : v \in {"VarType", "LangExt::VarType"}}

\* register_asts: the ASTs of the ASTs, so that AST files can be read.
IJsonable == [ReadOnly(Class("IJsonable", "", <<>>)) EXCEPT !.data = [anclass |-> str]]
AnsonField == ReadOnly(Class("AnsonField", "", Strings({"fieldname", "valType", "dataAnclass"})))
Anson ==
  [ReadOnly(Class("Anson", "IJsonable", <<>>)) EXCEPT !.data = [type |-> str], !.answers = {"type"}]
Semantics == ReadOnly(Class("Semantics", "Anson", <<>>))
SemanExpr ==
  [ReadOnly(Class("SemanExpr", "Semantics",
     [stype |-> str, expect_result |-> str, args |-> list(cls("SemanExpr")), semantics |-> list(str)]))
   EXCEPT !.entt_base = "Anson",
          !.data["args"] = list(str), !.data["semantics"] = list(cls("SemanExpr"))]
AnCtor ==
  [ReadOnly(Class("AnCtor", "SemanExpr",
     [base |-> cls("SemanExpr"), args |-> list(cls("SemanExpr")), body |-> list(cls("SemanExpr")),
      expect_result |-> str]))
   EXCEPT !.entt_base = "Anson"]
bool_flags == {"isInt", "isDouble", "isEnum", "isList", "isMap", "istring", "isJsonable", "isJavaEnum"}
AnsonAstOf(fields) ==
  [ReadOnly(Class("AnsonAst", "Anson", fields))
   EXCEPT !.data = Replacing([k \in bool_flags |-> <<"bool">>],
                     Replacing([dataAnclass |-> str, static_val |-> str, baseAnclass |-> str,
                                enttypeid |-> <<"hashed_string">>,
                                fields |-> map(cls("AnsonField")), enums |-> map(int)], @))]
AnsonAstDeclaringFields ==
  AnsonAstOf([ctors |-> list(list(list(str))), ctorsemantics |-> list(cls("AnCtor")),
              fields |-> map(cls("AnsonField"))])
AnsonAst == AnsonAstOf([ctors |-> list(list(list(str))), ctorsemantics |-> list(cls("AnCtor"))])
AnsonBodyAst ==
  [ReadOnly(Class("AnsonBodyAst", "AnsonAst", [A |-> map(str)])) EXCEPT !.data = Replacing([uri |-> str], @)]
AnsonJavaEnumAst ==
  ReadOnly(Class("AnsonJavaEnumAst", "AnsonAst", [encode |-> map(str), decode |-> map(str)]))
AnsonMsgAst ==
  ReadOnly(Class("AnsonMsgAst", "AnsonAst", Strings({"bodyAnclass", "bodyAst", "portAnclass", "portAst"})))
classes_of_register_asts ==
  <<IJsonable, AnsonField, Anson, Semantics, SemanExpr, AnCtor, AnsonAst, AnsonJavaEnumAst,
    AnsonBodyAst, AnsonMsgAst>>

\* register_msgs: what messages are made of.
SemanticObject ==
  [ReadOnly(Class("SemanticObject", "Anson", [data |-> map(str)])) EXCEPT !.data["data"] = map(<<"any">>)]
AnResultsetByMemberName ==
  [Class("AnResultset", "Anson",
         [columns |-> map(list(cls("VarType"))), rows |-> list(list(cls("VarType")))])
   EXCEPT !.data = [colnames |-> map(list(cls("VarType"))), rows |-> list(list(cls("VarType")))]]
AnResultset ==
  Class("AnResultset", "Anson",
        [columns |-> map(list(cls("VarType"))), rows |-> list(list(cls("VarType")))])
SessionInf ==
  Class("SessionInf", "Anson",
        [seq |-> int, ssid |-> str, uid |-> str, roleId |-> str, userName |-> str, roleName |-> str,
         ssToken |-> str, device |-> str])
AnsonHeader ==
  Class("AnsonHeader", "Anson",
        [usrAct |-> list(str), uid |-> str, ssid |-> str, iv64 |-> str, ssToken |-> str])
AnsonBody == Class("AnsonBody", "Anson", Strings({"uri", "a"}))
classes_of_register_msgs == <<SemanticObject, AnResultset, SessionInf, AnsonHeader, AnsonBody>>

\* specialize_respmsg.
AnsonResp ==
  [Body("AnsonResp", "AnsonBody", [m |-> str, rs |-> list(cls("AnResultset")), map |-> map(str)])
   EXCEPT !.data["map"] = map(cls("Anson"))]
classes_of_specialize_respmsg == <<AnsonResp, specialize_req("AnsonResp")>>

\* setup_jserv_crud: requests on tables.
table(id) == list(list(id))
AnQueryReq ==
  Body("AnQueryReq", "AnsonBody",
       [mtabl |-> str, mAlias |-> str, page |-> int, pgsize |-> int, groups |-> list(str), limt |-> list(str),
        joins |-> table(str), exprs |-> table(str), where |-> table(str), orders |-> table(str),
        havings |-> table(str)])
AnUpdateReq ==
  [Body("AnUpdateReq", "AnsonBody",
        [mtabl |-> str, limt |-> str, nvs |-> table(cls("VarType")), nvss |-> list(table(cls("VarType"))),
         cols |-> table(str), where |-> table(cls("VarTypae")),
         postUpds |-> list(cls("AnUpdateReq")), attacheds |-> table(cls("VarType"))])
   EXCEPT !.data["cols"] = list(str), !.data["where"] = table(cls("VarType"))]
AnInsertReqDefaultGetter == ReadOnly(Body("AnInsertReq", "AnUpdateReq", <<>>))
AnInsertReq == Body("AnInsertReq", "AnUpdateReq", <<>>)
classes_of_setup_jserv_crud ==
  body_specialize_msg(AnQueryReq) \o body_specialize_msg(AnUpdateReq) \o body_specialize_msg(AnInsertReq)

\* load_usereqAst_ext and load_echoAst_ext, whose ASTs are texts in the code.
UserReq == Body("UserReq", "AnsonBody", [data |-> map(cls("VarType"))])
EchoReq == Body("EchoReq", "AnsonBody", [echo |-> cls("java.lang.String")])
classes_of_load_usereqAst_ext == body_specialize_msg(UserReq)
classes_of_load_echoAst_ext == body_specialize_msg(EchoReq)

\* register_peersettings.
PeerSettings ==
  Class("PeerSettings", "Anson",
        [ansonMsg |-> str, ansonBody |-> str, cpp_gen |-> str,
         ansons |-> list(str), scopeEnums |-> list(str), javaEnums |-> list(str), anRequests |-> list(str)])
classes_of_register_peersettings == <<PeerSettings>>

\* register_langstringAst.
LangString == Class("LangString", "Anson", [lang |-> str, en |-> map(str), local |-> map(str)])
classes_of_register_langstringAst == <<LangString>>

\* register_semantier's three AST files, with the generated EnTT types.
HeartBeatUnlisted == Body("HeartBeat", "AnsonBody", <<>>)
HeartBeat ==
  Body("HeartBeat", "AnsonBody", [ssid |-> cls("java.lang.String"), uid |-> cls("java.lang.String")])
AnSessionReq == Body("AnSessionReq", "AnsonBody", Strings({"uid", "token", "iv", "deviceId"}))
AnSessionResp ==
  Body("AnSessionResp", "AnsonResp", [ssInf |-> cls("SessionInf"), profile |-> cls("Anson")])
classes_of_load_heartbeatAst == body_specialize_msg(HeartBeat)
classes_of_load_ansessionreqAst == body_specialize_msg(AnSessionReq)
classes_of_load_ansessionrespAst == body_specialize_msg(AnSessionResp)
====
