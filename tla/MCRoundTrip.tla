---- MODULE MCRoundTrip ----
(***************************************************************************)
(* A message class over the classes jserv registers: scalars of every      *)
(* kind, a member object (AnsonHeader), pointers to UserReq, rows of       *)
(* variants, AnInsertReq (no field of its own), a map of objects, and      *)
(* SemanticObject (no getter).  Anson and IJsonable declare no field.      *)
(***************************************************************************)
EXTENDS RoundTrip

L == INSTANCE AstLookup

Reqs == "list<shared_ptr<UserReq"
Inserts == "list<AnInsertReq"
Rows == "list<list<VarType"
Sets == "list<AnResultset"
Columns == "map<string, list<VarType"
Row == "list<VarType"
Texts == "list<string"
Data == "map<string, VarType"
Headers == "map<string, AnsonHeader"
Props == "map<string, string"

\* Texts: with an escape, with what is none, with a quote and with line ends.
\* Doubles: kept, rounded or cut by six decimals and a float, and infinity.
MCUnescaped == "a\\tb" :> "a\tb" @@ "c:\\users" :> Refused @@ "so\"called" :> Refused
               @@ "one\\ntwo" :> "one\ntwo" @@ "one\ntwo" :> Refused
MCNarrowed == "1.5" :> "1.5f" @@ "0.1" :> "0.1f" @@ "1e-7" :> "0f" @@ "inf" :> Refused

Classes == {"Anson", "AnsonMsg", "AnsonHeader", "SemanticObject", "AnsonBody",
            "UserReq", "AnUpdateReq", "AnInsertReq", "AnResultset"}
MCKind == [id \in Classes \cup {Reqs, Inserts, Sets, Rows, Row, Texts, Columns, Data, Headers, Props,
                                "int", "bool", "string", "VarType", "JavaEnum", "MsgCode"} |->
             CASE id \in Classes -> "object"
               [] id \in {Reqs, Inserts, Sets, Rows, Row, Texts} -> "list"
               [] id \in {Columns, Data, Headers, Props} -> "map"
               [] id = "VarType" -> "var" [] id = "JavaEnum" -> "port" [] id = "MsgCode" -> "enum"
               [] OTHER -> id]
MCTypeId == DOMAIN MCKind
MCElem == [id \in {Reqs, Inserts, Sets, Rows, Row, Texts, Columns, Data, Headers, Props} |->
             [id |-> CASE id = Reqs -> "UserReq" [] id = Inserts -> "AnInsertReq"
                       [] id = Sets -> "AnResultset" [] id \in {Rows, Columns} -> Row
                       [] id \in {Row, Data} -> "VarType" [] id = Headers -> "AnsonHeader"
                       [] OTHER -> "string",
              ptr |-> id = Reqs]]

MCBaseAst == [c \in Classes |->
  CASE c \in {"UserReq", "AnUpdateReq"} -> "AnsonBody" [] c = "AnInsertReq" -> "AnUpdateReq"
    [] c = "Anson" -> "IJsonable" [] OTHER -> "Anson"]
MCOwnAst ==
  "Anson" :> <<>>
  @@ "AnsonMsg" :> ("port" :> "JavaEnum" @@ "code" :> "MsgCode" @@ "seq" :> "int"
                    @@ "header" :> "AnsonHeader" @@ "body" :> Reqs @@ "inserts" :> Inserts
                    @@ "rs" :> Sets @@ "headers" :> Headers @@ "props" :> "SemanticObject")
  @@ "AnsonHeader" :> ("uid" :> "string" @@ "usrAct" :> Texts)
  @@ "AnResultset" :> ("columns" :> Columns @@ "rows" :> Rows)
  @@ "SemanticObject" :> ("data" :> Props)
  @@ "AnsonBody" :> ("uri" :> "string")
  @@ "UserReq" :> ("data" :> Data)
  @@ "AnUpdateReq" :> ("mtabl" :> "string")
  @@ "AnInsertReq" :> <<>>
MCAst == L!Inherited(MCOwnAst, MCBaseAst)
MCMeta == [c \in Classes |-> MCAst[c] @@ "type" :> "string"]
MCGetter == [c \in Classes |-> IF c = "SemanticObject" THEN {} ELSE DOMAIN MCAst[c]]
MCKey == UNION {DOMAIN MCMeta[c] : c \in Classes} \cup {"a", "b"} \cup DOMAIN MCUnescaped \cup {"a\tb"}

MCFresh ==
  LET of[id \in MCTypeId] ==
        CASE id \in Classes -> [k \in DOMAIN MCMeta[id] |-> IF k = "type" THEN id ELSE of[MCMeta[id][k]]]
          [] id = "int" -> 0 [] id = "string" -> "" [] id = "JavaEnum" -> "_sentinel_"
          [] id = "MsgCode" -> "ok" [] id = "bool" -> FALSE
          [] OTHER -> <<>>
  IN of
MCPortUrl == "echo" :> "echo.less"

\* The objects: one that uses every member soundly, and one per way a member
\* can differ from it.
Var(t, x) == [t |-> t, v |-> x]
NoVar == Var("none", "")
Req(data) == [MCFresh["UserReq"] EXCEPT !["uri"] = "u", !["data"] = data]
Set(rows) == [MCFresh["AnResultset"] EXCEPT !["rows"] = rows,
                !["columns"] = "a" :> <<Var("int", 1), Var("string", "A")>> @@ "b" :> <<>>]
Msg == [MCFresh["AnsonMsg"] EXCEPT !["port"] = "echo.less", !["code"] = "ok", !["seq"] = 1,
          !["header"]["uid"] = "ada", !["header"]["usrAct"] = <<"f", "g">>,
          !["body"] = <<Req("a" :> Var("int", 1) @@ "b" :> Var("double", "1.5"))>>,
          !["rs"] = <<Set(<<<<Var("string", "x"), Var("int", -2)>>, <<>>>>)>>]
MCObjects ==
  {Msg, MCFresh["AnsonMsg"]}
  \cup {[Msg EXCEPT !["rs"] = <<Set(r)>>] : r \in {<<<<NoVar>>>>, <<<<Var("int", 0), NoVar, Var("string", "y")>>>>,
                                     <<<<Var("string", "y"), Var("date", "2026")>>>>,
                                     <<<<Var("double", "0.1"), Var("string", "one\\ntwo")>>>>,
                                     <<<<Var("double", "1e-7")>>>>, <<<<Var("double", "inf")>>>>,
                                     <<<<Var("int", 1), Var("float", "0.1f")>>>>,
                                     <<<<Var("string", "c:\\users")>>>>}}
  \cup {[Msg EXCEPT !["header"]["uid"] = s] : s \in {"one\\ntwo", "one\ntwo", "so\"called"}}
  \cup {[Msg EXCEPT !["header"]["usrAct"] = <<"f", s>>] : s \in {"one\\ntwo", "c:\\users"}}
  \cup {[Msg EXCEPT !["body"] = b] :
          b \in {<<Req("a\\tb" :> Var("int", 1) @@ "b" :> NoVar)>>, <<Req("c:\\users" :> Var("int", 1))>>,
                 <<NullPtr>>, <<NullPtr, Req(<<>>)>>, <<Req("b" :> NoVar @@ "a" :> Var("int", -1)), Req(<<>>)>>}}
  \cup {[Msg EXCEPT !["inserts"] = <<MCFresh["AnInsertReq"]>>],
        [Msg EXCEPT !["headers"] = "a" :> MCFresh["AnsonHeader"]],
        [Msg EXCEPT !["headers"] = "a" :> MCFresh["AnsonHeader"] @@ "b" :> MCFresh["AnsonHeader"]],
        [Msg EXCEPT !["props"]["data"] = "a" :> "lost"],
        [Msg EXCEPT !["code"] = "_sentinel_"], [Msg EXCEPT !["code"] = "past the end", !["port"] = "my.url", !["seq"] = -1]}

\* The contents there are: of the objects, of an empty container, and of what
\* each holds.
Pair(t, v) == [t |-> t, v |-> v]
Parts(x) ==
  CASE x.v = NullPtr -> {}
    [] x.v # NullPtr /\ MCKind[x.t] = "object" -> {Pair(MCMeta[x.t][k], x.v[k]) : k \in DOMAIN x.v}
    [] x.v # NullPtr /\ MCKind[x.t] \in {"list", "map"} -> {Pair(MCElem[x.t].id, x.v[k]) : k \in DOMAIN x.v}
    [] OTHER -> {}
RECURSIVE Contained(_)
Contained(x) == {x} \cup UNION {Contained(y) : y \in Parts(x)}
MCContent ==
  LET all == UNION {Contained(Pair("AnsonMsg", o)) : o \in MCObjects}
  IN [t \in MCTypeId |-> ({x.v : x \in {y \in all : y.t = t}} \ {NullPtr})
                           \cup (IF t \in DOMAIN MCElem THEN {<<>>} ELSE {})]
====
