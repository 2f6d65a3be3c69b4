---- MODULE MCSaxMsg ----
(***************************************************************************)
(* The parser on messages: AnsonMsg<UserReq> with a scalar, a port, and    *)
(* the body list of shared pointers whose elements hold a string inherited *)
(* from AnsonBody and a map of variants.  "opts" is a member no class has  *)
(* (Java's messages carry one).  AnsonMsg's constructor leaves seq          *)
(* uninitialised: the 0 stands for whatever it holds.                      *)
(***************************************************************************)
EXTENDS SaxRefinement

L == INSTANCE AstLookup

BodyList == "list<shared_ptr<UserReq"
DataMap == "map<string, VarType"

MCKind == [id \in {"AnsonMsg", "AnsonBody", "UserReq", BodyList, DataMap, "int", "string", "VarType", "Port"} |->
             CASE id \in {"AnsonMsg", "AnsonBody", "UserReq"} -> "object"
               [] id = BodyList -> "list" [] id = DataMap -> "map" [] id = "VarType" -> "var"
               [] id = "Port" -> "port" [] OTHER -> id]
MCTypeId == DOMAIN MCKind
MCKey == {"port", "seq", "body", "uri", "data", "opts"}
Own == "AnsonMsg" :> ("port" :> "Port" @@ "seq" :> "int" @@ "body" :> BodyList)
       @@ "AnsonBody" :> ("uri" :> "string") @@ "UserReq" :> ("data" :> DataMap)
Base == "AnsonMsg" :> "" @@ "AnsonBody" :> "" @@ "UserReq" :> "AnsonBody"
MCMeta == L!Inherited(Own, Base)
MCAsts == {"AnsonMsg", "AnsonBody", "UserReq", "Port"}
MCElem == BodyList :> [id |-> "UserReq", ptr |-> TRUE] @@ DataMap :> [id |-> "VarType", ptr |-> FALSE]
MCFresh ==
  [id \in MCTypeId |->
     CASE id = "AnsonMsg" -> "port" :> "_sentinel_" @@ "seq" :> 0 @@ "body" :> <<>>
       [] id = "AnsonBody" -> "uri" :> ""
       [] id = "UserReq" -> "uri" :> "" @@ "data" :> <<>>
       [] id = "int" -> 0 [] id = "string" -> "" [] id = "Port" -> "_sentinel_" [] OTHER -> <<>>]
MCPortUrl == "echo" :> "echo.less"
MCToken == {[t |-> "uint", v |-> 1], [t |-> "string", v |-> "echo"]}
====
