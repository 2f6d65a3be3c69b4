---- MODULE MCSaxPage ----
(***************************************************************************)
(* The parser on a DocsResp (tests/t11_docstier.cpp): a result set with    *)
(* rows of variants, nested objects, and a map of lists of variants whose  *)
(* keys are also the names of members.                                     *)
(***************************************************************************)
EXTENDS SaxRefinement

Rows == "list<list<VarType"
Row == "list<VarType"
Paths == "map<string, list<VarType"
RsList == "list<AnResultset"

MCTypeId == {"DocsResp", "PathsPage", "AnResultset", Rows, Row, Paths, RsList, "int", "VarType"}
MCKind == [id \in MCTypeId |->
             CASE id \in {"DocsResp", "PathsPage", "AnResultset"} -> "object"
               [] id \in {Rows, Row, RsList} -> "list" [] id = Paths -> "map"
               [] id = "VarType" -> "var" [] OTHER -> id]
MCKey == {"syncingPage", "clientPaths", "rs", "rows"}
MCMeta == "DocsResp" :> ("syncingPage" :> "PathsPage" @@ "rs" :> RsList)
          @@ "PathsPage" :> ("clientPaths" :> Paths)
          @@ "AnResultset" :> ("rows" :> Rows)
MCAsts == {"DocsResp", "PathsPage", "AnResultset"}
MCElem == Rows :> [id |-> Row, ptr |-> FALSE] @@ Row :> [id |-> "VarType", ptr |-> FALSE]
          @@ Paths :> [id |-> Row, ptr |-> FALSE] @@ RsList :> [id |-> "AnResultset", ptr |-> FALSE]
EmptyPage == "clientPaths" :> <<>>
MCFresh ==
  [id \in MCTypeId |->
     CASE id = "DocsResp" -> "syncingPage" :> EmptyPage @@ "rs" :> <<>>
       [] id = "PathsPage" -> EmptyPage
       [] id = "AnResultset" -> "rows" :> <<>>
       [] id = "int" -> 0 [] OTHER -> <<>>]
MCPortUrl == <<>>
MCToken == {[t |-> "uint", v |-> 0], [t |-> "float", v |-> 3]}
====
