---- MODULE MCSaxUpdate ----
(***************************************************************************)
(* The parser on any document at all, read into an AnUpdateReq as          *)
(* setup_jserv_crud registers it: "where" has a misspelt type id in the    *)
(* AST, postUpds is a list of the class itself, "header" is registered     *)
(* nowhere, and limt stands for the scalar members.                        *)
(***************************************************************************)
EXTENDS SaxParser

Conds == "list<list<VarType"
Cond == "list<VarType"
Misspelt == "list<list<VarTypae>"
MisspeltElem == "list<VarTypae>"
Upds == "list<AnUpdateReq"

MCTypeId == {"AnUpdateReq", Conds, Cond, Misspelt, MisspeltElem, Upds, "VarType", "int"}
MCKind == [id \in MCTypeId |->
             CASE id = "AnUpdateReq" -> "object" [] id \in {Conds, Cond, Misspelt, Upds} -> "list"
               [] id = "VarType" -> "var" [] id = MisspeltElem -> "none" [] OTHER -> id]
MCKey == {"nvs", "where", "postUpds", "limt", "header"}
MCMeta == "AnUpdateReq" :> ("nvs" :> Conds @@ "where" :> Conds @@ "postUpds" :> Upds @@ "limt" :> "int")
MCAst == "AnUpdateReq" :> ("nvs" :> Conds @@ "where" :> Misspelt @@ "postUpds" :> Upds @@ "limt" :> "int")
MCElem == Conds :> [id |-> Cond, ptr |-> FALSE] @@ Cond :> [id |-> "VarType", ptr |-> FALSE]
          @@ Misspelt :> [id |-> MisspeltElem, ptr |-> FALSE]
          @@ Upds :> [id |-> "AnUpdateReq", ptr |-> FALSE]
MCFresh == [id \in MCTypeId |->
              CASE id = "AnUpdateReq" -> "nvs" :> <<>> @@ "where" :> <<>> @@ "postUpds" :> <<>> @@ "limt" :> 0
                [] id = "int" -> 0 [] OTHER -> <<>>]
MCPortUrl == <<>>
MCToken == {[t |-> "uint", v |-> 1]}
====
