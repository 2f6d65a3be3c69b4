---- MODULE MCSaxAst ----
(***************************************************************************)
(* The parser loading an AST file: the fields of a class, a map of         *)
(* AnsonField objects, and constructor semantics.  SemanExpr.args is a      *)
(* list of strings in C++ and declared as a list of SemanExpr, and AnCtor   *)
(* inherits from SemanExpr in its AST but not in EnTT.                      *)
(***************************************************************************)
EXTENDS SaxRefinement

L == INSTANCE AstLookup

Fields == "map<string,AnsonField"
Exprs == "list<SemanExpr"
Ctors == "list<AnCtor"
Strings == "list<string"

MCTypeId == {"AnsonAst", "AnsonField", "AnCtor", "SemanExpr", Fields, Exprs, Ctors, Strings, "string"}
MCKind == [id \in MCTypeId |->
             CASE id \in {"AnsonAst", "AnsonField", "AnCtor", "SemanExpr"} -> "object"
               [] id = Fields -> "map" [] id \in {Exprs, Ctors, Strings} -> "list" [] OTHER -> id]
MCKey == {"fields", "dataAnclass", "ctorsemantics", "base", "args"}
Members(exprArgs) ==
  "AnsonAst" :> ("fields" :> Fields @@ "ctorsemantics" :> Ctors @@ "dataAnclass" :> "string")
  @@ "AnsonField" :> ("dataAnclass" :> "string")
  @@ "SemanExpr" :> ("args" :> exprArgs)
  @@ "AnCtor" :> ("base" :> "SemanExpr" @@ "args" :> Exprs)
Bases(ctorBase) == "AnsonAst" :> "Anson" @@ "AnsonField" :> "" @@ "SemanExpr" :> "Semantics"
                   @@ "AnCtor" :> ctorBase
MCMeta == L!Inherited(Members(Strings), Bases("Anson"))
MCAst == L!Inherited(Members(Exprs), Bases("SemanExpr"))
MCAsts == {"AnsonAst", "AnsonField", "AnCtor", "SemanExpr"}
MCElem == Fields :> [id |-> "AnsonField", ptr |-> FALSE] @@ Exprs :> [id |-> "SemanExpr", ptr |-> FALSE]
          @@ Ctors :> [id |-> "AnCtor", ptr |-> FALSE] @@ Strings :> [id |-> "string", ptr |-> FALSE]
EmptyExpr == "args" :> <<>>
MCFresh ==
  [id \in MCTypeId |->
     CASE id = "AnsonAst" -> "fields" :> <<>> @@ "ctorsemantics" :> <<>> @@ "dataAnclass" :> ""
       [] id = "AnsonField" -> "dataAnclass" :> ""
       [] id = "SemanExpr" -> EmptyExpr
       [] id = "AnCtor" -> "base" :> EmptyExpr @@ "args" :> <<>>
       [] id = "string" -> "" [] OTHER -> <<>>]
MCPortUrl == <<>>
MCToken == {[t |-> "string", v |-> "int"], [t |-> "string", v |-> "list<string"]}
====
