---- MODULE JservRegistry ----
(***************************************************************************)
(* register_jserv and the registrations an application adds to it, run     *)
(* function by function for several contexts.  Each context has its own    *)
(* ASTs; EnTT's types and the container constructors belong to the process *)
(* and serve all of them, so that one context's types are looked up while  *)
(* another is being set up.                                                *)
(***************************************************************************)
EXTENDS JservTypes, FiniteSets

CONSTANT Ctx

VARIABLES
  turn,      \* [Ctx -> Nat]: the register function that is next
  asts,      \* [Ctx -> [id -> an AST]]
  aliases,   \* [Ctx -> polymorphs]: JavaEnum stands for the last port class
  entt,      \* id -> the EnTT type registered under it
  var_ctors  \* the container ids with a constructor

vars == <<turn, asts, aliases, entt, var_ctors>>

Init == /\ turn = [c \in Ctx |-> 1]
        /\ asts = [c \in Ctx |-> <<>>]
        /\ aliases = [c \in Ctx |-> {}]
        /\ entt = <<>>
        /\ var_ctors = {}

AstOf(class) == [base |-> class.base, fields |-> class.fields,
                 answers |-> class.answers, asks_base |-> class.asks_base]
EnttOf(class) == [base |-> class.entt_base, data |-> class.data, create_ptr |-> class.create_ptr]

\* createAST and meta_factory for each of the classes; a later registration
\* of an id replaces an earlier one.
Ids(classes) == {classes[i].id : i \in DOMAIN classes}
LastOf(classes, id) == classes[CHOOSE i \in DOMAIN classes : classes[i].id = id]
AstsOf(classes) == [id \in Ids(classes) |-> AstOf(LastOf(classes, id))]
InstallAsts(c, classes) == asts' = [asts EXCEPT ![c] = Replacing(@, AstsOf(classes))]
InstallTypes(classes) ==
  entt' = Replacing(entt, [id \in Ids(classes) |-> EnttOf(LastOf(classes, id))])
Install(c, classes) == /\ InstallAsts(c, classes) /\ InstallTypes(classes)
                       /\ UNCHANGED <<aliases, var_ctors>>

\* A class whose AST is a text, read into an AnsonBodyAst: at the member
\* fields the parser indexes the registered AST of AnsonBodyAst with
\* operator[], which inserts a field of a blank type.
IndexFields(fields) == Replacing([fields |-> NoType], fields)
ReadText(registered) == [registered EXCEPT !["AnsonBodyAst"].fields = IndexFields(@)]
Load(c, classes) == /\ asts' = [asts EXCEPT ![c] = Replacing(ReadText(@), AstsOf(classes))]
                    /\ InstallTypes(classes)
                    /\ UNCHANGED <<aliases, var_ctors>>

MsgCode == ReadOnly(Class("MsgCode", "", <<>>))
Port == ReadOnly(Class("Port", "JavaEnum", <<>>))

\* The functions in the order register_jserv calls them, then register_semantier's.
script_crud_first ==
  <<"varctors", "asts", "crud", "msgs", "enums", "port", "respmsg", "usereq", "echo",
    "peersettings", "heartbeat", "sessionreq", "sessionresp">>
script == <<"varctors", "asts", "msgs", "enums", "port", "respmsg", "crud", "usereq", "echo",
            "peersettings", "heartbeat", "sessionreq", "sessionresp">>
JservDone(c) == turn[c] > 10
Turn(c, step) == /\ turn[c] \in DOMAIN script /\ script[turn[c]] = step
                 /\ turn' = [turn EXCEPT ![c] = @ + 1]

register_varctors(c) == /\ Turn(c, "varctors")
                        /\ var_ctors' = var_ctors \cup ctors_of_register_varctors
                        /\ UNCHANGED <<asts, aliases, entt>>
register_asts(c) == Turn(c, "asts") /\ Install(c, classes_of_register_asts)
register_msgs(c) == Turn(c, "msgs") /\ Install(c, classes_of_register_msgs)
\* An AST only: MsgCode has no EnTT type.
register_enums(c) == /\ Turn(c, "enums") /\ InstallAsts(c, <<MsgCode>>)
                     /\ UNCHANGED <<aliases, entt, var_ctors>>
register_port(c) ==
  /\ Turn(c, "port")
  /\ InstallAsts(c, <<Port>>) /\ InstallTypes(<<Port>>)
  /\ aliases' = [aliases EXCEPT ![c] = @ \cup {"JavaEnum"}]
  /\ UNCHANGED var_ctors
specialize_respmsg(c) == Turn(c, "respmsg") /\ Install(c, classes_of_specialize_respmsg)
setup_jserv_crud(c) == Turn(c, "crud") /\ Install(c, classes_of_setup_jserv_crud)
load_usereqAst_ext(c) == Turn(c, "usereq") /\ Load(c, classes_of_load_usereqAst_ext)
load_echoAst_ext(c) == Turn(c, "echo") /\ Load(c, classes_of_load_echoAst_ext)
register_peersettings(c) == Turn(c, "peersettings") /\ Install(c, classes_of_register_peersettings)
load_heartbeatAst(c) == Turn(c, "heartbeat") /\ Load(c, classes_of_load_heartbeatAst)
load_ansessionreqAst(c) == Turn(c, "sessionreq") /\ Load(c, classes_of_load_ansessionreqAst)
load_ansessionrespAst(c) == Turn(c, "sessionresp") /\ Load(c, classes_of_load_ansessionrespAst)

\* An AST file that is missing ends register_semantier with an exception:
\* what it loaded before stays.
missing_ast_file(c) ==
  /\ JservDone(c) /\ turn[c] \in DOMAIN script
  /\ turn' = [turn EXCEPT ![c] = Len(script) + 1]
  /\ UNCHANGED <<asts, aliases, entt, var_ctors>>

register_langstringAst(c) ==
  /\ JservDone(c) /\ "LangString" \notin DOMAIN asts[c]
  /\ Install(c, classes_of_register_langstringAst)
  /\ UNCHANGED turn

Next == \E c \in Ctx :
  \/ register_varctors(c) \/ register_asts(c) \/ register_msgs(c) \/ register_enums(c)
  \/ register_port(c) \/ specialize_respmsg(c) \/ setup_jserv_crud(c)
  \/ load_usereqAst_ext(c) \/ load_echoAst_ext(c) \/ register_peersettings(c)
  \/ load_heartbeatAst(c) \/ load_ansessionreqAst(c) \/ load_ansessionrespAst(c)
  \/ missing_ast_file(c) \/ register_langstringAst(c)

Spec == Init /\ [][Next]_vars

-----------------------------------------------------------------------------
\* The lookups: along an AST's bases, along an EnTT type's bases, and which
\* getter answers: the class's, or its base's unless the class's does not ask.
Bases(table_of) == [id \in DOMAIN table_of |-> table_of[id].base]
FieldsOf(astmap) == Inherited([id \in DOMAIN astmap |-> astmap[id].fields], Bases(astmap))
Fields(c, id) == FieldsOf(asts[c])[id]
DataOf(types) == Inherited([id \in DOMAIN types |-> types[id].data], Bases(types))
Data(id) == DataOf(entt)[id]
AnswersOf(astmap) ==
  Inherited([id \in DOMAIN astmap |-> [k \in astmap[id].answers |-> id]],
            [id \in DOMAIN astmap |-> IF astmap[id].asks_base THEN astmap[id].base ELSE ""])
Answered(c, id) == DOMAIN AnswersOf(asts[c])[id]

Known(c) == DOMAIN asts[c] \cup aliases[c]
Lookup(c, id, k) == IF k \in DOMAIN Fields(c, id) THEN Fields(c, id)[k] ELSE NoType
Declared(c) ==
  {f \in UNION {{id} \X (DOMAIN Fields(c, id)) : id \in DOMAIN asts[c]} : Lookup(c, f[1], f[2]) # NoType}
Registered(c, some) == {x \in some : x[1] \in DOMAIN asts[c]}
AstClasses == {"AnsonField", "SemanExpr", "AnCtor", "AnsonAst", "AnsonJavaEnumAst", "AnsonBodyAst", "AnsonMsgAst"}

\* json.h:89-92: "Please register the base first."  Whatever the progress of
\* the contexts, an AST that names a base can reach it in its own context.
BasesRegistered ==
  \A c \in Ctx : \A id \in DOMAIN asts[c] : asts[c][id].base \in Known(c) \cup {""}

\* What a lookup answers of a registered class stays so, whatever is registered
\* or read afterwards: the blank that reading a text inserts (anserializer.h:608)
\* hides nothing a base declares, and no base comes after its class.
LookupsStay ==
  [][\A c \in Ctx : \A id \in DOMAIN asts[c] :
       \A k \in DOMAIN Fields(c, id) \cup DOMAIN Fields(c, id)' :
         Lookup(c, id, k)' = Lookup(c, id, k)]_vars

\* A field that an AST declares, for the class itself or through a base, is a
\* member of the EnTT type the parser finds, of the type declared.  These are
\* all the exceptions; the parser drops or refuses what comes in for them,
\* save the scalars of an argument list.
Misdeclared ==
  {<<"SemanExpr", "args">>, <<"SemanExpr", "semantics">>,
   <<"AnCtor", "stype">>, <<"AnCtor", "semantics">>,
   <<"SemanticObject", "data">>, <<"AnsonResp", "map">>, <<"AnSessionResp", "map">>}
  \cup {"AnUpdateReq", "AnInsertReq"} \X {"cols", "where"}
Held(c, f) == LET id == f[1]  k == f[2]
              IN /\ id \in DOMAIN entt /\ k \in DOMAIN Data(id)
                 /\ Data(id)[k] = Cpp(Fields(c, id)[k])
DeclaredAsHeld ==
  \A c \in Ctx : {f \in Declared(c) : ~Held(c, f)} = Registered(c, Misdeclared)

\* What start_array and start_object need of a declared type: constructors of
\* the containers it holds, an AST of its classes, and of those it points to
\* an EnTT type with create_ptr too.
Constructible(c, declared) ==
  LET ok[n \in 0..3] ==  \* n: the containers a type can still hold
        [t \in {SubSeq(declared, i, Len(declared)) : i \in DOMAIN declared} |->
           LET elem == IF Head(t) = "list" THEN parseListValtype(t) ELSE parseMapValtype(t)
           IN IF Head(t) \notin {"list", "map"} THEN CppWord(Head(t)) \in Prim \cup Known(c)
              ELSE /\ n > 0 /\ ok[n - 1][elem.id]
                   /\ Head(elem.id) = "list" => elem.id \in var_ctors
                   /\ elem.ptr => elem.id[1] \in DOMAIN entt /\ entt[elem.id[1]].create_ptr]
  IN ok[3][declared]

\* A context that is set up can construct whatever its ASTs declare, but for
\* the element type misspelt in AnUpdateReq.where (entt_jserv.h:178).
DeclaredConstructible ==
  \A c \in Ctx : JservDone(c) =>
    {f \in Declared(c) : ~Constructible(c, Fields(c, f[1])[f[2]])}
      = Registered(c, {"AnUpdateReq", "AnInsertReq"} \X {"where"})

\* A declared field can be written: the getter of its class answers it.  The
\* ASTs' own ASTs are only read; SemanticObject has no getter (json.h:399).
DeclaredAnswered ==
  \A c \in Ctx : {f \in Declared(c) : f[2] \notin Answered(c, f[1]) /\ f[1] \notin AstClasses}
                   = Registered(c, {<<"SemanticObject", "data">>})

\* The writer separates inherited fields from the type by a comma only if the
\* class has fields of its own (anserializer.h:349): one class only inherits.
OnlyInsertOnlyInherits ==
  \A c \in Ctx : {id \in DOMAIN asts[c] \ AstClasses :
                    DOMAIN asts[c][id].fields = {} /\ DOMAIN Fields(c, id) # {}}
                   = {"AnInsertReq"} \cap DOMAIN asts[c]
====
