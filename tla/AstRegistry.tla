---- MODULE AstRegistry ----
(***************************************************************************)
(* The ASTs a program registers, and what refers to them.  An AstMap owns  *)
(* its ASTs; a JsonOpt (a context) refers to the AstMap it was made with   *)
(* and keeps its own polymorph aliases.  Raw pointers lead the other way:  *)
(* the get_field_instance of an AST captures the context it was registered *)
(* with, and an enum points to the AST of its class.                       *)
(*                                                                         *)
(* An AST is identified by its map, its id and the number of the           *)
(* registration that made it; one that was replaced has been freed.        *)
(***************************************************************************)
EXTENDS JavaEnum

CONSTANTS
  Ctx,          \* the contexts of the program, each made and destroyed once
  NoCtx,        \* what an AST captures that captures no context
  AstMap,       \* the AST maps, which outlive the contexts
  MapOf,        \* context -> the AST map it was made with
  Id,           \* AST ids
  Created,      \* ids register_jserv makes with createAST: replaced if there
  Kept,         \* ids it makes with body_specialize_msg: kept if there
  Capturing,    \* ids whose get_field_instance captures the context
  MsgOf,        \* the application's body ids -> the id of their messages
  AppLoaded,    \* ids of the AST files the application reads by load_ast
  Port,         \* the port class register_jserv registers
  EnumSlot,     \* the enum variables of the program
  Text,         \* the strings it makes enums of
  Compared,     \* the strings it compares enums with
  Reregisters,  \* BOOLEAN: it registers into a map what is there already
  Successive,   \* BOOLEAN: contexts of one map are made one after another
  MaxRegs       \* bound: registrations

VARIABLES
  contexts,   \* context -> "unborn", "open" or "gone"
  asts,       \* map -> the ASTs in it: id -> [reg, ctx, blanks]
  polymorphs, \* context -> the class JavaEnum is an alias of
  nregs,      \* registrations so far
  enums       \* enum variable -> its value

vars == <<contexts, asts, polymorphs, nregs, enums>>

NoMap == "no map"
NoPort == "no port"
Null == [cls |-> NoPort, map |-> NoMap, reg |-> 0, url |-> Blank, said |-> Blank]

ASSUME RegistryAssumption ==
  /\ MapOf \in [Ctx -> AstMap] /\ NoCtx \notin Ctx
  /\ PortClass \subseteq Id /\ NoPort \notin PortClass /\ NoMap \notin AstMap
  /\ Port \in Created /\ Port \in PortClass
  /\ Created \subseteq Id /\ Kept \subseteq Id /\ Capturing \subseteq Id
  /\ DOMAIN MsgOf \subseteq Id \ PortClass
  /\ \A id \in DOMAIN MsgOf : MsgOf[id] \in Id \ PortClass
  /\ AppLoaded \subseteq Id \ PortClass
  /\ PortClass \cap Capturing = {}
  /\ Reregisters \in BOOLEAN /\ Successive \in BOOLEAN
  /\ MaxRegs \in Nat

-----------------------------------------------------------------------------
Ast == [reg : 1..MaxRegs, ctx : Ctx \cup {NoCtx}, blanks : SUBSET Compared]

Open(c) == contexts[c] = "open"
\* has_ast
Has(c, id) == id \in DOMAIN asts[MapOf[c]]
IsSet(e) == e # Null

\* The AST of id that the registration under way makes, capturing c.
NewAst(id, c) == [reg |-> nregs + 1, ctx |-> IF id \in Capturing THEN c ELSE NoCtx,
                  blanks |-> {}]

\* What map m holds when new ASTs of the ids in made replace those of the
\* same id, and of the ids in kept are added where there is none.
RegisteredOnce(m, c, made, kept) ==
  [id \in DOMAIN asts[m] \cup made \cup kept |->
     IF id \in DOMAIN asts[m] THEN asts[m][id] ELSE NewAst(id, c)]
Registered(m, c, made, kept) ==
  [id \in DOMAIN asts[m] \cup made \cup kept |->
     IF id \in made \/ id \notin DOMAIN asts[m] THEN NewAst(id, c) ELSE asts[m][id]]

Register(m, c, made, kept) ==
  /\ nregs < MaxRegs
  /\ nregs' = nregs + 1
  /\ asts' = [asts EXCEPT ![m] = Registered(m, c, made, kept)]

register_polymorph_swapped(c, p) == polymorphs' = [polymorphs EXCEPT ![c] = "JavaEnum"]
register_polymorph(c, p) == polymorphs' = [polymorphs EXCEPT ![c] = p]

\* A JsonOpt is made, or destroyed; the AST map is not its own.
make_context(c) ==
  /\ contexts[c] = "unborn"
  /\ Successive => \A d \in Ctx : MapOf[d] = MapOf[c] => ~Open(d)
  /\ contexts' = [contexts EXCEPT ![c] = "open"]
  /\ UNCHANGED <<asts, polymorphs, nregs, enums>>
destroy_context(c) ==
  /\ Open(c)
  /\ contexts' = [contexts EXCEPT ![c] = "gone"]
  /\ UNCHANGED <<asts, polymorphs, nregs, enums>>

\* register_jserv: register_asts, register_msgs, register_enums, register_port,
\* specialize_respmsg, setup_jserv_crud, load_usereqAst_ext, load_echoAst_ext
\* and register_peersettings, one after the other.
register_jserv(c) ==
  /\ Open(c)
  /\ DOMAIN asts[MapOf[c]] # {} => Reregisters
  /\ Register(MapOf[c], c, Created, Kept)
  /\ register_polymorph(c, Port)
  /\ UNCHANGED <<contexts, enums>>

\* register_iport: the AST file of a port class of the application.
register_iport(c, p) ==
  /\ Open(c) /\ p # Port
  /\ DOMAIN asts[MapOf[c]] # {}
  /\ Has(c, p) => Reregisters
  /\ Register(MapOf[c], c, {p}, {})
  /\ register_polymorph(c, p)
  /\ UNCHANGED <<contexts, enums>>

\* The ids of the ASTs specialize_req makes for the message body id.
specialize_req(id) == {MsgOf[id]}

\* specialize_msg_astpth: the AST file of a message body.  The body's AST
\* stays the one that is there; the message's is replaced.
specialize_msg_astpth(c, id) ==
  /\ Open(c)
  /\ DOMAIN asts[MapOf[c]] # {}
  /\ Register(MapOf[c], c, specialize_req(id), {id})
  /\ UNCHANGED <<contexts, polymorphs, enums>>

\* load_ast: an AST file; one whose id is registered is ignored.
LoadedOver(m, id) == Register(m, NoCtx, {id}, {})
Loaded(m, id) == Register(m, NoCtx, {}, {id})
load_ast(c, id) ==
  /\ Open(c)
  /\ DOMAIN asts[MapOf[c]] # {}
  /\ id \in AppLoaded \/ Has(c, id)
  /\ Loaded(MapOf[c], id)
  /\ UNCHANGED <<contexts, polymorphs, enums>>

-----------------------------------------------------------------------------
\* The AST that e points to is still there.
Points(e) == /\ e.map \in AstMap /\ e.cls \in DOMAIN asts[e.map]
             /\ asts[e.map][e.cls].reg = e.reg

\* An enum of class p made of the text x in context c.  said remembers what
\* it was made of.
Made(c, p, x) ==
  LET ast == asts[MapOf[c]][p]
  IN [cls |-> p, map |-> MapOf[c], reg |-> ast.reg, url |-> UrlOf(p, ast.blanks, x),
      said |-> NameOfText(p, x)]

\* Port(ctx, x): the AST is looked up by the class's own id.
construct(c, p, x, s) ==
  /\ Open(c)
  /\ Has(c, p)
  /\ enums' = [enums EXCEPT ![s] = Made(c, p, x)]
  /\ UNCHANGED <<contexts, asts, polymorphs, nregs>>

\* from_json of a message, whose port is a JavaEnum: it is made by the class
\* JavaEnum is an alias of, and stays as it is when there is none.
read_port(c, x, s) ==
  /\ Open(c) /\ DOMAIN asts[MapOf[c]] # {}
  /\ polymorphs[c] # NoPort /\ Has(c, polymorphs[c])
  /\ enums' = [enums EXCEPT ![s] = Made(c, polymorphs[c], x)]
  /\ UNCHANGED <<contexts, asts, polymorphs, nregs>>

\* JavaEnum's assignment takes the AST along with the url; cls is the class of
\* that AST (anclass, the variable's own, is not copied and not read here).
AssignedUrl(e, f) == [e EXCEPT !.url = f.url, !.said = f.said]
Assigned(e, f) == f
assign(s, t) ==
  /\ IsSet(enums[s]) /\ IsSet(enums[t])
  /\ enums' = [enums EXCEPT ![s] = Assigned(enums[s], enums[t])]
  /\ UNCHANGED <<contexts, asts, polymorphs, nregs>>

\* operator==(string) reads encode[x], which makes a blank entry for a name
\* the table does not have.
BlanksAfter(p, blanks, x) == IF x \in DOMAIN Encode[p] THEN blanks ELSE blanks \cup {x}
compare(s, x) ==
  LET e == enums[s]
  IN /\ IsSet(e) /\ Points(e)
     /\ asts' = [asts EXCEPT ![e.map][e.cls].blanks = BlanksAfter(e.cls, @, x)]
     /\ UNCHANGED <<contexts, polymorphs, nregs, enums>>

-----------------------------------------------------------------------------
Init ==
  /\ contexts = [c \in Ctx |-> "unborn"]
  /\ asts = [m \in AstMap |-> [id \in {} |-> Null]]
  /\ polymorphs = [c \in Ctx |-> NoPort]
  /\ nregs = 0
  /\ enums = [s \in EnumSlot |-> Null]

ContextStep(c) ==
  \/ make_context(c)
  \/ destroy_context(c)
  \/ register_jserv(c)
  \/ \E p \in PortClass : register_iport(c, p)
  \/ \E id \in DOMAIN MsgOf : specialize_msg_astpth(c, id)
  \/ \E id \in Id : load_ast(c, id)

EnumStep(s) ==
  \/ \E c \in Ctx, x \in Text : \/ \E p \in PortClass : construct(c, p, x, s)
                                \/ read_port(c, x, s)
  \/ \E t \in EnumSlot \ {s} : assign(s, t)
  \/ \E x \in Compared : compare(s, x)

Next == (\E c \in Ctx : ContextStep(c)) \/ (\E s \in EnumSlot : EnumStep(s))
Spec == Init /\ [][Next]_vars

-----------------------------------------------------------------------------
EnumValue == [cls : PortClass, map : AstMap, reg : 1..MaxRegs,
              url : Text \cup {Blank} \cup UNION {{Encode[p][x] : x \in DOMAIN Encode[p]} : p \in PortClass},
              said : Text \cup UNION {{Decode[p][u] : u \in DOMAIN Decode[p]} : p \in PortClass}]

\* The types of the state: an AST's registration and blanks, an enum's url
\* and AST.  An AST of a port class captures no context.
TypeOK ==
  /\ contexts \in [Ctx -> {"unborn", "open", "gone"}]
  /\ polymorphs \in [Ctx -> PortClass \cup {NoPort}]
  /\ nregs \in 0..MaxRegs
  /\ DOMAIN asts = AstMap
  /\ \A m \in AstMap : /\ DOMAIN asts[m] \subseteq Id
                       /\ \A id \in DOMAIN asts[m] : asts[m][id] \in Ast
  /\ enums \in [EnumSlot -> EnumValue \cup {Null}]

\* Every enum of the program points to the AST of its class, as long as the
\* program registers into a map only what is not there: loading an AST file
\* again, or specializing a message, leaves alone what an enum refers to.
EnumsPoint == \A s \in EnumSlot : IsSet(enums[s]) => Points(enums[s])

\* The AST of id in map m asks a context that was destroyed for the fields of
\* its base class.
AsksGone(m, id) == LET d == asts[m][id].ctx IN d # NoCtx /\ ~Open(d)

\* Context c has registered the protocol (and no port class of its own since).
Serving(c) == Open(c) /\ polymorphs[c] = Port

\* Message bodies, and the messages that are made for them.
Messages == Kept \cup DOMAIN MsgOf \cup {MsgOf[id] : id \in DOMAIN MsgOf}

\* When contexts have one map, one after another, and each registers the
\* protocol anew, what the second serializes may ask the first, which is gone:
\* body_specialize_msg keeps the AST of a message body with the context that
\* captured (json.h:727).  The damage is bounded: only message bodies, and
\* messages register_jserv does not make again, do, in whatever order AST files
\* are read, bodies specialized and port classes registered before and after.
OnlyMessagesDangle ==
  \A c \in Ctx : Serving(c) =>
    \A id \in DOMAIN asts[MapOf[c]] : AsksGone(MapOf[c], id) => id \in Messages \ Created

\* An enum prints the name of what it was made of, whichever class the
\* variable was of before: assigning takes the table along with the url, and
\* loading, specializing and comparing with texts the table has leave it be.
PrintsItsName ==
  \A s \in EnumSlot : IsSet(enums[s]) => NameOfUrl(enums[s].cls, enums[s].url) = enums[s].said

\* An enum made of "na", the text of a port that was not given, is "na",
\* though the program asked of another whether it is.
NaStaysNa == \A s \in EnumSlot : enums[s].said = "na" => enums[s].url = "na"
====
