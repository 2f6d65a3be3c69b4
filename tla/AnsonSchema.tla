---- MODULE AnsonSchema ----
(***************************************************************************)
(* The registered types a parser works with.  EnTT's meta system gives a   *)
(* class its data members (Meta) and the context's ASTs give the same      *)
(* class its declared fields (Ast); the two are registered by hand, next   *)
(* to each other, and need not agree.  Both are the flattened tables the   *)
(* parser's lookups see (module AstLookup flattens a base chain).          *)
(*                                                                         *)
(* A C++ value carries no tag: its type is that of the member that holds   *)
(* it.  Contents are therefore untagged (an Int, a STRING, a sequence for  *)
(* a list, a function on keys for an object and for a map) and a type id   *)
(* always travels beside them, as in an entt::meta_any.                    *)
(***************************************************************************)
EXTENDS Integers, Sequences, TLC

CONSTANTS
  TypeId,     \* type ids of the schema: classes, containers and scalars
  Kind,       \* [TypeId -> Kinds]: the shape of a value of that type
  Key,        \* member names and map keys a document may use
  NoKey,      \* the entt id 0: no key is active
  NoAst,      \* the empty type id "" of a field no AST declares
  Meta,       \* class -> its EnTT data members, with their types
  Ast,        \* class -> the fields its AST declares, with their type ids
  Asts,       \* the type ids with an AST in this context
  Elem,       \* container id -> [id, ptr] of its values, as parsed from the id
  VarCtor,    \* the container ids with a registered variant constructor
  CreatePtr,  \* the classes that registered the meta function create_ptr
  Fresh,      \* [TypeId -> content] of a default-constructed value
  EnumName,   \* the names of the registered scoped enum
  Sentinel,   \* what an unknown enum name becomes
  PortUrl,    \* port name -> url, the encode map of the port AST
  RootType    \* the class of the object handed to from_json

\* "none" is the kind of an id that names no registered type.
Kinds == {"object", "list", "map", "int", "bool", "string", "var", "enum", "port", "none"}

Class == {t \in TypeId : Kind[t] = "object"}
List == {t \in TypeId : Kind[t] = "list"}
Map == {t \in TypeId : Kind[t] = "map"}

ASSUME SchemaAssumption ==
  /\ Kind \in [TypeId -> Kinds]
  /\ NoAst \notin TypeId
  /\ NoKey \notin Key
  /\ RootType \in Class
  /\ DOMAIN Meta = Class /\ DOMAIN Ast = Class
  /\ \A c \in Class : /\ DOMAIN Meta[c] \subseteq Key
                      /\ \A k \in DOMAIN Meta[c] : Meta[c][k] \in TypeId
                      /\ \A k \in DOMAIN Ast[c] : Ast[c][k] \in TypeId
  /\ Elem \in [List \cup Map -> [id : TypeId, ptr : BOOLEAN]]
  /\ Asts \subseteq TypeId /\ Asts \cap Map = {}  \* createAST takes a class
  /\ VarCtor \subseteq TypeId
  /\ CreatePtr \subseteq Class
  /\ DOMAIN Fresh = TypeId

\* A container is made empty; the members of a new object that are themselves
\* objects or containers are made with it, by their own constructors.
ASSUME FreshAssumption ==
  /\ \A t \in List \cup Map : Fresh[t] = <<>>
  /\ \A c \in Class :
       /\ Fresh[c] = [k \in DOMAIN Meta[c] |-> Fresh[c][k]]
       /\ \A k \in DOMAIN Meta[c] :
            Meta[c][k] \in Class \cup List \cup Map => Fresh[c][k] = Fresh[Meta[c][k]]

\* The type a field has in EnTT, and the id its class's AST declares for it.
find_field_recursive(t, k) == t \in Class /\ k \in DOMAIN Meta[t]
find_field_astid(t, k) == IF t \in Class /\ t \in Asts /\ k \in DOMAIN Ast[t]
                          THEN Ast[t][k] ELSE NoAst

\* The value type read off a container's type id; any other id stands for itself.
parseListValtype(id) == IF id \in List THEN Elem[id] ELSE [id |-> id, ptr |-> FALSE]
parseMapValtype(id) == IF id \in Map THEN Elem[id] ELSE [id |-> id, ptr |-> FALSE]

\* C++ arithmetic conversions of a JSON scalar; floats are written in halves.
AsInt(tok) ==
  CASE tok.t = "float" -> IF tok.v >= 0 THEN tok.v \div 2 ELSE -((-tok.v) \div 2)
    [] tok.t = "bool" -> IF tok.v THEN 1 ELSE 0
    [] OTHER -> tok.v
AsBool(tok) == IF tok.t = "bool" THEN tok.v ELSE tok.v # 0

\* Whether EnTT converts a scalar to type id: arithmetic types convert into
\* each other, a string only to a string.
Castable(id, tok) == \/ Kind[id] \in {"int", "bool"} /\ tok.t # "string"
                     \/ Kind[id] = "string" /\ tok.t = "string"
Cast(id, tok) == CASE Kind[id] = "int" -> AsInt(tok)
                   [] Kind[id] = "bool" -> AsBool(tok)
                   [] OTHER -> tok.v

\* A port or an enum member is set from the scalar's text.
TextOf(tok) == IF tok.t = "string" THEN tok.v ELSE ToString(tok.v)
EnumOf(tok) == IF TextOf(tok) \in EnumName THEN TextOf(tok) ELSE Sentinel
PortOf(tok) == IF TextOf(tok) \in DOMAIN PortUrl THEN PortUrl[TextOf(tok)] ELSE TextOf(tok)

\* The VarType a scalar becomes inside a container of variants: an integer
\* the lexer read as unsigned has no alternative in VarType and is written
\* out as a string; bool is promoted to int.
VarOf(tok) == CASE tok.t = "uint" -> [t |-> "string", v |-> ToString(tok.v)]
                [] tok.t = "bool" -> [t |-> "int", v |-> AsInt(tok)]
                [] OTHER -> tok

\* A scalar inserted into a container whose values have type id.
ElemCastable(id, tok) == Kind[id] = "var" \/ Castable(id, tok)
ElemCast(id, tok) == IF Kind[id] = "var" THEN VarOf(tok) ELSE Cast(id, tok)
====
