---- MODULE Serializer ----
(***************************************************************************)
(* The writer behind Anson::toBlock.  The C++ functions call each other    *)
(* recursively and append to one stream.  Here calls holds the activations *)
(* that write a bracket, the innermost last: the value each writes and its *)
(* local variables, pc the place it is at.  text is the stream, as tokens: *)
(* punctuation, keys (with their colon) and scalars.                       *)
(*                                                                         *)
(* A meta_any is a pair: ct, the C++ type it holds, and val, its content.  *)
(* Beside it travels id, the type the AST declares: the writer goes by id, *)
(* and finds out from ct whether the value is what was declared.           *)
(***************************************************************************)
EXTENDS AnsonSchema, SequencesExt

CONSTANTS
  OwnAst,   \* class -> the fields its own AST declares, with their type ids
  BaseAst,  \* class -> the base its AST names
  Getter,   \* class -> the names its get_field_instance answers, bases included
  NullPtr,   \* a null shared_ptr
  Unescaped, \* text -> what is read of it between quotes, if that is not the text
  Narrowed,  \* double -> the float that is read of the decimals it is written in
  Refused    \* what is read of either where that is no JSON

VARIABLES
  calls,          \* the functions that write a bracket, innermost last
  text,           \* the tokens written
  serialize_type  \* JsonOpt: whether an object begins with its type

writing == <<calls, text, serialize_type>>

Mark(m) == [t |-> "mark", v |-> m]
Comma == Mark(",")
Brace == "{"
EndBrace == "}"
Null == [t |-> "null", v |-> "null"]
Unlexable == Mark("not JSON")
KeyOf(k) == [t |-> "key", v |-> k]
Str(s) == [t |-> "string", v |-> s]

\* A text goes between quotes as it is: the lexer takes a backslash in it for
\* the beginning of an escape, and refuses control characters and what follows
\* a quote.  A map key is written likewise.
AsRead(s) == IF s \in DOMAIN Unescaped THEN Unescaped[s] ELSE s
Quoted(s) == IF AsRead(s) = Refused THEN Unlexable ELSE Str(AsRead(s))
RawKey(k) == IF AsRead(k) = Refused THEN Unlexable ELSE KeyOf(AsRead(k))
\* A double has six decimals, and is read as a float; inf and nan are no JSON.
Decimal(x) == IF Narrowed[x] = Refused THEN Unlexable ELSE [t |-> "float", v |-> Narrowed[x]]
\* An integer carries no sign in JSON unless it is negative.
Number(n) == [t |-> IF n >= 0 THEN "uint" ELSE "int", v |-> n]

-----------------------------------------------------------------------------
(* The activations.  An object's walks the chain of ASTs (at, and last for *)
(* the class's own, which comes last) and the fields of each (keys, slot). *)

Object(c, val, typed) ==
  [id |-> c, ct |-> c, val |-> val, pc |-> IF typed THEN "type" ELSE "kvs", at |-> c,
   last |-> FALSE, comma |-> FALSE, keys |-> {}, slot |-> NoKey, first |-> TRUE]
ListOf(id, ct, val) == [id |-> id, ct |-> ct, val |-> val, pc |-> "elems", next |-> 1]
MapOf(id, ct, val) == [id |-> id, ct |-> ct, val |-> val, pc |-> "entries",
                       keys |-> DOMAIN val, slot |-> NoKey, first |-> TRUE]

\* The innermost of the activations a goes on as f, without or with a token;
\* it calls f, which opens its bracket; it goes on behind the value it wrote.
Goes(a, f) == [out |-> <<>>, calls |-> [a EXCEPT ![Len(a)] = f]]
Writes(a, token, f) == [out |-> <<token>>, calls |-> [a EXCEPT ![Len(a)] = f]]
Enters(a, bracket, f) == [out |-> <<Mark(bracket)>>, calls |-> Append(a, f)]
Returned(f) == CASE f.id \in List -> [f EXCEPT !.pc = "elems", !.next = @ + 1]
                 [] f.id \in Map -> [f EXCEPT !.pc = "entries"]
                 [] OTHER -> [f EXCEPT !.pc = "fields"]

Due(pcs) == calls # <<>> /\ Last(calls).pc \in pcs
Does(move) == text' = text \o move.out /\ calls' = move.calls /\ UNCHANGED serialize_type

-----------------------------------------------------------------------------
\* An object: its type, and a comma only if its OWN class has fields.
TypeComma(c) == DOMAIN OwnAst[c] # {}
EnvelopeMove(a, f) ==
  CASE f.pc = "type" -> Writes(a, KeyOf("type"), [f EXCEPT !.pc = "type_text"])
    [] f.pc = "type_text" ->
         Writes(a, Str(f.val["type"]), [f EXCEPT !.pc = IF TypeComma(f.ct) THEN "type_comma" ELSE "kvs"])
    [] OTHER -> Writes(a, Comma, [f EXCEPT !.pc = "kvs"])
serialize_envelope ==
  Due({"type", "type_text", "type_comma"}) /\ Does(EnvelopeMove(calls, Last(calls)))

\* The fields of the base classes, the nearest first, then the class's own.
BaseOfClass(at, c) == BaseAst[c]
BaseOf(at, c) == BaseAst[at]
BaseCommaDropped(f, own) == FALSE
BaseComma(f, own) == f.comma /\ DOMAIN OwnAst[own] # {}
Shown(own, typed) == {k \in DOMAIN OwnAst[own] : typed \/ k # "type"}
KvsMove(a, f, typed) ==
  LET base == BaseOf(f.at, f.ct)
      own == IF base \in Asts THEN base ELSE f.ct
  IN IF f.pc = "kvs"
     THEN Goes(a, [f EXCEPT !.pc = IF BaseComma(f, own) THEN "base_comma" ELSE "fields",
                            !.at = IF base \in Asts THEN base ELSE @, !.last = base \notin Asts,
                            !.comma = @ \/ DOMAIN OwnAst[own] # {},
                            !.keys = Shown(own, typed), !.first = TRUE])
     ELSE Writes(a, Comma, [f EXCEPT !.pc = "fields"])
serialize_kvs ==
  Due({"kvs", "base_comma"}) /\ Does(KvsMove(calls, Last(calls), serialize_type))

\* A map iterates in the order of its keys; any one order serves here.
NextOf(keys) == CHOOSE k \in keys : TRUE
Named(a, f, k, token) ==
  Writes(a, token, [f EXCEPT !.pc = "value", !.slot = k, !.keys = @ \ {k}, !.first = FALSE])
FieldsMove(a, f) ==
  CASE f.pc = "field" -> Named(a, f, NextOf(f.keys), KeyOf(NextOf(f.keys)))
    [] f.pc = "fields" /\ f.keys = {} -> Goes(a, [f EXCEPT !.pc = IF f.last THEN "close" ELSE "kvs"])
    [] f.pc = "fields" /\ f.keys # {} /\ ~f.first -> Writes(a, Comma, [f EXCEPT !.pc = "field"])
    [] OTHER -> Goes(a, [f EXCEPT !.pc = "field"])
serialize_fields == Due({"fields", "field"}) /\ Does(FieldsMove(calls, Last(calls)))

\* The elements of a list; what is not a list is written empty.
ListMove(a, f) ==
  CASE f.next > Len(f.val) -> Goes(a, [f EXCEPT !.pc = "close"])
    [] f.next <= Len(f.val) /\ f.next > 1 -> Writes(a, Comma, [f EXCEPT !.pc = "value"])
    [] OTHER -> Goes(a, [f EXCEPT !.pc = "value"])
serialize_list == Due({"elems"}) /\ Does(ListMove(calls, Last(calls)))

\* The entries of a map: the values of a class are written WITHOUT their keys.
EnterObject(a, f, ct, val, typed) ==
  IF Kind[ct] = "object" /\ val # NullPtr THEN Enters(a, Brace, Object(ct, val, typed)) ELSE Goes(a, Returned(f))
MapMove(a, f, typed) ==
  LET k == NextOf(f.keys)
  IN CASE f.pc = "object" -> EnterObject(a, f, Elem[f.ct].id, f.val[f.slot], typed)
       [] f.pc = "entry" /\ Elem[f.id].id \in Asts ->
            Goes(a, [f EXCEPT !.pc = "object", !.slot = k, !.keys = @ \ {k}, !.first = FALSE])
       [] f.pc = "entry" /\ Elem[f.id].id \notin Asts -> Named(a, f, k, RawKey(k))
       [] f.pc = "entries" /\ f.keys = {} -> Goes(a, [f EXCEPT !.pc = "close"])
       [] f.pc = "entries" /\ f.keys # {} /\ ~f.first -> Writes(a, Comma, [f EXCEPT !.pc = "entry"])
       [] OTHER -> Goes(a, [f EXCEPT !.pc = "entry"])
serialize_map == Due({"entries", "entry", "object"}) /\ Does(MapMove(calls, Last(calls), serialize_type))

\* The end of an object, a list or a map: back to the caller.
CloseMove(a, f) ==
  [out |-> <<Mark(IF f.id \in List THEN "]" ELSE EndBrace)>>,
   calls |-> IF Len(a) = 1 THEN <<>> ELSE [Front(a) EXCEPT ![Len(a) - 1] = Returned(@)]]
close == Due({"close"}) /\ Does(CloseMove(calls, Last(calls)))

-----------------------------------------------------------------------------
\* serialize_val: what an activation has to write where it is.
Val(id, ct, val) == [id |-> id, ct |-> ct, val |-> val]

\* A field's value by the getter its class registered; without one the
\* default getter answers false, whatever the field.
get_field_instance(c, val, k, id) ==
  IF k \in Getter[c] \cup {"type"} THEN Val(id, Meta[c][k], val[k]) ELSE Val(id, "bool", FALSE)
ValueOf(f) ==
  CASE f.id \in List -> Val(Elem[f.id].id, Elem[f.ct].id, f.val[f.next])
    [] f.id \in Map -> Val(Elem[f.id].id, Elem[f.ct].id, f.val[f.slot])
    [] OTHER -> get_field_instance(f.ct, f.val, f.slot, OwnAst[IF f.last THEN f.ct ELSE f.at][f.slot])

\* A value whose declared type has an AST: an enum by name, a port by the name
\* of its url, an object by its members; a pointer as what it points to.  Any
\* other value is not written at all.
name_of(ct, val) == IF Kind[ct] = "enum" /\ val \in EnumName THEN Str(val) ELSE Str("null")
valof(url) == IF \E n \in DOMAIN PortUrl : PortUrl[n] = url
              THEN CHOOSE n \in DOMAIN PortUrl : PortUrl[n] = url ELSE url
JsonableMove(a, f, v, typed) ==
  CASE Kind[v.id] = "enum" -> Writes(a, name_of(v.ct, v.val), Returned(f))
    [] Kind[v.id] = "port" ->
         Writes(a, IF Kind[v.ct] = "port" THEN Str(valof(v.val)) ELSE Null, Returned(f))
    [] OTHER -> EnterObject(a, f, v.ct, v.val, typed)

\* A VarType, by the alternative it holds; monostate is null, and a date is
\* written without quotes: the lexer reads the year and refuses the rest.  A
\* float is cast as if it were a double, which it is not: of that no text comes.
InvalidCast(v) == Kind[v.id] = "var" /\ Kind[v.ct] = "var" /\ v.val.t = "float"
serialize_var_quoted(ct, val) ==
  CASE val.t = "int" -> Number(val.v)
    [] val.t \in {"double", "string"} -> Quoted(val.v)
    [] val.t = "date" -> Unlexable
    [] OTHER -> Null
serialize_var(ct, val) ==
  CASE Kind[ct] = "var" /\ val.t = "none" -> Null
    [] Kind[ct] = "var" /\ val.t = "int" -> Number(val.v)
    [] Kind[ct] = "var" /\ val.t = "double" -> Decimal(val.v)
    [] Kind[ct] = "var" /\ val.t = "string" -> Quoted(val.v)
    [] Kind[ct] = "var" /\ val.t \in {"float", "date"} -> Unlexable
    [] Kind[ct] = "int" -> Number(val)
    [] Kind[ct] = "string" -> Quoted(val)
    [] OTHER -> Null

SerializeError == "serialize error"

\* A scalar, when it is of the declared kind; an unknown type id gives null.
prim_token(v) ==
  LET kind == Kind[v.id]
  IN CASE kind = "var" -> serialize_var(v.ct, v.val)
       [] kind \notin {"int", "string", "bool", "var"} -> Null
       [] kind = Kind[v.ct] /\ kind = "int" -> Number(v.val)
       [] kind = Kind[v.ct] /\ kind = "bool" -> [t |-> "bool", v |-> v.val]
       [] kind = Kind[v.ct] /\ kind = "string" -> Quoted(v.val)
       [] OTHER -> Str(SerializeError)

ValMove(a, f, v, typed) ==
  CASE v.id \in List -> Enters(a, "[", ListOf(v.id, v.ct, IF v.ct \in List THEN v.val ELSE <<>>))
    [] v.id \in Map -> Enters(a, Brace, MapOf(v.id, v.ct, IF v.ct \in Map THEN v.val ELSE <<>>))
    [] v.id \in Asts \ (List \cup Map) -> JsonableMove(a, f, v, typed)
    [] OTHER -> Writes(a, prim_token(v), Returned(f))
serialize_val ==
  /\ Due({"value"}) /\ ~InvalidCast(ValueOf(Last(calls)))
  /\ Does(ValMove(calls, Last(calls), ValueOf(Last(calls)), serialize_type))

toBlock(c, val) == calls = <<Object(c, val, serialize_type)>> /\ text = <<Mark("{")>>

Serialize == \/ serialize_envelope \/ serialize_kvs \/ serialize_fields
             \/ serialize_list \/ serialize_map \/ close \/ serialize_val
====
