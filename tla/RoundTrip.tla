---- MODULE RoundTrip ----
(***************************************************************************)
(* An object written by toBlock and read by from_json into a fresh object  *)
(* of its class, as a message travels between two peers with the same      *)
(* registrations: the writer of Serializer and the parser of SaxParser,    *)
(* joined by the text.  Here the lexer has a text to read, and refuses     *)
(* what JSON's grammar does not allow next; SaxEvents' own brackets say    *)
(* where a value is due, sep where a comma is.                             *)
(***************************************************************************)
EXTENDS SaxParser, Serializer

CONSTANTS
  Content,  \* type id -> the contents of that type there may be
  Objects   \* the objects written, contents of RootType

VARIABLES
  obj,  \* the object written
  pos,  \* the next token of text to read
  sep   \* "open" | "given" | "comma" | "colon": what was read last

peer == <<writing, obj>>
allvars == <<vars, peer, pos, sep>>

\* The fields of the classes above c.
FieldsAbove(c) == IF BaseAst[c] \in Asts THEN DOMAIN Ast[BaseAst[c]] ELSE {}

\* The registrations of the classes that travel: ASTs and EnTT types agree, no
\* AST declares a field of its base again or the type, which toBlock writes
\* itself; only containers lack a getter; variants are elements, and enums,
\* ports and maps are members.  What register_jserv registers is so, but for
\* what the properties of JservRegistry list.
ASSUME WriterAssumption ==
  /\ DOMAIN OwnAst = Class /\ DOMAIN BaseAst = Class /\ DOMAIN Getter = Class
  /\ Asts = {t \in TypeId : Kind[t] \in {"object", "enum", "port"}}
  /\ \A c \in Class :
       /\ Getter[c] \subseteq DOMAIN Meta[c]
       /\ "type" \in DOMAIN Meta[c] /\ Kind[Meta[c]["type"]] = "string" /\ "type" \notin DOMAIN Ast[c]
       /\ BaseAst[c] \in Asts => BaseAst[c] \in Class
       /\ DOMAIN Ast[c] = DOMAIN OwnAst[c] \cup FieldsAbove(c)
       /\ DOMAIN OwnAst[c] \cap FieldsAbove(c) = {}
       /\ \A k \in DOMAIN Ast[c] :
            /\ Ast[c][k] = IF k \in DOMAIN OwnAst[c] THEN OwnAst[c][k] ELSE Ast[BaseAst[c]][k]
            /\ k \in DOMAIN Meta[c] /\ Meta[c][k] = Ast[c][k]
            /\ Kind[Ast[c][k]] \notin {"var", "none"}
            /\ k \notin Getter[c] => Ast[c][k] \in List \cup Map
  /\ \A t \in List \cup Map :
       /\ Kind[Elem[t].id] \notin {"map", "enum", "port", "none"}
       /\ Elem[t].id \in List => Elem[t].id \in VarCtor
       /\ Elem[t].ptr => t \in List /\ Elem[t].id \in CreatePtr
  /\ "bool" \notin List \cup Map
  /\ "null" \notin EnumName

\* The names in the code, unlike the texts of the objects, are read as they are
\* written; a map key that is read is a key, and no two of a map are read alike.
ASSUME TextAssumption ==
  /\ DOMAIN Unescaped \cap (UNION {DOMAIN Meta[c] : c \in Class} \cup EnumName \cup DOMAIN PortUrl) = {}
  /\ \A c \in Class : Fresh[c]["type"] \notin DOMAIN Unescaped
  /\ Refused \notin Key \cup {NoKey}
  /\ \A t \in Map : \A v \in Content[t] :
       /\ \A k \in DOMAIN v : AsRead(k) \in Key \cup {Refused}
       /\ \A j, k \in DOMAIN v : AsRead(j) = AsRead(k) /\ AsRead(j) # Refused => j = k

\* Contents are of their types, all the way down: an object knows its type, a
\* port is a url without escapes, only a list of pointers holds null ones.
ASSUME ContentAssumption ==
  /\ DOMAIN Content = TypeId /\ Objects \subseteq Content[RootType]
  /\ \A t \in TypeId : NullPtr \notin Content[t]
  /\ \A c \in Class : \A v \in Content[c] :
       /\ v = [k \in DOMAIN Meta[c] |-> v[k]]
       /\ \A k \in DOMAIN Meta[c] : v[k] \in Content[Meta[c][k]]
       /\ v["type"] = Fresh[c]["type"]
  /\ \A t \in List : /\ <<>> \in Content[t]
                     /\ Content[t] \subseteq Seq(Content[Elem[t].id] \cup (IF Elem[t].ptr THEN {NullPtr} ELSE {}))
  /\ \A t \in Map : /\ <<>> \in Content[t]
                    /\ \A v \in Content[t] : /\ v = [k \in DOMAIN v |-> v[k]] /\ DOMAIN v \subseteq Key
                                            /\ \A k \in DOMAIN v : v[k] \in Content[Elem[t].id]
  /\ \A t \in TypeId : \A v \in Content[t] :
       CASE Kind[t] = "int" -> v \in Int
         [] Kind[t] = "bool" -> v \in BOOLEAN
         [] Kind[t] = "port" -> /\ v \in DOMAIN PortUrl => \E n \in DOMAIN PortUrl : PortUrl[n] = v
                                /\ v \notin DOMAIN Unescaped
         [] Kind[t] = "var" -> /\ v = [t |-> v.t, v |-> v.v]
                               /\ v.t \in {"none", "int", "double", "float", "string", "date"}
                               /\ v.t = "int" => v.v \in Int
                               /\ v.t = "double" => v.v \in DOMAIN Narrowed
         [] OTHER -> TRUE

RInit == /\ Init
         /\ obj \in Objects /\ serialize_type \in BOOLEAN
         /\ toBlock(RootType, obj)
         /\ pos = 1 /\ sep = "open"

Write == Serialize /\ UNCHANGED <<vars, obj, pos, sep>>

\* cast<double>() of a float in a meta_any is undefined: nothing is written on.
invalid_cast ==
  /\ Due({"value"}) /\ InvalidCast(ValueOf(Last(calls)))
  /\ status' = "undefined"
  /\ UNCHANGED <<doc, nev, nparse, stack, inst, active_key, peer, pos, sep>>

from_json == calls = <<>> /\ status = "idle" /\ parse /\ UNCHANGED <<peer, pos, sep>>

-----------------------------------------------------------------------------
\* The lexer: the token at pos, given to its handler.
Cur == text[pos]
Reading == status = "parsing" /\ pos <= Len(text)
Marked(m) == Reading /\ Cur = Mark(m)
Scalar == Cur.t \notin {"mark", "key", "null"}
Consume(s) == pos' = pos + 1 /\ sep' = s /\ UNCHANGED peer
InObject == doc # <<>> /\ Last(doc).open = "{"

read_open == /\ sep # "given"
             /\ \/ Marked("{") /\ start_object
                \/ Marked("[") /\ start_array
             /\ Consume("open")
read_close == /\ sep # "comma"
              /\ \/ Marked("}") /\ end_object
                 \/ Marked("]") /\ end_array
              /\ Consume("given")
read_comma == /\ Marked(",") /\ sep = "given" /\ doc # <<>>
              /\ Consume("comma") /\ UNCHANGED vars
read_key == /\ Reading /\ Cur.t = "key" /\ sep \in {"open", "comma"}
            /\ key(Cur.v)
            /\ Consume("colon")
read_scalar == /\ Reading /\ Scalar /\ sep # "given"
               /\ set_value(Cur)
               /\ Consume("given")
read_null == /\ Reading /\ Cur.t = "null" /\ sep # "given"
             /\ null
             /\ Consume("given")

\* Whether the token at pos may stand there.
Allowed ==
  CASE Cur.t = "key" -> InObject /\ sep \in {"open", "comma"}
    [] Cur \in {Mark("}"), Mark("]")} ->
         /\ doc # <<>> /\ sep \in {"open", "given"}
         /\ Cur = Mark(IF InObject THEN "}" ELSE "]")
    [] Cur = Comma -> doc # <<>> /\ sep = "given"
    [] Cur = Unlexable -> FALSE
    [] OTHER -> ValueDue /\ sep # "given"

read_misfit == Reading /\ ~Allowed /\ parse_error /\ UNCHANGED <<peer, pos, sep>>
read_end == /\ status = "parsing" /\ pos > Len(text)
            /\ IF doc = <<>> /\ nev > 0 THEN finish ELSE parse_error
            /\ UNCHANGED <<peer, pos, sep>>

Read == \/ read_open \/ read_close \/ read_comma \/ read_key \/ read_scalar
        \/ read_null \/ read_misfit \/ read_end

RNext == Write \/ invalid_cast \/ from_json \/ Read

\* toBlock and from_json run on the caller's thread and wait for nothing.
RSpec == RInit /\ [][RNext]_allvars /\ WF_allvars(RNext)

-----------------------------------------------------------------------------
\* What an object becomes on the way: a text and a map key what is read of them
\* between quotes, a double the float that is read of its six decimals, an
\* integer in a container of variants a text unless it is negative (VarOf); null
\* pointers and null cells vanish, and a member that no AST declares or no getter
\* answers is left as it is constructed.
Absent(t, v) == v = NullPtr \/ (Kind[t] = "var" /\ v.t = "none")
Answered(c) == DOMAIN Ast[c] \cap Getter[c]

\* The elements of s that are written, as f has them, and how far a list is.
Written(t, s, f, n) ==
  LET upto[i \in 0..Len(s)] == CASE i = 0 -> <<>>
                                 [] i > 0 /\ Absent(t, s[i]) -> upto[i - 1]
                                 [] OTHER -> Append(upto[i - 1], f[s[i]])
  IN upto[n]

VarTravelled(v) ==
  CASE v.t = "int" -> VarOf(Number(v.v))
    [] v.t = "double" -> [t |-> "float", v |-> Narrowed[v.v]]
    [] v.t = "string" -> Str(AsRead(v.v))
    [] OTHER -> v
ScalarTravelled(t, v) ==
  CASE Kind[t] = "var" -> VarTravelled(v)
    [] Kind[t] = "string" -> AsRead(v)
    [] Kind[t] = "enum" -> IF v \in EnumName THEN v ELSE Sentinel
    [] OTHER -> v
\* The keys of map v with a value that travels, and the one of them read as k.
Sent(t, v) == {x \in DOMAIN v : ~Absent(t, v[x])}
Source(keys, k) == CHOOSE x \in keys : AsRead(x) = k
TravelledWith(inside, t, v) ==
  CASE t \in Class -> [k \in DOMAIN v |-> CASE k \in Answered(t) -> inside[Meta[t][k]][v[k]]
                                          [] k = "type" -> v[k]
                                          [] OTHER -> Fresh[t][k]]
    [] t \in List -> Written(Elem[t].id, v, inside[Elem[t].id], Len(v))
    [] t \in Map -> LET sent == Sent(Elem[t].id, v)
                    IN [k \in {AsRead(x) : x \in sent} |-> inside[Elem[t].id][v[Source(sent, k)]]]
    [] OTHER -> ScalarTravelled(t, v)
\* By the levels that may be below; the parser opens MaxDepth at most.
Travelled[n \in 0..MaxDepth] ==
  LET inside == IF n = 0 THEN [t \in TypeId |-> [v \in Content[t] |-> v]] ELSE Travelled[n - 1]
  IN [t \in TypeId |-> [v \in Content[t] |-> TravelledWith(inside, t, v)]]

\* The objects toBlock writes as JSON: the classes in them have fields of
\* their own if they inherit any, their maps hold no objects, their variants no
\* dates, no floats and no doubles without decimals, a null pointer is alone in
\* its list, and their texts and map keys are JSON between quotes as they are.
VarWritable(v) == /\ v.t \notin {"date", "float"}
                  /\ v.t = "double" => Narrowed[v.v] # Refused
                  /\ v.t = "string" => AsRead(v.v) # Refused
WritableWith(typed, inside, t, v) ==
  CASE t \in Class -> /\ typed /\ DOMAIN OwnAst[t] = {} => DOMAIN Ast[t] = {}
                      /\ \A k \in Answered(t) : inside[Meta[t][k]][v[k]]
    [] t \in List -> v = <<NullPtr>> \/ \A i \in DOMAIN v : v[i] # NullPtr /\ inside[Elem[t].id][v[i]]
    [] t \in Map -> IF Elem[t].id \in Asts THEN DOMAIN v = {}
                    ELSE \A k \in DOMAIN v : AsRead(k) # Refused /\ inside[Elem[t].id][v[k]]
    [] Kind[t] = "var" -> VarWritable(v)
    [] Kind[t] = "string" -> AsRead(v) # Refused
    [] OTHER -> TRUE
Writable[n \in 0..MaxDepth] ==
  LET inside == IF n = 0 THEN [t \in TypeId |-> [v \in Content[t] |-> TRUE]] ELSE Writable[n - 1]
  IN [t \in TypeId |-> [v \in Content[t] |-> WritableWith(serialize_type, inside, t, v)]]

\* What the reader accepts is what the object becomes on the way (Travelled): it
\* loses nothing else, and a text the writer garbles is not taken for another
\* object (anserializer.h:341-353 against 588-988).
NeverMisread == status = "ok" => inst[1] = Travelled[MaxDepth][RootType][obj]

\* Of the texts that get written to their end, the reader accepts those of the
\* objects above and no others: a class that only inherits its fields (AnInsertReq,
\* entt_jserv.h:230) lacks a comma, a map of objects its keys, a date (anson.h:160)
\* its quotes, a text or a key with a backslash its escape (tests/t10_escape.cpp:68).
AcceptedIfWritable ==
  calls = <<>> /\ status \notin {"idle", "parsing"} => (status = "ok" <=> Writable[MaxDepth][RootType][obj])

\* The writer's walk along the base classes, and the reader's over the text,
\* end: every object is read back or refused, or its writing is undefined.
EveryObjectSettles == <>(status \in {"ok", "failed", "undefined"})

\* anson.h:131 names float beside double among the alternatives to be written:
\* an object the parser has read, with floats for its decimals, can be sent on.
WritingDefined == status # "undefined"
====
