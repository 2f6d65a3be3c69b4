---- MODULE SaxEvents ----
(***************************************************************************)
(* The environment of the parser: nlohmann::json::sax_parse reading a      *)
(* document and calling one handler per token.  A handler that returns     *)
(* false, or a syntax error, ends the parse.  doc is the lexer's stack of  *)
(* open brackets; beside each bracket it remembers the type a writer of    *)
(* the registered classes would have at that place, so that the documents  *)
(* that conform to the schema can be told from the others.                 *)
(***************************************************************************)
EXTENDS AnsonSchema, SequencesExt

CONSTANTS
  Token,       \* the scalars a document may hold: [t |-> lexer type, v |-> value]
  Conforming,  \* BOOLEAN: only documents that conform to the schema
  MaxEvents,   \* bound: events of one document
  MaxDepth,    \* bound: brackets open at a time
  MaxParses    \* bound: from_json calls on the same object

Untyped == "?"

VARIABLES
  doc,     \* open brackets: [open, ty, key]; key is the member being read
  nev,     \* events of this document so far
  nparse,  \* parses begun so far
  status   \* "idle" | "parsing" | "ok" | "failed" | "undefined"

events == <<doc, nev, nparse, status>>

ASSUME BoundsAssumption ==
  /\ Conforming \in BOOLEAN
  /\ MaxEvents \in Nat /\ MaxDepth \in Nat /\ MaxParses \in Nat
  /\ Untyped \notin TypeId

Bracket == [open : {"{", "["}, ty : TypeId \cup {Untyped}, key : Key \cup {NoKey}]
Status == {"idle", "parsing", "ok", "failed", "undefined"}

\* The type of the member k of a document value of type ty.
MemberType(ty, k) ==
  CASE ty \in Class /\ k \in DOMAIN Meta[ty] -> Meta[ty][k]
    [] ty \in Map \cup List -> Elem[ty].id
    [] OTHER -> Untyped

\* The type of the value the document is about to give.
DueType == IF doc = <<>> THEN RootType ELSE MemberType(Last(doc).ty, Last(doc).key)

\* A value is due at the top, after a key, and between the elements of an array.
ValueDue == IF doc = <<>> THEN nev = 0 ELSE Last(doc).open = "[" \/ Last(doc).key # NoKey

\* What a schema-conforming document may open where a value of type ty is
\* due: the brackets of that type, provided containers of containers have a
\* constructor and the declarations of EnTT and of the AST agree.  The parser
\* goes by the declared element type only where an element is a bracket, so
\* that a list of scalars may be declared as anything.
Within(types) == doc # <<>> /\ Last(doc).ty \in types
Agreed == Within(Class) => find_field_astid(Last(doc).ty, Last(doc).key) = DueType
Opens(b, ty) ==
  CASE b = "{" -> /\ ty \in (Class \cap Asts) \cup Map
                  /\ Agreed
                  /\ ty \in Map => Within(Class)
                  /\ Within(List) /\ Elem[Last(doc).ty].ptr => ty \in CreatePtr
    [] b = "[" -> /\ ty \in List
                  /\ Agreed \/ Elem[ty].id \notin Class \cup List \cup Map
                  /\ ~Within(Class) => doc # <<>> /\ ty \in VarCtor
\* ... and the scalars it may give there; an unknown member is skipped.
Accepts(ty, tok) == ty # Untyped =>
  CASE Kind[ty] \in {"enum", "port"} -> tok.t = "string" /\ Within(Class)
    [] Kind[ty] = "var" -> Within(Map \cup List)
    [] OTHER -> Castable(ty, tok)

Fresher == /\ status = "parsing" /\ nev < MaxEvents
           /\ nev' = nev + 1
           /\ UNCHANGED nparse

\* The bracket around a value that has just been given.
Given(d) == IF d = <<>> THEN d ELSE [d EXCEPT ![Len(d)].key = NoKey]

EvOpen(b) ==
  /\ Fresher /\ ValueDue /\ Len(doc) < MaxDepth
  /\ Conforming => Opens(b, DueType)
  /\ LET fits == Kind[DueType] \in (IF b = "{" THEN {"object", "map"} ELSE {"list"})
         ty == IF DueType \in TypeId /\ fits THEN DueType ELSE Untyped
     IN doc' = Append(doc, [open |-> b, ty |-> ty, key |-> NoKey])

EvClose(b) ==
  /\ Fresher /\ doc # <<>> /\ Last(doc).open = b /\ (b = "{" => Last(doc).key = NoKey)
  /\ doc' = Given(Front(doc))

EvKey(k) ==
  /\ Fresher /\ doc # <<>> /\ Last(doc).open = "{" /\ Last(doc).key = NoKey
  /\ doc' = [doc EXCEPT ![Len(doc)].key = k]

EvScalar(tok) ==
  /\ Fresher /\ ValueDue
  /\ Conforming => doc # <<>> /\ Accepts(DueType, tok)
  /\ doc' = Given(doc)

EvNull == Fresher /\ ValueDue /\ doc' = Given(doc)

\* The document is complete: sax_parse returns true.
EvFinish == /\ status = "parsing" /\ doc = <<>> /\ nev > 0
            /\ status' = "ok"
            /\ UNCHANGED <<doc, nev, nparse>>

\* A malformed or truncated text.
EvError == /\ status = "parsing"
           /\ status' = "failed"
           /\ UNCHANGED <<doc, nev, nparse>>

EvBegin == /\ status \in {"idle", "ok", "failed"} /\ nparse < MaxParses
           /\ status' = "parsing"
           /\ doc' = <<>> /\ nev' = 0 /\ nparse' = nparse + 1
====
