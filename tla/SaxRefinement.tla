---- MODULE SaxRefinement ----
(***************************************************************************)
(* On conforming documents the parser, with its stack of copies, implements *)
(* the decoder of JsonDecode, which writes every value in place at once.   *)
(***************************************************************************)
EXTENDS SaxParser

\* The classes a document conforms to: a scalar member is declared as a scalar,
\* a port or an enumeration member as one with an AST of its kind (module
\* JservRegistry checks the registered ones), and no map holds pointers, which
\* an insertion would refuse.
ASSUME AgreementAssumption ==
  /\ \A c \in Class \cap Asts : \A k \in DOMAIN Meta[c] :
       LET declared == find_field_astid(c, k)
           held == Kind[Meta[c][k]]
       IN /\ held \in {"int", "bool", "string"} => declared \notin Asts
          /\ held \in {"port", "enum"} => declared \in Asts /\ Kind[declared] = held
  /\ \A t \in Map : ~Elem[t].ptr

\* The object the stack stands for: each copy written back into the one below.
Folded ==
  LET fold[i \in 1..Len(stack)] ==
        IF i = Len(stack) THEN inst[i]
        ELSE LET n == stack[i + 1] p == stack[i]
             IN IF n.is_list THEN ListInto(p, inst[i], n, fold[i + 1])
                ELSE ObjectInto(p, inst[i], n, fold[i + 1])
  IN fold[1]

\* The node i is under construction for a map that has its key already.
Rejected(i) == stack[i - 1].is_map /\ stack[i - 1].map_key \in DOMAIN inst[i - 1]

PathOf == [i \in 1..(Len(stack) - 1) |->
             CASE \E j \in 2..(i + 1) : Rejected(j) -> [into |-> "void"]
               [] stack[i].is_list /\ ~\E j \in 2..(i + 1) : Rejected(j) -> [into |-> "last"]
               [] stack[i].is_map /\ ~\E j \in 2..(i + 1) : Rejected(j) -> [into |-> "member", key |-> stack[i].map_key]
               [] OTHER -> [into |-> "member", key |-> stack[i + 1].activekey]]

Reading == status = "parsing"

JD == INSTANCE JsonDecode WITH
        obj <- IF Reading THEN Folded ELSE inst[1],
        whole <- inst[1],
        path <- IF Reading THEN PathOf ELSE <<>>

\* from_json of a conforming document is JsonDecode: the copies on the stack,
\* written back one at a time, amount to in-place decoding.
Decodes == JD!Spec
====
