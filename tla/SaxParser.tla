---- MODULE SaxParser ----
(***************************************************************************)
(* EnTTSaxParser: the decoder behind Anson::from_json.  The lexer calls a  *)
(* handler per token; the handlers keep a stack of ParseNodes, each        *)
(* holding a COPY of the value being read, which is written back into the  *)
(* node below when its bracket closes.  Only the bottom node refers to the *)
(* caller's object, so that object is inst[1] and outlives a parse.        *)
(*                                                                         *)
(* ParseNode.instance (an entt::meta_any) is split: its type is the field  *)
(* ty of the node, its content is inst[i] for the node stack[i].           *)
(***************************************************************************)
EXTENDS SaxEvents

VARIABLES
  stack,       \* the ParseNodes, bottom first
  inst,        \* the contents of their instances
  active_key   \* the key the next value belongs to, NoKey when none

vars == <<doc, nev, nparse, status, stack, inst, active_key>>

AstId == TypeId \cup {NoAst}
Node == [ty : TypeId, val_astid : AstId, is_val_ptr : BOOLEAN, is_list : BOOLEAN,
         is_map : BOOLEAN, activekey : Key \cup {NoKey}, map_key : Key \cup {NoKey}]

ParseNode(t, astid, ptr, list, map, k) ==
  [ty |-> t, val_astid |-> astid, is_val_ptr |-> ptr, is_list |-> list,
   is_map |-> map, activekey |-> k, map_key |-> NoKey]

RootNode == ParseNode(RootType, RootType, FALSE, FALSE, FALSE, NoKey)

Top == stack[Len(stack)]
Parent == stack[Len(stack) - 1]
TopInst == inst[Len(inst)]
ParentInst == inst[Len(inst) - 1]

Push(node, content) == /\ stack' = Append(stack, node)
                       /\ inst' = Append(inst, content)
push_list(t, content, k, list_type) ==
  LET val == parseListValtype(list_type)
  IN Push(ParseNode(t, val.id, val.ptr, TRUE, FALSE, k), content)
push_map_flags_swapped(t, content, k, map_type) ==
  Push(ParseNode(t, parseMapValtype(map_type).id, FALSE, TRUE, FALSE, k), content)
push_map(t, content, k, map_type) ==
  LET val == IF map_type = NoAst THEN [id |-> NoAst, ptr |-> FALSE] ELSE parseMapValtype(map_type)
  IN Push(ParseNode(t, val.id, val.ptr, FALSE, TRUE, k), content)

\* The EnTT container views of a content of type t: what an insertion leaves.
\* A map keeps the value it has for a key; a view of a content that is not
\* such a container is invalid.
is_sequence(t) == t \in List
is_associative(t) == t \in Map
InsertLastWins(m, k, v) == [x \in DOMAIN m \cup {k} |-> IF x = k THEN v ELSE m[x]]
Insert(m, k, v) == [x \in DOMAIN m \cup {k} |-> IF x \in DOMAIN m THEN m[x] ELSE v]

-----------------------------------------------------------------------------
\* set_value: the scalar goes into the top list or map, or into the member
\* active_key of the top object.  What no type conversion exists for is dropped.
insert_list(t, s, tok) == IF is_sequence(t) /\ ElemCastable(Elem[t].id, tok)
                          THEN Append(s, ElemCast(Elem[t].id, tok)) ELSE s
insert_map(t, m, k, tok) == IF is_associative(t) /\ ElemCastable(Elem[t].id, tok)
                            THEN Insert(m, k, ElemCast(Elem[t].id, tok)) ELSE m

set_member(node, obj, k, tok) ==
  LET ft == Meta[node.ty][k]
      declared == find_field_astid(node.val_astid, k)
  IN CASE node.val_astid \notin Asts -> obj
       [] declared \in Asts ->
            CASE Kind[declared] = "port" /\ Kind[ft] = "port" -> [obj EXCEPT ![k] = PortOf(tok)]
              [] Kind[declared] = "enum" /\ Kind[ft] = "enum" -> [obj EXCEPT ![k] = EnumOf(tok)]
              [] OTHER -> obj
       [] OTHER -> IF Castable(ft, tok) THEN [obj EXCEPT ![k] = Cast(ft, tok)] ELSE obj

ValueSet(node, content, tok) ==
  CASE node.is_list -> insert_list(node.ty, content, tok)
    [] ~node.is_list /\ node.is_map -> insert_map(node.ty, content, node.map_key, tok)
    [] /\ ~node.is_list /\ ~node.is_map
       /\ active_key # NoKey /\ find_field_recursive(node.ty, active_key) ->
         set_member(node, content, active_key, tok)
    [] OTHER -> content

set_value_searching_outward(tok) ==
  /\ EvScalar(tok)
  /\ inst' = IF find_field_recursive(RootType, active_key)
             THEN [inst EXCEPT ![1] = set_member(RootNode, inst[1], active_key, tok)]
             ELSE inst
  /\ UNCHANGED <<stack, active_key, status>>

set_value(tok) ==
  /\ EvScalar(tok)
  /\ inst' = [inst EXCEPT ![Len(inst)] = ValueSet(Top, TopInst, tok)]
  /\ UNCHANGED <<stack, active_key, status>>

null == EvNull /\ UNCHANGED <<stack, inst, active_key, status>>

key(k) ==
  /\ EvKey(k)
  /\ active_key' = k
  /\ stack' = [stack EXCEPT ![Len(stack)].map_key = k]
  /\ UNCHANGED <<inst, status>>

-----------------------------------------------------------------------------
\* start_object.  A member of the top object is opened on a copy of its
\* value: as an object when its declared id has an AST, else as a map.
start_object_member ==
  /\ EvOpen("{")
  /\ active_key # NoKey /\ find_field_recursive(Top.ty, active_key) /\ Top.val_astid \in Asts
  /\ LET fd_astid == find_field_astid(Top.val_astid, active_key)
         ft == Meta[Top.ty][active_key]
         copy == TopInst[active_key]
     IN IF fd_astid \in Asts
        THEN Push(ParseNode(ft, fd_astid, FALSE, FALSE, FALSE, active_key), copy)
        ELSE push_map(ft, copy, active_key, fd_astid)
  /\ UNCHANGED <<active_key, status>>

\* An element of the top list or map is constructed when its type has an AST
\* and is registered with EnTT.
start_object_element_keyless ==
  /\ EvOpen("{")
  /\ active_key # NoKey /\ ~find_field_recursive(Top.ty, active_key)
  /\ (Top.is_map \/ Top.is_list) /\ Top.val_astid \in Asts /\ Kind[Top.val_astid] # "none"
  /\ Push(ParseNode(Top.val_astid, Top.val_astid, FALSE, FALSE, FALSE, NoKey),
          Fresh[Top.val_astid])
  /\ UNCHANGED <<active_key, status>>
start_object_element ==
  /\ EvOpen("{")
  /\ active_key # NoKey /\ ~find_field_recursive(Top.ty, active_key)
  /\ (Top.is_map \/ Top.is_list) /\ Top.val_astid \in Asts /\ Kind[Top.val_astid] # "none"
  /\ Push(ParseNode(Top.val_astid, Top.val_astid, FALSE, FALSE, FALSE, active_key),
          Fresh[Top.val_astid])
  /\ UNCHANGED <<active_key, status>>

\* The root's own bracket, and any object the parser cannot place: an error
\* is logged at most and nothing is pushed.
start_object_skipped ==
  /\ EvOpen("{")
  /\ \/ active_key = NoKey
     \/ find_field_recursive(Top.ty, active_key) /\ Top.val_astid \notin Asts
     \/ /\ ~find_field_recursive(Top.ty, active_key)
        /\ ~((Top.is_map \/ Top.is_list) /\ Top.val_astid \in Asts /\ Kind[Top.val_astid] # "none")
  /\ UNCHANGED <<stack, inst, active_key, status>>

start_object == start_object_member \/ start_object_element \/ start_object_skipped

-----------------------------------------------------------------------------
\* A finished value written into member k of an object of type t: data.set
\* takes it when the types are the same.
SetMember(t, obj, k, vt, v) == IF Meta[t][k] = vt THEN [obj EXCEPT ![k] = v] ELSE obj

\* The node n was opened as a member of the node p below it.
Owns(p, n) == find_field_recursive(p.ty, n.activekey)

\* A finished value of type vt put into the container below it.
AppendValue(t, s, vt, v) == IF is_sequence(t) /\ Elem[t].id = vt THEN Append(s, v) ELSE s
InsertValue(t, m, k, vt, v) == IF is_associative(t) /\ Elem[t].id = vt /\ ~Elem[t].ptr
                               THEN Insert(m, k, v) ELSE m

\* A list of pointers takes a copy made by create_ptr of the element's class,
\* and only if the list's declaration said that it holds pointers.
PtrMissingForListType(p, n) == ~Owns(p, n) /\ p.is_list /\ p.is_val_ptr /\ p.ty \notin CreatePtr
PtrMissing(p, n) == /\ ~Owns(p, n) /\ p.is_list
                    /\ is_sequence(p.ty) /\ p.is_val_ptr /\ n.ty \notin CreatePtr
PtrAgrees(p, n) == is_sequence(p.ty) => /\ p.is_val_ptr = Elem[p.ty].ptr
                                        /\ ~PtrMissing(p, n)

\* end_object's write-back of the finished node n, with content v, into the
\* node p below it, with content pv.
ObjectInto(p, pv, n, v) ==
  CASE Owns(p, n) -> SetMember(p.ty, pv, n.activekey, n.ty, v)
    [] ~Owns(p, n) /\ p.is_map /\ p.val_astid = n.ty -> InsertValue(p.ty, pv, p.map_key, n.ty, v)
    [] ~Owns(p, n) /\ p.is_list /\ PtrAgrees(p, n) -> AppendValue(p.ty, pv, n.ty, v)
    [] OTHER -> pv

\* insert moves the key out of the map node.
KeyLeft(p, n) == IF ~Owns(p, n) /\ p.is_map /\ p.val_astid = n.ty /\ is_associative(p.ty)
                 THEN NoKey ELSE p.map_key

KeyNotRestored(n) == active_key
RestoredKey(n) == n.activekey

\* Pop the top node and leave content v and map key k in the one below it.
PopIntoKeepingNode(v, k) ==
  /\ stack' = [stack EXCEPT ![Len(stack) - 1].map_key = k]
  /\ inst' = [inst EXCEPT ![Len(inst) - 1] = v]
PopIntoKeepingInst(v, k) ==
  /\ stack' = [Front(stack) EXCEPT ![Len(stack) - 1].map_key = k]
  /\ inst' = [inst EXCEPT ![Len(inst) - 1] = v]
PopInto(v, k) ==
  /\ stack' = [Front(stack) EXCEPT ![Len(stack) - 1].map_key = k]
  /\ inst' = [Front(inst) EXCEPT ![Len(inst) - 1] = v]

end_object_root ==
  /\ EvClose("{") /\ Len(stack) = 1
  /\ UNCHANGED <<stack, inst, active_key, status>>

end_object_nested ==
  /\ EvClose("{") /\ Len(stack) > 1
  /\ PopInto(ObjectInto(Parent, ParentInst, Top, TopInst), KeyLeft(Parent, Top))
  /\ IF PtrMissing(Parent, Top)
     THEN status' = "failed" /\ UNCHANGED active_key
     ELSE active_key' = RestoredKey(Top) /\ UNCHANGED status

end_object == end_object_root \/ end_object_nested

-----------------------------------------------------------------------------
\* start_array.  A list member is read on a copy of its present value, so
\* that what a document gives is appended to what the object already holds.
ListCleared(obj, k) == <<>>
ListCopy(obj, k) == obj[k]

start_array_member ==
  /\ EvOpen("[")
  /\ active_key # NoKey /\ find_field_recursive(Top.ty, active_key)
  /\ push_list(Meta[Top.ty][active_key], ListCopy(TopInst, active_key), active_key,
               find_field_astid(Top.val_astid, active_key))
  /\ UNCHANGED <<active_key, status>>

\* An array inside a list or a map needs a registered constructor of its type.
InContainer == active_key # NoKey /\ ~find_field_recursive(Top.ty, active_key)
               /\ (Top.is_map \/ Top.is_list)

start_array_element ==
  /\ EvOpen("[")
  /\ InContainer /\ Top.val_astid \in VarCtor
  /\ push_list(Top.val_astid, Fresh[Top.val_astid], active_key, Top.val_astid)
  /\ UNCHANGED <<active_key, status>>

start_array_refused ==
  /\ EvOpen("[")
  /\ InContainer /\ Top.val_astid \notin VarCtor
  /\ status' = "failed"
  /\ UNCHANGED <<stack, inst, active_key>>

\* Nothing is pushed for an array at the top or for an unknown member.
start_array_skipped ==
  /\ EvOpen("[")
  /\ \/ active_key = NoKey
     \/ ~find_field_recursive(Top.ty, active_key) /\ ~Top.is_map /\ ~Top.is_list
  /\ UNCHANGED <<stack, inst, active_key, status>>

start_array == \/ start_array_member \/ start_array_element
               \/ start_array_refused \/ start_array_skipped

-----------------------------------------------------------------------------
\* end_array.  Only a list node on top is closed; active_key stays.
ListIntoObjectOrMap(p, pv, n, v) ==
  CASE Owns(p, n) -> SetMember(p.ty, pv, n.activekey, n.ty, v)
    [] ~Owns(p, n) /\ p.is_map -> InsertValue(p.ty, pv, p.map_key, n.ty, v)
    [] OTHER -> pv
ListInto(p, pv, n, v) ==
  CASE Owns(p, n) -> SetMember(p.ty, pv, n.activekey, n.ty, v)
    [] ~Owns(p, n) /\ p.is_map /\ p.val_astid \in VarCtor -> InsertValue(p.ty, pv, p.map_key, n.ty, v)
    [] ~Owns(p, n) /\ p.is_list /\ p.val_astid \in VarCtor -> AppendValue(p.ty, pv, n.ty, v)
    [] OTHER -> pv

\* What end_array answers: it inserts into the container below without asking
\* whether that container's view is valid, which is undefined when it is not.
ArrayVerdict(p, n) ==
  LET inserts == ~Owns(p, n) /\ (p.is_map \/ p.is_list)
      valid == (p.is_map => is_associative(p.ty)) /\ (p.is_list => is_sequence(p.ty))
  IN CASE inserts /\ p.val_astid \notin VarCtor -> "failed"
       [] inserts /\ p.val_astid \in VarCtor /\ ~valid -> "undefined"
       [] OTHER -> "parsing"

end_array_list ==
  /\ EvClose("[") /\ Top.is_list
  /\ PopInto(ListInto(Parent, ParentInst, Top, TopInst), Parent.map_key)
  /\ status' = ArrayVerdict(Parent, Top)
  /\ UNCHANGED active_key

end_array_skipped ==
  /\ EvClose("[") /\ ~Top.is_list
  /\ UNCHANGED <<stack, inst, active_key, status>>

end_array == end_array_list \/ end_array_skipped

-----------------------------------------------------------------------------
\* A syntax error: the parse stops where it is, the stack is discarded.
parse_error == EvError /\ UNCHANGED <<stack, inst, active_key>>
finish == EvFinish /\ UNCHANGED <<stack, inst, active_key>>

\* from_json on the same object: a new parser whose root refers to it.  It
\* throws when the context has no AST at all.
parse ==
  /\ Asts # {}
  /\ EvBegin
  /\ stack' = <<RootNode>>
  /\ inst' = <<inst[1]>>
  /\ active_key' = NoKey

Init == /\ doc = <<>> /\ nev = 0 /\ nparse = 0 /\ status = "idle"
        /\ stack = <<RootNode>>
        /\ inst = <<Fresh[RootType]>>
        /\ active_key = NoKey

Next == \/ parse \/ finish \/ parse_error
        \/ start_object \/ end_object \/ start_array \/ end_array
        \/ \E k \in Key : key(k)
        \/ \E tok \in Token : set_value(tok)
        \/ null

Spec == Init /\ [][Next]_vars

-----------------------------------------------------------------------------
\* Type invariant.  The contents are untagged, so of inst only the shape is
\* stated: one content per node.
TypeOK ==
  /\ doc \in Seq(Bracket) /\ nev \in Nat /\ nparse \in Nat /\ status \in Status
  /\ stack \in Seq(Node) /\ stack # <<>>
  /\ inst = [i \in 1..Len(stack) |-> inst[i]]
  /\ active_key \in Key \cup {NoKey}

\* Whatever the document, the node that refers to the caller's object stays
\* at the bottom, and it is the only node that has no place to be written to.
RootKept ==
  /\ stack[1] = [RootNode EXCEPT !.map_key = stack[1].map_key]
  /\ \A i \in 2..Len(stack) : stack[i].activekey # NoKey

\* Whatever the document, no node outlives the bracket it was pushed for: an
\* unbalanced pop may come early (a bracket nothing was pushed for closes the
\* node above it), a leftover node is impossible.
StackWithinDocument ==
  status = "parsing" => Len(stack) <= (IF doc = <<>> THEN 1 ELSE Len(doc))

\* The caller's object is written only while the bottom node or the node
\* directly above it is on top: what deeper nodes have read never reaches it
\* before a bracket closed over it, so that a parse that is aborted inside a
\* member (syntax error, refusal) leaves nothing of that member in the object
\* (tests/t10_escape.cpp, Invalid_payload: the body is empty after it).
WholeMembersOnly == [][inst'[1] # inst[1] => Len(stack) <= 2]_vars

\* Nothing a document says takes back what a list or a map of the caller's
\* object holds, in this parse or in a later one into the same object: lists
\* grow at the end and a map keeps the value it has for a key.
Grows(t, old, new) ==
  CASE t \in List -> IsPrefix(old, new)
    [] t \in Map -> \A k \in DOMAIN old : k \in DOMAIN new /\ new[k] = old[k]
    [] OTHER -> TRUE
ContainersOnlyGrow ==
  [][\A k \in DOMAIN Meta[RootType] : Grows(Meta[RootType][k], inst[1][k], inst'[1][k])]_vars

-----------------------------------------------------------------------------
\* On conforming documents the stack is the document's bracket stack: same
\* depth, same types, and each kind of node on its kind of bracket.
StackFollowsDocument ==
  Conforming /\ status = "parsing" /\ doc # <<>> =>
    /\ Len(stack) = Len(doc)
    /\ \A i \in 1..Len(doc) : /\ stack[i].ty = doc[i].ty
                              /\ stack[i].is_list <=> doc[i].ty \in List
                              /\ stack[i].is_map <=> doc[i].ty \in Map

\* ... and the one active_key the nodes share is the right one whenever a
\* value is due: the member just named, and between the elements of an array
\* the list's own key, though nothing names it again after an element closed.
KeyFollowsDocument ==
  Conforming /\ status = "parsing" /\ doc # <<>> /\ ValueDue =>
    active_key = IF Last(doc).ty \in List THEN Top.activekey ELSE Last(doc).key

\* ... so that no handler refuses such a document: only the lexer ends a parse.
ConformingNeverRefused ==
  [][Conforming /\ status = "parsing" /\ nev' # nev => status' = "parsing"]_vars
====
