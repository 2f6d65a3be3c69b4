---- MODULE JsonDecode ----
(***************************************************************************)
(* What from_json promises of a document that conforms to the registered   *)
(* classes: every event takes effect at once, in the caller's object, at   *)
(* the place the document has reached; closing a bracket changes nothing;  *)
(* a list is appended to, a map keeps the first value it has for a key;    *)
(* and a parse that ends in an error takes back the top-level member it    *)
(* was in the middle of, and only that.                                    *)
(*                                                                         *)
(* There is one object and no stack: path leads from the object to the     *)
(* container the document is in.                                           *)
(***************************************************************************)
EXTENDS SaxEvents

VARIABLES
  obj,    \* the caller's object
  whole,  \* the object without the top-level member being read
  path    \* for each open bracket but the first: how to step into it

\* The steps of a path: into the last element of a list, the value of a key
\* or member, or a value that the map will not take.
LastElem == [into |-> "last"]
Nowhere == [into |-> "void"]
Member(k) == [into |-> "member", key |-> k]

absvars == <<doc, nev, nparse, status, obj, whole, path>>

Step(v, s) == CASE s.into = "void" -> <<>> [] s.into = "last" -> Last(v) [] OTHER -> v[s.key]
Replaced(v, s, w) == CASE s.into = "void" -> v
                       [] s.into = "last" -> [v EXCEPT ![Len(v)] = w]
                       [] OTHER -> [v EXCEPT ![s.key] = w]

\* The values along the path: from the object to the container at its end.
Along == LET at[i \in 0..Len(path)] == IF i = 0 THEN obj ELSE Step(at[i - 1], path[i])
         IN at
Here == Along[Len(path)]

\* The object when the container at the end of the path has become v.
Updated(v) ==
  LET new[i \in 0..Len(path)] ==
        IF i = Len(path) THEN v ELSE Replaced(Along[i], path[i + 1], new[i + 1])
  IN new[0]

\* A map keeps the value it has for a key.
With(m, k, v) == IF k \in DOMAIN m THEN m ELSE [x \in DOMAIN m \cup {k} |-> IF x = k THEN v ELSE m[x]]
Lost == path # <<>> /\ Last(path).into = "void"
Inside == Last(doc)

Settle == whole' = IF Len(doc') <= 1 THEN obj' ELSE whole

\* A value v given where the document is.
Give(v) ==
  CASE Lost \/ DueType = Untyped -> UNCHANGED obj
    [] ~Lost /\ Inside.ty \in List -> obj' = Updated(Append(Here, v))
    [] ~Lost /\ Inside.ty \in Map -> obj' = Updated(With(Here, Inside.key, v))
    [] ~Lost /\ Inside.ty \in Class /\ DueType # Untyped ->
         obj' = Updated([Here EXCEPT ![Inside.key] = v])

Into == CASE Lost -> Nowhere
          [] ~Lost /\ Inside.ty \in List -> LastElem
          [] ~Lost /\ Inside.ty \in Map /\ Inside.key \in DOMAIN Here -> Nowhere
          [] OTHER -> Member(Inside.key)

Open == \E b \in {"{", "["} :
  /\ EvOpen(b)
  /\ IF doc = <<>> THEN UNCHANGED <<obj, path>>
     ELSE /\ path' = Append(path, Into)
          /\ IF Inside.ty \in Class THEN UNCHANGED obj ELSE Give(Fresh[DueType])
  /\ Settle
  /\ UNCHANGED status

Close == \E b \in {"{", "["} :
  /\ EvClose(b)
  /\ path' = IF path = <<>> THEN path ELSE Front(path)
  /\ UNCHANGED <<obj, status>>
  /\ Settle

Meaning(tok) ==
  CASE Inside.ty \notin Class -> ElemCast(DueType, tok)
    [] Inside.ty \in Class /\ Kind[DueType] = "port" -> PortOf(tok)
    [] Inside.ty \in Class /\ Kind[DueType] = "enum" -> EnumOf(tok)
    [] OTHER -> Cast(DueType, tok)

Scalar == \E tok \in Token :
  /\ EvScalar(tok)
  /\ IF DueType = Untyped THEN UNCHANGED obj ELSE Give(Meaning(tok))
  /\ Settle
  /\ UNCHANGED <<path, status>>

NoValue == /\ \/ EvNull
              \/ \E k \in Key : EvKey(k)
           /\ UNCHANGED <<obj, path, status>>
           /\ Settle

Finish == EvFinish /\ UNCHANGED <<obj, whole, path>>
Abandon == EvError /\ obj' = whole /\ path' = <<>> /\ UNCHANGED whole
Begin == EvBegin /\ path' = <<>> /\ UNCHANGED <<obj, whole>>

Init == /\ doc = <<>> /\ nev = 0 /\ nparse = 0 /\ status = "idle"
        /\ obj = Fresh[RootType] /\ whole = obj /\ path = <<>>

Next == Begin \/ Finish \/ Abandon \/ Open \/ Close \/ Scalar \/ NoValue

Spec == Init /\ [][Next]_absvars
====
