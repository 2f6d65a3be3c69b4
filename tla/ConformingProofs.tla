---- MODULE ConformingProofs ----
(***************************************************************************)
(* What the documents that conform to the schema are read as, for every    *)
(* schema and every document.                                              *)
(*                                                                         *)
(* First the nodes of the stack and the open brackets of the document: of  *)
(* any document, then of those that conform.                               *)
(*                                                                         *)
(* Then the parser, with its stack of copies, implements the decoder of    *)
(* JsonDecode, which has one object and writes every value in place.  The  *)
(* object the decoder has is the stack folded down to its bottom node.  A  *)
(* handler changes the stack at its top only; the proof finds what that    *)
(* does to the fold by induction down the stack, and shows that the        *)
(* decoder's path leads to the content on top of it.                       *)
(***************************************************************************)
EXTENDS SaxRefinement, SaxParserProofs

-----------------------------------------------------------------------------
(* No node outlives its bracket, whatever the document.  The argument      *)
(* gives each node the position of the bracket that is open for it: the    *)
(* positions are found again after every step, although the parser keeps   *)
(* none and a closing brace may pop a node of another one.                 *)

\* pos[i] is the open bracket of the node stack[i]: later nodes have later
\* brackets, and a list has a "[".
DepthOf(d) == IF d = <<>> THEN 1 ELSE Len(d)
Depth == DepthOf(doc)
Rising(pos, n, d) ==
  /\ pos \in [1..n -> Nat]
  /\ \A i \in 1..n : i <= pos[i] /\ pos[i] <= d
  /\ \A i \in 1..n : \A j \in 1..n : i < j => pos[i] < pos[j]
Places(pos) ==
  /\ Rising(pos, Len(stack), Depth)
  /\ \A i \in 2..Len(stack) : stack[i].is_list <=> doc[pos[i]].open = "["

\* Before the first event no key is active, so that the outermost bracket
\* pushes nothing.
Placed == status = "parsing" => /\ nev = 0 => active_key = NoKey /\ doc = <<>>
                                /\ \E pos : Places(pos)

-----------------------------------------------------------------------------
\* What an event does to the open brackets.
SameOpen(d, e, n) == \A i \in 1..n : d[i].open = e[i].open
Opened(b) == /\ Len(doc') = Len(doc) + 1 /\ doc'[Len(doc) + 1].open = b
             /\ SameOpen(doc', doc, Len(doc))
Closed(b) == /\ Len(doc) > 0 /\ doc[Len(doc)].open = b
             /\ Len(doc') = Len(doc) - 1 /\ SameOpen(doc', doc, Len(doc) - 1)
Inside == Len(doc') = Len(doc) /\ SameOpen(doc', doc, Len(doc))

LEMMA GivenOpen ==
  ASSUME NEW d \in Seq(Bracket)
  PROVE  Len(Given(d)) = Len(d) /\ SameOpen(Given(d), d, Len(d))
  <1>1. CASE d = <<>>
    BY <1>1 DEF Given, SameOpen
  <1>2. CASE d # <<>>
    <2> DEFINE l == Len(d)
               b == [d[l] EXCEPT !.key = NoKey]
    <2>1. l \in 1..l /\ d[l] \in Bracket
      BY <1>2, LastOK
    <2>2. b \in Bracket /\ b.open = d[l].open
      BY <2>1 DEF Bracket
    <2>3. Given(d) = [d EXCEPT ![l] = b]
      BY <1>2 DEF Given
    <2>4. /\ Len([d EXCEPT ![l] = b]) = Len(d)
          /\ \A i \in 1..Len(d) : [d EXCEPT ![l] = b][i] = IF i = l THEN b ELSE d[i]
      <3> HIDE DEF b, l
      <3> QED BY <2>1, <2>2, ExceptSeq
    <2> QED BY <2>2, <2>3, <2>4 DEF SameOpen
  <1> QED BY <1>1, <1>2

LEMMA OpenOpens ==
  ASSUME DocOK, NEW b \in {"{", "["}, EvOpen(b)
  PROVE  Opened(b)
  <1>1. PICK ty \in TypeId \cup {Untyped} : doc' = Append(doc, [open |-> b, ty |-> ty, key |-> NoKey])
    <2>1. \E ty \in TypeId \cup {Untyped} : doc' = Append(doc, [open |-> b, ty |-> ty, key |-> NoKey])
      BY DEF EvOpen
    <2> QED BY <2>1
  <1> DEFINE new == [open |-> b, ty |-> ty, key |-> NoKey]
             d == Append(doc, new)
  <1>2. new \in Bracket /\ new.open = b
    BY DEF Bracket
  <1>3. doc \in Seq(Bracket)
    BY DEF DocOK
  <1>4. doc' = d
    BY <1>1
  <1>5. Len(d) = Len(doc) + 1 /\ d[Len(doc) + 1] = new /\ Agree(d, doc, Len(doc))
    <2> HIDE DEF new
    <2> QED BY <1>2, <1>3, AppendLonger
  <1> HIDE DEF d, new
  <1>6. SameOpen(d, doc, Len(doc))
    BY <1>5 DEF SameOpen, Agree
  <1> QED BY <1>2, <1>4, <1>5, <1>6 DEF Opened

LEMMA CloseCloses ==
  ASSUME DocOK, NEW b \in {"{", "["}, EvClose(b)
  PROVE  Closed(b)
  <1> DEFINE n == Len(doc) - 1
             f == Front(doc)
  <1>1. doc \in Seq(Bracket) /\ doc # <<>>
    BY DEF DocOK, EvClose
  <1>2. Len(doc) > 0
    BY <1>1, LengthOK
  <1>3. f \in Seq(Bracket) /\ Len(f) = n /\ Agree(f, doc, n)
    BY <1>1, FrontShorter
  <1>4. doc' = Given(f) /\ doc[Len(doc)].open = b
    BY DEF EvClose, Last
  <1> HIDE DEF f, n
  <1>5. Len(Given(f)) = Len(f) /\ SameOpen(Given(f), f, Len(f))
    BY <1>3, GivenOpen
  <1>6. Len(doc') = n /\ SameOpen(doc', doc, n)
    BY <1>3, <1>4, <1>5 DEF SameOpen, Agree
  <1> QED BY <1>2, <1>4, <1>6 DEF Closed, n

LEMMA OthersInside ==
  ASSUME DocOK, (\E k \in Key : EvKey(k)) \/ (\E tok : EvScalar(tok)) \/ EvNull
  PROVE  Inside
  <1>1. CASE (\E tok : EvScalar(tok)) \/ EvNull
    BY <1>1, GivenOpen DEF DocOK, EvScalar, EvNull, Inside
  <1>2. CASE \E k \in Key : EvKey(k)
    <2>1. PICK k \in Key : EvKey(k)
      BY <1>2
    <2> DEFINE l == Len(doc)
               b == [doc[l] EXCEPT !.key = k]
    <2>2. doc \in Seq(Bracket) /\ l \in 1..l /\ doc[l] \in Bracket
      <3>1. doc \in Seq(Bracket) /\ doc # <<>>
        BY <2>1 DEF DocOK, EvKey
      <3> QED BY <3>1, LastOK
    <2>3. b \in Bracket /\ b.open = doc[l].open /\ doc' = [doc EXCEPT ![l] = b]
      BY <2>1, <2>2 DEF Bracket, EvKey
    <2>4. /\ Len(doc') = Len(doc)
          /\ \A i \in 1..Len(doc) : doc'[i] = IF i = l THEN b ELSE doc[i]
      <3> HIDE DEF b, l
      <3> QED BY <2>2, <2>3, ExceptSeq
    <2> QED BY <2>3, <2>4 DEF Inside, SameOpen
  <1> QED BY <1>1, <1>2

-----------------------------------------------------------------------------
\* What an event does to the nodes: the nodes that stay keep being lists or
\* not, and a new one is a list if and only if its bracket is a "[".
SameLists == \A i \in 2..Len(stack') : stack'[i].is_list = stack[i].is_list
Keeps == stack' \in Seq(Node) /\ Len(stack') = Len(stack) /\ SameLists
Shrinks == Len(stack) > 1 /\ Len(stack') = Len(stack) - 1 /\ SameLists
Grew(b) == /\ Len(stack') = Len(stack) + 1 /\ Agree(stack', stack, Len(stack))
           /\ stack'[Len(stack) + 1].is_list <=> b = "["
           /\ active_key # NoKey

LEMMA ListsOfSameNodes ==
  ASSUME StackOK, NEW n \in 0..Len(stack), Len(stack') = n, SameNodes(stack', stack, n)
  PROVE  SameLists
  <1> SUFFICES ASSUME NEW i \in 2..n
               PROVE  stack'[i].is_list = stack[i].is_list
    BY DEF SameLists
  <1>1. stack \in Seq(Node) /\ Len(stack) \in Nat /\ i \in 1..n /\ i \in 1..Len(stack)
    BY TopOK DEF StackOK
  <1>2. stack[i] \in Node
    BY <1>1, ElementOfSeq
  <1>3. stack'[i] = [stack[i] EXCEPT !.map_key = stack'[i].map_key]
    BY <1>1 DEF SameNodes
  <1> QED BY <1>2, <1>3 DEF Node

LEMMA PopsShrink ==
  ASSUME Inv, Pops
  PROVE  Shrinks
  <1>1. Len(stack) > 1 /\ Len(stack) \in Nat \ {0} /\ StackOK
    BY TopOK DEF Inv, Pops
  <1>2. Len(stack') = Len(stack) - 1 /\ SameNodes(stack', stack, Len(stack) - 1)
    BY PopOK DEF Inv, Pops
  <1>3. Len(stack) - 1 \in 0..Len(stack)
    BY <1>1
  <1>4. SameLists
    BY <1>1, <1>2, <1>3, ListsOfSameNodes
  <1> QED BY <1>1, <1>2, <1>4 DEF Shrinks

LEMMA OthersKeep ==
  ASSUME Inv, Sets \/ Names \/ Stays
  PROVE  Keeps
  <1>1. stack \in Seq(Node) /\ stack # <<>> /\ StackOK /\ Len(stack) \in Nat \ {0}
    BY TopOK DEF Inv, StackOK
  <1>2. CASE Sets \/ Stays
    BY <1>1, <1>2 DEF Sets, Stays, Keeps, SameLists
  <1>3. CASE Names
    <2>1. PICK k \in Key : stack' = [stack EXCEPT ![Len(stack)].map_key = k]
      BY <1>3 DEF Names
    <2> DEFINE t == [stack EXCEPT ![Len(stack)].map_key = k]
    <2>2. t \in Seq(Node) /\ Len(t) = Len(stack) /\ SameNodes(t, stack, Len(stack))
      BY <1>1, MapKeyOK
    <2>3. stack' = t
      BY <2>1
    <2> HIDE DEF t
    <2>4. Len(stack) \in 0..Len(stack)
      BY <1>1
    <2>5. SameLists
      BY <1>1, <2>2, <2>3, <2>4, ListsOfSameNodes
    <2> QED BY <2>2, <2>3, <2>5 DEF Keeps
  <1> QED BY <1>2, <1>3

LEMMA AppendedNode ==
  ASSUME StackOK, NEW e, stack' = Append(stack, e)
  PROVE  /\ Len(stack') = Len(stack) + 1 /\ stack'[Len(stack) + 1] = e
         /\ Agree(stack', stack, Len(stack))
  <1> DEFINE S == Node \cup {e}
  <1>1. stack \in Seq(Node) /\ Node \subseteq S /\ e \in S
    BY DEF StackOK
  <1> HIDE DEF S
  <1>2. stack \in Seq(S)
    BY <1>1, SeqMonotonic
  <1> QED BY <1>1, <1>2, AppendLonger

LEMMA NewNode ==
  ASSUME StackOK, active_key # NoKey,
         NEW t, NEW id, NEW ptr, NEW list, NEW map, NEW k, NEW content,
         NEW b, list <=> b = "[",
         Push(ParseNode(t, id, ptr, list, map, k), content)
  PROVE  Grew(b)
  <1>1. stack' = Append(stack, ParseNode(t, id, ptr, list, map, k))
    BY DEF Push
  <1>2. ParseNode(t, id, ptr, list, map, k).is_list = list
    BY DEF ParseNode
  <1> QED BY <1>1, <1>2, AppendedNode DEF Grew

LEMMA ObjectsGrow ==
  ASSUME Inv, start_object
  PROVE  Stays \/ Grew("{")
  <1>1. StackOK
    BY DEF Inv
  <1>2. CASE start_object_member
    <2>1. active_key # NoKey
      BY <1>2 DEF start_object_member
    <2> DEFINE fd == find_field_astid(Top.val_astid, active_key)
               ft == Meta[Top.ty][active_key]
               copy == TopInst[active_key]
    <2>2. IF fd \in Asts THEN Push(ParseNode(ft, fd, FALSE, FALSE, FALSE, active_key), copy)
                         ELSE push_map(ft, copy, active_key, fd)
      BY <1>2 DEF start_object_member
    <2> HIDE DEF fd, ft, copy
    <2> QED BY <1>1, <2>1, <2>2, NewNode DEF push_map
  <1>3. CASE start_object_element
    <2>1. /\ active_key # NoKey
          /\ Push(ParseNode(Top.val_astid, Top.val_astid, FALSE, FALSE, FALSE, active_key),
                  Fresh[Top.val_astid])
      BY <1>3 DEF start_object_element
    <2> QED BY <1>1, <2>1, NewNode
  <1>4. CASE start_object_skipped
    BY <1>4 DEF start_object_skipped, Stays
  <1> QED BY <1>2, <1>3, <1>4 DEF start_object

LEMMA ArraysGrow ==
  ASSUME Inv, start_array
  PROVE  Stays \/ Grew("[")
  <1>1. StackOK
    BY DEF Inv
  <1>2. ASSUME NEW t, NEW content, NEW k, NEW id, push_list(t, content, k, id),
               active_key # NoKey
        PROVE  Grew("[")
    BY <1>1, <1>2, NewNode DEF push_list
  <1>3. CASE start_array_member
    BY <1>2, <1>3 DEF start_array_member
  <1>4. CASE start_array_element
    BY <1>2, <1>4 DEF start_array_element, InContainer
  <1>5. CASE start_array_refused \/ start_array_skipped
    BY <1>5 DEF start_array_refused, start_array_skipped, Stays
  <1> QED BY <1>3, <1>4, <1>5 DEF start_array

-----------------------------------------------------------------------------
\* The positions found again.  Those of the nodes that stay are kept, and the
\* root may be given any: it is 1.
StillOpen(pos) == \A i \in 2..Len(stack') :
                    pos[i] <= Len(doc') /\ doc'[pos[i]].open = doc[pos[i]].open

LEMMA DepthOK ==
  ASSUME NEW d \in Seq(Bracket)
  PROVE  /\ Len(d) \in Nat /\ DepthOf(d) \in Nat
         /\ DepthOf(d) >= 1 /\ DepthOf(d) >= Len(d)
         /\ Len(d) > 0 => DepthOf(d) = Len(d)
         /\ d # <<>> => Len(d) > 0
  BY EmptySeq, LengthOK, LenProperties DEF DepthOf

LEMMA RisingStill ==
  ASSUME NEW n \in Nat, NEW k \in 1..n, NEW d \in Nat, NEW e \in Nat, e > 0,
         NEW pos, Rising(pos, n, d), \A i \in 2..k : pos[i] <= e
  PROVE  Rising([i \in 1..k |-> IF i = 1 THEN 1 ELSE pos[i]], k, e)
  <1> DEFINE p == [i \in 1..k |-> IF i = 1 THEN 1 ELSE pos[i]]
  <1>1. ASSUME NEW i \in 1..k
        PROVE  pos[i] \in Nat /\ i <= pos[i]
    BY DEF Rising
  <1>2. p \in [1..k -> Nat]
    BY <1>1
  <1>3. ASSUME NEW i \in 1..k
        PROVE  i <= p[i] /\ p[i] <= e
    BY <1>1
  <1>4. ASSUME NEW i \in 1..k, NEW j \in 1..k, i < j
        PROVE  p[i] < p[j]
    <2>1. p[j] = pos[j] /\ pos[j] \in Nat /\ j <= pos[j]
      BY <1>1, <1>4
    <2>2. pos[i] < pos[j]
      BY <1>4 DEF Rising
    <2> QED BY <1>1, <1>4, <2>1, <2>2
  <1> HIDE DEF p
  <1>5. Rising(p, k, e)
    BY <1>2, <1>3, <1>4 DEF Rising
  <1> QED BY <1>5 DEF p

LEMMA RisingGrown ==
  ASSUME NEW n \in Nat \ {0}, NEW m \in Nat, NEW pos, Rising(pos, n, m)
  PROVE  Rising([i \in 1..(n + 1) |-> IF i = n + 1 THEN m + 1 ELSE pos[i]], n + 1, m + 1)
  <1> DEFINE p == [i \in 1..(n + 1) |-> IF i = n + 1 THEN m + 1 ELSE pos[i]]
  <1>1. ASSUME NEW i \in 1..n
        PROVE  pos[i] \in Nat /\ i <= pos[i] /\ pos[i] <= m
    BY DEF Rising
  <1>2. p \in [1..(n + 1) -> Nat]
    BY <1>1
  <1>3. n <= m
    <2>1. n \in 1..n
      OBVIOUS
    <2> QED BY <1>1, <2>1
  <1>4. ASSUME NEW i \in 1..(n + 1)
        PROVE  i <= p[i] /\ p[i] <= m + 1
    BY <1>1, <1>3
  <1>5. ASSUME NEW i \in 1..(n + 1), NEW j \in 1..(n + 1), i < j
        PROVE  p[i] < p[j]
    <2>1. i \in 1..n /\ p[i] = pos[i]
      BY <1>5
    <2>2. CASE j = n + 1
      BY <1>1, <2>1, <2>2
    <2>3. CASE j \in 1..n
      <3>1. pos[i] < pos[j] /\ p[j] = pos[j]
        BY <1>5, <2>1, <2>3 DEF Rising
      <3> QED BY <2>1, <3>1
    <2> QED BY <2>2, <2>3
  <1> HIDE DEF p
  <1>6. Rising(p, n + 1, m + 1)
    BY <1>2, <1>4, <1>5 DEF Rising
  <1> QED BY <1>6 DEF p

LEMMA PlacesStill ==
  ASSUME StackOK, DocOK, DocOK', Len(stack') \in 1..Len(stack), SameLists,
         NEW pos, Places(pos), StillOpen(pos)
  PROVE  (\E p : Places(p))'
  <1> DEFINE k == Len(stack')
  <1>1. Len(stack) \in Nat /\ k \in 1..Len(stack)
    BY TopOK
  <1>2. Depth \in Nat /\ Depth' \in Nat /\ Depth' > 0 /\ \A i \in 2..k : pos[i] <= Depth'
    <2>1. Depth \in Nat /\ Depth' \in Nat /\ Depth' > 0
      BY DepthOK DEF Depth, DocOK
    <2>2. ASSUME NEW i \in 2..k
          PROVE  pos[i] <= Depth'
      <3>1. pos[i] <= Len(doc')
        BY DEF StillOpen
      <3>2. Len(doc') \in Nat /\ Depth' >= Len(doc')
        BY DepthOK DEF Depth, DocOK
      <3>3. pos[i] \in Nat
        BY <1>1 DEF Places, Rising
      <3> QED BY <2>1, <3>1, <3>2, <3>3
    <2> QED BY <2>1, <2>2
  <1>3. PICK p : p = [i \in 1..k |-> IF i = 1 THEN 1 ELSE pos[i]]
    OBVIOUS
  <1>4. Rising(p, k, Depth')
    BY <1>1, <1>2, <1>3, RisingStill DEF Places
  <1>5. ASSUME NEW i \in 2..k
        PROVE  stack'[i].is_list <=> doc'[p[i]].open = "["
    <2>1. p[i] = pos[i] /\ i \in 2..Len(stack)
      BY <1>1, <1>3
    <2>2. stack[i].is_list <=> doc[pos[i]].open = "["
      BY <2>1 DEF Places
    <2> QED BY <2>1, <2>2 DEF StillOpen, SameLists
  <1>6. Places(p)'
    BY <1>4, <1>5 DEF Places
  <1> QED BY <1>6

\* A new node is given the bracket just opened.
LEMMA PlacesGrown ==
  ASSUME StackOK, DocOK, DocOK', Len(doc) > 0, NEW b, Opened(b),
         Grew(b), NEW pos, Places(pos)
  PROVE  (\E p : Places(p))'
  <1>1. PICK n : n = Len(stack)
    OBVIOUS
  <1>2. PICK m : m = Len(doc)
    OBVIOUS
  <1>3. n \in Nat \ {0} /\ Len(stack') = n + 1
    BY <1>1, TopOK DEF Grew
  <1>4. /\ m \in Nat /\ m > 0 /\ Depth = m
        /\ Len(doc') = m + 1 /\ Depth' = m + 1
    <2>1. m \in Nat /\ m > 0 /\ Depth = m
      BY <1>2, DepthOK DEF Depth, DocOK
    <2>2. Len(doc') = m + 1
      BY <1>2 DEF Opened
    <2>3. Len(doc') > 0 => Depth' = Len(doc')
      BY DepthOK DEF Depth, DocOK
    <2> QED BY <2>1, <2>2, <2>3
  <1>5. Rising(pos, n, m)
    BY <1>1, <1>4 DEF Places
  <1>6. PICK p : p = [i \in 1..(n + 1) |-> IF i = n + 1 THEN m + 1 ELSE pos[i]]
    OBVIOUS
  <1>7. Rising(p, n + 1, m + 1)
    BY <1>3, <1>4, <1>5, <1>6, RisingGrown
  <1>8. ASSUME NEW i \in 2..(n + 1)
        PROVE  stack'[i].is_list <=> doc'[p[i]].open = "["
    <2>1. CASE i = n + 1
      <3>1. p[i] = m + 1
        BY <1>3, <1>6, <2>1
      <3>2. stack'[i].is_list <=> b = "["
        BY <1>1, <2>1 DEF Grew
      <3>3. doc'[m + 1].open = b
        BY <1>2 DEF Opened
      <3> QED BY <3>1, <3>2, <3>3
    <2>2. CASE i \in 2..n
      <3>1. i \in 1..n /\ p[i] = pos[i] /\ pos[i] \in 1..m
        <4>1. i \in 1..n
          BY <1>3, <2>2
        <4>2. p[i] = pos[i]
          BY <1>3, <1>6, <4>1
        <4>3. pos[i] \in Nat /\ i <= pos[i] /\ pos[i] <= m
          BY <1>5, <4>1 DEF Rising
        <4> QED BY <1>4, <4>1, <4>2, <4>3
      <3>2. stack'[i] = stack[i]
        BY <1>1, <3>1 DEF Grew, Agree
      <3>3. doc'[pos[i]].open = doc[pos[i]].open
        BY <1>2, <3>1 DEF Opened, SameOpen
      <3>4. stack[i].is_list <=> doc[pos[i]].open = "["
        BY <1>1, <2>2 DEF Places
      <3> QED BY <3>1, <3>2, <3>3, <3>4
    <2> QED BY <1>3, <2>1, <2>2
  <1>9. Places(p)'
    BY <1>3, <1>4, <1>7, <1>8 DEF Places
  <1> QED BY <1>9

-----------------------------------------------------------------------------
\* One lemma per kind of event: the positions after it.
Found == (\E p : Places(p))'

\* Keys, values, and brackets nothing is pushed for leave the others open.
LEMMA FoundStill ==
  ASSUME StackOK, DocOK, DocOK', Keeps, NEW pos, Places(pos),
         Len(doc') >= Len(doc), SameOpen(doc', doc, Len(doc))
  PROVE  Found
  <1>1. Len(stack) \in Nat \ {0} /\ Len(stack') \in 1..Len(stack)
    BY TopOK DEF Keeps
  <1>2. Len(doc) \in Nat /\ Len(doc') \in Nat
    BY DepthOK DEF DocOK
  <1>3. ASSUME NEW i \in 2..Len(stack')
        PROVE  pos[i] <= Len(doc') /\ doc'[pos[i]].open = doc[pos[i]].open
    <2>1. i \in 1..Len(stack)
      BY <1>1
    <2>2. pos[i] \in Nat /\ i <= pos[i] /\ pos[i] <= Depth
      BY <2>1 DEF Places, Rising
    <2>3. (Len(doc) > 0 => Depth = Len(doc)) /\ (doc = <<>> => Depth = 1)
      BY DepthOK DEF Depth, DepthOf, DocOK
    <2>4. doc # <<>> => Len(doc) > 0
      BY DepthOK DEF DocOK
    <2>5. pos[i] \in 1..Len(doc)
      BY <1>1, <1>2, <2>2, <2>3, <2>4
    <2>6. doc'[pos[i]].open = doc[pos[i]].open
      BY <2>5 DEF SameOpen
    <2> QED BY <1>2, <2>5, <2>6
  <1>4. StillOpen(pos)
    BY <1>3 DEF StillOpen
  <1> QED BY <1>1, <1>4, PlacesStill DEF Keeps, Found

\* A closing bracket after which no node is left on it.
LEMMA FoundClosed ==
  ASSUME StackOK, DocOK, DocOK', SameLists, Len(stack') \in 1..Len(stack),
         NEW b, Closed(b), NEW pos, Places(pos),
         \A i \in 2..Len(stack') : pos[i] < Len(doc)
  PROVE  Found
  <1>1. Len(stack) \in Nat \ {0} /\ Len(doc) \in Nat
    BY TopOK, DepthOK DEF DocOK
  <1>2. ASSUME NEW i \in 2..Len(stack')
        PROVE  pos[i] <= Len(doc') /\ doc'[pos[i]].open = doc[pos[i]].open
    <2>1. i \in 1..Len(stack)
      BY <1>1
    <2>2. pos[i] \in Nat /\ i <= pos[i]
      BY <2>1 DEF Places, Rising
    <2>3. pos[i] \in 1..(Len(doc) - 1)
      BY <1>1, <2>2
    <2>4. Len(doc') = Len(doc) - 1
      BY DEF Closed
    <2> QED BY <2>3, <2>4 DEF Closed, SameOpen
  <1>3. StillOpen(pos)
    BY <1>2 DEF StillOpen
  <1> QED BY <1>3, PlacesStill DEF Found

LEMMA FoundPopped ==
  ASSUME StackOK, DocOK, DocOK', Shrinks, NEW b, Closed(b), NEW pos, Places(pos)
  PROVE  Found
  <1>1. PICK n : n = Len(stack)
    OBVIOUS
  <1>2. n \in Nat /\ n > 1 /\ Len(stack') = n - 1 /\ SameLists
    BY <1>1, TopOK DEF Shrinks
  <1>3. Len(stack') \in 1..Len(stack)
    BY <1>1, <1>2
  <1>4. PICK m : m = Len(doc)
    OBVIOUS
  <1>5. m \in Nat /\ m > 0 /\ Depth = m
    BY <1>4, DepthOK DEF Depth, DocOK, Closed
  <1>6. Rising(pos, n, m)
    BY <1>1, <1>5 DEF Places
  <1>7. ASSUME NEW i \in 2..(n - 1)
        PROVE  pos[i] < m
    <2>1. i \in 1..n /\ n \in 1..n /\ i < n
      BY <1>2
    <2>2. pos[i] \in Nat /\ pos[n] \in Nat /\ pos[n] <= m /\ pos[i] < pos[n]
      BY <1>6, <2>1 DEF Rising
    <2> QED BY <1>5, <2>2
  <1>8. \A i \in 2..Len(stack') : pos[i] < Len(doc)
    BY <1>2, <1>4, <1>7
  <1> QED BY <1>2, <1>3, <1>8, FoundClosed

\* A "]" that closes no node: the node on top is not a list, so that the
\* bracket was not its own.
LEMMA FoundUnpopped ==
  ASSUME StackOK, DocOK, DocOK', Keeps, Closed("["), ~Top.is_list,
         NEW pos, Places(pos)
  PROVE  Found
  <1>1. PICK n : n = Len(stack)
    OBVIOUS
  <1>2. n \in Nat \ {0} /\ Len(stack') = n /\ SameLists
    BY <1>1, TopOK DEF Keeps
  <1>3. Len(stack') \in 1..Len(stack)
    BY <1>1, <1>2
  <1>4. PICK m : m = Len(doc)
    OBVIOUS
  <1>5. m \in Nat /\ m > 0 /\ Depth = m
    BY <1>4, DepthOK DEF Depth, DocOK, Closed
  <1>6. Rising(pos, n, m)
    BY <1>1, <1>5 DEF Places
  <1>7. n > 1 => pos[n] # m
    <2> SUFFICES ASSUME n > 1, pos[n] = m
                 PROVE  FALSE
      OBVIOUS
    <2>1. n \in 2..Len(stack)
      BY <1>1, <1>2
    <2>2. ~stack[n].is_list
      BY <1>1, <2>1 DEF Top
    <2>3. doc[m].open = "["
      BY <1>4 DEF Closed
    <2>4. stack[n].is_list <=> doc[pos[n]].open = "["
      BY <2>1 DEF Places
    <2> QED BY <2>2, <2>3, <2>4
  <1>8. ASSUME NEW i \in 2..n
        PROVE  pos[i] < m
    <2>1. i \in 1..n /\ n \in 1..n /\ n > 1
      BY <1>2
    <2>2. pos[i] \in Nat /\ pos[n] \in Nat /\ pos[n] <= m
      BY <1>6, <2>1 DEF Rising
    <2>3. i < n => pos[i] < pos[n]
      BY <1>6, <2>1 DEF Rising
    <2>4. pos[n] < m
      BY <1>5, <1>7, <2>1, <2>2
    <2> QED BY <1>2, <1>5, <2>2, <2>3, <2>4
  <1>9. \A i \in 2..Len(stack') : pos[i] < Len(doc)
    BY <1>2, <1>4, <1>8
  <1> QED BY <1>2, <1>3, <1>9, FoundClosed

-----------------------------------------------------------------------------
\* A step inside a document.  Only what handles an event leads back to
\* "parsing", and the first event is counted.
Handlers == \/ start_object \/ end_object \/ start_array \/ end_array
            \/ \E k \in Key : key(k)
            \/ \E tok \in Token : set_value(tok)
            \/ null

LEMMA HandlersEvents ==
  ASSUME Inv, Handlers
  PROVE  Fresher /\ status = "parsing" /\ nev' # 0
  <1>1. Fresher
    BY DEF Handlers, start_object, start_object_member, start_object_element,
           start_object_skipped, end_object, end_object_root, end_object_nested,
           start_array, start_array_member, start_array_element, start_array_refused,
           start_array_skipped, end_array, end_array_list, end_array_skipped,
           key, set_value, null, EvOpen, EvClose, EvKey, EvScalar, EvNull
  <1>2. nev \in Nat
    BY DEF Inv, DocOK
  <1>3. nev' = nev + 1
    BY <1>1 DEF Fresher
  <1>4. nev' # 0
    BY <1>2, <1>3
  <1> QED BY <1>1, <1>4 DEF Fresher

\* Something is pushed only for a bracket inside another one.
LEMMA PushedInside ==
  ASSUME Inv, Placed, NEW b \in {"{", "["}, EvOpen(b), active_key # NoKey
  PROVE  Len(doc) > 0
  <1>1. doc # <<>>
    BY DEF Placed, EvOpen, Fresher, ValueDue
  <1> QED BY <1>1, DepthOK DEF Inv, DocOK

LEMMA FoundAfterOpen ==
  ASSUME Inv, DocOK', Placed, start_object \/ start_array, NEW pos, Places(pos)
  PROVE  Found
  <1>1. PICK b : b \in {"{", "["} /\ EvOpen(b) /\ (Stays \/ Grew(b))
    <2>1. CASE start_object
      <3>1. EvOpen("{")
        BY <2>1 DEF start_object, start_object_member, start_object_element, start_object_skipped
      <3> QED BY <2>1, <3>1, ObjectsGrow
    <2>2. CASE start_array
      <3>1. EvOpen("[")
        BY <2>2 DEF start_array, start_array_member, start_array_element,
                    start_array_refused, start_array_skipped
      <3> QED BY <2>2, <3>1, ArraysGrow
    <2> QED BY <2>1, <2>2
  <1>2. Opened(b) /\ StackOK /\ DocOK
    BY <1>1, OpenOpens DEF Inv
  <1>3. CASE Stays
    <2>1. Keeps
      BY <1>3, OthersKeep
    <2>2. Len(doc') >= Len(doc) /\ SameOpen(doc', doc, Len(doc))
      <3>1. Len(doc) \in Nat
        BY <1>2, DepthOK DEF DocOK
      <3>2. Len(doc') = Len(doc) + 1 /\ SameOpen(doc', doc, Len(doc))
        BY <1>2 DEF Opened
      <3>3. \A n \in Nat : n + 1 >= n
        OBVIOUS
      <3> QED BY <3>1, <3>2, <3>3
    <2> QED BY <1>2, <2>1, <2>2, FoundStill
  <1>4. CASE Grew(b)
    <2>1. Len(doc) > 0
      BY <1>1, <1>4, PushedInside DEF Grew
    <2> QED BY <1>2, <1>4, <2>1, PlacesGrown DEF Found
  <1> QED BY <1>1, <1>3, <1>4

LEMMA FoundAfterClose ==
  ASSUME Inv, DocOK', end_object \/ end_array, NEW pos, Places(pos)
  PROVE  Found
  <1>0. StackOK /\ DocOK /\ Len(stack) \in Nat \ {0}
    BY TopOK DEF Inv
  <1>1. PICK b : b \in {"{", "["} /\ EvClose(b)
    <2>1. CASE end_object
      BY <2>1 DEF end_object, end_object_root, end_object_nested
    <2>2. CASE end_array
      BY <2>2 DEF end_array, end_array_list, end_array_skipped
    <2> QED BY <2>1, <2>2
  <1>2. Closed(b)
    BY <1>0, <1>1, CloseCloses
  <1>3. CASE Pops
    BY <1>0, <1>2, <1>3, PopsShrink, FoundPopped
  <1>4. CASE end_object_root
    <2>1. Stays /\ Len(stack) = 1
      BY <1>4 DEF end_object_root, Stays
    <2>2. SameLists /\ Len(stack') \in 1..Len(stack) /\ Len(stack') = 1
      BY <1>0, <2>1, OthersKeep DEF Keeps
    <2>3. \A i \in 2..Len(stack') : pos[i] < Len(doc)
      BY <2>2
    <2> QED BY <1>0, <1>2, <2>2, <2>3, FoundClosed
  <1>5. CASE end_array_skipped
    <2>1. Stays /\ ~Top.is_list /\ EvClose("[")
      BY <1>5 DEF end_array_skipped, Stays
    <2>2. Keeps /\ Closed("[")
      BY <1>0, <2>1, OthersKeep, CloseCloses
    <2> QED BY <1>0, <2>1, <2>2, FoundUnpopped
  <1>6. CASE end_object_nested \/ end_array_list
    BY <1>3, <1>6, NestedPops, ListPops
  <1> QED BY <1>4, <1>5, <1>6 DEF end_object, end_array

LEMMA FoundAfterValue ==
  ASSUME Inv, DocOK', NEW pos, Places(pos),
         \/ \E k \in Key : key(k)
         \/ \E tok \in Token : set_value(tok)
         \/ null
  PROVE  Found
  <1>1. Keeps
    <2>1. Sets \/ Names \/ Stays
      BY Scalars, Keys, Ends
    <2> QED BY <2>1, OthersKeep
  <1>2. Inside
    <2>1. DocOK
      BY DEF Inv
    <2>2. (\E k \in Key : EvKey(k)) \/ (\E tok : EvScalar(tok)) \/ EvNull
      BY DEF key, set_value, null
    <2> QED BY <2>1, <2>2, OthersInside
  <1>3. Len(doc') >= Len(doc)
    <2>1. Len(doc) \in Nat
      BY DepthOK DEF Inv, DocOK
    <2> QED BY <1>2, <2>1 DEF Inside
  <1> QED BY <1>1, <1>2, <1>3, FoundStill DEF Inv, Inside

LEMMA PlacedHandlers ==
  ASSUME Inv, DocOK', Placed, Handlers
  PROVE  Placed'
  <1>1. status = "parsing" /\ nev' # 0
    BY HandlersEvents
  <1>2. PICK pos : Places(pos)
    BY <1>1 DEF Placed
  <1>3. Found
    <2>1. CASE start_object \/ start_array
      BY <1>2, <2>1, FoundAfterOpen
    <2>2. CASE end_object \/ end_array
      BY <1>2, <2>2, FoundAfterClose
    <2>3. CASE \/ \E k \in Key : key(k)
               \/ \E tok \in Token : set_value(tok)
               \/ null
      BY <1>2, <2>3, FoundAfterValue
    <2> QED BY <2>1, <2>2, <2>3 DEF Handlers
  <1> QED BY <1>1, <1>3 DEF Placed, Found

\* A parse begins with the root's node, before the first bracket.
LEMMA PlacedBegin ==
  ASSUME Inv, parse
  PROVE  Placed'
  <1>1. doc' = <<>> /\ active_key' = NoKey /\ stack' = <<RootNode>>
    BY DEF parse, EvBegin
  <1>2. PICK p : p = [i \in 1..1 |-> 1]
    OBVIOUS
  <1>3. Len(stack') = 1 /\ Depth' = 1
    BY <1>1 DEF Depth, DepthOf
  <1>4. Rising(p, 1, 1)
    BY <1>2 DEF Rising
  <1>5. Places(p)'
    BY <1>3, <1>4 DEF Places
  <1> QED BY <1>1, <1>5 DEF Placed

LEMMA PlacedNext ==
  ASSUME Inv, Inv', Placed, [Next]_vars
  PROVE  Placed'
  <1>1. CASE parse
    BY <1>1, PlacedBegin
  <1>2. CASE finish \/ parse_error
    <2>1. status' # "parsing"
      BY <1>2 DEF finish, parse_error, EvFinish, EvError
    <2> QED BY <2>1 DEF Placed
  <1>3. CASE Handlers
    BY <1>3, PlacedHandlers DEF Inv
  <1>4. CASE UNCHANGED vars
    BY <1>4 DEF vars, Placed, Places, Depth
  <1> QED BY <1>1, <1>2, <1>3, <1>4 DEF Next, Handlers

\* No node outlives the bracket it was pushed for, whatever the schema and
\* the document: while the parser is at work there are never more nodes than
\* open brackets, although its closing handlers go by the node on top and not
\* by the bracket that closed.
THEOREM NodesWithinDocument == Spec => []StackWithinDocument
  <1>1. Init => Placed
    BY DEF Init, Placed
  <1>2. Inv /\ Inv' /\ Placed /\ [Next]_vars => Placed'
    BY PlacedNext
  <1>3. Inv /\ Placed => StackWithinDocument
    <2> SUFFICES ASSUME Inv, Placed, status = "parsing"
                 PROVE  Len(stack) <= (IF doc = <<>> THEN 1 ELSE Len(doc))
      BY DEF StackWithinDocument
    <2>1. PICK pos : Rising(pos, Len(stack), Depth)
      BY DEF Placed, Places
    <2>2. PICK n : n = Len(stack)
      OBVIOUS
    <2>3. n \in Nat \ {0}
      BY <2>2, TopOK DEF Inv
    <2>4. PICK d : d = Depth
      OBVIOUS
    <2>5. d \in Nat
      BY <2>4, DepthOK DEF Inv, DocOK, Depth
    <2>6. n <= pos[n] /\ pos[n] <= d /\ pos[n] \in Nat
      BY <2>1, <2>2, <2>3, <2>4 DEF Rising
    <2>7. n <= d
      BY <2>3, <2>5, <2>6
    <2> QED BY <2>2, <2>4, <2>7 DEF Depth, DepthOf
  <1>4. Spec => []Placed
    BY <1>1, <1>2, InvInvariant, PTL DEF Spec
  <1> QED BY <1>3, <1>4, InvInvariant, PTL

-----------------------------------------------------------------------------
(* Documents that conform to the schema: stack and shared key follow the   *)
(* document, and no handler refuses it, for every schema.  The invariant   *)
(* says of each node what a reader of its bracket must be (Reads), of each *)
(* node and the one above it how they are nested (Nests), and which key    *)
(* the nodes' one active_key holds (KeyDue).                               *)

Container == Class \cup List \cup Map

\* The node n is the one to read the value of bracket b.  What the AST says of
\* a container's elements matters only where they are brackets themselves.
Reads(n, b) ==
  /\ b.ty \in Container /\ n.ty = b.ty
  /\ b.open = "[" <=> b.ty \in List
  /\ n.is_list <=> b.ty \in List
  /\ n.is_map <=> b.ty \in Map
  /\ b.ty \in Class => n.val_astid = b.ty /\ b.ty \in Asts
  /\ b.ty \in List \cup Map /\ Elem[b.ty].id \in Container => n.val_astid = Elem[b.ty].id
  /\ b.ty \in List /\ Elem[b.ty].id \in Container => n.is_val_ptr = Elem[b.ty].ptr
  /\ b.ty \in List => b.key = NoKey

\* The node n is above the node p.
Nests(p, n) ==
  /\ p.ty \in List => n.activekey = p.activekey
  /\ p.ty \in List \cup Map => /\ n.ty = Elem[p.ty].id /\ n.ty \notin Map
                               /\ n.ty \in List => n.ty \in VarCtor
  /\ p.ty \in List /\ Elem[p.ty].ptr /\ n.ty \in Class => n.ty \in CreatePtr

\* The key k is the one the next value in bracket b needs.
KeyDue(k, n, b) == IF b.ty \in List THEN k = n.activekey ELSE b.key # NoKey => k = b.key

Follow(s, d, k) ==
  /\ Len(s) = Len(d)
  /\ \A i \in 1..Len(d) : Reads(s[i], d[i])
  /\ \A i \in 1..(Len(d) - 1) : Nests(s[i], s[i + 1])
  /\ KeyDue(k, s[Len(d)], d[Len(d)])

\* The inductive invariant.
Conforms ==
  Conforming /\ status = "parsing" =>
    IF doc = <<>> THEN nev = 0 => stack = <<RootNode>> /\ active_key = NoKey
    ELSE Follow(stack, doc, active_key)

-----------------------------------------------------------------------------
\* The shapes exclude each other, and the types of the schema are typed.
LEMMA Shapes ==
  /\ Class \cap List = {} /\ Class \cap Map = {} /\ List \cap Map = {}
  /\ Container \subseteq TypeId /\ Untyped \notin Container
  /\ Asts \cap Map = {} /\ RootType \in Class
  /\ \A t \in List \cup Map : Elem[t].id \in TypeId /\ Elem[t].ptr \in BOOLEAN
  BY SchemaAssumption, BoundsAssumption DEF Container, Class, List, Map

\* The same nodes, but for their map keys, read the same brackets, but for the
\* keys read in them.
SameNode(t, s) == /\ t.ty = s.ty /\ t.val_astid = s.val_astid /\ t.is_val_ptr = s.is_val_ptr
                  /\ t.is_list = s.is_list /\ t.is_map = s.is_map /\ t.activekey = s.activekey
SameBracket(e, d) == /\ e.ty = d.ty /\ e.open = d.open
                     /\ e.key = d.key \/ e.key = NoKey \/ d.open = "{"

LEMMA ReadsStill ==
  ASSUME NEW s, NEW t, NEW d, NEW e, Reads(s, d), SameNode(t, s), SameBracket(e, d)
  PROVE  Reads(t, e)
  <1>1. e.ty \in List => e.key = NoKey
    BY DEF Reads, SameBracket
  <1>2. e.ty = d.ty /\ e.open = d.open
    BY DEF SameBracket
  <1> QED BY <1>1, <1>2 DEF Reads, SameNode

LEMMA NestsStill ==
  ASSUME NEW p, NEW n, NEW q, NEW o, Nests(p, n), SameNode(q, p), SameNode(o, n)
  PROVE  Nests(q, o)
  BY DEF Nests, SameNode

\* The lowest m nodes go on following the lowest m brackets.
LEMMA FollowStill ==
  ASSUME NEW s, NEW d, NEW k, Follow(s, d, k), NEW t, NEW e, NEW j,
         NEW m \in Nat \ {0}, Len(d) \in Nat, m <= Len(d), Len(t) = m, Len(e) = m,
         \A i \in 1..m : SameNode(t[i], s[i]),
         \A i \in 1..m : SameBracket(e[i], d[i]),
         KeyDue(j, t[m], e[m])
  PROVE  Follow(t, e, j)
  <1>1. PICK l \in Nat : l = Len(d)
    OBVIOUS
  <1>2. \A i \in 1..m : i \in 1..l
    BY <1>1
  <1>3. \A i \in 1..(m - 1) : i \in 1..(l - 1) /\ i \in 1..m /\ i + 1 \in 1..m
    BY <1>1
  <1>4. \A i \in 1..m : Reads(t[i], e[i])
    BY <1>1, <1>2, ReadsStill DEF Follow
  <1>5. \A i \in 1..(m - 1) : Nests(t[i], t[i + 1])
    BY <1>1, <1>3, NestsStill DEF Follow
  <1> QED BY <1>4, <1>5 DEF Follow

\* One more node above for one more bracket.
LEMMA FollowGrown ==
  ASSUME NEW s, NEW d, NEW k, Follow(s, d, k), NEW t, NEW e, NEW j,
         NEW m \in Nat \ {0}, Len(d) = m, Len(t) = m + 1, Len(e) = m + 1,
         Agree(t, s, m), Agree(e, d, m),
         Reads(t[m + 1], e[m + 1]), Nests(s[m], t[m + 1]),
         KeyDue(j, t[m + 1], e[m + 1])
  PROVE  Follow(t, e, j)
  <1>1. \A i \in 1..(m + 1) : i \in 1..m \/ i = m + 1
    OBVIOUS
  <1>2. \A i \in 1..m : (i \in 1..(m - 1) /\ i + 1 \in 1..m) \/ i = m
    OBVIOUS
  <1>3. m \in 1..m
    OBVIOUS
  <1>4. \A i \in 1..(m + 1) : Reads(t[i], e[i])
    BY <1>1 DEF Follow, Agree
  <1>5. \A i \in 1..m : Nests(t[i], t[i + 1])
    <2> SUFFICES ASSUME NEW i \in 1..m
                 PROVE  Nests(t[i], t[i + 1])
      OBVIOUS
    <2>1. t[i] = s[i]
      BY DEF Agree
    <2>2. CASE i \in 1..(m - 1) /\ i + 1 \in 1..m
      BY <2>1, <2>2 DEF Follow, Agree
    <2>3. CASE i = m
      BY <2>1, <2>3
    <2> QED BY <1>2, <2>2, <2>3
  <1>6. Len(e) - 1 = m
    OBVIOUS
  <1> QED BY <1>4, <1>5, <1>6 DEF Follow

-----------------------------------------------------------------------------
\* The lexer, on a document that conforms.
Bracketed(b, t) == [open |-> b, ty |-> t, key |-> NoKey]
OpenedAs(b, t) == /\ Len(doc') = Len(doc) + 1 /\ doc'[Len(doc) + 1] = Bracketed(b, t)
                  /\ Agree(doc', doc, Len(doc))

LEMMA AppendedBracket ==
  ASSUME DocOK, NEW b \in {"{", "["}, NEW t \in TypeId, doc' = Append(doc, Bracketed(b, t))
  PROVE  OpenedAs(b, t)
  <1>1. Bracketed(b, t) \in Bracket
    BY DEF Bracketed, Bracket
  <1>2. doc \in Seq(Bracket)
    BY DEF DocOK
  <1> QED BY <1>1, <1>2, AppendLonger DEF OpenedAs

LEMMA ObjectOpens ==
  ASSUME DocOK, Conforming, EvOpen("{")
  PROVE  /\ OpenedAs("{", DueType)
         /\ DueType \in (Class \cap Asts) \cup Map
         /\ Within(Class) => find_field_astid(Last(doc).ty, Last(doc).key) = DueType
         /\ DueType \in Map => Within(Class)
         /\ Within(List) /\ Elem[Last(doc).ty].ptr => DueType \in CreatePtr
  <1>1. Opens("{", DueType)
    BY DEF EvOpen
  <1>2. /\ DueType \in (Class \cap Asts) \cup Map
        /\ Within(Class) => find_field_astid(Last(doc).ty, Last(doc).key) = DueType
        /\ DueType \in Map => Within(Class)
        /\ Within(List) /\ Elem[Last(doc).ty].ptr => DueType \in CreatePtr
    BY <1>1 DEF Opens, Agreed
  <1>3. DueType \in TypeId /\ Kind[DueType] \in {"object", "map"}
    BY <1>2 DEF Class, Map
  <1>4. doc' = Append(doc, Bracketed("{", DueType))
    BY <1>3 DEF EvOpen, Bracketed
  <1> QED BY <1>2, <1>3, <1>4, AppendedBracket

LEMMA ArrayOpens ==
  ASSUME DocOK, Conforming, EvOpen("[")
  PROVE  /\ OpenedAs("[", DueType) /\ DueType \in List
         /\ \/ Within(Class) => find_field_astid(Last(doc).ty, Last(doc).key) = DueType
            \/ Elem[DueType].id \notin Container
         /\ ~Within(Class) => doc # <<>> /\ DueType \in VarCtor
  <1>1. Opens("[", DueType)
    BY DEF EvOpen
  <1>2. /\ DueType \in List
        /\ \/ Within(Class) => find_field_astid(Last(doc).ty, Last(doc).key) = DueType
           \/ Elem[DueType].id \notin Container
        /\ ~Within(Class) => doc # <<>> /\ DueType \in VarCtor
    BY <1>1 DEF Opens, Agreed, Container
  <1>3. DueType \in TypeId /\ Kind[DueType] \in {"list"}
    BY <1>2 DEF List
  <1>4. doc' = Append(doc, Bracketed("[", DueType))
    BY <1>3 DEF EvOpen, Bracketed
  <1> QED BY <1>2, <1>3, <1>4, AppendedBracket

\* The brackets below one that closes.
LEMMA GivenBrackets ==
  ASSUME NEW d \in Seq(Bracket)
  PROVE  /\ Len(Given(d)) = Len(d)
         /\ \A i \in 1..Len(d) : SameBracket(Given(d)[i], d[i])
         /\ d # <<>> => Given(d)[Len(d)].key = NoKey
  <1>1. CASE d = <<>>
    BY <1>1 DEF Given
  <1>2. CASE d # <<>>
    <2> DEFINE l == Len(d)
               b == [d[l] EXCEPT !.key = NoKey]
    <2>1. l \in 1..l /\ d[l] \in Bracket
      BY <1>2, LastOK
    <2>2. b \in Bracket /\ b.key = NoKey /\ SameBracket(b, d[l])
      BY <2>1 DEF Bracket, SameBracket
    <2>3. Given(d) = [d EXCEPT ![l] = b]
      BY <1>2 DEF Given
    <2>4. /\ Len([d EXCEPT ![l] = b]) = Len(d)
          /\ \A i \in 1..Len(d) : [d EXCEPT ![l] = b][i] = IF i = l THEN b ELSE d[i]
      <3> HIDE DEF b, l
      <3> QED BY <2>1, <2>2, ExceptSeq
    <2>5. \A i \in 1..Len(d) : SameBracket(d[i], d[i])
      BY DEF SameBracket
    <2> HIDE DEF b, l
    <2>6. \A i \in 1..Len(d) : SameBracket(Given(d)[i], d[i])
      BY <2>2, <2>3, <2>4, <2>5
    <2>7. Given(d)[l].key = NoKey
      BY <2>1, <2>2, <2>3, <2>4 DEF l
    <2> QED BY <2>3, <2>4, <2>6, <2>7 DEF l
  <1> QED BY <1>1, <1>2

LEMMA ClosedBrackets ==
  ASSUME DocOK, NEW b, EvClose(b)
  PROVE  /\ Len(doc) \in Nat \ {0} /\ doc[Len(doc)].open = b
         /\ Len(doc') = Len(doc) - 1
         /\ \A i \in 1..(Len(doc) - 1) : SameBracket(doc'[i], doc[i])
         /\ Len(doc) > 1 => doc'[Len(doc) - 1].key = NoKey
  <1> DEFINE n == Len(doc) - 1
             f == Front(doc)
  <1>1. doc \in Seq(Bracket) /\ doc # <<>>
    BY DEF DocOK, EvClose
  <1>2. Len(doc) \in Nat \ {0}
    BY <1>1, LengthOK
  <1>3. f \in Seq(Bracket) /\ Len(f) = n /\ Agree(f, doc, n)
    BY <1>1, FrontShorter
  <1>4. doc' = Given(f) /\ doc[Len(doc)].open = b
    BY DEF EvClose, Last
  <1>5. Len(doc) > 1 => n # 0
    <2>1. \A m \in Nat : m > 1 => m - 1 # 0
      OBVIOUS
    <2> QED BY <1>2, <2>1
  <1> HIDE DEF f, n
  <1>6. /\ Len(Given(f)) = n /\ \A i \in 1..n : SameBracket(Given(f)[i], f[i])
        /\ f # <<>> => Given(f)[n].key = NoKey
    BY <1>3, GivenBrackets
  <1>7. f = <<>> => n = 0
    BY <1>3, EmptySeq
  <1>8. Len(doc) > 1 => doc'[n].key = NoKey
    BY <1>4, <1>5, <1>6, <1>7
  <1>9. Len(doc') = n /\ \A i \in 1..n : SameBracket(doc'[i], doc[i])
    BY <1>3, <1>4, <1>6 DEF Agree
  <1> QED BY <1>2, <1>4, <1>8, <1>9 DEF n

LEMMA ValueBrackets ==
  ASSUME DocOK, NEW d, d = doc, doc' = Given(d)
  PROVE  /\ Len(doc') = Len(doc) /\ \A i \in 1..Len(doc) : SameBracket(doc'[i], doc[i])
         /\ doc # <<>> => doc'[Len(doc)].key = NoKey
  BY GivenBrackets DEF DocOK

LEMMA KeyBrackets ==
  ASSUME DocOK, NEW k \in Key, EvKey(k)
  PROVE  /\ Len(doc) \in Nat \ {0} /\ doc[Len(doc)].open = "{" /\ doc'[Len(doc)].key = k
         /\ Len(doc') = Len(doc) /\ \A i \in 1..Len(doc) : SameBracket(doc'[i], doc[i])
  <1> DEFINE l == Len(doc)
             b == [doc[l] EXCEPT !.key = k]
  <1>1. doc \in Seq(Bracket) /\ doc # <<>>
    BY DEF DocOK, EvKey
  <1>2. l \in 1..l /\ doc[l] \in Bracket /\ l \in Nat \ {0}
    BY <1>1, LastOK, LengthOK
  <1>3. doc' = [doc EXCEPT ![l] = b] /\ doc[l].open = "{"
    BY DEF EvKey, Last
  <1>4. b \in Bracket /\ b.key = k /\ SameBracket(b, doc[l])
    BY <1>2, <1>3 DEF Bracket, SameBracket
  <1>5. /\ Len([doc EXCEPT ![l] = b]) = Len(doc)
        /\ \A i \in 1..Len(doc) : [doc EXCEPT ![l] = b][i] = IF i = l THEN b ELSE doc[i]
    <2> HIDE DEF b, l
    <2> QED BY <1>1, <1>2, <1>4, ExceptSeq
  <1>6. \A i \in 1..Len(doc) : SameBracket(doc[i], doc[i])
    BY DEF SameBracket
  <1> HIDE DEF b, l
  <1>7. \A i \in 1..Len(doc) : SameBracket(doc'[i], doc[i])
    BY <1>3, <1>4, <1>5, <1>6
  <1>8. doc'[l].key = k
    BY <1>2, <1>3, <1>4, <1>5 DEF l
  <1> QED BY <1>2, <1>3, <1>5, <1>7, <1>8 DEF l

-----------------------------------------------------------------------------
\* Where a value is due, the top node reads the innermost bracket and the
\* shared key is active.
LEMMA TopReads ==
  ASSUME Inv, doc # <<>>, Follow(stack, doc, active_key)
  PROVE  /\ Reads(Top, Last(doc)) /\ KeyDue(active_key, Top, Last(doc))
         /\ Len(stack) = Len(doc) /\ Len(stack) \in Nat \ {0}
         /\ Last(doc) = doc[Len(doc)] /\ Top = stack[Len(doc)]
  <1>1. Len(stack) = Len(doc) /\ Len(stack) \in Nat \ {0}
    BY TopOK DEF Inv, Follow
  <1>2. Len(doc) \in 1..Len(doc)
    BY <1>1
  <1> QED BY <1>1, <1>2 DEF Follow, Top, Last

LEMMA KeyActive ==
  ASSUME Inv, doc # <<>>, Follow(stack, doc, active_key), ValueDue
  PROVE  /\ active_key # NoKey
         /\ Last(doc).ty \in List => active_key = Top.activekey
         /\ Last(doc).ty \notin List => active_key = Last(doc).key
  <1>1. Reads(Top, Last(doc)) /\ KeyDue(active_key, Top, Last(doc)) /\ Len(stack) \in Nat \ {0}
    BY TopReads
  <1>2. CASE Last(doc).ty \in List
    <2>1. active_key = Top.activekey /\ Top.is_list
      BY <1>1, <1>2 DEF Reads, KeyDue
    <2>2. Len(stack) # 1
      <3> SUFFICES ASSUME Len(stack) = 1
                   PROVE  FALSE
        OBVIOUS
      <3>1. Top = [RootNode EXCEPT !.map_key = Top.map_key]
        BY DEF Inv, RootKept, Top
      <3>2. Top.is_list = FALSE
        BY <3>1 DEF RootNode, ParseNode
      <3> QED BY <2>1, <3>2
    <2>3. \A n \in Nat \ {0} : n # 1 => n \in 2..n
      OBVIOUS
    <2>4. Top.activekey # NoKey
      BY <1>1, <2>2, <2>3 DEF Inv, RootKept, Top
    <2> QED BY <1>2, <2>1, <2>4
  <1>3. CASE Last(doc).ty \notin List
    <2>1. Last(doc).open # "["
      BY <1>1, <1>3 DEF Reads
    <2>2. Last(doc).key # NoKey
      BY <2>1 DEF ValueDue
    <2> QED BY <1>1, <1>3, <2>2 DEF KeyDue
  <1> QED BY <1>2, <1>3

LEMMA MemberDue ==
  ASSUME doc # <<>>, DueType \in TypeId
  PROVE  /\ Last(doc).ty \in Class => /\ Last(doc).key \in DOMAIN Meta[Last(doc).ty]
                                      /\ DueType = Meta[Last(doc).ty][Last(doc).key]
         /\ Last(doc).ty \in List \cup Map => DueType = Elem[Last(doc).ty].id
  <1>1. Class \cap List = {} /\ Class \cap Map = {}
    BY Shapes
  <1>2. DueType = MemberType(Last(doc).ty, Last(doc).key) /\ Untyped \notin TypeId
    BY BoundsAssumption DEF DueType
  <1> QED BY <1>1, <1>2 DEF MemberType

-----------------------------------------------------------------------------
\* The node a bracket inside another one pushes is the one to read it, into a
\* copy of the member it is for or into a new element.
PushedContent == IF Top.ty \in Class THEN TopInst[active_key] ELSE Fresh[DueType]
Reader(b) == \E node :
  /\ Push(node, PushedContent)
  /\ Reads(node, Bracketed(b, DueType)) /\ Nests(Top, node) /\ node.activekey = active_key

LEMMA ObjectReader ==
  ASSUME Inv, Conforming, doc # <<>>, Follow(stack, doc, active_key), start_object
  PROVE  Reader("{") /\ UNCHANGED <<active_key, status>>
  <1>0. EvOpen("{") /\ UNCHANGED <<active_key, status>>
    BY DEF start_object, start_object_member, start_object_element, start_object_skipped
  <1>1. Reads(Top, Last(doc)) /\ DocOK
    BY TopReads DEF Inv
  <1>2. /\ DueType \in (Class \cap Asts) \cup Map
        /\ Within(Class) => find_field_astid(Last(doc).ty, Last(doc).key) = DueType
        /\ DueType \in Map => Within(Class)
        /\ Within(List) /\ Elem[Last(doc).ty].ptr => DueType \in CreatePtr
    BY <1>0, <1>1, ObjectOpens
  <1>3. /\ Class \cap List = {} /\ Class \cap Map = {} /\ List \cap Map = {}
        /\ Container \subseteq TypeId /\ Asts \cap Map = {}
    BY Shapes
  <1>4. DueType \in Container /\ DueType \in TypeId
    BY <1>2, <1>3 DEF Container
  <1>5. /\ active_key # NoKey
        /\ Last(doc).ty \in List => active_key = Top.activekey
        /\ Last(doc).ty \notin List => active_key = Last(doc).key
    <2>1. ValueDue
      BY <1>0 DEF EvOpen
    <2> QED BY <2>1, KeyActive
  <1>6. Last(doc).ty = Top.ty /\ Top.ty \in Container
    BY <1>1 DEF Reads
  <1>7. /\ Top.ty \in Class => Last(doc).key \in DOMAIN Meta[Top.ty] /\ DueType = Meta[Top.ty][Last(doc).key]
        /\ Top.ty \in List \cup Map => DueType = Elem[Top.ty].id
    BY <1>4, <1>6, MemberDue
  <1>8. CASE Top.ty \in Class
    <2>1. Top.val_astid = Top.ty /\ Top.ty \in Asts /\ active_key = Last(doc).key
      BY <1>1, <1>3, <1>5, <1>6, <1>8 DEF Reads
    <2>2. find_field_recursive(Top.ty, active_key) /\ DueType = Meta[Top.ty][active_key]
      BY <1>7, <1>8, <2>1 DEF find_field_recursive
    <2>3. start_object_member
      BY <1>5, <2>1, <2>2 DEF start_object, start_object_element, start_object_skipped
    <2>4. find_field_astid(Top.val_astid, active_key) = DueType
      BY <1>2, <1>6, <1>8, <2>1 DEF Within
    <2> DEFINE copy == TopInst[active_key]
    <2>5. IF DueType \in Asts
          THEN Push(ParseNode(DueType, DueType, FALSE, FALSE, FALSE, active_key), copy)
          ELSE push_map(DueType, copy, active_key, DueType)
      BY <2>2, <2>3, <2>4 DEF start_object_member
    <2>0. copy = PushedContent
      BY <1>8 DEF PushedContent
    <2> HIDE DEF copy
    <2>6. \A n : Nests(Top, n)
      BY <1>3, <1>8 DEF Nests
    <2>7. CASE DueType \in Class \cap Asts
      <3> DEFINE node == ParseNode(DueType, DueType, FALSE, FALSE, FALSE, active_key)
      <3>1. Reads(node, Bracketed("{", DueType)) /\ node.activekey = active_key
        BY <1>3, <1>4, <2>7 DEF Reads, Bracketed, ParseNode
      <3>2. Push(node, copy)
        BY <2>5, <2>7
      <3> HIDE DEF node
      <3> QED BY <1>0, <2>0, <2>6, <3>1, <3>2 DEF Reader
    <2>8. CASE DueType \in Map
      <3> DEFINE node == ParseNode(DueType, Elem[DueType].id, Elem[DueType].ptr, FALSE, TRUE, active_key)
      <3>1. Reads(node, Bracketed("{", DueType)) /\ node.activekey = active_key
        BY <1>3, <1>4, <2>8 DEF Reads, Bracketed, ParseNode
      <3>2. DueType \notin Asts /\ DueType # NoAst
        BY <1>3, <1>4, <2>8, SchemaAssumption
      <3>3. Push(node, copy)
        <4>1. push_map(DueType, copy, active_key, DueType)
          BY <2>5, <3>2
        <4>2. parseMapValtype(DueType) = Elem[DueType]
          BY <2>8 DEF parseMapValtype
        <4>3. (IF DueType = NoAst THEN [id |-> NoAst, ptr |-> FALSE] ELSE parseMapValtype(DueType))
                = Elem[DueType]
          BY <3>2, <4>2
        <4> QED BY <4>1, <4>3 DEF push_map
      <3> HIDE DEF node
      <3> QED BY <1>0, <2>0, <2>6, <3>1, <3>3 DEF Reader
    <2> QED BY <1>2, <2>7, <2>8
  <1>9. CASE Top.ty \in List \cup Map
    <2>1. /\ DueType \in Class \cap Asts /\ Top.val_astid = DueType
          /\ Top.is_list <=> Top.ty \in List
          /\ Top.is_map <=> Top.ty \in Map
      <3>1. ~Within(Class)
        BY <1>3, <1>6, <1>9 DEF Within
      <3>2. DueType \in Class \cap Asts
        BY <1>2, <3>1
      <3> QED BY <1>1, <1>4, <1>6, <1>7, <1>9, <3>2 DEF Reads
    <2>2. ~find_field_recursive(Top.ty, active_key) /\ Kind[DueType] # "none"
      BY <1>3, <1>9, <2>1 DEF find_field_recursive, Class
    <2>3. start_object_element
      BY <1>5, <1>9, <2>1, <2>2 DEF start_object, start_object_member, start_object_skipped
    <2> DEFINE node == ParseNode(DueType, DueType, FALSE, FALSE, FALSE, active_key)
    <2>4. Push(node, PushedContent)
      BY <1>3, <1>9, <2>1, <2>3 DEF start_object_element, PushedContent
    <2>5. Reads(node, Bracketed("{", DueType)) /\ node.activekey = active_key /\ node.ty = DueType
      BY <1>3, <1>4, <2>1 DEF Reads, Bracketed, ParseNode
    <2> HIDE DEF node
    <2>6. Nests(Top, node)
      <3>1. Top.ty \in List /\ Elem[Top.ty].ptr => DueType \in CreatePtr
        BY <1>2, <1>6 DEF Within
      <3> QED BY <1>3, <1>5, <1>6, <1>7, <2>1, <2>5, <3>1 DEF Nests
    <2> QED BY <1>0, <2>4, <2>5, <2>6 DEF Reader
  <1> QED BY <1>6, <1>8, <1>9 DEF Container

LEMMA ArrayReader ==
  ASSUME Inv, Conforming, doc # <<>>, Follow(stack, doc, active_key), start_array
  PROVE  Reader("[") /\ UNCHANGED <<active_key, status>>
  <1>0. EvOpen("[")
    BY DEF start_array, start_array_member, start_array_element, start_array_refused,
           start_array_skipped
  <1>1. Reads(Top, Last(doc)) /\ DocOK
    BY TopReads DEF Inv
  <1>2. /\ DueType \in List
        /\ \/ Within(Class) => find_field_astid(Last(doc).ty, Last(doc).key) = DueType
           \/ Elem[DueType].id \notin Container
        /\ ~Within(Class) => DueType \in VarCtor
    BY <1>0, <1>1, ArrayOpens
  <1>3. /\ Class \cap List = {} /\ Class \cap Map = {} /\ List \cap Map = {}
        /\ Container \subseteq TypeId
    BY Shapes
  <1>4. DueType \in Container /\ DueType \in TypeId
    BY <1>2, <1>3 DEF Container
  <1>5. /\ active_key # NoKey
        /\ Last(doc).ty \in List => active_key = Top.activekey
        /\ Last(doc).ty \notin List => active_key = Last(doc).key
    <2>1. ValueDue
      BY <1>0 DEF EvOpen
    <2> QED BY <2>1, KeyActive
  <1>6. Last(doc).ty = Top.ty /\ Top.ty \in Container
    BY <1>1 DEF Reads
  <1>7. /\ Top.ty \in Class => Last(doc).key \in DOMAIN Meta[Top.ty] /\ DueType = Meta[Top.ty][Last(doc).key]
        /\ Top.ty \in List \cup Map => DueType = Elem[Top.ty].id
    BY <1>4, <1>6, MemberDue
  <1>8. CASE Top.ty \in Class
    <2>1. Top.val_astid = Top.ty /\ active_key = Last(doc).key
      BY <1>1, <1>3, <1>5, <1>6, <1>8 DEF Reads
    <2>2. find_field_recursive(Top.ty, active_key) /\ DueType = Meta[Top.ty][active_key]
      BY <1>7, <1>8, <2>1 DEF find_field_recursive
    <2>3. start_array_member
      BY <1>5, <2>2 DEF start_array, start_array_element, start_array_refused,
                        start_array_skipped, InContainer
    <2> DEFINE id == find_field_astid(Top.val_astid, active_key)
               val == parseListValtype(id)
               node == ParseNode(DueType, val.id, val.ptr, TRUE, FALSE, active_key)
    <2>4. Push(node, PushedContent) /\ UNCHANGED <<active_key, status>>
      BY <1>8, <2>2, <2>3 DEF start_array_member, push_list, ListCopy, PushedContent
    <2>5. Elem[DueType].id \in Container => val = Elem[DueType]
      BY <1>2, <1>6, <1>8, <2>1 DEF Within, parseListValtype
    <2> HIDE DEF val
    <2>6. Reads(node, Bracketed("[", DueType)) /\ node.activekey = active_key
      BY <1>2, <1>3, <1>4, <2>5 DEF Reads, Bracketed, ParseNode
    <2> HIDE DEF node
    <2>7. Nests(Top, node)
      BY <1>3, <1>8 DEF Nests
    <2> QED BY <2>4, <2>6, <2>7 DEF Reader
  <1>9. CASE Top.ty \in List \cup Map
    <2>1. DueType \in VarCtor
      BY <1>2, <1>3, <1>6, <1>9 DEF Within
    <2>2. Top.val_astid = DueType /\ (Top.is_map \/ Top.is_list)
      BY <1>1, <1>4, <1>6, <1>7, <1>9 DEF Reads
    <2>3. ~find_field_recursive(Top.ty, active_key)
      BY <1>3, <1>9 DEF find_field_recursive
    <2>4. start_array_element
      BY <1>5, <2>1, <2>2, <2>3 DEF start_array, start_array_member, start_array_refused,
                                    start_array_skipped
    <2> DEFINE node == ParseNode(DueType, Elem[DueType].id, Elem[DueType].ptr, TRUE, FALSE, active_key)
    <2>5. parseListValtype(DueType) = Elem[DueType]
      BY <1>2 DEF parseListValtype
    <2>6. Push(node, PushedContent) /\ UNCHANGED <<active_key, status>>
      BY <1>3, <1>9, <2>2, <2>4, <2>5 DEF start_array_element, push_list, PushedContent
    <2>7. Reads(node, Bracketed("[", DueType)) /\ node.activekey = active_key /\ node.ty = DueType
      BY <1>2, <1>3, <1>4 DEF Reads, Bracketed, ParseNode
    <2> HIDE DEF node
    <2>8. Nests(Top, node)
      BY <1>2, <1>3, <1>5, <1>6, <1>7, <2>1, <2>7 DEF Nests
    <2> QED BY <2>6, <2>7, <2>8 DEF Reader
  <1> QED BY <1>6, <1>8, <1>9 DEF Container

\* The document and the stack grow by a bracket and its reader.
LEMMA FollowOpened ==
  ASSUME Inv, DocOK', doc # <<>>, Follow(stack, doc, active_key),
         NEW b, OpenedAs(b, DueType), Reader(b), active_key' = active_key
  PROVE  doc' # <<>> /\ Follow(stack', doc', active_key')
  <1>1. PICK node :
          /\ Push(node, PushedContent)
          /\ Reads(node, Bracketed(b, DueType)) /\ Nests(Top, node) /\ node.activekey = active_key
    BY DEF Reader
  <1>2. StackOK /\ stack' = Append(stack, node)
    BY <1>1 DEF Push, Inv
  <1>3. /\ Len(stack') = Len(stack) + 1 /\ stack'[Len(stack) + 1] = node
        /\ Agree(stack', stack, Len(stack))
    BY <1>2, AppendedNode
  <1>4. PICK m : m = Len(stack)
    OBVIOUS
  <1>5. /\ m \in Nat \ {0} /\ Len(doc) = m /\ Top = stack[m]
    BY <1>4, TopReads
  <1>6. /\ Len(doc') = m + 1 /\ doc'[m + 1] = Bracketed(b, DueType) /\ Agree(doc', doc, m)
    BY <1>5 DEF OpenedAs
  <1>7. KeyDue(active_key, node, Bracketed(b, DueType))
    BY <1>1 DEF KeyDue, Bracketed
  <1>8. /\ Len(stack') = m + 1 /\ stack'[m + 1] = node /\ Agree(stack', stack, m)
    BY <1>3, <1>4
  <1>9. doc' # <<>>
    <2>1. m + 1 # 0
      BY <1>5
    <2> QED BY <1>6, <2>1, EmptySeq
  <1>10. Follow(stack', doc', active_key)
    BY <1>1, <1>5, <1>6, <1>7, <1>8, FollowGrown
  <1> QED BY <1>9, <1>10

-----------------------------------------------------------------------------
LEMMA FollowAlone ==
  ASSUME NEW s, NEW d, NEW k, Len(s) = 1, Len(d) = 1, Reads(s[1], d[1]), KeyDue(k, s[1], d[1])
  PROVE  d # <<>> /\ Follow(s, d, k)
  <1>1. Len(<<>>) = 0
    OBVIOUS
  <1>2. PICK l : l = Len(d)
    OBVIOUS
  <1>3. 1..l = {1} /\ 1..(l - 1) = {}
    BY <1>2
  <1> QED BY <1>1, <1>2, <1>3 DEF Follow

\* The document's own bracket: nothing is pushed, the root's node reads it.
LEMMA FollowFirst ==
  ASSUME Inv, Conforming, doc = <<>>, stack = <<RootNode>>, active_key = NoKey, start_object
  PROVE  doc' # <<>> /\ Follow(stack', doc', active_key') /\ status' = status
  <1>1. EvOpen("{") /\ DocOK
    BY DEF start_object, start_object_member, start_object_element, start_object_skipped, Inv
  <1>2. UNCHANGED <<stack, active_key, status>>
    BY DEF start_object, start_object_member, start_object_element, start_object_skipped
  <1>3. DueType = RootType
    BY DEF DueType
  <1>4. OpenedAs("{", RootType) /\ RootType \in (Class \cap Asts) \cup Map
    BY <1>1, <1>3, ObjectOpens
  <1>5. Len(doc') = 1 /\ doc'[1] = Bracketed("{", RootType)
    <2>1. Len(doc) = 0
      OBVIOUS
    <2>2. \A n : n = 0 => n + 1 = 1
      OBVIOUS
    <2>3. Len(doc) + 1 = 1
      BY <2>1, <2>2
    <2> QED BY <1>4, <2>3 DEF OpenedAs
  <1>6. Len(stack') = 1 /\ stack'[1] = RootNode
    BY <1>2
  <1>7. Reads(RootNode, Bracketed("{", RootType))
    <2>1. RootType \in Class /\ RootType \notin List /\ RootType \notin Map
      BY Shapes
    <2>2. RootType \in Asts
      BY <1>4, <2>1
    <2> QED BY <2>1, <2>2 DEF Reads, Bracketed, RootNode, ParseNode, Container
  <1>8. KeyDue(active_key', RootNode, Bracketed("{", RootType))
    BY Shapes DEF KeyDue, Bracketed
  <1>9. doc' # <<>> /\ Follow(stack', doc', active_key')
    BY <1>5, <1>6, <1>7, <1>8, FollowAlone
  <1> QED BY <1>2, <1>9

\* No bracket handler refuses a conforming document.
LEMMA ConformsOpened ==
  ASSUME Inv, DocOK', Conforms, Conforming, status = "parsing", start_object \/ start_array
  PROVE  status' = "parsing" /\ Conforms'
  <1>1. CASE doc = <<>>
    <2>1. nev = 0
      BY <1>1 DEF start_object, start_object_member, start_object_element, start_object_skipped,
                  start_array, start_array_member, start_array_element, start_array_refused,
                  start_array_skipped, EvOpen, ValueDue
    <2>2. stack = <<RootNode>> /\ active_key = NoKey
      BY <1>1, <2>1 DEF Conforms
    <2>3. ~start_array
      <3> SUFFICES ASSUME start_array
                   PROVE  FALSE
        OBVIOUS
      <3>1. EvOpen("[") /\ DocOK
        BY DEF start_array, start_array_member, start_array_element, start_array_refused,
               start_array_skipped, Inv
      <3>2. DueType \in List /\ DueType = RootType
        BY <1>1, <3>1, ArrayOpens DEF DueType
      <3> QED BY <3>2, Shapes
    <2> QED BY <1>1, <2>2, <2>3, FollowFirst DEF Conforms
  <1>2. CASE doc # <<>>
    <2>1. Follow(stack, doc, active_key) /\ DocOK
      BY <1>2 DEF Conforms, Inv
    <2>2. PICK b : Reader(b) /\ UNCHANGED <<active_key, status>> /\ OpenedAs(b, DueType)
      <3>1. CASE start_object
        <4>1. EvOpen("{")
          BY <3>1 DEF start_object, start_object_member, start_object_element, start_object_skipped
        <4> QED BY <1>2, <2>1, <3>1, <4>1, ObjectReader, ObjectOpens
      <3>2. CASE start_array
        <4>1. EvOpen("[")
          BY <3>2 DEF start_array, start_array_member, start_array_element, start_array_refused,
                      start_array_skipped
        <4> QED BY <1>2, <2>1, <3>2, <4>1, ArrayReader, ArrayOpens
      <3> QED BY <3>1, <3>2
    <2>3. doc' # <<>> /\ Follow(stack', doc', active_key')
      BY <1>2, <2>1, <2>2, FollowOpened
    <2> QED BY <2>2, <2>3 DEF Conforms
  <1> QED BY <1>1, <1>2

-----------------------------------------------------------------------------
\* Nodes that differ from those of before in their map keys only.
LEMMA NodesSame ==
  ASSUME StackOK, NEW n \in 0..Len(stack), SameNodes(stack', stack, n)
  PROVE  \A i \in 1..n : SameNode(stack'[i], stack[i])
  <1> SUFFICES ASSUME NEW i \in 1..n
               PROVE  SameNode(stack'[i], stack[i])
    OBVIOUS
  <1>1. stack \in Seq(Node) /\ Len(stack) \in Nat /\ i \in 1..Len(stack)
    BY TopOK DEF StackOK
  <1>2. stack[i] \in Node
    BY <1>1, ElementOfSeq
  <1>3. stack'[i] = [stack[i] EXCEPT !.map_key = stack'[i].map_key]
    BY DEF SameNodes
  <1> QED BY <1>2, <1>3 DEF Node, SameNode

\* A bracket inside another one closes: the reader of the outer one is on
\* top again, and the key is left as that reader needs it.
LEMMA FollowClosed ==
  ASSUME Inv, Follow(stack, doc, active_key), NEW b, EvClose(b), Pops,
         Parent.ty \in List => active_key' = Parent.activekey
  PROVE  doc' # <<>> /\ Follow(stack', doc', active_key')
  <1>1. StackOK /\ DocOK /\ Len(stack) > 1
    BY DEF Inv, Pops
  <1>2. Len(stack') = Len(stack) - 1 /\ SameNodes(stack', stack, Len(stack) - 1)
    BY <1>1, PopOK DEF Pops
  <1>3. PICK l : l = Len(doc)
    OBVIOUS
  <1>4. l \in Nat \ {0} /\ Len(stack) = l /\ l > 1
    BY <1>1, <1>3, TopOK DEF Follow
  <1>5. PICK m : m = l - 1
    OBVIOUS
  <1>6. m \in Nat \ {0} /\ m <= l /\ m \in 0..l /\ m \in 1..l
    BY <1>4, <1>5
  <1>7. /\ Len(doc') = m /\ \A i \in 1..m : SameBracket(doc'[i], doc[i])
        /\ doc'[m].key = NoKey
    BY <1>1, <1>3, <1>4, <1>5, ClosedBrackets
  <1>8. Len(stack') = m /\ \A i \in 1..m : SameNode(stack'[i], stack[i])
    BY <1>1, <1>2, <1>4, <1>5, <1>6, NodesSame
  <1>9. KeyDue(active_key', stack'[m], doc'[m])
    <2>1. SameNode(stack'[m], Parent) /\ SameBracket(doc'[m], doc[m]) /\ Parent = stack[m]
      BY <1>4, <1>5, <1>6, <1>7, <1>8 DEF Parent
    <2>2. Reads(Parent, doc[m])
      BY <1>3, <1>6, <2>1 DEF Follow
    <2>3. Parent.ty = doc'[m].ty /\ stack'[m].activekey = Parent.activekey
      BY <2>1, <2>2 DEF SameNode, SameBracket, Reads
    <2> QED BY <1>7, <2>3 DEF KeyDue
  <1>10. Follow(stack', doc', active_key')
    BY <1>3, <1>4, <1>6, <1>7, <1>8, <1>9, FollowStill
  <1>11. doc' # <<>>
    BY <1>6, <1>7
  <1> QED BY <1>10, <1>11

\* The two top nodes.
LEMMA TopNested ==
  ASSUME Inv, Follow(stack, doc, active_key), doc # <<>>, Len(stack) > 1
  PROVE  /\ Nests(Parent, Top) /\ Reads(Top, Last(doc))
         /\ \E b : Reads(Parent, b)
  <1>1. PICK l : l = Len(doc)
    OBVIOUS
  <1>2. l \in Nat \ {0} /\ l > 1 /\ Len(stack) = l /\ Reads(Top, Last(doc)) /\ Top = stack[l]
    BY <1>1, TopReads
  <1>3. PICK m : m = l - 1
    OBVIOUS
  <1>4. m \in 1..(l - 1) /\ m \in 1..l /\ m + 1 = l
    BY <1>2, <1>3
  <1>5. Parent = stack[m]
    BY <1>2, <1>3 DEF Parent
  <1>6. Nests(stack[m], stack[m + 1]) /\ Reads(stack[m], doc[m])
    BY <1>1, <1>4 DEF Follow
  <1> QED BY <1>2, <1>4, <1>5, <1>6

LEMMA ConformsObjectClosed ==
  ASSUME Inv, Conforms, Conforming, status = "parsing", nev' # 0, end_object
  PROVE  status' = "parsing" /\ Conforms'
  <1>1. EvClose("{") /\ doc # <<>> /\ DocOK
    BY DEF end_object, end_object_root, end_object_nested, EvClose, Inv
  <1>2. Follow(stack, doc, active_key)
    BY <1>1 DEF Conforms
  <1>3. CASE end_object_root
    <2>1. Len(doc) = 1 /\ status' = status
      BY <1>2, <1>3 DEF end_object_root, Follow
    <2>2. Len(doc') = 0
      <3>1. Len(doc') = Len(doc) - 1
        BY <1>1, ClosedBrackets
      <3> QED BY <2>1, <3>1
    <2>3. DocOK'
      BY <1>1, CloseOK
    <2>4. doc' = <<>>
      BY <2>2, <2>3, EmptySeq DEF DocOK
    <2> QED BY <2>1, <2>4 DEF Conforms
  <1>4. CASE end_object_nested
    <2>1. Len(stack) > 1 /\ Pops
      BY <1>4, NestedPops DEF end_object_nested
    <2>2. Nests(Parent, Top) /\ Reads(Top, Last(doc))
      BY <1>1, <1>2, <2>1, TopNested
    <2>3. PICK b : Reads(Parent, b)
      BY <1>1, <1>2, <2>1, TopNested
    <2>4. Top.ty \in Class \cup Map
      <3>1. Last(doc).open = "{"
        BY <1>1 DEF EvClose
      <3> QED BY <2>2, <3>1 DEF Reads, Container
    <2>5. ~PtrMissing(Parent, Top)
      <3> SUFFICES ASSUME Parent.is_list, Parent.ty \in List, Parent.is_val_ptr,
                          Top.ty \notin CreatePtr
                   PROVE  FALSE
        BY DEF PtrMissing, is_sequence
      <3>1. Top.ty = Elem[Parent.ty].id /\ Top.ty \in Class
        BY <2>2, <2>4 DEF Nests
      <3>2. Elem[Parent.ty].ptr
        BY <2>3, <3>1 DEF Reads, Container
      <3> QED BY <2>2, <3>1, <3>2 DEF Nests
    <2>6. active_key' = Top.activekey /\ status' = status
      BY <1>4, <2>5 DEF end_object_nested, RestoredKey
    <2>7. Parent.ty \in List => active_key' = Parent.activekey
      BY <2>2, <2>6 DEF Nests
    <2>8. doc' # <<>> /\ Follow(stack', doc', active_key')
      BY <1>1, <1>2, <2>1, <2>7, FollowClosed
    <2> QED BY <2>6, <2>8 DEF Conforms
  <1> QED BY <1>3, <1>4 DEF end_object

LEMMA ConformsArrayClosed ==
  ASSUME Inv, Conforms, Conforming, status = "parsing", nev' # 0, end_array
  PROVE  status' = "parsing" /\ Conforms'
  <1>1. EvClose("[") /\ doc # <<>> /\ DocOK
    BY DEF end_array, end_array_list, end_array_skipped, EvClose, Inv
  <1>2. Follow(stack, doc, active_key)
    BY <1>1 DEF Conforms
  <1>3. /\ Reads(Top, Last(doc)) /\ KeyDue(active_key, Top, Last(doc))
        /\ Last(doc).open = "["
    BY <1>1, <1>2, TopReads DEF EvClose
  <1>4. Top.ty \in List /\ Top.is_list /\ active_key = Top.activekey
    BY <1>3 DEF Reads, KeyDue
  <1>5. end_array_list /\ Pops /\ Len(stack) > 1
    BY <1>4, ListPops DEF end_array, end_array_skipped, Pops
  <1>6. Nests(Parent, Top)
    BY <1>1, <1>2, <1>5, TopNested
  <1>7. PICK b : Reads(Parent, b)
    BY <1>1, <1>2, <1>5, TopNested
  <1>8. ArrayVerdict(Parent, Top) = "parsing"
    <2>1. CASE ~(Parent.is_map \/ Parent.is_list)
      BY <2>1 DEF ArrayVerdict
    <2>2. CASE Parent.is_map \/ Parent.is_list
      <3>1. Parent.ty \in List \cup Map
        BY <1>7, <2>2 DEF Reads
      <3>2. Top.ty = Elem[Parent.ty].id /\ Top.ty \in VarCtor
        BY <1>4, <1>6, <3>1 DEF Nests
      <3>3. Parent.val_astid = Top.ty
        BY <1>4, <1>7, <3>1, <3>2 DEF Reads, Container
      <3>4. (Parent.is_map => Parent.ty \in Map) /\ (Parent.is_list => Parent.ty \in List)
        BY <1>7 DEF Reads
      <3> QED BY <3>2, <3>3, <3>4 DEF ArrayVerdict, is_associative, is_sequence
    <2> QED BY <2>1, <2>2
  <1>9. status' = "parsing" /\ active_key' = active_key
    BY <1>5, <1>8 DEF end_array_list
  <1>10. Parent.ty \in List => active_key' = Parent.activekey
    BY <1>4, <1>6, <1>9 DEF Nests
  <1>11. doc' # <<>> /\ Follow(stack', doc', active_key')
    BY <1>1, <1>2, <1>5, <1>10, FollowClosed
  <1> QED BY <1>9, <1>11 DEF Conforms

LEMMA ConformsValue ==
  ASSUME Inv, Conforms, Conforming, status = "parsing", nev' # 0,
         \/ \E k \in Key : key(k)
         \/ \E tok \in Token : set_value(tok)
         \/ null
  PROVE  status' = "parsing" /\ Conforms'
  <1>0. StackOK /\ DocOK /\ Len(stack) \in Nat \ {0}
    BY TopOK DEF Inv
  <1>1. ASSUME doc # <<>>, NEW j, active_key' = j, Len(doc') = Len(doc),
               \A i \in 1..Len(doc) : SameBracket(doc'[i], doc[i]),
               \A i \in 1..Len(stack) : SameNode(stack'[i], stack[i]),
               Len(stack') = Len(stack),
               KeyDue(j, stack'[Len(doc)], doc'[Len(doc)])
        PROVE  doc' # <<>> /\ Follow(stack', doc', active_key')
    <2>1. PICK m : m = Len(doc)
      OBVIOUS
    <2>2. Follow(stack, doc, active_key)
      BY <1>1 DEF Conforms
    <2>3. m \in Nat \ {0} /\ m <= m /\ Len(stack) = m
      BY <1>0, <2>1, <2>2 DEF Follow
    <2>4. Follow(stack', doc', j)
      BY <1>1, <2>1, <2>2, <2>3, FollowStill
    <2>5. doc' # <<>>
      BY <1>1, <2>1, <2>3
    <2> QED BY <1>1, <2>4, <2>5
  <1>2. CASE \E k \in Key : key(k)
    <2>1. PICK k \in Key : key(k)
      BY <1>2
    <2>2. /\ EvKey(k) /\ active_key' = k /\ status' = status /\ doc # <<>>
          /\ stack' = [stack EXCEPT ![Len(stack)].map_key = k]
      BY <2>1 DEF key, EvKey
    <2>3. /\ doc[Len(doc)].open = "{" /\ doc'[Len(doc)].key = k
          /\ Len(doc') = Len(doc) /\ \A i \in 1..Len(doc) : SameBracket(doc'[i], doc[i])
          /\ Len(doc) \in Nat \ {0}
      BY <1>0, <2>2, KeyBrackets
    <2>4. Len(stack') = Len(stack) /\ \A i \in 1..Len(stack) : SameNode(stack'[i], stack[i])
      <3> DEFINE t == [stack EXCEPT ![Len(stack)].map_key = k]
      <3>1. Len(t) = Len(stack) /\ SameNodes(t, stack, Len(stack))
        BY <1>0, MapKeyOK DEF StackOK
      <3>2. stack' = t
        BY <2>2
      <3> HIDE DEF t
      <3>3. Len(stack) \in 0..Len(stack)
        BY <1>0
      <3> QED BY <1>0, <3>1, <3>2, <3>3, NodesSame
    <2>5. doc'[Len(doc)].ty \notin List
      <3>1. Reads(Top, Last(doc)) /\ Last(doc) = doc[Len(doc)]
        BY <2>2, TopReads DEF Conforms
      <3>2. doc[Len(doc)].ty \notin List
        BY <2>3, <3>1 DEF Reads
      <3>3. SameBracket(doc'[Len(doc)], doc[Len(doc)])
        <4>1. \A n \in Nat \ {0} : n \in 1..n
          OBVIOUS
        <4> QED BY <2>3, <4>1
      <3> QED BY <3>2, <3>3 DEF SameBracket
    <2>6. KeyDue(k, stack'[Len(doc)], doc'[Len(doc)])
      BY <2>3, <2>5 DEF KeyDue
    <2>7. doc' # <<>> /\ Follow(stack', doc', active_key')
      BY <1>1, <2>2, <2>3, <2>4, <2>6
    <2> QED BY <2>2, <2>7 DEF Conforms
  <1>3. CASE (\E tok \in Token : set_value(tok)) \/ null
    <2>1. doc' = Given(doc) /\ UNCHANGED <<stack, active_key, status>>
      BY <1>3 DEF set_value, null, EvScalar, EvNull
    <2>2. CASE doc = <<>>
      <3>1. doc' = <<>>
        BY <2>1, <2>2 DEF Given
      <3> QED BY <2>1, <3>1 DEF Conforms
    <2>3. CASE doc # <<>>
      <3>1. /\ Len(doc') = Len(doc) /\ \A i \in 1..Len(doc) : SameBracket(doc'[i], doc[i])
            /\ doc'[Len(doc)].key = NoKey
        BY <1>0, <2>1, <2>3, ValueBrackets
      <3>2. \A i \in 1..Len(stack) : SameNode(stack'[i], stack[i])
        BY <2>1 DEF SameNode
      <3>3. KeyDue(active_key, stack'[Len(doc)], doc'[Len(doc)])
        <4>1. KeyDue(active_key, Top, Last(doc)) /\ Last(doc) = doc[Len(doc)] /\ Top = stack[Len(doc)]
              /\ Len(doc) \in Nat \ {0}
          BY <2>3, TopReads DEF Conforms
        <4>2. SameBracket(doc'[Len(doc)], doc[Len(doc)])
          <5>1. \A n \in Nat \ {0} : n \in 1..n
            OBVIOUS
          <5> QED BY <3>1, <4>1, <5>1
        <4> QED BY <2>1, <3>1, <4>1, <4>2 DEF KeyDue, SameBracket
      <3>4. doc' # <<>> /\ Follow(stack', doc', active_key')
        BY <1>1, <2>1, <2>3, <3>1, <3>2, <3>3
      <3> QED BY <2>1, <3>4 DEF Conforms
    <2> QED BY <2>2, <2>3
  <1> QED BY <1>2, <1>3

-----------------------------------------------------------------------------
LEMMA ConformsHandlers ==
  ASSUME Inv, DocOK', Conforms, Conforming, Handlers
  PROVE  status' = "parsing" /\ Conforms'
  <1>1. status = "parsing" /\ nev' # 0
    BY HandlersEvents
  <1> QED BY <1>1, ConformsOpened, ConformsObjectClosed, ConformsArrayClosed, ConformsValue
          DEF Handlers

LEMMA ConformsNext ==
  ASSUME Inv, Inv', Conforms, [Next]_vars
  PROVE  Conforms'
  <1>0. ~Conforming => Conforms'
    BY DEF Conforms
  <1>1. CASE parse
    <2>1. doc' = <<>> /\ stack' = <<RootNode>> /\ active_key' = NoKey
      BY <1>1 DEF parse, EvBegin
    <2> QED BY <2>1 DEF Conforms
  <1>2. CASE finish \/ parse_error
    <2>1. status' # "parsing"
      BY <1>2 DEF finish, parse_error, EvFinish, EvError
    <2> QED BY <2>1 DEF Conforms
  <1>3. CASE Handlers
    BY <1>0, <1>3, ConformsHandlers DEF Inv
  <1>4. CASE UNCHANGED vars
    BY <1>4 DEF vars, Conforms
  <1> QED BY <1>1, <1>2, <1>3, <1>4 DEF Next, Handlers

LEMMA ConformsInvariant == Spec => []Conforms
  <1>1. Init => Conforms
    BY DEF Init, Conforms
  <1>2. Inv /\ Inv' /\ Conforms /\ [Next]_vars => Conforms'
    BY ConformsNext
  <1> QED BY <1>1, <1>2, InvInvariant, PTL DEF Spec

\* On every document that conforms to the schema the nodes are the document's
\* open brackets, one each, of the same types and kinds: what start_object and
\* start_array push and what end_object and end_array pop.
THEOREM NodesFollowDocument == Spec => []StackFollowsDocument
  <1>1. Inv /\ Conforms => StackFollowsDocument
    BY DEF Conforms, StackFollowsDocument, Follow, Reads
  <1> QED BY <1>1, InvInvariant, ConformsInvariant, PTL

\* ... and whenever such a document gives a value, the one active_key that the
\* handlers share is the key of that value, though no handler but key() and
\* end_object ever assigns it.
THEOREM KeyFollowsNodes == Spec => []KeyFollowsDocument
  <1>1. Inv /\ Conforms => KeyFollowsDocument
    <2> SUFFICES ASSUME Inv, Conforms, Conforming, status = "parsing", doc # <<>>, ValueDue
                 PROVE  active_key = IF Last(doc).ty \in List THEN Top.activekey ELSE Last(doc).key
      BY DEF KeyFollowsDocument
    <2>1. Follow(stack, doc, active_key)
      BY DEF Conforms
    <2> QED BY <2>1, KeyActive
  <1> QED BY <1>1, InvInvariant, ConformsInvariant, PTL

\* ... so that no handler returns false for such a document and none of them
\* inserts into an invalid container view: only the lexer ends the parse.
THEOREM ConformingAccepted == Spec => ConformingNeverRefused
  <1>1. /\ Inv /\ Inv' /\ Conforms /\ [Next]_vars
        => [Conforming /\ status = "parsing" /\ nev' # nev => status' = "parsing"]_vars
    <2> SUFFICES ASSUME Inv, Inv', Conforms, Next, Conforming, status = "parsing", nev' # nev
                 PROVE  status' = "parsing"
      BY DEF vars
    <2>1. ~parse /\ ~finish /\ ~parse_error
      BY DEF parse, EvBegin, finish, EvFinish, parse_error, EvError
    <2> QED BY <2>1, ConformsHandlers DEF Next, Handlers, Inv
  <1> QED BY <1>1, InvInvariant, ConformsInvariant, PTL DEF Spec, ConformingNeverRefused

-----------------------------------------------------------------------------
\* The fold of a stack s with contents c down from its node n.
Put(p, pv, n, v) == IF n.is_list THEN ListInto(p, pv, n, v) ELSE ObjectInto(p, pv, n, v)
IsFold(f, s, c, n) ==
  \A i \in 1..n : f[i] = IF i = n THEN c[i] ELSE Put(s[i], c[i], s[i + 1], f[i + 1])

LEMMA FoldExists ==
  ASSUME NEW s, NEW c, NEW n \in Nat \ {0}
  PROVE  \E f : f = [i \in 1..n |-> f[i]] /\ IsFold(f, s, c, n)
  <1> DEFINE Upper(f, m) ==
               \A i \in 1..n : i >= m => f[i] = IF i = n THEN c[i] ELSE Put(s[i], c[i], s[i + 1], f[i + 1])
             S == {m \in 1..n : \E f : Upper(f, m)}
  <1>1. n \in S
    <2>1. Upper(c, n)
      OBVIOUS
    <2> QED BY <2>1
  <1>2. ASSUME NEW i \in 1..(n - 1), i + 1 \in S
        PROVE  i \in S
    <2>1. PICK f : Upper(f, i + 1)
      BY <1>2
    <2> DEFINE g == [j \in 1..n |-> IF j = i THEN Put(s[i], c[i], s[i + 1], f[i + 1]) ELSE f[j]]
    <2>2. i \in 1..n /\ i + 1 \in 1..n /\ i # n /\ i + 1 # i
      OBVIOUS
    <2>3. \A j \in 1..n : j # i => g[j] = f[j]
      OBVIOUS
    <2>4. g[i] = Put(s[i], c[i], s[i + 1], f[i + 1]) /\ g[i + 1] = f[i + 1]
      BY <2>2
    <2> HIDE DEF g
    <2>5. ASSUME NEW j \in 1..n, j >= i
          PROVE  g[j] = IF j = n THEN c[j] ELSE Put(s[j], c[j], s[j + 1], g[j + 1])
      <3>1. CASE j = i
        BY <2>2, <2>4, <3>1
      <3>2. CASE j # i
        <4>1. j >= i + 1 /\ (j # n => j + 1 \in 1..n /\ j + 1 # i)
          BY <2>5, <3>2
        <4>2. f[j] = IF j = n THEN c[j] ELSE Put(s[j], c[j], s[j + 1], f[j + 1])
          BY <2>1, <4>1
        <4> QED BY <2>3, <3>2, <4>1, <4>2
      <3> QED BY <3>1, <3>2
    <2>6. Upper(g, i)
      BY <2>5
    <2> QED BY <2>2, <2>6
  <1> HIDE DEF S
  <1>3. 1..n \subseteq S
    BY <1>1, <1>2, DownTo
  <1>4. 1 \in S
    BY <1>3
  <1>5. PICK f : Upper(f, 1)
    BY <1>4 DEF S
  <1> DEFINE g == [i \in 1..n |-> f[i]]
  <1>6. \A i \in 1..n : i >= 1 /\ g[i] = f[i] /\ (i # n => i + 1 \in 1..n)
    OBVIOUS
  <1>7. \A i \in 1..n : g[i] = IF i = n THEN c[i] ELSE Put(s[i], c[i], s[i + 1], g[i + 1])
    <2> HIDE DEF g
    <2> QED BY <1>5, <1>6
  <1>8. g = [i \in 1..n |-> g[i]]
    OBVIOUS
  <1> HIDE DEF g
  <1> QED BY <1>7, <1>8 DEF IsFold

\* Two folds that are equal at a level and put the same below it.
PutsSame(s, c, t, d, k) ==
  \A i \in 1..(k - 1) : \A v : Put(s[i], c[i], s[i + 1], v) = Put(t[i], d[i], t[i + 1], v)

LEMMA FoldSame ==
  ASSUME NEW f, NEW s, NEW c, NEW n \in Nat, IsFold(f, s, c, n),
         NEW g, NEW t, NEW d, NEW m \in Nat, IsFold(g, t, d, m),
         NEW k \in 1..n, k \in 1..m, f[k] = g[k],
         PutsSame(s, c, t, d, k)
  PROVE  f[1] = g[1]
  <1> DEFINE S == {i \in 1..k : f[i] = g[i]}
  <1>1. k \in S
    OBVIOUS
  <1>2. ASSUME NEW i \in 1..(k - 1), i + 1 \in S
        PROVE  i \in S
    <2>1. i \in 1..n /\ i \in 1..m /\ i # n /\ i # m /\ i \in 1..k
      OBVIOUS
    <2>2. f[i] = Put(s[i], c[i], s[i + 1], f[i + 1]) /\ g[i] = Put(t[i], d[i], t[i + 1], g[i + 1])
      BY <2>1 DEF IsFold
    <2>3. f[i + 1] = g[i + 1]
      BY <1>2
    <2> QED BY <2>1, <2>2, <2>3 DEF PutsSame
  <1> HIDE DEF S
  <1>3. 1..k \subseteq S
    BY <1>1, <1>2, DownTo
  <1>4. 1 \in 1..k
    OBVIOUS
  <1> QED BY <1>3, <1>4 DEF S

LEMMA FoldedIs ==
  ASSUME Len(stack) \in Nat \ {0}
  PROVE  \E f : IsFold(f, stack, inst, Len(stack)) /\ Folded = f[1]
  <1> DEFINE n == Len(stack)
             P(f) == f = [i \in 1..n |-> IF i = n THEN inst[i] ELSE Put(stack[i], inst[i], stack[i + 1], f[i + 1])]
             f == CHOOSE f : P(f)
  <1>1. \E g : P(g)
    <2>1. PICK g : g = [i \in 1..n |-> g[i]] /\ IsFold(g, stack, inst, n)
      BY FoldExists
    <2>2. P(g)
      <3> HIDE DEF n
      <3> QED BY <2>1 DEF IsFold
    <2> QED BY <2>2
  <1>2. P(f)
    <2> HIDE DEF P
    <2> QED BY <1>1
  <1>3. Folded = f[1]
    BY DEF Folded, Put
  <1>4. IsFold(f, stack, inst, n)
    <2> HIDE DEF f, n
    <2> QED BY <1>2 DEF IsFold
  <1> QED BY <1>3, <1>4

-----------------------------------------------------------------------------
\* The decoder reads the schema and the events that the parser reads.
LEMMA SameShapes ==
  /\ JD!Class = Class /\ JD!List = List /\ JD!Map = Map /\ JD!Untyped = Untyped
  BY DEF JD!Class, JD!List, JD!Map, JD!Untyped, Class, List, Map, Untyped

LEMMA SameEnds ==
  /\ \A s : JD!Last(s) = Last(s)
  /\ \A s : JD!Front(s) = Front(s)
  BY DEF JD!Last, Last, JD!Front, Front

LEMMA SameDue ==
  /\ JD!DueType = DueType /\ (JD!ValueDue <=> ValueDue)
  /\ \A types : JD!Within(types) <=> Within(types)
  <1>1. \A ty, k : JD!MemberType(ty, k) = MemberType(ty, k)
    BY SameShapes DEF JD!MemberType, MemberType
  <1>2. JD!DueType = DueType
    BY <1>1, SameEnds DEF JD!DueType, DueType
  <1>3. JD!ValueDue <=> ValueDue
    BY SameEnds DEF JD!ValueDue, ValueDue
  <1>4. \A types : JD!Within(types) <=> Within(types)
    BY SameEnds DEF JD!Within, Within
  <1> QED BY <1>2, <1>3, <1>4

LEMMA SameScalars ==
  /\ \A ty, tok : JD!Castable(ty, tok) <=> Castable(ty, tok)
  /\ \A ty, tok : JD!Cast(ty, tok) = Cast(ty, tok)
  /\ \A ty, tok : JD!ElemCast(ty, tok) = ElemCast(ty, tok)
  /\ \A tok : JD!EnumOf(tok) = EnumOf(tok)
  /\ \A tok : JD!PortOf(tok) = PortOf(tok)
  <1>1. \A tok : JD!AsInt(tok) = AsInt(tok)
    BY DEF JD!AsInt, AsInt
  <1>2. \A tok : JD!AsBool(tok) = AsBool(tok)
    BY DEF JD!AsBool, AsBool
  <1>3. \A tok : JD!TextOf(tok) = TextOf(tok)
    BY DEF JD!TextOf, TextOf
  <1>4. \A ty, tok : JD!Castable(ty, tok) <=> Castable(ty, tok)
    BY DEF JD!Castable, Castable
  <1>5. \A ty, tok : JD!Cast(ty, tok) = Cast(ty, tok)
    BY <1>1, <1>2 DEF JD!Cast, Cast
  <1>6. \A tok : JD!VarOf(tok) = VarOf(tok)
    BY <1>1 DEF JD!VarOf, VarOf
  <1>7. \A ty, tok : JD!ElemCast(ty, tok) = ElemCast(ty, tok)
    BY <1>5, <1>6 DEF JD!ElemCast, ElemCast
  <1>8. \A tok : JD!EnumOf(tok) = EnumOf(tok)
    BY <1>3 DEF JD!EnumOf, EnumOf
  <1>9. \A tok : JD!PortOf(tok) = PortOf(tok)
    BY <1>3 DEF JD!PortOf, PortOf
  <1> QED BY <1>4, <1>5, <1>7, <1>8, <1>9

LEMMA SameEvents ==
  /\ \A b : EvOpen(b) => JD!EvOpen(b)
  /\ \A b : EvClose(b) => JD!EvClose(b)
  /\ \A k : EvKey(k) => JD!EvKey(k)
  /\ \A tok : EvScalar(tok) => JD!EvScalar(tok)
  /\ EvNull => JD!EvNull
  /\ EvFinish => JD!EvFinish
  /\ EvError => JD!EvError
  /\ EvBegin => JD!EvBegin
  <1>1. (JD!Fresher <=> Fresher) /\ \A d : JD!Given(d) = Given(d)
    BY DEF JD!Fresher, Fresher, JD!Given, Given
  <1>2. \A t, k : JD!find_field_astid(t, k) = find_field_astid(t, k)
    BY SameShapes DEF JD!find_field_astid, find_field_astid
  <1>3. JD!Agreed <=> Agreed
    BY <1>2, SameEnds, SameShapes, SameDue DEF JD!Agreed, Agreed
  <1>4. \A b, ty : JD!Opens(b, ty) <=> Opens(b, ty)
    BY <1>3, SameEnds, SameShapes, SameDue DEF JD!Opens, Opens
  <1>5. \A ty, tok : JD!Accepts(ty, tok) <=> Accepts(ty, tok)
    BY SameScalars, SameShapes, SameDue DEF JD!Accepts, Accepts
  <1>6. \A b : EvOpen(b) => JD!EvOpen(b)
    BY <1>1, <1>4, SameShapes, SameDue DEF JD!EvOpen, EvOpen
  <1>7. \A b : EvClose(b) => JD!EvClose(b)
    BY <1>1, SameEnds DEF JD!EvClose, EvClose
  <1>8. \A k : EvKey(k) => JD!EvKey(k)
    BY <1>1, SameEnds DEF JD!EvKey, EvKey
  <1>9. \A tok : EvScalar(tok) => JD!EvScalar(tok)
    BY <1>1, <1>5, SameDue DEF JD!EvScalar, EvScalar
  <1>10. EvNull => JD!EvNull
    BY <1>1, SameDue DEF JD!EvNull, EvNull
  <1>11. (EvFinish => JD!EvFinish) /\ (EvError => JD!EvError) /\ (EvBegin => JD!EvBegin)
    BY DEF JD!EvFinish, EvFinish, JD!EvError, EvError, JD!EvBegin, EvBegin
  <1> QED BY <1>6, <1>7, <1>8, <1>9, <1>10, <1>11

-----------------------------------------------------------------------------
\* What a node n holds is put into the node p below it, in the one place that
\* the decoder's path names.
MemberOf(p, n) == p.ty \in Class => n.activekey \in DOMAIN Meta[p.ty] /\ Meta[p.ty][n.activekey] = n.ty
Linked(p, n) == /\ \E b : Reads(p, b)
                /\ \E b : Reads(n, b)
                /\ Nests(p, n) /\ MemberOf(p, n)
Refused(p, pv) == p.is_map /\ p.map_key \in DOMAIN pv
Way(p, n) == IF p.is_list THEN [into |-> "last"]
             ELSE [into |-> "member", key |-> IF p.is_map THEN p.map_key ELSE n.activekey]

LEMMA LinkedKinds ==
  ASSUME NEW p, NEW n, Linked(p, n)
  PROVE  /\ p.ty \in Container /\ n.ty \in Container
         /\ p.is_list <=> p.ty \in List
         /\ p.is_map <=> p.ty \in Map
         /\ n.is_list <=> n.ty \in List
         /\ p.ty \in List \cup Map => p.val_astid = Elem[p.ty].id /\ n.ty = Elem[p.ty].id
         /\ p.ty \in List => p.is_val_ptr = Elem[p.ty].ptr
  <1>1. PICK b : Reads(p, b)
    BY DEF Linked
  <1>2. PICK c : Reads(n, c)
    BY DEF Linked
  <1>3. p.ty \in List \cup Map => n.ty = Elem[p.ty].id
    BY DEF Linked, Nests
  <1> QED BY <1>1, <1>2, <1>3 DEF Reads

LEMMA PutMember ==
  ASSUME NEW p, NEW pv, NEW n, Linked(p, n), p.ty \in Class, NEW v
  PROVE  Put(p, pv, n, v) = [pv EXCEPT ![n.activekey] = v]
  <1>1. Owns(p, n) /\ Meta[p.ty][n.activekey] = n.ty
    BY DEF Linked, MemberOf, Owns, find_field_recursive
  <1>2. SetMember(p.ty, pv, n.activekey, n.ty, v) = [pv EXCEPT ![n.activekey] = v]
    BY <1>1 DEF SetMember
  <1>3. ListInto(p, pv, n, v) = SetMember(p.ty, pv, n.activekey, n.ty, v)
    BY <1>1 DEF ListInto
  <1>4. ObjectInto(p, pv, n, v) = SetMember(p.ty, pv, n.activekey, n.ty, v)
    BY <1>1 DEF ObjectInto
  <1> QED BY <1>2, <1>3, <1>4 DEF Put

LEMMA PutElement ==
  ASSUME NEW p, NEW pv, NEW n, Linked(p, n), p.ty \in List, NEW v
  PROVE  Put(p, pv, n, v) = Append(pv, v)
  <1>1. /\ p.is_list /\ ~p.is_map /\ p.val_astid = n.ty /\ n.ty = Elem[p.ty].id
        /\ n.is_list <=> n.ty \in List
        /\ p.is_val_ptr = Elem[p.ty].ptr /\ n.ty \in Container
    BY LinkedKinds, Shapes
  <1>2. ~Owns(p, n)
    BY Shapes DEF Owns, find_field_recursive
  <1>3. AppendValue(p.ty, pv, n.ty, v) = Append(pv, v)
    BY <1>1 DEF AppendValue, is_sequence
  <1>4. CASE n.is_list
    <2>1. p.val_astid \in VarCtor
      BY <1>1, <1>4 DEF Linked, Nests
    <2>2. ListInto(p, pv, n, v) = AppendValue(p.ty, pv, n.ty, v)
      BY <1>1, <1>2, <2>1 DEF ListInto
    <2> QED BY <1>3, <1>4, <2>2 DEF Put
  <1>5. CASE ~n.is_list
    <2>1. n.ty \in Class
      BY <1>1, <1>5 DEF Linked, Nests, Container
    <2>2. Elem[p.ty].ptr => n.ty \in CreatePtr
      BY <2>1 DEF Linked, Nests
    <2>3. PtrAgrees(p, n)
      BY <1>1, <2>2 DEF PtrAgrees, PtrMissing
    <2>4. ObjectInto(p, pv, n, v) = AppendValue(p.ty, pv, n.ty, v)
      BY <1>1, <1>2, <2>3 DEF ObjectInto
    <2> QED BY <1>3, <1>5, <2>4 DEF Put
  <1> QED BY <1>4, <1>5

LEMMA PutEntry ==
  ASSUME NEW p, NEW pv, NEW n, Linked(p, n), p.ty \in Map, NEW v
  PROVE  Put(p, pv, n, v) = Insert(pv, p.map_key, v)
  <1>1. /\ p.is_map /\ ~p.is_list /\ p.val_astid = n.ty /\ n.ty = Elem[p.ty].id
        /\ n.is_list <=> n.ty \in List
    BY LinkedKinds, Shapes
  <1>2. ~Owns(p, n)
    BY Shapes DEF Owns, find_field_recursive
  <1>3. InsertValue(p.ty, pv, p.map_key, n.ty, v) = Insert(pv, p.map_key, v)
    BY <1>1, AgreementAssumption DEF InsertValue, is_associative
  <1>4. CASE n.is_list
    <2>1. p.val_astid \in VarCtor
      BY <1>1, <1>4 DEF Linked, Nests
    <2>2. ListInto(p, pv, n, v) = InsertValue(p.ty, pv, p.map_key, n.ty, v)
      BY <1>1, <1>2, <2>1 DEF ListInto
    <2> QED BY <1>3, <1>4, <2>2 DEF Put
  <1>5. CASE ~n.is_list
    <2>1. ObjectInto(p, pv, n, v) = InsertValue(p.ty, pv, p.map_key, n.ty, v)
      BY <1>1, <1>2 DEF ObjectInto
    <2> QED BY <1>3, <1>5, <2>1 DEF Put
  <1> QED BY <1>4, <1>5

LEMMA InsertNew ==
  ASSUME NEW m, NEW k, k \notin DOMAIN m, NEW v, NEW w
  PROVE  /\ Insert(m, k, v)[k] = v
         /\ [Insert(m, k, v) EXCEPT ![k] = w] = Insert(m, k, w)
  BY DEF Insert

LEMMA InsertOld ==
  ASSUME NEW m, IsFcn(m), NEW k \in DOMAIN m, NEW v
  PROVE  Insert(m, k, v) = m
  BY DEF Insert, IsFcn

LEMMA AppendLast ==
  ASSUME NEW s, NEW n, IsSeq(s, n), NEW v, NEW w
  PROVE  /\ Last(Append(s, v)) = v
         /\ [Append(s, v) EXCEPT ![Len(Append(s, v))] = w] = Append(s, w)
  <1> DEFINE R == {s[i] : i \in 1..n}
             S == R \cup {v, w}
  <1>1. s \in Seq(S) /\ Len(s) = n /\ n \in Nat
    <2>1. s \in Seq(R) /\ Len(s) = n
      BY SeqOfContents
    <2>2. R \subseteq S
      OBVIOUS
    <2> HIDE DEF R, S
    <2> QED BY <2>1, <2>2, SeqMonotonic DEF IsSeq
  <1>2. v \in S /\ w \in S
    OBVIOUS
  <1> HIDE DEF S
  <1>3. \A x \in S : /\ Append(s, x) \in Seq(S) /\ Len(Append(s, x)) = n + 1
                     /\ Append(s, x)[n + 1] = x
                     /\ \A i \in 1..n : Append(s, x)[i] = s[i]
    BY <1>1, AppendProperties
  <1>4. Last(Append(s, v)) = v
    BY <1>2, <1>3 DEF Last
  <1>5. IsSeq(Append(s, v), n + 1) /\ IsSeq(Append(s, w), n + 1)
    <2>1. \A x \in S : IsSeq(Append(s, x), n + 1)
      BY <1>3, SeqIsSeq
    <2> QED BY <1>2, <2>1
  <1> DEFINE t == [Append(s, v) EXCEPT ![n + 1] = w]
  <1>6. t = [i \in 1..(n + 1) |-> t[i]] /\ t[n + 1] = w /\ \A i \in 1..n : t[i] = Append(s, v)[i]
    <2> DEFINE a == Append(s, v)
    <2>1. a = [i \in 1..(n + 1) |-> a[i]] /\ n + 1 \in 1..(n + 1) /\ \A i \in 1..n : i \in 1..(n + 1) /\ i # n + 1
      BY <1>1, <1>5 DEF IsSeq
    <2> HIDE DEF a
    <2>2. [a EXCEPT ![n + 1] = w] = [i \in 1..(n + 1) |-> [a EXCEPT ![n + 1] = w][i]]
      BY <2>1
    <2>3. [a EXCEPT ![n + 1] = w][n + 1] = w /\ \A i \in 1..n : [a EXCEPT ![n + 1] = w][i] = a[i]
      BY <2>1
    <2> QED BY <2>2, <2>3 DEF a
  <1> HIDE DEF t
  <1>7. \A i \in 1..(n + 1) : t[i] = Append(s, w)[i]
    <2>1. \A i \in 1..(n + 1) : i \in 1..n \/ i = n + 1
      BY <1>1
    <2> QED BY <1>2, <1>3, <1>6, <2>1
  <1>8. t = Append(s, w)
    BY <1>5, <1>6, <1>7 DEF IsSeq
  <1> QED BY <1>2, <1>3, <1>4, <1>8 DEF t

LEMMA PutStep ==
  ASSUME NEW p, NEW pv, NEW n, Linked(p, n), Of(p.ty, pv), ~Refused(p, pv), NEW v, NEW w
  PROVE  /\ JD!Step(Put(p, pv, n, v), Way(p, n)) = v
         /\ JD!Replaced(Put(p, pv, n, v), Way(p, n), w) = Put(p, pv, n, w)
  <1>1. /\ p.ty \in Container
        /\ p.is_list <=> p.ty \in List
        /\ p.is_map <=> p.ty \in Map
    BY LinkedKinds
  <1>2. CASE p.ty \in Class
    <2>1. Way(p, n) = [into |-> "member", key |-> n.activekey]
      BY <1>1, <1>2, Shapes DEF Way
    <2>2. IsFcn(pv) /\ n.activekey \in DOMAIN pv
      BY <1>2, OfObject DEF Linked, MemberOf
    <2>3. \A x : Put(p, pv, n, x) = [pv EXCEPT ![n.activekey] = x]
      BY <1>2, PutMember
    <2>4. [pv EXCEPT ![n.activekey] = v][n.activekey] = v
      BY <2>2
    <2>5. [[pv EXCEPT ![n.activekey] = v] EXCEPT ![n.activekey] = w] = [pv EXCEPT ![n.activekey] = w]
      OBVIOUS
    <2>6. Put(p, pv, n, v)[n.activekey] = v
      BY <2>3, <2>4
    <2>7. [Put(p, pv, n, v) EXCEPT ![n.activekey] = w] = Put(p, pv, n, w)
      BY <2>3, <2>5
    <2> QED BY <2>1, <2>6, <2>7 DEF JD!Step, JD!Replaced
  <1>3. CASE p.ty \in List
    <2>1. Way(p, n) = [into |-> "last"]
      BY <1>1, <1>3 DEF Way
    <2>2. PICK m \in Nat : IsSeq(pv, m)
      BY <1>3, OfList
    <2>3. /\ Put(p, pv, n, v) = Append(pv, v)
          /\ Put(p, pv, n, w) = Append(pv, w)
      BY <1>3, PutElement
    <2>4. /\ Last(Append(pv, v)) = v
          /\ [Append(pv, v) EXCEPT ![Len(Append(pv, v))] = w] = Append(pv, w)
      BY <2>2, AppendLast
    <2> QED BY <2>1, <2>3, <2>4, SameEnds DEF JD!Step, JD!Replaced
  <1>4. CASE p.ty \in Map
    <2>1. Way(p, n) = [into |-> "member", key |-> p.map_key]
      BY <1>1, <1>4, Shapes DEF Way
    <2>2. p.map_key \notin DOMAIN pv
      BY <1>1, <1>4 DEF Refused
    <2>3. /\ Put(p, pv, n, v) = Insert(pv, p.map_key, v)
          /\ Put(p, pv, n, w) = Insert(pv, p.map_key, w)
      BY <1>4, PutEntry
    <2>4. /\ Insert(pv, p.map_key, v)[p.map_key] = v
          /\ [Insert(pv, p.map_key, v) EXCEPT ![p.map_key] = w] = Insert(pv, p.map_key, w)
      BY <2>2, InsertNew
    <2> QED BY <2>1, <2>3, <2>4 DEF JD!Step, JD!Replaced
  <1> QED BY <1>1, <1>2, <1>3, <1>4 DEF Container

LEMMA PutGone ==
  ASSUME NEW p, NEW pv, NEW n, Linked(p, n), Of(p.ty, pv), Refused(p, pv), NEW v
  PROVE  Put(p, pv, n, v) = pv
  <1>1. p.ty \in Map /\ p.map_key \in DOMAIN pv
    BY LinkedKinds DEF Refused
  <1>2. IsFcn(pv)
    BY <1>1, OfMap
  <1> QED BY <1>1, <1>2, PutEntry, InsertOld

-----------------------------------------------------------------------------
\* The decoder's path leads down the stack, unless a node on the way is for a
\* key that its map has already.
Chained == /\ Len(stack) \in Nat \ {0} /\ Len(inst) = Len(stack)
           /\ \A i \in 1..(Len(stack) - 1) : Linked(stack[i], stack[i + 1])
           /\ \A i \in 1..Len(stack) : Of(stack[i].ty, inst[i])
Dropped(n) == \E j \in 2..n : Rejected(j)

LEMMA PathIs ==
  ASSUME Chained
  PROVE  /\ IsSeq(PathOf, Len(stack) - 1) /\ Len(PathOf) = Len(stack) - 1
         /\ \A i \in 1..(Len(stack) - 1) :
              PathOf[i] = IF Dropped(i + 1) THEN [into |-> "void"] ELSE Way(stack[i], stack[i + 1])
  <1>1. PICK n \in Nat : n = Len(stack) - 1
    BY DEF Chained
  <1>2. IsSeq(PathOf, n)
    BY <1>1 DEF PathOf, IsSeq
  <1>3. ASSUME NEW i \in 1..n
        PROVE  PathOf[i] = IF Dropped(i + 1) THEN [into |-> "void"] ELSE Way(stack[i], stack[i + 1])
    <2>1. PathOf[i] = CASE Dropped(i + 1) -> [into |-> "void"]
               [] stack[i].is_list /\ ~Dropped(i + 1) -> [into |-> "last"]
               [] stack[i].is_map /\ ~Dropped(i + 1) -> [into |-> "member", key |-> stack[i].map_key]
               [] OTHER -> [into |-> "member", key |-> stack[i + 1].activekey]
      BY <1>1 DEF PathOf, Dropped
    <2>2. ~(stack[i].is_list /\ stack[i].is_map)
      BY <1>1, LinkedKinds, Shapes DEF Chained
    <2>3. CASE Dropped(i + 1)
      BY <2>1, <2>3
    <2>4. CASE ~Dropped(i + 1) /\ stack[i].is_list
      BY <2>1, <2>2, <2>4 DEF Way
    <2>5. CASE ~Dropped(i + 1) /\ ~stack[i].is_list
      BY <2>1, <2>5 DEF Way
    <2> QED BY <2>3, <2>4, <2>5
  <1> QED BY <1>1, <1>2, <1>3, SeqOfContents

\* The levels between two nodes, when nothing is dropped.
LEMMA LevelIs ==
  ASSUME Chained, ~Dropped(Len(stack)), NEW i \in 1..(Len(stack) - 1), NEW v, NEW w
  PROVE  /\ PathOf[i] = Way(stack[i], stack[i + 1])
         /\ JD!Step(Put(stack[i], inst[i], stack[i + 1], v), PathOf[i]) = v
         /\ JD!Replaced(Put(stack[i], inst[i], stack[i + 1], v), PathOf[i], w)
              = Put(stack[i], inst[i], stack[i + 1], w)
  <1>1. PICK n \in Nat : n = Len(stack)
    BY DEF Chained
  <1>2. i \in 1..n /\ i + 1 \in 2..n /\ (i + 1) - 1 = i /\ \A j \in 2..(i + 1) : j \in 2..n
    BY <1>1
  <1>3. ~Dropped(i + 1) /\ ~Rejected(i + 1)
    BY <1>1, <1>2 DEF Dropped
  <1>4. ~Refused(stack[i], inst[i])
    BY <1>2, <1>3 DEF Rejected, Refused
  <1>5. Linked(stack[i], stack[i + 1]) /\ Of(stack[i].ty, inst[i])
    BY <1>1, <1>2 DEF Chained
  <1>6. PathOf[i] = Way(stack[i], stack[i + 1])
    BY <1>3, PathIs
  <1> QED BY <1>4, <1>5, <1>6, PutStep

LEMMA AlongIs ==
  ASSUME Reading, Chained, ~Dropped(Len(stack)),
         NEW f, IsFold(f, stack, inst, Len(stack)), Folded = f[1]
  PROVE  \A i \in 1..Len(stack) : JD!Along[i - 1] = f[i]
  <1>1. PICK n \in Nat : n = Len(stack) /\ n > 0
    BY DEF Chained
  <1> DEFINE P(a) == a = [i \in 0..(n - 1) |-> IF i = 0 THEN Folded ELSE JD!Step(a[i - 1], PathOf[i])]
             a == CHOOSE a : P(a)
             b == [i \in 0..(n - 1) |-> f[i + 1]]
  <1>2. \A i \in 1..(n - 1) : f[i + 1] = JD!Step(f[i], PathOf[i])
    <2> TAKE i \in 1..(n - 1)
    <2>1. i \in 1..n /\ i # n
      OBVIOUS
    <2>2. f[i] = Put(stack[i], inst[i], stack[i + 1], f[i + 1])
      BY <1>1, <2>1 DEF IsFold
    <2> QED BY <1>1, <2>2, LevelIs
  <1>3. P(b)
    <2>1. \A i \in 0..(n - 1) : i # 0 => i \in 1..(n - 1) /\ i - 1 \in 0..(n - 1) /\ (i - 1) + 1 = i
      OBVIOUS
    <2>2. \A i \in 0..(n - 1) : b[i] = IF i = 0 THEN Folded ELSE JD!Step(b[i - 1], PathOf[i])
      <3> TAKE i \in 0..(n - 1)
      <3>1. CASE i = 0
        BY <3>1
      <3>2. CASE i # 0
        <4>1. b[i] = f[i + 1] /\ b[i - 1] = f[i]
          BY <2>1, <3>2
        <4> QED BY <1>2, <2>1, <3>2, <4>1
      <3> QED BY <3>1, <3>2
    <2>3. b = [i \in 0..(n - 1) |-> b[i]]
      OBVIOUS
    <2> HIDE DEF b
    <2> QED BY <2>2, <2>3
  <1>4. P(a)
    <2> HIDE DEF P, b
    <2> QED BY <1>3
  <1>5. JD!Along = a
    BY <1>1, PathIs DEF JD!Along, Reading
  <1>6. 0..(n - 1) \subseteq {i \in 0..(n - 1) : a[i] = f[i + 1]}
    <2> DEFINE S == {i \in 0..(n - 1) : a[i] = f[i + 1]}
    <2> HIDE DEF a
    <2>0. n - 1 \in Nat
      BY <1>1
    <2>1. 0 \in S
      BY <1>1, <1>4
    <2>2. ASSUME NEW i \in 0..((n - 1) - 1), i \in S
          PROVE  i + 1 \in S
      <3>1. i + 1 \in 0..(n - 1) /\ i + 1 # 0 /\ (i + 1) - 1 = i /\ i + 1 \in 1..(n - 1)
        BY <1>1
      <3>2. a[i + 1] = JD!Step(a[i], PathOf[i + 1])
        BY <1>4, <3>1
      <3>3. a[i] = f[i + 1]
        BY <2>2
      <3> QED BY <1>2, <3>1, <3>2, <3>3
    <2> HIDE DEF S
    <2>3. 0..(n - 1) \subseteq S
      BY <2>0, <2>1, <2>2, UpTo
    <2> QED BY <2>3 DEF S
  <1>7. ASSUME NEW i \in 1..n
        PROVE  JD!Along[i - 1] = f[i]
    <2>1. i - 1 \in 0..(n - 1) /\ (i - 1) + 1 = i
      OBVIOUS
    <2> HIDE DEF a
    <2>2. a[i - 1] = f[(i - 1) + 1]
      BY <1>6, <2>1
    <2> QED BY <1>5, <2>1, <2>2
  <1> QED BY <1>1, <1>7

LEMMA HereIs ==
  ASSUME Reading, Chained, ~Dropped(Len(stack))
  PROVE  JD!Here = TopInst
  <1>1. PICK n \in Nat : n = Len(stack) /\ n > 0
    BY DEF Chained
  <1>2. PICK f : IsFold(f, stack, inst, n) /\ Folded = f[1]
    BY <1>1, FoldedIs
  <1>3. n \in 1..n
    BY <1>1
  <1>4. f[n] = inst[n] /\ JD!Along[n - 1] = f[n]
    BY <1>1, <1>2, <1>3, AlongIs DEF IsFold
  <1>5. JD!Here = JD!Along[Len(PathOf)]
    BY DEF JD!Here, Reading
  <1> QED BY <1>1, <1>4, <1>5, PathIs DEF TopInst, Chained

\* The object when the content on top has become another one.
LEMMA UpdatedIs ==
  ASSUME Reading, Chained, ~Dropped(Len(stack)), NEW g,
         \A i \in 1..(Len(stack) - 1) : g[i] = Put(stack[i], inst[i], stack[i + 1], g[i + 1])
  PROVE  JD!Updated(g[Len(stack)]) = g[1]
  <1>1. PICK n \in Nat : n = Len(stack) /\ n > 0
    BY DEF Chained
  <1>2. PICK f : IsFold(f, stack, inst, n) /\ Folded = f[1]
    BY <1>1, FoldedIs
  <1>3. \A i \in 1..n : JD!Along[i - 1] = f[i]
    BY <1>1, <1>2, AlongIs
  <1>4. \A i \in 1..(n - 1) : g[i] = JD!Replaced(JD!Along[i - 1], PathOf[i], g[i + 1])
    <2> TAKE i \in 1..(n - 1)
    <2>1. i \in 1..n /\ i # n
      OBVIOUS
    <2>2. f[i] = Put(stack[i], inst[i], stack[i + 1], f[i + 1])
      BY <1>2, <2>1 DEF IsFold
    <2>3. \A v, w : JD!Replaced(Put(stack[i], inst[i], stack[i + 1], v), PathOf[i], w)
                      = Put(stack[i], inst[i], stack[i + 1], w)
      BY <1>1, LevelIs
    <2> QED BY <1>1, <1>3, <2>1, <2>2, <2>3
  <1> DEFINE path == IF Reading THEN PathOf ELSE <<>>
             P(u) == u = [i \in 0..Len(path) |-> IF i = Len(path) THEN g[n]
                                                 ELSE JD!Replaced(JD!Along[i], path[i + 1], u[i + 1])]
             u == CHOOSE u : P(u)
             b == [i \in 0..(n - 1) |-> g[i + 1]]
  <1>0. path = PathOf /\ Len(path) = n - 1
    BY <1>1, PathIs
  <1>5. P(b)
    <2>1. \A i \in 0..(n - 1) : i # n - 1 => /\ i + 1 \in 1..(n - 1) /\ (i + 1) - 1 = i
                                             /\ i + 1 \in 0..(n - 1)
      OBVIOUS
    <2>2. \A i \in 0..(n - 1) : b[i] = IF i = n - 1 THEN g[n] ELSE JD!Replaced(JD!Along[i], PathOf[i + 1], b[i + 1])
      <3> TAKE i \in 0..(n - 1)
      <3>1. CASE i = n - 1
        BY <1>1, <3>1
      <3>2. CASE i # n - 1
        <4>1. b[i] = g[i + 1] /\ b[i + 1] = g[(i + 1) + 1]
          BY <2>1, <3>2
        <4>2. g[i + 1] = JD!Replaced(JD!Along[i], PathOf[i + 1], g[(i + 1) + 1])
          BY <1>4, <2>1, <3>2
        <4> QED BY <3>2, <4>1, <4>2
      <3> QED BY <3>1, <3>2
    <2>3. b = [i \in 0..(n - 1) |-> b[i]]
      OBVIOUS
    <2> HIDE DEF b, path
    <2> QED BY <1>0, <2>2, <2>3
  <1>6. P(u)
    <2> HIDE DEF P, b, path
    <2> QED BY <1>5
  <1>7. JD!Updated(g[n]) = u[0]
    BY DEF JD!Updated
  <1>8. 1..n \subseteq {i \in 1..n : u[i - 1] = g[i]}
    <2> DEFINE S == {i \in 1..n : u[i - 1] = g[i]}
    <2> HIDE DEF u, path
    <2>1. n \in S
      BY <1>0, <1>1, <1>6
    <2>2. ASSUME NEW i \in 1..(n - 1), i + 1 \in S
          PROVE  i \in S
      <3>1. i \in 1..n /\ i - 1 \in 0..(n - 1) /\ i - 1 # n - 1 /\ (i - 1) + 1 = i /\ (i + 1) - 1 = i
        BY <1>1
      <3>2. u[i - 1] = JD!Replaced(JD!Along[i - 1], PathOf[i], u[i])
        BY <1>0, <1>6, <3>1
      <3>3. u[i] = g[i + 1]
        BY <2>2, <3>1
      <3> QED BY <1>4, <3>1, <3>2, <3>3
    <2> HIDE DEF S
    <2>3. 1..n \subseteq S
      BY <1>1, <2>1, <2>2, DownTo
    <2> QED BY <2>3 DEF S
  <1>9. u[0] = g[1]
    <2>1. 1 \in 1..n /\ 1 - 1 = 0
      BY <1>1
    <2> HIDE DEF u
    <2> QED BY <1>8, <2>1
  <1> QED BY <1>1, <1>7, <1>9

-----------------------------------------------------------------------------
\* What a step that touches only the top of the stack leaves below it.
FoldsDown == \E f : IsFold(f, stack, inst, Len(stack)) /\ Folded = f[1]
LeadsDown ==
  /\ IsSeq(PathOf, Len(stack) - 1)
  /\ \A i \in 1..(Len(stack) - 1) :
       PathOf[i] = IF Dropped(i + 1) THEN [into |-> "void"] ELSE Way(stack[i], stack[i + 1])

LEMMA ChainedNext == Chained' => FoldsDown' /\ LeadsDown'
  <1>1. Chained => FoldsDown
    BY FoldedIs DEF Chained, FoldsDown
  <1>2. Chained => LeadsDown
    BY PathIs DEF LeadsDown
  <1> QED BY <1>1, <1>2, PTL

KeptTo(k) == /\ k \in 1..Len(stack) /\ k \in 1..Len(stack')
            /\ SameNodes(stack', stack, k)
            /\ Agree(stack', stack, k - 1) /\ Agree(inst', inst, k - 1)

LEMMA KeptNodes ==
  ASSUME StackOK, NEW k, KeptTo(k)
  PROVE  /\ \A i \in 1..k : SameNode(stack'[i], stack[i])
         /\ \A i \in 1..(k - 1) : stack'[i] = stack[i] /\ inst'[i] = inst[i]
  <1>1. Len(stack) \in Nat /\ k \in 0..Len(stack)
    BY TopOK DEF KeptTo
  <1>2. \A i \in 1..k : SameNode(stack'[i], stack[i])
    BY <1>1, NodesSame DEF KeptTo
  <1> QED BY <1>2 DEF KeptTo, Agree

LEMMA PutKept ==
  ASSUME StackOK, NEW k, KeptTo(k)
  PROVE  \A i \in 1..(k - 1) : \A v : Put(stack'[i], inst'[i], stack'[i + 1], v)
                                        = Put(stack[i], inst[i], stack[i + 1], v)
  <1> TAKE i \in 1..(k - 1)
  <1> TAKE v
  <1>1. k \in Nat /\ i + 1 \in 1..k
    BY TopOK DEF KeptTo
  <1>2. stack'[i] = stack[i] /\ inst'[i] = inst[i] /\ SameNode(stack'[i + 1], stack[i + 1])
    BY <1>1, KeptNodes
  <1>3. \A p, pv, n, m : SameNode(m, n) => Put(p, pv, m, v) = Put(p, pv, n, v)
    <2> SUFFICES ASSUME NEW p, NEW pv, NEW n, NEW m, SameNode(m, n)
                 PROVE  Put(p, pv, m, v) = Put(p, pv, n, v)
      OBVIOUS
    <2>1. /\ m.is_list = n.is_list /\ m.ty = n.ty /\ m.activekey = n.activekey
      BY DEF SameNode
    <2>2. Owns(p, m) <=> Owns(p, n)
      BY <2>1 DEF Owns
    <2>3. PtrAgrees(p, m) <=> PtrAgrees(p, n)
      BY <2>1, <2>2 DEF PtrAgrees, PtrMissing
    <2>4. ListInto(p, pv, m, v) = ListInto(p, pv, n, v)
      BY <2>1, <2>2 DEF ListInto
    <2>5. ObjectInto(p, pv, m, v) = ObjectInto(p, pv, n, v)
      BY <2>1, <2>2, <2>3 DEF ObjectInto
    <2> QED BY <2>1, <2>4, <2>5 DEF Put
  <1> QED BY <1>2, <1>3

LEMMA PathKept ==
  ASSUME StackOK, Chained, Chained', NEW k, KeptTo(k)
  PROVE  /\ \A i \in 1..(k - 1) : PathOf'[i] = PathOf[i]
         /\ \A j \in 1..k : Dropped(j)' <=> Dropped(j)
  <1>1. PICK l \in Nat : l = k
    BY TopOK DEF KeptTo
  <1>2. \A j \in 2..l : Rejected(j)' <=> Rejected(j)
    <2> TAKE j \in 2..l
    <2>1. j - 1 \in 1..(l - 1)
      BY <1>1
    <2>2. stack'[j - 1] = stack[j - 1] /\ inst'[j - 1] = inst[j - 1]
      BY <1>1, <2>1, KeptNodes
    <2> QED BY <2>2 DEF Rejected
  <1>3. \A j \in 1..l : Dropped(j)' <=> Dropped(j)
    <2> TAKE j \in 1..l
    <2>1. \A i \in 2..j : i \in 2..l
      OBVIOUS
    <2> QED BY <1>2, <2>1 DEF Dropped
  <1>4. \A i \in 1..(l - 1) : PathOf'[i] = PathOf[i]
    <2> TAKE i \in 1..(l - 1)
    <2>1. i + 1 \in 1..l /\ i \in 1..(Len(stack) - 1) /\ i \in 1..(Len(stack') - 1)
      BY <1>1 DEF KeptTo, Chained
    <2>2. PathOf'[i] = IF Dropped(i + 1)' THEN [into |-> "void"] ELSE Way(stack'[i], stack'[i + 1])
      BY <2>1, ChainedNext DEF LeadsDown
    <2>3. PathOf[i] = IF Dropped(i + 1) THEN [into |-> "void"] ELSE Way(stack[i], stack[i + 1])
      BY <2>1, PathIs
    <2>4. Way(stack'[i], stack'[i + 1]) = Way(stack[i], stack[i + 1])
      <3>1. stack'[i] = stack[i] /\ SameNode(stack'[i + 1], stack[i + 1])
        BY <1>1, <2>1, KeptNodes
      <3> QED BY <3>1 DEF Way, SameNode
    <2> QED BY <1>3, <2>1, <2>2, <2>3, <2>4
  <1> QED BY <1>1, <1>3, <1>4

\* The object, when the top of the stack is kept, replaced, covered or popped.
LEMMA FoldedKept ==
  ASSUME StackOK, Chained, Chained', NEW k, KeptTo(k),
         NEW f, IsFold(f, stack, inst, Len(stack)), Folded = f[1],
         NEW g, IsFold(g, stack', inst', Len(stack')), Folded' = g[1],
         f[k] = g[k] \/ Dropped(k)
  PROVE  Folded' = Folded
  <1>1. PICK l \in Nat : l = k
    BY TopOK DEF KeptTo
  <1>2. PICK n \in Nat : n = Len(stack)
    BY DEF Chained
  <1>3. PICK m \in Nat : m = Len(stack')
    BY DEF Chained
  <1>4. l \in 1..n /\ l \in 1..m
    BY <1>1, <1>2, <1>3 DEF KeptTo
  <1>5. \A i \in 1..(l - 1) : \A v : Put(stack[i], inst[i], stack[i + 1], v)
                                       = Put(stack'[i], inst'[i], stack'[i + 1], v)
    BY <1>1, PutKept
  <1>6. CASE f[k] = g[k]
    <2>1. PutsSame(stack, inst, stack', inst', l)
      BY <1>5 DEF PutsSame
    <2>2. IsFold(f, stack, inst, n) /\ IsFold(g, stack', inst', m) /\ f[l] = g[l]
      BY <1>1, <1>2, <1>3, <1>6
    <2>3. f[1] = g[1]
      BY <1>4, <2>1, <2>2, FoldSame
    <2> QED BY <2>3
  <1>7. CASE Dropped(k)
    <2>1. PICK j \in 2..l : Rejected(j)
      BY <1>1, <1>7 DEF Dropped
    <2>2. PICK i \in Nat : i = j - 1
      BY <1>1, <2>1
    <2>3. i \in 1..(l - 1) /\ i \in 1..n /\ i \in 1..m /\ i # n /\ i # m /\ i \in 1..(n - 1)
      BY <1>4, <2>1, <2>2
    <2>4. Linked(stack[i], stack[i + 1]) /\ Of(stack[i].ty, inst[i]) /\ Refused(stack[i], inst[i])
      BY <1>2, <2>1, <2>2, <2>3 DEF Chained, Rejected, Refused
    <2>5. \A v : Put(stack[i], inst[i], stack[i + 1], v) = inst[i]
      BY <2>4, PutGone
    <2>6. f[i] = inst[i]
      <3>1. f[i] = Put(stack[i], inst[i], stack[i + 1], f[i + 1])
        BY <1>2, <2>3 DEF IsFold
      <3> QED BY <2>5, <3>1
    <2>7. g[i] = inst[i]
      <3>1. g[i] = Put(stack'[i], inst'[i], stack'[i + 1], g[i + 1])
        BY <1>3, <2>3 DEF IsFold
      <3> QED BY <1>5, <2>3, <2>5, <3>1
    <2>8. \A h \in 1..(i - 1) : h \in 1..(l - 1)
      BY <2>3
    <2>9. PutsSame(stack, inst, stack', inst', i)
      BY <1>5, <2>8 DEF PutsSame
    <2>10. f[i] = g[i] /\ IsFold(f, stack, inst, n) /\ IsFold(g, stack', inst', m)
      BY <1>2, <1>3, <2>6, <2>7
    <2>11. f[1] = g[1]
      BY <2>3, <2>9, <2>10, FoldSame
    <2> QED BY <2>11
  <1> QED BY <1>6, <1>7

LEMMA FoldedUpdated ==
  ASSUME Reading, StackOK, Chained, Chained', KeptTo(Len(stack)), ~Dropped(Len(stack)),
         NEW g, IsFold(g, stack', inst', Len(stack')), Folded' = g[1]
  PROVE  Folded' = JD!Updated(g[Len(stack)])
  <1>1. PICK n \in Nat : n = Len(stack)
    BY DEF Chained
  <1>2. PICK m \in Nat : m = Len(stack') /\ n <= m
    BY <1>1 DEF KeptTo, Chained
  <1>3. ASSUME NEW i \in 1..(n - 1)
        PROVE  g[i] = Put(stack[i], inst[i], stack[i + 1], g[i + 1])
    <2>1. i \in 1..m /\ i # m
      BY <1>2
    <2>2. g[i] = Put(stack'[i], inst'[i], stack'[i + 1], g[i + 1])
      BY <1>2, <2>1 DEF IsFold
    <2> QED BY <1>1, <2>2, PutKept
  <1>4. \A i \in 1..(Len(stack) - 1) : g[i] = Put(stack[i], inst[i], stack[i + 1], g[i + 1])
    BY <1>1, <1>3
  <1>5. JD!Updated(g[Len(stack)]) = g[1]
    BY <1>4, UpdatedIs
  <1> QED BY <1>5

LEMMA TopSame ==
  ASSUME StackOK, Chained, Chained', KeptTo(Len(stack)), Len(stack') = Len(stack),
         inst'[Len(stack)] = inst[Len(stack)]
  PROVE  Folded' = Folded /\ PathOf' = PathOf
  <1>1. PICK n \in Nat : n = Len(stack) /\ n \in 1..n
    BY DEF Chained
  <1>2. PICK f : IsFold(f, stack, inst, n) /\ Folded = f[1]
    BY <1>1, FoldedIs DEF Chained
  <1>3. PICK g : IsFold(g, stack', inst', n) /\ Folded' = g[1]
    BY <1>1, ChainedNext DEF FoldsDown
  <1>4. f[n] = g[n]
    BY <1>1, <1>2, <1>3 DEF IsFold
  <1>5. Folded' = Folded
    BY <1>1, <1>2, <1>3, <1>4, FoldedKept
  <1>6. PathOf' = PathOf
    <2>1. IsSeq(PathOf', n - 1) /\ IsSeq(PathOf, n - 1)
      BY <1>1, PathIs, ChainedNext DEF LeadsDown
    <2>2. \A i \in 1..(n - 1) : PathOf'[i] = PathOf[i]
      BY <1>1, PathKept
    <2> QED BY <2>1, <2>2 DEF IsSeq
  <1> QED BY <1>5, <1>6

LEMMA TopReplaced ==
  ASSUME Reading, StackOK, Chained, Chained', KeptTo(Len(stack)), Len(stack') = Len(stack)
  PROVE  /\ Dropped(Len(stack)) => Folded' = Folded
         /\ ~Dropped(Len(stack)) => Folded' = JD!Updated(inst'[Len(stack)])
         /\ PathOf' = PathOf
  <1>1. PICK n \in Nat : n = Len(stack) /\ n \in 1..n
    BY DEF Chained
  <1>2. PICK f : IsFold(f, stack, inst, n) /\ Folded = f[1]
    BY <1>1, FoldedIs DEF Chained
  <1>3. PICK g : IsFold(g, stack', inst', n) /\ Folded' = g[1]
    BY <1>1, ChainedNext DEF FoldsDown
  <1>4. g[n] = inst'[n]
    BY <1>1, <1>3 DEF IsFold
  <1>5. Dropped(n) => Folded' = Folded
    BY <1>1, <1>2, <1>3, FoldedKept
  <1>6. ~Dropped(n) => Folded' = JD!Updated(inst'[n])
    BY <1>1, <1>3, <1>4, FoldedUpdated
  <1>7. PathOf' = PathOf
    <2>1. IsSeq(PathOf', n - 1) /\ IsSeq(PathOf, n - 1)
      BY <1>1, PathIs, ChainedNext DEF LeadsDown
    <2>2. \A i \in 1..(n - 1) : PathOf'[i] = PathOf[i]
      BY <1>1, PathKept
    <2> QED BY <2>1, <2>2 DEF IsSeq
  <1> QED BY <1>1, <1>5, <1>6, <1>7

LEMMA TopPopped ==
  ASSUME StackOK, Chained, Chained', Len(stack) > 1, Len(stack') = Len(stack) - 1,
         KeptTo(Len(stack) - 1),
         inst'[Len(stack) - 1] = Put(Parent, ParentInst, Top, TopInst)
  PROVE  /\ Folded' = Folded
         /\ IsSeq(PathOf, Len(stack) - 1) /\ IsSeq(PathOf', Len(stack) - 2)
         /\ \A i \in 1..(Len(stack) - 2) : PathOf'[i] = PathOf[i]
  <1>1. PICK n \in Nat : n = Len(stack)
    BY DEF Chained
  <1>2. PICK m \in Nat : m = n - 1 /\ m \in 1..m /\ m \in 1..n /\ m # n /\ m + 1 = n /\ n \in 1..n
    BY <1>1
  <1>3. PICK f : IsFold(f, stack, inst, n) /\ Folded = f[1]
    BY <1>1, FoldedIs DEF Chained
  <1>4. PICK g : IsFold(g, stack', inst', m) /\ Folded' = g[1]
    BY <1>1, <1>2, ChainedNext DEF FoldsDown
  <1>5. g[m] = inst'[m] /\ f[n] = inst[n] /\ f[m] = Put(stack[m], inst[m], stack[n], f[n])
    BY <1>2, <1>3, <1>4 DEF IsFold
  <1>6. Parent = stack[m] /\ ParentInst = inst[m] /\ Top = stack[n] /\ TopInst = inst[n]
    BY <1>1, <1>2 DEF Parent, ParentInst, Top, TopInst, Chained
  <1>7. f[m] = g[m]
    BY <1>1, <1>2, <1>5, <1>6
  <1>8. Folded' = Folded
    BY <1>1, <1>2, <1>3, <1>4, <1>7, FoldedKept
  <1>9. IsSeq(PathOf, n - 1) /\ IsSeq(PathOf', m - 1) /\ m - 1 = n - 2
    BY <1>1, <1>2, PathIs, ChainedNext DEF LeadsDown
  <1>10. \A i \in 1..(m - 1) : PathOf'[i] = PathOf[i]
    BY <1>1, <1>2, PathKept
  <1> QED BY <1>1, <1>8, <1>9, <1>10

LEMMA TopCovered ==
  ASSUME Reading, StackOK, Chained, Chained', Len(stack') = Len(stack) + 1, KeptTo(Len(stack)),
         stack'[Len(stack)] = Top, inst'[Len(stack)] = TopInst,
         NEW node, node = stack'[Len(stack) + 1], NEW content, content = inst'[Len(stack) + 1]
  PROVE  /\ Put(Top, TopInst, node, content) = TopInst \/ Dropped(Len(stack)) => Folded' = Folded
         /\ ~Dropped(Len(stack)) => Folded' = JD!Updated(Put(Top, TopInst, node, content))
         /\ IsSeq(PathOf, Len(stack) - 1) /\ IsSeq(PathOf', Len(stack))
         /\ \A i \in 1..(Len(stack) - 1) : PathOf'[i] = PathOf[i]
         /\ PathOf'[Len(stack)] = IF Dropped(Len(stack)) \/ Refused(Top, TopInst) THEN [into |-> "void"]
                                  ELSE Way(Top, node)
  <1>1. PICK n \in Nat : n = Len(stack) /\ n \in 1..n
    BY DEF Chained
  <1>2. PICK m \in Nat : m = n + 1 /\ n \in 1..m /\ m # n /\ m \in 1..m /\ n = m - 1 /\ n \in 1..(m - 1)
    BY <1>1
  <1>3. PICK f : IsFold(f, stack, inst, n) /\ Folded = f[1]
    BY <1>1, FoldedIs DEF Chained
  <1>4. PICK g : IsFold(g, stack', inst', m) /\ Folded' = g[1]
    BY <1>1, <1>2, ChainedNext DEF FoldsDown
  <1>5. f[n] = TopInst /\ g[n] = Put(Top, TopInst, node, content)
    <2>1. f[n] = inst[n] /\ TopInst = inst[n]
      BY <1>1, <1>3 DEF IsFold, TopInst, Chained
    <2>2. g[n] = Put(stack'[n], inst'[n], stack'[m], g[m]) /\ g[m] = inst'[m]
      BY <1>2, <1>4 DEF IsFold
    <2> QED BY <1>1, <1>2, <2>1, <2>2
  <1>6. Put(Top, TopInst, node, content) = TopInst \/ Dropped(n) => Folded' = Folded
    BY <1>1, <1>2, <1>3, <1>4, <1>5, FoldedKept
  <1>7. ~Dropped(n) => Folded' = JD!Updated(Put(Top, TopInst, node, content))
    BY <1>1, <1>2, <1>4, <1>5, FoldedUpdated
  <1>8. IsSeq(PathOf, n - 1) /\ IsSeq(PathOf', n)
    BY <1>1, <1>2, PathIs, ChainedNext DEF LeadsDown
  <1>9. \A i \in 1..(n - 1) : PathOf'[i] = PathOf[i]
    BY <1>1, PathKept
  <1>10. PathOf'[n] = IF Dropped(m)' THEN [into |-> "void"] ELSE Way(stack'[n], stack'[m])
    BY <1>1, <1>2, ChainedNext DEF LeadsDown
  <1>11. Dropped(m)' <=> Dropped(n) \/ Refused(Top, TopInst)
    <2>1. Rejected(m)' <=> Refused(Top, TopInst)
      BY <1>1, <1>2 DEF Rejected, Refused
    <2>2. Dropped(m)' <=> Dropped(n)' \/ Rejected(m)'
      <3>1. 2..m = 2..n \cup {m}
        BY <1>1, <1>2
      <3> QED BY <3>1 DEF Dropped
    <2>3. Dropped(n)' <=> Dropped(n)
      BY <1>1, PathKept
    <2> QED BY <2>1, <2>2, <2>3
  <1> QED BY <1>1, <1>2, <1>6, <1>7, <1>8, <1>9, <1>10, <1>11

-----------------------------------------------------------------------------
\* The inductive invariant, beside Conforms: a node above an object's is for a
\* member of the type the node has, a map's node has the key being read, and
\* outside of the document's own brackets there is only the root's node.
Held ==
  Conforming /\ Reading =>
    /\ doc = <<>> => Len(stack) = 1
    /\ \A i \in 1..(Len(stack) - 1) : MemberOf(stack[i], stack[i + 1])
    /\ doc # <<>> /\ Last(doc).ty \in Map /\ Last(doc).key # NoKey => Top.map_key = Last(doc).key

Ready == CInv /\ Conforms /\ Held /\ Conforming /\ Reading

\* What is known of the top of the stack inside of the document's brackets.
LEMMA OnTop ==
  ASSUME Ready, doc # <<>>
  PROVE  /\ Follow(stack, doc, active_key)
         /\ Len(stack) = Len(doc) /\ Len(stack) \in Nat \ {0} /\ Last(doc) = doc[Len(doc)]
         /\ Reads(Top, Last(doc)) /\ Top.ty = Last(doc).ty
         /\ Top = stack[Len(stack)] /\ TopInst = inst[Len(stack)] /\ Of(Top.ty, TopInst)
  <1>1. Follow(stack, doc, active_key) /\ Inv
    BY DEF Ready, Conforms, Reading, CInv
  <1>2. /\ Reads(Top, Last(doc)) /\ Len(stack) = Len(doc) /\ Len(stack) \in Nat \ {0}
        /\ Last(doc) = doc[Len(doc)] /\ Top = stack[Len(doc)]
    BY <1>1, TopReads
  <1>3. TopInst = inst[Len(stack)] /\ Of(Top.ty, TopInst)
    BY TopContent DEF Ready
  <1>4. Top.ty = Last(doc).ty
    BY <1>2 DEF Reads
  <1> QED BY <1>1, <1>2, <1>3, <1>4

LEMMA ReadyChained ==
  ASSUME Ready
  PROVE  /\ Chained /\ StackOK /\ DocOK /\ Inv
         /\ Len(stack) = IF doc = <<>> THEN 1 ELSE Len(doc)
  <1>1. StackOK /\ DocOK /\ Inv /\ Contents
    BY DEF Ready, CInv, Inv
  <1>2. Len(inst) = Len(stack) /\ Len(stack) \in Nat \ {0}
    BY TopContent DEF Ready
  <1>3. \A i \in 1..Len(stack) : Of(stack[i].ty, inst[i])
    BY <1>1 DEF Contents
  <1>4. CASE doc = <<>>
    <2>1. Len(stack) = 1
      BY <1>4 DEF Ready, Held
    <2>2. 1..(Len(stack) - 1) = {}
      BY <2>1
    <2> QED BY <1>1, <1>2, <1>3, <1>4, <2>1, <2>2 DEF Chained
  <1>5. CASE doc # <<>>
    <2>1. Follow(stack, doc, active_key) /\ Len(stack) = Len(doc)
      BY <1>5, OnTop
    <2>2. PICK n \in Nat : n = Len(stack) /\ n = Len(doc)
      BY <1>2, <2>1
    <2>3. ASSUME NEW i \in 1..(n - 1)
          PROVE  Linked(stack[i], stack[i + 1])
      <3>1. i \in 1..n /\ i + 1 \in 1..n
        BY <2>2
      <3>2. Reads(stack[i], doc[i]) /\ Reads(stack[i + 1], doc[i + 1]) /\ Nests(stack[i], stack[i + 1])
        BY <2>1, <2>2, <3>1 DEF Follow
      <3>3. MemberOf(stack[i], stack[i + 1])
        BY <2>2 DEF Ready, Held
      <3> QED BY <3>2, <3>3 DEF Linked
    <2>4. Chained
      BY <1>2, <1>3, <2>2, <2>3 DEF Chained
    <2> QED BY <1>1, <1>5, <2>1, <2>4
  <1> QED BY <1>4, <1>5

\* The nodes that are kept are for the members they were for.
LEMMA MembersStill ==
  ASSUME Ready, NEW n \in 1..Len(stack), \A i \in 1..n : SameNode(stack'[i], stack[i])
  PROVE  \A i \in 1..(n - 1) : MemberOf(stack'[i], stack'[i + 1])
  <1>1. PICK l \in Nat : l = Len(stack)
    BY ReadyChained DEF Chained
  <1> TAKE i \in 1..(n - 1)
  <1>2. i \in 1..(l - 1) /\ i \in 1..n /\ i + 1 \in 1..n
    BY <1>1
  <1>3. MemberOf(stack[i], stack[i + 1])
    BY <1>1, <1>2 DEF Ready, Held
  <1>4. SameNode(stack'[i], stack[i]) /\ SameNode(stack'[i + 1], stack[i + 1])
    BY <1>2
  <1> QED BY <1>3, <1>4 DEF MemberOf, SameNode

-----------------------------------------------------------------------------
\* A bracket inside another one: the node that is pushed and its content.
OpensInside(b, node) ==
  /\ b \in {"{", "["} /\ EvOpen(b) /\ OpenedAs(b, DueType) /\ DueType \in TypeId
  /\ Len(stack') = Len(stack) + 1 /\ Agree(stack', stack, Len(stack)) /\ stack'[Len(stack) + 1] = node
  /\ Agree(inst', inst, Len(stack)) /\ inst'[Len(stack) + 1] = PushedContent
  /\ node.ty = DueType /\ node.activekey = active_key
  /\ Last(doc).ty \notin List => active_key = Last(doc).key /\ Last(doc).key # NoKey
  /\ status' = status

LEMMA Opening ==
  ASSUME Ready, doc # <<>>, start_object \/ start_array
  PROVE  \E b, node : OpensInside(b, node)
  <1>1. /\ Follow(stack, doc, active_key) /\ Inv /\ StackOK /\ DocOK
        /\ Len(inst) = Len(stack) /\ Len(stack) \in Nat \ {0} /\ Reads(Top, Last(doc))
    BY OnTop, ReadyChained DEF Chained
  <1>2. PICK b \in {"{", "["} : EvOpen(b) /\ Reader(b) /\ UNCHANGED <<active_key, status>> /\ OpenedAs(b, DueType)
                                /\ DueType \in Container
    <2>1. CASE start_object
      <3>1. EvOpen("{")
        BY <2>1 DEF start_object, start_object_member, start_object_element, start_object_skipped
      <3>2. OpenedAs("{", DueType) /\ DueType \in Class \cup Map
        BY <1>1, <3>1, ObjectOpens DEF Ready
      <3> QED BY <1>1, <2>1, <3>1, <3>2, ObjectReader DEF Ready, Container
    <2>2. CASE start_array
      <3>1. EvOpen("[")
        BY <2>2 DEF start_array, start_array_member, start_array_element, start_array_refused,
                    start_array_skipped
      <3>2. OpenedAs("[", DueType) /\ DueType \in List
        BY <1>1, <3>1, ArrayOpens DEF Ready
      <3> QED BY <1>1, <2>2, <3>1, <3>2, ArrayReader DEF Ready, Container
    <2> QED BY <2>1, <2>2
  <1>3. PICK node : /\ Push(node, PushedContent)
                    /\ Reads(node, Bracketed(b, DueType)) /\ Nests(Top, node) /\ node.activekey = active_key
    BY <1>2 DEF Reader
  <1>4. stack' = Append(stack, node) /\ inst' = Append(inst, PushedContent)
    BY <1>3 DEF Push
  <1>5. /\ Len(stack') = Len(stack) + 1 /\ stack'[Len(stack) + 1] = node
        /\ Agree(stack', stack, Len(stack))
    BY <1>1, <1>4, AppendedNode
  <1>6. Agree(inst', inst, Len(stack)) /\ inst'[Len(stack) + 1] = PushedContent
    <2>1. IsSeq(inst, Len(stack))
      BY <1>1 DEF StackOK
    <2>2. IsSeq(inst', Len(stack) + 1) /\ Agree(inst', inst, Len(stack))
      BY <1>4, <2>1, AppendIsSeq
    <2>3. Last(inst') = PushedContent
      BY <1>4, <2>1, AppendLast
    <2>4. Len(inst') = Len(stack) + 1
      BY <2>2, SeqOfContents
    <2> QED BY <2>2, <2>3, <2>4 DEF Last
  <1>7. Last(doc).ty \notin List => active_key = Last(doc).key /\ Last(doc).key # NoKey
    <2>1. ValueDue
      BY <1>2 DEF EvOpen
    <2> QED BY <1>1, <2>1, KeyActive
  <1>8. node.ty = DueType
    BY <1>3 DEF Reads, Bracketed
  <1>9. DueType \in TypeId
    BY <1>2, Shapes
  <1> QED BY <1>2, <1>3, <1>5, <1>6, <1>7, <1>8, <1>9 DEF OpensInside

\* The node of a member of an object is of the member's type.
LEMMA OpeningMember ==
  ASSUME Ready, doc # <<>>, NEW b, NEW node, OpensInside(b, node)
  PROVE  /\ MemberOf(Top, node)
         /\ Top.ty \in Class => node.activekey = Last(doc).key /\ PushedContent = TopInst[Last(doc).key]
  <1> SUFFICES ASSUME Top.ty \in Class
               PROVE  /\ node.activekey \in DOMAIN Meta[Top.ty] /\ Meta[Top.ty][node.activekey] = node.ty
                      /\ node.activekey = Last(doc).key /\ PushedContent = TopInst[Last(doc).key]
    BY DEF MemberOf
  <1>1. Top.ty = Last(doc).ty
    BY OnTop
  <1>2. active_key = Last(doc).key /\ node.activekey = active_key /\ node.ty = DueType /\ DueType \in TypeId
    BY <1>1, Shapes DEF OpensInside
  <1>3. Last(doc).key \in DOMAIN Meta[Last(doc).ty] /\ DueType = Meta[Last(doc).ty][Last(doc).key]
    BY <1>1, <1>2, MemberDue
  <1> QED BY <1>1, <1>2, <1>3 DEF PushedContent

LEMMA HeldOpened ==
  ASSUME Ready, DocOK', start_object \/ start_array
  PROVE  Held'
  <1>0. StackOK /\ DocOK /\ Inv
    BY ReadyChained
  <1>1. CASE doc = <<>>
    <2>1. start_object /\ nev = 0
      <3>1. nev = 0
        BY <1>1 DEF start_object, start_object_member, start_object_element, start_object_skipped,
           start_array, start_array_member, start_array_element, start_array_refused,
           start_array_skipped, EvOpen, ValueDue
      <3>2. ~start_array
        <4> SUFFICES ASSUME start_array
                     PROVE  FALSE
          OBVIOUS
        <4>1. EvOpen("[")
          BY DEF start_array, start_array_member, start_array_element, start_array_refused,
                 start_array_skipped
        <4>2. DueType \in List /\ DueType = RootType
          BY <1>0, <1>1, <4>1, ArrayOpens DEF DueType, Ready
        <4> QED BY <4>2, Shapes
      <3> QED BY <3>1, <3>2
    <2>2. stack = <<RootNode>> /\ active_key = NoKey
      BY <1>1, <2>1 DEF Ready, Conforms, Reading
    <2>3. doc' # <<>>
      BY <1>0, <1>1, <2>1, <2>2, FollowFirst DEF Ready
    <2>4. stack' = stack
      BY <2>1, <2>2 DEF start_object, start_object_member, start_object_element, start_object_skipped
    <2>5. Len(stack') = 1 /\ 1..(Len(stack') - 1) = {}
      BY <2>2, <2>4
    <2>6. Last(doc').key = NoKey
      <3>1. EvOpen("{")
        BY <2>1 DEF start_object, start_object_member, start_object_element, start_object_skipped
      <3>2. OpenedAs("{", DueType)
        BY <1>0, <3>1, ObjectOpens DEF Ready
      <3>3. Bracketed("{", DueType).key = NoKey
        BY DEF Bracketed
      <3>4. doc'[Len(doc')].key = NoKey
        BY <3>2, <3>3 DEF OpenedAs
      <3> QED BY <3>4 DEF Last
    <2> QED BY <2>3, <2>5, <2>6 DEF Held
  <1>2. CASE doc # <<>>
    <2>1. PICK b, node : OpensInside(b, node)
      BY <1>2, Opening
    <2>2. PICK n \in Nat : n = Len(stack) /\ n = Len(doc) /\ n # 0 /\ Top = stack[n]
      BY <1>2, OnTop
    <2>3. Last(doc').key = NoKey /\ Len(doc') = n + 1
      <3>1. Bracketed(b, DueType).key = NoKey
        BY DEF Bracketed
      <3>2. Len(doc') = n + 1 /\ doc'[n + 1] = Bracketed(b, DueType)
        BY <2>1, <2>2 DEF OpensInside, OpenedAs
      <3> QED BY <3>1, <3>2 DEF Last
    <2>4. doc' # <<>>
      BY <2>2, <2>3
    <2>5. /\ Len(stack') = n + 1 /\ stack'[n + 1] = node /\ \A i \in 1..n : stack'[i] = stack[i]
      BY <2>1, <2>2 DEF OpensInside, Agree
    <2>6. MemberOf(Top, node)
      BY <1>2, <2>1, OpeningMember
    <2>7. ASSUME NEW i \in 1..n
          PROVE  MemberOf(stack'[i], stack'[i + 1])
      <3>1. CASE i = n
        BY <2>2, <2>5, <2>6, <3>1
      <3>2. CASE i # n
        <4>1. i \in 1..(n - 1) /\ i + 1 \in 1..n
          BY <2>2, <3>2
        <4>2. MemberOf(stack[i], stack[i + 1])
          BY <2>2, <4>1 DEF Ready, Held
        <4> QED BY <2>5, <4>1, <4>2
      <3> QED BY <3>1, <3>2
    <2>8. \A i \in 1..(Len(stack') - 1) : MemberOf(stack'[i], stack'[i + 1])
      BY <2>2, <2>5, <2>7
    <2> QED BY <2>3, <2>4, <2>8 DEF Held
  <1> QED BY <1>1, <1>2

\* A bracket inside another one closes: its node is popped into the one below.
ClosesInside(b) ==
  /\ EvClose(b) /\ Len(stack) > 1
  /\ Len(stack') = Len(stack) - 1 /\ SameNodes(stack', stack, Len(stack) - 1)
  /\ Agree(inst', inst, Len(stack) - 2) /\ inst'[Len(stack) - 1] = Put(Parent, ParentInst, Top, TopInst)
  /\ Agree(stack', stack, Len(stack) - 2)

LEMMA Closing ==
  ASSUME Ready, end_object \/ end_array
  PROVE  doc # <<>> /\ (end_object_root \/ \E b : ClosesInside(b))
  <1>0. StackOK /\ Inv
    BY ReadyChained
  <1>1. doc # <<>>
    BY DEF end_object, end_object_root, end_object_nested, end_array, end_array_list,
           end_array_skipped, EvClose
  <1>2. Reads(Top, Last(doc))
    BY <1>1, OnTop
  <1>3. CASE end_object_nested
    <2>1. /\ Len(stack) > 1 /\ EvClose("{")
          /\ PopInto(ObjectInto(Parent, ParentInst, Top, TopInst), KeyLeft(Parent, Top))
      BY <1>3 DEF end_object_nested
    <2>2. KeyLeft(Parent, Top) \in Key \cup {NoKey}
      BY <1>0, <2>1, ParentOK DEF KeyLeft, Node
    <2>3. ~Top.is_list
      BY <1>2, <2>1 DEF Reads, EvClose
    <2>4. ObjectInto(Parent, ParentInst, Top, TopInst) = Put(Parent, ParentInst, Top, TopInst)
      BY <2>3 DEF Put
    <2> QED BY <1>0, <1>1, <2>1, <2>2, <2>4, PopOK DEF ClosesInside
  <1>4. CASE end_array
    <2>1. EvClose("[")
      BY <1>4 DEF end_array, end_array_list, end_array_skipped
    <2>2. Top.is_list
      BY <1>2, <2>1 DEF Reads, EvClose
    <2>3. end_array_list
      BY <1>4, <2>2 DEF end_array, end_array_skipped
    <2>4. PopInto(ListInto(Parent, ParentInst, Top, TopInst), Parent.map_key)
      BY <2>3 DEF end_array_list
    <2>5. Len(stack) > 1
      BY <1>0, <2>3, ListPops DEF Pops
    <2>6. Parent.map_key \in Key \cup {NoKey}
      BY <1>0, <2>5, ParentOK DEF Node
    <2>7. ListInto(Parent, ParentInst, Top, TopInst) = Put(Parent, ParentInst, Top, TopInst)
      BY <2>2 DEF Put
    <2> QED BY <1>0, <1>1, <2>1, <2>4, <2>5, <2>6, <2>7, PopOK DEF ClosesInside
  <1> QED BY <1>1, <1>3, <1>4 DEF end_object

LEMMA HeldClosed ==
  ASSUME Ready, DocOK', end_object \/ end_array
  PROVE  Held'
  <1>0. StackOK /\ DocOK /\ Inv /\ doc # <<>>
    BY ReadyChained, Closing
  <1>1. PICK n \in Nat : n = Len(stack) /\ n = Len(doc) /\ n # 0
    BY <1>0, OnTop
  <1>2. CASE end_object_root
    <2>0. Len(stack) = 1 /\ stack' = stack /\ EvClose("{")
      BY <1>2 DEF end_object_root
    <2>1. Len(stack') = 1 /\ 1..(Len(stack') - 1) = {}
      <3>1. 1..(1 - 1) = {}
        OBVIOUS
      <3> QED BY <2>0, <3>1
    <2>2. Len(doc') = 0
      <3>1. Len(doc') = Len(doc) - 1
        BY <1>0, <2>0, ClosedBrackets
      <3>2. 1 - 1 = 0
        OBVIOUS
      <3> QED BY <1>1, <2>0, <3>1, <3>2
    <2>3. doc' = <<>>
      BY <2>2, EmptySeq DEF DocOK
    <2> QED BY <2>1, <2>3 DEF Held
  <1>3. CASE \E b : ClosesInside(b)
    <2>1. PICK b : ClosesInside(b)
      BY <1>3
    <2>2. PICK m \in Nat : m = n - 1 /\ m # 0 /\ n > 1 /\ m \in 1..n /\ m \in 0..n
      BY <1>1, <2>1 DEF ClosesInside
    <2>3. Len(doc') = m /\ doc'[m].key = NoKey
      BY <1>0, <1>1, <2>1, <2>2, ClosedBrackets DEF ClosesInside
    <2>4. doc' # <<>> /\ Last(doc').key = NoKey
      BY <2>2, <2>3 DEF Last
    <2>5. \A i \in 1..m : SameNode(stack'[i], stack[i])
      BY <1>0, <1>1, <2>1, <2>2, NodesSame DEF ClosesInside
    <2>6. \A i \in 1..(m - 1) : MemberOf(stack'[i], stack'[i + 1])
      BY <1>1, <2>2, <2>5, MembersStill
    <2>7. Len(stack') = m
      BY <1>1, <2>1, <2>2 DEF ClosesInside
    <2> QED BY <2>4, <2>6, <2>7 DEF Held
  <1> QED BY <1>2, <1>3, Closing

\* A key or a value changes the top node at most.
LEMMA Valued ==
  ASSUME Ready, \/ \E k \in Key : key(k)
                \/ \E tok \in Token : set_value(tok)
                \/ null
  PROVE  /\ Len(stack') = Len(stack) /\ SameNodes(stack', stack, Len(stack))
         /\ Agree(stack', stack, Len(stack) - 1)
         /\ Len(doc') = Len(doc) /\ (doc' = <<>> <=> doc = <<>>)
         /\ \/ Last(doc').key = NoKey
            \/ doc = <<>>
            \/ Last(doc').key = stack'[Len(stack)].map_key
  <1>0. StackOK /\ DocOK /\ Len(stack) \in Nat \ {0} /\ stack \in Seq(Node) /\ stack # <<>>
    BY ReadyChained DEF Chained, StackOK
  <1>1. CASE \E k \in Key : key(k)
    <2>1. PICK k \in Key : key(k)
      BY <1>1
    <2>2. EvKey(k) /\ stack' = [stack EXCEPT ![Len(stack)].map_key = k] /\ doc # <<>>
      BY <2>1 DEF key, EvKey
    <2>3. Len(doc) \in Nat \ {0} /\ doc'[Len(doc)].key = k /\ Len(doc') = Len(doc)
      BY <1>0, <2>2, KeyBrackets
    <2>4. doc' # <<>>
      BY <2>3
    <2>5. LET t == [stack EXCEPT ![Len(stack)].map_key = k]
          IN /\ Len(t) = Len(stack) /\ SameNodes(t, stack, Len(stack)) /\ Agree(t, stack, Len(stack) - 1)
             /\ t[Len(stack)].map_key = k
      BY <1>0, MapKeyOK
    <2>6. /\ Len(stack') = Len(stack) /\ SameNodes(stack', stack, Len(stack))
          /\ Agree(stack', stack, Len(stack) - 1) /\ stack'[Len(stack)].map_key = k
      BY <2>2, <2>5
    <2> QED BY <2>2, <2>3, <2>4, <2>6 DEF Last
  <1>2. CASE (\E tok \in Token : set_value(tok)) \/ null
    <2>1. doc' = Given(doc) /\ stack' = stack
      BY <1>2 DEF set_value, null, EvScalar, EvNull
    <2>2. SameNodes(stack, stack, Len(stack)) /\ Agree(stack, stack, Len(stack) - 1)
      <3>1. Agree(stack, stack, Len(stack)) /\ Agree(stack, stack, Len(stack) - 1)
        BY DEF Agree
      <3> QED BY <1>0, <3>1, SameNodesIfAgree
    <2>3. Len(doc') = Len(doc) /\ (doc # <<>> => doc'[Len(doc)].key = NoKey)
      BY <1>0, <2>1, ValueBrackets
    <2>4. doc' = <<>> <=> doc = <<>>
      <3>1. doc = <<>> => doc' = <<>>
        BY <2>1 DEF Given
      <3>2. doc # <<>> => Len(doc) \in Nat \ {0}
        BY <1>0, EmptySeq, LengthOK DEF DocOK
      <3>3. doc # <<>> => doc' # <<>>
        BY <2>3, <3>2
      <3> QED BY <3>1, <3>3
    <2> QED BY <2>1, <2>2, <2>3, <2>4 DEF Last
  <1> QED BY <1>1, <1>2

LEMMA HeldValued ==
  ASSUME Ready, \/ \E k \in Key : key(k)
                \/ \E tok \in Token : set_value(tok)
                \/ null
  PROVE  Held'
  <1>1. /\ Len(stack') = Len(stack) /\ SameNodes(stack', stack, Len(stack))
        /\ doc' = <<>> <=> doc = <<>>
        /\ Last(doc').key = NoKey \/ doc = <<>> \/ Last(doc').key = stack'[Len(stack)].map_key
    BY Valued
  <1>2. PICK n \in Nat : n = Len(stack) /\ n # 0 /\ n \in 0..n /\ n \in 1..n
    BY ReadyChained DEF Chained
  <1>3. \A i \in 1..n : SameNode(stack'[i], stack[i])
    BY <1>1, <1>2, NodesSame, ReadyChained
  <1>4. \A i \in 1..(n - 1) : MemberOf(stack'[i], stack'[i + 1])
    BY <1>2, <1>3, MembersStill
  <1>5. doc = <<>> => Len(stack) = 1
    BY DEF Ready, Held
  <1>6. Top' = stack'[n]
    BY <1>1, <1>2 DEF Top
  <1> QED BY <1>1, <1>2, <1>4, <1>5, <1>6 DEF Held

LEMMA HeldNext ==
  ASSUME CInv, DocOK', Conforms, Held, [Next]_vars
  PROVE  Held'
  <1>0. ~Conforming => Held'
    BY DEF Held
  <1>1. CASE parse
    <2>1. doc' = <<>> /\ Len(stack') = 1
      BY <1>1 DEF parse, EvBegin
    <2>2. 1..(Len(stack') - 1) = {}
      BY <2>1
    <2> QED BY <2>1, <2>2 DEF Held
  <1>2. CASE finish \/ parse_error
    <2>1. status' # "parsing"
      BY <1>2 DEF finish, parse_error, EvFinish, EvError
    <2> QED BY <2>1 DEF Held, Reading
  <1>3. CASE Handlers /\ Conforming
    <2>1. Ready
      BY <1>3, HandlersEvents DEF Ready, CInv, Reading
    <2> QED BY <1>3, <2>1, HeldOpened, HeldClosed, HeldValued DEF Handlers
  <1>4. CASE UNCHANGED vars
    BY <1>4 DEF vars, Held, Reading, Top
  <1> QED BY <1>0, <1>1, <1>2, <1>3, <1>4 DEF Next, Handlers

LEMMA HeldInvariant == Spec => []Held
  <1>1. Init => Held
    BY DEF Init, Held, Reading
  <1>2. CInv /\ CInv' /\ Conforms /\ Held /\ [Next]_vars => Held'
    <2>1. CInv' => DocOK'
      BY DEF CInv, Inv
    <2> QED BY <2>1, HeldNext
  <1> QED BY <1>1, <1>2, CInvInvariant, ConformsInvariant, PTL DEF Spec

-----------------------------------------------------------------------------
\* The decoder's object and path.
Obj == IF Reading THEN Folded ELSE inst[1]
Path == IF Reading THEN PathOf ELSE <<>>

LEMMA FoldedAlone ==
  ASSUME Chained, Len(stack) = 1
  PROVE  Folded = inst[1] /\ PathOf = <<>>
  <1>1. PICK f : IsFold(f, stack, inst, 1) /\ Folded = f[1]
    BY FoldedIs
  <1>2. f[1] = inst[1]
    <2>1. 1 \in 1..1
      OBVIOUS
    <2> QED BY <1>1, <2>1 DEF IsFold
  <1>3. IsSeq(PathOf, 0)
    <2>1. IsSeq(PathOf, 1 - 1) /\ 1 - 1 = 0
      BY PathIs
    <2> QED BY <2>1
  <1>4. PathOf = <<>>
    BY <1>3 DEF IsSeq
  <1> QED BY <1>1, <1>2, <1>4

Alone == Len(stack) = 1 => Folded = inst[1] /\ PathOf = <<>>

LEMMA FoldedAloneNext == Chained' => Alone'
  <1>1. Chained => Alone
    BY FoldedAlone DEF Alone
  <1> QED BY <1>1, PTL

NodePerBracket == Len(stack) = IF doc = <<>> THEN 1 ELSE Len(doc)

LEMMA ReadyNext == Ready' => Chained' /\ Alone' /\ Reading' /\ NodePerBracket'
  <1>1. Ready => Chained /\ Alone /\ Reading /\ NodePerBracket
    BY ReadyChained, FoldedAlone DEF Ready, Alone, NodePerBracket
  <1> QED BY <1>1, PTL

\* The object without the member being read is the bottom node's content.
LEMMA Settles ==
  ASSUME Ready', Len(stack') # 1 => inst'[1] = inst[1]
  PROVE  JD!Settle
  <1>1. Obj' = Folded'
    BY ReadyNext DEF Obj
  <1>2. CASE Len(stack') = 1
    <2>1. Len(doc') <= 1
      <3>1. Len(<<>>) <= 1 /\ 1 <= 1
        OBVIOUS
      <3> QED BY <1>2, <3>1, ReadyNext DEF NodePerBracket
    <2>2. Folded' = inst'[1]
      BY <1>2, ReadyNext DEF Alone
    <2> QED BY <1>1, <2>1, <2>2 DEF JD!Settle, Obj
  <1>3. CASE Len(stack') # 1
    <2>1. Len(doc') = Len(stack') /\ Len(stack') \in Nat \ {0}
      BY <1>3, ReadyNext DEF Chained, NodePerBracket
    <2>2. \A m \in Nat \ {0} : m # 1 => ~(m <= 1)
      OBVIOUS
    <2> QED BY <1>3, <2>1, <2>2 DEF JD!Settle
  <1> QED BY <1>2, <1>3

LEMMA LostIs ==
  ASSUME Ready
  PROVE  JD!Lost <=> Dropped(Len(stack))
  <1>1. Chained /\ Reading
    BY ReadyChained DEF Ready
  <1>2. PICK n \in Nat : n = Len(stack) /\ n # 0
    BY <1>1 DEF Chained
  <1>3. CASE n = 1
    <2>1. PathOf = <<>>
      BY <1>1, <1>2, <1>3, FoldedAlone
    <2>2. ~Dropped(n)
      BY <1>3 DEF Dropped
    <2> QED BY <1>1, <1>2, <2>1, <2>2 DEF JD!Lost
  <1>4. CASE n # 1
    <2>1. PICK m \in Nat : m = n - 1 /\ m # 0 /\ m \in 1..m /\ m + 1 = n
      BY <1>2, <1>4
    <2>2. /\ Len(PathOf) = m
          /\ PathOf[m] = IF Dropped(n) THEN [into |-> "void"] ELSE Way(stack[m], stack[n])
      BY <1>1, <1>2, <2>1, PathIs
    <2>3. PathOf # <<>>
      BY <2>1, <2>2
    <2>4. JD!Last(PathOf) = PathOf[m]
      BY <2>2, SameEnds DEF Last
    <2>5. JD!Lost <=> PathOf[m].into = "void"
      BY <1>1, <2>3, <2>4 DEF JD!Lost
    <2>6. Way(stack[m], stack[n]).into # "void"
      BY DEF Way
    <2> QED BY <1>2, <2>2, <2>5, <2>6
  <1> QED BY <1>3, <1>4

\* A value that is put where the parser puts it.
LEMMA WithIsInsert ==
  ASSUME NEW m, IsFcn(m), NEW k, NEW v
  PROVE  JD!With(m, k, v) = Insert(m, k, v)
  <1>1. CASE k \in DOMAIN m
    BY <1>1, InsertOld DEF JD!With
  <1>2. CASE k \notin DOMAIN m
    <2>1. JD!With(m, k, v) = [x \in DOMAIN m \cup {k} |-> IF x = k THEN v ELSE m[x]]
      BY <1>2 DEF JD!With
    <2>2. \A x \in DOMAIN m \cup {k} : (IF x = k THEN v ELSE m[x]) = (IF x \in DOMAIN m THEN m[x] ELSE v)
      BY <1>2
    <2> QED BY <2>1, <2>2 DEF Insert
  <1> QED BY <1>1, <1>2

\* What the parser leaves of content pv when it puts v into it.
Taken(v) == CASE Last(doc).ty \in List -> Append(TopInst, v)
              [] Last(doc).ty \in Map /\ Last(doc).ty \notin List -> Insert(TopInst, Last(doc).key, v)
              [] OTHER -> [TopInst EXCEPT ![Last(doc).key] = v]

LEMMA GiveIs ==
  ASSUME Ready, Reading', doc # <<>>, DueType # Untyped, NEW v,
         Dropped(Len(stack)) => Folded' = Folded,
         ~Dropped(Len(stack)) => Folded' = JD!Updated(Taken(v))
  PROVE  JD!Give(v)
  <1>1. Reading /\ Chained
    BY ReadyChained DEF Ready
  <1>2. JD!Inside = Last(doc) /\ JD!DueType = DueType /\ (JD!Lost <=> Dropped(Len(stack)))
    BY LostIs, SameEnds, SameDue DEF JD!Inside
  <1>3. CASE Dropped(Len(stack))
    BY <1>1, <1>2, <1>3 DEF JD!Give
  <1>4. CASE ~Dropped(Len(stack))
    <2>1. JD!Here = TopInst
      BY <1>1, <1>4, HereIs
    <2>2. Top.ty = Last(doc).ty /\ Top.ty \in Container /\ Of(Top.ty, TopInst)
      BY OnTop DEF Reads
    <2>3. Folded' = JD!Updated(Taken(v))
      BY <1>4
    <2>4. CASE Last(doc).ty \in List
      <3>1. Last(doc).ty \notin Map /\ Last(doc).ty \notin Class
        BY <2>4, Shapes
      <3>2. Taken(v) = Append(TopInst, v)
        BY <2>4, <3>1 DEF Taken
      <3> QED BY <1>1, <1>2, <1>4, <2>1, <2>3, <2>4, <3>1, <3>2, SameShapes DEF JD!Give
    <2>5. CASE Last(doc).ty \in Map
      <3>1. Last(doc).ty \notin List /\ Last(doc).ty \notin Class
        BY <2>5, Shapes
      <3>2. Taken(v) = Insert(TopInst, Last(doc).key, v)
        BY <2>5, <3>1 DEF Taken
      <3>3. JD!With(TopInst, Last(doc).key, v) = Insert(TopInst, Last(doc).key, v)
        BY <2>2, <2>5, OfMap, WithIsInsert
      <3> QED BY <1>1, <1>2, <1>4, <2>1, <2>3, <2>5, <3>1, <3>2, <3>3, SameShapes DEF JD!Give
    <2>6. CASE Last(doc).ty \in Class
      <3>1. Last(doc).ty \notin List /\ Last(doc).ty \notin Map
        BY <2>6, Shapes
      <3>2. Taken(v) = [TopInst EXCEPT ![Last(doc).key] = v]
        BY <3>1 DEF Taken
      <3> QED BY <1>1, <1>2, <1>4, <2>1, <2>3, <2>6, <3>1, <3>2, SameShapes DEF JD!Give
    <2> QED BY <2>2, <2>4, <2>5, <2>6 DEF Container
  <1> QED BY <1>3, <1>4

-----------------------------------------------------------------------------
\* Each handler is the decoder's step on the same event.
LEMMA ScalarTaken ==
  ASSUME Ready, NEW tok \in Token, set_value(tok), DueType # Untyped
  PROVE  ValueSet(Top, TopInst, tok) = Taken(JD!Meaning(tok))
  <1>1. doc # <<>> /\ Accepts(DueType, tok) /\ ValueDue
    BY DEF set_value, EvScalar, Ready
  <1>2. /\ Reads(Top, Last(doc)) /\ Top.ty = Last(doc).ty /\ Top.ty \in Container
        /\ Follow(stack, doc, active_key) /\ Inv
    BY <1>1, OnTop, ReadyChained DEF Reads
  <1>3. /\ Last(doc).ty \in Class => active_key # NoKey /\ active_key = Last(doc).key
        /\ Last(doc).ty \in Map => Top.map_key = Last(doc).key
    <2>1. /\ active_key # NoKey
          /\ Last(doc).ty \notin List => active_key = Last(doc).key
      BY <1>1, <1>2, KeyActive
    <2>2. Last(doc).ty \in Map => Last(doc).key # NoKey
      BY <2>1, Shapes
    <2>3. Last(doc).ty \in Class => Last(doc).ty \notin List
      BY Shapes
    <2> QED BY <1>1, <2>1, <2>2, <2>3 DEF Ready, Held
  <1>4. JD!Inside = Last(doc) /\ JD!DueType = DueType
    BY SameEnds, SameDue DEF JD!Inside
  <1>5. CASE Last(doc).ty \in List \cup Map
    <2>1. Last(doc).ty \notin Class /\ ~Within(Class)
      BY <1>5, Shapes DEF Within
    <2>2. DueType = Elem[Last(doc).ty].id
      BY <1>1, <2>1, <1>5 DEF DueType, MemberType
    <2>3. ElemCastable(DueType, tok)
      BY <1>1, <2>1 DEF Accepts, ElemCastable
    <2>4. JD!Meaning(tok) = ElemCast(DueType, tok)
      BY <1>4, <2>1, SameShapes, SameScalars DEF JD!Meaning
    <2>5. CASE Last(doc).ty \in List
      <3>1. ValueSet(Top, TopInst, tok) = insert_list(Top.ty, TopInst, tok)
        BY <1>2, <2>5 DEF ValueSet, Reads
      <3>2. insert_list(Top.ty, TopInst, tok) = Append(TopInst, ElemCast(DueType, tok))
        BY <1>2, <2>2, <2>3, <2>5 DEF insert_list, is_sequence
      <3>3. Taken(JD!Meaning(tok)) = Append(TopInst, JD!Meaning(tok))
        BY <2>5, Shapes DEF Taken
      <3> QED BY <2>4, <3>1, <3>2, <3>3
    <2>6. CASE Last(doc).ty \in Map
      <3>0. Last(doc).ty \notin List
        BY <2>6, Shapes
      <3>1. ValueSet(Top, TopInst, tok) = insert_map(Top.ty, TopInst, Top.map_key, tok)
        BY <1>2, <2>6, <3>0 DEF ValueSet, Reads
      <3>2. insert_map(Top.ty, TopInst, Top.map_key, tok) = Insert(TopInst, Last(doc).key, ElemCast(DueType, tok))
        BY <1>2, <1>3, <2>2, <2>3, <2>6 DEF insert_map, is_associative
      <3>3. Taken(JD!Meaning(tok)) = Insert(TopInst, Last(doc).key, JD!Meaning(tok))
        BY <2>6, <3>0 DEF Taken
      <3> QED BY <2>4, <3>1, <3>2, <3>3
    <2> QED BY <1>5, <2>5, <2>6
  <1>6. CASE Last(doc).ty \in Class
    <2> DEFINE k == Last(doc).key
               declared == find_field_astid(Top.ty, k)
    <2>1. Last(doc).ty \notin List /\ Last(doc).ty \notin Map
      BY <1>6, Shapes
    <2>2. k \in DOMAIN Meta[Top.ty] /\ DueType = Meta[Top.ty][k]
      BY <1>1, <1>2, <1>6, <2>1 DEF DueType, MemberType
    <2>3. Top.val_astid = Top.ty /\ Top.ty \in Class \cap Asts /\ ~Top.is_list /\ ~Top.is_map
      BY <1>2, <1>6, <2>1 DEF Reads
    <2>4. ValueSet(Top, TopInst, tok) = set_member(Top, TopInst, k, tok)
      BY <1>3, <1>6, <2>2, <2>3 DEF ValueSet, find_field_recursive
    <2>5. Taken(JD!Meaning(tok)) = [TopInst EXCEPT ![k] = JD!Meaning(tok)]
      BY <2>1 DEF Taken
    <2>6. /\ Kind[DueType] \in {"int", "bool", "string"} => declared \notin Asts
          /\ Kind[DueType] \in {"port", "enum"} => declared \in Asts /\ Kind[declared] = Kind[DueType]
      BY <2>2, <2>3, AgreementAssumption
    <2>7. Kind[DueType] \notin {"enum", "port"} => Castable(DueType, tok) /\ Kind[DueType] # "var"
      <3>1. ~Within(Map \cup List)
        BY <2>1 DEF Within
      <3> QED BY <1>1, <3>1 DEF Accepts
    <2> HIDE DEF declared, k
    <2>8. set_member(Top, TopInst, k, tok) =
            CASE declared \in Asts ->
                   CASE Kind[declared] = "port" /\ Kind[DueType] = "port" -> [TopInst EXCEPT ![k] = PortOf(tok)]
                     [] Kind[declared] = "enum" /\ Kind[DueType] = "enum" -> [TopInst EXCEPT ![k] = EnumOf(tok)]
                     [] OTHER -> TopInst
              [] OTHER -> IF Castable(DueType, tok) THEN [TopInst EXCEPT ![k] = Cast(DueType, tok)] ELSE TopInst
      BY <2>2, <2>3 DEF set_member, declared
    <2>9. CASE Kind[DueType] = "port"
      <3>1. JD!Meaning(tok) = PortOf(tok)
        BY <1>4, <1>6, <2>9, SameShapes, SameScalars DEF JD!Meaning
      <3>2. declared \in Asts /\ Kind[declared] = "port"
        BY <2>6, <2>9
      <3>3. set_member(Top, TopInst, k, tok) = [TopInst EXCEPT ![k] = PortOf(tok)]
        BY <2>8, <2>9, <3>2
      <3> QED BY <2>4, <2>5, <3>1, <3>3
    <2>10. CASE Kind[DueType] = "enum"
      <3>1. JD!Meaning(tok) = EnumOf(tok)
        BY <1>4, <1>6, <2>10, SameShapes, SameScalars DEF JD!Meaning
      <3>2. declared \in Asts /\ Kind[declared] = "enum"
        BY <2>6, <2>10
      <3>3. set_member(Top, TopInst, k, tok) = [TopInst EXCEPT ![k] = EnumOf(tok)]
        BY <2>8, <2>10, <3>2
      <3> QED BY <2>4, <2>5, <3>1, <3>3
    <2>11. CASE Kind[DueType] \notin {"enum", "port"}
      <3>1. JD!Meaning(tok) = Cast(DueType, tok)
        BY <1>4, <1>6, <2>11, SameShapes, SameScalars DEF JD!Meaning
      <3>2. Kind[DueType] \in {"int", "bool", "string"} /\ Castable(DueType, tok)
        BY <2>7, <2>11 DEF Castable
      <3>3. declared \notin Asts
        BY <2>6, <3>2
      <3>4. set_member(Top, TopInst, k, tok) = [TopInst EXCEPT ![k] = Cast(DueType, tok)]
        BY <2>8, <3>2, <3>3
      <3> QED BY <2>4, <2>5, <3>1, <3>4
    <2> QED BY <2>9, <2>10, <2>11
  <1> QED BY <1>2, <1>5, <1>6 DEF Container

\* A member that no class has is skipped.
LEMMA ScalarSkipped ==
  ASSUME Ready, NEW tok \in Token, set_value(tok), DueType = Untyped
  PROVE  ValueSet(Top, TopInst, tok) = TopInst
  <1>1. doc # <<>> /\ ValueDue
    BY DEF set_value, EvScalar, Ready
  <1>2. /\ Reads(Top, Last(doc)) /\ Top.ty = Last(doc).ty /\ Top.ty \in Container
        /\ Follow(stack, doc, active_key) /\ Inv
    BY <1>1, OnTop, ReadyChained DEF Reads
  <1>3. Last(doc).ty \notin List \cup Map
    <2> SUFFICES ASSUME Last(doc).ty \in List \cup Map
                 PROVE  FALSE
      OBVIOUS
    <2>1. Last(doc).ty \notin Class /\ Elem[Last(doc).ty].id \in TypeId
      BY Shapes
    <2>2. DueType = Elem[Last(doc).ty].id
      BY <1>1, <2>1 DEF DueType, MemberType
    <2> QED BY <2>1, <2>2, BoundsAssumption
  <1>4. ~find_field_recursive(Top.ty, Last(doc).key)
    <2> SUFFICES ASSUME Last(doc).ty \in Class, Last(doc).key \in DOMAIN Meta[Last(doc).ty]
                 PROVE  FALSE
      BY <1>2 DEF find_field_recursive
    <2>1. DueType = Meta[Last(doc).ty][Last(doc).key]
      BY <1>1, <1>3 DEF DueType, MemberType
    <2> QED BY <2>1, SchemaAssumption, BoundsAssumption
  <1>5. active_key = Last(doc).key
    BY <1>1, <1>2, <1>3, KeyActive
  <1>6. ~Top.is_list /\ ~Top.is_map
    BY <1>2, <1>3 DEF Reads
  <1> QED BY <1>4, <1>5, <1>6 DEF ValueSet

LEMMA ScalarStep ==
  ASSUME Ready, Ready', NEW tok \in Token, set_value(tok)
  PROVE  JD!Scalar
  <1>1. EvScalar(tok) /\ doc # <<>> /\ UNCHANGED <<stack, status>>
    BY DEF set_value, EvScalar, Ready
  <1>2. Reading /\ Reading' /\ Chained /\ Chained' /\ StackOK
    BY ReadyChained, ReadyNext DEF Ready
  <1>3. PICK n \in Nat : n = Len(stack) /\ n # 0 /\ n \in 1..n
    BY <1>2 DEF Chained
  <1>4. /\ IsSeq(inst, n) /\ Len(inst) = n
        /\ inst' = [inst EXCEPT ![n] = ValueSet(Top, TopInst, tok)]
        /\ TopInst = inst[n]
    BY <1>1, <1>2, <1>3, OnTop DEF set_value, StackOK, Chained
  <1>5. Agree(inst', inst, n - 1) /\ inst'[n] = ValueSet(Top, TopInst, tok)
    <2> DEFINE v == ValueSet(Top, TopInst, tok)
    <2> HIDE DEF v
    <2>0. n > 0 /\ IsSeq(inst, n)
      BY <1>3, <1>4
    <2>1. Agree([inst EXCEPT ![n] = v], inst, n - 1) /\ [inst EXCEPT ![n] = v][n] = v
      BY <2>0, ExceptIsSeq
    <2>2. inst' = [inst EXCEPT ![n] = v]
      BY <1>4 DEF v
    <2> QED BY <2>1, <2>2 DEF v
  <1>6. KeptTo(n) /\ Len(stack') = n
    BY <1>1, <1>3, <1>5, Valued DEF KeptTo
  <1>7. PathOf' = PathOf
    BY <1>2, <1>3, <1>6, TopReplaced
  <1>8. IF JD!DueType = JD!Untyped THEN Obj' = Obj ELSE JD!Give(JD!Meaning(tok))
    <2>1. CASE DueType = Untyped
      <3>1. inst'[n] = inst[n]
        BY <1>4, <1>5, <2>1, ScalarSkipped
      <3>2. Folded' = Folded
        BY <1>2, <1>3, <1>6, <3>1, TopSame
      <3> QED BY <1>2, <2>1, <3>2, SameDue, SameShapes DEF Obj
    <2>2. CASE DueType # Untyped
      <3>1. inst'[n] = Taken(JD!Meaning(tok))
        BY <1>5, <2>2, ScalarTaken
      <3>2. Dropped(n) => Folded' = Folded
        BY <1>2, <1>3, <1>6, TopReplaced
      <3>3. ~Dropped(n) => Folded' = JD!Updated(Taken(JD!Meaning(tok)))
        BY <1>2, <1>3, <1>6, <3>1, TopReplaced
      <3>4. JD!Give(JD!Meaning(tok))
        BY <1>1, <1>2, <1>3, <2>2, <3>2, <3>3, GiveIs
      <3> QED BY <2>2, <3>4, SameDue, SameShapes
    <2> QED BY <2>1, <2>2
  <1>9. JD!Settle
    <2>1. ASSUME n # 1
          PROVE  inst'[1] = inst[1]
      <3>1. 1 \in 1..(n - 1)
        BY <1>3, <2>1
      <3> QED BY <1>5, <3>1 DEF Agree
    <2> QED BY <1>3, <1>6, <2>1, Settles
  <1> QED BY <1>1, <1>2, <1>7, <1>8, <1>9, SameEvents DEF JD!Scalar, Obj

LEMMA NoValueStep ==
  ASSUME Ready, Ready', null \/ \E k \in Key : key(k)
  PROVE  JD!NoValue
  <1>1. (EvNull \/ \E k \in Key : EvKey(k)) /\ inst' = inst /\ status' = status
    BY DEF null, key
  <1>2. Reading /\ Reading' /\ Chained /\ Chained' /\ StackOK
    BY ReadyChained, ReadyNext DEF Ready
  <1>3. PICK n \in Nat : n = Len(stack) /\ n # 0 /\ n \in 1..n
    BY <1>2 DEF Chained
  <1>4. Agree(inst', inst, n - 1) /\ inst'[n] = inst[n] /\ inst'[1] = inst[1]
    BY <1>1 DEF Agree
  <1>5. KeptTo(n) /\ Len(stack') = n
    BY <1>3, <1>4, Valued DEF KeptTo
  <1>6. Folded' = Folded /\ PathOf' = PathOf
    BY <1>2, <1>3, <1>4, <1>5, TopSame
  <1>7. JD!Settle
    BY <1>4, Settles
  <1> QED BY <1>1, <1>2, <1>6, <1>7, SameEvents DEF JD!NoValue

LEMMA CloseStep ==
  ASSUME Ready, Ready', end_object \/ end_array
  PROVE  JD!Close
  <1>1. Reading /\ Reading' /\ Chained /\ Chained' /\ StackOK
    BY ReadyChained, ReadyNext DEF Ready
  <1>2. status' = status
    BY <1>1 DEF Reading
  <1>3. CASE end_object_root
    <2>1. EvClose("{") /\ Len(stack) = 1 /\ stack' = stack /\ inst' = inst
      BY <1>3 DEF end_object_root
    <2>2. PathOf = <<>> /\ Folded = inst[1] /\ PathOf' = <<>> /\ Folded' = inst'[1]
      BY <1>1, <2>1, FoldedAlone, ReadyNext DEF Alone
    <2>3. JD!Settle
      BY <2>1, Settles
    <2> QED BY <1>1, <1>2, <2>1, <2>2, <2>3, SameEvents DEF JD!Close
  <1>4. CASE \E b : ClosesInside(b)
    <2>1. PICK b : ClosesInside(b)
      BY <1>4
    <2>2. PICK n \in Nat : n = Len(stack) /\ n > 1 /\ n - 1 \in 1..n /\ n - 1 \in 1..(n - 1)
      BY <1>1, <2>1 DEF ClosesInside, Chained
    <2>3. KeptTo(n - 1) /\ Len(stack') = n - 1
      <3>1. (n - 1) - 1 = n - 2
        BY <2>2
      <3> QED BY <2>1, <2>2, <3>1 DEF ClosesInside, KeptTo
    <2>4. /\ Folded' = Folded
          /\ IsSeq(PathOf, n - 1) /\ IsSeq(PathOf', n - 2)
          /\ \A i \in 1..(n - 2) : PathOf'[i] = PathOf[i]
      BY <1>1, <2>1, <2>2, <2>3, TopPopped DEF ClosesInside
    <2>5. PathOf # <<>> /\ JD!Front(PathOf) = PathOf'
      <3>0. IsSeq(PathOf, n - 1) /\ n - 1 > 0
        BY <2>2, <2>4
      <3>1. IsSeq(Front(PathOf), (n - 1) - 1) /\ Agree(Front(PathOf), PathOf, (n - 1) - 1)
        BY <3>0, FrontIsSeq
      <3>2. (n - 1) - 1 = n - 2 /\ n - 1 # 0
        BY <2>2
      <3>3. Front(PathOf) = PathOf'
        BY <2>4, <3>1, <3>2 DEF IsSeq, Agree
      <3>4. Len(PathOf) = n - 1
        BY <2>4, SeqOfContents
      <3> QED BY <3>2, <3>3, <3>4, SameEnds
    <2>6. JD!Settle
      <3>1. ASSUME n - 1 # 1
            PROVE  inst'[1] = inst[1]
        <4>1. 1 \in 1..(n - 2)
          BY <2>2, <3>1
        <4>2. Agree(inst', inst, n - 2)
          BY <2>1, <2>2 DEF ClosesInside
        <4> QED BY <4>1, <4>2 DEF Agree
      <3> QED BY <2>3, <3>1, Settles
    <2>7. EvClose(b) /\ b \in {"{", "["}
      <3>1. EvClose(b) /\ doc[Len(doc)].open = b /\ doc \in Seq(Bracket) /\ doc # <<>>
        BY <2>1, ReadyChained DEF ClosesInside, EvClose, Last, DocOK
      <3>2. doc[Len(doc)] \in Bracket
        BY <3>1, LastOK
      <3> QED BY <3>1, <3>2 DEF Bracket
    <2> QED BY <1>1, <1>2, <2>4, <2>5, <2>6, <2>7, SameEvents DEF JD!Close
  <1> QED BY <1>3, <1>4, Closing

LEMMA OpenRootStep ==
  ASSUME Ready, Ready', doc = <<>>, start_object \/ start_array
  PROVE  JD!Open
  <1>1. Reading /\ Reading' /\ Chained /\ Chained' /\ NodePerBracket' /\ Inv /\ DocOK
    BY ReadyChained, ReadyNext DEF Ready
  <1>2. start_object
    <2> SUFFICES ASSUME start_array
                 PROVE  FALSE
      OBVIOUS
    <2>1. EvOpen("[")
      BY DEF start_array, start_array_member, start_array_element, start_array_refused,
             start_array_skipped
    <2>2. DueType \in List /\ DueType = RootType
      BY <1>1, <2>1, ArrayOpens DEF DueType, Ready
    <2> QED BY <2>2, Shapes
  <1>3. EvOpen("{") /\ UNCHANGED <<active_key, status>>
    BY <1>2 DEF start_object, start_object_member, start_object_element, start_object_skipped
  <1>4. stack = <<RootNode>> /\ active_key = NoKey
    BY <1>3 DEF Ready, Conforms, Reading, EvOpen, ValueDue
  <1>5. stack' = stack /\ inst' = inst
    BY <1>2, <1>4 DEF start_object, start_object_member, start_object_element, start_object_skipped
  <1>6. Len(stack) = 1 /\ Len(stack') = 1
    BY <1>4, <1>5
  <1>7. Folded = inst[1] /\ PathOf = <<>> /\ Folded' = inst'[1] /\ PathOf' = <<>>
    BY <1>1, <1>6, FoldedAlone, ReadyNext DEF Alone
  <1>8. JD!Settle
    BY <1>5, Settles
  <1> QED BY <1>1, <1>3, <1>5, <1>7, <1>8, SameEvents DEF JD!Open

\* The content of the node that is pushed, put into the one on top: an element
\* or entry that is new, or the very member it is a copy of.
LEMMA PutOpened ==
  ASSUME Ready, doc # <<>>, NEW b, NEW node, OpensInside(b, node), Linked(Top, node)
  PROVE  /\ Top.ty \in Class => Put(Top, TopInst, node, PushedContent) = TopInst
         /\ Top.ty \notin Class => Put(Top, TopInst, node, PushedContent) = Taken(Fresh[DueType])
         /\ Refused(Top, TopInst) <=> Last(doc).ty \in Map /\ Last(doc).key \in DOMAIN TopInst
         /\ Way(Top, node) = IF Last(doc).ty \in List THEN [into |-> "last"]
                             ELSE [into |-> "member", key |-> Last(doc).key]
  <1>1. Top.ty = Last(doc).ty /\ Of(Top.ty, TopInst)
    BY OnTop
  <1>2. /\ Top.ty \in Container
        /\ Top.is_list <=> Top.ty \in List
        /\ Top.is_map <=> Top.ty \in Map
    BY LinkedKinds
  <1>3. Last(doc).ty \in Map => Top.map_key = Last(doc).key
    <2>1. Last(doc).ty \in Map => Last(doc).key # NoKey
      BY Shapes DEF OpensInside
    <2> QED BY <2>1 DEF Ready, Held
  <1>4. CASE Top.ty \in Class
    <2>1. node.activekey = Last(doc).key /\ PushedContent = TopInst[Last(doc).key]
      BY <1>4, OpeningMember
    <2>2. Put(Top, TopInst, node, PushedContent) = [TopInst EXCEPT ![Last(doc).key] = TopInst[Last(doc).key]]
      BY <1>4, <2>1, PutMember
    <2>3. IsFcn(TopInst)
      BY <1>1, <1>4, OfObject
    <2>4. [TopInst EXCEPT ![Last(doc).key] = TopInst[Last(doc).key]] = TopInst
      BY <2>3 DEF IsFcn
    <2>5. Top.ty \notin List /\ Top.ty \notin Map
      BY <1>4, Shapes
    <2> QED BY <1>1, <1>2, <1>4, <2>1, <2>2, <2>4, <2>5 DEF Refused, Way
  <1>5. CASE Top.ty \in List
    <2>1. Top.ty \notin Class /\ Top.ty \notin Map
      BY <1>5, Shapes
    <2>2. Put(Top, TopInst, node, PushedContent) = Append(TopInst, Fresh[DueType])
      BY <1>5, <2>1, PutElement DEF PushedContent
    <2>3. Taken(Fresh[DueType]) = Append(TopInst, Fresh[DueType])
      BY <1>1, <1>5, <2>1 DEF Taken
    <2> QED BY <1>1, <1>2, <1>5, <2>1, <2>2, <2>3 DEF Refused, Way
  <1>6. CASE Top.ty \in Map
    <2>1. Top.ty \notin Class /\ Top.ty \notin List
      BY <1>6, Shapes
    <2>2. Put(Top, TopInst, node, PushedContent) = Insert(TopInst, Last(doc).key, Fresh[DueType])
      BY <1>1, <1>3, <1>6, <2>1, PutEntry DEF PushedContent
    <2>3. Taken(Fresh[DueType]) = Insert(TopInst, Last(doc).key, Fresh[DueType])
      BY <1>1, <1>6, <2>1 DEF Taken
    <2> QED BY <1>1, <1>2, <1>3, <1>6, <2>1, <2>2, <2>3 DEF Refused, Way
  <1> QED BY <1>2, <1>4, <1>5, <1>6 DEF Container

LEMMA OpenInsideStep ==
  ASSUME Ready, Ready', doc # <<>>, start_object \/ start_array
  PROVE  JD!Open
  <1>1. Reading /\ Reading' /\ Chained /\ Chained' /\ StackOK
    BY ReadyChained, ReadyNext DEF Ready
  <1>2. PICK b, node : OpensInside(b, node)
    BY Opening
  <1>3. PICK n \in Nat : n = Len(stack) /\ n # 0 /\ n \in 1..n
    BY <1>1 DEF Chained
  <1>4. /\ Len(stack') = n + 1 /\ Agree(stack', stack, n) /\ Agree(inst', inst, n)
        /\ stack'[n + 1] = node /\ inst'[n + 1] = PushedContent
    BY <1>2, <1>3 DEF OpensInside
  <1>5. stack'[n] = Top /\ inst'[n] = TopInst /\ Top = stack[n]
    BY <1>3, <1>4, OnTop DEF Agree
  <1>6. KeptTo(n)
    <2>1. SameNodes(stack', stack, n)
      BY <1>1, <1>3, <1>4, SameNodesIfAgree DEF StackOK
    <2>2. \A i \in 1..(n - 1) : i \in 1..n
      OBVIOUS
    <2>3. Agree(stack', stack, n - 1) /\ Agree(inst', inst, n - 1)
      BY <1>4, <2>2 DEF Agree
    <2>4. n \in 1..(n + 1)
      BY <1>3
    <2> QED BY <1>3, <1>4, <2>1, <2>3, <2>4 DEF KeptTo
  <1>7. Linked(Top, node)
    <2>1. n \in 1..(Len(stack') - 1)
      BY <1>3, <1>4
    <2>2. Linked(stack'[n], stack'[n + 1])
      BY <1>1, <2>1 DEF Chained
    <2> QED BY <1>4, <1>5, <2>2
  <1>8. /\ Put(Top, TopInst, node, PushedContent) = TopInst \/ Dropped(n) => Folded' = Folded
        /\ ~Dropped(n) => Folded' = JD!Updated(Put(Top, TopInst, node, PushedContent))
        /\ IsSeq(PathOf, n - 1) /\ IsSeq(PathOf', n)
        /\ \A i \in 1..(n - 1) : PathOf'[i] = PathOf[i]
        /\ PathOf'[n] = IF Dropped(n) \/ Refused(Top, TopInst) THEN [into |-> "void"] ELSE Way(Top, node)
    BY <1>1, <1>3, <1>4, <1>5, <1>6, TopCovered
  <1>9. /\ Top.ty \in Class => Put(Top, TopInst, node, PushedContent) = TopInst
        /\ Top.ty \notin Class => Put(Top, TopInst, node, PushedContent) = Taken(Fresh[DueType])
        /\ Refused(Top, TopInst) <=> Last(doc).ty \in Map /\ Last(doc).key \in DOMAIN TopInst
        /\ Way(Top, node) = IF Last(doc).ty \in List THEN [into |-> "last"]
                            ELSE [into |-> "member", key |-> Last(doc).key]
    BY <1>2, <1>7, PutOpened
  <1>10. /\ JD!Inside = Last(doc) /\ JD!DueType = DueType /\ Top.ty = Last(doc).ty
         /\ JD!Lost <=> Dropped(n)
         /\ ~Dropped(n) => JD!Here = TopInst
    BY <1>1, <1>3, OnTop, LostIs, HereIs, SameEnds, SameDue DEF JD!Inside
  <1>11. PathOf'[n] = JD!Into
    <2>1. CASE Dropped(n)
      BY <1>8, <1>10, <2>1 DEF JD!Into, JD!Nowhere
    <2>2. CASE ~Dropped(n) /\ Last(doc).ty \in List
      <3>1. Last(doc).ty \notin Map
        BY <2>2, Shapes
      <3> QED BY <1>8, <1>9, <1>10, <2>2, <3>1, SameShapes DEF JD!Into, JD!LastElem
    <2>3. CASE ~Dropped(n) /\ Last(doc).ty \notin List /\ Refused(Top, TopInst)
      BY <1>8, <1>9, <1>10, <2>3, SameShapes DEF JD!Into, JD!Nowhere
    <2>4. CASE ~Dropped(n) /\ Last(doc).ty \notin List /\ ~Refused(Top, TopInst)
      BY <1>8, <1>9, <1>10, <2>4, SameShapes DEF JD!Into, JD!Member
    <2> QED BY <2>1, <2>2, <2>3, <2>4
  <1>12. PathOf' = Append(PathOf, JD!Into)
    <2> DEFINE step == JD!Into
    <2> HIDE DEF step
    <2>1. IsSeq(Append(PathOf, step), (n - 1) + 1) /\ Agree(Append(PathOf, step), PathOf, n - 1)
      BY <1>8, AppendIsSeq
    <2>2. (n - 1) + 1 = n /\ \A i \in 1..n : i \in 1..(n - 1) \/ i = n
      BY <1>3
    <2>3. Append(PathOf, step)[n] = step
      <3>1. Last(Append(PathOf, step)) = step
        BY <1>8, AppendLast
      <3>2. Len(Append(PathOf, step)) = n
        BY <2>1, <2>2, SeqOfContents
      <3> QED BY <3>1, <3>2 DEF Last
    <2>4. \A i \in 1..n : PathOf'[i] = Append(PathOf, step)[i]
      BY <1>8, <1>11, <2>1, <2>2, <2>3 DEF Agree, step
    <2>5. PathOf' = Append(PathOf, step)
      BY <1>8, <2>1, <2>2, <2>4 DEF IsSeq
    <2> QED BY <2>5 DEF step
  <1>13. IF JD!Inside.ty \in JD!Class THEN Obj' = Obj ELSE JD!Give(Fresh[JD!DueType])
    <2>1. CASE Last(doc).ty \in Class
      <3>1. Folded' = Folded
        BY <1>8, <1>9, <1>10, <2>1
      <3> QED BY <1>1, <1>10, <2>1, <3>1, SameShapes DEF Obj
    <2>2. CASE Last(doc).ty \notin Class
      <3>1. DueType # Untyped
        BY <1>2, BoundsAssumption DEF OpensInside
      <3>2. ~Dropped(n) => Folded' = JD!Updated(Taken(Fresh[DueType]))
        BY <1>8, <1>9, <1>10, <2>2
      <3>3. JD!Give(Fresh[DueType])
        BY <1>1, <1>3, <1>8, <3>1, <3>2, GiveIs
      <3> QED BY <1>10, <2>2, <3>3, SameShapes
    <2> QED BY <2>1, <2>2
  <1>14. JD!Settle
    <2>1. 1 \in 1..n
      BY <1>3
    <2>2. inst'[1] = inst[1]
      BY <1>4, <2>1 DEF Agree
    <2> QED BY <2>2, Settles
  <1>15. b \in {"{", "["} /\ EvOpen(b) /\ status' = status
    BY <1>2 DEF OpensInside
  <1> QED BY <1>1, <1>12, <1>13, <1>14, <1>15, SameEvents DEF JD!Open, Obj

\* A parse begins and ends with the object the caller has.
LEMMA BoundsStep ==
  ASSUME CInv, CInv', Conforms', Held, Held', Conforming, Conforms, parse \/ finish \/ parse_error
  PROVE  JD!Next
  <1>1. CASE parse
    <2>1. EvBegin /\ stack' = <<RootNode>> /\ inst' = <<inst[1]>> /\ ~Reading /\ Reading'
      BY <1>1 DEF parse, EvBegin, Reading
    <2>2. Ready' /\ Len(stack') = 1 /\ inst'[1] = inst[1]
      BY <2>1 DEF Ready
    <2>3. Folded' = inst[1] /\ PathOf' = <<>>
      BY <2>2, ReadyNext DEF Alone
    <2>4. JD!Begin
      BY <2>1, <2>2, <2>3, SameEvents DEF JD!Begin
    <2> QED BY <2>4 DEF JD!Next
  <1>2. CASE finish
    <2>1. EvFinish /\ inst' = inst /\ Reading /\ ~Reading' /\ doc = <<>>
      BY <1>2 DEF finish, EvFinish, Reading
    <2>2. Ready /\ Len(stack) = 1
      BY <2>1 DEF Ready, Held
    <2>3. Folded = inst[1] /\ PathOf = <<>>
      BY <2>2, ReadyChained, FoldedAlone
    <2>4. JD!Finish
      BY <2>1, <2>3, SameEvents DEF JD!Finish
    <2> QED BY <2>4 DEF JD!Next
  <1>3. CASE parse_error
    <2>1. EvError /\ inst' = inst /\ ~Reading'
      BY <1>3 DEF parse_error, EvError, Reading
    <2>2. JD!Abandon
      BY <2>1, SameEvents DEF JD!Abandon
    <2> QED BY <2>2 DEF JD!Next
  <1> QED BY <1>1, <1>2, <1>3

LEMMA DecoderSteps ==
  ASSUME CInv, CInv', Conforms, Conforms', Held, Held', Conforming, [Next]_vars
  PROVE  [JD!Next]_(JD!absvars)
  <1>1. CASE parse \/ finish \/ parse_error
    BY <1>1, BoundsStep
  <1>2. CASE Handlers
    <2>1. Reading /\ Reading'
      BY <1>2, HandlersEvents, ConformsHandlers DEF Reading, CInv, Inv
    <2>2. Ready /\ Ready'
      BY <2>1 DEF Ready
    <2>3. CASE start_object \/ start_array
      BY <2>2, <2>3, OpenRootStep, OpenInsideStep DEF JD!Next
    <2>4. CASE end_object \/ end_array
      BY <2>2, <2>4, CloseStep DEF JD!Next
    <2>5. CASE null \/ \E k \in Key : key(k)
      BY <2>2, <2>5, NoValueStep DEF JD!Next
    <2>6. CASE \E tok \in Token : set_value(tok)
      BY <2>2, <2>6, ScalarStep DEF JD!Next
    <2> QED BY <1>2, <2>3, <2>4, <2>5, <2>6 DEF Handlers
  <1>3. CASE UNCHANGED vars
    BY <1>3 DEF vars, JD!absvars, Reading, Folded, PathOf, Rejected, ListInto, ObjectInto
  <1> QED BY <1>1, <1>2, <1>3 DEF Next, Handlers

\* For every schema and every document that conforms to it, what from_json
\* does to the caller's object is in-place decoding: a value is there as soon
\* as its bracket is written back, at the place the document has it, and an
\* error takes back only the top-level member it came in.
THEOREM ConformingDecoded ==
  ASSUME Conforming
  PROVE  Spec => Decodes
  <1>1. Init => JD!Init
    BY DEF Init, JD!Init, Reading
  <1>2. /\ CInv /\ CInv' /\ Conforms /\ Conforms' /\ Held /\ Held' /\ [Next]_vars
        => [JD!Next]_(JD!absvars)
    BY DecoderSteps
  <1> QED BY <1>1, <1>2, CInvInvariant, ConformsInvariant, HeldInvariant, PTL DEF Spec, Decodes, JD!Spec
====
