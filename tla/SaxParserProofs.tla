---- MODULE SaxParserProofs ----
(***************************************************************************)
(* Theorems about the parser, for every schema and every document:         *)
(* its type invariant, that the node of the caller's object stays at the   *)
(* bottom of the stack, that the object only changes by whole members, and *)
(* that what its lists and maps hold is never taken back.                  *)
(***************************************************************************)
EXTENDS SaxParser, SequenceTheorems, WellFoundedInduction, TLAPS

-----------------------------------------------------------------------------
\* Induction, as a fact about sets of numbers.
LEMMA SetInduction ==
  ASSUME NEW S, 0 \in S, \A n \in Nat : n \in S => n + 1 \in S
  PROVE  Nat \subseteq S
  <1> SUFFICES ASSUME ~(Nat \subseteq S)
               PROVE  FALSE
    OBVIOUS
  <1> DEFINE T == Nat \ S
             R == {ss \in Nat \X Nat : ss[1] < ss[2]}
  <1>1. IsWellFoundedOn(R, Nat)
    BY NatLessThanWellFounded DEF OpToRel
  <1>2. T \subseteq Nat /\ T # {}
    OBVIOUS
  <1>3. PICK x \in T : \A y \in T : ~(<<y, x>> \in R)
    BY <1>1, <1>2, WFMin
  <1>4. x # 0 /\ x \in Nat
    OBVIOUS
  <1>5. x - 1 \in Nat /\ x - 1 < x /\ (x - 1) + 1 = x
    BY <1>4
  <1>6. x - 1 \in T
    BY <1>5
  <1>7. <<x - 1, x>> \in R
    BY <1>4, <1>5
  <1> QED BY <1>3, <1>6, <1>7

LEMMA UpTo ==
  ASSUME NEW S, NEW n \in Nat, 0 \in S, \A i \in 0..(n - 1) : i \in S => i + 1 \in S
  PROVE  0..n \subseteq S
  <1> DEFINE T == {i \in Nat : i <= n => i \in S}
  <1>1. 0 \in T
    OBVIOUS
  <1>2. ASSUME NEW i \in Nat, i \in T
        PROVE  i + 1 \in T
    <2>1. i + 1 <= n => i \in 0..(n - 1) /\ i <= n
      OBVIOUS
    <2> QED BY <1>2, <2>1
  <1> HIDE DEF T
  <1>3. Nat \subseteq T
    BY <1>1, <1>2, SetInduction
  <1> QED BY <1>3 DEF T

LEMMA DownTo ==
  ASSUME NEW S, NEW n \in Nat, n \in S, \A i \in 1..(n - 1) : i + 1 \in S => i \in S
  PROVE  1..n \subseteq S
  <1> DEFINE T == {m \in Nat : m < n => n - m \in S}
  <1>1. 0 \in T
    OBVIOUS
  <1>2. ASSUME NEW m \in Nat, m \in T
        PROVE  m + 1 \in T
    <2> SUFFICES ASSUME m + 1 < n
                 PROVE  n - (m + 1) \in S
      OBVIOUS
    <2>1. m < n /\ n - (m + 1) \in 1..(n - 1) /\ (n - (m + 1)) + 1 = n - m
      OBVIOUS
    <2> QED BY <1>2, <2>1
  <1> HIDE DEF T
  <1>3. Nat \subseteq T
    BY <1>1, <1>2, SetInduction
  <1>4. ASSUME NEW i \in 1..n
        PROVE  i \in S
    <2>1. n - i \in Nat /\ n - i < n /\ n - (n - i) = i
      OBVIOUS
    <2> QED BY <1>3, <2>1 DEF T
  <1> QED BY <1>4

-----------------------------------------------------------------------------
\* The contents of the nodes are untagged, so inst is only known to be a
\* sequence of some length; the lemmas say what the stack operations do to
\* such a sequence.
IsSeq(s, n) == n \in Nat /\ s = [i \in 1..n |-> s[i]]
Agree(t, s, n) == \A i \in 1..n : t[i] = s[i]

LEMMA SeqOfContents ==
  ASSUME NEW s, NEW n, IsSeq(s, n)
  PROVE  s \in Seq({s[i] : i \in 1..n}) /\ Len(s) = n
  <1>1. s \in [1..n -> {s[i] : i \in 1..n}]
    BY DEF IsSeq
  <1> QED BY <1>1, SeqDef DEF IsSeq

LEMMA SeqIsSeq ==
  ASSUME NEW S, NEW s \in Seq(S)
  PROVE  IsSeq(s, Len(s))
  BY LenProperties DEF IsSeq

LEMMA AppendIsSeq ==
  ASSUME NEW s, NEW n, IsSeq(s, n), NEW e
  PROVE  IsSeq(Append(s, e), n + 1) /\ Agree(Append(s, e), s, n)
  <1> DEFINE R == {s[i] : i \in 1..n}
             S == R \cup {e}
  <1>1. s \in Seq(S) /\ Len(s) = n
    <2>1. s \in Seq(R) /\ Len(s) = n
      BY SeqOfContents
    <2>2. R \subseteq S
      OBVIOUS
    <2> HIDE DEF R, S
    <2> QED BY <2>1, <2>2, SeqMonotonic
  <1>2. /\ Append(s, e) \in Seq(S)
        /\ Len(Append(s, e)) = n + 1
        /\ \A i \in 1..n : Append(s, e)[i] = s[i]
    <2>1. e \in S
      OBVIOUS
    <2> HIDE DEF S
    <2> QED BY <1>1, <2>1, AppendProperties
  <1> QED BY <1>2, SeqIsSeq DEF Agree

LEMMA FrontIsSeq ==
  ASSUME NEW s, NEW n, IsSeq(s, n), n > 0
  PROVE  IsSeq(Front(s), n - 1) /\ Agree(Front(s), s, n - 1)
  <1> DEFINE S == {s[i] : i \in 1..n}
  <1>1. n \in Nat /\ Len(s) = n
    BY SeqOfContents DEF IsSeq
  <1>2. \A i \in 1..(n - 1) : s[i] \in S
    BY <1>1
  <1>3. /\ Front(s) \in Seq(S)
        /\ Len(Front(s)) = n - 1
        /\ \A i \in 1..(n - 1) : Front(s)[i] = s[i]
    <2> HIDE DEF S
    <2> QED BY <1>1, <1>2, SubSeqProperties DEF Front
  <1> QED BY <1>3, SeqIsSeq DEF Agree

LEMMA ExceptIsSeq ==
  ASSUME NEW s, NEW n, IsSeq(s, n), NEW e
  PROVE  /\ IsSeq([s EXCEPT ![n] = e], n) /\ Agree([s EXCEPT ![n] = e], s, n - 1)
         /\ n > 0 => [s EXCEPT ![n] = e][n] = e
  BY DEF IsSeq, Agree

LEMMA LastOK ==
  ASSUME NEW S, NEW s \in Seq(S), s # <<>>
  PROVE  Len(s) \in 1..Len(s) /\ s[Len(s)] \in S
  <1>1. Len(s) \in 1..Len(s)
    BY EmptySeq
  <1> QED BY <1>1, ElementOfSeq

LEMMA FrontOK ==
  ASSUME NEW S, NEW s \in Seq(S), s # <<>>
  PROVE  Front(s) \in Seq(S)
  <1>1. Len(s) \in Nat /\ \A i \in 1..(Len(s) - 1) : s[i] \in S
    BY LenProperties
  <1> QED BY <1>1, SubSeqProperties DEF Front

LEMMA LengthOK ==
  ASSUME NEW S, NEW s \in Seq(S), s # <<>>
  PROVE  Len(s) \in Nat /\ Len(s) > 0
  <1>1. Len(s) \in Nat
    BY LenProperties
  <1>2. Len(s) \in 1..Len(s)
    BY LastOK
  <1> QED BY <1>1, <1>2

LEMMA FrontShorter ==
  ASSUME NEW S, NEW s \in Seq(S), s # <<>>
  PROVE  /\ Front(s) \in Seq(S) /\ Len(Front(s)) = Len(s) - 1
         /\ Agree(Front(s), s, Len(s) - 1)
  <1>1. IsSeq(s, Len(s)) /\ Len(s) > 0
    BY SeqIsSeq, LengthOK
  <1>2. IsSeq(Front(s), Len(s) - 1) /\ Agree(Front(s), s, Len(s) - 1)
    BY <1>1, FrontIsSeq
  <1>3. Len(Front(s)) = Len(s) - 1
    BY <1>2, SeqOfContents
  <1> QED BY <1>2, <1>3, FrontOK

LEMMA AppendLonger ==
  ASSUME NEW S, NEW s \in Seq(S), NEW e \in S
  PROVE  /\ Len(Append(s, e)) = Len(s) + 1 /\ Append(s, e)[Len(s) + 1] = e
         /\ Agree(Append(s, e), s, Len(s))
  BY AppendProperties DEF Agree

-----------------------------------------------------------------------------
\* The lexer: whatever the event, doc stays a sequence of brackets.
DocOK == doc \in Seq(Bracket) /\ nev \in Nat /\ nparse \in Nat

LEMMA GivenOK ==
  ASSUME NEW d \in Seq(Bracket)
  PROVE  Given(d) \in Seq(Bracket)
  <1>1. CASE d = <<>>
    BY <1>1 DEF Given
  <1>2. CASE d # <<>>
    <2>1. Len(d) \in 1..Len(d) /\ d[Len(d)] \in Bracket
      BY <1>2, LastOK
    <2>2. [d[Len(d)] EXCEPT !.key = NoKey] \in Bracket
      BY <2>1 DEF Bracket
    <2> QED BY <1>2, <2>1, <2>2, ExceptSeq DEF Given
  <1> QED BY <1>1, <1>2

LEMMA FresherOK ==
  ASSUME DocOK, Fresher, doc' \in Seq(Bracket)
  PROVE  DocOK'
  BY DEF DocOK, Fresher

LEMMA OpenOK ==
  ASSUME DocOK, NEW b \in {"{", "["}, EvOpen(b)
  PROVE  DocOK'
  <1>1. \E ty \in TypeId \cup {Untyped} : doc' = Append(doc, [open |-> b, ty |-> ty, key |-> NoKey])
    BY DEF EvOpen
  <1>2. PICK ty \in TypeId \cup {Untyped} : doc' = Append(doc, [open |-> b, ty |-> ty, key |-> NoKey])
    BY <1>1
  <1>3. [open |-> b, ty |-> ty, key |-> NoKey] \in Bracket
    BY DEF Bracket
  <1>4. doc' \in Seq(Bracket)
    BY <1>2, <1>3, AppendProperties DEF DocOK
  <1>5. Fresher
    BY DEF EvOpen
  <1> QED BY <1>4, <1>5, FresherOK

LEMMA CloseOK ==
  ASSUME DocOK, NEW b \in {"{", "["}, EvClose(b)
  PROVE  DocOK'
  <1>1. Front(doc) \in Seq(Bracket)
    BY FrontOK DEF DocOK, EvClose
  <1>2. Fresher /\ doc' = Given(Front(doc))
    BY DEF EvClose
  <1>3. doc' \in Seq(Bracket)
    BY <1>1, <1>2, GivenOK
  <1> QED BY <1>2, <1>3, FresherOK

LEMMA KeyOK ==
  ASSUME DocOK, NEW k \in Key, EvKey(k)
  PROVE  DocOK'
  <1>1. Len(doc) \in 1..Len(doc) /\ doc[Len(doc)] \in Bracket
    <2>1. doc \in Seq(Bracket) /\ doc # <<>>
      BY DEF DocOK, EvKey
    <2> QED BY <2>1, LastOK
  <1> DEFINE b == [doc[Len(doc)] EXCEPT !.key = k]
  <1>2. b \in Bracket
    BY <1>1 DEF Bracket
  <1>3. Fresher /\ doc' = [doc EXCEPT ![Len(doc)] = b]
    BY DEF EvKey
  <1>4. doc' \in Seq(Bracket)
    <2> HIDE DEF b
    <2> QED BY <1>1, <1>2, <1>3, ExceptSeq DEF DocOK
  <1> QED BY <1>3, <1>4, FresherOK

LEMMA GiveOK ==
  ASSUME DocOK, (\E tok : EvScalar(tok)) \/ EvNull
  PROVE  DocOK'
  <1>1. Fresher /\ doc' = Given(doc)
    BY DEF EvScalar, EvNull
  <1>2. doc' \in Seq(Bracket)
    BY <1>1, GivenOK DEF DocOK
  <1> QED BY <1>1, <1>2, FresherOK

-----------------------------------------------------------------------------
\* The parser's stack: the part of TypeOK about it, and what the operations
\* on it do.
StackOK == /\ stack \in Seq(Node) /\ stack # <<>>
           /\ IsSeq(inst, Len(stack))

\* The nodes 1..n of t and s, but for their map keys.
SameNodes(t, s, n) == \A i \in 1..n : t[i] = [s[i] EXCEPT !.map_key = t[i].map_key]

LEMMA NodeRenamed ==
  ASSUME NEW n \in Node
  PROVE  /\ n = [n EXCEPT !.map_key = n.map_key]
         /\ \A k \in Key \cup {NoKey} :
              /\ [n EXCEPT !.map_key = k] \in Node
              /\ [n EXCEPT !.map_key = k].map_key = k
  BY DEF Node

LEMMA SameNodesIfAgree ==
  ASSUME NEW s \in Seq(Node), NEW t, NEW n \in 0..Len(s), Agree(t, s, n)
  PROVE  SameNodes(t, s, n)
  <1> SUFFICES ASSUME NEW i \in 1..n
               PROVE  t[i] = [s[i] EXCEPT !.map_key = t[i].map_key]
    BY DEF SameNodes
  <1>1. t[i] = s[i] /\ s[i] \in Node
    BY ElementOfSeq DEF Agree
  <1> QED BY <1>1, NodeRenamed

\* Push adds one node and its content, and leaves the others alone.
LEMMA PushOK ==
  ASSUME StackOK, NEW node \in Node, NEW content, Push(node, content)
  PROVE  /\ StackOK'
         /\ Len(stack') = Len(stack) + 1
         /\ stack'[Len(stack) + 1] = node
         /\ Agree(stack', stack, Len(stack))
         /\ Agree(inst', inst, Len(stack)) /\ inst'[Len(stack) + 1] = content
  <1>1. /\ stack' = Append(stack, node) /\ inst' = Append(inst, content)
        /\ stack \in Seq(Node) /\ IsSeq(inst, Len(stack))
    BY DEF StackOK, Push
  <1>2. /\ stack' \in Seq(Node) /\ stack' # <<>>
        /\ Len(stack') = Len(stack) + 1
        /\ Agree(stack', stack, Len(stack))
        /\ stack'[Len(stack) + 1] = node
    BY <1>1, AppendProperties DEF Agree
  <1>3. IsSeq(inst', Len(stack) + 1) /\ Agree(inst', inst, Len(stack))
    BY <1>1, AppendIsSeq
  <1>4. inst'[Len(stack) + 1] = content
    <2>1. PICK S : inst \in Seq(S) /\ content \in S /\ Len(inst) = Len(stack)
      <3> DEFINE S == {inst[i] : i \in 1..Len(stack)}
                 T == S \cup {content}
      <3>1. inst \in Seq(S) /\ Len(inst) = Len(stack)
        BY <1>1, SeqOfContents
      <3>2. S \subseteq T /\ content \in T
        OBVIOUS
      <3> HIDE DEF S, T
      <3> QED BY <3>1, <3>2, SeqMonotonic
    <2> QED BY <1>1, <2>1, AppendProperties
  <1> QED BY <1>2, <1>3, <1>4 DEF StackOK

\* A map key is written into the top node.
LEMMA MapKeyOK ==
  ASSUME NEW s \in Seq(Node), s # <<>>, NEW k \in Key \cup {NoKey}
  PROVE  /\ [s EXCEPT ![Len(s)].map_key = k] \in Seq(Node)
         /\ Len([s EXCEPT ![Len(s)].map_key = k]) = Len(s)
         /\ SameNodes([s EXCEPT ![Len(s)].map_key = k], s, Len(s))
         /\ Agree([s EXCEPT ![Len(s)].map_key = k], s, Len(s) - 1)
         /\ [s EXCEPT ![Len(s)].map_key = k][Len(s)].map_key = k
  <1> DEFINE l == Len(s)
             n == [s[l] EXCEPT !.map_key = k]
             t == [s EXCEPT ![l] = n]
  <1>1. l \in 1..l /\ s[l] \in Node
    BY LastOK
  <1>2. n \in Node /\ n.map_key = k
    BY <1>1, NodeRenamed
  <1>3. /\ t \in Seq(Node) /\ Len(t) = Len(s)
        /\ \A j \in 1..Len(s) : t[j] = IF j = l THEN n ELSE s[j]
    <2> HIDE DEF n
    <2> QED BY <1>1, <1>2, ExceptSeq
  <1>4. ASSUME NEW j \in 1..Len(s)
        PROVE  t[j] = [s[j] EXCEPT !.map_key = t[j].map_key]
    <2>1. CASE j = l
      BY <1>2, <1>3, <2>1
    <2>2. CASE j # l
      BY <1>3, <2>2, ElementOfSeq, NodeRenamed
    <2> QED BY <2>1, <2>2
  <1>5. SameNodes(t, s, Len(s))
    <2> HIDE DEF t
    <2> QED BY <1>4 DEF SameNodes
  <1>6. Agree(t, s, l - 1) /\ t[l].map_key = k
    <2>1. Len(s) \in Nat
      BY LenProperties
    <2>2. \A j \in 1..(l - 1) : j \in 1..Len(s) /\ j # l
      BY <2>1
    <2> HIDE DEF t, n
    <2>3. \A j \in 1..(l - 1) : t[j] = s[j]
      BY <1>3, <2>2
    <2> QED BY <1>1, <1>2, <1>3, <2>3 DEF Agree
  <1> QED BY <1>3, <1>5, <1>6

\* PopInto removes the top node and rewrites only the content of, and the
\* map key in, the node below it.
LEMMA PopOK ==
  ASSUME StackOK, Len(stack) > 1, NEW v, NEW k \in Key \cup {NoKey}, PopInto(v, k)
  PROVE  /\ StackOK'
         /\ Len(stack') = Len(stack) - 1
         /\ SameNodes(stack', stack, Len(stack) - 1)
         /\ Agree(inst', inst, Len(stack) - 2) /\ inst'[Len(stack) - 1] = v
         /\ Agree(stack', stack, Len(stack) - 2) /\ stack'[Len(stack) - 1].map_key = k
  <1> DEFINE n == Len(stack) - 1
             f == Front(stack)
             g == Front(inst)
  <1>1. stack \in Seq(Node) /\ stack # <<>> /\ IsSeq(inst, Len(stack))
    BY DEF StackOK
  <1>0. n \in Nat /\ n > 0
    <2>1. Len(stack) \in Nat
      BY <1>1, LenProperties
    <2> QED BY <2>1
  <1>2. f \in Seq(Node) /\ Len(f) = n /\ Agree(f, stack, n)
    <2>1. \A i \in 1..n : stack[i] \in Node
      BY <1>1, ElementOfSeq
    <2> QED BY <1>1, <2>1, SubSeqProperties DEF Front, Agree
  <1>3. IsSeq(g, n) /\ Agree(g, inst, n)
    BY <1>1, FrontIsSeq
  <1>4. stack' = [f EXCEPT ![n].map_key = k] /\ inst' = [g EXCEPT ![n] = v]
    <2>1. Len(inst) = Len(stack)
      BY <1>1, SeqOfContents
    <2> QED BY <2>1 DEF PopInto
  <1>5. /\ stack' \in Seq(Node) /\ Len(stack') = n /\ SameNodes(stack', f, n)
        /\ Agree(stack', f, n - 1) /\ stack'[n].map_key = k
    <2>1. f # <<>>
      BY <1>1, <1>2, EmptySeq
    <2> HIDE DEF n, f
    <2>2. /\ [f EXCEPT ![Len(f)].map_key = k] \in Seq(Node)
          /\ Len([f EXCEPT ![Len(f)].map_key = k]) = Len(f)
          /\ SameNodes([f EXCEPT ![Len(f)].map_key = k], f, Len(f))
          /\ Agree([f EXCEPT ![Len(f)].map_key = k], f, Len(f) - 1)
          /\ [f EXCEPT ![Len(f)].map_key = k][Len(f)].map_key = k
      BY <1>2, <2>1, MapKeyOK
    <2> QED BY <1>2, <1>4, <2>2
  <1>6. IsSeq(inst', n) /\ Agree(inst', g, n - 1) /\ inst'[n] = v
    <2> HIDE DEF n, g
    <2>1. /\ IsSeq([g EXCEPT ![n] = v], n) /\ Agree([g EXCEPT ![n] = v], g, n - 1)
          /\ [g EXCEPT ![n] = v][n] = v
      BY <1>0, <1>3, ExceptIsSeq
    <2> QED BY <1>4, <2>1
  <1>7. SameNodes(stack', stack, n)
    BY <1>2, <1>5 DEF SameNodes, Agree
  <1>8. Agree(inst', inst, n - 1) /\ Agree(stack', stack, n - 1)
    <2>1. \A i \in 1..(n - 1) : i \in 1..n
      BY <1>0
    <2> QED BY <1>2, <1>3, <1>5, <1>6, <2>1 DEF Agree
  <1>9. stack' # <<>>
    BY <1>1, <1>0, <1>5, EmptySeq
  <1> QED BY <1>1, <1>0, <1>5, <1>6, <1>7, <1>8, <1>9 DEF StackOK

-----------------------------------------------------------------------------
\* What a handler may do to the stack: nothing else happens to it.
Pushes == \E node \in Node : \E content :
            node.activekey # NoKey /\ Push(node, content)
Pops == Len(stack) > 1 /\ \E v : \E k \in Key \cup {NoKey} : PopInto(v, k)
Sets == stack' = stack /\ \E v : inst' = [inst EXCEPT ![Len(inst)] = v]
Names == \E k \in Key : stack' = [stack EXCEPT ![Len(stack)].map_key = k] /\ inst' = inst
Stays == stack' = stack /\ inst' = inst
Restarts == stack' = <<RootNode>> /\ inst' = <<inst[1]>>

LEMMA DeclaredInAstId ==
  ASSUME NEW t, NEW k
  PROVE  find_field_astid(t, k) \in AstId
  BY SchemaAssumption DEF find_field_astid, AstId

LEMMA MemberTyped ==
  ASSUME NEW t, NEW k, find_field_recursive(t, k)
  PROVE  Meta[t][k] \in TypeId /\ k \in Key
  BY SchemaAssumption DEF find_field_recursive

LEMMA ListNode ==
  ASSUME NEW t \in TypeId, NEW content, NEW k \in Key, NEW id \in AstId,
         push_list(t, content, k, id)
  PROVE  Pushes
  <1> DEFINE val == parseListValtype(id)
             node == ParseNode(t, val.id, val.ptr, TRUE, FALSE, k)
  <1>1. val.id \in AstId /\ val.ptr \in BOOLEAN
    BY SchemaAssumption DEF parseListValtype, AstId, List
  <1>2. node \in Node /\ node.activekey = k /\ k # NoKey
    BY <1>1, SchemaAssumption DEF ParseNode, Node
  <1>3. Push(node, content)
    BY DEF push_list
  <1> QED BY <1>2, <1>3 DEF Pushes

LEMMA MapNode ==
  ASSUME NEW t \in TypeId, NEW content, NEW k \in Key, NEW id \in AstId,
         push_map(t, content, k, id)
  PROVE  Pushes
  <1> DEFINE val == IF id = NoAst THEN [id |-> NoAst, ptr |-> FALSE] ELSE parseMapValtype(id)
             node == ParseNode(t, val.id, val.ptr, FALSE, TRUE, k)
  <1>1. val.id \in AstId /\ val.ptr \in BOOLEAN
    BY SchemaAssumption DEF parseMapValtype, AstId, Map
  <1>2. node \in Node /\ node.activekey = k /\ k # NoKey
    BY <1>1, SchemaAssumption DEF ParseNode, Node
  <1>3. Push(node, content)
    BY DEF push_map
  <1> QED BY <1>2, <1>3 DEF Pushes

LEMMA ObjectNode ==
  ASSUME NEW t \in TypeId, NEW id \in AstId, NEW content, NEW k \in Key,
         Push(ParseNode(t, id, FALSE, FALSE, FALSE, k), content)
  PROVE  Pushes
  <1> DEFINE node == ParseNode(t, id, FALSE, FALSE, FALSE, k)
  <1>1. node \in Node /\ node.activekey = k /\ k # NoKey
    BY SchemaAssumption DEF ParseNode, Node
  <1> QED BY <1>1 DEF Pushes

-----------------------------------------------------------------------------
\* The inductive invariant.  RootKept has a part in it: a list node is never
\* at the bottom, so that closing a list always finds a node to write it to.
Inv == /\ DocOK /\ status \in Status /\ StackOK
       /\ active_key \in Key \cup {NoKey}
       /\ RootKept

Kept == DocOK' /\ status' \in Status /\ active_key' \in Key \cup {NoKey}

LEMMA TopOK ==
  ASSUME StackOK
  PROVE  Top \in Node /\ Len(stack) \in Nat \ {0}
  <1>1. stack \in Seq(Node) /\ stack # <<>>
    BY DEF StackOK
  <1> QED BY <1>1, LastOK, EmptySeq DEF Top

LEMMA StartObject ==
  ASSUME Inv, start_object
  PROVE  Kept /\ (Pushes \/ Stays)
  <1>1. Kept
    <2>1. EvOpen("{") /\ active_key' = active_key /\ status' = status
      BY DEF start_object, start_object_member, start_object_element, start_object_skipped
    <2> QED BY <2>1, OpenOK DEF Inv, Kept
  <1>2. CASE start_object_member
    <2> DEFINE fd_astid == find_field_astid(Top.val_astid, active_key)
               ft == Meta[Top.ty][active_key]
               copy == TopInst[active_key]
    <2>1. ft \in TypeId /\ active_key \in Key /\ fd_astid \in AstId
      BY <1>2, MemberTyped, DeclaredInAstId DEF start_object_member
    <2>2. IF fd_astid \in Asts
          THEN Push(ParseNode(ft, fd_astid, FALSE, FALSE, FALSE, active_key), copy)
          ELSE push_map(ft, copy, active_key, fd_astid)
      BY <1>2 DEF start_object_member
    <2> HIDE DEF fd_astid, ft, copy
    <2>3. Pushes
      BY <2>1, <2>2, ObjectNode, MapNode
    <2> QED BY <1>1, <2>3
  <1>3. CASE start_object_element
    <2>1. active_key \in Key /\ Top.val_astid \in TypeId /\ Top.val_astid \in AstId
      BY <1>3, SchemaAssumption DEF Inv, start_object_element, AstId
    <2>2. Push(ParseNode(Top.val_astid, Top.val_astid, FALSE, FALSE, FALSE, active_key),
               Fresh[Top.val_astid])
      BY <1>3 DEF start_object_element
    <2>3. Pushes
      BY <2>1, <2>2, ObjectNode
    <2> QED BY <1>1, <2>3
  <1>4. CASE start_object_skipped
    BY <1>1, <1>4 DEF start_object_skipped, Stays
  <1> QED BY <1>2, <1>3, <1>4 DEF start_object

LEMMA StartArray ==
  ASSUME Inv, start_array
  PROVE  Kept /\ (Pushes \/ Stays)
  <1>1. Kept
    <2>1. /\ EvOpen("[") /\ active_key' = active_key
          /\ status' = status \/ status' = "failed"
      BY DEF start_array, start_array_member, start_array_element,
             start_array_refused, start_array_skipped
    <2> QED BY <2>1, OpenOK DEF Inv, Kept, Status
  <1>2. CASE start_array_member
    <2>1. /\ Meta[Top.ty][active_key] \in TypeId /\ active_key \in Key
          /\ find_field_astid(Top.val_astid, active_key) \in AstId
      BY <1>2, MemberTyped, DeclaredInAstId DEF start_array_member
    <2>2. Pushes
      BY <1>2, <2>1, ListNode DEF start_array_member
    <2> QED BY <1>1, <2>2
  <1>3. CASE start_array_element
    <2>1. active_key \in Key /\ Top.val_astid \in TypeId /\ Top.val_astid \in AstId
      BY <1>3, SchemaAssumption DEF Inv, start_array_element, InContainer, AstId
    <2>2. Pushes
      BY <1>3, <2>1, ListNode DEF start_array_element
    <2> QED BY <1>1, <2>2
  <1>4. CASE start_array_refused \/ start_array_skipped
    BY <1>1, <1>4 DEF start_array_refused, start_array_skipped, Stays
  <1> QED BY <1>2, <1>3, <1>4 DEF start_array

LEMMA ParentOK ==
  ASSUME StackOK, Len(stack) > 1
  PROVE  Parent \in Node
  <1>1. stack \in Seq(Node) /\ Len(stack) - 1 \in 1..Len(stack)
    BY TopOK DEF StackOK
  <1> QED BY <1>1, ElementOfSeq DEF Parent

LEMMA NestedPops ==
  ASSUME Inv, end_object_nested
  PROVE  Pops /\ RestoredKey(Top) \in Key \cup {NoKey}
  <1>1. Len(stack) > 1 /\ Top \in Node /\ Parent \in Node
    BY TopOK, ParentOK DEF Inv, end_object_nested
  <1>2. KeyLeft(Parent, Top) \in Key \cup {NoKey} /\ RestoredKey(Top) \in Key \cup {NoKey}
    BY <1>1 DEF KeyLeft, RestoredKey, Node
  <1>3. Pops
    BY <1>1, <1>2 DEF end_object_nested, Pops
  <1> QED BY <1>2, <1>3

LEMMA EndObject ==
  ASSUME Inv, end_object
  PROVE  Kept /\ (Pops \/ Stays)
  <1>1. CASE end_object_root
    <2>1. EvClose("{") /\ active_key' = active_key /\ status' = status /\ Stays
      BY <1>1 DEF end_object_root, Stays
    <2> QED BY <2>1, CloseOK DEF Inv, Kept
  <1>2. CASE end_object_nested
    <2>1. Pops /\ RestoredKey(Top) \in Key \cup {NoKey}
      BY <1>2, NestedPops
    <2>2. /\ EvClose("{")
          /\ \/ status' = "failed" /\ active_key' = active_key
             \/ status' = status /\ active_key' = RestoredKey(Top)
      BY <1>2 DEF end_object_nested
    <2>3. Kept
      BY <2>1, <2>2, CloseOK DEF Inv, Kept, Status
    <2> QED BY <2>1, <2>3
  <1> QED BY <1>1, <1>2 DEF end_object

\* The node at the bottom is not a list.
LEMMA ListPops ==
  ASSUME Inv, end_array_list
  PROVE  Pops
  <1>1. Len(stack) \in Nat \ {0} /\ Top.is_list
    BY TopOK DEF Inv, end_array_list
  <1>2. Len(stack) # 1
    <2> SUFFICES ASSUME Len(stack) = 1
                 PROVE  FALSE
      OBVIOUS
    <2>1. Top = [RootNode EXCEPT !.map_key = Top.map_key]
      BY DEF Inv, RootKept, Top
    <2>2. Top.is_list = FALSE
      BY <2>1 DEF RootNode, ParseNode
    <2> QED BY <1>1, <2>2
  <1>3. Len(stack) > 1 /\ Parent \in Node
    <2>1. \A n \in Nat \ {0} : n # 1 => n > 1
      OBVIOUS
    <2>2. Len(stack) > 1
      BY <1>1, <1>2, <2>1
    <2> QED BY <2>2, ParentOK DEF Inv
  <1>4. Parent.map_key \in Key \cup {NoKey}
    BY <1>3 DEF Node
  <1> QED BY <1>3, <1>4 DEF end_array_list, Pops

LEMMA EndArray ==
  ASSUME Inv, end_array
  PROVE  Kept /\ (Pops \/ Stays)
  <1>1. CASE end_array_skipped
    <2>1. EvClose("[") /\ active_key' = active_key /\ status' = status /\ Stays
      BY <1>1 DEF end_array_skipped, Stays
    <2> QED BY <2>1, CloseOK DEF Inv, Kept
  <1>2. CASE end_array_list
    <2>1. EvClose("[") /\ status' \in Status /\ active_key' = active_key
      BY <1>2 DEF end_array_list, ArrayVerdict, Status
    <2>2. Kept
      BY <2>1, CloseOK DEF Inv, Kept
    <2> QED BY <1>2, <2>2, ListPops
  <1> QED BY <1>1, <1>2 DEF end_array

LEMMA Scalars ==
  ASSUME Inv, \E tok \in Token : set_value(tok)
  PROVE  Kept /\ Sets
  <1>1. PICK tok \in Token : set_value(tok)
    OBVIOUS
  <1>2. Sets
    BY <1>1 DEF set_value, Sets
  <1>3. EvScalar(tok) /\ status' = status /\ active_key' = active_key
    BY <1>1 DEF set_value
  <1> QED BY <1>2, <1>3, GiveOK DEF Inv, Kept

LEMMA Keys ==
  ASSUME Inv, \E k \in Key : key(k)
  PROVE  Kept /\ Names
  <1>1. PICK k \in Key : key(k)
    OBVIOUS
  <1>2. Names
    BY <1>1 DEF key, Names
  <1>3. EvKey(k) /\ status' = status /\ active_key' = k
    BY <1>1 DEF key
  <1> QED BY <1>2, <1>3, KeyOK DEF Inv, Kept

LEMMA Ends ==
  ASSUME Inv, null \/ finish \/ parse_error
  PROVE  Kept /\ Stays
  <1>1. CASE null
    <2>1. EvNull /\ status' = status /\ active_key' = active_key /\ Stays
      BY <1>1 DEF null, Stays
    <2> QED BY <2>1, GiveOK DEF Inv, Kept
  <1>2. CASE finish \/ parse_error
    BY <1>2 DEF Inv, Kept, Stays, finish, parse_error, EvFinish, EvError, DocOK, Status
  <1> QED BY <1>1, <1>2

LEMMA Begins ==
  ASSUME Inv, parse
  PROVE  Kept /\ Restarts
  <1>1. /\ doc' = <<>> /\ nev' = 0 /\ nparse' = nparse + 1
        /\ status' = "parsing" /\ active_key' = NoKey /\ Restarts
    BY DEF parse, EvBegin, Restarts
  <1>2. doc' \in Seq(Bracket)
    BY <1>1, EmptySeq
  <1> QED BY <1>1, <1>2 DEF Inv, Kept, DocOK, Status

LEMMA Steps ==
  ASSUME Inv, Next
  PROVE  Kept /\ (Pushes \/ Pops \/ Sets \/ Names \/ Stays \/ Restarts)
  BY StartObject, StartArray, EndObject, EndArray, Scalars, Keys, Ends, Begins DEF Next

-----------------------------------------------------------------------------
\* RootKept across a step that keeps the nodes but for their map keys.
LEMMA RootOfSameNodes ==
  ASSUME StackOK, StackOK', RootKept,
         Len(stack') \in 1..Len(stack), SameNodes(stack', stack, Len(stack'))
  PROVE  RootKept'
  <1>1. stack \in Seq(Node) /\ stack' \in Seq(Node) /\ Len(stack) \in Nat
    BY LenProperties DEF StackOK
  <1>2. ASSUME NEW i \in 1..Len(stack')
        PROVE  /\ stack'[i] = [stack[i] EXCEPT !.map_key = stack'[i].map_key]
               /\ stack'[i] \in Node /\ stack[i] \in Node
    BY <1>1, ElementOfSeq DEF SameNodes
  <1>3. stack'[1] = [RootNode EXCEPT !.map_key = stack'[1].map_key]
    <2>1. stack[1] = [RootNode EXCEPT !.map_key = stack[1].map_key]
      BY DEF RootKept
    <2>2. stack'[1] = [stack[1] EXCEPT !.map_key = stack'[1].map_key]
      BY <1>2
    <2> QED BY <2>1, <2>2 DEF RootNode, ParseNode
  <1>4. ASSUME NEW i \in 2..Len(stack')
        PROVE  stack'[i].activekey # NoKey
    <2>1. stack[i].activekey # NoKey
      BY <1>1 DEF RootKept
    <2>2. /\ stack'[i] = [stack[i] EXCEPT !.map_key = stack'[i].map_key]
          /\ stack[i] \in Node
      BY <1>1, <1>2
    <2> QED BY <2>1, <2>2 DEF Node
  <1> QED BY <1>3, <1>4 DEF RootKept

LEMMA PushesKeep ==
  ASSUME Inv, Pushes
  PROVE  StackOK' /\ RootKept' /\ inst'[1] = inst[1]
  <1>1. PICK node \in Node : \E content : node.activekey # NoKey /\ Push(node, content)
    BY DEF Pushes
  <1>2. PICK content : node.activekey # NoKey /\ Push(node, content)
    BY <1>1
  <1>3. /\ StackOK' /\ Len(stack') = Len(stack) + 1
        /\ stack'[Len(stack) + 1] = node
        /\ Agree(stack', stack, Len(stack)) /\ Agree(inst', inst, Len(stack))
    BY <1>2, PushOK DEF Inv
  <1>4. Len(stack) \in Nat \ {0}
    BY TopOK DEF Inv
  <1>5. RootKept'
    BY <1>2, <1>3, <1>4 DEF Inv, RootKept, Agree
  <1>6. inst'[1] = inst[1]
    BY <1>3, <1>4 DEF Agree
  <1> QED BY <1>3, <1>5, <1>6

LEMMA PopsKeep ==
  ASSUME Inv, Pops
  PROVE  StackOK' /\ RootKept' /\ (Len(stack) > 2 => inst'[1] = inst[1])
  <1>1. Len(stack) > 1 /\ Len(stack) \in Nat \ {0}
    BY TopOK DEF Pops, Inv
  <1>2. /\ StackOK' /\ Len(stack') = Len(stack) - 1
        /\ SameNodes(stack', stack, Len(stack) - 1)
        /\ Agree(inst', inst, Len(stack) - 2)
    BY PopOK DEF Inv, Pops
  <1>3. Len(stack') \in 1..Len(stack)
    BY <1>1, <1>2
  <1>4. RootKept'
    BY <1>2, <1>3, RootOfSameNodes DEF Inv
  <1>5. Len(stack) > 2 => inst'[1] = inst[1]
    BY <1>1, <1>2 DEF Agree
  <1> QED BY <1>2, <1>4, <1>5

LEMMA SetsKeep ==
  ASSUME Inv, Sets
  PROVE  StackOK' /\ RootKept' /\ (Len(stack) > 1 => inst'[1] = inst[1])
  <1>1. PICK v : inst' = [inst EXCEPT ![Len(inst)] = v]
    BY DEF Sets
  <1>2. /\ IsSeq(inst, Len(stack)) /\ Len(inst) = Len(stack)
        /\ stack' = stack /\ stack \in Seq(Node) /\ stack # <<>>
    BY SeqOfContents DEF Inv, StackOK, Sets
  <1>3. IsSeq(inst', Len(stack)) /\ Agree(inst', inst, Len(stack) - 1)
    <2>1. /\ IsSeq([inst EXCEPT ![Len(stack)] = v], Len(stack))
          /\ Agree([inst EXCEPT ![Len(stack)] = v], inst, Len(stack) - 1)
      BY <1>2, ExceptIsSeq
    <2> QED BY <1>1, <1>2, <2>1
  <1>4. StackOK'
    BY <1>2, <1>3 DEF StackOK
  <1>5. RootKept'
    BY <1>2 DEF Inv, RootKept
  <1>6. Len(stack) > 1 => inst'[1] = inst[1]
    <2>1. Len(stack) \in Nat \ {0}
      BY TopOK DEF Inv
    <2> QED BY <1>3, <2>1 DEF Agree
  <1> QED BY <1>4, <1>5, <1>6

LEMMA NamesKeep ==
  ASSUME Inv, Names
  PROVE  StackOK' /\ RootKept' /\ inst' = inst
  <1>1. PICK k \in Key : stack' = [stack EXCEPT ![Len(stack)].map_key = k] /\ inst' = inst
    BY DEF Names
  <1>2. stack \in Seq(Node) /\ stack # <<>> /\ IsSeq(inst, Len(stack))
    BY DEF Inv, StackOK
  <1>3. Len(stack) \in Nat \ {0}
    BY TopOK DEF Inv
  <1>4. stack' \in Seq(Node) /\ Len(stack') = Len(stack) /\ SameNodes(stack', stack, Len(stack))
    <2> DEFINE t == [stack EXCEPT ![Len(stack)].map_key = k]
    <2>1. t \in Seq(Node) /\ Len(t) = Len(stack) /\ SameNodes(t, stack, Len(stack))
      BY <1>2, MapKeyOK
    <2> QED BY <1>1, <2>1
  <1>5. stack' # <<>>
    BY <1>3, <1>4, EmptySeq
  <1>6. StackOK'
    BY <1>1, <1>2, <1>4, <1>5 DEF StackOK
  <1>7. Len(stack') \in 1..Len(stack)
    BY <1>3, <1>4
  <1>8. RootKept'
    BY <1>4, <1>6, <1>7, RootOfSameNodes DEF Inv
  <1> QED BY <1>1, <1>6, <1>8

-----------------------------------------------------------------------------
\* A stack that holds the root's node only.
LEMMA RootAlone ==
  /\ RootNode \in Node
  /\ RootNode = [RootNode EXCEPT !.map_key = RootNode.map_key]
  <1>1. RootNode \in Node
    BY SchemaAssumption DEF RootNode, ParseNode, Node, AstId, Class
  <1> QED BY <1>1, NodeRenamed

\* The parse that begins on the same object.
LEMMA RestartsKeep ==
  ASSUME Inv, Restarts
  PROVE  StackOK' /\ RootKept' /\ inst'[1] = inst[1]
  <1>1. RootNode \in Node
    BY RootAlone
  <1>2. stack' = <<RootNode>> /\ inst' = <<inst[1]>>
    BY DEF Restarts
  <1>3. Len(stack') = 1 /\ stack' \in Seq(Node) /\ stack'[1] = RootNode
    BY <1>1, <1>2
  <1>4. IsSeq(inst', 1) /\ inst'[1] = inst[1]
    BY <1>2 DEF IsSeq
  <1>5. StackOK'
    BY <1>2, <1>3, <1>4 DEF StackOK
  <1>6. RootKept'
    BY <1>3, RootAlone DEF RootKept
  <1> QED BY <1>4, <1>5, <1>6

LEMMA StaysKeep ==
  ASSUME Inv, Stays
  PROVE  StackOK' /\ RootKept' /\ inst'[1] = inst[1]
  BY DEF Inv, StackOK, RootKept, Stays

\* The bottom of the stack and the caller's object across any step.
LEMMA StepsKeep ==
  ASSUME Inv, Next
  PROVE  Inv' /\ (inst'[1] # inst[1] => Len(stack) <= 2)
  <1>0. Len(stack) \in Nat \ {0}
    BY TopOK DEF Inv
  <1>1. Kept /\ (Pushes \/ Pops \/ Sets \/ Names \/ Stays \/ Restarts)
    BY Steps
  <1>2. StackOK' /\ RootKept'
    BY <1>1, PushesKeep, PopsKeep, SetsKeep, NamesKeep, StaysKeep, RestartsKeep
  <1>3. Len(stack) > 2 => inst'[1] = inst[1]
    <2> SUFFICES ASSUME Len(stack) > 2
                 PROVE  inst'[1] = inst[1]
      OBVIOUS
    <2>1. Len(stack) > 1
      BY <1>0
    <2>2. CASE Pops
      BY <2>2, PopsKeep
    <2>3. CASE Sets
      BY <2>1, <2>3, SetsKeep
    <2>4. CASE Pushes \/ Names \/ Stays \/ Restarts
      BY <2>4, PushesKeep, NamesKeep, StaysKeep, RestartsKeep
    <2> QED BY <1>1, <2>2, <2>3, <2>4
  <1>4. Len(stack) <= 2 \/ Len(stack) > 2
    BY <1>0
  <1> QED BY <1>1, <1>2, <1>3, <1>4 DEF Inv, Kept

LEMMA InitInv == Init => Inv
  <1> SUFFICES ASSUME Init
               PROVE  Inv
    OBVIOUS
  <1>1. RootNode \in Node
    BY RootAlone
  <1>2. Len(stack) = 1 /\ stack \in Seq(Node) /\ stack[1] = RootNode /\ stack # <<>>
    BY <1>1 DEF Init
  <1>3. IsSeq(inst, 1)
    BY DEF Init, IsSeq
  <1>4. StackOK
    BY <1>2, <1>3 DEF StackOK
  <1>5. RootKept
    BY <1>2, RootAlone DEF RootKept
  <1>6. DocOK /\ status \in Status /\ active_key \in Key \cup {NoKey}
    BY EmptySeq DEF Init, DocOK, Status
  <1> QED BY <1>4, <1>5, <1>6 DEF Inv

LEMMA InvInvariant == Spec => []Inv
  <1>1. Inv /\ [Next]_vars => Inv'
    <2> SUFFICES ASSUME Inv, [Next]_vars
                 PROVE  Inv'
      OBVIOUS
    <2>1. CASE Next
      BY <2>1, StepsKeep
    <2>2. CASE UNCHANGED vars
      BY <2>2 DEF vars, Inv, DocOK, StackOK, RootKept
    <2> QED BY <2>1, <2>2
  <1> QED BY <1>1, InitInv, PTL DEF Spec

\* The type invariant holds of every reachable state, whatever the schema,
\* the document and the number of parses: stack and contents never part.
THEOREM TypeCorrect == Spec => []TypeOK
  <1>1. Inv => TypeOK
    BY DEF Inv, DocOK, StackOK, IsSeq, TypeOK
  <1> QED BY <1>1, InvInvariant, PTL

\* Whatever a document does to the stack, the node that refers to the
\* caller's object stays at the bottom, and it is the only one with no key to
\* be written back under: no bracket pops it and no value replaces it.
THEOREM RootNodeKept == Spec => []RootKept
  <1>1. Inv => RootKept
    BY DEF Inv
  <1> QED BY <1>1, InvInvariant, PTL

\* The caller's object changes only while at most one node is above it: what
\* the nodes higher up have read when a parse is refused or runs into a syntax
\* error is on the stack, and dropped with it.
THEOREM WholeMembers == Spec => WholeMembersOnly
  <1>1. Inv /\ [Next]_vars => [inst'[1] # inst[1] => Len(stack) <= 2]_vars
    BY StepsKeep
  <1> QED BY <1>1, InvInvariant, PTL DEF Spec, WholeMembersOnly

-----------------------------------------------------------------------------
\* The contents of the nodes.  They carry no tag, so that their types are those
\* of a relation R between types and contents: an object has the members of its
\* class, of the types of the class, a list is a sequence and a map a function.
IsFcn(f) == f = [x \in DOMAIN f |-> f[x]]
Typing(R) ==
  \A t, v : <<t, v>> \in R =>
    /\ t \in Class => /\ IsFcn(v) /\ DOMAIN v = DOMAIN Meta[t]
                      /\ \A k \in DOMAIN Meta[t] : <<Meta[t][k], v[k]>> \in R
    /\ t \in List => \E n \in Nat : IsSeq(v, n)
    /\ t \in Map => IsFcn(v)
Of(t, v) == \E R : Typing(R) /\ <<t, v>> \in R

LEMMA KindsApart ==
  Class \cap List = {} /\ Class \cap Map = {} /\ List \cap Map = {}
  BY SchemaAssumption DEF Class, List, Map

LEMMA OfObject ==
  ASSUME NEW t \in Class, NEW v, Of(t, v)
  PROVE  /\ IsFcn(v) /\ DOMAIN v = DOMAIN Meta[t]
         /\ \A k \in DOMAIN Meta[t] : Of(Meta[t][k], v[k])
  <1>1. PICK R : Typing(R) /\ <<t, v>> \in R
    BY DEF Of
  <1>2. /\ IsFcn(v) /\ DOMAIN v = DOMAIN Meta[t]
        /\ \A k \in DOMAIN Meta[t] : <<Meta[t][k], v[k]>> \in R
    BY <1>1 DEF Typing
  <1> QED BY <1>1, <1>2 DEF Of

LEMMA OfList ==
  ASSUME NEW t \in List, NEW v
  PROVE  Of(t, v) <=> \E n \in Nat : IsSeq(v, n)
  <1>1. Of(t, v) => \E n \in Nat : IsSeq(v, n)
    BY DEF Of, Typing
  <1>2. ASSUME NEW n \in Nat, IsSeq(v, n)
        PROVE  Of(t, v)
    <2> DEFINE R == {<<t, v>>}
    <2>1. Typing(R)
      BY <1>2, KindsApart DEF Typing
    <2> QED BY <2>1 DEF Of
  <1> QED BY <1>1, <1>2

LEMMA OfMap ==
  ASSUME NEW t \in Map, NEW v
  PROVE  Of(t, v) <=> IsFcn(v)
  <1>1. Of(t, v) => IsFcn(v)
    BY DEF Of, Typing
  <1>2. ASSUME IsFcn(v)
        PROVE  Of(t, v)
    <2> DEFINE R == {<<t, v>>}
    <2>1. Typing(R)
      BY <1>2, KindsApart DEF Typing
    <2> QED BY <2>1 DEF Of
  <1> QED BY <1>1, <1>2

LEMMA OfOther ==
  ASSUME NEW t, t \notin Class \cup List \cup Map, NEW v
  PROVE  Of(t, v)
  <1> DEFINE R == {<<t, v>>}
  <1>1. Typing(R)
    BY DEF Typing
  <1> QED BY <1>1 DEF Of

\* A member of an object is replaced by a content of its type.
LEMMA OfMember ==
  ASSUME NEW t \in Class, NEW v, Of(t, v),
         NEW k \in DOMAIN Meta[t], NEW w, Of(Meta[t][k], w)
  PROVE  Of(t, [v EXCEPT ![k] = w])
  <1>1. PICK R : Typing(R) /\ <<t, v>> \in R
    BY DEF Of
  <1>2. PICK Q : Typing(Q) /\ <<Meta[t][k], w>> \in Q
    BY DEF Of
  <1> DEFINE new == [v EXCEPT ![k] = w]
             S == R \cup Q \cup {<<t, new>>}
  <1>3. /\ IsFcn(v) /\ DOMAIN v = DOMAIN Meta[t]
        /\ \A j \in DOMAIN Meta[t] : <<Meta[t][j], v[j]>> \in R
    BY <1>1 DEF Typing
  <1>4. /\ IsFcn(new) /\ DOMAIN new = DOMAIN Meta[t] /\ new[k] = w
        /\ \A j \in DOMAIN Meta[t] : j # k => new[j] = v[j]
    BY <1>3 DEF IsFcn
  <1> HIDE DEF new
  <1>5. \A j \in DOMAIN Meta[t] : <<Meta[t][j], new[j]>> \in S
    BY <1>2, <1>3, <1>4
  <1>6. \A u, x : <<u, x>> \in S => <<u, x>> \in R \/ <<u, x>> \in Q \/ (u = t /\ x = new)
    OBVIOUS
  <1>7. t \notin List /\ t \notin Map
    BY KindsApart
  <1>8. R \subseteq S /\ Q \subseteq S /\ <<t, new>> \in S
    OBVIOUS
  <1> HIDE DEF S
  <1>9. Typing(S)
    BY <1>1, <1>2, <1>4, <1>5, <1>6, <1>7, <1>8 DEF Typing
  <1> QED BY <1>8, <1>9 DEF Of, new

\* A default-constructed value is of its type.
LEMMA OfFresh ==
  ASSUME NEW t \in TypeId
  PROVE  Of(t, Fresh[t])
  <1> DEFINE V == {Fresh[u] : u \in TypeId} \cup {Fresh[c][k] : c \in Class, k \in Key}
             R == {p \in TypeId \X V : p[1] \in Class \cup List \cup Map => p[2] = Fresh[p[1]]}
  <1>1. \A u \in TypeId : <<u, Fresh[u]>> \in R
    OBVIOUS
  <1>2. \A u, v : <<u, v>> \in R => u \in TypeId /\ (u \in Class \cup List \cup Map => v = Fresh[u])
    OBVIOUS
  <1>3. \A c \in Class : \A k \in DOMAIN Meta[c] : <<Meta[c][k], Fresh[c][k]>> \in R
    <2> TAKE c \in Class
    <2> TAKE k \in DOMAIN Meta[c]
    <2>1. k \in Key /\ Meta[c][k] \in TypeId
      BY SchemaAssumption
    <2>2. Fresh[c][k] \in V
      BY <2>1
    <2>3. Meta[c][k] \in Class \cup List \cup Map => Fresh[c][k] = Fresh[Meta[c][k]]
      BY FreshAssumption
    <2> QED BY <2>1, <2>2, <2>3
  <1> HIDE DEF R, V
  <1>4. \A u \in List \cup Map : Fresh[u] = <<>>
    BY FreshAssumption
  <1>5. IsSeq(<<>>, 0) /\ IsFcn(<<>>)
    BY DEF IsSeq, IsFcn
  <1>6. \A c \in Class : IsFcn(Fresh[c]) /\ DOMAIN Fresh[c] = DOMAIN Meta[c]
    BY FreshAssumption DEF IsFcn
  <1>7. Typing(R)
    BY <1>2, <1>3, <1>4, <1>5, <1>6, KindsApart DEF Typing
  <1> QED BY <1>1, <1>7 DEF Of

-----------------------------------------------------------------------------
\* What the write-backs and insertions leave is of the type they are for, and
\* takes nothing back from a list or a map.
LEMMA PrefixIs ==
  ASSUME NEW s, NEW t, NEW m, NEW n, IsSeq(s, m), IsSeq(t, n)
  PROVE  IsPrefix(s, t) <=> m <= n /\ Agree(t, s, m)
  <1> DEFINE S == {s[i] : i \in 1..m}  T == {t[i] : i \in 1..n}
  <1>1. s \in Seq(S) /\ Len(s) = m /\ t \in Seq(T) /\ Len(t) = n /\ m \in Nat /\ n \in Nat
    BY SeqOfContents DEF IsSeq
  <1>2. \A i \in 1..m : s[i] \in S
    OBVIOUS
  <1>3. m <= n => \A i \in 1..m : t[i] \in T
    BY <1>1
  <1> HIDE DEF S, T
  <1>4. SubSeq(s, 1, m) = [i \in 1..m |-> s[i]]
    BY <1>1, <1>2, SubSeqProperties
  <1>5. m <= n => SubSeq(t, 1, m) = [i \in 1..m |-> t[i]]
    BY <1>1, <1>3, SubSeqProperties
  <1> QED BY <1>1, <1>4, <1>5 DEF IsPrefix, Agree

LEMMA GrowsStill ==
  ASSUME NEW t, NEW v, Of(t, v)
  PROVE  Grows(t, v, v)
  <1>1. CASE t \in List
    <2>1. PICK n \in Nat : IsSeq(v, n)
      BY <1>1, OfList
    <2>2. IsPrefix(v, v)
      BY <2>1, PrefixIs DEF Agree
    <2> QED BY <1>1, <2>2 DEF Grows
  <1>2. CASE t \in Map
    BY <1>2, KindsApart DEF Grows
  <1>3. CASE t \notin List /\ t \notin Map
    BY <1>3 DEF Grows
  <1> QED BY <1>1, <1>2, <1>3

LEMMA GrowsOn ==
  ASSUME NEW t, NEW u, NEW v, NEW w, Of(t, u), Of(t, v), Of(t, w),
         Grows(t, u, v), Grows(t, v, w)
  PROVE  Grows(t, u, w)
  <1>1. CASE t \in List
    <2>1. PICK l \in Nat : IsSeq(u, l)
      BY <1>1, OfList
    <2>2. PICK m \in Nat : IsSeq(v, m)
      BY <1>1, OfList
    <2>3. PICK n \in Nat : IsSeq(w, n)
      BY <1>1, OfList
    <2>0. IsPrefix(u, v) /\ IsPrefix(v, w)
      <3>1. \A x, y : Grows(t, x, y) => IsPrefix(x, y)
        BY <1>1, KindsApart DEF Grows
      <3> QED BY <3>1
    <2>4. l <= m /\ Agree(v, u, l) /\ m <= n /\ Agree(w, v, m)
      BY <2>0, <2>1, <2>2, <2>3, PrefixIs
    <2>5. l <= n /\ Agree(w, u, l)
      BY <2>4 DEF Agree
    <2>6. IsPrefix(u, w)
      BY <2>1, <2>3, <2>5, PrefixIs
    <2> QED BY <1>1, <2>6 DEF Grows
  <1>2. CASE t \in Map
    BY <1>2, KindsApart DEF Grows
  <1>3. CASE t \notin List /\ t \notin Map
    BY <1>3 DEF Grows
  <1> QED BY <1>1, <1>2, <1>3

Better(t, v, w) == Of(t, w) /\ Grows(t, v, w)

LEMMA AppendBetter ==
  ASSUME NEW t \in List, NEW s, Of(t, s), NEW e
  PROVE  Better(t, s, Append(s, e))
  <1>1. PICK n \in Nat : IsSeq(s, n)
    BY OfList
  <1>2. IsSeq(Append(s, e), n + 1) /\ Agree(Append(s, e), s, n)
    BY <1>1, AppendIsSeq
  <1>3. IsPrefix(s, Append(s, e))
    BY <1>1, <1>2, PrefixIs
  <1>4. n + 1 \in Nat
    OBVIOUS
  <1>5. Of(t, Append(s, e))
    BY <1>2, <1>4, OfList
  <1> QED BY <1>3, <1>5 DEF Better, Grows

LEMMA InsertBetter ==
  ASSUME NEW t \in Map, NEW m, Of(t, m), NEW k, NEW v
  PROVE  Better(t, m, Insert(m, k, v))
  <1>1. IsFcn(Insert(m, k, v)) /\ \A j \in DOMAIN m : j \in DOMAIN Insert(m, k, v) /\ Insert(m, k, v)[j] = m[j]
    BY DEF Insert, IsFcn
  <1>2. t \notin List
    BY KindsApart
  <1> QED BY <1>1, <1>2, OfMap DEF Better, Grows

LEMMA SameBetter ==
  ASSUME NEW t, NEW v, Of(t, v)
  PROVE  Better(t, v, v)
  BY GrowsStill DEF Better

\* An object grows when the containers among its members do.
MembersGrow(t, v, w) == \A k \in DOMAIN Meta[t] : Grows(Meta[t][k], v[k], w[k])

LEMMA MemberBetter ==
  ASSUME NEW t \in Class, NEW v, Of(t, v), NEW k \in DOMAIN Meta[t], NEW w,
         Of(Meta[t][k], w)
  PROVE  /\ Better(t, v, [v EXCEPT ![k] = w])
         /\ Grows(Meta[t][k], v[k], w) => MembersGrow(t, v, [v EXCEPT ![k] = w])
  <1> DEFINE new == [v EXCEPT ![k] = w]
  <1>1. Of(t, new)
    BY OfMember
  <1>2. /\ IsFcn(v) /\ DOMAIN v = DOMAIN Meta[t]
        /\ \A j \in DOMAIN Meta[t] : Of(Meta[t][j], v[j])
    BY OfObject
  <1>3. new[k] = w /\ \A j \in DOMAIN Meta[t] : j # k => new[j] = v[j]
    BY <1>2
  <1>4. \A j \in DOMAIN Meta[t] : Grows(Meta[t][j], v[j], v[j])
    BY <1>2, GrowsStill
  <1> HIDE DEF new
  <1>5. Better(t, v, new)
    BY <1>1, KindsApart DEF Better, Grows
  <1>6. Grows(Meta[t][k], v[k], w) => MembersGrow(t, v, new)
    BY <1>3, <1>4 DEF MembersGrow
  <1> QED BY <1>5, <1>6 DEF new

-----------------------------------------------------------------------------
\* What a scalar and a write-back leave in the node they reach.
Improves(t, v, w) == Better(t, v, w) /\ (t \in Class => MembersGrow(t, v, w))

LEMMA SameImproves ==
  ASSUME NEW t, NEW v, Of(t, v)
  PROVE  Improves(t, v, v)
  <1>1. ASSUME t \in Class
        PROVE  \A k \in DOMAIN Meta[t] : Grows(Meta[t][k], v[k], v[k])
    <2>1. \A k \in DOMAIN Meta[t] : Of(Meta[t][k], v[k])
      BY <1>1, OfObject
    <2> QED BY <2>1, GrowsStill
  <1> QED BY <1>1, SameBetter DEF Improves, MembersGrow

LEMMA ScalarMemberImproves ==
  ASSUME NEW t \in Class, NEW v, Of(t, v), NEW k \in DOMAIN Meta[t],
         Meta[t][k] \notin Class \cup List \cup Map, NEW w
  PROVE  Improves(t, v, [v EXCEPT ![k] = w])
  <1>1. Of(Meta[t][k], w)
    BY OfOther
  <1>2. Grows(Meta[t][k], v[k], w)
    BY DEF Grows
  <1> QED BY <1>1, <1>2, MemberBetter DEF Improves

LEMMA SetMemberScalar ==
  ASSUME NEW node, NEW v, Of(node.ty, v), NEW k, NEW tok, find_field_recursive(node.ty, k)
  PROVE  Improves(node.ty, v, set_member(node, v, k, tok))
  <1> DEFINE ft == Meta[node.ty][k]
             declared == find_field_astid(node.val_astid, k)
             new == set_member(node, v, k, tok)
  <1>1. node.ty \in Class /\ k \in DOMAIN Meta[node.ty]
    BY DEF find_field_recursive
  <1>2. new = v \/ (ft \notin Class \cup List \cup Map /\ \E w : new = [v EXCEPT ![k] = w])
    <2>1. CASE node.val_astid \notin Asts
      <3>1. declared \notin Asts
        BY <2>1, SchemaAssumption DEF find_field_astid
      <3>2. new = v
        BY <2>1, <3>1, Zenon DEF set_member
      <3> QED BY <3>2
    <2>2. CASE node.val_astid \in Asts /\ declared \in Asts
      <3>1. CASE Kind[declared] = "port" /\ Kind[ft] = "port"
        <4>1. new = [v EXCEPT ![k] = PortOf(tok)]
          BY <2>2, <3>1 DEF set_member
        <4>2. ft \notin Class \cup List \cup Map
          BY <3>1 DEF Class, List, Map
        <4> QED BY <4>1, <4>2
      <3>2. CASE Kind[declared] = "enum" /\ Kind[ft] = "enum"
        <4>1. new = [v EXCEPT ![k] = EnumOf(tok)]
          BY <2>2, <3>2 DEF set_member
        <4>2. ft \notin Class \cup List \cup Map
          BY <3>2 DEF Class, List, Map
        <4> QED BY <4>1, <4>2
      <3>3. CASE /\ ~(Kind[declared] = "port" /\ Kind[ft] = "port")
                 /\ ~(Kind[declared] = "enum" /\ Kind[ft] = "enum")
        <4>1. new = v
          BY <2>2, <3>3, Zenon DEF set_member
        <4> QED BY <4>1
      <3> QED BY <3>1, <3>2, <3>3
    <2>3. CASE node.val_astid \in Asts /\ declared \notin Asts
      <3>1. new = IF Castable(ft, tok) THEN [v EXCEPT ![k] = Cast(ft, tok)] ELSE v
        BY <2>3 DEF set_member
      <3>2. Castable(ft, tok) => ft \notin Class \cup List \cup Map
        BY DEF Castable, Class, List, Map
      <3> HIDE DEF ft, new
      <3> QED BY <3>1, <3>2
    <2> QED BY <2>1, <2>2, <2>3
  <1>3. CASE new = v
    <2>1. Improves(node.ty, v, v)
      BY SameImproves
    <2> QED BY <1>3, <2>1
  <1>4. ASSUME ft \notin Class \cup List \cup Map, NEW w, new = [v EXCEPT ![k] = w]
        PROVE  Improves(node.ty, v, new)
    <2>1. Improves(node.ty, v, [v EXCEPT ![k] = w])
      BY <1>1, <1>4, ScalarMemberImproves
    <2> QED BY <1>4, <2>1
  <1> QED BY <1>2, <1>3, <1>4

LEMMA BetterImproves ==
  ASSUME NEW t, t \notin Class, NEW v, NEW w, Better(t, v, w)
  PROVE  Improves(t, v, w)
  BY DEF Improves

LEMMA ValueSetImproves ==
  ASSUME NEW node, NEW v, Of(node.ty, v), NEW tok
  PROVE  Improves(node.ty, v, ValueSet(node, v, tok))
  <1>1. CASE node.is_list
    <2>1. ValueSet(node, v, tok) = insert_list(node.ty, v, tok)
      BY <1>1 DEF ValueSet
    <2>2. \/ insert_list(node.ty, v, tok) = v
          \/ node.ty \in List /\ \E e : insert_list(node.ty, v, tok) = Append(v, e)
      BY DEF insert_list, is_sequence
    <2> QED BY <2>1, <2>2, SameImproves, AppendBetter, BetterImproves, KindsApart
  <1>2. CASE ~node.is_list /\ node.is_map
    <2>1. ValueSet(node, v, tok) = insert_map(node.ty, v, node.map_key, tok)
      BY <1>2 DEF ValueSet
    <2>2. \/ insert_map(node.ty, v, node.map_key, tok) = v
          \/ node.ty \in Map /\ \E e : insert_map(node.ty, v, node.map_key, tok) = Insert(v, node.map_key, e)
      BY DEF insert_map, is_associative
    <2> QED BY <2>1, <2>2, SameImproves, InsertBetter, BetterImproves, KindsApart
  <1>3. CASE /\ ~node.is_list /\ ~node.is_map
             /\ active_key # NoKey /\ find_field_recursive(node.ty, active_key)
    <2>1. ValueSet(node, v, tok) = set_member(node, v, active_key, tok)
      BY <1>3 DEF ValueSet
    <2> QED BY <1>3, <2>1, SetMemberScalar
  <1>4. CASE /\ ~node.is_list /\ ~node.is_map
             /\ ~(active_key # NoKey /\ find_field_recursive(node.ty, active_key))
    <2>1. ValueSet(node, v, tok) = v
      BY <1>4 DEF ValueSet
    <2> QED BY <2>1, SameImproves
  <1> QED BY <1>1, <1>2, <1>3, <1>4

\* The content of node n started as a copy of the member of p it is written
\* back to, and has only grown since.
Copied(p, pv, n, v) ==
  Owns(p, n) /\ Meta[p.ty][n.activekey] = n.ty => Grows(n.ty, pv[n.activekey], v)

LEMMA SetMemberImproves ==
  ASSUME NEW p, NEW pv, NEW n, NEW v, Of(p.ty, pv), Of(n.ty, v), Copied(p, pv, n, v), Owns(p, n)
  PROVE  Improves(p.ty, pv, SetMember(p.ty, pv, n.activekey, n.ty, v))
  <1>1. p.ty \in Class /\ n.activekey \in DOMAIN Meta[p.ty]
    BY DEF Owns, find_field_recursive
  <1>2. CASE Meta[p.ty][n.activekey] = n.ty
    BY <1>1, <1>2, MemberBetter DEF Copied, SetMember, Improves
  <1>3. CASE Meta[p.ty][n.activekey] # n.ty
    BY <1>3, SameImproves DEF SetMember
  <1> QED BY <1>2, <1>3

LEMMA AppendValueImproves ==
  ASSUME NEW t, NEW s, Of(t, s), NEW vt, NEW v
  PROVE  Improves(t, s, AppendValue(t, s, vt, v))
  BY SameImproves, AppendBetter, BetterImproves, KindsApart DEF AppendValue, is_sequence

LEMMA InsertValueImproves ==
  ASSUME NEW t, NEW m, Of(t, m), NEW k, NEW vt, NEW v
  PROVE  Improves(t, m, InsertValue(t, m, k, vt, v))
  BY SameImproves, InsertBetter, BetterImproves, KindsApart DEF InsertValue, is_associative

LEMMA IntoImproves ==
  ASSUME NEW p, NEW pv, NEW n, NEW v, Of(p.ty, pv), Of(n.ty, v), Copied(p, pv, n, v)
  PROVE  /\ Improves(p.ty, pv, ObjectInto(p, pv, n, v))
         /\ Improves(p.ty, pv, ListInto(p, pv, n, v))
  <1>1. CASE Owns(p, n)
    BY <1>1, SetMemberImproves DEF ObjectInto, ListInto
  <1>2. CASE ~Owns(p, n)
    <2>1. \/ ObjectInto(p, pv, n, v) = pv
          \/ ObjectInto(p, pv, n, v) = InsertValue(p.ty, pv, p.map_key, n.ty, v)
          \/ ObjectInto(p, pv, n, v) = AppendValue(p.ty, pv, n.ty, v)
      BY <1>2 DEF ObjectInto
    <2>2. \/ ListInto(p, pv, n, v) = pv
          \/ ListInto(p, pv, n, v) = InsertValue(p.ty, pv, p.map_key, n.ty, v)
          \/ ListInto(p, pv, n, v) = AppendValue(p.ty, pv, n.ty, v)
      BY <1>2 DEF ListInto
    <2> QED BY <2>1, <2>2, SameImproves, AppendValueImproves, InsertValueImproves
  <1> QED BY <1>1, <1>2

-----------------------------------------------------------------------------
\* The invariant about the contents: each is of its node's type, and those that
\* started as copies have not lost anything of what they are copies of.
Contents == \A i \in 1..Len(stack) : Of(stack[i].ty, inst[i])
Copies == \A i \in 1..(Len(stack) - 1) : Copied(stack[i], inst[i], stack[i + 1], inst[i + 1])

CInv == Inv /\ Contents /\ Copies

\* A step that leaves n nodes and improves the topmost of them only.
Rewrites(n) == /\ n \in 1..Len(stack) /\ Len(stack') = n
               /\ SameNodes(stack', stack, n)
               /\ Agree(inst', inst, n - 1)
               /\ Improves(stack[n].ty, inst[n], inst'[n])

LEMMA CopiedOn ==
  ASSUME NEW p, NEW pv, NEW n, NEW v, NEW w,
         Of(p.ty, pv), Of(n.ty, v), Copied(p, pv, n, v), Better(n.ty, v, w)
  PROVE  Copied(p, pv, n, w)
  <1> SUFFICES ASSUME Owns(p, n), Meta[p.ty][n.activekey] = n.ty
               PROVE  Grows(n.ty, pv[n.activekey], w)
    BY DEF Copied
  <1>1. p.ty \in Class /\ n.activekey \in DOMAIN Meta[p.ty]
    BY DEF Owns, find_field_recursive
  <1>2. Of(n.ty, pv[n.activekey])
    BY <1>1, OfObject
  <1>3. Grows(n.ty, pv[n.activekey], v) /\ Grows(n.ty, v, w) /\ Of(n.ty, w)
    BY DEF Copied, Better
  <1> QED BY <1>2, <1>3, GrowsOn

LEMMA CopiedRenamed ==
  ASSUME NEW p, NEW q, NEW pv, NEW n, NEW m, NEW v, Copied(p, pv, n, v),
         q.ty = p.ty, m.ty = n.ty, m.activekey = n.activekey
  PROVE  Copied(q, pv, m, v)
  BY DEF Copied, Owns

LEMMA RewritesKeep ==
  ASSUME CInv, StackOK', NEW n, Rewrites(n)
  PROVE  Contents' /\ Copies' /\ MembersGrow(RootType, inst[1], inst'[1])
  <1>0. /\ n \in Nat /\ n \in 1..Len(stack) /\ Len(stack') = n /\ Len(stack) \in Nat
        /\ \A i \in 1..n : i \in 1..Len(stack) /\ i \in Nat
        /\ \A i \in 1..(n - 1) : i \in 1..(Len(stack) - 1) /\ i + 1 \in 1..n /\ i \in 1..n
    BY TopOK DEF CInv, Inv, Rewrites
  <1>1. \A i \in 1..n : stack'[i].ty = stack[i].ty /\ stack'[i].activekey = stack[i].activekey
    <2> TAKE i \in 1..n
    <2>1. stack[i] \in Node
      BY <1>0, ElementOfSeq DEF CInv, Inv, StackOK
    <2>2. stack'[i] = [stack[i] EXCEPT !.map_key = stack'[i].map_key]
      BY DEF Rewrites, SameNodes
    <2> QED BY <2>1, <2>2 DEF Node
  <1>2. \A i \in 1..(n - 1) : inst'[i] = inst[i]
    BY DEF Rewrites, Agree
  <1>3. Improves(stack[n].ty, inst[n], inst'[n]) /\ Better(stack[n].ty, inst[n], inst'[n])
    BY DEF Rewrites, Improves
  <1>4. \A i \in 1..n : Of(stack[i].ty, inst[i])
    BY <1>0 DEF CInv, Contents
  <1>5. \A i \in 1..n : Of(stack[i].ty, inst'[i])
    <2> TAKE i \in 1..n
    <2>1. CASE i = n
      BY <1>3, <2>1 DEF Better
    <2>2. CASE i # n
      <3>1. i \in 1..(n - 1)
        BY <1>0, <2>2
      <3> QED BY <1>2, <1>4, <3>1
    <2> QED BY <2>1, <2>2
  <1>6. Contents'
    <2>1. \A i \in 1..n : Of(stack'[i].ty, inst'[i])
      BY <1>1, <1>5
    <2> QED BY <1>0, <2>1 DEF Contents
  <1>7. ASSUME NEW i \in 1..(n - 1)
        PROVE  Copied(stack'[i], inst'[i], stack'[i + 1], inst'[i + 1])
    <2>1. Copied(stack[i], inst[i], stack[i + 1], inst[i + 1])
      BY <1>0 DEF CInv, Copies
    <2>2. Copied(stack[i], inst[i], stack[i + 1], inst'[i + 1])
      <3>1. CASE i + 1 = n
        BY <1>0, <1>3, <1>4, <2>1, <3>1, CopiedOn
      <3>2. CASE i + 1 # n
        <4>1. i + 1 \in 1..(n - 1)
          BY <1>0, <3>2
        <4> QED BY <1>2, <2>1, <4>1
      <3> QED BY <3>1, <3>2
    <2>3. inst'[i] = inst[i]
      BY <1>2
    <2> QED BY <1>0, <1>1, <2>2, <2>3, CopiedRenamed
  <1>8. Copies'
    BY <1>0, <1>7 DEF Copies
  <1>9. MembersGrow(RootType, inst[1], inst'[1])
    <2>1. stack[1].ty = RootType
      <3>1. stack[1] = [RootNode EXCEPT !.map_key = stack[1].map_key]
        BY DEF CInv, Inv, RootKept
      <3> QED BY <3>1 DEF RootNode, ParseNode
    <2>2. RootType \in Class
      BY SchemaAssumption
    <2>3. CASE n = 1
      BY <1>3, <2>1, <2>2, <2>3 DEF Improves
    <2>4. CASE n # 1
      <3>1. 1 \in 1..(n - 1) /\ 1 \in 1..n
        BY <1>0, <2>4
      <3>2. Improves(RootType, inst[1], inst[1])
        BY <1>4, <2>1, <3>1, SameImproves
      <3> QED BY <1>2, <2>2, <3>1, <3>2 DEF Improves
    <2> QED BY <2>3, <2>4
  <1> QED BY <1>6, <1>8, <1>9

\* A new node has a content of its type, a copy if it is for a member.
PushesCopy == \E node \in Node : \E content :
  /\ node.activekey # NoKey /\ Push(node, content)
  /\ Of(node.ty, content) /\ Copied(Top, TopInst, node, content)

LEMMA TopContent ==
  ASSUME CInv
  PROVE  /\ Len(inst) = Len(stack) /\ Len(stack) \in Nat \ {0}
         /\ TopInst = inst[Len(stack)] /\ Of(Top.ty, TopInst)
  <1>1. Len(inst) = Len(stack) /\ Len(stack) \in Nat \ {0}
    BY TopOK, SeqOfContents DEF CInv, Inv, StackOK
  <1>2. Len(stack) \in 1..Len(stack)
    BY <1>1
  <1> QED BY <1>1, <1>2 DEF TopInst, Top, CInv, Contents

LEMMA PushesCopyKeep ==
  ASSUME CInv, StackOK', PushesCopy
  PROVE  Contents' /\ Copies' /\ MembersGrow(RootType, inst[1], inst'[1])
  <1> DEFINE n == Len(stack)
  <1>1. PICK node \in Node : \E content :
          /\ node.activekey # NoKey /\ Push(node, content)
          /\ Of(node.ty, content) /\ Copied(Top, TopInst, node, content)
    BY DEF PushesCopy
  <1>2. PICK content :
          /\ node.activekey # NoKey /\ Push(node, content)
          /\ Of(node.ty, content) /\ Copied(Top, TopInst, node, content)
    BY <1>1
  <1>3. /\ Len(stack') = n + 1 /\ stack'[n + 1] = node
        /\ Agree(stack', stack, n) /\ Agree(inst', inst, n) /\ inst'[n + 1] = content
    BY <1>2, PushOK DEF CInv, Inv
  <1>4. n \in Nat \ {0} /\ Top = stack[n] /\ TopInst = inst[n]
    BY TopContent DEF Top
  <1> HIDE DEF n
  <1>5. \A i \in 1..n : stack'[i] = stack[i] /\ inst'[i] = inst[i] /\ Of(stack[i].ty, inst[i])
    BY <1>3 DEF Agree, CInv, Contents, n
  <1>6. \A i \in 1..(n + 1) : i \in 1..n \/ i = n + 1
    BY <1>4
  <1>7. \A i \in 1..(n + 1) : Of(stack'[i].ty, inst'[i])
    BY <1>2, <1>3, <1>5, <1>6
  <1>8. ASSUME NEW i \in 1..n
        PROVE  Copied(stack'[i], inst'[i], stack'[i + 1], inst'[i + 1])
    <2>1. CASE i = n
      BY <1>2, <1>3, <1>4, <1>5, <2>1
    <2>2. CASE i # n
      <3>1. i \in 1..(n - 1) /\ i + 1 \in 1..n
        BY <1>4, <2>2
      <3>2. Copied(stack[i], inst[i], stack[i + 1], inst[i + 1])
        BY <3>1 DEF CInv, Copies, n
      <3> QED BY <1>5, <3>1, <3>2
    <2> QED BY <2>1, <2>2
  <1>9. Contents' /\ Copies'
    <2>1. (n + 1) - 1 = n
      BY <1>4
    <2> QED BY <1>3, <1>7, <1>8, <2>1 DEF Contents, Copies
  <1>10. MembersGrow(RootType, inst[1], inst'[1])
    <2>1. 1 \in 1..n
      BY <1>4
    <2>2. stack[1].ty = RootType /\ RootType \in Class
      <3>1. stack[1] = [RootNode EXCEPT !.map_key = stack[1].map_key]
        BY DEF CInv, Inv, RootKept
      <3> QED BY <3>1, SchemaAssumption DEF RootNode, ParseNode
    <2>3. Improves(RootType, inst[1], inst[1])
      BY <1>5, <2>1, <2>2, SameImproves
    <2> QED BY <1>5, <2>1, <2>2, <2>3 DEF Improves
  <1> QED BY <1>9, <1>10

-----------------------------------------------------------------------------
\* Every handler is one of the two.
LEMMA MemberCopied ==
  ASSUME CInv, NEW node, NEW k, find_field_recursive(Top.ty, k),
         node.ty = Meta[Top.ty][k], node.activekey = k
  PROVE  Of(node.ty, TopInst[k]) /\ Copied(Top, TopInst, node, TopInst[k])
  <1>1. Top.ty \in Class /\ k \in DOMAIN Meta[Top.ty]
    BY DEF find_field_recursive
  <1>2. Of(node.ty, TopInst[k])
    BY <1>1, TopContent, OfObject
  <1>3. Grows(node.ty, TopInst[k], TopInst[k])
    BY <1>2, GrowsStill
  <1> QED BY <1>2, <1>3 DEF Copied

LEMMA ElementFresh ==
  ASSUME NEW node, NEW t \in TypeId, node.ty = t, ~find_field_recursive(Top.ty, node.activekey)
  PROVE  Of(node.ty, Fresh[t]) /\ Copied(Top, TopInst, node, Fresh[t])
  BY OfFresh DEF Copied, Owns

LEMMA MemberListPushed ==
  ASSUME CInv, NEW k \in Key, find_field_recursive(Top.ty, k), NEW id \in AstId,
         push_list(Meta[Top.ty][k], TopInst[k], k, id)
  PROVE  PushesCopy
  <1> DEFINE val == parseListValtype(id)
             node == ParseNode(Meta[Top.ty][k], val.id, val.ptr, TRUE, FALSE, k)
  <1>1. val.id \in AstId /\ val.ptr \in BOOLEAN
    BY SchemaAssumption DEF parseListValtype, AstId, List
  <1>2. node \in Node /\ node.activekey = k /\ k # NoKey /\ node.ty = Meta[Top.ty][k]
    BY <1>1, MemberTyped, SchemaAssumption DEF ParseNode, Node
  <1>3. Push(node, TopInst[k])
    BY DEF push_list
  <1> HIDE DEF node
  <1> QED BY <1>2, <1>3, MemberCopied DEF PushesCopy

LEMMA MemberMapPushed ==
  ASSUME CInv, NEW k \in Key, find_field_recursive(Top.ty, k), NEW id \in AstId,
         push_map(Meta[Top.ty][k], TopInst[k], k, id)
  PROVE  PushesCopy
  <1> DEFINE val == IF id = NoAst THEN [id |-> NoAst, ptr |-> FALSE] ELSE parseMapValtype(id)
             node == ParseNode(Meta[Top.ty][k], val.id, val.ptr, FALSE, TRUE, k)
  <1>1. val.id \in AstId /\ val.ptr \in BOOLEAN
    BY SchemaAssumption DEF parseMapValtype, AstId, Map
  <1>2. node \in Node /\ node.activekey = k /\ k # NoKey /\ node.ty = Meta[Top.ty][k]
    BY <1>1, MemberTyped, SchemaAssumption DEF ParseNode, Node
  <1>3. Push(node, TopInst[k])
    BY DEF push_map
  <1> HIDE DEF node
  <1> QED BY <1>2, <1>3, MemberCopied DEF PushesCopy

LEMMA MemberObjectPushed ==
  ASSUME CInv, NEW k \in Key, find_field_recursive(Top.ty, k), NEW id \in AstId,
         Push(ParseNode(Meta[Top.ty][k], id, FALSE, FALSE, FALSE, k), TopInst[k])
  PROVE  PushesCopy
  <1> DEFINE node == ParseNode(Meta[Top.ty][k], id, FALSE, FALSE, FALSE, k)
  <1>1. node \in Node /\ node.activekey = k /\ k # NoKey /\ node.ty = Meta[Top.ty][k]
    BY MemberTyped, SchemaAssumption DEF ParseNode, Node
  <1>2. Push(node, TopInst[k])
    OBVIOUS
  <1> HIDE DEF node
  <1> QED BY <1>1, <1>2, MemberCopied DEF PushesCopy

LEMMA ElementPushed ==
  ASSUME NEW k \in Key, ~find_field_recursive(Top.ty, k),
         NEW t \in TypeId, NEW list \in BOOLEAN, NEW ptr \in BOOLEAN, NEW id \in AstId,
         Push(ParseNode(t, id, ptr, list, FALSE, k), Fresh[t])
  PROVE  PushesCopy
  <1> DEFINE node == ParseNode(t, id, ptr, list, FALSE, k)
  <1>1. node \in Node /\ node.activekey = k /\ k # NoKey /\ node.ty = t
    BY SchemaAssumption DEF ParseNode, Node
  <1>2. Push(node, Fresh[t])
    OBVIOUS
  <1> HIDE DEF node
  <1> QED BY <1>1, <1>2, ElementFresh DEF PushesCopy

LEMMA StartsObject ==
  ASSUME CInv, start_object
  PROVE  PushesCopy \/ Stays
  <1>1. CASE start_object_member
    <2> DEFINE fd_astid == find_field_astid(Top.val_astid, active_key)
               ft == Meta[Top.ty][active_key]
               copy == TopInst[active_key]
    <2>1. find_field_recursive(Top.ty, active_key) /\ active_key \in Key /\ fd_astid \in AstId
      BY <1>1, MemberTyped, DeclaredInAstId DEF start_object_member
    <2>2. IF fd_astid \in Asts
          THEN Push(ParseNode(ft, fd_astid, FALSE, FALSE, FALSE, active_key), copy)
          ELSE push_map(ft, copy, active_key, fd_astid)
      BY <1>1 DEF start_object_member
    <2>3. CASE fd_astid \in Asts
      BY <2>1, <2>2, <2>3, MemberObjectPushed
    <2>4. CASE fd_astid \notin Asts
      BY <2>1, <2>2, <2>4, MemberMapPushed
    <2> QED BY <2>3, <2>4
  <1>2. CASE start_object_element
    <2>1. active_key \in Key /\ Top.val_astid \in TypeId /\ Top.val_astid \in AstId
      BY <1>2, SchemaAssumption DEF CInv, Inv, start_object_element, AstId
    <2>2. /\ Push(ParseNode(Top.val_astid, Top.val_astid, FALSE, FALSE, FALSE, active_key),
                  Fresh[Top.val_astid])
          /\ ~find_field_recursive(Top.ty, active_key)
      BY <1>2 DEF start_object_element
    <2> QED BY <2>1, <2>2, ElementPushed
  <1>3. CASE start_object_skipped
    BY <1>3 DEF start_object_skipped, Stays
  <1> QED BY <1>1, <1>2, <1>3 DEF start_object

LEMMA StartsArray ==
  ASSUME CInv, start_array
  PROVE  PushesCopy \/ Stays
  <1>1. CASE start_array_member
    <2>1. /\ find_field_recursive(Top.ty, active_key) /\ active_key \in Key
          /\ find_field_astid(Top.val_astid, active_key) \in AstId
      BY <1>1, MemberTyped, DeclaredInAstId DEF start_array_member
    <2>2. push_list(Meta[Top.ty][active_key], TopInst[active_key], active_key,
                    find_field_astid(Top.val_astid, active_key))
      BY <1>1 DEF start_array_member, ListCopy
    <2> QED BY <2>1, <2>2, MemberListPushed
  <1>2. CASE start_array_element
    <2> DEFINE val == parseListValtype(Top.val_astid)
    <2>1. active_key \in Key /\ Top.val_astid \in TypeId /\ Top.val_astid \in AstId
      BY <1>2, SchemaAssumption DEF CInv, Inv, start_array_element, InContainer, AstId
    <2>2. /\ Push(ParseNode(Top.val_astid, val.id, val.ptr, TRUE, FALSE, active_key),
                  Fresh[Top.val_astid])
          /\ ~find_field_recursive(Top.ty, active_key)
      BY <1>2 DEF start_array_element, push_list, InContainer
    <2>3. val.id \in AstId /\ val.ptr \in BOOLEAN
      BY <2>1, SchemaAssumption DEF parseListValtype, AstId, List
    <2> HIDE DEF val
    <2> QED BY <2>1, <2>2, <2>3, ElementPushed
  <1>3. CASE start_array_refused \/ start_array_skipped
    BY <1>3 DEF start_array_refused, start_array_skipped, Stays
  <1> QED BY <1>1, <1>2, <1>3 DEF start_array

LEMMA PopRewrites ==
  ASSUME CInv, Len(stack) > 1, NEW v, NEW k \in Key \cup {NoKey}, PopInto(v, k),
         Improves(Parent.ty, ParentInst, v)
  PROVE  Rewrites(Len(stack) - 1)
  <1>1. /\ Len(stack') = Len(stack) - 1
        /\ SameNodes(stack', stack, Len(stack) - 1)
        /\ Agree(inst', inst, Len(stack) - 2) /\ inst'[Len(stack) - 1] = v
    BY PopOK DEF CInv, Inv
  <1>2. Len(inst) = Len(stack) /\ Len(stack) \in Nat /\ Len(stack) - 1 \in 1..Len(stack)
    BY TopContent
  <1>3. (Len(stack) - 1) - 1 = Len(stack) - 2
    BY <1>2
  <1> QED BY <1>1, <1>2, <1>3 DEF Rewrites, Parent, ParentInst

LEMMA BelowTop ==
  ASSUME CInv, Len(stack) > 1
  PROVE  Of(Parent.ty, ParentInst) /\ Copied(Parent, ParentInst, Top, TopInst)
  <1>1. PICK n \in Nat : n = Len(stack)
    BY TopContent
  <1>2. Len(inst) = n /\ n > 1
    BY <1>1, TopContent
  <1>3. n - 1 \in 1..n /\ n - 1 \in 1..(n - 1) /\ (n - 1) + 1 = n
    BY <1>2
  <1>4. Of(stack[n - 1].ty, inst[n - 1])
    BY <1>1, <1>3 DEF CInv, Contents
  <1>5. Copied(stack[n - 1], inst[n - 1], stack[n], inst[n])
    BY <1>1, <1>3 DEF CInv, Copies
  <1> QED BY <1>1, <1>2, <1>4, <1>5 DEF Parent, ParentInst, Top, TopInst

LEMMA EndsRewrite ==
  ASSUME CInv, end_object_nested \/ end_array_list
  PROVE  Rewrites(Len(stack) - 1)
  <1>1. CASE end_object_nested
    <2>1. Len(stack) > 1 /\ Top \in Node /\ Parent \in Node
      BY <1>1, TopOK, ParentOK DEF CInv, Inv, end_object_nested
    <2>2. KeyLeft(Parent, Top) \in Key \cup {NoKey}
      BY <2>1 DEF KeyLeft, Node
    <2>3. Improves(Parent.ty, ParentInst, ObjectInto(Parent, ParentInst, Top, TopInst))
      BY <2>1, BelowTop, TopContent, IntoImproves
    <2> QED BY <1>1, <2>1, <2>2, <2>3, PopRewrites DEF end_object_nested
  <1>2. CASE end_array_list
    <2>1. Len(stack) > 1 /\ Parent \in Node
      BY <1>2, ListPops, ParentOK DEF CInv, Inv, Pops
    <2>2. Parent.map_key \in Key \cup {NoKey}
      BY <2>1 DEF Node
    <2>3. Improves(Parent.ty, ParentInst, ListInto(Parent, ParentInst, Top, TopInst))
      BY <2>1, BelowTop, TopContent, IntoImproves
    <2> QED BY <1>2, <2>1, <2>2, <2>3, PopRewrites DEF end_array_list
  <1> QED BY <1>1, <1>2

LEMMA ScalarRewrites ==
  ASSUME CInv, NEW tok \in Token, set_value(tok)
  PROVE  Rewrites(Len(stack))
  <1>1. PICK n \in Nat : n = Len(stack) /\ n > 0
    BY TopContent
  <1>2. /\ inst' = [inst EXCEPT ![n] = ValueSet(Top, TopInst, tok)] /\ stack' = stack
        /\ IsSeq(inst, n)
    BY <1>1, TopContent DEF set_value, CInv, Inv, StackOK
  <1>3. Agree(inst', inst, n - 1) /\ inst'[n] = ValueSet(Top, TopInst, tok)
    BY <1>1, <1>2, ExceptIsSeq
  <1>4. Improves(Top.ty, TopInst, ValueSet(Top, TopInst, tok))
    BY TopContent, ValueSetImproves
  <1>5. SameNodes(stack', stack, n)
    BY <1>1, <1>2, SameNodesIfAgree DEF CInv, Inv, StackOK, Agree
  <1> QED BY <1>1, <1>2, <1>3, <1>4, <1>5, TopContent DEF Rewrites, Top

LEMMA KeyRewrites ==
  ASSUME CInv, NEW k \in Key, key(k)
  PROVE  Rewrites(Len(stack))
  <1>1. PICK n \in Nat : n = Len(stack) /\ n > 0
    BY TopContent
  <1>2. inst' = inst /\ stack' = [stack EXCEPT ![Len(stack)].map_key = k]
    BY DEF key
  <1>3. Len(stack') = n /\ SameNodes(stack', stack, n)
    BY <1>1, <1>2, MapKeyOK DEF CInv, Inv, StackOK
  <1>4. Improves(stack[n].ty, inst[n], inst[n])
    BY <1>1, SameImproves DEF CInv, Contents
  <1> QED BY <1>1, <1>2, <1>3, <1>4 DEF Rewrites, Agree

LEMMA StayRewrites ==
  ASSUME CInv, Stays
  PROVE  Rewrites(Len(stack))
  <1>1. PICK n \in Nat : n = Len(stack) /\ n > 0
    BY TopContent
  <1>2. inst' = inst /\ stack' = stack
    BY DEF Stays
  <1>3. Len(stack') = n /\ SameNodes(stack', stack, n)
    BY <1>1, <1>2, SameNodesIfAgree DEF CInv, Inv, StackOK, Agree
  <1>4. Improves(stack[n].ty, inst[n], inst[n])
    BY <1>1, SameImproves DEF CInv, Contents
  <1> QED BY <1>1, <1>2, <1>3, <1>4 DEF Rewrites, Agree

LEMMA RestartRewrites ==
  ASSUME CInv, Restarts
  PROVE  Rewrites(1)
  <1>1. stack' = <<RootNode>> /\ inst' = <<inst[1]>>
    BY DEF Restarts
  <1>2. 1 \in 1..Len(stack)
    BY TopContent
  <1>3. Improves(stack[1].ty, inst[1], inst[1])
    BY <1>2, SameImproves DEF CInv, Contents
  <1>4. RootNode = [stack[1] EXCEPT !.map_key = RootNode.map_key]
    <2>1. stack[1] = [RootNode EXCEPT !.map_key = stack[1].map_key]
      BY DEF CInv, Inv, RootKept
    <2> QED BY <2>1 DEF RootNode, ParseNode
  <1>5. Len(stack') = 1 /\ stack'[1] = RootNode /\ inst'[1] = inst[1]
    BY <1>1
  <1>6. SameNodes(stack', stack, 1)
    BY <1>4, <1>5 DEF SameNodes
  <1> QED BY <1>2, <1>3, <1>5, <1>6 DEF Rewrites, Agree

LEMMA EveryStep ==
  ASSUME CInv, Next
  PROVE  PushesCopy \/ \E n : Rewrites(n)
  <1>1. ASSUME Stays
        PROVE  \E n : Rewrites(n)
    BY <1>1, StayRewrites
  <1>2. CASE start_object \/ start_array
    BY <1>1, <1>2, StartsObject, StartsArray
  <1>3. CASE end_object \/ end_array
    <2>1. CASE end_object_root \/ end_array_skipped
      BY <1>1, <2>1 DEF end_object_root, end_array_skipped, Stays
    <2>2. CASE end_object_nested \/ end_array_list
      BY <2>2, EndsRewrite
    <2> QED BY <1>3, <2>1, <2>2 DEF end_object, end_array
  <1>4. CASE \E tok \in Token : set_value(tok)
    BY <1>4, ScalarRewrites
  <1>5. CASE \E k \in Key : key(k)
    BY <1>5, KeyRewrites
  <1>6. CASE null \/ finish \/ parse_error
    BY <1>1, <1>6 DEF null, finish, parse_error, Stays
  <1>7. CASE parse
    BY <1>7, RestartRewrites DEF parse, Restarts
  <1> QED BY <1>2, <1>3, <1>4, <1>5, <1>6, <1>7 DEF Next

LEMMA CInvSteps ==
  ASSUME CInv, Next
  PROVE  CInv' /\ MembersGrow(RootType, inst[1], inst'[1])
  <1>1. Inv'
    BY StepsKeep DEF CInv
  <1>2. StackOK'
    BY <1>1 DEF Inv
  <1>3. CASE PushesCopy
    BY <1>1, <1>2, <1>3, PushesCopyKeep DEF CInv
  <1>4. CASE \E n : Rewrites(n)
    BY <1>1, <1>2, <1>4, RewritesKeep DEF CInv
  <1> QED BY <1>3, <1>4, EveryStep

LEMMA InitCInv == Init => CInv
  <1> SUFFICES ASSUME Init
               PROVE  CInv
    OBVIOUS
  <1>1. Len(stack) = 1 /\ stack[1].ty = RootType /\ inst[1] = Fresh[RootType]
    BY DEF Init, RootNode, ParseNode
  <1>2. Of(RootType, Fresh[RootType])
    BY OfFresh, SchemaAssumption DEF Class
  <1>3. Contents /\ Copies
    BY <1>1, <1>2 DEF Contents, Copies
  <1> QED BY <1>3, InitInv DEF CInv

LEMMA CInvInvariant == Spec => []CInv
  <1>1. CInv /\ [Next]_vars => CInv'
    <2> SUFFICES ASSUME CInv, [Next]_vars
                 PROVE  CInv'
      OBVIOUS
    <2>1. CASE Next
      BY <2>1, CInvSteps
    <2>2. CASE UNCHANGED vars
      BY <2>2 DEF vars, CInv, Inv, DocOK, StackOK, RootKept, Contents, Copies
    <2> QED BY <2>1, <2>2
  <1> QED BY <1>1, InitCInv, PTL DEF Spec

\* Nothing a document says, well-formed or not, takes back what a list or a
\* map of the caller's object holds: a nested value is read on a copy of the
\* member, the copies only grow, and only they are written back.
THEOREM ContainersGrow == Spec => ContainersOnlyGrow
  <1>1. CInv /\ [Next]_vars
        => [\A k \in DOMAIN Meta[RootType] : Grows(Meta[RootType][k], inst[1][k], inst'[1][k])]_vars
    BY CInvSteps DEF MembersGrow
  <1> QED BY <1>1, CInvInvariant, PTL DEF Spec, ContainersOnlyGrow
====
