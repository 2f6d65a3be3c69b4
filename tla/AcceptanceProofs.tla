---- MODULE AcceptanceProofs ----
(***************************************************************************)
(* Which of toBlock's texts from_json accepts: those of the writable       *)
(* objects, and no others, for every registration and every object.        *)
(*                                                                         *)
(* The invariant AInv is RInv of RoundTripProofs with the lexer (Lexed).   *)
(* What the lexer has read last follows from the activation that writes,   *)
(* the one on top (Fits); what each activation has written so far was      *)
(* writable (Lex), and its whole value is when it closes (Sound).  So if   *)
(* the object is writable the lexer is Ready for every token, and if the   *)
(* text is read to its end the object was writable.                        *)
(***************************************************************************)
EXTENDS RoundTripProofs

-----------------------------------------------------------------------------
\* What is writable i levels below the object.
Yes == [t \in TypeId |-> [v \in Content[t] |-> TRUE]]
AbleByLevel(typed, g, n) ==
  [t \in TypeId |-> [v \in Content[t] |-> WritableWith(typed, IF n = 0 THEN Yes ELSE g[n - 1], t, v)]]
Able(typed) == CHOOSE g : g = [n \in 0..MaxDepth |-> AbleByLevel(typed, g, n)]
Sound(typed, i, t, v) == Able(typed)[MaxDepth - i][t][v]

LEMMA AbleExists ==
  ASSUME NEW typed
  PROVE  \E g : g = [n \in 0..MaxDepth |-> AbleByLevel(typed, g, n)]
  <1> DEFINE Upto(g, m) == \A n \in 0..m : g[n] = AbleByLevel(typed, g, n)
             S == {m \in 0..MaxDepth : \E g : Upto(g, m)}
  <1>0. MaxDepth \in Nat
    BY BoundsAssumption
  <1>1. 0 \in S
    <2> DEFINE g == [n \in 0..0 |-> AbleByLevel(typed, <<>>, 0)]
    <2>1. g[0] = AbleByLevel(typed, <<>>, 0)
      OBVIOUS
    <2>2. AbleByLevel(typed, <<>>, 0) = AbleByLevel(typed, g, 0)
      BY DEF AbleByLevel
    <2> HIDE DEF g
    <2>3. Upto(g, 0)
      BY <2>1, <2>2
    <2> QED BY <1>0, <2>3
  <1>2. ASSUME NEW m \in 0..(MaxDepth - 1), m \in S
        PROVE  m + 1 \in S
    <2>1. PICK g : Upto(g, m)
      BY <1>2
    <2> DEFINE h == [n \in 0..(m + 1) |-> IF n = m + 1 THEN AbleByLevel(typed, g, m + 1) ELSE g[n]]
    <2>2. m \in Nat /\ m + 1 \in 0..MaxDepth
      BY <1>0
    <2>3. /\ \A n \in 0..m : h[n] = g[n] /\ n \in 0..(m + 1) 
          /\ h[m + 1] = AbleByLevel(typed, g, m + 1)
      BY <2>2
    <2> HIDE DEF h
    <2>4. ASSUME NEW n \in 0..(m + 1)
          PROVE  AbleByLevel(typed, h, n) = AbleByLevel(typed, g, n)
      <3>1. n # 0 => n - 1 \in 0..m
        BY <2>2
      <3>2. n # 0 => h[n - 1] = g[n - 1]
        BY <3>1, <2>3
      <3> QED BY <3>2 DEF AbleByLevel
    <2>5. \A n \in 0..(m + 1) : n \in 0..m \/ n = m + 1
      BY <2>2
    <2>6. Upto(h, m + 1)
      BY <2>1, <2>3, <2>4, <2>5
    <2> QED BY <2>2, <2>6
  <1> HIDE DEF S
  <1>3. MaxDepth \in S
    <2>1. 0..MaxDepth \subseteq S
      BY <1>0, <1>1, <1>2, UpTo
    <2> QED BY <1>0, <2>1
  <1>4. PICK g : Upto(g, MaxDepth)
    BY <1>3 DEF S
  <1> DEFINE h == [n \in 0..MaxDepth |-> g[n]]
  <1>5. \A n \in 0..MaxDepth : h[n] = g[n] /\ (n # 0 => n - 1 \in 0..MaxDepth)
    BY <1>0
  <1>6. h = [n \in 0..MaxDepth |-> h[n]]
    OBVIOUS
  <1> HIDE DEF h
  <1>7. \A n \in 0..MaxDepth : AbleByLevel(typed, h, n) = AbleByLevel(typed, g, n)
    BY <1>5 DEF AbleByLevel
  <1>8. \A n \in 0..MaxDepth : h[n] = AbleByLevel(typed, h, n)
    BY <1>4, <1>5, <1>7
  <1>9. h = [n \in 0..MaxDepth |-> AbleByLevel(typed, h, n)]
    BY <1>6, <1>8
  <1> QED BY <1>9

LEMMA AbleIs ==
  ASSUME NEW typed
  PROVE  Able(typed) = [n \in 0..MaxDepth |-> AbleByLevel(typed, Able(typed), n)]
  <1> DEFINE P(g) == g = [n \in 0..MaxDepth |-> AbleByLevel(typed, g, n)]
  <1>1. \E g : P(g)
    BY AbleExists
  <1>2. Able(typed) = CHOOSE g : P(g)
    BY DEF Able
  <1> QED BY <1>1, <1>2

\* Whether it is, by what it holds a level further down.
LEMMA SoundIs ==
  ASSUME NEW typed, NEW i \in 1..MaxDepth, NEW t \in TypeId, NEW v \in Content[t], NEW g, g = Able(typed)[MaxDepth - i]
  PROVE  Sound(typed, i - 1, t, v) <=> WritableWith(typed, g, t, v)
  <1>1. MaxDepth \in Nat /\ MaxDepth - (i - 1) \in 0..MaxDepth /\ MaxDepth - (i - 1) # 0
        /\ (MaxDepth - (i - 1)) - 1 = MaxDepth - i
    BY BoundsAssumption
  <1>2. PICK m \in 0..MaxDepth : m = MaxDepth - (i - 1) /\ m # 0 /\ m - 1 = MaxDepth - i
    BY <1>1
  <1>3. Able(typed)[m] = AbleByLevel(typed, Able(typed), m)
    BY AbleIs
  <1>4. AbleByLevel(typed, Able(typed), m)[t][v] = WritableWith(typed, g, t, v)
    BY <1>2 DEF AbleByLevel
  <1> QED BY <1>2, <1>3, <1>4 DEF Sound

LEMMA SoundObject ==
  ASSUME NEW typed, NEW i \in 1..MaxDepth, NEW c \in Class, NEW v \in Content[c]
  PROVE  Sound(typed, i - 1, c, v) <=>
           /\ typed /\ DOMAIN OwnAst[c] = {} => DOMAIN Ast[c] = {}
           /\ \A k \in Answered(c) : Sound(typed, i, Meta[c][k], v[k])
  <1>1. PICK g : g = Able(typed)[MaxDepth - i]
    OBVIOUS
  <1>2. Sound(typed, i - 1, c, v) <=> WritableWith(typed, g, c, v)
    BY <1>1, SoundIs, Apart
  <1>3. \A t, x : Sound(typed, i, t, x) = g[t][x]
    BY <1>1 DEF Sound
  <1>4. WritableWith(typed, g, c, v) <=> /\ typed /\ DOMAIN OwnAst[c] = {} => DOMAIN Ast[c] = {}
                                         /\ \A k \in Answered(c) : g[Meta[c][k]][v[k]]
    BY OneKind DEF WritableWith, Class, List, Map
  <1> QED BY <1>2, <1>3, <1>4

LEMMA SoundList ==
  ASSUME NEW typed, NEW i \in 1..MaxDepth, NEW t \in List, NEW v \in Content[t]
  PROVE  Sound(typed, i - 1, t, v) <=>
           v = <<NullPtr>> \/ \A j \in DOMAIN v : v[j] # NullPtr /\ Sound(typed, i, Elem[t].id, v[j])
  <1>1. PICK g : g = Able(typed)[MaxDepth - i]
    OBVIOUS
  <1>2. Sound(typed, i - 1, t, v) <=> WritableWith(typed, g, t, v)
    BY <1>1, SoundIs, Apart
  <1>3. \A u, x : Sound(typed, i, u, x) = g[u][x]
    BY <1>1 DEF Sound
  <1>4. WritableWith(typed, g, t, v) <=> v = <<NullPtr>> \/ \A j \in DOMAIN v : v[j] # NullPtr /\ g[Elem[t].id][v[j]]
    BY OneKind DEF WritableWith, Class, List, Map
  <1> QED BY <1>2, <1>3, <1>4

LEMMA SoundMap ==
  ASSUME NEW typed, NEW i \in 1..MaxDepth, NEW t \in Map, NEW v \in Content[t]
  PROVE  /\ Elem[t].id \in Asts => (Sound(typed, i - 1, t, v) <=> DOMAIN v = {})
         /\ Elem[t].id \notin Asts =>
              (Sound(typed, i - 1, t, v) <=> \A k \in DOMAIN v : AsRead(k) # Refused /\ Sound(typed, i, Elem[t].id, v[k]))
  <1>1. PICK g : g = Able(typed)[MaxDepth - i]
    OBVIOUS
  <1>2. Sound(typed, i - 1, t, v) <=> WritableWith(typed, g, t, v)
    BY <1>1, SoundIs, Apart
  <1>3. \A u, x : Sound(typed, i, u, x) = g[u][x]
    BY <1>1 DEF Sound
  <1>4. WritableWith(typed, g, t, v) <=>
          IF Elem[t].id \in Asts THEN DOMAIN v = {}
          ELSE \A k \in DOMAIN v : AsRead(k) # Refused /\ g[Elem[t].id][v[k]]
    BY OneKind DEF WritableWith, Class, List, Map
  <1> QED BY <1>2, <1>3, <1>4

\* Of what is neither an object nor a container, a text or variant may not be.
ScalarSound(t, v) == /\ Kind[t] = "var" => VarWritable(v)
                     /\ Kind[t] = "string" => AsRead(v) # Refused

LEMMA SoundScalar ==
  ASSUME NEW typed, NEW i \in 0..MaxDepth, NEW t \in TypeId, NEW v \in Content[t], t \notin Class \cup List \cup Map
  PROVE  Sound(typed, i, t, v) <=> ScalarSound(t, v)
  <1>1. PICK m \in 0..MaxDepth : m = MaxDepth - i
    BY BoundsAssumption
  <1>2. PICK g : g = IF m = 0 THEN Yes ELSE Able(typed)[m - 1]
    OBVIOUS
  <1>3. Able(typed)[m] = AbleByLevel(typed, Able(typed), m)
    BY AbleIs
  <1>4. AbleByLevel(typed, Able(typed), m)[t][v] = WritableWith(typed, g, t, v)
    BY <1>2 DEF AbleByLevel
  <1>5. WritableWith(typed, g, t, v) <=> ScalarSound(t, v)
    BY DEF WritableWith, ScalarSound
  <1> QED BY <1>1, <1>3, <1>4, <1>5 DEF Sound

-----------------------------------------------------------------------------
\* The lexer's part: the token tok takes it from s to s2.
Took(tok, s, s2) ==
  \/ tok = Mark(Brace) /\ s # "given" /\ s2 = "open"
  \/ tok = Mark("[") /\ s # "given" /\ s2 = "open"
  \/ tok = Mark(EndBrace) /\ s # "comma" /\ s2 = "given"
  \/ tok = Mark("]") /\ s # "comma" /\ s2 = "given"
  \/ tok = Mark(CommaSign) /\ s = "given" /\ s2 = "comma"
  \/ tok.t = "key" /\ s \in {"open", "comma"} /\ s2 = "colon"
  \/ tok.t \notin {"mark", "key"} /\ s # "given" /\ s2 = "given"

LEMMA TookIs ==
  ASSUME NEW s, NEW s2
  PROVE  /\ Took(Mark(Brace), s, s2) <=> s # "given" /\ s2 = "open"
         /\ Took(Mark("["), s, s2) <=> s # "given" /\ s2 = "open"
         /\ Took(Mark(EndBrace), s, s2) <=> s # "comma" /\ s2 = "given"
         /\ Took(Mark("]"), s, s2) <=> s # "comma" /\ s2 = "given"
         /\ Took(Comma, s, s2) <=> s = "given" /\ s2 = "comma"
         /\ \A k : Took(KeyOf(k), s, s2) <=> s \in {"open", "comma"} /\ s2 = "colon"
         /\ ~Took(Unlexable, s, s2)
         /\ \A tok : tok.t \notin {"mark", "key"} => (Took(tok, s, s2) <=> s # "given" /\ s2 = "given")
  <1>1. \A m, m2 : Mark(m) = Mark(m2) => m = m2
    BY Tokens
  <1>2. \A m : Mark(m).t = "mark"
    BY Tokens
  <1>3. \A k : KeyOf(k).t = "key"
    BY Tokens
  <1>4. "mark" # "key"
    OBVIOUS
  <1>5. Took(Mark(Brace), s, s2) <=> s # "given" /\ s2 = "open"
    BY <1>1, <1>2, <1>4, Signs DEF Took
  <1>6. Took(Mark("["), s, s2) <=> s # "given" /\ s2 = "open"
    BY <1>1, <1>2, <1>4, Signs DEF Took
  <1>7. Took(Mark(EndBrace), s, s2) <=> s # "comma" /\ s2 = "given"
    BY <1>1, <1>2, <1>4, Signs DEF Took
  <1>8. Took(Mark("]"), s, s2) <=> s # "comma" /\ s2 = "given"
    BY <1>1, <1>2, <1>4, Signs DEF Took
  <1>9. Took(Comma, s, s2) <=> s = "given" /\ s2 = "comma"
    BY <1>1, <1>2, <1>4, Signs DEF Took
  <1>10. \A k : Took(KeyOf(k), s, s2) <=> s \in {"open", "comma"} /\ s2 = "colon"
    BY <1>2, <1>3, <1>4 DEF Took
  <1>11. ~Took(Unlexable, s, s2)
    BY <1>1, <1>2, <1>4, Signs DEF Took
  <1>12. \A tok : tok.t \notin {"mark", "key"} => (Took(tok, s, s2) <=> s # "given" /\ s2 = "given")
    BY <1>2 DEF Took
  <1> QED BY <1>5, <1>6, <1>7, <1>8, <1>9, <1>10, <1>11, <1>12

-----------------------------------------------------------------------------
\* What is known of an activation whose text has been read so far, and, while
\* it is the innermost, of what was read last.

\* An object: behind the type comes a comma only if the class has fields of
\* its own; without it the fields it inherits cannot begin.
Heading(c, typed) == IF typed THEN (IF DOMAIN OwnAst[c] # {} THEN "comma" ELSE "given") ELSE "open"
Stuck(c, typed) == typed /\ DOMAIN OwnAst[c] = {}

ObjectLex(f, typed, i) ==
  /\ \A k \in Answered(f.id) : k \in Ahead(f) \/ (f.pc = "value" /\ k = f.slot) \/ Sound(typed, i, Meta[f.id][k], f.val[k])
  /\ f.pc \in {"type", "type_text", "type_comma"} => typed /\ ~f.comma
  /\ f.pc = "type_comma" => DOMAIN OwnAst[f.id] # {}
  /\ f.pc = "base_comma" => f.comma /\ f.keys # {} /\ f.first
  /\ f.pc \in {"fields", "field"} /\ (f.keys # {} \/ ~f.first) => f.comma
  /\ f.pc \in {"base_comma", "fields", "field"} /\ f.first => f.keys = DOMAIN OwnAst[Own(f)]
  /\ f.pc = "value" => ~f.first /\ f.comma
  /\ Stuck(f.id, typed) => /\ DOMAIN Ast[f.id] \subseteq Ahead(f) /\ f.pc \notin {"type_comma", "base_comma", "value"}
                           /\ f.pc \in {"fields", "field"} => f.first
                           /\ f.comma => f.pc \in {"fields", "field"} /\ f.keys # {}
ObjectSep(f, s, typed) ==
  /\ f.pc = "type" => s = "open"
  /\ f.pc \in {"type_text", "value"} => s = "colon"
  /\ f.pc \in {"type_comma", "base_comma"} => s = "given"
  /\ f.pc = "kvs" => s = IF f.comma THEN "given" ELSE Heading(f.id, typed)
  /\ f.pc = "fields" /\ ~f.first => s = "given"
  /\ f.pc = "fields" /\ f.first /\ f.keys = {} => s = IF f.comma THEN "given" ELSE Heading(f.id, typed)
  /\ f.pc = "fields" /\ f.first /\ f.keys # {} => s \in {Heading(f.id, typed), "comma"}
  /\ f.pc = "field" => s \in {Heading(f.id, typed), "comma"}
  /\ f.pc = "close" => s \in {"open", "given"}
  /\ Stuck(f.id, typed) /\ f.pc \in {"fields", "field"} => s = "given"
ObjectFits(f, s, typed, i) == ObjectLex(f, typed, i) /\ ObjectSep(f, s, typed)

GoalSound(f, typed, i) == Sound(typed, i - 1, f.id, f.val)

LEMMA ObjectParts ==
  ASSUME NEW f, f.id \in Class, ObjectCall(f), NEW x, NEW g, g = To(f, x)
  PROVE  /\ f.ct = f.id /\ f.pc \in ObjectPcs /\ f.comma \in BOOLEAN /\ f.first \in BOOLEAN /\ f.last \in BOOLEAN
         /\ f.val \in Content[f.id] /\ f.at \in Class
         /\ g.id = f.id /\ g.ct = f.ct /\ g.val = f.val /\ g.pc = x /\ g.at = f.at /\ g.last = f.last
         /\ g.comma = f.comma /\ g.keys = f.keys /\ g.slot = f.slot /\ g.first = f.first
         /\ Own(g) = Own(f) /\ Ahead(g) = Ahead(f)
  <1>1. f \in ObjectCalls(f.id)
    BY DEF ObjectCall
  <1>2. /\ f.ct = f.id /\ f.pc \in ObjectPcs /\ f.comma \in BOOLEAN /\ f.first \in BOOLEAN /\ f.last \in BOOLEAN
        /\ f.val \in Content[f.id] /\ f.at \in Class
    BY <1>1 DEF ObjectCalls
  <1>3. /\ g.id = f.id /\ g.ct = f.ct /\ g.val = f.val /\ g.pc = x /\ g.at = f.at /\ g.last = f.last
        /\ g.comma = f.comma /\ g.keys = f.keys /\ g.slot = f.slot /\ g.first = f.first
    BY <1>1 DEF ObjectCalls, To
  <1> QED BY <1>2, <1>3 DEF Own, Ahead

\* An object that is finished is writable.
LEMMA ObjectDone ==
  ASSUME NEW f, NEW typed, NEW i \in 1..MaxDepth, f.id \in Class, ObjectCall(f), ObjectLex(f, typed, i), f.pc = "close"
  PROVE  GoalSound(f, typed, i)
  <1>1. f.val \in Content[f.id] /\ f.pc # "value"
    BY DEF ObjectCall, ObjectCalls
  <1>2. Ahead(f) = {}
    BY DEF ObjectCall, Ahead
  <1>3. \A k \in Answered(f.id) : Sound(typed, i, Meta[f.id][k], f.val[k])
    BY <1>1, <1>2 DEF ObjectLex
  <1>4. typed /\ DOMAIN OwnAst[f.id] = {} => DOMAIN Ast[f.id] = {}
    BY <1>2 DEF ObjectLex, Stuck
  <1> QED BY <1>1, <1>3, <1>4, SoundObject DEF GoalSound

\* The moves of an object that change its place only.
ObjectTurn(f, x, s, s2) ==
  \/ f.pc = "type" /\ x = "type_text" /\ s2 = "colon"
  \/ f.pc = "type_text" /\ x = (IF DOMAIN OwnAst[f.id] # {} THEN "type_comma" ELSE "kvs") /\ s2 = "given"
  \/ f.pc = "type_comma" /\ x = "kvs" /\ s2 = "comma"
  \/ f.pc = "base_comma" /\ x = "fields" /\ s2 = "comma"
  \/ f.pc = "fields" /\ f.keys = {} /\ x = (IF f.last THEN "close" ELSE "kvs") /\ s2 = s
  \/ f.pc = "fields" /\ f.keys # {} /\ f.first /\ x = "field" /\ s2 = s
  \/ f.pc = "fields" /\ f.keys # {} /\ ~f.first /\ x = "field" /\ s2 = "comma"

LEMMA ObjectTurns ==
  ASSUME NEW f, NEW typed, NEW i, NEW s, NEW s2, NEW x, f.id \in Class, ObjectCall(f), ObjectFits(f, s, typed, i),
         ObjectTurn(f, x, s, s2)
  PROVE  ObjectFits(To(f, x), s2, typed, i)
  <1>1. PICK g : g = To(f, x)
    OBVIOUS
  <1>2. /\ f.ct = f.id /\ f.comma \in BOOLEAN /\ f.first \in BOOLEAN /\ f.last \in BOOLEAN
        /\ g.id = f.id /\ g.val = f.val /\ g.pc = x /\ g.last = f.last
        /\ g.comma = f.comma /\ g.keys = f.keys /\ g.slot = f.slot /\ g.first = f.first
        /\ Own(g) = Own(f) /\ Ahead(g) = Ahead(f)
    BY <1>1, ObjectParts
  <1>3. ObjectLex(f, typed, i) /\ ObjectSep(f, s, typed)
    BY DEF ObjectFits
  <1>4. f.pc # "value" /\ x # "value"
    BY DEF ObjectTurn
  <1>5. \A k \in Answered(g.id) : k \in Ahead(g) \/ Sound(typed, i, Meta[g.id][k], g.val[k])
    BY <1>2, <1>3, <1>4 DEF ObjectLex
  <1>6. Stuck(g.id, typed) => /\ DOMAIN Ast[g.id] \subseteq Ahead(g) /\ f.pc \notin {"type_comma", "base_comma"}
                              /\ f.pc \in {"fields", "field"} => g.first
                              /\ g.comma => f.pc \in {"fields", "field"} /\ g.keys # {}
    BY <1>2, <1>3 DEF ObjectLex
  <1>7. ASSUME ObjectLex(g, typed, i), ObjectSep(g, s2, typed)
        PROVE  ObjectFits(To(f, x), s2, typed, i)
    BY <1>1, <1>7 DEF ObjectFits
  <1>8. CASE f.pc = "type" /\ x = "type_text" /\ s2 = "colon"
    <2>1. ObjectLex(g, typed, i)
      BY <1>2, <1>3, <1>4, <1>5, <1>6, <1>8 DEF ObjectLex
    <2>2. ObjectSep(g, s2, typed)
      BY <1>2, <1>3, <1>8 DEF ObjectSep
    <2> QED BY <1>7, <2>1, <2>2
  <1>9. CASE f.pc = "type_text" /\ x = (IF DOMAIN OwnAst[f.id] # {} THEN "type_comma" ELSE "kvs") /\ s2 = "given"
    <2>1. x = "type_comma" => DOMAIN OwnAst[f.id] # {}
      BY <1>9
    <2>2. ObjectLex(g, typed, i)
      BY <1>2, <1>3, <1>4, <1>5, <1>6, <1>9, <2>1 DEF ObjectLex, Stuck
    <2>3. typed /\ ~f.comma
      BY <1>3, <1>9 DEF ObjectLex
    <2>4. x = "kvs" => s2 = Heading(f.id, typed)
      BY <1>9, <2>3 DEF Heading
    <2>5. ObjectSep(g, s2, typed)
      BY <1>2, <1>9, <2>3, <2>4 DEF ObjectSep
    <2> QED BY <1>7, <2>2, <2>5
  <1>10. CASE f.pc = "type_comma" /\ x = "kvs" /\ s2 = "comma"
    <2>1. ObjectLex(g, typed, i)
      BY <1>2, <1>3, <1>4, <1>5, <1>6, <1>10 DEF ObjectLex
    <2>2. typed /\ ~f.comma /\ DOMAIN OwnAst[f.id] # {}
      BY <1>3, <1>10 DEF ObjectLex
    <2>3. s2 = Heading(f.id, typed)
      BY <1>10, <2>2 DEF Heading
    <2>4. ObjectSep(g, s2, typed)
      BY <1>2, <1>10, <2>2, <2>3 DEF ObjectSep
    <2> QED BY <1>7, <2>1, <2>4
  <1>11. CASE f.pc = "base_comma" /\ x = "fields" /\ s2 = "comma"
    <2>1. ObjectLex(g, typed, i)
      BY <1>2, <1>3, <1>4, <1>5, <1>6, <1>11 DEF ObjectLex
    <2>2. f.first /\ f.keys # {} /\ ~Stuck(f.id, typed)
      BY <1>3, <1>11 DEF ObjectLex
    <2>3. ObjectSep(g, s2, typed)
      BY <1>2, <1>11, <2>2 DEF ObjectSep
    <2> QED BY <1>7, <2>1, <2>3
  <1>12. CASE f.pc = "fields" /\ f.keys = {} /\ x = (IF f.last THEN "close" ELSE "kvs") /\ s2 = s
    <2>1. ObjectLex(g, typed, i)
      BY <1>2, <1>3, <1>4, <1>5, <1>6, <1>12 DEF ObjectLex
    <2>2. f.last /\ f.first => DOMAIN OwnAst[f.id] = {}
      BY <1>2, <1>3, <1>12 DEF ObjectLex, Own
    <2>3. f.first => s = IF f.comma THEN "given" ELSE Heading(f.id, typed)
      BY <1>3, <1>12 DEF ObjectSep
    <2>4. ~f.first => s = "given" /\ f.comma
      BY <1>3, <1>12 DEF ObjectSep, ObjectLex
    <2>5. x = "close" => s \in {"open", "given"}
      BY <1>12, <2>2, <2>3, <2>4 DEF Heading
    <2>6. x = "kvs" => s = IF f.comma THEN "given" ELSE Heading(f.id, typed)
      BY <1>12, <2>3, <2>4
    <2>7. ObjectSep(g, s2, typed)
      BY <1>2, <1>12, <2>5, <2>6 DEF ObjectSep
    <2> QED BY <1>7, <2>1, <2>7
  <1>13. CASE f.pc = "fields" /\ f.keys # {} /\ f.first /\ x = "field" /\ s2 = s
    <2>1. ObjectLex(g, typed, i)
      BY <1>2, <1>3, <1>4, <1>5, <1>6, <1>13 DEF ObjectLex
    <2>2. s \in {Heading(f.id, typed), "comma"} /\ (Stuck(f.id, typed) => s = "given")
      BY <1>3, <1>13 DEF ObjectSep
    <2>3. ObjectSep(g, s2, typed)
      BY <1>2, <1>13, <2>2 DEF ObjectSep
    <2> QED BY <1>7, <2>1, <2>3
  <1>14. CASE f.pc = "fields" /\ f.keys # {} /\ ~f.first /\ x = "field" /\ s2 = "comma"
    <2>1. ObjectLex(g, typed, i)
      BY <1>2, <1>3, <1>4, <1>5, <1>6, <1>14 DEF ObjectLex
    <2>2. ~Stuck(f.id, typed)
      BY <1>3, <1>14 DEF ObjectLex
    <2>3. ObjectSep(g, s2, typed)
      BY <1>2, <1>14, <2>2 DEF ObjectSep
    <2> QED BY <1>7, <2>1, <2>3
  <1> QED BY <1>8, <1>9, <1>10, <1>11, <1>12, <1>13, <1>14 DEF ObjectTurn

\* On to the next class of the chain.
LEMMA ObjectBased ==
  ASSUME NEW f, NEW typed, NEW i, NEW s, f.id \in Class, ObjectCall(f), f.pc = "kvs", ObjectFits(f, s, typed, i),
         NEW g, g = Based(f, typed)
  PROVE  ObjectFits(g, s, typed, i) /\ Keeps(g, f) /\ ObjectCall(g)
  <1>1. f \in ObjectCalls(f.id)
    BY DEF ObjectCall
  <1>2. f.ct = f.id /\ f.at \in Class /\ f.comma \in BOOLEAN
    BY <1>1 DEF ObjectCalls
  <1>3. PICK base, own : base = BaseAst[f.at] /\ own = IF base \in Asts THEN base ELSE f.ct
    OBVIOUS
  <1>4. own \in Class
    BY <1>2, <1>3, ClassIs
  <1>5. ObjectCall(g) /\ Ahead(g) = Ahead(f) /\ g.id = f.id /\ g.val = f.val
    BY BasedIs
  <1>6. Shown(own, typed) = DOMAIN OwnAst[own]
    BY <1>4, OwnShown
  <1>7. g = [f EXCEPT !.pc = IF BaseComma(f, own) THEN "base_comma" ELSE "fields",
                      !.at = IF base \in Asts THEN base ELSE f.at, !.last = base \notin Asts,
                      !.comma = f.comma \/ DOMAIN OwnAst[own] # {},
                      !.keys = DOMAIN OwnAst[own], !.first = TRUE]
    BY <1>3, <1>6 DEF Based, BaseOf
  <1>8. /\ g.pc = IF BaseComma(f, own) THEN "base_comma" ELSE "fields"
        /\ g.comma = (f.comma \/ DOMAIN OwnAst[own] # {})
        /\ g.keys = DOMAIN OwnAst[own] /\ g.first = TRUE /\ g.ct = f.ct
        /\ g.last = (base \notin Asts) /\ (base \in Asts => g.at = base)
    BY <1>1, <1>7 DEF ObjectCalls
  <1>9. Own(g) = own
    BY <1>3, <1>8 DEF Own
  <1>10. g.pc = IF f.comma /\ g.keys # {} THEN "base_comma" ELSE "fields"
    BY <1>8 DEF BaseComma
  <1>11. ObjectLex(f, typed, i) /\ s = IF f.comma THEN "given" ELSE Heading(f.id, typed)
    BY DEF ObjectFits, ObjectSep
  <1>12. Stuck(f.id, typed) => ~f.comma /\ DOMAIN Ast[f.id] \subseteq Ahead(f)
    BY <1>11 DEF ObjectLex
  <1>13. \A k \in Answered(f.id) : k \in Ahead(f) \/ Sound(typed, i, Meta[f.id][k], f.val[k])
    BY <1>11 DEF ObjectLex
  <1>14. ObjectLex(g, typed, i)
    BY <1>2, <1>5, <1>8, <1>9, <1>10, <1>12, <1>13 DEF ObjectLex
  <1>15. Stuck(f.id, typed) => s = "given"
    BY <1>11 DEF Stuck, Heading
  <1>16. ObjectSep(g, s, typed)
    BY <1>2, <1>5, <1>8, <1>10, <1>11, <1>15 DEF ObjectSep
  <1> QED BY <1>5, <1>14, <1>16 DEF ObjectFits, Keeps

\* A field is named, and its value written.
LEMMA ObjectNames ==
  ASSUME NEW f, NEW typed, NEW i, NEW s, f.id \in Class, ObjectCall(f), f.pc = "field", ObjectFits(f, s, typed, i),
         s \in {"open", "comma"}, NEW k \in f.keys, NEW g, g = Naming(f, k)
  PROVE  ObjectFits(g, "colon", typed, i) /\ Keeps(g, f)
  <1>1. f \in ObjectCalls(f.id)
    BY DEF ObjectCall
  <1>2. /\ g.id = f.id /\ g.ct = f.ct /\ g.val = f.val /\ g.pc = "value" /\ g.at = f.at /\ g.last = f.last
        /\ g.comma = f.comma /\ g.keys = f.keys \ {k} /\ g.slot = k /\ g.first = FALSE
    BY <1>1 DEF ObjectCalls, Naming
  <1>3. \A x : x \in Ahead(f) => x \in Ahead(g) \/ x = k
    BY <1>2 DEF Ahead
  <1>4. ObjectLex(f, typed, i) /\ ~Stuck(f.id, typed)
    BY DEF ObjectFits, ObjectSep
  <1>5. \A x \in Answered(f.id) : x \in Ahead(g) \/ x = k \/ Sound(typed, i, Meta[f.id][x], f.val[x])
    BY <1>3, <1>4 DEF ObjectLex
  <1>6. f.comma
    BY <1>4 DEF ObjectLex
  <1>7. ObjectLex(g, typed, i)
    BY <1>2, <1>4, <1>5, <1>6 DEF ObjectLex
  <1>8. ObjectSep(g, "colon", typed)
    BY <1>2 DEF ObjectSep
  <1> QED BY <1>2, <1>7, <1>8 DEF ObjectFits, Keeps

LEMMA ObjectReturns ==
  ASSUME NEW f, NEW typed, NEW i, f.id \in Class, ObjectCall(f), f.pc = "value", ObjectLex(f, typed, i),
         f.slot \in Answered(f.id) => Sound(typed, i, Meta[f.id][f.slot], f.val[f.slot]), NEW g, g = Returned(f)
  PROVE  ObjectFits(g, "given", typed, i) /\ Keeps(g, f)
  <1>1. f \in ObjectCalls(f.id)
    BY DEF ObjectCall
  <1>2. g = To(f, "fields")
    BY OneKind DEF Returned, To
  <1>3. /\ g.id = f.id /\ g.val = f.val /\ g.pc = "fields" /\ g.comma = f.comma /\ g.keys = f.keys /\ g.first = f.first
        /\ g.slot = f.slot /\ Ahead(g) = Ahead(f)
    BY <1>2, ObjectParts
  <1>4. f.comma /\ ~f.first /\ ~Stuck(f.id, typed)
    BY DEF ObjectLex
  <1>5. \A x \in Answered(f.id) : x \in Ahead(f) \/ Sound(typed, i, Meta[f.id][x], f.val[x])
    BY DEF ObjectLex
  <1>6. ObjectLex(g, typed, i)
    BY <1>3, <1>4, <1>5 DEF ObjectLex
  <1>7. ObjectSep(g, "given", typed)
    BY <1>3, <1>4 DEF ObjectSep
  <1> QED BY <1>3, <1>6, <1>7 DEF ObjectFits, Keeps

LEMMA ObjectBegins ==
  ASSUME NEW c \in Class, NEW val, NEW typed, NEW i, NEW g, g = Object(c, val, typed)
  PROVE  ObjectFits(g, "open", typed, i)
  <1>1. /\ g.id = c /\ g.ct = c /\ g.val = val /\ g.pc = (IF typed THEN "type" ELSE "kvs") /\ g.at = c /\ g.last = FALSE
        /\ g.comma = FALSE /\ g.keys = {} /\ g.slot = NoKey /\ g.first = TRUE
    BY DEF Object
  <1>2. DOMAIN Ast[c] \subseteq Ahead(g)
    BY <1>1, ClassIs DEF Ahead
  <1>3. Answered(c) \subseteq DOMAIN Ast[c]
    BY DEF Answered
  <1>4. ObjectLex(g, typed, i)
    BY <1>1, <1>2, <1>3 DEF ObjectLex
  <1>5. ~typed => Heading(c, typed) = "open"
    BY DEF Heading
  <1>6. ObjectSep(g, "open", typed)
    BY <1>1, <1>5 DEF ObjectSep, Stuck
  <1> QED BY <1>4, <1>6 DEF ObjectFits

-----------------------------------------------------------------------------
\* A list: all but the last element it has passed are writable, and the last
\* one too unless it is a null pointer, which nothing was written of.
ListLex(f, typed, i) ==
  \A j \in 1..(f.next - 1) :
    \/ j = f.next - 1 /\ f.pc # "value" /\ f.val[j] = NullPtr
    \/ f.val[j] # NullPtr /\ Sound(typed, i, Elem[f.id].id, f.val[j])
ListSep(f, s) ==
  IF f.pc = "value" THEN s = (IF f.next = 1 THEN "open" ELSE "comma")
  ELSE /\ f.next = 1 => s = "open"
       /\ f.next > 1 /\ f.val[f.next - 1] # NullPtr => s = "given"
       /\ f.next > 1 /\ f.val[f.next - 1] = NullPtr => s = IF f.next = 2 THEN "open" ELSE "comma"
ListFits(f, s, typed, i) == ListLex(f, typed, i) /\ ListSep(f, s)

LEMMA ListParts ==
  ASSUME NEW f, f.id \in List, ListCall(f)
  PROVE  /\ f.pc \in {"elems", "value", "close"} /\ f.next \in Nat /\ f.next > 0 /\ f.val \in Content[f.id]
         /\ Len(f.val) \in Nat /\ f.next <= Len(f.val) + 1 /\ IsSeq(f.val, Len(f.val))
         /\ f.pc = "value" => f.next <= Len(f.val)
         /\ f.pc = "close" => f.next = Len(f.val) + 1
         /\ \A x : /\ To(f, x).id = f.id /\ To(f, x).val = f.val /\ To(f, x).pc = x /\ To(f, x).next = f.next
         /\ Returned(f).id = f.id /\ Returned(f).val = f.val /\ Returned(f).pc = "elems" /\ Returned(f).next = f.next + 1
  <1>1. f \in ListCalls(f.id)
    BY DEF ListCall
  <1>2. f.pc \in {"elems", "value", "close"} /\ f.next \in Nat /\ f.next > 0 /\ f.val \in Content[f.id]
    BY <1>1 DEF ListCalls
  <1>3. Len(f.val) \in Nat /\ IsSeq(f.val, Len(f.val))
    BY <1>2, ListContent
  <1>4. \A x : /\ To(f, x).id = f.id /\ To(f, x).val = f.val /\ To(f, x).pc = x /\ To(f, x).next = f.next
    BY <1>1 DEF ListCalls, To
  <1>5. Returned(f) = [f EXCEPT !.pc = "elems", !.next = f.next + 1]
    BY OneKind DEF Returned
  <1>6. Returned(f).id = f.id /\ Returned(f).val = f.val /\ Returned(f).pc = "elems" /\ Returned(f).next = f.next + 1
    BY <1>1, <1>5 DEF ListCalls
  <1>7. /\ f.next <= Len(f.val) + 1
        /\ f.pc = "value" => f.next <= Len(f.val)
        /\ f.pc = "close" => f.next = Len(f.val) + 1
    BY DEF ListCall
  <1> QED BY <1>2, <1>3, <1>4, <1>6, <1>7

LEMMA ListDone ==
  ASSUME NEW f, NEW typed, NEW i \in 1..MaxDepth, NEW s, f.id \in List, ListCall(f), ListFits(f, s, typed, i), f.pc = "close",
         s # "comma"
  PROVE  GoalSound(f, typed, i) /\ s \in {"open", "given"}
  <1>1. PICK v, m, e : v = f.val /\ m = Len(v) /\ e = Elem[f.id].id
    OBVIOUS
  <1>2. m \in Nat /\ f.next = m + 1 /\ IsSeq(v, m) /\ v \in Content[f.id] /\ f.next - 1 = m
    BY <1>1, ListParts
  <1>3. \A j \in 1..m : (j = m /\ v[j] = NullPtr) \/ (v[j] # NullPtr /\ Sound(typed, i, e, v[j]))
    BY <1>1, <1>2 DEF ListFits, ListLex
  <1>4. /\ m = 0 => s = "open"
        /\ m > 0 /\ v[m] # NullPtr => s = "given"
        /\ m > 0 /\ v[m] = NullPtr => s = IF m = 1 THEN "open" ELSE "comma"
    <2>1. ListSep(f, s) /\ f.pc # "value"
      BY DEF ListFits
    <2>2. /\ f.next = 1 => s = "open"
          /\ f.next > 1 /\ v[m] # NullPtr => s = "given"
          /\ f.next > 1 /\ v[m] = NullPtr => s = IF f.next = 2 THEN "open" ELSE "comma"
      BY <1>1, <1>2, <2>1 DEF ListSep
    <2>3. (f.next = 1 <=> m = 0) /\ (f.next > 1 <=> m > 0) /\ (f.next = 2 <=> m = 1)
      BY <1>2
    <2> QED BY <2>2, <2>3
  <1>5. DOMAIN v = 1..m
    BY <1>2 DEF IsSeq
  <1>6. Sound(typed, i - 1, f.id, v) <=> v = <<NullPtr>> \/ \A j \in DOMAIN v : v[j] # NullPtr /\ Sound(typed, i, e, v[j])
    <2>1. PICK t : t = f.id
      OBVIOUS
    <2>2. t \in List /\ v \in Content[t] /\ e = Elem[t].id
      BY <1>1, <1>2, <2>1
    <2>3. Sound(typed, i - 1, t, v) <=> v = <<NullPtr>> \/ \A j \in DOMAIN v : v[j] # NullPtr /\ Sound(typed, i, Elem[t].id, v[j])
      BY <2>2, SoundList
    <2> QED BY <2>1, <2>2, <2>3
  <1>7. CASE m > 0 /\ v[m] = NullPtr
    <2>1. m = 1
      BY <1>4, <1>7
    <2>2. v = <<NullPtr>>
      BY <1>2, <1>7, <2>1 DEF IsSeq
    <2> QED BY <1>1, <1>4, <1>6, <1>7, <2>1, <2>2 DEF GoalSound
  <1>8. CASE ~(m > 0 /\ v[m] = NullPtr)
    <2>1. \A j \in 1..m : v[j] # NullPtr /\ Sound(typed, i, e, v[j])
      BY <1>2, <1>3, <1>8
    <2> QED BY <1>1, <1>2, <1>4, <1>5, <1>6, <1>8, <2>1 DEF GoalSound
  <1> QED BY <1>7, <1>8

\* The moves of a list that change its place only, and those past an element.
LEMMA ListTurns ==
  ASSUME NEW f, NEW typed, NEW i, NEW s, f.id \in List, ListCall(f), f.pc = "elems", ListFits(f, s, typed, i)
  PROVE  /\ f.next > Len(f.val) => ListFits(To(f, "close"), s, typed, i)
         /\ f.next = 1 => ListFits(To(f, "value"), s, typed, i)
         /\ f.next > 1 /\ s = "given" => ListFits(To(f, "value"), "comma", typed, i)
  <1>1. PICK v, n, e : v = f.val /\ n = f.next /\ e = Elem[f.id].id /\ n \in Nat /\ n > 0
    BY ListParts
  <1>2. \A x : To(f, x).id = f.id /\ To(f, x).val = v /\ To(f, x).pc = x /\ To(f, x).next = n
    BY <1>1, ListParts
  <1>3. \A j \in 1..(n - 1) : (j = n - 1 /\ v[j] = NullPtr) \/ (v[j] # NullPtr /\ Sound(typed, i, e, v[j]))
    BY <1>1 DEF ListFits, ListLex
  <1>4. /\ n = 1 => s = "open"
        /\ n > 1 /\ v[n - 1] # NullPtr => s = "given"
        /\ n > 1 /\ v[n - 1] = NullPtr => s = IF n = 2 THEN "open" ELSE "comma"
    BY <1>1 DEF ListFits, ListSep
  <1>5. ListFits(To(f, "close"), s, typed, i)
    <2>1. ListLex(To(f, "close"), typed, i)
      BY <1>1, <1>2, <1>3 DEF ListLex
    <2>2. ListSep(To(f, "close"), s)
      BY <1>2, <1>4 DEF ListSep
    <2> QED BY <2>1, <2>2 DEF ListFits
  <1>6. ASSUME n = 1 PROVE ListFits(To(f, "value"), s, typed, i)
    BY <1>1, <1>2, <1>4, <1>6 DEF ListFits, ListLex, ListSep
  <1>7. ASSUME n > 1, s = "given" PROVE ListFits(To(f, "value"), "comma", typed, i)
    <2>1. v[n - 1] # NullPtr
      BY <1>4, <1>7
    <2>2. \A j \in 1..(n - 1) : v[j] # NullPtr /\ Sound(typed, i, e, v[j])
      BY <1>3, <2>1
    <2>3. ListLex(To(f, "value"), typed, i)
      BY <1>1, <1>2, <2>2 DEF ListLex
    <2>4. ListSep(To(f, "value"), "comma")
      BY <1>1, <1>2, <1>7 DEF ListSep
    <2> QED BY <2>3, <2>4 DEF ListFits
  <1> QED BY <1>1, <1>5, <1>6, <1>7

LEMMA ListReturns ==
  ASSUME NEW f, NEW typed, NEW i, NEW s, NEW x, f.id \in List, ListCall(f), f.pc = "value", x = f.val[f.next], ListLex(f, typed, i),
         NEW s2, \/ x = NullPtr /\ ListSep(f, s) /\ s2 = s
                 \/ x # NullPtr /\ Sound(typed, i, Elem[f.id].id, x) /\ s2 = "given"
  PROVE  ListFits(Returned(f), s2, typed, i) /\ Keeps(Returned(f), f)
  <1>1. PICK v, n, e, g : v = f.val /\ n = f.next /\ e = Elem[f.id].id /\ n \in Nat /\ n > 0 /\ g = Returned(f)
    BY ListParts
  <1>2. g.id = f.id /\ g.val = v /\ g.pc = "elems" /\ g.next = n + 1
    BY <1>1, ListParts
  <1>3. \A j \in 1..(n - 1) : v[j] # NullPtr /\ Sound(typed, i, e, v[j])
    BY <1>1 DEF ListLex
  <1>4. \A j \in 1..n : j = n \/ j \in 1..(n - 1)
    BY <1>1
  <1>5. (n + 1) - 1 = n
    BY <1>1
  <1>6. ListLex(g, typed, i)
    BY <1>1, <1>2, <1>3, <1>4, <1>5 DEF ListLex
  <1>7. ListSep(g, s2)
    <2>1. x = NullPtr => s2 = IF n = 1 THEN "open" ELSE "comma"
      BY <1>1 DEF ListSep
    <2>2. n + 1 # 1 /\ n + 1 > 1 /\ (n + 1 = 2 <=> n = 1)
      BY <1>1
    <2> QED BY <1>1, <1>2, <1>5, <2>1, <2>2 DEF ListSep
  <1> QED BY <1>1, <1>2, <1>6, <1>7 DEF ListFits, Keeps

LEMMA ListBegins ==
  ASSUME NEW t, NEW ct, NEW val, NEW typed, NEW i
  PROVE  ListFits(ListOf(t, ct, val), "open", typed, i)
  BY DEF ListOf, ListFits, ListLex, ListSep

-----------------------------------------------------------------------------
\* A map: of objects none has been written, of other values writable ones.
MapLex(f, typed, i) ==
  /\ Elem[f.id].id \in Asts /\ f.pc # "object" => f.keys = DOMAIN f.val
  /\ Elem[f.id].id \notin Asts =>
       \A k \in DOMAIN f.val \ f.keys :
         AsRead(k) # Refused /\ ((f.pc = "value" /\ k = f.slot) \/ Sound(typed, i, Elem[f.id].id, f.val[k]))
  /\ f.pc = "value" => ~f.first
MapSep(f, s) ==
  /\ f.pc = "entries" => s = IF f.first THEN "open" ELSE "given"
  /\ f.pc = "entry" => s = IF f.first THEN "open" ELSE "comma"
  /\ f.pc = "value" => s = "colon"
  /\ f.pc = "close" => s \in {"open", "given"}
MapFits(f, s, typed, i) == MapLex(f, typed, i) /\ MapSep(f, s)

LEMMA MapParts ==
  ASSUME NEW f, f.id \in Map, MapCall(f)
  PROVE  /\ f.pc \in {"entries", "entry", "object", "value", "close"} /\ f.val \in Content[f.id] /\ f.first \in BOOLEAN
         /\ f.keys \subseteq DOMAIN f.val /\ f.keys \subseteq Key
         /\ f.pc = "close" => f.keys = {}
         /\ f.pc = "entry" => f.keys # {}
         /\ f.pc = "value" => Elem[f.id].id \notin Asts /\ f.slot \in DOMAIN f.val
         /\ \A x : /\ To(f, x).id = f.id /\ To(f, x).val = f.val /\ To(f, x).pc = x /\ To(f, x).keys = f.keys
                   /\ To(f, x).first = f.first /\ To(f, x).slot = f.slot
         /\ Returned(f) = To(f, "entries")
  <1>1. f \in MapCalls(f.id)
    BY DEF MapCall
  <1>2. /\ f.pc \in {"entries", "entry", "object", "value", "close"} /\ f.val \in Content[f.id] /\ f.first \in BOOLEAN
        /\ f.keys \subseteq Key
    BY <1>1 DEF MapCalls
  <1>3. \A x : /\ To(f, x).id = f.id /\ To(f, x).val = f.val /\ To(f, x).pc = x /\ To(f, x).keys = f.keys
               /\ To(f, x).first = f.first /\ To(f, x).slot = f.slot
    BY <1>1 DEF MapCalls, To
  <1>4. Returned(f) = To(f, "entries")
    BY OneKind DEF Returned, To
  <1>5. /\ f.keys \subseteq DOMAIN f.val
        /\ f.pc = "close" => f.keys = {}
        /\ f.pc = "entry" => f.keys # {}
        /\ f.pc = "value" => Elem[f.id].id \notin Asts /\ f.slot \in DOMAIN f.val
    BY DEF MapCall
  <1> QED BY <1>2, <1>3, <1>4, <1>5

LEMMA MapDone ==
  ASSUME NEW f, NEW typed, NEW i \in 1..MaxDepth, f.id \in Map, MapCall(f), MapLex(f, typed, i), f.pc = "close"
  PROVE  GoalSound(f, typed, i)
  <1>1. PICK t, v : t = f.id /\ v = f.val
    OBVIOUS
  <1>2. t \in Map /\ v \in Content[t] /\ f.keys = {}
    BY <1>1, MapParts
  <1>3. Elem[t].id \in Asts => DOMAIN v = {}
    BY <1>1, <1>2 DEF MapLex
  <1>4. Elem[t].id \notin Asts => \A k \in DOMAIN v : AsRead(k) # Refused /\ Sound(typed, i, Elem[t].id, v[k])
    BY <1>1, <1>2 DEF MapLex
  <1>5. Sound(typed, i - 1, t, v)
    BY <1>2, <1>3, <1>4, SoundMap
  <1> QED BY <1>1, <1>5 DEF GoalSound

\* The moves of a map that change its place only.
MapTurn(f, x, s, s2) ==
  \/ f.pc = "entries" /\ f.keys = {} /\ x = "close" /\ s2 = s
  \/ f.pc = "entries" /\ f.first /\ x = "entry" /\ s2 = s
  \/ f.pc = "entries" /\ ~f.first /\ x = "entry" /\ s2 = "comma"

LEMMA MapTurns ==
  ASSUME NEW f, NEW typed, NEW i, NEW s, NEW s2, NEW x, f.id \in Map, MapCall(f), MapFits(f, s, typed, i), MapTurn(f, x, s, s2)
  PROVE  MapFits(To(f, x), s2, typed, i) /\ Keeps(To(f, x), f)
  <1>1. PICK g : g = To(f, x)
    OBVIOUS
  <1>2. /\ g.id = f.id /\ g.val = f.val /\ g.pc = x /\ g.keys = f.keys /\ g.first = f.first /\ g.slot = f.slot
        /\ f.first \in BOOLEAN
    BY <1>1, MapParts
  <1>3. x \in {"close", "entry"} /\ f.pc = "entries"
    BY DEF MapTurn
  <1>4. MapLex(g, typed, i)
    BY <1>2, <1>3 DEF MapFits, MapLex
  <1>5. s = IF f.first THEN "open" ELSE "given"
    BY <1>3 DEF MapFits, MapSep
  <1>6. MapSep(g, s2)
    BY <1>2, <1>3, <1>5 DEF MapTurn, MapSep
  <1> QED BY <1>1, <1>2, <1>4, <1>6 DEF MapFits, Keeps

LEMMA MapNames ==
  ASSUME NEW f, NEW typed, NEW i, f.id \in Map, MapCall(f), f.pc = "entry", MapLex(f, typed, i), Elem[f.id].id \notin Asts,
         NEW k \in f.keys, AsRead(k) # Refused, NEW g, g = Naming(f, k)
  PROVE  MapFits(g, "colon", typed, i) /\ Keeps(g, f)
  <1>1. f \in MapCalls(f.id)
    BY DEF MapCall
  <1>2. /\ g.id = f.id /\ g.val = f.val /\ g.pc = "value" /\ g.keys = f.keys \ {k} /\ g.slot = k /\ g.first = FALSE
    BY <1>1 DEF MapCalls, Naming
  <1>3. MapLex(g, typed, i)
    BY <1>2 DEF MapLex
  <1>4. MapSep(g, "colon")
    BY <1>2 DEF MapSep
  <1> QED BY <1>2, <1>3, <1>4 DEF MapFits, Keeps

\* On to a value without a key.
LEMMA MapFetches ==
  ASSUME NEW f, NEW typed, NEW i, NEW s, f.id \in Map, MapCall(f), f.pc = "entry", Elem[f.id].id \in Asts,
         NEW k, NEW g, g = [f EXCEPT !.pc = "object", !.slot = k, !.keys = @ \ {k}, !.first = FALSE]
  PROVE  MapFits(g, s, typed, i) /\ Keeps(g, f)
  <1>1. f \in MapCalls(f.id)
    BY DEF MapCall
  <1>2. g.id = f.id /\ g.val = f.val /\ g.pc = "object"
    BY <1>1 DEF MapCalls
  <1> QED BY <1>2 DEF MapFits, MapLex, MapSep, Keeps

LEMMA MapReturns ==
  ASSUME NEW f, NEW typed, NEW i, f.id \in Map, MapCall(f), f.pc = "value", MapLex(f, typed, i),
         Sound(typed, i, Elem[f.id].id, f.val[f.slot]), NEW g, g = Returned(f)
  PROVE  MapFits(g, "given", typed, i) /\ Keeps(g, f)
  <1>1. /\ g.id = f.id /\ g.val = f.val /\ g.pc = "entries" /\ g.keys = f.keys /\ g.first = f.first /\ g.slot = f.slot
        /\ Elem[f.id].id \notin Asts
    BY MapParts
  <1>2. ~f.first
    BY DEF MapLex
  <1>3. MapLex(g, typed, i)
    BY <1>1 DEF MapLex
  <1>4. MapSep(g, "given")
    BY <1>1, <1>2 DEF MapSep
  <1> QED BY <1>1, <1>3, <1>4 DEF MapFits, Keeps

LEMMA MapBegins ==
  ASSUME NEW t, NEW ct, NEW val, NEW typed, NEW i, NEW g, g = MapOf(t, ct, val)
  PROVE  MapFits(g, "open", typed, i)
  <1>1. g.id = t /\ g.val = val /\ g.pc = "entries" /\ g.keys = DOMAIN val /\ g.first = TRUE
    BY DEF MapOf
  <1> QED BY <1>1 DEF MapFits, MapLex, MapSep

-----------------------------------------------------------------------------
\* An activation, whatever it writes.
Formed(f) == \/ f.id \in Class /\ ObjectCall(f)
             \/ f.id \in List /\ ListCall(f)
             \/ f.id \in Map /\ MapCall(f)
Lex(f, typed, i) == \/ f.id \in Class /\ ObjectLex(f, typed, i)
                    \/ f.id \in List /\ ListLex(f, typed, i)
                    \/ f.id \in Map /\ MapLex(f, typed, i)
Fits(f, s, typed, i) == \/ f.id \in Class /\ ObjectFits(f, s, typed, i)
                        \/ f.id \in List /\ ListFits(f, s, typed, i)
                        \/ f.id \in Map /\ MapFits(f, s, typed, i)

LEMMA FormedIs ==
  ASSUME NEW f, NEW d, NEW nd, NEW v, NEW i, At(f, d, nd, v, i)
  PROVE  Formed(f) /\ f.id \in TypeId
  BY DEF At, ObjectAt, ListAt, MapAt, Formed

LEMMA FitsIs ==
  ASSUME NEW f, NEW s, NEW typed, NEW i, Fits(f, s, typed, i)
  PROVE  Lex(f, typed, i)
  BY DEF Fits, Lex, ObjectFits, ListFits, MapFits

\* A move on the level of f that leaves the lexer at s.
Passes(m, a, f, s, typed, i) == \E g : m.calls = OnTop(a, g) /\ Keeps(g, f) /\ Fits(g, s, typed, i)

LEMMA GoesPasses ==
  ASSUME NEW a, NEW f, NEW typed, NEW i, NEW s, NEW g, NEW x, Keeps(g, f), Fits(g, s, typed, i)
  PROVE  Passes(Goes(a, g), a, f, s, typed, i) /\ Passes(Writes(a, x, g), a, f, s, typed, i)
  BY NoToken, TokenOut DEF Passes

\* What an object, a list and a map do without a token.
LEMMA ObjectPasses ==
  ASSUME NEW a, NEW f, NEW typed, NEW i, NEW s, Last(a) = f, f.id \in Class, ObjectCall(f), ObjectFits(f, s, typed, i),
         Move(a, typed).out = <<>>
  PROVE  Passes(Move(a, typed), a, f, s, typed, i)
  <1>1. f \in ObjectCalls(f.id) /\ f.pc \in ObjectPcs
    BY DEF ObjectCall, ObjectCalls
  <1>2. ASSUME NEW x, NEW g, Move(a, typed) = Writes(a, x, g)
        PROVE  FALSE
    BY <1>2, SomeToken
  <1>3. ASSUME NEW x, Move(a, typed) = Goes(a, To(f, x)), ObjectTurn(f, x, s, s)
        PROVE  Passes(Move(a, typed), a, f, s, typed, i)
    <2>1. ObjectFits(To(f, x), s, typed, i)
      BY <1>3, ObjectTurns
    <2>2. To(f, x).id = f.id /\ To(f, x).val = f.val
      BY <1>1 DEF To, ObjectCalls
    <2>3. Fits(To(f, x), s, typed, i) /\ Keeps(To(f, x), f)
      BY <2>1, <2>2 DEF Fits, Keeps
    <2> QED BY <1>3, <2>3, GoesPasses
  <1>4. CASE f.pc \in {"type", "type_text", "type_comma"}
    <2>1. Move(a, typed) = EnvelopeMove(a, f)
      BY <1>4 DEF Move
    <2> QED BY <1>2, <1>4, <2>1 DEF EnvelopeMove
  <1>5. CASE f.pc = "kvs"
    <2>1. Move(a, typed) = KvsMove(a, f, typed)
      BY <1>5 DEF Move
    <2>2. PICK g : g = Based(f, typed)
      OBVIOUS
    <2>3. KvsMove(a, f, typed) = Goes(a, g)
      BY <1>5, <2>2 DEF KvsMove, Based
    <2>4. ObjectFits(g, s, typed, i) /\ Keeps(g, f)
      BY <1>5, <2>2, ObjectBased
    <2>5. Fits(g, s, typed, i)
      BY <2>4 DEF Fits, Keeps
    <2> QED BY <2>1, <2>3, <2>4, <2>5, GoesPasses
  <1>6. CASE f.pc = "base_comma"
    <2>1. Move(a, typed) = KvsMove(a, f, typed)
      BY <1>6 DEF Move
    <2> QED BY <1>2, <1>6, <2>1 DEF KvsMove
  <1>7. CASE f.pc \in {"fields", "field"}
    <2>1. Move(a, typed) = FieldsMove(a, f)
      BY <1>7 DEF Move
    <2>2. CASE f.pc = "field"
      BY <1>2, <2>1, <2>2 DEF FieldsMove, Named
    <2>3. CASE f.pc = "fields" /\ f.keys = {}
      <3>1. PICK x : x = IF f.last THEN "close" ELSE "kvs"
        OBVIOUS
      <3>2. FieldsMove(a, f) = Goes(a, To(f, x))
        BY <2>3, <3>1 DEF FieldsMove, To
      <3>3. ObjectTurn(f, x, s, s)
        BY <2>3, <3>1 DEF ObjectTurn
      <3> QED BY <1>3, <2>1, <3>2, <3>3
    <2>4. CASE f.pc = "fields" /\ f.keys # {} /\ ~f.first
      BY <1>2, <2>1, <2>4 DEF FieldsMove
    <2>5. CASE f.pc = "fields" /\ f.keys # {} /\ f.first
      <3>1. FieldsMove(a, f) = Goes(a, To(f, "field"))
        BY <2>5 DEF FieldsMove, To
      <3>2. ObjectTurn(f, "field", s, s)
        BY <2>5 DEF ObjectTurn
      <3> QED BY <1>3, <2>1, <3>1, <3>2
    <2> QED BY <1>7, <2>2, <2>3, <2>4, <2>5
  <1>8. CASE f.pc = "value"
    <2>1. PICK t : t = Meta[f.id][f.slot]
      OBVIOUS
    <2>2. CASE t \in List
      BY <1>8, <2>1, <2>2, MemberMove, SomeToken
    <2>3. CASE t \in Map
      BY <1>8, <2>1, <2>3, MemberMove, SomeToken
    <2>4. CASE t \in Class
      BY <1>8, <2>1, <2>4, MemberMove, SomeToken
    <2>5. CASE t \notin List \cup Map \cup Class
      BY <1>8, <2>1, <2>5, MemberMove, SomeToken
    <2> QED BY <2>2, <2>3, <2>4, <2>5
  <1>9. CASE f.pc = "close"
    <2>1. Move(a, typed) = CloseMove(a, f)
      BY <1>9 DEF Move
    <2> QED BY <2>1, BracketOut
  <1> QED BY <1>1, <1>4, <1>5, <1>6, <1>7, <1>8, <1>9 DEF ObjectPcs, AtTheHead

LEMMA ListPasses ==
  ASSUME NEW a, NEW f, NEW typed, NEW i, NEW s, Last(a) = f, f.id \in List, ListCall(f), ListFits(f, s, typed, i),
         Move(a, typed).out = <<>>
  PROVE  Passes(Move(a, typed), a, f, s, typed, i)
  <1>1. f.pc \in {"elems", "value", "close"} /\ f.next \in Nat /\ f.next > 0 /\ Len(f.val) \in Nat
    BY ListParts
  <1>2. ASSUME NEW x, NEW g, Move(a, typed) = Writes(a, x, g) \/ Move(a, typed) = Enters(a, x, g)
        PROVE  FALSE
    BY <1>2, SomeToken
  <1>3. ASSUME NEW g, Move(a, typed) = Goes(a, g), ListFits(g, s, typed, i), Keeps(g, f)
        PROVE  Passes(Move(a, typed), a, f, s, typed, i)
    <2>1. Fits(g, s, typed, i)
      BY <1>3 DEF Fits, Keeps
    <2> QED BY <1>3, <2>1, GoesPasses
  <1>4. \A x : Keeps(To(f, x), f)
    BY ListParts DEF Keeps
  <1>5. CASE f.pc = "elems"
    <2>1. Move(a, typed) = ListMove(a, f)
      BY <1>5 DEF Move
    <2>2. CASE f.next > Len(f.val)
      <3>1. ListMove(a, f) = Goes(a, To(f, "close"))
        BY <1>1, <2>2 DEF ListMove, To
      <3>2. ListFits(To(f, "close"), s, typed, i)
        BY <1>5, <2>2, ListTurns
      <3> QED BY <1>3, <1>4, <2>1, <3>1, <3>2
    <2>3. CASE f.next <= Len(f.val) /\ f.next > 1
      <3>1. ListMove(a, f) = Writes(a, Comma, [f EXCEPT !.pc = "value"])
        BY <1>1, <2>3 DEF ListMove
      <3> QED BY <1>2, <2>1, <3>1
    <2>4. CASE f.next <= Len(f.val) /\ ~(f.next > 1)
      <3>1. ListMove(a, f) = Goes(a, To(f, "value"))
        BY <1>1, <2>4 DEF ListMove, To
      <3>2. f.next = 1
        BY <1>1, <2>4
      <3>3. ListFits(To(f, "value"), s, typed, i)
        BY <1>5, <3>2, ListTurns
      <3> QED BY <1>3, <1>4, <2>1, <3>1, <3>3
    <2> QED BY <1>1, <2>2, <2>3, <2>4
  <1>6. CASE f.pc = "value"
    <2>1. PICK e, x : e = Elem[f.id].id /\ x = Element(f)
      OBVIOUS
    <2>2. Elemental(f)
      BY DEF Elemental
    <2>3. CASE x # NullPtr
      <3>1. CASE e \in List
        BY <1>2, <1>6, <2>1, <2>2, <3>1, ElementMove
      <3>2. CASE e \in Class
        BY <1>2, <1>6, <2>1, <2>2, <2>3, <3>2, ElementMove
      <3>3. CASE e \notin Class \cup List
        BY <1>2, <1>6, <2>1, <2>2, <3>3, ElementMove
      <3> QED BY <3>1, <3>2, <3>3
    <2>4. CASE x = NullPtr
      <3>1. Move(a, typed) = Goes(a, Returned(f))
        BY <1>6, <2>1, <2>2, <2>4, ElementMove
      <3>2. x = f.val[f.next] /\ ListLex(f, typed, i) /\ ListSep(f, s)
        BY <2>1 DEF Element, ListFits
      <3>3. ListFits(Returned(f), s, typed, i) /\ Keeps(Returned(f), f)
        BY <1>6, <2>4, <3>2, ListReturns
      <3> QED BY <1>3, <3>1, <3>3
    <2> QED BY <2>3, <2>4
  <1>7. CASE f.pc = "close"
    <2>1. Move(a, typed) = CloseMove(a, f)
      BY <1>7 DEF Move
    <2> QED BY <2>1, BracketOut
  <1> QED BY <1>1, <1>5, <1>6, <1>7

LEMMA MapPasses ==
  ASSUME NEW a, NEW f, NEW typed, NEW i, NEW s, Last(a) = f, f.id \in Map, MapCall(f), MapFits(f, s, typed, i),
         Move(a, typed).out = <<>>
  PROVE  Passes(Move(a, typed), a, f, s, typed, i)
  <1>1. f.pc \in {"entries", "entry", "object", "value", "close"} /\ f.val \in Content[f.id]
    BY MapParts
  <1>2. ASSUME NEW x, NEW g, Move(a, typed) = Writes(a, x, g) \/ Move(a, typed) = Enters(a, x, g)
        PROVE  FALSE
    BY <1>2, SomeToken
  <1>3. ASSUME NEW g, Move(a, typed) = Goes(a, g), MapFits(g, s, typed, i), Keeps(g, f)
        PROVE  Passes(Move(a, typed), a, f, s, typed, i)
    <2>1. Fits(g, s, typed, i)
      BY <1>3 DEF Fits, Keeps
    <2> QED BY <1>3, <2>1, GoesPasses
  <1>4. CASE f.pc = "entries"
    <2>1. Move(a, typed) = MapMove(a, f, typed)
      BY <1>4 DEF Move
    <2>2. CASE f.keys = {}
      <3>1. MapMove(a, f, typed) = Goes(a, To(f, "close"))
        BY <1>4, <2>2 DEF MapMove, To
      <3>2. MapTurn(f, "close", s, s)
        BY <1>4, <2>2 DEF MapTurn
      <3>3. MapFits(To(f, "close"), s, typed, i) /\ Keeps(To(f, "close"), f)
        BY <3>2, MapTurns
      <3> QED BY <1>3, <2>1, <3>1, <3>3
    <2>3. CASE f.keys # {} /\ ~f.first
      <3>1. MapMove(a, f, typed) = Writes(a, Comma, [f EXCEPT !.pc = "entry"])
        BY <1>4, <2>3 DEF MapMove
      <3> QED BY <1>2, <2>1, <3>1
    <2>4. CASE f.keys # {} /\ f.first
      <3>1. MapMove(a, f, typed) = Goes(a, To(f, "entry"))
        BY <1>4, <2>4 DEF MapMove, To
      <3>2. MapTurn(f, "entry", s, s)
        BY <1>4, <2>4 DEF MapTurn
      <3>3. MapFits(To(f, "entry"), s, typed, i) /\ Keeps(To(f, "entry"), f)
        BY <3>2, MapTurns
      <3> QED BY <1>3, <2>1, <3>1, <3>3
    <2> QED BY <2>2, <2>3, <2>4
  <1>5. CASE f.pc = "entry"
    <2>1. Move(a, typed) = MapMove(a, f, typed)
      BY <1>5 DEF Move
    <2>2. PICK k : k = NextOf(f.keys)
      OBVIOUS
    <2>3. CASE Elem[f.id].id \notin Asts
      <3>1. MapMove(a, f, typed) = Named(a, f, k, RawKey(k))
        BY <1>5, <2>2, <2>3 DEF MapMove
      <3> QED BY <1>2, <2>1, <3>1 DEF Named
    <2>4. CASE Elem[f.id].id \in Asts
      <3>1. PICK g : g = [f EXCEPT !.pc = "object", !.slot = k, !.keys = @ \ {k}, !.first = FALSE]
        OBVIOUS
      <3>2. MapMove(a, f, typed) = Goes(a, g)
        BY <1>5, <2>2, <2>4, <3>1 DEF MapMove
      <3>3. MapFits(g, s, typed, i) /\ Keeps(g, f)
        BY <1>5, <2>4, <3>1, MapFetches
      <3> QED BY <1>3, <2>1, <3>2, <3>3
    <2> QED BY <2>3, <2>4
  <1>6. CASE f.pc = "object"
    <2>1. Move(a, typed) = MapMove(a, f, typed)
      BY <1>6 DEF Move
    <2>2. Elem[f.id].id \in Class /\ f.slot \in DOMAIN f.val /\ (f.ct = f.id \/ f.val = <<>>)
      BY <1>6 DEF MapCall
    <2>3. f.val # <<>>
      BY <2>2, EmptySeq
    <2>4. f.ct = f.id /\ f.val[f.slot] \in Content[Elem[f.id].id]
      BY <1>1, <2>2, <2>3, MapContent
    <2>5. MapMove(a, f, typed) = EnterObject(a, f, Elem[f.id].id, f.val[f.slot], typed)
      BY <1>6, <2>4 DEF MapMove
    <2>6. EnterObject(a, f, Elem[f.id].id, f.val[f.slot], typed) = Enters(a, Brace, Object(Elem[f.id].id, f.val[f.slot], typed))
      BY <2>2, <2>4, Entered
    <2> QED BY <1>2, <2>1, <2>5, <2>6
  <1>7. CASE f.pc = "value"
    <2>1. PICK e, x : e = Elem[f.id].id /\ x = Element(f)
      OBVIOUS
    <2>2. Elemental(f) /\ f.id \notin List
      BY OneKind DEF Elemental
    <2>3. CASE x # NullPtr
      <3>1. CASE e \in List
        BY <1>2, <1>7, <2>1, <2>2, <3>1, ElementMove
      <3>2. CASE e \in Class
        BY <1>2, <1>7, <2>1, <2>2, <2>3, <3>2, ElementMove
      <3>3. CASE e \notin Class \cup List
        BY <1>2, <1>7, <2>1, <2>2, <3>3, ElementMove
      <3> QED BY <3>1, <3>2, <3>3
    <2>4. CASE x = NullPtr
      BY <1>7, <2>1, <2>2, <2>4, ElementMove
    <2> QED BY <2>3, <2>4
  <1>8. CASE f.pc = "close"
    <2>1. Move(a, typed) = CloseMove(a, f)
      BY <1>8 DEF Move
    <2> QED BY <2>1, BracketOut
  <1> QED BY <1>1, <1>4, <1>5, <1>6, <1>7, <1>8

LEMMA MovePasses ==
  ASSUME NEW a, NEW f, NEW typed, NEW i, NEW s, Last(a) = f, Formed(f), Fits(f, s, typed, i), Move(a, typed).out = <<>>
  PROVE  Passes(Move(a, typed), a, f, s, typed, i)
  <1>1. CASE f.id \in Class
    BY <1>1, OneKind, ObjectPasses DEF Formed, Fits
  <1>2. CASE f.id \in List
    BY <1>2, OneKind, ListPasses DEF Formed, Fits
  <1>3. CASE f.id \in Map
    BY <1>3, OneKind, MapPasses DEF Formed, Fits
  <1> QED BY <1>1, <1>2, <1>3 DEF Formed

-----------------------------------------------------------------------------
\* The activation g writes the value that f is at.
Linked(f, g) == g.id = SlotType(f) /\ g.val = IF f.id \in Class THEN MemberContent(f) ELSE Element(f)

\* A move that writes a token and leaves the lexer at s.
Descending(m, a, f, s, typed, i) == \E g : m.calls = More(a, g) /\ f.pc = "value" /\ Linked(f, g) /\ Fits(g, s, typed, i + 1)
Follows(m, a, f, s, typed, i) == Passes(m, a, f, s, typed, i) \/ Descending(m, a, f, s, typed, i)

LEMMA EntersDescends ==
  ASSUME NEW a, NEW f, NEW typed, NEW i, NEW s, NEW g, NEW x, f.pc = "value", Linked(f, g), Fits(g, s, typed, i + 1)
  PROVE  Descending(Enters(a, x, g), a, f, s, typed, i)
  BY TokenOut DEF Descending

LEMMA OneToken ==
  ASSUME NEW a, NEW m, NEW tok, m.out = <<tok>>
  PROVE  /\ \A x, g : m = Writes(a, x, g) => tok = x
         /\ \A x, g : m = Enters(a, x, g) => tok = Mark(x)
         /\ \A g : m # Goes(a, g)
  <1>1. \A x : <<tok>> = <<x>> => tok = x
    OBVIOUS
  <1>2. <<tok>> # <<>>
    OBVIOUS
  <1> QED BY <1>1, <1>2, TokenOut, NoToken

LEMMA BeginsFit ==
  ASSUME NEW t, NEW ct, NEW val, NEW typed, NEW i
  PROVE  /\ t \in Class => Fits(Object(t, val, typed), "open", typed, i)
         /\ t \in List => Fits(ListOf(t, ct, val), "open", typed, i)
         /\ t \in Map => Fits(MapOf(t, ct, val), "open", typed, i)
  <1>1. ASSUME t \in Class PROVE Fits(Object(t, val, typed), "open", typed, i)
    <2>1. Object(t, val, typed).id = t
      BY DEF Object
    <2>2. ObjectFits(Object(t, val, typed), "open", typed, i)
      BY <1>1, ObjectBegins
    <2> QED BY <1>1, <2>1, <2>2 DEF Fits
  <1>2. ASSUME t \in List PROVE Fits(ListOf(t, ct, val), "open", typed, i)
    <2>1. ListOf(t, ct, val).id = t
      BY DEF ListOf
    <2> QED BY <1>2, <2>1, ListBegins DEF Fits
  <1>3. ASSUME t \in Map PROVE Fits(MapOf(t, ct, val), "open", typed, i)
    <2>1. MapOf(t, ct, val).id = t
      BY DEF MapOf
    <2>2. MapFits(MapOf(t, ct, val), "open", typed, i)
      BY MapBegins
    <2> QED BY <1>3, <2>1, <2>2 DEF Fits
  <1> QED BY <1>1, <1>2, <1>3

\* A text between quotes.
LEMMA QuotedIs ==
  ASSUME NEW x
  PROVE  /\ AsRead(x) = Refused => Quoted(x) = Unlexable
         /\ AsRead(x) # Refused => Quoted(x).t = "string"
  <1>1. \A y : Str(y).t = "string"
    BY Tokens
  <1> QED BY <1>1 DEF Quoted

\* What is written of a member that is no bracket is a scalar, or no JSON.
LEMMA MemberTokenIs ==
  ASSUME NEW t \in TypeId, NEW x \in Content[t], Kind[t] \in {"int", "bool", "string", "enum", "port"},
         NEW tok, tok = MemberToken(t, x)
  PROVE  \/ tok = Unlexable /\ ~ScalarSound(t, x)
         \/ tok.t \notin {"mark", "key"} /\ ScalarSound(t, x)
  <1>1. CASE Kind[t] = "string"
    <2>1. tok = Quoted(x)
      BY <1>1, ValIs DEF MemberToken, prim_token
    <2>2. ScalarSound(t, x) <=> AsRead(x) # Refused
      BY <1>1 DEF ScalarSound
    <2> QED BY <2>1, <2>2, QuotedIs
  <1>2. CASE Kind[t] \in {"int", "bool"}
    <2>1. tok = prim_token(Val(t, t, x))
      BY <1>2 DEF MemberToken
    <2>2. tok.t \in {"uint", "int", "bool"}
      BY <1>2, <2>1, ValIs, Tokens DEF prim_token
    <2>3. ScalarSound(t, x)
      BY <1>2 DEF ScalarSound
    <2> QED BY <2>2, <2>3
  <1>3. CASE Kind[t] \in {"enum", "port"}
    <2>1. tok.t = "string"
      BY <1>3, NameRead
    <2>2. ScalarSound(t, x)
      BY <1>3 DEF ScalarSound
    <2> QED BY <2>1, <2>2
  <1> QED BY <1>1, <1>2, <1>3

LEMMA NoContainer ==
  ASSUME NEW t \in TypeId, t \notin List \cup Map \cup Class
  PROVE  Kind[t] \notin {"object", "list", "map"}
  BY DEF Class, List, Map

LEMMA ScalarMember ==
  ASSUME NEW f, f.id \in Class, ObjectCall(f), f.pc = "value", NEW t, t = Meta[f.id][f.slot], t \notin List \cup Map \cup Class,
         f.slot \in Getter[f.id], NEW typed, NEW i \in 0..MaxDepth, NEW tok, tok = MemberToken(t, f.val[f.slot])
  PROVE  \/ tok = Unlexable /\ ~Sound(typed, i, t, f.val[f.slot])
         \/ tok.t \notin {"mark", "key"} /\ Sound(typed, i, t, f.val[f.slot])
  <1>1. PICK k, x, c : k = f.slot /\ x = f.val[k] /\ c = f.id
    OBVIOUS
  <1>2. k \in DOMAIN Ast[c] /\ t = Ast[c][k] /\ x \in Content[t] /\ t \in TypeId /\ t = Meta[c][k]
    BY <1>1, ObjectValue
  <1>3. Kind[t] \in {"object", "list", "map", "int", "bool", "string", "enum", "port"}
    BY <1>1, <1>2, FieldIs
  <1>4. Kind[t] \in {"int", "bool", "string", "enum", "port"}
    BY <1>2, <1>3, NoContainer
  <1>5. (tok = Unlexable /\ ~ScalarSound(t, x)) \/ (tok.t \notin {"mark", "key"} /\ ScalarSound(t, x))
    BY <1>1, <1>2, <1>4, MemberTokenIs
  <1>6. Sound(typed, i, t, x) <=> ScalarSound(t, x)
    BY <1>2, <1>4, SoundScalar
  <1>7. (tok = Unlexable /\ ~Sound(typed, i, t, x)) \/ (tok.t \notin {"mark", "key"} /\ Sound(typed, i, t, x))
    BY <1>5, <1>6, Zenon
  <1>8. x = f.val[f.slot]
    BY <1>1
  <1> QED BY <1>7, <1>8, Zenon

\* What an object, a list and a map do with a token.
LEMMA ObjectFollows ==
  ASSUME NEW a, NEW f, NEW typed, NEW i \in 1..MaxDepth, NEW s, NEW s2, NEW tok, Last(a) = f, f.id \in Class, ObjectCall(f),
         ObjectFits(f, s, typed, i), f.pc # "close", Move(a, typed).out = <<tok>>, Took(tok, s, s2)
  PROVE  Follows(Move(a, typed), a, f, s2, typed, i)
  <1>1. f \in ObjectCalls(f.id) /\ f.pc \in ObjectPcs
    BY DEF ObjectCall, ObjectCalls
  <1>2. ASSUME NEW x, NEW w, Move(a, typed) = Writes(a, w, To(f, x)), ObjectTurn(f, x, s, s2)
        PROVE  Follows(Move(a, typed), a, f, s2, typed, i)
    <2>1. ObjectFits(To(f, x), s2, typed, i)
      BY <1>2, ObjectTurns
    <2>2. To(f, x).id = f.id /\ To(f, x).val = f.val
      BY <1>1 DEF To, ObjectCalls
    <2>3. Fits(To(f, x), s2, typed, i) /\ Keeps(To(f, x), f)
      BY <2>1, <2>2 DEF Fits, Keeps
    <2> QED BY <1>2, <2>3, GoesPasses DEF Follows
  <1>3. CASE f.pc \in {"type", "type_text", "type_comma"}
    <2>1. Move(a, typed) = EnvelopeMove(a, f)
      BY <1>3 DEF Move
    <2>2. CASE f.pc = "type"
      <3>1. EnvelopeMove(a, f) = Writes(a, KeyOf("type"), To(f, "type_text"))
        BY <2>2 DEF EnvelopeMove, To
      <3>2. s2 = "colon"
        <4>1. tok = KeyOf("type")
          BY <2>1, <3>1, OneToken
        <4> QED BY <4>1, TookIs
      <3>3. ObjectTurn(f, "type_text", s, s2)
        BY <2>2, <3>2 DEF ObjectTurn
      <3> QED BY <1>2, <2>1, <3>1, <3>3
    <2>3. CASE f.pc = "type_text"
      <3>1. PICK x : x = IF DOMAIN OwnAst[f.id] # {} THEN "type_comma" ELSE "kvs"
        OBVIOUS
      <3>2. f.ct = f.id
        BY <1>1 DEF ObjectCalls
      <3>3. EnvelopeMove(a, f) = Writes(a, Str(f.val["type"]), To(f, x))
        BY <2>3, <3>1, <3>2 DEF EnvelopeMove, To, TypeComma
      <3>4. tok = Str(f.val["type"])
        BY <2>1, <3>3, OneToken
      <3>5. tok.t \notin {"mark", "key"}
        BY <3>4, Tokens
      <3>6. s2 = "given"
        BY <3>5, TookIs
      <3>7. ObjectTurn(f, x, s, s2)
        BY <2>3, <3>1, <3>6 DEF ObjectTurn
      <3> QED BY <1>2, <2>1, <3>3, <3>7
    <2>4. CASE f.pc = "type_comma"
      <3>1. EnvelopeMove(a, f) = Writes(a, Comma, To(f, "kvs"))
        BY <2>4 DEF EnvelopeMove, To
      <3>2. s2 = "comma"
        BY <2>1, <3>1, OneToken, TookIs
      <3>3. ObjectTurn(f, "kvs", s, s2)
        BY <2>4, <3>2 DEF ObjectTurn
      <3> QED BY <1>2, <2>1, <3>1, <3>3
    <2> QED BY <1>3, <2>2, <2>3, <2>4
  <1>4. CASE f.pc = "kvs"
    <2>1. Move(a, typed) = KvsMove(a, f, typed)
      BY <1>4 DEF Move
    <2>2. KvsMove(a, f, typed) = Goes(a, Based(f, typed))
      BY <1>4 DEF KvsMove, Based
    <2> QED BY <2>1, <2>2, OneToken
  <1>5. CASE f.pc = "base_comma"
    <2>1. Move(a, typed) = KvsMove(a, f, typed)
      BY <1>5 DEF Move
    <2>2. KvsMove(a, f, typed) = Writes(a, Comma, To(f, "fields"))
      BY <1>5 DEF KvsMove, To
    <2>3. s2 = "comma"
      BY <2>1, <2>2, OneToken, TookIs
    <2>4. ObjectTurn(f, "fields", s, s2)
      BY <1>5, <2>3 DEF ObjectTurn
    <2> QED BY <1>2, <2>1, <2>2, <2>4
  <1>6. CASE f.pc = "fields"
    <2>1. Move(a, typed) = FieldsMove(a, f)
      BY <1>6 DEF Move
    <2>2. CASE f.keys = {} \/ f.first
      <3>1. \E g : FieldsMove(a, f) = Goes(a, g)
        BY <1>6, <2>2 DEF FieldsMove
      <3> QED BY <2>1, <3>1, OneToken
    <2>3. CASE f.keys # {} /\ ~f.first
      <3>1. FieldsMove(a, f) = Writes(a, Comma, To(f, "field"))
        BY <1>6, <2>3 DEF FieldsMove, To
      <3>2. s2 = "comma"
        BY <2>1, <3>1, OneToken, TookIs
      <3>3. ObjectTurn(f, "field", s, s2)
        BY <1>6, <2>3, <3>2 DEF ObjectTurn
      <3> QED BY <1>2, <2>1, <3>1, <3>3
    <2> QED BY <2>2, <2>3
  <1>7. CASE f.pc = "field"
    <2>1. Move(a, typed) = FieldsMove(a, f)
      BY <1>7 DEF Move
    <2>2. PICK k : k = NextOf(f.keys)
      OBVIOUS
    <2>3. k \in f.keys
      BY <1>7, <2>2, NextIs DEF ObjectCall
    <2>4. FieldsMove(a, f) = Writes(a, KeyOf(k), Naming(f, k))
      BY <1>7, <2>2 DEF FieldsMove, Named, Naming
    <2>5. s2 = "colon" /\ s \in {"open", "comma"}
      <3>1. tok = KeyOf(k)
        BY <2>1, <2>4, OneToken
      <3> QED BY <3>1, TookIs
    <2>6. ObjectFits(Naming(f, k), "colon", typed, i) /\ Keeps(Naming(f, k), f)
      BY <1>7, <2>3, <2>5, ObjectNames
    <2>7. Fits(Naming(f, k), s2, typed, i)
      BY <2>5, <2>6 DEF Fits, Keeps
    <2> QED BY <2>1, <2>4, <2>6, <2>7, GoesPasses DEF Follows
  <1>8. CASE f.pc = "value"
    <2>1. PICK t, val : t = Meta[f.id][f.slot] /\ val = MemberContent(f)
      OBVIOUS
    <2>2. SlotType(f) = t
      BY <1>1, <2>1 DEF SlotType, ObjectCalls
    <2>3. ASSUME NEW x \in {Brace, "["}, NEW g, Move(a, typed) = Enters(a, x, g), g.id = t, g.val = val, Fits(g, "open", typed, i + 1)
          PROVE  Follows(Move(a, typed), a, f, s2, typed, i)
      <3>1. Linked(f, g)
        BY <2>1, <2>2, <2>3 DEF Linked
      <3>2. tok = Mark(x)
        BY <2>3, OneToken
      <3>3. s2 = "open"
        BY <3>2, TookIs
      <3> QED BY <1>8, <2>3, <3>1, <3>3, EntersDescends DEF Follows
    <2>4. CASE t \in List
      <3>1. PICK ct : Move(a, typed) = Enters(a, "[", ListOf(t, ct, val))
        BY <1>8, <2>1, <2>4, MemberMove
      <3>2. ListOf(t, ct, val).id = t /\ ListOf(t, ct, val).val = val
        BY DEF ListOf
      <3> QED BY <2>3, <2>4, <3>1, <3>2, BeginsFit
    <2>5. CASE t \in Map
      <3>1. PICK ct : Move(a, typed) = Enters(a, Brace, MapOf(t, ct, val))
        BY <1>8, <2>1, <2>5, MemberMove
      <3>2. MapOf(t, ct, val).id = t /\ MapOf(t, ct, val).val = val
        BY DEF MapOf
      <3> QED BY <2>3, <2>5, <3>1, <3>2, BeginsFit
    <2>6. CASE t \in Class
      <3>1. Move(a, typed) = Enters(a, Brace, Object(t, f.val[f.slot], typed)) /\ f.slot \in Getter[f.id]
        BY <1>8, <2>1, <2>6, MemberMove
      <3>2. val = f.val[f.slot]
        BY <2>1, <3>1 DEF MemberContent
      <3>3. Object(t, val, typed).id = t /\ Object(t, val, typed).val = val
        BY DEF Object
      <3> QED BY <2>3, <2>6, <3>1, <3>2, <3>3, BeginsFit
    <2>7. CASE t \notin List \cup Map \cup Class
      <3>1. PICK w, g : w = MemberToken(t, f.val[f.slot]) /\ g = Returned(f)
        OBVIOUS
      <3>2. f.slot \in Getter[f.id] /\ Move(a, typed) = Writes(a, w, g)
        BY <1>8, <2>1, <2>7, <3>1, MemberMove
      <3>4. tok = w
        BY <3>2, OneToken
      <3>3. w.t \notin {"mark", "key"} /\ Sound(typed, i, t, f.val[f.slot])
        <4>1. i \in 0..MaxDepth
          BY BoundsAssumption
        <4>2. w # Unlexable
          BY <3>4, TookIs
        <4> QED BY <1>8, <2>1, <2>7, <3>1, <3>2, <4>1, <4>2, ScalarMember
      <3>5. s2 = "given"
        BY <3>3, <3>4, TookIs
      <3>6. ObjectFits(g, "given", typed, i) /\ Keeps(g, f)
        BY <1>8, <2>1, <3>1, <3>3, ObjectReturns DEF ObjectFits
      <3>7. Fits(g, s2, typed, i)
        BY <3>5, <3>6 DEF Fits, Keeps
      <3> QED BY <3>2, <3>6, <3>7, GoesPasses DEF Follows
    <2> QED BY <2>4, <2>5, <2>6, <2>7
  <1> QED BY <1>1, <1>3, <1>4, <1>5, <1>6, <1>7, <1>8 DEF ObjectPcs, AtTheHead

\* What is written of an element that is no bracket is a scalar, or no JSON.
LEMMA VarTokenIs ==
  ASSUME NEW e \in TypeId, NEW x \in Content[e], Kind[e] = "var", NEW tok, tok = serialize_var(e, x)
  PROVE  \/ tok = Unlexable /\ ~VarWritable(x)
         \/ tok.t \notin {"mark", "key"} /\ VarWritable(x)
  <1>1. x.t \in {"none", "int", "double", "float", "string", "date"}
    BY ScalarContent
  <1>2. CASE x.t = "none"
    <2>1. tok = Null
      BY <1>2 DEF serialize_var
    <2>2. VarWritable(x)
      BY <1>2 DEF VarWritable
    <2> QED BY <2>1, <2>2, Tokens
  <1>3. CASE x.t = "int"
    <2>1. tok = Number(x.v)
      BY <1>3 DEF serialize_var
    <2>2. VarWritable(x)
      BY <1>3 DEF VarWritable
    <2> QED BY <2>1, <2>2, Tokens
  <1>4. CASE x.t = "double"
    <2>1. tok = Decimal(x.v)
      BY <1>4 DEF serialize_var
    <2>2. VarWritable(x) <=> Narrowed[x.v] # Refused
      BY <1>4 DEF VarWritable
    <2>3. CASE Narrowed[x.v] = Refused
      BY <2>1, <2>2, <2>3 DEF Decimal
    <2>4. CASE Narrowed[x.v] # Refused
      <3>1. tok = [t |-> "float", v |-> Narrowed[x.v]]
        BY <2>1, <2>4 DEF Decimal
      <3> QED BY <2>2, <2>4, <3>1
    <2> QED BY <2>3, <2>4
  <1>5. CASE x.t = "string"
    <2>1. tok = Quoted(x.v)
      BY <1>5 DEF serialize_var
    <2>2. VarWritable(x) <=> AsRead(x.v) # Refused
      BY <1>5 DEF VarWritable
    <2> QED BY <2>1, <2>2, QuotedIs
  <1>6. CASE x.t \in {"float", "date"}
    <2>1. tok = Unlexable
      BY <1>6 DEF serialize_var
    <2>2. ~VarWritable(x)
      BY <1>6 DEF VarWritable
    <2> QED BY <2>1, <2>2
  <1> QED BY <1>1, <1>2, <1>3, <1>4, <1>5, <1>6

LEMMA ElementTokenIs ==
  ASSUME NEW e \in TypeId, NEW x \in Content[e], Kind[e] \in {"int", "bool", "string", "var"}, NEW tok, tok = prim_token(Val(e, e, x))
  PROVE  \/ tok = Unlexable /\ ~ScalarSound(e, x)
         \/ tok.t \notin {"mark", "key"} /\ ScalarSound(e, x)
  <1>1. CASE Kind[e] \in {"int", "bool", "string"}
    <2>1. tok = MemberToken(e, x)
      BY <1>1 DEF MemberToken
    <2> QED BY <1>1, <2>1, MemberTokenIs
  <1>2. CASE Kind[e] = "var"
    <2>1. tok = serialize_var(e, x)
      BY <1>2, ValIs DEF prim_token
    <2>2. ScalarSound(e, x) <=> VarWritable(x)
      BY <1>2 DEF ScalarSound
    <2> QED BY <1>2, <2>1, <2>2, VarTokenIs
  <1> QED BY <1>1, <1>2

LEMMA ScalarElement ==
  ASSUME NEW f, f.pc = "value", Elemental(f), NEW e, e = Elem[f.id].id, e \notin Class \cup List, NEW x, x = Element(f), x # NullPtr,
         NEW typed, NEW i \in 0..MaxDepth, NEW tok, tok = prim_token(Val(e, e, x))
  PROVE  \/ tok = Unlexable /\ ~Sound(typed, i, e, x)
         \/ tok.t \notin {"mark", "key"} /\ Sound(typed, i, e, x)
  <1>1. x \in Content[e]
    BY ElementIs
  <1>2. f.id \in List \cup Map
    BY DEF Elemental
  <1>3. e \in TypeId /\ Kind[e] \in {"object", "list", "int", "bool", "string", "var"}
    BY <1>2, ElemIs
  <1>4. Kind[e] \in {"int", "bool", "string", "var"} /\ e \notin Class \cup List \cup Map
    <2>1. Kind[e] \notin {"object", "list"}
      BY <1>3 DEF Class, List
    <2>2. Kind[e] \in {"int", "bool", "string", "var"}
      BY <1>3, <2>1
    <2>3. e \notin Map
      BY <2>2 DEF Map
    <2> QED BY <2>2, <2>3
  <1>5. Sound(typed, i, e, x) <=> ScalarSound(e, x)
    BY <1>1, <1>3, <1>4, SoundScalar
  <1>6. (tok = Unlexable /\ ~ScalarSound(e, x)) \/ (tok.t \notin {"mark", "key"} /\ ScalarSound(e, x))
    BY <1>1, <1>3, <1>4, ElementTokenIs
  <1> QED BY <1>5, <1>6, Zenon

\* The value a list or a map is at, with a token.
LEMMA ElementFollows ==
  ASSUME NEW a, NEW f, NEW typed, NEW i \in 1..MaxDepth, NEW s, NEW s2, NEW tok, Last(a) = f, f.id \in List \cup Map, Elemental(f),
         f.pc = "value", Lex(f, typed, i), Move(a, typed).out = <<tok>>, Took(tok, s, s2)
  PROVE  Follows(Move(a, typed), a, f, s2, typed, i)
  <1>1. PICK e, x : e = Elem[f.id].id /\ x = Element(f)
    OBVIOUS
  <1>2. SlotType(f) = e /\ f.id \notin Class
    BY <1>1, OneKind DEF SlotType
  <1>3. x # NullPtr
    BY <1>1, ElementMove, OneToken
  <1>4. ASSUME NEW y \in {Brace, "["}, NEW g, Move(a, typed) = Enters(a, y, g), g.id = e, g.val = x, Fits(g, "open", typed, i + 1)
        PROVE  Follows(Move(a, typed), a, f, s2, typed, i)
    <2>1. Linked(f, g)
      BY <1>1, <1>2, <1>4 DEF Linked
    <2>2. tok = Mark(y)
      BY <1>4, OneToken
    <2>3. s2 = "open"
      BY <2>2, TookIs
    <2> QED BY <1>4, <2>1, <2>3, EntersDescends DEF Follows
  <1>5. CASE e \in Class
    <2>1. Move(a, typed) = Enters(a, Brace, Object(e, x, typed))
      BY <1>1, <1>3, <1>5, ElementMove
    <2>2. Object(e, x, typed).id = e /\ Object(e, x, typed).val = x
      BY DEF Object
    <2> QED BY <1>4, <1>5, <2>1, <2>2, BeginsFit
  <1>6. CASE e \in List
    <2>1. Move(a, typed) = Enters(a, "[", ListOf(e, e, x))
      BY <1>1, <1>6, ElementMove
    <2>2. ListOf(e, e, x).id = e /\ ListOf(e, e, x).val = x
      BY DEF ListOf
    <2> QED BY <1>4, <1>6, <2>1, <2>2, BeginsFit
  <1>7. CASE e \notin Class \cup List
    <2>1. PICK w, g : w = prim_token(Val(e, e, x)) /\ g = Returned(f)
      OBVIOUS
    <2>2. Move(a, typed) = Writes(a, w, g)
      BY <1>1, <1>7, <2>1, ElementMove
    <2>3. tok = w
      BY <2>2, OneToken
    <2>4. tok # Unlexable
      BY TookIs
    <2>5. tok.t \notin {"mark", "key"} /\ Sound(typed, i, e, x)
      <3>1. i \in 0..MaxDepth
        BY BoundsAssumption
      <3> QED BY <1>1, <1>3, <1>7, <2>1, <2>3, <2>4, <3>1, ScalarElement
    <2>6. s2 = "given"
      BY <2>5, TookIs
    <2>7. Fits(g, "given", typed, i) /\ Keeps(g, f)
      <3>1. CASE f.id \in List
        <4>1. ListCall(f) /\ ListLex(f, typed, i) /\ x = f.val[f.next]
          BY <1>1, <3>1, OneKind DEF Elemental, Lex, Element
        <4>2. ListFits(g, "given", typed, i) /\ Keeps(g, f)
          BY <1>1, <1>3, <2>1, <2>5, <3>1, <4>1, ListReturns
        <4> QED BY <3>1, <4>2 DEF Fits, Keeps
      <3>2. CASE f.id \in Map
        <4>1. MapCall(f) /\ MapLex(f, typed, i) /\ x = f.val[f.slot]
          BY <1>1, <3>2, OneKind DEF Elemental, Lex, Element
        <4>2. MapFits(g, "given", typed, i) /\ Keeps(g, f)
          BY <1>1, <2>1, <2>5, <3>2, <4>1, MapReturns
        <4> QED BY <3>2, <4>2 DEF Fits, Keeps
      <3> QED BY <3>1, <3>2
    <2> QED BY <2>2, <2>6, <2>7, GoesPasses DEF Follows
  <1> QED BY <1>5, <1>6, <1>7

LEMMA ListFollows ==
  ASSUME NEW a, NEW f, NEW typed, NEW i \in 1..MaxDepth, NEW s, NEW s2, NEW tok, Last(a) = f, f.id \in List, ListCall(f),
         ListFits(f, s, typed, i), f.pc # "close", Move(a, typed).out = <<tok>>, Took(tok, s, s2)
  PROVE  Follows(Move(a, typed), a, f, s2, typed, i)
  <1>1. f.pc \in {"elems", "value", "close"} /\ f.next \in Nat /\ f.next > 0 /\ Len(f.val) \in Nat
    BY ListParts
  <1>2. CASE f.pc = "value"
    <2>1. Elemental(f) /\ Lex(f, typed, i)
      BY DEF Elemental, Lex, ListFits
    <2> QED BY <1>2, <2>1, ElementFollows
  <1>3. CASE f.pc = "elems"
    <2>1. Move(a, typed) = ListMove(a, f)
      BY <1>3 DEF Move
    <2>2. CASE f.next > Len(f.val) \/ ~(f.next > 1)
      <3>1. ~(f.next <= Len(f.val) /\ f.next > 1)
        BY <1>1, <2>2
      <3>2. \E g : ListMove(a, f) = Goes(a, g)
        BY <3>1 DEF ListMove
      <3> QED BY <2>1, <3>2, OneToken
    <2>3. CASE ~(f.next > Len(f.val)) /\ f.next > 1
      <3>1. f.next <= Len(f.val)
        BY <1>1, <2>3
      <3>2. ListMove(a, f) = Writes(a, Comma, To(f, "value"))
        BY <2>3, <3>1 DEF ListMove, To
      <3>3. tok = Comma
        BY <2>1, <3>2, OneToken
      <3>4. s = "given" /\ s2 = "comma"
        BY <3>3, TookIs
      <3>5. ListFits(To(f, "value"), s2, typed, i)
        BY <1>3, <2>3, <3>4, ListTurns
      <3>6. Fits(To(f, "value"), s2, typed, i) /\ Keeps(To(f, "value"), f)
        BY <3>5, ListParts DEF Fits, Keeps
      <3> QED BY <2>1, <3>2, <3>6, GoesPasses DEF Follows
    <2> QED BY <2>2, <2>3
  <1> QED BY <1>1, <1>2, <1>3

LEMMA MapFollows ==
  ASSUME NEW a, NEW f, NEW typed, NEW i \in 1..MaxDepth, NEW s, NEW s2, NEW tok, Last(a) = f, f.id \in Map, MapCall(f),
         MapFits(f, s, typed, i), f.pc \notin {"close", "object"}, Move(a, typed).out = <<tok>>, Took(tok, s, s2)
  PROVE  Follows(Move(a, typed), a, f, s2, typed, i)
  <1>1. f.pc \in {"entries", "entry", "object", "value", "close"}
    BY MapParts
  <1>2. CASE f.pc = "value"
    <2>1. Elemental(f) /\ Lex(f, typed, i)
      BY DEF Elemental, Lex, MapFits
    <2> QED BY <1>2, <2>1, ElementFollows
  <1>3. CASE f.pc = "entries"
    <2>1. Move(a, typed) = MapMove(a, f, typed)
      BY <1>3 DEF Move
    <2>2. CASE f.keys = {} \/ f.first
      <3>1. \E g : MapMove(a, f, typed) = Goes(a, g)
        BY <1>3, <2>2 DEF MapMove
      <3> QED BY <2>1, <3>1, OneToken
    <2>3. CASE f.keys # {} /\ ~f.first
      <3>1. MapMove(a, f, typed) = Writes(a, Comma, To(f, "entry"))
        BY <1>3, <2>3 DEF MapMove, To
      <3>2. tok = Comma
        BY <2>1, <3>1, OneToken
      <3>3. s2 = "comma"
        BY <3>2, TookIs
      <3>4. MapTurn(f, "entry", s, s2)
        BY <1>3, <2>3, <3>3 DEF MapTurn
      <3>5. MapFits(To(f, "entry"), s2, typed, i) /\ Keeps(To(f, "entry"), f)
        BY <3>4, MapTurns
      <3>6. Fits(To(f, "entry"), s2, typed, i)
        BY <3>5 DEF Fits, Keeps
      <3> QED BY <2>1, <3>1, <3>5, <3>6, GoesPasses DEF Follows
    <2> QED BY <2>2, <2>3
  <1>4. CASE f.pc = "entry"
    <2>1. Move(a, typed) = MapMove(a, f, typed)
      BY <1>4 DEF Move
    <2>2. PICK k : k = NextOf(f.keys)
      OBVIOUS
    <2>3. k \in f.keys
      BY <1>4, <2>2, NextIs DEF MapCall
    <2>4. CASE Elem[f.id].id \in Asts
      <3>1. \E g : MapMove(a, f, typed) = Goes(a, g)
        BY <1>4, <2>4 DEF MapMove
      <3> QED BY <2>1, <3>1, OneToken
    <2>5. CASE Elem[f.id].id \notin Asts
      <3>1. MapMove(a, f, typed) = Writes(a, RawKey(k), Naming(f, k))
        BY <1>4, <2>2, <2>5 DEF MapMove, Named, Naming
      <3>2. tok = RawKey(k) /\ tok # Unlexable
        BY <2>1, <3>1, OneToken, TookIs
      <3>6. AsRead(k) # Refused /\ tok = KeyOf(AsRead(k))
        BY <3>2 DEF RawKey
      <3>3. s2 = "colon"
        BY <3>6, TookIs
      <3>4. MapFits(Naming(f, k), "colon", typed, i) /\ Keeps(Naming(f, k), f)
        BY <1>4, <2>3, <2>5, <3>6, MapNames DEF MapFits
      <3>5. Fits(Naming(f, k), s2, typed, i)
        BY <3>3, <3>4 DEF Fits, Keeps
      <3> QED BY <2>1, <3>1, <3>4, <3>5, GoesPasses DEF Follows
    <2> QED BY <2>4, <2>5
  <1> QED BY <1>1, <1>2, <1>3, <1>4

-----------------------------------------------------------------------------
\* What is read of an object is writable, wherever the writer is in it.
LexLevels(a, typed, n) ==
  /\ \A i \in 1..n : Lex(a[i], typed, i)
  /\ \A i \in 1..(n - 1) : Linked(a[i], a[i + 1])
Lexed(a, s, typed) ==
  \/ a = <<>> /\ Sound(typed, 0, RootType, obj)
  \/ a # <<>> /\ Fits(Last(a), s, typed, Len(a)) /\ LexLevels(a, typed, Len(a))

LEMMA LexedIs ==
  ASSUME NEW a, NEW n, NEW f, NEW s, NEW typed, Facing(a, n, f), Lexed(a, s, typed)
  PROVE  Fits(f, s, typed, n) /\ LexLevels(a, typed, n) /\ Formed(f) /\ f.id \in TypeId
  <1>1. a # <<>> /\ Last(a) = f /\ Len(a) = n /\ At(f, doc[n], stack[n], inst[n], n)
    BY FacingIs
  <1> QED BY <1>1, FormedIs DEF Lexed

LEMMA LexedAgain ==
  ASSUME NEW b, NEW n \in Nat, n > 0, IsSeq(b, n), NEW s, NEW typed, Fits(b[n], s, typed, n), LexLevels(b, typed, n)
  PROVE  Lexed(b, s, typed)
  <1>1. Last(b) = b[n] /\ Len(b) = n
    BY LastIs
  <1>2. b # <<>>
    BY <1>1
  <1> QED BY <1>1, <1>2 DEF Lexed

\* The three ways on: on the same level, one up, one down.
LEMMA LexSame ==
  ASSUME NEW a, NEW n, NEW f, NEW g, NEW s, NEW typed, Facing(a, n, f), LexLevels(a, typed, n), Keeps(g, f), Fits(g, s, typed, n),
         NEW b, b = OnTop(a, g)
  PROVE  Lexed(b, s, typed)
  <1>1. n \in Nat /\ n > 0 /\ IsSeq(a, n) /\ f = a[n]
    BY FacingIs
  <1>2. IsSeq(b, n) /\ Agree(b, a, n - 1) /\ b[n] = g
    BY <1>1, ReplacedIs
  <1>3. \A i \in 1..n : i = n \/ i \in 1..(n - 1)
    BY <1>1
  <1>4. \A i \in 1..(n - 1) : i \in 1..n /\ b[i] = a[i]
    BY <1>1, <1>2 DEF Agree
  <1>5. Lex(g, typed, n)
    BY FitsIs
  <1>6. \A i \in 1..n : Lex(b[i], typed, i)
    BY <1>2, <1>3, <1>4, <1>5 DEF LexLevels
  <1>7. ASSUME NEW i \in 1..(n - 1)
        PROVE  Linked(b[i], b[i + 1])
    <2>1. Linked(a[i], a[i + 1])
      BY DEF LexLevels
    <2>2. CASE i = n - 1
      <3>1. i + 1 = n
        BY <1>1, <2>2
      <3>2. Linked(a[i], f)
        BY <1>1, <2>1, <3>1
      <3>3. Linked(a[i], g)
        BY <3>2 DEF Linked, Keeps
      <3> QED BY <1>2, <1>4, <3>1, <3>3
    <2>3. CASE i # n - 1
      <3>1. i + 1 \in 1..(n - 1)
        BY <1>1, <2>3
      <3> QED BY <1>4, <2>1, <3>1
    <2> QED BY <2>2, <2>3
  <1> QED BY <1>1, <1>2, <1>6, <1>7, LexedAgain DEF LexLevels

LEMMA LexUp ==
  ASSUME NEW a, NEW n, NEW f, NEW g, NEW s, NEW typed, Facing(a, n, f), LexLevels(a, typed, n), Linked(f, g), Fits(g, s, typed, n + 1),
         NEW b, b = More(a, g)
  PROVE  Lexed(b, s, typed)
  <1>1. n \in Nat /\ n > 0 /\ IsSeq(a, n) /\ f = a[n]
    BY FacingIs
  <1>2. IsSeq(b, n + 1) /\ Agree(b, a, n) /\ b[n + 1] = g
    BY <1>1, AppendedIs
  <1>3. \A i \in 1..(n + 1) : i = n + 1 \/ i \in 1..n
    BY <1>1
  <1>4. \A i \in 1..n : b[i] = a[i]
    BY <1>2 DEF Agree
  <1>5. Lex(g, typed, n + 1)
    BY FitsIs
  <1>6. \A i \in 1..(n + 1) : Lex(b[i], typed, i)
    BY <1>2, <1>3, <1>4, <1>5 DEF LexLevels
  <1>7. ASSUME NEW i \in 1..n
        PROVE  Linked(b[i], b[i + 1])
    <2>1. CASE i = n
      BY <1>1, <1>2, <1>4, <2>1
    <2>2. CASE i # n
      <3>1. i \in 1..(n - 1) /\ i + 1 \in 1..n
        BY <1>1, <2>2
      <3> QED BY <1>4, <3>1 DEF LexLevels
    <2> QED BY <2>1, <2>2
  <1>8. n + 1 \in Nat /\ n + 1 > 0 /\ (n + 1) - 1 = n
    BY <1>1
  <1>9. LexLevels(b, typed, n + 1)
    BY <1>6, <1>7, <1>8 DEF LexLevels
  <1> QED BY <1>2, <1>8, <1>9, LexedAgain

LEMMA LexDown ==
  ASSUME NEW a, NEW n, NEW f, NEW p, NEW g, NEW s, NEW typed, Facing(a, n, f), LexLevels(a, typed, n), n > 1, p = a[n - 1],
         Keeps(g, p), Fits(g, s, typed, n - 1), NEW b, b = Under(a, g)
  PROVE  Lexed(b, s, typed)
  <1>1. n \in Nat /\ n > 0 /\ IsSeq(a, n) /\ f = a[n]
    BY FacingIs
  <1>2. PICK m \in Nat : m = n - 1 /\ m > 0 /\ m - 1 = n - 2
    BY <1>1
  <1>3. IsSeq(b, m) /\ Agree(b, a, m - 1) /\ b[m] = g
    BY <1>1, <1>2, PoppedIs
  <1>4. \A i \in 1..m : i = m \/ i \in 1..(m - 1)
    BY <1>2
  <1>5. \A i \in 1..(m - 1) : i \in 1..n /\ b[i] = a[i] /\ i \in 1..(n - 1)
    BY <1>1, <1>2, <1>3 DEF Agree
  <1>6. Lex(g, typed, m)
    BY <1>2, FitsIs
  <1>7. \A i \in 1..m : Lex(b[i], typed, i)
    BY <1>3, <1>4, <1>5, <1>6 DEF LexLevels
  <1>8. ASSUME NEW i \in 1..(m - 1)
        PROVE  Linked(b[i], b[i + 1])
    <2>1. Linked(a[i], a[i + 1])
      BY <1>5 DEF LexLevels
    <2>2. CASE i = m - 1
      <3>1. i + 1 = m
        BY <1>2, <2>2
      <3>2. Linked(a[i], p)
        BY <1>2, <2>1, <3>1
      <3>3. Linked(a[i], g)
        BY <3>2 DEF Linked, Keeps
      <3> QED BY <1>3, <1>5, <3>1, <3>3
    <2>3. CASE i # m - 1
      <3>1. i + 1 \in 1..(m - 1)
        BY <1>2, <2>3
      <3> QED BY <1>5, <2>1, <3>1
    <2> QED BY <2>2, <2>3
  <1>9. LexLevels(b, typed, m)
    BY <1>7, <1>8 DEF LexLevels
  <1> QED BY <1>2, <1>3, <1>9, LexedAgain

\* Without a token the lexer stays where it is.
LEMMA LexSilent ==
  ASSUME NEW a, NEW s, NEW typed, Match(a), a # <<>>, Lexed(a, s, typed), Move(a, typed).out = <<>>, NEW b, b = Move(a, typed).calls
  PROVE  Lexed(b, s, typed)
  <1>1. PICK n, f : n = Len(doc) /\ f = a[n]
    OBVIOUS
  <1>2. Facing(a, n, f)
    BY <1>1 DEF Facing
  <1>3. Last(a) = f
    BY <1>2, FacingIs
  <1>4. Fits(f, s, typed, n) /\ LexLevels(a, typed, n) /\ Formed(f)
    BY <1>2, LexedIs
  <1>5. Passes(Move(a, typed), a, f, s, typed, n)
    BY <1>3, <1>4, MovePasses
  <1>6. PICK g : b = OnTop(a, g) /\ Keeps(g, f) /\ Fits(g, s, typed, n)
    BY <1>5 DEF Passes
  <1> QED BY <1>2, <1>4, <1>6, LexSame

\* The caller p goes on behind a value that is read and writable.
LEMMA ReturnsFit ==
  ASSUME NEW p, NEW f, NEW typed, NEW i \in 1..MaxDepth, Formed(p), Lex(p, typed, i), p.pc = "value", Linked(p, f),
         Sound(typed, i, f.id, f.val), f.id \in Class \cup List \cup Map, p.id \in List => Element(p) # NullPtr, NEW g, g = Returned(p)
  PROVE  Fits(g, "given", typed, i) /\ Keeps(g, p)
  <1>1. CASE p.id \in Class
    <2>1. ObjectCall(p) /\ ObjectLex(p, typed, i)
      BY <1>1, OneKind DEF Formed, Lex
    <2>2. p.ct = p.id
      BY <2>1 DEF ObjectCall, ObjectCalls
    <2>3. f.id = Meta[p.id][p.slot] /\ f.val = MemberContent(p)
      BY <1>1, <2>2 DEF Linked, SlotType
    <2>4. p.slot \in Answered(p.id) => f.val = p.val[p.slot]
      BY <2>3 DEF MemberContent, Answered
    <2>5. p.slot \in Answered(p.id) => Sound(typed, i, Meta[p.id][p.slot], p.val[p.slot])
      BY <2>3, <2>4
    <2>6. ObjectFits(g, "given", typed, i) /\ Keeps(g, p)
      BY <1>1, <2>1, <2>5, ObjectReturns
    <2> QED BY <1>1, <2>6 DEF Fits, Keeps
  <1>2. CASE p.id \in List
    <2>1. ListCall(p) /\ ListLex(p, typed, i) /\ p.id \notin Class
      BY <1>2, OneKind DEF Formed, Lex
    <2>2. f.id = Elem[p.id].id /\ f.val = Element(p) /\ Element(p) = p.val[p.next]
      BY <1>2, <2>1 DEF Linked, SlotType, Element
    <2>3. ListFits(g, "given", typed, i) /\ Keeps(g, p)
      BY <1>2, <2>1, <2>2, ListReturns
    <2> QED BY <1>2, <2>3 DEF Fits, Keeps
  <1>3. CASE p.id \in Map
    <2>1. MapCall(p) /\ MapLex(p, typed, i) /\ p.id \notin Class /\ p.id \notin List
      BY <1>3, OneKind DEF Formed, Lex
    <2>2. f.id = Elem[p.id].id /\ f.val = Element(p) /\ Element(p) = p.val[p.slot]
      BY <1>3, <2>1 DEF Linked, SlotType, Element
    <2>3. MapFits(g, "given", typed, i) /\ Keeps(g, p)
      BY <1>3, <2>1, <2>2, MapReturns
    <2> QED BY <1>3, <2>3 DEF Fits, Keeps
  <1> QED BY <1>1, <1>2, <1>3 DEF Formed

\* An activation that is finished has written something writable.
LEMMA FinishedSound ==
  ASSUME NEW f, NEW typed, NEW i \in 1..MaxDepth, NEW s, NEW s2, NEW tok, Formed(f), Fits(f, s, typed, i), f.pc = "close",
         tok = Mark(IF f.id \in List THEN "]" ELSE EndBrace), Took(tok, s, s2)
  PROVE  GoalSound(f, typed, i) /\ s2 = "given"
  <1>1. s # "comma" /\ s2 = "given"
    <2>1. CASE f.id \in List
      <3>1. tok = Mark("]")
        BY <2>1
      <3> QED BY <3>1, TookIs
    <2>2. CASE f.id \notin List
      <3>1. tok = Mark(EndBrace)
        BY <2>2, Zenon
      <3> QED BY <3>1, TookIs
    <2> QED BY <2>1, <2>2
  <1>2. CASE f.id \in Class
    BY <1>1, <1>2, OneKind, ObjectDone DEF Formed, Fits, ObjectFits
  <1>3. CASE f.id \in List
    BY <1>1, <1>3, OneKind, ListDone DEF Formed, Fits
  <1>4. CASE f.id \in Map
    BY <1>1, <1>4, OneKind, MapDone DEF Formed, Fits, MapFits
  <1> QED BY <1>1, <1>2, <1>3, <1>4 DEF Formed

\* A token that is read takes the lexer to where the writer goes.
LEMMA FollowedLexed ==
  ASSUME NEW a, NEW n, NEW f, NEW s, NEW typed, Facing(a, n, f), LexLevels(a, typed, n), Follows(Move(a, typed), a, f, s, typed, n),
         NEW b, b = Move(a, typed).calls
  PROVE  Lexed(b, s, typed)
  <1>1. CASE Passes(Move(a, typed), a, f, s, typed, n)
    BY <1>1, LexSame DEF Passes
  <1>2. CASE Descending(Move(a, typed), a, f, s, typed, n)
    BY <1>2, LexUp DEF Descending
  <1> QED BY <1>1, <1>2 DEF Follows

LEMMA LexClosed ==
  ASSUME NEW a, NEW n, NEW f, NEW s, NEW s2, NEW tok, NEW typed, Facing(a, n, f), Lexed(a, s, typed), f.pc = "close",
         Move(a, typed).out = <<tok>>, Took(tok, s, s2), NEW b, b = Move(a, typed).calls
  PROVE  Lexed(b, s2, typed)
  <1>1. Fits(f, s, typed, n) /\ LexLevels(a, typed, n) /\ Formed(f) /\ f.id \in TypeId
    BY LexedIs
  <1>2. /\ n \in 1..MaxDepth /\ n \in Nat /\ n > 0 /\ Match(a) /\ a # <<>> /\ n = Len(doc) /\ f = a[n] /\ IsSeq(a, n)
    BY FacingIs
  <1>3. PICK x : x = IF f.id \in List THEN "]" ELSE EndBrace
    OBVIOUS
  <1>4. /\ Move(a, typed).out = <<Mark(x)>>
        /\ n = 1 => b = <<>>
        /\ n > 1 => \A p : p = a[n - 1] => b = Under(a, Returned(p))
    BY <1>3, CloseOut
  <1>5. tok = Mark(x)
    <2>1. \A y, z : <<y>> = <<z>> => y = z
      OBVIOUS
    <2> QED BY <1>4, <2>1
  <1>6. GoalSound(f, typed, n) /\ s2 = "given"
    <2>1. tok = Mark(IF f.id \in List THEN "]" ELSE EndBrace)
      BY <1>3, <1>5, Zenon
    <2> QED BY <1>1, <1>2, <2>1, FinishedSound
  <1>7. CASE n = 1
    <2>1. a[1].id = RootType /\ a[1].val = obj
      BY <1>2, MatchIs
    <2>2. f.id = RootType /\ f.val = obj
      BY <1>2, <1>7, <2>1
    <2>3. n - 1 = 0
      BY <1>7
    <2>4. Sound(typed, 0, RootType, obj)
      BY <1>6, <2>2, <2>3 DEF GoalSound
    <2> QED BY <1>4, <1>7, <2>4 DEF Lexed
  <1>8. CASE n > 1
    <2>1. PICK i, p : i = n - 1 /\ p = a[i]
      OBVIOUS
    <2>2. i \in 1..MaxDepth /\ i \in 1..(n - 1) /\ i \in 1..n /\ i + 1 = n
      BY <1>2, <1>8, <2>1, BoundsAssumption
    <2>3. At(p, doc[i], stack[i], inst[i], i) /\ Chain(p, f, stack[n], i)
      BY <1>8, <2>1, CallerIs
    <2>4. Formed(p)
      BY <2>3, FormedIs
    <2>5. Lex(p, typed, i) /\ Linked(p, f)
      BY <1>1, <1>2, <2>1, <2>2 DEF LexLevels
    <2>6. p.pc = "value" /\ (p.id \in List => Element(p) # NullPtr)
      BY <2>3 DEF Chain, Element
    <2>7. Sound(typed, i, f.id, f.val)
      BY <1>6, <2>1 DEF GoalSound
    <2>8. f.id \in Class \cup List \cup Map
      BY <1>1 DEF Formed
    <2>9. PICK g : g = Returned(p)
      OBVIOUS
    <2>10. Fits(g, "given", typed, i) /\ Keeps(g, p)
      BY <2>2, <2>4, <2>5, <2>6, <2>7, <2>8, <2>9, ReturnsFit
    <2>11. b = Under(a, g)
      BY <1>4, <1>8, <2>1, <2>9
    <2> QED BY <1>1, <1>6, <1>8, <2>1, <2>10, <2>11, LexDown
  <1> QED BY <1>2, <1>7, <1>8

LEMMA LexTook ==
  ASSUME NEW a, NEW n, NEW f, NEW s, NEW s2, NEW tok, NEW typed, Facing(a, n, f), Lexed(a, s, typed),
         f.id \in Map => f.pc # "object", Move(a, typed).out = <<tok>>, Took(tok, s, s2), NEW b, b = Move(a, typed).calls
  PROVE  Lexed(b, s2, typed)
  <1>1. Fits(f, s, typed, n) /\ LexLevels(a, typed, n) /\ Formed(f)
    BY LexedIs
  <1>2. n \in 1..MaxDepth /\ Last(a) = f
    BY FacingIs
  <1>3. CASE f.pc = "close"
    BY <1>3, LexClosed
  <1>4. CASE f.pc # "close"
    <2>1. CASE f.id \in Class
      <3>1. ObjectCall(f) /\ ObjectFits(f, s, typed, n)
        BY <1>1, <2>1, OneKind DEF Formed, Fits
      <3>2. Follows(Move(a, typed), a, f, s2, typed, n)
        BY <1>2, <1>4, <2>1, <3>1, ObjectFollows
      <3> QED BY <1>1, <3>2, FollowedLexed
    <2>2. CASE f.id \in List
      <3>1. ListCall(f) /\ ListFits(f, s, typed, n)
        BY <1>1, <2>2, OneKind DEF Formed, Fits
      <3>2. Follows(Move(a, typed), a, f, s2, typed, n)
        BY <1>2, <1>4, <2>2, <3>1, ListFollows
      <3> QED BY <1>1, <3>2, FollowedLexed
    <2>3. CASE f.id \in Map
      <3>1. MapCall(f) /\ MapFits(f, s, typed, n)
        BY <1>1, <2>3, OneKind DEF Formed, Fits
      <3>2. Follows(Move(a, typed), a, f, s2, typed, n)
        BY <1>2, <1>4, <2>3, <3>1, MapFollows
      <3> QED BY <1>1, <3>2, FollowedLexed
    <2> QED BY <1>1, <2>1, <2>2, <2>3 DEF Formed
  <1> QED BY <1>3, <1>4

-----------------------------------------------------------------------------
\* What the reader does with a token, to the lexer and to the count of events.
LEMMA ReadTook ==
  ASSUME Read, status' = "parsing"
  PROVE  Took(Cur, sep, sep')
  <1>1. \A s : Consume(s) => sep' = s
    BY DEF Consume
  <1>2. CASE read_open
    <2>1. /\ sep # "given" /\ (Cur = Mark(Brace) \/ Cur = Mark("["))
          /\ Consume("open")
      BY <1>2, Zenon DEF read_open, Marked, Brace
    <2>2. sep' = "open"
      BY <1>1, <2>1
    <2> QED BY <2>1, <2>2 DEF Took
  <1>3. CASE read_close
    <2>1. /\ sep # "comma" /\ (Cur = Mark(EndBrace) \/ Cur = Mark("]"))
          /\ Consume("given")
      BY <1>3, Zenon DEF read_close, Marked, EndBrace
    <2>2. sep' = "given"
      BY <1>1, <2>1
    <2> QED BY <2>1, <2>2 DEF Took
  <1>4. CASE read_comma
    <2>1. Cur = Mark(CommaSign) /\ sep = "given" /\ Consume("comma")
      BY <1>4, Zenon DEF read_comma, Marked, CommaSign
    <2>2. sep' = "comma"
      BY <1>1, <2>1
    <2> QED BY <2>1, <2>2 DEF Took
  <1>5. CASE read_key
    <2>1. Cur.t = "key" /\ sep \in {"open", "comma"} /\ sep' = "colon"
      BY <1>1, <1>5 DEF read_key
    <2> QED BY <2>1 DEF Took
  <1>6. CASE read_scalar
    <2>1. Cur.t \notin {"mark", "key"} /\ sep # "given" /\ sep' = "given"
      BY <1>1, <1>6 DEF read_scalar, Scalar
    <2> QED BY <2>1 DEF Took
  <1>7. CASE read_null
    <2>1. Cur.t \notin {"mark", "key"} /\ sep # "given" /\ sep' = "given"
      BY <1>1, <1>7 DEF read_null
    <2> QED BY <2>1 DEF Took
  <1>8. CASE read_misfit
    BY <1>8 DEF read_misfit, parse_error, EvError
  <1>9. CASE read_end
    BY <1>9 DEF read_end, finish, EvFinish, parse_error, EvError
  <1> QED BY <1>2, <1>3, <1>4, <1>5, <1>6, <1>7, <1>8, <1>9 DEF Read

LEMMA ReadCounts ==
  ASSUME Read, status' = "parsing"
  PROVE  (nev' = nev + 1 \/ nev' = nev) /\ (Cur = Mark(Brace) => nev' = nev + 1)
  <1>1. ReadOne
    BY ReadsOne
  <1>2. start_object => nev' = nev + 1
    BY Zenon DEF start_object, start_object_member, start_object_element, start_object_skipped, EvOpen, Fresher
  <1>3. start_array => nev' = nev + 1
    BY Zenon DEF start_array, start_array_member, start_array_element, start_array_refused, start_array_skipped, EvOpen, Fresher
  <1>4. end_object => nev' = nev + 1
    BY Zenon DEF end_object, end_object_root, end_object_nested, EvClose, Fresher
  <1>5. end_array => nev' = nev + 1
    BY Zenon DEF end_array, end_array_list, end_array_skipped, EvClose, Fresher
  <1>6. UNCHANGED vars => nev' = nev
    BY DEF vars
  <1>7. key(Cur.v) => nev' = nev + 1
    BY DEF key, EvKey, Fresher
  <1>8. set_value(Cur) => nev' = nev + 1
    BY DEF set_value, EvScalar, Fresher
  <1>9. null => nev' = nev + 1
    BY DEF null, EvNull, Fresher
  <1>10. Cur = Mark(Brace) => start_object
    BY Handled
  <1> QED BY <1>1, <1>2, <1>3, <1>4, <1>5, <1>6, <1>7, <1>8, <1>9, <1>10 DEF ReadOne

-----------------------------------------------------------------------------
\* If the object is writable, so is all that is being written of it.
LEMMA EmptySound ==
  ASSUME NEW typed, NEW i \in 1..MaxDepth, NEW t \in List \cup Map
  PROVE  Sound(typed, i - 1, t, <<>>)
  <1>1. DOMAIN <<>> = {}
    BY EmptyIsFunction
  <1>2. CASE t \in List
    <2>1. <<>> \in Content[t]
      BY <1>2, ContentAssumption
    <2> QED BY <1>1, <1>2, <2>1, SoundList
  <1>3. CASE t \in Map
    <2>1. <<>> \in Content[t]
      BY <1>3, ContentAssumption
    <2>2. \A k \in DOMAIN <<>> : AsRead(k) # Refused /\ Sound(typed, i, Elem[t].id, <<>>[k])
      BY <1>1
    <2> QED BY <1>1, <1>3, <2>1, <2>2, SoundMap
  <1> QED BY <1>2, <1>3

LEMMA LinkSound ==
  ASSUME NEW p, NEW f, NEW typed, NEW i \in 1..MaxDepth, NEW j \in 1..MaxDepth, j - 1 = i, Formed(p), p.pc = "value", Linked(p, f),
         GoalSound(p, typed, i), p.id \in List => Element(p) # NullPtr
  PROVE  GoalSound(f, typed, j)
  <1> SUFFICES Sound(typed, i, f.id, f.val)
    BY DEF GoalSound
  <1>1. PICK c, v : c = p.id /\ v = p.val
    OBVIOUS
  <1>2. Sound(typed, i - 1, c, v)
    BY <1>1 DEF GoalSound
  <1>3. CASE c \in Class
    <2>1. ObjectCall(p) /\ p.ct = c /\ v \in Content[c]
      <3>1. ObjectCall(p)
        BY <1>1, <1>3, OneKind DEF Formed
      <3> QED BY <1>1, <3>1 DEF ObjectCall, ObjectCalls
    <2>2. PICK k, t : k = p.slot /\ t = Meta[c][k]
      OBVIOUS
    <2>3. f.id = t /\ f.val = IF k \in Getter[c] THEN v[k] ELSE <<>>
      BY <1>1, <1>3, <2>1, <2>2 DEF Linked, SlotType, MemberContent
    <2>4. k \in DOMAIN Ast[c] /\ (k \notin Getter[c] => t \in List \cup Map)
      BY <1>1, <1>3, <2>1, <2>2, ObjectValue
    <2>5. CASE k \in Getter[c]
      <3>1. k \in Answered(c)
        BY <2>4, <2>5 DEF Answered
      <3>2. Sound(typed, i, Meta[c][k], v[k])
        BY <1>2, <1>3, <2>1, <3>1, SoundObject
      <3> QED BY <2>2, <2>3, <2>5, <3>2
    <2>6. CASE k \notin Getter[c]
      <3>1. Sound(typed, j - 1, t, <<>>)
        BY <2>4, <2>6, EmptySound
      <3> QED BY <2>3, <2>6, <3>1
    <2> QED BY <2>5, <2>6
  <1>4. CASE c \in List
    <2>1. ListCall(p) /\ c \notin Class
      BY <1>1, <1>4, OneKind DEF Formed
    <2>2. v \in Content[c] /\ p.next \in Nat /\ p.next > 0 /\ p.next <= Len(v) /\ Len(v) \in Nat /\ IsSeq(v, Len(v))
      BY <1>1, <1>4, <2>1, ListParts
    <2>3. f.id = Elem[c].id /\ f.val = v[p.next] /\ v[p.next] # NullPtr
      BY <1>1, <1>4, <2>1 DEF Linked, SlotType, Element
    <2>4. p.next \in DOMAIN v
      BY <2>2 DEF IsSeq
    <2>5. v # <<NullPtr>>
      BY <2>2, <2>3
    <2>6. \A l \in DOMAIN v : v[l] # NullPtr /\ Sound(typed, i, Elem[c].id, v[l])
      BY <1>2, <1>4, <2>2, <2>5, SoundList
    <2> QED BY <2>3, <2>4, <2>6
  <1>5. CASE c \in Map
    <2>1. MapCall(p) /\ c \notin Class /\ c \notin List
      BY <1>1, <1>5, OneKind DEF Formed
    <2>2. v \in Content[c] /\ Elem[c].id \notin Asts /\ p.slot \in DOMAIN v
      BY <1>1, <1>5, <2>1, MapParts
    <2>3. f.id = Elem[c].id /\ f.val = v[p.slot]
      BY <1>1, <1>5, <2>1 DEF Linked, SlotType, Element
    <2>4. \A k \in DOMAIN v : AsRead(k) # Refused /\ Sound(typed, i, Elem[c].id, v[k])
      BY <1>2, <1>5, <2>2, SoundMap
    <2> QED BY <2>2, <2>3, <2>4
  <1> QED BY <1>1, <1>3, <1>4, <1>5 DEF Formed

LEMMA AllSound ==
  ASSUME NEW a, NEW n, NEW f, NEW s, NEW typed, Facing(a, n, f), Lexed(a, s, typed), Sound(typed, 0, RootType, obj)
  PROVE  GoalSound(f, typed, n)
  <1>1. /\ n \in 1..MaxDepth /\ n \in Nat /\ n > 0 /\ f = a[n] /\ a[1].id = RootType /\ a[1].val = obj
        /\ Levels(a, doc, stack, inst, n)
    BY FacingIs, MatchIs
  <1>2. LexLevels(a, typed, n)
    BY LexedIs
  <1>3. PICK m \in Nat : m = n - 1
    BY <1>1
  <1>4. PICK T : T = {k \in 0..m : GoalSound(a[k + 1], typed, k + 1)}
    OBVIOUS
  <1>5. 0 \in T
    <2>1. 0 + 1 = 1 /\ 1 - 1 = 0 /\ 0 \in 0..m
      OBVIOUS
    <2>2. GoalSound(a[1], typed, 1)
      BY <1>1, <2>1 DEF GoalSound
    <2> QED BY <1>4, <2>1, <2>2
  <1>6. ASSUME NEW k \in 0..(m - 1), k \in T
        PROVE  k + 1 \in T
    <2>1. PICK i, j : i = k + 1 /\ j = i + 1
      OBVIOUS
    <2>2. /\ i \in 1..MaxDepth /\ j \in 1..MaxDepth /\ j - 1 = i /\ i \in 1..(n - 1) /\ i \in 1..n /\ i \in 0..m
          /\ (k + 1) + 1 = j
      BY <1>1, <1>3, <2>1, BoundsAssumption
    <2>3. PICK p, g : p = a[i] /\ g = a[j]
      OBVIOUS
    <2>4. At(p, doc[i], stack[i], inst[i], i) /\ Chain(p, g, stack[j], i)
      BY <1>1, <2>1, <2>2, <2>3 DEF Levels
    <2>5. Formed(p) /\ p.pc = "value" /\ (p.id \in List => Element(p) # NullPtr)
      BY <2>4, FormedIs DEF Chain, Element
    <2>6. Linked(p, g)
      BY <1>2, <2>1, <2>2, <2>3 DEF LexLevels
    <2>7. GoalSound(p, typed, i)
      BY <1>4, <1>6, <2>1, <2>3
    <2>8. GoalSound(g, typed, j)
      BY <2>2, <2>5, <2>6, <2>7, LinkSound
    <2> QED BY <1>4, <2>1, <2>2, <2>3, <2>8
  <1>7. 0..m \subseteq T
    BY <1>5, <1>6, UpTo
  <1>8. m \in 0..m /\ m + 1 = n
    BY <1>1, <1>3
  <1> QED BY <1>1, <1>4, <1>7, <1>8

-----------------------------------------------------------------------------
\* Where a token may stand: behind s, inside an object or not, with a value due
\* or not.
Fitting(tok, s, inobj, due) ==
  \/ tok.t = "key" /\ inobj /\ s \in {"open", "comma"}
  \/ tok = Mark(EndBrace) /\ inobj /\ s \in {"open", "given"}
  \/ tok = Mark("]") /\ ~inobj /\ s \in {"open", "given"}
  \/ tok = Comma /\ s = "given"
  \/ (tok.t \notin {"mark", "key"} \/ tok \in {Mark(Brace), Mark("[")}) /\ due /\ s # "given"

LEMMA AllowedIs ==
  Allowed <=> CASE Cur.t = "key" -> InObject /\ sep \in {"open", "comma"}
                [] Cur \in {Mark(EndBrace), Mark("]")} ->
                     /\ doc # <<>> /\ sep \in {"open", "given"}
                     /\ Cur = Mark(IF InObject THEN EndBrace ELSE "]")
                [] Cur = Comma -> doc # <<>> /\ sep = "given"
                [] Cur = Unlexable -> FALSE
                [] OTHER -> ValueDue /\ sep # "given"
  BY Zenon DEF Allowed, EndBrace

LEMMA FittingAllowed ==
  ASSUME doc # <<>>, Fitting(Cur, sep, InObject, ValueDue)
  PROVE  Allowed
  <1>1. /\ Comma.t = "mark" /\ Comma.v = CommaSign /\ Unlexable.t = "mark" /\ Unlexable.v = "not JSON"
        /\ Mark(Brace).t = "mark" /\ Mark(Brace).v = Brace /\ Mark(EndBrace).t = "mark" /\ Mark(EndBrace).v = EndBrace
        /\ Mark("[").t = "mark" /\ Mark("[").v = "[" /\ Mark("]").t = "mark" /\ Mark("]").v = "]"
    BY Signs, Tokens
  <1>2. CASE Cur.t = "key" /\ InObject /\ sep \in {"open", "comma"}
    <2>1. Cur \notin {Mark(EndBrace), Mark("]")} /\ Cur # Comma /\ Cur # Unlexable
      BY <1>1, <1>2
    <2> QED BY <1>2, <2>1, AllowedIs
  <1>3. CASE Cur = Mark(EndBrace) /\ InObject /\ sep \in {"open", "given"}
    <2>1. Cur.t # "key" /\ Cur # Comma /\ Cur # Unlexable
      BY <1>1, <1>3, Signs
    <2> QED BY <1>3, <2>1, AllowedIs
  <1>4. CASE Cur = Mark("]") /\ ~InObject /\ sep \in {"open", "given"}
    <2>1. Cur.t # "key" /\ Cur # Comma /\ Cur # Unlexable
      BY <1>1, <1>4, Signs
    <2> QED BY <1>4, <2>1, AllowedIs
  <1>5. CASE Cur = Comma /\ sep = "given"
    <2>1. Cur.t # "key" /\ Cur \notin {Mark(EndBrace), Mark("]")} /\ Cur # Unlexable
      BY <1>1, <1>5, Signs
    <2> QED BY <1>5, <2>1, AllowedIs
  <1>6. CASE (Cur.t \notin {"mark", "key"} \/ Cur \in {Mark(Brace), Mark("[")}) /\ ValueDue /\ sep # "given"
    <2>1. Cur.t # "key" /\ Cur \notin {Mark(EndBrace), Mark("]")} /\ Cur # Comma /\ Cur # Unlexable
      BY <1>1, <1>6, Signs
    <2> QED BY <1>6, <2>1, AllowedIs
  <1> QED BY <1>2, <1>3, <1>4, <1>5, <1>6 DEF Fitting

LEMMA FittingIs ==
  ASSUME NEW s, NEW o, NEW due
  PROVE  /\ \A k : o /\ s \in {"open", "comma"} => Fitting(KeyOf(k), s, o, due)
         /\ s = "given" => Fitting(Comma, s, o, due)
         /\ due /\ s # "given" => /\ Fitting(Mark(Brace), s, o, due) /\ Fitting(Mark("["), s, o, due)
                                  /\ \A tok : tok.t \notin {"mark", "key"} => Fitting(tok, s, o, due)
         /\ o /\ s \in {"open", "given"} => Fitting(Mark(EndBrace), s, o, due)
         /\ ~o /\ s \in {"open", "given"} => Fitting(Mark("]"), s, o, due)
  BY Tokens DEF Fitting

\* What is written of a writable object may stand where it does.
LEMMA ObjectReady ==
  ASSUME NEW a, NEW f, NEW typed, NEW i \in 1..MaxDepth, NEW s, NEW tok, NEW o, NEW due, Last(a) = f, f.id \in Class, ObjectCall(f),
         ObjectFits(f, s, typed, i), f.pc # "close", Move(a, typed).out = <<tok>>, GoalSound(f, typed, i), o,
         f.pc \in {"type_text", "value"} => due
  PROVE  Fitting(tok, s, o, due)
  <1>1. f \in ObjectCalls(f.id) /\ f.pc \in ObjectPcs /\ f.ct = f.id /\ f.val \in Content[f.id] /\ f.first \in BOOLEAN
    BY DEF ObjectCall, ObjectCalls
  <1>2. ObjectSep(f, s, typed)
    BY DEF ObjectFits
  <1>3. CASE f.pc \in {"type", "type_text", "type_comma"}
    <2>1. Move(a, typed) = EnvelopeMove(a, f)
      BY <1>3 DEF Move
    <2>2. CASE f.pc = "type"
      <3>1. \E g : EnvelopeMove(a, f) = Writes(a, KeyOf("type"), g)
        BY <2>2 DEF EnvelopeMove
      <3>2. tok = KeyOf("type")
        BY <2>1, <3>1, OneToken
      <3>3. s = "open"
        BY <1>2, <2>2 DEF ObjectSep
      <3> QED BY <3>2, <3>3, FittingIs
    <2>3. CASE f.pc = "type_text"
      <3>1. \E g : EnvelopeMove(a, f) = Writes(a, Str(f.val["type"]), g)
        BY <2>3 DEF EnvelopeMove
      <3>2. tok = Str(f.val["type"])
        BY <2>1, <3>1, OneToken
      <3>3. s = "colon" /\ due
        BY <1>2, <2>3 DEF ObjectSep
      <3>4. tok.t \notin {"mark", "key"}
        BY <3>2, Tokens
      <3> QED BY <3>3, <3>4, FittingIs
    <2>4. CASE f.pc = "type_comma"
      <3>1. \E g : EnvelopeMove(a, f) = Writes(a, Comma, g)
        BY <2>4 DEF EnvelopeMove
      <3>2. tok = Comma
        BY <2>1, <3>1, OneToken
      <3>3. s = "given"
        BY <1>2, <2>4 DEF ObjectSep
      <3> QED BY <3>2, <3>3, FittingIs
    <2> QED BY <1>3, <2>2, <2>3, <2>4
  <1>4. CASE f.pc = "kvs"
    <2>1. Move(a, typed) = KvsMove(a, f, typed)
      BY <1>4 DEF Move
    <2>2. KvsMove(a, f, typed) = Goes(a, Based(f, typed))
      BY <1>4 DEF KvsMove, Based
    <2> QED BY <2>1, <2>2, OneToken
  <1>5. CASE f.pc = "base_comma"
    <2>1. Move(a, typed) = KvsMove(a, f, typed)
      BY <1>5 DEF Move
    <2>2. KvsMove(a, f, typed) = Writes(a, Comma, To(f, "fields"))
      BY <1>5 DEF KvsMove, To
    <2>3. tok = Comma
      BY <2>1, <2>2, OneToken
    <2>4. s = "given"
      BY <1>2, <1>5 DEF ObjectSep
    <2> QED BY <2>3, <2>4, FittingIs
  <1>6. CASE f.pc = "fields"
    <2>1. Move(a, typed) = FieldsMove(a, f)
      BY <1>6 DEF Move
    <2>2. CASE f.keys = {} \/ f.first
      <3>1. \E g : FieldsMove(a, f) = Goes(a, g)
        BY <1>6, <2>2 DEF FieldsMove
      <3> QED BY <2>1, <3>1, OneToken
    <2>3. CASE f.keys # {} /\ ~f.first
      <3>1. FieldsMove(a, f) = Writes(a, Comma, To(f, "field"))
        BY <1>6, <2>3 DEF FieldsMove, To
      <3>2. tok = Comma
        BY <2>1, <3>1, OneToken
      <3>3. s = "given"
        BY <1>2, <1>6, <2>3 DEF ObjectSep
      <3> QED BY <3>2, <3>3, FittingIs
    <2> QED BY <2>2, <2>3
  <1>7. CASE f.pc = "field"
    <2>1. Move(a, typed) = FieldsMove(a, f)
      BY <1>7 DEF Move
    <2>2. PICK k : k = NextOf(f.keys)
      OBVIOUS
    <2>3. FieldsMove(a, f) = Writes(a, KeyOf(k), Naming(f, k))
      BY <1>7, <2>2 DEF FieldsMove, Named, Naming
    <2>4. tok = KeyOf(k)
      BY <2>1, <2>3, OneToken
    <2>5. PICK c, v : c = f.id /\ v = f.val
      OBVIOUS
    <2>6. typed /\ DOMAIN OwnAst[c] = {} => DOMAIN Ast[c] = {}
      <3>1. Sound(typed, i - 1, c, v) /\ c \in Class /\ v \in Content[c]
        BY <1>1, <2>5 DEF GoalSound
      <3> SUFFICES ASSUME typed, DOMAIN OwnAst[c] = {}
                   PROVE  DOMAIN Ast[c] = {}
        OBVIOUS
      <3> QED BY <3>1, SoundObject
    <2>7. DOMAIN Ast[c] # {}
      <3>1. PICK x : x \in f.keys
        BY <1>7 DEF ObjectCall
      <3>2. x \in DOMAIN Ast[c]
        BY <1>1, <2>5, <3>1 DEF ObjectCall
      <3> QED BY <3>2
    <2>8. s \in {"open", "comma"}
      <3>1. s \in {Heading(c, typed), "comma"}
        BY <1>2, <1>7, <2>5 DEF ObjectSep
      <3> QED BY <2>6, <2>7, <3>1 DEF Heading
    <2> QED BY <2>4, <2>8, FittingIs
  <1>8. CASE f.pc = "value"
    <2>1. s = "colon" /\ due
      BY <1>2, <1>8 DEF ObjectSep
    <2>2. PICK t : t = Meta[f.id][f.slot]
      OBVIOUS
    <2>3. ASSUME NEW x \in {Brace, "["}, NEW g, Move(a, typed) = Enters(a, x, g)
          PROVE  Fitting(tok, s, o, due)
      <3>1. tok = Mark(x)
        BY <2>3, OneToken
      <3> QED BY <2>1, <3>1, FittingIs
    <2>4. CASE t \in List \cup Map \cup Class
      <3>1. \E x \in {Brace, "["} : \E g : Move(a, typed) = Enters(a, x, g)
        BY <1>8, <2>2, <2>4, MemberMove
      <3> QED BY <2>3, <3>1
    <2>5. CASE t \notin List \cup Map \cup Class
      <3>1. PICK w, g : w = MemberToken(t, f.val[f.slot]) /\ g = Returned(f)
        OBVIOUS
      <3>2. f.slot \in Getter[f.id] /\ Move(a, typed) = Writes(a, w, g)
        BY <1>8, <2>2, <2>5, <3>1, MemberMove
      <3>5. Sound(typed, i, t, f.val[f.slot])
        <4>1. PICK c, v, k : c = f.id /\ v = f.val /\ k = f.slot
          OBVIOUS
        <4>2. c \in Class /\ v \in Content[c] /\ Sound(typed, i - 1, c, v)
          BY <1>1, <4>1 DEF GoalSound
        <4>3. k \in DOMAIN Ast[c]
          BY <1>8, <4>1, ObjectValue
        <4>4. k \in Answered(c)
          BY <3>2, <4>1, <4>3 DEF Answered
        <4>5. Sound(typed, i, Meta[c][k], v[k])
          BY <4>2, <4>4, SoundObject
        <4> QED BY <2>2, <4>1, <4>5
      <3>6. i \in 0..MaxDepth
        BY BoundsAssumption
      <3>3. w.t \notin {"mark", "key"}
        BY <1>8, <2>2, <2>5, <3>1, <3>2, <3>5, <3>6, ScalarMember
      <3>4. tok = w
        BY <3>2, OneToken
      <3> QED BY <2>1, <3>3, <3>4, FittingIs
    <2> QED BY <2>4, <2>5
  <1> QED BY <1>1, <1>3, <1>4, <1>5, <1>6, <1>7, <1>8 DEF ObjectPcs, AtTheHead

\* The value a list or a map is at, when it is writable.
LEMMA ElementReady ==
  ASSUME NEW a, NEW f, NEW typed, NEW i \in 1..MaxDepth, NEW s, NEW tok, NEW o, NEW due, Last(a) = f, f.id \in List \cup Map,
         Elemental(f), f.pc = "value", Move(a, typed).out = <<tok>>, Element(f) # NullPtr => Sound(typed, i, Elem[f.id].id, Element(f)),
         due, s # "given"
  PROVE  Fitting(tok, s, o, due)
  <1>1. PICK e, x : e = Elem[f.id].id /\ x = Element(f)
    OBVIOUS
  <1>2. x # NullPtr
    BY <1>1, ElementMove, OneToken
  <1>3. ASSUME NEW y \in {Brace, "["}, NEW g, Move(a, typed) = Enters(a, y, g)
        PROVE  Fitting(tok, s, o, due)
    <2>1. tok = Mark(y)
      BY <1>3, OneToken
    <2> QED BY <2>1, FittingIs
  <1>4. CASE e \in Class \cup List
    <2>1. \E y \in {Brace, "["} : \E g : Move(a, typed) = Enters(a, y, g)
      BY <1>1, <1>2, <1>4, ElementMove
    <2> QED BY <1>3, <2>1
  <1>5. CASE e \notin Class \cup List
    <2>1. PICK w, g : w = prim_token(Val(e, e, x)) /\ g = Returned(f)
      OBVIOUS
    <2>2. Move(a, typed) = Writes(a, w, g)
      BY <1>1, <1>5, <2>1, ElementMove
    <2>3. tok = w
      BY <2>2, OneToken
    <2>4. i \in 0..MaxDepth
      BY BoundsAssumption
    <2>5. tok.t \notin {"mark", "key"}
      BY <1>1, <1>2, <1>5, <2>1, <2>3, <2>4, ScalarElement
    <2> QED BY <2>5, FittingIs
  <1> QED BY <1>4, <1>5

\* The elements of a writable list, if it is not the one of a null pointer.
LEMMA SoundElement ==
  ASSUME NEW f, NEW typed, NEW i \in 1..MaxDepth, f.id \in List, ListCall(f), GoalSound(f, typed, i), NEW j \in 1..Len(f.val)
  PROVE  \/ f.val[j] = NullPtr /\ Len(f.val) = 1
         \/ f.val[j] # NullPtr /\ Sound(typed, i, Elem[f.id].id, f.val[j])
  <1>1. PICK c, v : c = f.id /\ v = f.val
    OBVIOUS
  <1>2. Sound(typed, i - 1, c, v)
    BY <1>1 DEF GoalSound
  <1>3. c \in List /\ v \in Content[c] /\ Len(v) \in Nat /\ IsSeq(v, Len(v)) /\ j \in 1..Len(v)
    BY <1>1, ListParts
  <1>4. v = <<NullPtr>> \/ \A l \in DOMAIN v : v[l] # NullPtr /\ Sound(typed, i, Elem[c].id, v[l])
    BY <1>2, <1>3, SoundList
  <1>5. CASE v = <<NullPtr>>
    <2>1. Len(v) = 1 /\ v[1] = NullPtr
      BY <1>5
    <2>2. j = 1
      BY <1>3, <2>1
    <2> QED BY <1>1, <2>1, <2>2
  <1>6. CASE \A l \in DOMAIN v : v[l] # NullPtr /\ Sound(typed, i, Elem[c].id, v[l])
    <2>1. j \in DOMAIN v
      BY <1>3 DEF IsSeq
    <2> QED BY <1>1, <1>6, <2>1
  <1> QED BY <1>4, <1>5, <1>6

LEMMA ListReady ==
  ASSUME NEW a, NEW f, NEW typed, NEW i \in 1..MaxDepth, NEW s, NEW tok, NEW o, NEW due, Last(a) = f, f.id \in List, ListCall(f),
         ListFits(f, s, typed, i), f.pc # "close", Move(a, typed).out = <<tok>>, GoalSound(f, typed, i), due
  PROVE  Fitting(tok, s, o, due)
  <1>1. /\ f.pc \in {"elems", "value", "close"} /\ f.next \in Nat /\ f.next > 0 /\ Len(f.val) \in Nat
        /\ f.pc = "value" => f.next <= Len(f.val)
    BY ListParts
  <1>2. CASE f.pc = "value"
    <2>1. Elemental(f)
      BY DEF Elemental
    <2>2. s # "given"
      BY <1>2 DEF ListFits, ListSep
    <2>3. f.next \in 1..Len(f.val)
      BY <1>1, <1>2
    <2>4. Element(f) = f.val[f.next]
      BY DEF Element
    <2>5. Element(f) # NullPtr => Sound(typed, i, Elem[f.id].id, Element(f))
      BY <2>3, <2>4, SoundElement
    <2> QED BY <1>2, <2>1, <2>2, <2>5, ElementReady
  <1>3. CASE f.pc = "elems"
    <2>1. Move(a, typed) = ListMove(a, f)
      BY <1>3 DEF Move
    <2>2. CASE f.next > Len(f.val) \/ ~(f.next > 1)
      <3>1. ~(f.next <= Len(f.val) /\ f.next > 1)
        BY <1>1, <2>2
      <3>2. \E g : ListMove(a, f) = Goes(a, g)
        BY <3>1 DEF ListMove
      <3> QED BY <2>1, <3>2, OneToken
    <2>3. CASE ~(f.next > Len(f.val)) /\ f.next > 1
      <3>1. f.next <= Len(f.val)
        BY <1>1, <2>3
      <3>2. \E g : ListMove(a, f) = Writes(a, Comma, g)
        BY <2>3, <3>1 DEF ListMove
      <3>3. tok = Comma
        BY <2>1, <3>2, OneToken
      <3>4. f.next - 1 \in 1..Len(f.val) /\ Len(f.val) # 1
        <4>1. PICK m \in Nat, l \in Nat : m = f.next /\ l = Len(f.val)
          BY <1>1
        <4>2. m > 1 /\ m <= l
          BY <2>3, <3>1, <4>1
        <4>3. m - 1 \in 1..l /\ l # 1
          BY <4>2
        <4> QED BY <4>1, <4>3
      <3>5. f.val[f.next - 1] # NullPtr
        BY <3>4, SoundElement
      <3>6. s = "given"
        BY <1>3, <2>3, <3>5 DEF ListFits, ListSep
      <3> QED BY <3>3, <3>6, FittingIs
    <2> QED BY <2>2, <2>3
  <1> QED BY <1>1, <1>2, <1>3

LEMMA MapReady ==
  ASSUME NEW a, NEW f, NEW typed, NEW i \in 1..MaxDepth, NEW s, NEW tok, NEW o, NEW due, Last(a) = f, f.id \in Map, MapCall(f),
         MapFits(f, s, typed, i), f.pc # "close", Move(a, typed).out = <<tok>>, GoalSound(f, typed, i), o, f.pc = "value" => due
  PROVE  f.pc # "object" /\ Fitting(tok, s, o, due)
  <1>1. /\ f.pc \in {"entries", "entry", "object", "value", "close"} /\ f.val \in Content[f.id]
        /\ f.pc = "value" => Elem[f.id].id \notin Asts /\ f.slot \in DOMAIN f.val
        /\ f.first \in BOOLEAN
    BY MapParts
  <1>2. PICK c, v : c = f.id /\ v = f.val
    OBVIOUS
  <1>3. Sound(typed, i - 1, c, v) /\ c \in Map /\ v \in Content[c]
    BY <1>1, <1>2 DEF GoalSound
  <1>4. f.pc # "object"
    <2> SUFFICES ASSUME f.pc = "object"
                 PROVE  FALSE
      OBVIOUS
    <2>1. Elem[c].id \in Class /\ f.slot \in DOMAIN v
      BY <1>2 DEF MapCall
    <2>2. Elem[c].id \in Asts
      BY <2>1, ClassIs
    <2>3. DOMAIN v = {}
      BY <1>3, <2>2, SoundMap
    <2> QED BY <2>1, <2>3
  <1>5. CASE f.pc = "value"
    <2>1. Elemental(f)
      BY DEF Elemental
    <2>2. s # "given"
      BY <1>5 DEF MapFits, MapSep
    <2>3. Element(f) = v[f.slot]
      BY <1>2, OneKind DEF Element
    <2>4. Elem[c].id \notin Asts /\ f.slot \in DOMAIN v
      BY <1>1, <1>2, <1>5
    <2>5. Sound(typed, i, Elem[c].id, v[f.slot])
      BY <1>3, <2>4, SoundMap
    <2>6. Sound(typed, i, Elem[f.id].id, Element(f))
      BY <1>2, <2>3, <2>5
    <2> QED BY <1>5, <2>1, <2>2, <2>6, ElementReady
  <1>6. CASE f.pc = "entries"
    <2>1. Move(a, typed) = MapMove(a, f, typed)
      BY <1>6 DEF Move
    <2>2. CASE f.keys = {} \/ f.first
      <3>1. \E g : MapMove(a, f, typed) = Goes(a, g)
        BY <1>6, <2>2 DEF MapMove
      <3> QED BY <2>1, <3>1, OneToken
    <2>3. CASE f.keys # {} /\ ~f.first
      <3>1. MapMove(a, f, typed) = Writes(a, Comma, To(f, "entry"))
        BY <1>6, <2>3 DEF MapMove, To
      <3>2. tok = Comma
        BY <2>1, <3>1, OneToken
      <3>3. s = "given"
        BY <1>6, <2>3 DEF MapFits, MapSep
      <3> QED BY <1>4, <3>2, <3>3, FittingIs
    <2> QED BY <2>2, <2>3
  <1>7. CASE f.pc = "entry"
    <2>1. Move(a, typed) = MapMove(a, f, typed)
      BY <1>7 DEF Move
    <2>2. CASE Elem[f.id].id \in Asts
      <3>1. \E g : MapMove(a, f, typed) = Goes(a, g)
        BY <1>7, <2>2 DEF MapMove
      <3> QED BY <2>1, <3>1, OneToken
    <2>3. CASE Elem[f.id].id \notin Asts
      <3>1. PICK k : k = NextOf(f.keys)
        OBVIOUS
      <3>2. MapMove(a, f, typed) = Writes(a, RawKey(k), Naming(f, k))
        BY <1>7, <2>3, <3>1 DEF MapMove, Named, Naming
      <3>5. AsRead(k) # Refused
        <4>1. k \in DOMAIN v
          BY <1>2, <1>7, <3>1, NextIs, MapParts
        <4>2. Elem[c].id \notin Asts
          BY <1>2, <2>3
        <4> QED BY <1>3, <4>1, <4>2, SoundMap
      <3>3. tok = KeyOf(AsRead(k))
        BY <2>1, <3>2, <3>5, OneToken DEF RawKey
      <3>4. s \in {"open", "comma"}
        BY <1>7 DEF MapFits, MapSep
      <3> QED BY <1>4, <3>3, <3>4, FittingIs
    <2> QED BY <2>2, <2>3
  <1> QED BY <1>1, <1>4, <1>5, <1>6, <1>7

LEMMA CloseReady ==
  ASSUME NEW f, NEW typed, NEW i \in 1..MaxDepth, NEW s, NEW tok, NEW o, NEW due, Formed(f), Fits(f, s, typed, i), f.pc = "close",
         tok = Mark(IF f.id \in List THEN "]" ELSE EndBrace), GoalSound(f, typed, i), o <=> f.id \notin List
  PROVE  Fitting(tok, s, o, due)
  <1>1. CASE f.id \in List
    <2>1. ListCall(f) /\ ListSep(f, s)
      BY <1>1, OneKind DEF Formed, Fits, ListFits
    <2>2. f.next \in Nat /\ f.next > 0 /\ Len(f.val) \in Nat /\ f.next = Len(f.val) + 1
      BY <1>1, <2>1, ListParts
    <2>3. s \in {"open", "given"}
      <3>1. CASE f.next = 1
        BY <1>1, <2>1, <3>1 DEF ListSep
      <3>2. CASE f.next > 1
        <4>1. f.next - 1 \in 1..Len(f.val)
          BY <2>2, <3>2
        <4>2. f.val[f.next - 1] = NullPtr => f.next = 2
          BY <1>1, <2>1, <2>2, <4>1, SoundElement
        <4> QED BY <2>1, <3>2, <4>2 DEF ListSep
      <3> QED BY <2>2, <3>1, <3>2
    <2>4. tok = Mark("]")
      BY <1>1
    <2> QED BY <1>1, <2>3, <2>4, FittingIs
  <1>2. CASE f.id \notin List
    <2>1. tok = Mark(EndBrace)
      BY <1>2, Zenon
    <2>2. s \in {"open", "given"}
      BY <1>2 DEF Fits, ObjectFits, ObjectSep, MapFits, MapSep
    <2> QED BY <1>2, <2>1, <2>2, FittingIs
  <1> QED BY <1>1, <1>2

LEMMA PlaceIs ==
  ASSUME NEW a, NEW n, NEW f, Facing(a, n, f)
  PROVE  /\ InObject <=> f.id \notin List
         /\ f.id \in List => ValueDue
         /\ f.id \in Class /\ f.pc \in {"type_text", "value"} => ValueDue
         /\ f.id \in Map /\ f.pc = "value" => ValueDue
  <1>1. /\ n = Len(doc) /\ n \in Nat /\ n > 0 /\ doc # <<>> /\ At(f, doc[n], stack[n], inst[n], n)
    BY FacingIs
  <1>2. PICK d : d = doc[n]
    OBVIOUS
  <1>3. Last(doc) = d
    BY <1>1, <1>2 DEF Last
  <1>4. InObject <=> doc # <<>> /\ Last(doc).open = Brace
    BY Zenon DEF InObject, Brace
  <1>5. InObject <=> d.open = Brace
    BY <1>1, <1>3, <1>4
  <1>6. ValueDue <=> d.open = "[" \/ d.key # NoKey
    BY <1>1, <1>3 DEF ValueDue
  <1>7. PICK nd, v : nd = stack[n] /\ v = inst[n]
    OBVIOUS
  <1>8. At(f, d, nd, v, n)
    BY <1>1, <1>2, <1>7
  <1>9. CASE f.id \in Class
    <2>1. ObjectAt(f, d, nd, v, n) /\ f.id \notin List /\ f.id \notin Map
      BY <1>8, <1>9, OneKind DEF At
    <2>2. d.open = Brace /\ ObjectCall(f)
      BY <2>1 DEF ObjectAt
    <2>3. ASSUME f.pc = "value"
          PROVE  d.key # NoKey
      <3>1. d.key = f.slot
        BY <2>1, <2>3 DEF ObjectAt
      <3>2. PICK c, k : c = f.id /\ k = f.slot
        OBVIOUS
      <3>3. k \in DOMAIN Ast[c]
        BY <1>9, <2>2, <2>3, <3>2, ObjectValue
      <3>4. k # NoKey
        BY <1>9, <3>2, <3>3, FieldIs
      <3> QED BY <3>1, <3>2, <3>4
    <2>4. ASSUME f.pc = "type_text"
          PROVE  d.key # NoKey
      <3>1. d.key = "type"
        BY <2>1, <2>4 DEF ObjectAt
      <3>2. "type" \in Key
        BY <1>9, ClassIs, SchemaAssumption
      <3> QED BY <3>1, <3>2, SchemaAssumption
    <2> QED BY <1>5, <1>6, <2>1, <2>2, <2>3, <2>4
  <1>10. CASE f.id \in List
    <2>1. ListAt(f, d, nd, v, n) /\ f.id \notin Class /\ f.id \notin Map
      BY <1>8, <1>10, OneKind DEF At
    <2>2. d.open = "["
      BY <2>1 DEF ListAt
    <2> QED BY <1>5, <1>6, <1>10, <2>1, <2>2, Signs
  <1>11. CASE f.id \in Map
    <2>1. MapAt(f, d, nd, v, n) /\ f.id \notin Class /\ f.id \notin List
      BY <1>8, <1>11, OneKind, MapIs
    <2>2. d.open = Brace
      BY <2>1 DEF MapAt
    <2>3. f.pc = "value" => d.key # NoKey
      BY <1>8, <1>11, ElementalIs
    <2> QED BY <1>5, <1>6, <1>11, <2>1, <2>2, <2>3
  <1> QED BY <1>8, <1>9, <1>10, <1>11 DEF At

LEMMA Ready ==
  ASSUME NEW a, NEW n, NEW f, NEW s, NEW tok, NEW typed, Facing(a, n, f), Lexed(a, s, typed), Sound(typed, 0, RootType, obj),
         Move(a, typed).out = <<tok>>
  PROVE  (f.id \in Map => f.pc # "object") /\ Fitting(tok, s, InObject, ValueDue)
  <1>1. n \in 1..MaxDepth /\ Last(a) = f
    BY FacingIs
  <1>2. Fits(f, s, typed, n) /\ Formed(f)
    BY LexedIs
  <1>3. GoalSound(f, typed, n)
    BY AllSound
  <1>4. PICK o, due : o = InObject /\ due = ValueDue
    OBVIOUS
  <1>5. /\ o <=> f.id \notin List
        /\ f.id \in List => due
        /\ f.id \in Class /\ f.pc \in {"type_text", "value"} => due
        /\ f.id \in Map /\ f.pc = "value" => due
    BY <1>4, PlaceIs
  <1>6. CASE f.pc = "close"
    <2>1. PICK x : x = IF f.id \in List THEN "]" ELSE EndBrace
      OBVIOUS
    <2>2. Move(a, typed).out = <<Mark(x)>>
      BY <1>6, <2>1, CloseOut
    <2>3. tok = Mark(x)
      <3>1. \A y, z : <<y>> = <<z>> => y = z
        OBVIOUS
      <3> QED BY <2>2, <3>1
    <2>4. tok = Mark(IF f.id \in List THEN "]" ELSE EndBrace)
      BY <2>1, <2>3, Zenon
    <2>5. Fitting(tok, s, o, due)
      BY <1>1, <1>2, <1>3, <1>5, <1>6, <2>4, CloseReady
    <2> QED BY <1>4, <1>6, <2>5
  <1>7. CASE f.pc # "close"
    <2>1. CASE f.id \in Class
      <3>1. ObjectCall(f) /\ ObjectFits(f, s, typed, n) /\ f.id \notin List /\ f.id \notin Map
        BY <1>2, <2>1, OneKind DEF Formed, Fits
      <3>2. Fitting(tok, s, o, due)
        BY <1>1, <1>3, <1>5, <1>7, <2>1, <3>1, ObjectReady
      <3> QED BY <1>4, <3>1, <3>2
    <2>2. CASE f.id \in List
      <3>1. ListCall(f) /\ ListFits(f, s, typed, n) /\ f.id \notin Map
        BY <1>2, <2>2, OneKind DEF Formed, Fits
      <3>2. Fitting(tok, s, o, due)
        BY <1>1, <1>3, <1>5, <1>7, <2>2, <3>1, ListReady
      <3> QED BY <1>4, <3>1, <3>2
    <2>3. CASE f.id \in Map
      <3>1. MapCall(f) /\ MapFits(f, s, typed, n) /\ f.id \notin List
        BY <1>2, <2>3, OneKind DEF Formed, Fits
      <3>2. f.pc # "object" /\ Fitting(tok, s, o, due)
        BY <1>1, <1>3, <1>5, <1>7, <2>3, <3>1, MapReady
      <3> QED BY <1>4, <3>2
    <2> QED BY <1>2, <2>1, <2>2, <2>3 DEF Formed
  <1> QED BY <1>6, <1>7

-----------------------------------------------------------------------------
\* The handlers refuse nothing of a writable object.
Sorted(tok, f) == \/ tok \in {Comma, Mark(Brace), Unlexable}
                  \/ tok.t # "mark"
                  \/ f.pc = "value" /\ tok = Mark("[")

LEMMA ObjectSorts ==
  ASSUME NEW a, NEW f, NEW typed, NEW tok, Last(a) = f, f.id \in Class, ObjectCall(f), f.pc # "close", Move(a, typed).out = <<tok>>
  PROVE  Sorted(tok, f)
  <1>1. f.pc \in ObjectPcs
    BY DEF ObjectCall, ObjectCalls
  <1>2. \A x : KeyOf(x).t # "mark" /\ Str(x).t # "mark"
    BY Tokens
  <1>3. CASE f.pc \in {"type", "type_text", "type_comma"}
    <2>1. Move(a, typed) = EnvelopeMove(a, f)
      BY <1>3 DEF Move
    <2>2. \E x, g : x \in {KeyOf("type"), Str(f.val["type"]), Comma} /\ EnvelopeMove(a, f) = Writes(a, x, g)
      BY <1>3 DEF EnvelopeMove
    <2>3. tok \in {KeyOf("type"), Str(f.val["type"]), Comma}
      BY <2>1, <2>2, OneToken
    <2> QED BY <1>2, <2>3 DEF Sorted
  <1>4. CASE f.pc \in {"kvs", "base_comma"}
    <2>1. Move(a, typed) = KvsMove(a, f, typed)
      BY <1>4 DEF Move
    <2>2. CASE f.pc = "kvs"
      <3>1. KvsMove(a, f, typed) = Goes(a, Based(f, typed))
        BY <2>2 DEF KvsMove, Based
      <3> QED BY <2>1, <3>1, OneToken
    <2>3. CASE f.pc = "base_comma"
      <3>1. KvsMove(a, f, typed) = Writes(a, Comma, To(f, "fields"))
        BY <2>3 DEF KvsMove, To
      <3>2. tok = Comma
        BY <2>1, <3>1, OneToken
      <3> QED BY <3>2 DEF Sorted
    <2> QED BY <1>4, <2>2, <2>3
  <1>5. CASE f.pc = "fields"
    <2>1. Move(a, typed) = FieldsMove(a, f)
      BY <1>5 DEF Move
    <2>2. CASE f.keys = {} \/ f.first
      <3>1. \E g : FieldsMove(a, f) = Goes(a, g)
        BY <1>5, <2>2 DEF FieldsMove
      <3> QED BY <2>1, <3>1, OneToken
    <2>3. CASE f.keys # {} /\ ~f.first
      <3>1. FieldsMove(a, f) = Writes(a, Comma, To(f, "field"))
        BY <1>5, <2>3 DEF FieldsMove, To
      <3>2. tok = Comma
        BY <2>1, <3>1, OneToken
      <3> QED BY <3>2 DEF Sorted
    <2> QED BY <2>2, <2>3
  <1>6. CASE f.pc = "field"
    <2>1. Move(a, typed) = FieldsMove(a, f)
      BY <1>6 DEF Move
    <2>2. PICK k : k = NextOf(f.keys)
      OBVIOUS
    <2>3. FieldsMove(a, f) = Writes(a, KeyOf(k), Naming(f, k))
      BY <1>6, <2>2 DEF FieldsMove, Named, Naming
    <2>4. tok = KeyOf(k)
      BY <2>1, <2>3, OneToken
    <2> QED BY <1>2, <2>4 DEF Sorted
  <1>7. CASE f.pc = "value"
    <2>1. PICK t : t = Meta[f.id][f.slot]
      OBVIOUS
    <2>2. CASE t \in List \cup Map \cup Class
      <3>1. PICK x \in {Brace, "["} : \E g : Move(a, typed) = Enters(a, x, g)
        BY <1>7, <2>1, <2>2, MemberMove
      <3>2. tok = Mark(x)
        BY <3>1, OneToken
      <3> QED BY <1>7, <3>2 DEF Sorted
    <2>3. CASE t \notin List \cup Map \cup Class
      <3>1. PICK w, g : w = MemberToken(t, f.val[f.slot]) /\ g = Returned(f)
        OBVIOUS
      <3>2. f.slot \in Getter[f.id] /\ Move(a, typed) = Writes(a, w, g)
        BY <1>7, <2>1, <2>3, <3>1, MemberMove
      <3>5. 0 \in 0..MaxDepth
        BY BoundsAssumption
      <3>3. w = Unlexable \/ w.t \notin {"mark", "key"}
        BY <1>7, <2>1, <2>3, <3>1, <3>2, <3>5, ScalarMember
      <3>4. tok = w
        BY <3>2, OneToken
      <3> QED BY <3>3, <3>4 DEF Sorted
    <2> QED BY <2>2, <2>3
  <1> QED BY <1>1, <1>3, <1>4, <1>5, <1>6, <1>7 DEF ObjectPcs, AtTheHead

LEMMA Square == /\ Mark("[").t = "mark" /\ Mark("[") # Mark(Brace) /\ Mark("[") # Unlexable
  <1>1. \A m : Mark(m).t = "mark" /\ Mark(m).v = m
    BY Tokens, Zenon
  <1>2. Brace # "[" /\ "[" # "not JSON" /\ Unlexable = Mark("not JSON")
    BY Signs, Zenon
  <1> QED BY <1>1, <1>2, Zenon

LEMMA ContainerSorts ==
  ASSUME NEW a, NEW f, NEW typed, NEW i \in 1..MaxDepth, NEW tok, Last(a) = f, f.id \in List \cup Map, Elemental(f), f.pc # "close",
         Move(a, typed).out = <<tok>>
  PROVE  /\ Sorted(tok, f)
         /\ f.pc = "value" /\ tok = Mark("[") => Elem[f.id].id \in List
  <1>1. /\ f.id \in List => f.pc \in {"elems", "value"}
        /\ f.id \in Map => f.pc \in {"entries", "entry", "object", "value"}
    BY OneKind, ListParts, MapParts DEF Elemental
  <1>2. \A x : KeyOf(x).t # "mark"
    BY Tokens
  <1>3. ASSUME NEW x \in {Comma, Mark(Brace)}, NEW g, Move(a, typed) = Writes(a, x, g)
        PROVE  Sorted(tok, f)
    <2>1. tok = x
      BY <1>3, OneToken
    <2> QED BY <2>1 DEF Sorted
  <1>4. CASE f.pc = "elems"
    <2>1. Move(a, typed) = ListMove(a, f)
      BY <1>4 DEF Move
    <2>2. \E g : ListMove(a, f) = Goes(a, g) \/ ListMove(a, f) = Writes(a, Comma, g)
      BY DEF ListMove
    <2> QED BY <1>3, <1>4, <2>1, <2>2, OneToken
  <1>5. CASE f.pc \in {"entries", "entry"}
    <2>1. Move(a, typed) = MapMove(a, f, typed)
      BY <1>5 DEF Move
    <2>2. \E g : \/ MapMove(a, f, typed) = Goes(a, g)
                 \/ MapMove(a, f, typed) = Writes(a, Comma, g)
                 \/ \E k : MapMove(a, f, typed) = Writes(a, RawKey(k), g)
      BY <1>5 DEF MapMove, Named
    <2>3. ASSUME NEW k, NEW g, Move(a, typed) = Writes(a, RawKey(k), g)
          PROVE  Sorted(tok, f)
      <3>1. tok = RawKey(k)
        BY <2>3, OneToken
      <3>2. tok = Unlexable \/ tok = KeyOf(AsRead(k))
        BY <3>1 DEF RawKey
      <3> QED BY <1>2, <3>2 DEF Sorted
    <2> QED BY <1>3, <1>5, <2>1, <2>2, <2>3, OneToken
  <1>6. CASE f.pc = "object"
    <2>1. Move(a, typed) = MapMove(a, f, typed)
      BY <1>6 DEF Move
    <2>2. \E g : MapMove(a, f, typed) = Goes(a, g) \/ MapMove(a, f, typed) = Enters(a, Brace, g)
      BY <1>6 DEF MapMove, EnterObject
    <2>3. tok = Mark(Brace)
      BY <2>1, <2>2, OneToken
    <2> QED BY <1>6, <2>3 DEF Sorted
  <1>7. CASE f.pc = "value"
    <2>1. PICK e, x : e = Elem[f.id].id /\ x = Element(f)
      OBVIOUS
    <2>2. x # NullPtr
      BY <1>7, <2>1, ElementMove, OneToken
    <2>3. CASE e \in List
      <3>1. \E g : Move(a, typed) = Enters(a, "[", g)
        BY <1>7, <2>1, <2>3, ElementMove
      <3>2. tok = Mark("[")
        BY <3>1, OneToken
      <3> QED BY <1>7, <2>1, <2>3, <3>2 DEF Sorted
    <2>4. CASE e \in Class
      <3>1. \E g : Move(a, typed) = Enters(a, Brace, g)
        BY <1>7, <2>1, <2>2, <2>4, ElementMove
      <3>2. tok = Mark(Brace)
        BY <3>1, OneToken
      <3>3. tok # Mark("[")
        BY <3>2, Square
      <3>4. Sorted(tok, f)
        BY <3>2 DEF Sorted
      <3> QED BY <3>3, <3>4, Zenon
    <2>5. CASE e \notin Class \cup List
      <3>1. PICK w, g : w = prim_token(Val(e, e, x)) /\ g = Returned(f)
        OBVIOUS
      <3>2. Move(a, typed) = Writes(a, w, g)
        BY <1>7, <2>1, <2>5, <3>1, ElementMove
      <3>3. tok = w
        BY <3>2, OneToken
      <3>4. i \in 0..MaxDepth
        BY BoundsAssumption
      <3>5. tok = Unlexable \/ tok.t # "mark"
        BY <1>7, <2>1, <2>2, <2>5, <3>1, <3>3, <3>4, ScalarElement
      <3>6. tok # Mark("[")
        BY <3>5, Square
      <3>7. Sorted(tok, f)
        BY <3>5 DEF Sorted
      <3> QED BY <3>6, <3>7, Zenon
    <2> QED BY <2>3, <2>4, <2>5
  <1> QED BY <1>1, <1>4, <1>5, <1>6, <1>7

\* A bracket tells where the writer is.
LEMMA BracketFrom ==
  ASSUME NEW a, NEW n, NEW f, NEW typed, NEW tok, Facing(a, n, f), Move(a, typed).out = <<tok>>
  PROVE  /\ tok = Mark(EndBrace) => f.pc = "close"
         /\ tok = Mark("]") => f.pc = "close" /\ f.id \in List
         /\ tok = Mark("[") => f.pc = "value" /\ (f.id \in List \cup Map => Elem[f.id].id \in List)
  <1>1. n \in 1..MaxDepth /\ Last(a) = f /\ At(f, doc[n], stack[n], inst[n], n)
    BY FacingIs
  <1>2. Formed(f)
    BY <1>1, FormedIs
  <1>3. \A x, y : Mark(x) = Mark(y) => x = y
    BY Tokens
  <1>4. CASE f.pc = "close"
    <2>1. PICK x : x = IF f.id \in List THEN "]" ELSE EndBrace
      OBVIOUS
    <2>2. Move(a, typed).out = <<Mark(x)>>
      BY <1>4, <2>1, CloseOut
    <2>3. tok = Mark(x)
      <3>1. \A y, z : <<y>> = <<z>> => y = z
        OBVIOUS
      <3> QED BY <2>2, <3>1
    <2>4. tok = Mark("]") => f.id \in List
      BY <1>3, <2>1, <2>3, Signs
    <2>5. tok # Mark("[")
      BY <1>3, <2>1, <2>3, Signs
    <2> QED BY <1>4, <2>4, <2>5
  <1>5. CASE f.pc # "close"
    <2>1. Sorted(tok, f) /\ (f.id \in List \cup Map /\ f.pc = "value" /\ tok = Mark("[") => Elem[f.id].id \in List)
      <3>1. CASE f.id \in Class
        <4>1. ObjectCall(f) /\ f.id \notin List \cup Map
          BY <1>2, <3>1, OneKind DEF Formed
        <4> QED BY <1>1, <1>5, <3>1, <4>1, ObjectSorts
      <3>2. CASE f.id \in List \cup Map
        <4>1. Elemental(f)
          BY <1>2, <3>2, OneKind DEF Formed, Elemental
        <4> QED BY <1>1, <1>5, <3>2, <4>1, ContainerSorts
      <3> QED BY <1>2, <3>1, <3>2 DEF Formed
    <2>2. /\ Comma.t = "mark" /\ Comma.v = CommaSign /\ Unlexable.t = "mark" /\ Unlexable.v = "not JSON"
          /\ Mark(Brace).t = "mark" /\ Mark(Brace).v = Brace /\ Mark(EndBrace).t = "mark" /\ Mark(EndBrace).v = EndBrace
          /\ Mark("[").t = "mark" /\ Mark("[").v = "[" /\ Mark("]").t = "mark" /\ Mark("]").v = "]"
      BY Signs, Tokens
    <2>3. tok # Mark(EndBrace) /\ tok # Mark("]") /\ (tok = Mark("[") => f.pc = "value")
      BY <2>1, <2>2, Signs DEF Sorted
    <2> QED BY <2>1, <2>3
  <1> QED BY <1>4, <1>5

LEMMA BraceNotRefused ==
  ASSUME NEW a, NEW n, NEW f, NEW typed, Facing(a, n, f), Move(a, typed).out = <<Cur>>, Cur = Mark(EndBrace), end_object, status = "parsing"
  PROVE  status' = "parsing"
  <1>1. CASE end_object_root
    BY <1>1 DEF end_object_root
  <1>2. CASE end_object_nested
    <2>1. n \in Nat /\ n > 0 /\ Len(stack) = n
      BY FacingIs
    <2>2. n > 1
      BY <1>2, <2>1 DEF end_object_nested
    <2>3. f.pc = "close"
      BY BracketFrom
    <2>4. PICK i, p : i = n - 1 /\ p = a[i]
      OBVIOUS
    <2>5. /\ Parent = stack[i] /\ At(p, doc[i], stack[i], inst[i], i)
          /\ p.id \in Class => Owns(Parent, Top)
          /\ p.id \in List \cup Map => Elem[p.id].id = f.id
          /\ Top.ty = f.id
      BY <2>2, <2>3, <2>4, CallerIs
    <2>6. ~PtrMissing(Parent, Top)
      <3>1. CASE p.id \in Class
        BY <2>5, <3>1 DEF PtrMissing
      <3>2. CASE p.id \in List
        <4>1. Parent.is_val_ptr = Elem[p.id].ptr
          BY <2>5, <3>2, OneKind DEF At, ListAt
        <4>2. Elem[p.id].ptr => Elem[p.id].id \in CreatePtr
          BY <3>2, ElemIs
        <4> QED BY <2>5, <3>2, <4>1, <4>2 DEF PtrMissing
      <3>3. CASE p.id \in Map
        <4>1. ~Parent.is_list
          BY <2>5, <3>3, OneKind DEF At, MapAt
        <4> QED BY <4>1 DEF PtrMissing
      <3> QED BY <2>5, <3>1, <3>2, <3>3 DEF At
    <2> QED BY <1>2, <2>6 DEF end_object_nested
  <1> QED BY <1>1, <1>2 DEF end_object

\* A container that end_array inserts into without undefined behaviour.
Receives(nd) == /\ nd.val_astid \in VarCtor
                /\ nd.is_map => is_associative(nd.ty)
                /\ nd.is_list => is_sequence(nd.ty)

LEMMA BracketNotRefused ==
  ASSUME NEW a, NEW n, NEW f, NEW typed, Facing(a, n, f), Move(a, typed).out = <<Cur>>, Cur = Mark("]"), end_array, status = "parsing"
  PROVE  status' = "parsing"
  <1>1. CASE end_array_skipped
    BY <1>1 DEF end_array_skipped
  <1>2. CASE end_array_list
    <2>1. n \in Nat /\ n > 0 /\ f = a[n] /\ Match(a) /\ a # <<>> /\ n = Len(doc)
      BY FacingIs
    <2>2. f.pc = "close" /\ f.id \in List
      BY BracketFrom
    <2>3. n > 1
      <3>1. a[1].id = RootType
        BY <2>1, MatchIs
      <3>2. n # 1
        BY <2>1, <2>2, <3>1, OneKind, SchemaAssumption
      <3> QED BY <2>1, <3>2
    <2>4. PICK i, p : i = n - 1 /\ p = a[i]
      OBVIOUS
    <2>5. /\ Parent = stack[i] /\ At(p, doc[i], stack[i], inst[i], i)
          /\ p.id \in Class => Owns(Parent, Top)
          /\ p.id \in List \cup Map => Elem[p.id].id = f.id
      BY <2>2, <2>3, <2>4, CallerIs
    <2>6. Owns(Parent, Top) \/ Receives(Parent)
      <3>1. CASE p.id \in Class
        BY <2>5, <3>1
      <3>2. CASE p.id \in List \cup Map
        <4>1. /\ Parent.val_astid = Elem[p.id].id /\ Parent.ty = p.id
              /\ Parent.is_map => p.id \in Map
              /\ Parent.is_list => p.id \in List
          BY <2>5, <3>2, OneKind DEF At, ListAt, MapAt
        <4>2. Elem[p.id].id \in VarCtor
          BY <2>2, <2>5, <3>2, ElemIs
        <4> QED BY <4>1, <4>2 DEF Receives, is_sequence, is_associative
      <3> QED BY <2>5, <3>1, <3>2 DEF At
    <2>7. ArrayVerdict(Parent, Top) = "parsing"
      <3>1. PICK q, t : q = Parent /\ t = Top
        OBVIOUS
      <3>2. Owns(q, t) \/ Receives(q)
        BY <2>6, <3>1
      <3>3. ArrayVerdict(q, t) = "parsing"
        BY <3>2 DEF ArrayVerdict, Receives
      <3> QED BY <3>1, <3>3
    <2> QED BY <1>2, <2>7 DEF end_array_list
  <1> QED BY <1>1, <1>2 DEF end_array

LEMMA ListNotRefused ==
  ASSUME NEW a, NEW n, NEW f, NEW typed, Facing(a, n, f), Move(a, typed).out = <<Cur>>, Cur = Mark("["), start_array, status = "parsing"
  PROVE  status' = "parsing"
  <1>1. f.pc = "value" /\ (f.id \in List \cup Map => Elem[f.id].id \in List)
    BY BracketFrom
  <1>2. Formed(f)
    <2>1. At(f, doc[n], stack[n], inst[n], n)
      BY FacingIs
    <2> QED BY <2>1, FormedIs
  <1>3. ~start_array_refused
    <2>1. CASE f.id \in Class
      <3>1. PICK k, t : k = f.slot /\ t = Meta[f.id][k]
        OBVIOUS
      <3>2. active_key = k /\ find_field_recursive(Top.ty, k)
        BY <1>1, <2>1, <3>1, MemberIs
      <3> QED BY <3>2 DEF start_array_refused, InContainer
    <2>2. CASE f.id \in List \cup Map
      <3>1. PICK e : e = Elem[f.id].id
        OBVIOUS
      <3>2. Top.val_astid = e /\ (e \in List => e \in VarCtor)
        BY <1>1, <2>2, <3>1, ElementPlace
      <3> QED BY <1>1, <2>2, <3>1, <3>2 DEF start_array_refused
    <2> QED BY <1>2, <2>1, <2>2 DEF Formed
  <1> QED BY <1>3 DEF start_array, start_array_member, start_array_element, start_array_skipped

LEMMA NotRefused ==
  ASSUME NEW a, NEW n, NEW f, NEW typed, Facing(a, n, f), Lexed(a, sep, typed), Sound(typed, 0, RootType, obj),
         Move(a, typed).out = <<Cur>>, pos <= Len(text), pos \in Nat, Len(text) \in Nat, Read
  PROVE  status' = "parsing"
  <1>1. Allowed
    <2>1. Fitting(Cur, sep, InObject, ValueDue)
      BY Ready
    <2>2. doc # <<>>
      BY FacingIs
    <2> QED BY <2>1, <2>2, FittingAllowed
  <1>2. CASE read_open
    <2>1. \/ Cur = Mark(Brace) /\ start_object /\ status = "parsing"
          \/ Cur = Mark("[") /\ start_array /\ status = "parsing"
      BY <1>2, Zenon DEF read_open, Marked, Reading, Brace
    <2>2. start_object => status' = status
      BY Zenon DEF start_object, start_object_member, start_object_element, start_object_skipped
    <2> QED BY <2>1, <2>2, ListNotRefused
  <1>3. CASE read_close
    <2>1. \/ Cur = Mark(EndBrace) /\ end_object /\ status = "parsing"
          \/ Cur = Mark("]") /\ end_array /\ status = "parsing"
      BY <1>3, Zenon DEF read_close, Marked, Reading, EndBrace
    <2> QED BY <2>1, BraceNotRefused, BracketNotRefused
  <1>4. CASE read_comma
    BY <1>4 DEF read_comma, Marked, Reading, vars
  <1>5. CASE read_key
    BY <1>5 DEF read_key, Reading, key
  <1>6. CASE read_scalar
    BY <1>6 DEF read_scalar, Reading, set_value
  <1>7. CASE read_null
    BY <1>7 DEF read_null, Reading, null
  <1>8. CASE read_misfit
    BY <1>1, <1>8 DEF read_misfit
  <1>9. CASE read_end
    BY <1>9 DEF read_end
  <1> QED BY <1>2, <1>3, <1>4, <1>5, <1>6, <1>7, <1>8, <1>9 DEF Read

\* Nor is the object's own bracket refused, nor the end of the text.
LEMMA FirstNotRefused ==
  ASSUME Unread, sep = "open", Read, text[1] = Mark(Brace), Len(text) \in Nat, Len(text) > 0
  PROVE  status' = "parsing"
  <1>1. Cur = Mark(Brace) /\ pos <= Len(text) /\ ValueDue
    BY DEF Unread, Cur, ValueDue
  <1>2. /\ Comma.t = "mark" /\ Comma.v = CommaSign /\ Unlexable.t = "mark" /\ Unlexable.v = "not JSON"
        /\ Mark(Brace).t = "mark" /\ Mark(Brace).v = Brace /\ Mark(EndBrace).t = "mark" /\ Mark(EndBrace).v = EndBrace
        /\ Mark("[").t = "mark" /\ Mark("[").v = "[" /\ Mark("]").t = "mark" /\ Mark("]").v = "]"
    BY Signs, Tokens
  <1>3. Allowed
    <2>1. Cur.t # "key" /\ Cur \notin {Mark(EndBrace), Mark("]")} /\ Cur # Comma /\ Cur # Unlexable
      BY <1>1, <1>2, Signs
    <2> QED BY <1>1, <2>1, AllowedIs
  <1>4. CASE read_open
    <2>1. \/ start_object /\ status = "parsing"
          \/ Cur = Mark("[") /\ start_array /\ status = "parsing"
      BY <1>4, Zenon DEF read_open, Marked, Reading, Brace
    <2>2. start_object => status' = status
      BY Zenon DEF start_object, start_object_member, start_object_element, start_object_skipped
    <2>3. Cur # Mark("[")
      BY <1>1, <1>2, Signs
    <2> QED BY <2>1, <2>2, <2>3
  <1>5. CASE read_close
    <2>1. Cur = Mark(EndBrace) \/ Cur = Mark("]")
      BY <1>5, Zenon DEF read_close, Marked, EndBrace
    <2> QED BY <1>1, <1>2, <2>1, Signs
  <1>6. CASE read_comma
    BY <1>6 DEF read_comma, Marked, Reading, vars
  <1>7. CASE read_key
    BY <1>7 DEF read_key, Reading, key
  <1>8. CASE read_scalar
    BY <1>8 DEF read_scalar, Reading, set_value
  <1>9. CASE read_null
    BY <1>9 DEF read_null, Reading, null
  <1>10. CASE read_misfit
    BY <1>3, <1>10 DEF read_misfit
  <1>11. CASE read_end
    <2>1. pos > Len(text)
      BY <1>11 DEF read_end
    <2> QED BY <1>1, <2>1 DEF Unread
  <1> QED BY <1>4, <1>5, <1>6, <1>7, <1>8, <1>9, <1>10, <1>11 DEF Read

LEMMA EndNotRefused ==
  ASSUME Read, doc = <<>>, nev > 0, pos > Len(text), pos \in Nat, Len(text) \in Nat
  PROVE  status' = "ok"
  <1>1. ~Reading
    BY DEF Reading
  <1>2. read_end
    BY <1>1, Zenon DEF Read, read_open, read_close, read_comma, read_key, read_scalar, read_null, read_misfit, Marked
  <1> QED BY <1>2 DEF read_end, finish, EvFinish

-----------------------------------------------------------------------------
\* Along the silent moves from where the reader is, to the move that writes
\* its token, or to the end of the text.
Walked(h, p, n, s, typed) ==
  \/ \E e \in 0..(n - 1) : Writer(h, p, n, typed, e) /\ Lexed(h[e], s, typed)
  \/ p[n] = pos - 1 /\ Match(h[n]) /\ Lexed(h[n], s, typed)

LEMMA Walks ==
  ASSUME NEW h, NEW p, NEW n \in Nat, NEW s, NEW typed, NEW i \in 0..n, IsRun(h, p, n, obj, typed, text),
         p[i] = pos - 1, pos \in Nat, Match(h[i]), Lexed(h[i], s, typed)
  PROVE  Walked(h, p, n, s, typed)
  <1> DEFINE Found == \E e \in 0..(n - 1) : Writer(h, p, n, typed, e) /\ Lexed(h[e], s, typed)
             Here(j) == p[j] = pos - 1 /\ Match(h[j]) /\ Lexed(h[j], s, typed)
             S == {k \in 0..(n - i) : Found \/ Here(i + k)}
  <1>1. 0 \in S
    BY SMT
  <1>2. ASSUME NEW k \in 0..((n - i) - 1), k \in S
        PROVE  k + 1 \in S
    <2>1. k + 1 \in 0..(n - i)
      OBVIOUS
    <2>2. CASE Found
      BY <2>1, <2>2
    <2>3. CASE Here(i + k)
      <3>1. PICK j \in 0..(n - 1) : j = i + k /\ j + 1 = i + (k + 1)
        OBVIOUS
      <3>2. p[j] = pos - 1 /\ Match(h[j]) /\ Lexed(h[j], s, typed)
        BY <2>3, <3>1
      <3>3. /\ h[j] # <<>> /\ h[j + 1] = Move(h[j], typed).calls
            /\ \/ Move(h[j], typed).out = <<>> /\ p[j + 1] = p[j]
               \/ Move(h[j], typed).out = <<text[p[j] + 1]>> /\ p[j + 1] = p[j] + 1
        BY DEF IsRun
      <3>4. CASE Move(h[j], typed).out = <<>> /\ p[j + 1] = p[j]
        <4>1. Match(h[j + 1]) /\ Lexed(h[j + 1], s, typed)
          BY <3>2, <3>3, <3>4, SilentMatch, LexSilent
        <4> QED BY <2>1, <3>1, <3>2, <3>4, <4>1
      <3>5. CASE Move(h[j], typed).out = <<text[p[j] + 1]>> /\ p[j + 1] = p[j] + 1
        <4>1. p[j] + 1 = pos
          BY <3>2
        <4>2. Move(h[j], typed).out = <<Cur>> /\ p[j + 1] = pos
          BY <3>5, <4>1 DEF Cur
        <4>3. Writer(h, p, n, typed, j)
          BY <3>2, <3>3, <4>2 DEF Writer
        <4>4. Found
          BY <3>2, <4>3
        <4> QED BY <2>1, <4>4
      <3> QED BY <3>3, <3>4, <3>5
    <2> QED BY <1>2, <2>2, <2>3
  <1>3. PICK m \in Nat : m = n - i
    OBVIOUS
  <1> HIDE DEF Found, Here
  <1>4. m \in S
    <2>1. PICK T : T = S
      OBVIOUS
    <2> HIDE DEF S
    <2>2. 0..m \subseteq T
      BY <1>1, <1>2, <1>3, <2>1, UpTo
    <2> QED BY <1>3, <2>1, <2>2
  <1>5. i + m = n
    BY <1>3
  <1>6. Found \/ Here(n)
    BY <1>4, <1>5
  <1> QED BY <1>6 DEF Found, Here, Walked

\* The writer at a float it cannot write.
Stalled == Due({"value"}) /\ InvalidCast(ValueOf(Last(calls)))

LEMMA StalledIs ==
  ASSUME Stalled
  PROVE  calls # <<>> /\ ~Serialize
  <1>1. calls # <<>> /\ Last(calls).pc = "value"
    BY DEF Stalled, Due
  <1>2. ~serialize_val
    BY DEF Stalled, serialize_val
  <1>3. ~Due({"type", "type_text", "type_comma"}) /\ ~Due({"kvs", "base_comma"}) /\ ~Due({"fields", "field"})
        /\ ~Due({"elems"}) /\ ~Due({"entries", "entry", "object"}) /\ ~Due({"close"})
    BY <1>1 DEF Due
  <1> QED BY <1>1, <1>2, <1>3 DEF Serialize, serialize_envelope, serialize_kvs, serialize_fields, serialize_list,
                                 serialize_map, close

\* The inductive invariant: RInv with the lexer, and what is read is writable.
AReaderAt(h, p, n) ==
  \/ status = "idle" /\ Unread /\ sep = "open"
  \/ status = "undefined" /\ Stalled
  \/ status = "parsing" /\ calls = <<>> /\ Unread /\ sep = "open"
  \/ /\ status = "parsing" /\ calls = <<>> /\ pos \in Nat /\ pos > 1 /\ nev \in Nat /\ nev > 0
     /\ \E i \in 0..n : p[i] = pos - 1 /\ Match(h[i]) /\ Lexed(h[i], sep, serialize_type)
  \/ status \notin {"idle", "parsing"} /\ calls = <<>> /\ AcceptedIfWritable
AInv == obj \in Objects /\ \E h, p : \E n \in Nat : RunAt(h, p, n) /\ AReaderAt(h, p, n)

LEMMA SoundWritable ==
  ASSUME serialize_type' = serialize_type, obj' = obj
  PROVE  Writable[MaxDepth][RootType][obj]' = Sound(serialize_type, 0, RootType, obj)
  <1>1. MaxDepth - 0 = MaxDepth
    BY BoundsAssumption
  <1>2. Writable' = Able(serialize_type')
    BY DEF Writable, Able, AbleByLevel, Yes
  <1> QED BY <1>1, <1>2 DEF Sound

LEMMA WriteKeepsA ==
  ASSUME AInv, Write
  PROVE  AInv'
  <1>1. PICK h, p : \E n \in Nat : RunAt(h, p, n) /\ AReaderAt(h, p, n)
    BY DEF AInv
  <1>2. PICK n \in Nat : RunAt(h, p, n) /\ AReaderAt(h, p, n)
    BY <1>1
  <1>3. PICK m : m = Move(h[n], serialize_type)
    OBVIOUS
  <1>4. /\ h[n] # <<>> /\ text' = text \o m.out /\ calls' = m.calls /\ serialize_type' = serialize_type
        /\ obj' = obj /\ UNCHANGED vars /\ pos' = pos /\ sep' = sep /\ calls # <<>>
    BY <1>2, <1>3, StepIsMove DEF Write, RunAt
  <1>5. PICK tx, tx2, x, typed : tx = text /\ tx2 = text' /\ x = obj /\ typed = serialize_type
    OBVIOUS
  <1>6. Ran(n + 1, x, typed, tx2, m.calls)
    <2>1. IsRun(h, p, n, x, typed, tx) /\ IsSeq(tx, p[n])
      BY <1>2, <1>5 DEF RunAt
    <2>2. h[n] # <<>> /\ m = Move(h[n], typed) /\ Continues(tx2, tx, m)
      BY <1>3, <1>4, <1>5 DEF Continues
    <2> QED BY <2>1, <2>2, RunGrows
  <1>7. PICK h2, p2 : IsRun(h2, p2, n + 1, x, typed, tx2) /\ IsSeq(tx2, p2[n + 1]) /\ h2[n + 1] = m.calls
    BY <1>6 DEF Ran
  <1>8. RunAt(h2, p2, n + 1)'
    BY <1>4, <1>5, <1>7 DEF RunAt
  <1>9. status = "idle" /\ Unread /\ sep = "open"
    BY <1>2, <1>4, StalledIs DEF AReaderAt, Write
  <1>10. AReaderAt(h2, p2, n + 1)'
    BY <1>4, <1>9 DEF AReaderAt, Unread, vars
  <1>11. n + 1 \in Nat /\ obj' \in Objects
    BY <1>4 DEF AInv
  <1> QED BY <1>8, <1>10, <1>11 DEF AInv

LEMMA BeginKeepsA ==
  ASSUME AInv, from_json
  PROVE  AInv'
  <1>1. PICK h, p : \E n \in Nat : RunAt(h, p, n) /\ AReaderAt(h, p, n)
    BY DEF AInv
  <1>2. PICK n \in Nat : RunAt(h, p, n) /\ AReaderAt(h, p, n)
    BY <1>1
  <1>3. /\ calls = <<>> /\ status = "idle" /\ parse /\ pos' = pos /\ sep' = sep
        /\ calls' = calls /\ text' = text /\ serialize_type' = serialize_type /\ obj' = obj
    BY DEF from_json, peer, writing
  <1>4. RunAt(h, p, n)'
    BY <1>2, <1>3 DEF RunAt
  <1>5. Unread /\ sep = "open"
    BY <1>2, <1>3 DEF AReaderAt
  <1>6. Unread' /\ status' = "parsing"
    <2>1. inst[1] = Fresh[RootType]
      BY <1>5, UnreadOK
    <2>2. /\ stack' = <<RootNode>> /\ inst' = <<inst[1]>> /\ active_key' = NoKey
          /\ status' = "parsing" /\ doc' = <<>> /\ nev' = 0 /\ nparse' = nparse + 1
      BY <1>3 DEF parse, EvBegin
    <2> QED BY <1>3, <1>5, <2>1, <2>2 DEF Unread
  <1>7. AReaderAt(h, p, n)'
    BY <1>3, <1>5, <1>6 DEF AReaderAt
  <1>8. obj' \in Objects
    BY <1>3 DEF AInv
  <1> QED BY <1>4, <1>7, <1>8 DEF AInv

LEMMA CastKeepsA ==
  ASSUME AInv, invalid_cast
  PROVE  AInv'
  <1>1. PICK h, p : \E n \in Nat : RunAt(h, p, n) /\ AReaderAt(h, p, n)
    BY DEF AInv
  <1>2. PICK n \in Nat : RunAt(h, p, n)
    BY <1>1
  <1>3. status' = "undefined" /\ calls' = calls /\ text' = text /\ serialize_type' = serialize_type /\ obj' = obj
    BY DEF invalid_cast, peer, writing
  <1>4. RunAt(h, p, n)'
    BY <1>2, <1>3 DEF RunAt
  <1>5. Stalled /\ (Stalled => Stalled')
    BY <1>3 DEF invalid_cast, Stalled, Due, InvalidCast, ValueOf, get_field_instance
  <1>6. AReaderAt(h, p, n)'
    BY <1>3, <1>5 DEF AReaderAt
  <1>7. obj' \in Objects
    BY <1>3 DEF AInv
  <1> QED BY <1>4, <1>6, <1>7 DEF AInv

\* What the first bracket leaves, and what the reader is given next.
LEMMA FirstLexed ==
  ASSUME NEW c \in Class, NEW val, NEW typed, NEW a, a = <<Object(c, val, typed)>>
  PROVE  Lexed(a, "open", typed)
  <1>1. PICK g : g = Object(c, val, typed)
    OBVIOUS
  <1>2. IsSeq(a, 1) /\ a[1] = g /\ g.id = c
    BY <1>1 DEF IsSeq, Object
  <1>3. ObjectFits(g, "open", typed, 1)
    BY <1>1, ObjectBegins
  <1>4. Fits(a[1], "open", typed, 1)
    BY <1>2, <1>3 DEF Fits
  <1>5. Lex(a[1], typed, 1)
    BY <1>2, <1>3 DEF Lex, ObjectFits
  <1>6. 1..1 = {1} /\ 1..(1 - 1) = {}
    OBVIOUS
  <1>7. LexLevels(a, typed, 1)
    BY <1>5, <1>6 DEF LexLevels
  <1> QED BY <1>2, <1>4, <1>7, LexedAgain

LEMMA RunText ==
  ASSUME NEW h, NEW p, NEW n \in Nat, NEW typed, IsRun(h, p, n, obj, typed, text), IsSeq(text, p[n])
  PROVE  p[n] \in Nat /\ p[n] > 0 /\ Len(text) = p[n] /\ text[1] = Mark(Brace)
  <1>1. (\A j \in 0..n : p[j] \in Nat \ {0}) /\ text[1] = Mark(Brace)
    BY DEF IsRun
  <1>2. n \in 0..n
    OBVIOUS
  <1>3. p[n] \in Nat /\ p[n] > 0
    BY <1>1, <1>2
  <1> QED BY <1>1, <1>3, SeqOfContents

\* A text that is complete is of a writable object: nothing is left to close.
LEMMA CompleteWritable ==
  ASSUME NEW h, NEW p, NEW n \in Nat, RunAt(h, p, n), AReaderAt(h, p, n), Read, status' = "ok"
  PROVE  Sound(serialize_type, 0, RootType, obj)
  <1>1. status = "parsing" /\ doc = <<>> /\ nev > 0
    BY ReadsLast
  <1>2. ~Unread
    BY <1>1 DEF Unread
  <1>3. PICK i \in 0..n : Match(h[i]) /\ Lexed(h[i], sep, serialize_type)
    BY <1>1, <1>2 DEF AReaderAt
  <1>4. PICK a : a = h[i]
    OBVIOUS
  <1>5. a = <<>>
    BY <1>1, <1>3, <1>4 DEF Match
  <1> QED BY <1>3, <1>4, <1>5 DEF Lexed

\* A text that is refused is not of a writable object: each of its tokens fits.
LEMMA RefusedUnwritable ==
  ASSUME NEW h, NEW p, NEW n \in Nat, RunAt(h, p, n), AReaderAt(h, p, n), Read, status' \notin {"parsing", "ok"}
  PROVE  ~Sound(serialize_type, 0, RootType, obj)
  <1> SUFFICES ASSUME Sound(serialize_type, 0, RootType, obj)
               PROVE  FALSE
    OBVIOUS
  <1>1. status = "parsing"
    BY ReadsLast
  <1>2. PICK typed : typed = serialize_type
    OBVIOUS
  <1>3. IsRun(h, p, n, obj, typed, text) /\ IsSeq(text, p[n]) /\ h[n] = calls /\ calls = <<>>
    BY <1>1, <1>2 DEF RunAt, AReaderAt
  <1>4. p[n] \in Nat /\ p[n] > 0 /\ Len(text) = p[n] /\ text[1] = Mark(Brace)
    BY <1>3, RunText
  <1>5. CASE Unread /\ sep = "open"
    BY <1>4, <1>5, FirstNotRefused
  <1>6. CASE /\ pos \in Nat /\ pos > 1 /\ nev \in Nat /\ nev > 0
             /\ \E i \in 0..n : p[i] = pos - 1 /\ Match(h[i]) /\ Lexed(h[i], sep, typed)
    <2>1. Walked(h, p, n, sep, typed)
      BY <1>3, <1>6, Walks
    <2>2. CASE p[n] = pos - 1 /\ Match(h[n]) /\ Lexed(h[n], sep, typed)
      <3>1. doc = <<>>
        <4>1. Match(<<>>)
          BY <1>3, <2>2
        <4>2. ASSUME doc # <<>>
              PROVE  FALSE
          <5>1. Nested(<<>>)
            BY <4>1, <4>2 DEF Match
          <5>2. Len(doc) \in 1..MaxDepth /\ IsSeq(<<>>, Len(doc))
            BY <5>1 DEF Nested
          <5> QED BY <5>2 DEF IsSeq
        <4> QED BY <4>2
      <3>2. status' = "ok"
        BY <1>4, <1>6, <2>2, <3>1, EndNotRefused
      <3> QED BY <3>2
    <2>3. ASSUME NEW e \in 0..(n - 1), Writer(h, p, n, typed, e), Lexed(h[e], sep, typed)
          PROVE  FALSE
      <3>1. PICK a, k, f : a = h[e] /\ k = Len(doc) /\ f = a[k]
        OBVIOUS
      <3>2. Facing(a, k, f) /\ Lexed(a, sep, typed) /\ Move(a, typed).out = <<Cur>>
        BY <2>3, <3>1 DEF Writer, Facing
      <3>3. pos <= Len(text)
        BY <1>3, <1>4, <2>3 DEF Writer, IsRun
      <3> QED BY <1>2, <1>4, <1>6, <3>2, <3>3, NotRefused
    <2> QED BY <2>1, <2>2, <2>3 DEF Walked
  <1> QED BY <1>1, <1>2, <1>5, <1>6 DEF AReaderAt

\* A token that is handled takes the reader along the run, its lexer with it.
LEMMA ReadsLexed ==
  ASSUME NEW h, NEW p, NEW n \in Nat, RunAt(h, p, n), AReaderAt(h, p, n), Read, status' = "parsing", obj \in Objects
  PROVE  /\ pos \in Nat /\ pos > 0 /\ nev' \in Nat /\ nev' > 0
         /\ \E i \in 0..n : p[i] = pos /\ Match(h[i])' /\ Lexed(h[i], sep', serialize_type)
  <1>1. status = "parsing" /\ pos' = pos + 1 /\ pos <= Len(text)
    BY Handled DEF ReadsOn
  <1>2. PICK typed, s2 : typed = serialize_type /\ s2 = sep'
    OBVIOUS
  <1>3. IsRun(h, p, n, obj, typed, text) /\ IsSeq(text, p[n]) /\ h[n] = calls /\ calls = <<>>
    BY <1>1, <1>2 DEF RunAt, AReaderAt
  <1>4. p[n] \in Nat /\ p[n] > 0 /\ Len(text) = p[n] /\ text[1] = Mark(Brace)
    BY <1>3, RunText
  <1>5. obj \in Content[RootType] /\ RootType \in Class
    BY ContentAssumption, SchemaAssumption
  <1>6. Took(Cur, sep, s2) /\ (nev' = nev + 1 \/ nev' = nev) /\ (Cur = Mark(Brace) => nev' = nev + 1)
    BY <1>2, ReadTook, ReadCounts
  <1>7. CASE Unread /\ sep = "open"
    <2>1. PICK a : a = <<Object(RootType, obj, typed)>>
      OBVIOUS
    <2>2. h[0] = a /\ p[0] = 1 /\ 0 \in 0..n
      BY <1>3, <2>1 DEF IsRun
    <2>3. Match(a)'
      BY <1>4, <1>5, <1>7, <2>1, ReadsFirst
    <2>4. pos = 1 /\ nev = 0 /\ Cur = Mark(Brace)
      BY <1>4, <1>7 DEF Unread, Cur
    <2>5. s2 = "open"
      BY <1>6, <2>4, TookIs
    <2>6. Lexed(a, s2, typed)
      BY <1>5, <2>1, <2>5, FirstLexed
    <2>7. nev' = 1
      BY <1>6, <2>4
    <2> QED BY <1>2, <2>2, <2>3, <2>4, <2>6, <2>7
  <1>8. CASE /\ pos \in Nat /\ pos > 1 /\ nev \in Nat /\ nev > 0
             /\ \E i \in 0..n : p[i] = pos - 1 /\ Match(h[i]) /\ Lexed(h[i], sep, typed)
    <2>1. Walked(h, p, n, sep, typed)
      BY <1>3, <1>8, Walks
    <2>2. p[n] # pos - 1
      BY <1>1, <1>4, <1>8
    <2>3. PICK e \in 0..(n - 1) : Writer(h, p, n, typed, e) /\ Lexed(h[e], sep, typed)
      BY <2>1, <2>2 DEF Walked
    <2>4. PICK a, k, f : a = h[e] /\ k = Len(doc) /\ f = a[k]
      OBVIOUS
    <2>5. PICK b, j : b = Move(a, typed).calls /\ j = e + 1
      OBVIOUS
    <2>6. /\ Match(a) /\ a # <<>> /\ Move(a, typed).out = <<Cur>> /\ Lexed(a, sep, typed)
          /\ j \in 0..n /\ p[j] = pos /\ h[j] = b
      BY <2>3, <2>4, <2>5 DEF Writer
    <2>7. Facing(a, k, f) /\ Hears(a, typed, k, f)
      BY <2>4, <2>6 DEF Facing, Hears
    <2>8. f.id \in Map => f.pc # "object"
      BY <2>7, NoObjectInMap
    <2>9. Match(b)'
      <3>1. Match(Move(a, typed).calls)'
        BY <2>6, ReadsNext
      <3> QED BY <2>5, <3>1
    <2>10. Lexed(b, s2, typed)
      <3>1. PICK tok : tok = Cur
        OBVIOUS
      <3> QED BY <1>6, <2>5, <2>6, <2>7, <2>8, <3>1, LexTook
    <2>11. Match(h[j])' /\ Lexed(h[j], s2, typed)
      BY <2>6, <2>9, <2>10
    <2>12. nev' \in Nat /\ nev' > 0
      BY <1>6, <1>8
    <2> QED BY <1>2, <1>8, <2>6, <2>11, <2>12
  <1> QED BY <1>1, <1>2, <1>7, <1>8 DEF AReaderAt

LEMMA ReadKeepsA ==
  ASSUME AInv, Read
  PROVE  AInv'
  <1>1. PICK h, p : \E n \in Nat : RunAt(h, p, n) /\ AReaderAt(h, p, n)
    BY DEF AInv
  <1>2. PICK n \in Nat : RunAt(h, p, n) /\ AReaderAt(h, p, n)
    BY <1>1
  <1>3. status = "parsing" /\ calls = <<>>
    BY <1>2, ReadsLast, Handled DEF ReadsOn, AReaderAt
  <1>4. calls' = calls /\ text' = text /\ serialize_type' = serialize_type /\ obj' = obj
    BY ReadsLast, Handled DEF ReadsOn
  <1>5. RunAt(h, p, n)' /\ obj' \in Objects /\ obj \in Objects
    BY <1>2, <1>4 DEF RunAt, AInv
  <1>6. CASE status' # "parsing"
    <2>1. status' \notin {"idle", "parsing"}
      BY <1>6, ReadsLast
    <2>2. Writable[MaxDepth][RootType][obj]' = Sound(serialize_type, 0, RootType, obj)
      BY <1>4, SoundWritable
    <2>3. AcceptedIfWritable'
      BY <1>2, <2>2, CompleteWritable, RefusedUnwritable DEF AcceptedIfWritable
    <2>4. AReaderAt(h, p, n)'
      BY <1>3, <1>4, <2>1, <2>3 DEF AReaderAt
    <2> QED BY <1>5, <2>4 DEF AInv
  <1>7. CASE status' = "parsing"
    <2>1. PICK i \in 0..n : p[i] = pos /\ Match(h[i])' /\ Lexed(h[i], sep', serialize_type)
      BY <1>2, <1>5, <1>7, ReadsLexed
    <2>2. pos' = pos + 1 /\ pos \in Nat /\ pos > 0 /\ nev' \in Nat /\ nev' > 0
      BY <1>2, <1>5, <1>7, ReadsLexed, Handled DEF ReadsOn
    <2>3. Lexed(h[i], sep, serialize_type)'
      BY <1>4, <2>1 DEF Lexed
    <2>4. pos' \in Nat /\ pos' > 1 /\ p[i] = pos' - 1
      BY <2>1, <2>2
    <2>5. AReaderAt(h, p, n)'
      BY <1>3, <1>4, <1>7, <2>1, <2>2, <2>3, <2>4 DEF AReaderAt
    <2> QED BY <1>5, <2>5 DEF AInv
  <1> QED BY <1>6, <1>7

LEMMA AInvInvariant == RSpec => []AInv
  <1>1. RInit => AInv
    <2> SUFFICES ASSUME RInit
                 PROVE  AInv
      OBVIOUS
    <2>1. PICK h, p : h = [j \in 0..0 |-> calls] /\ p = [j \in 0..0 |-> 1]
      OBVIOUS
    <2>2. h[0] = calls /\ p[0] = 1 /\ 0..0 = {0} /\ 0..(0 - 1) = {}
      BY <2>1
    <2>3. calls = <<Object(RootType, obj, serialize_type)>> /\ text = <<Mark(Brace)>>
      BY Zenon DEF RInit, toBlock, Brace
    <2>4. IsSeq(text, 1) /\ text[1] = Mark(Brace)
      BY <2>3 DEF IsSeq
    <2>5. RunAt(h, p, 0)
      BY <2>2, <2>3, <2>4 DEF RunAt, IsRun
    <2>6. AReaderAt(h, p, 0)
      BY DEF RInit, Init, AReaderAt, Unread
    <2>7. obj \in Objects
      BY DEF RInit
    <2> QED BY <2>5, <2>6, <2>7 DEF AInv
  <1>2. AInv /\ [RNext]_allvars => AInv'
    <2> SUFFICES ASSUME AInv, [RNext]_allvars
                 PROVE  AInv'
      OBVIOUS
    <2>1. CASE RNext
      BY <2>1, WriteKeepsA, CastKeepsA, BeginKeepsA, ReadKeepsA DEF RNext
    <2>2. CASE UNCHANGED allvars
      <3>1. /\ UNCHANGED vars /\ calls' = calls /\ text' = text /\ serialize_type' = serialize_type
            /\ obj' = obj /\ pos' = pos /\ sep' = sep
        BY <2>2 DEF allvars, peer, writing
      <3>2. doc' = doc /\ nev' = nev /\ nparse' = nparse /\ status' = status /\ stack' = stack /\ inst' = inst /\ active_key' = active_key
        BY <3>1 DEF vars
      <3>3. PICK h, p : \E n \in Nat : RunAt(h, p, n) /\ AReaderAt(h, p, n)
        BY DEF AInv
      <3>4. PICK n \in Nat : RunAt(h, p, n) /\ AReaderAt(h, p, n)
        BY <3>3
      <3>5. RunAt(h, p, n)' /\ obj' \in Objects
        BY <3>1, <3>4 DEF RunAt, AInv
      <3>6. Writable' = Writable
        BY <3>1 DEF Writable
      <3>7. AcceptedIfWritable => AcceptedIfWritable'
        BY <3>1, <3>2, <3>6 DEF AcceptedIfWritable
      <3>8. Unread => Unread'
        BY <3>1, <3>2 DEF Unread
      <3>9. ASSUME NEW a, Match(a)
            PROVE  Match(a)'
        BY <3>1, <3>2, <3>9 DEF Match, DocOK, StackOK, Nested
      <3>10. ASSUME NEW a, Lexed(a, sep, serialize_type)
             PROVE  Lexed(a, sep, serialize_type)'
        BY <3>1, <3>10 DEF Lexed
      <3>12. Stalled => Stalled'
        BY <3>1 DEF Stalled, Due, InvalidCast, ValueOf, get_field_instance
      <3>11. AReaderAt(h, p, n)'
        BY <3>1, <3>2, <3>4, <3>7, <3>8, <3>9, <3>10, <3>12 DEF AReaderAt
      <3> QED BY <3>5, <3>11 DEF AInv
    <2> QED BY <2>1, <2>2
  <1> QED BY <1>1, <1>2, PTL DEF RSpec

\* A text that is written to its end is accepted if and only if the object is
\* writable, whatever its classes.  A typed object of a class that only inherits
\* its fields, a map of objects, a null pointer among others, a date, a decimal
\* that is none and a text or key that is no JSON between quotes are refused
\* wherever they are in it, and the text of any other object is read to its end
\* (anserializer.h:341-353, 62 and 245 against 588-988).  What is read is the
\* matter of ReadBackOrRefused, and a text with a float in it is never ended.
THEOREM AcceptedExactly == RSpec => []AcceptedIfWritable
  <1>1. AInv => AcceptedIfWritable
    BY StalledIs DEF AInv, AReaderAt, Unread, AcceptedIfWritable
  <1> QED BY <1>1, AInvInvariant, PTL
====
