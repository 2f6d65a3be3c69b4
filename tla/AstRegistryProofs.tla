---- MODULE AstRegistryProofs ----
(***************************************************************************)
(* What holds of the registry for every set of contexts, maps, ids and     *)
(* port classes, and every number of registrations.                        *)
(***************************************************************************)
EXTENDS AstRegistry, TLAPS

\* The types of the ASTs of all maps.
AstsTyped(as) == /\ DOMAIN as = AstMap
                 /\ \A m \in AstMap : /\ DOMAIN as[m] \subseteq Id
                                      /\ \A id \in DOMAIN as[m] : as[m][id] \in Ast

-----------------------------------------------------------------------------
(* How a registration changes the maps.                                    *)

\* A registration leaves every other map alone; in its own it keeps every id
\* and makes new ASTs for exactly the ids it replaces or did not find.
LEMMA RegisterEffect ==
  ASSUME AstsTyped(asts), NEW m \in AstMap, NEW c, NEW made \in SUBSET Id, NEW kept \in SUBSET Id,
         Register(m, c, made, kept)
  PROVE  /\ DOMAIN asts' = AstMap
         /\ \A n \in AstMap \ {m} : asts'[n] = asts[n]
         /\ DOMAIN asts'[m] = DOMAIN asts[m] \cup made \cup kept
         /\ \A id \in DOMAIN asts'[m] :
               asts'[m][id] = IF id \in made \/ id \notin DOMAIN asts[m] THEN NewAst(id, c) ELSE asts[m][id]
  BY DEF Register, Registered, AstsTyped

\* So every AST after a registration is a new one, or was there.
LEMMA RegisterNewOrKept ==
  ASSUME AstsTyped(asts), NEW m \in AstMap, NEW c, NEW made \in SUBSET Id, NEW kept \in SUBSET Id,
         Register(m, c, made, kept), NEW n \in AstMap, NEW id \in DOMAIN asts'[n]
  PROVE  \/ n = m /\ asts'[n][id] = NewAst(id, c)
         \/ id \in DOMAIN asts[n] /\ asts'[n][id] = asts[n][id]
<1>1. CASE n = m
  <2>1. id \in DOMAIN asts'[m]
    BY <1>1
  <2> QED BY <1>1, <2>1, RegisterEffect
<1>2. CASE n # m
  BY <1>2, RegisterEffect
<1> QED BY <1>1, <1>2

\* A registration made by a context, or by none, keeps the types.
LEMMA RegisterTyped ==
  ASSUME AstsTyped(asts), nregs \in 0..MaxRegs,
         NEW m \in AstMap, NEW c \in Ctx \cup {NoCtx}, NEW made \in SUBSET Id, NEW kept \in SUBSET Id,
         Register(m, c, made, kept)
  PROVE  AstsTyped(asts') /\ nregs' \in 0..MaxRegs
<1>1. nregs + 1 \in 1..MaxRegs /\ nregs' = nregs + 1
  BY RegistryAssumption DEF Register
<1>2. \A id : NewAst(id, c) \in Ast
  BY <1>1 DEF NewAst, Ast
<1>3. \A n \in AstMap : DOMAIN asts'[n] \subseteq Id
  BY RegisterEffect DEF AstsTyped
<1>4. ASSUME NEW n \in AstMap, NEW id \in DOMAIN asts'[n]
      PROVE  asts'[n][id] \in Ast
  <2>1. CASE n = m
    BY <1>2, <2>1, RegisterEffect DEF AstsTyped
  <2>2. CASE n # m
    BY <2>2, RegisterEffect DEF AstsTyped
  <2> QED BY <2>1, <2>2
<1> QED BY <1>1, <1>3, <1>4, RegisterEffect DEF AstsTyped

\* The AST a of class p once an enum of the class was compared with x.
Asked(p, a, x) == [a EXCEPT !.blanks = BlanksAfter(p, @, x)]

\* Asking whether an enum is a text changes the blanks of its class's AST, by
\* texts the program compares with, and nothing else.
LEMMA CompareEffect ==
  ASSUME AstsTyped(asts), NEW s, NEW x, compare(s, x)
  PROVE  LET e == enums[s] IN
         /\ e.map \in AstMap /\ e.cls \in DOMAIN asts[e.map]
         /\ DOMAIN asts' = AstMap
         /\ \A n \in AstMap : DOMAIN asts'[n] = DOMAIN asts[n]
         /\ \A n \in AstMap : \A id \in DOMAIN asts[n] :
               asts'[n][id] = IF n = e.map /\ id = e.cls THEN Asked(id, asts[n][id], x)
                                                        ELSE asts[n][id]
  BY DEF compare, Points, AstsTyped, Asked

-----------------------------------------------------------------------------
(* Type correctness.                                                       *)

\* An enum made of a text of the program where its class is registered.
LEMMA MadeTyped ==
  ASSUME AstsTyped(asts), NEW c \in Ctx, NEW p \in PortClass, NEW x \in Text, Has(c, p)
  PROVE  Made(c, p, x) \in EnumValue
<1>1. MapOf[c] \in AstMap /\ asts[MapOf[c]][p] \in Ast
  BY RegistryAssumption DEF AstsTyped, Has
<1>2. \A bs : UrlOf(p, bs, x) \in Text \cup {Blank} \cup {Encode[p][y] : y \in DOMAIN Encode[p]}
  BY EnumAssumption DEF UrlOf
<1>3. NameOfText(p, x) \in Text \cup {Decode[p][u] : u \in DOMAIN Decode[p]}
  BY EnumAssumption DEF NameOfText, NameOfUrl
<1>4. /\ UrlOf(p, asts[MapOf[c]][p].blanks, x) \in
            Text \cup {Blank} \cup UNION {{Encode[q][y] : y \in DOMAIN Encode[q]} : q \in PortClass}
      /\ NameOfText(p, x) \in Text \cup UNION {{Decode[q][u] : u \in DOMAIN Decode[q]} : q \in PortClass}
  BY <1>2, <1>3
<1>5. asts[MapOf[c]][p].reg \in 1..MaxRegs
  BY <1>1 DEF Ast
<1> QED BY <1>1, <1>4, <1>5 DEF Made, EnumValue

LEMMA NullIsNoValue == Null \notin EnumValue
  BY RegistryAssumption DEF Null, EnumValue

\* The state keeps its types: what an enum refers to is a registration of a
\* map, and no AST outlives the bounds of what made it.
THEOREM RegistryTyped == Spec => []TypeOK
<1>1. Init => TypeOK
  BY RegistryAssumption DEF Init, TypeOK
<1>2. TypeOK /\ [Next]_vars => TypeOK'
  <2> SUFFICES ASSUME TypeOK, [Next]_vars PROVE TypeOK'
    OBVIOUS
  <2>0. AstsTyped(asts) /\ nregs \in 0..MaxRegs
    BY DEF TypeOK, AstsTyped
  <2> DEFINE Rest == /\ contexts' \in [Ctx -> {"unborn", "open", "gone"}]
                     /\ polymorphs' \in [Ctx -> PortClass \cup {NoPort}]
                     /\ enums' \in [EnumSlot -> EnumValue \cup {Null}]
  <2>1. ASSUME NEW m \in AstMap, NEW c \in Ctx \cup {NoCtx}, NEW made \in SUBSET Id,
               NEW kept \in SUBSET Id, Register(m, c, made, kept), Rest
        PROVE  TypeOK'
    BY <2>0, <2>1, RegisterTyped DEF TypeOK, AstsTyped
  <2>2. ASSUME NEW c \in Ctx, make_context(c) \/ destroy_context(c)
        PROVE  TypeOK'
    BY <2>2 DEF TypeOK, make_context, destroy_context
  <2>3. ASSUME NEW c \in Ctx, register_jserv(c)
        PROVE  TypeOK'
    <3>1. Rest
      BY <2>3, RegistryAssumption DEF TypeOK, register_jserv, register_polymorph
    <3> QED BY <2>1, <2>3, <3>1, RegistryAssumption DEF register_jserv
  <2>4. ASSUME NEW c \in Ctx, NEW p \in PortClass, register_iport(c, p)
        PROVE  TypeOK'
    <3>1. Rest
      BY <2>4 DEF TypeOK, register_iport, register_polymorph
    <3> QED BY <2>1, <2>4, <3>1, RegistryAssumption DEF register_iport
  <2>5. ASSUME NEW c \in Ctx, NEW id \in DOMAIN MsgOf, specialize_msg_astpth(c, id)
        PROVE  TypeOK'
    <3>1. Rest
      BY <2>5 DEF TypeOK, specialize_msg_astpth
    <3> QED BY <2>1, <2>5, <3>1, RegistryAssumption DEF specialize_msg_astpth, specialize_req
  <2>6. ASSUME NEW c \in Ctx, NEW id \in Id, load_ast(c, id)
        PROVE  TypeOK'
    <3>1. Rest
      BY <2>6 DEF TypeOK, load_ast
    <3> QED BY <2>1, <2>6, <3>1, RegistryAssumption DEF load_ast, Loaded
  <2>7. ASSUME NEW s \in EnumSlot, NEW c \in Ctx, NEW p \in PortClass, NEW x \in Text, construct(c, p, x, s)
        PROVE  TypeOK'
    BY <2>0, <2>7, MadeTyped DEF TypeOK, construct
  <2>8. ASSUME NEW s \in EnumSlot, NEW c \in Ctx, NEW x \in Text, read_port(c, x, s)
        PROVE  TypeOK'
    <3>1. polymorphs[c] \in PortClass
      BY <2>8 DEF read_port, TypeOK
    <3> QED BY <2>0, <2>8, <3>1, MadeTyped DEF TypeOK, read_port
  <2>9. ASSUME NEW s \in EnumSlot, NEW t \in EnumSlot, assign(s, t)
        PROVE  TypeOK'
    BY <2>9 DEF TypeOK, assign, Assigned
  <2>10. ASSUME NEW s \in EnumSlot, NEW x \in Compared, compare(s, x)
         PROVE  TypeOK'
    <3>1. ASSUME NEW n \in AstMap, NEW id \in DOMAIN asts[n]
          PROVE  asts[n][id] \in Ast /\ Asked(id, asts[n][id], x) \in Ast
      <4>1. asts[n][id] \in Ast
        BY DEF TypeOK
      <4> QED BY <4>1 DEF Ast, Asked, BlanksAfter
    <3>2. DOMAIN asts' = AstMap /\ \A n \in AstMap : DOMAIN asts'[n] = DOMAIN asts[n]
      BY <2>0, <2>10, CompareEffect
    <3>3. \A n \in AstMap : \A id \in DOMAIN asts[n] : asts'[n][id] \in Ast
      BY <2>0, <2>10, <3>1, CompareEffect
    <3>4. AstsTyped(asts')
      BY <2>0, <3>2, <3>3 DEF AstsTyped
    <3> QED BY <2>10, <3>4 DEF TypeOK, AstsTyped, compare
  <2>11. CASE UNCHANGED vars
    BY <2>11 DEF TypeOK, vars
  <2> QED BY <2>2, <2>3, <2>4, <2>5, <2>6, <2>7, <2>8, <2>9, <2>10, <2>11
          DEF Next, ContextStep, EnumStep
<1> QED BY <1>1, <1>2, PTL DEF Spec

-----------------------------------------------------------------------------
(* No enum dangles.                                                        *)

\* A registration that replaces no AST of a port class leaves every enum
\* what it points to.
LEMMA RegisterKeepsEnums ==
  ASSUME TypeOK, EnumsPoint, NEW m \in AstMap, NEW c, NEW made \in SUBSET Id, NEW kept \in SUBSET Id,
         Register(m, c, made, kept), made \cap PortClass \cap DOMAIN asts[m] = {}, enums' = enums
  PROVE  EnumsPoint'
<1> SUFFICES ASSUME NEW s \in EnumSlot, IsSet(enums[s])
             PROVE  Points(enums[s])'
  BY DEF EnumsPoint, IsSet
<1> DEFINE e == enums[s]
<1>1. AstsTyped(asts)
  BY DEF TypeOK, AstsTyped
<1>2. e \in EnumValue /\ Points(e)
  BY DEF TypeOK, EnumsPoint, IsSet
<1>3. e.cls \in PortClass /\ e.map \in AstMap
  BY <1>2 DEF EnumValue
<1>4. e.cls \in DOMAIN asts'[e.map] /\ asts'[e.map][e.cls] = asts[e.map][e.cls]
  BY <1>1, <1>2, <1>3, RegisterEffect DEF Points
<1> QED BY <1>2, <1>3, <1>4 DEF Points

\* The enum a context makes points to the AST it looked up.
LEMMA MadePoints ==
  ASSUME NEW c \in Ctx, NEW p, NEW x, Has(c, p)
  PROVE  Points(Made(c, p, x))
  BY RegistryAssumption DEF Points, Made, Has

\* However contexts come and go and AST files are read, no enum is left with
\* the AST of its class freed under it, if nothing is registered twice.
THEOREM EnumsNeverDangle ==
  ASSUME ~Reregisters
  PROVE  Spec => []EnumsPoint
<1>1. Init => EnumsPoint
  BY DEF Init, EnumsPoint, IsSet
<1>2. TypeOK /\ EnumsPoint /\ [Next]_vars => EnumsPoint'
  <2> SUFFICES ASSUME TypeOK, EnumsPoint, [Next]_vars PROVE EnumsPoint'
    OBVIOUS
  <2>0. \A c \in Ctx : MapOf[c] \in AstMap
    BY RegistryAssumption
  <2>1. ASSUME asts' = asts, NEW s \in EnumSlot, NEW e, enums' = [enums EXCEPT ![s] = e],
               IsSet(e) => Points(e)
        PROVE  EnumsPoint'
    BY <2>1 DEF TypeOK, EnumsPoint, IsSet, Points
  <2>2. ASSUME NEW c \in Ctx, make_context(c) \/ destroy_context(c)
        PROVE  EnumsPoint'
    BY <2>2 DEF EnumsPoint, IsSet, Points, make_context, destroy_context
  <2>3. ASSUME NEW c \in Ctx, register_jserv(c)
        PROVE  EnumsPoint'
    <3>1. DOMAIN asts[MapOf[c]] = {}
      BY <2>3 DEF register_jserv
    <3> QED BY <2>0, <2>3, <3>1, RegisterKeepsEnums, RegistryAssumption DEF register_jserv
  <2>4. ASSUME NEW c \in Ctx, NEW p \in PortClass, register_iport(c, p)
        PROVE  EnumsPoint'
    <3>1. p \notin DOMAIN asts[MapOf[c]]
      BY <2>4 DEF register_iport, Has
    <3> QED BY <2>0, <2>4, <3>1, RegisterKeepsEnums, RegistryAssumption DEF register_iport
  <2>5. ASSUME NEW c \in Ctx, NEW id \in DOMAIN MsgOf, specialize_msg_astpth(c, id)
        PROVE  EnumsPoint'
    <3>1. {MsgOf[id]} \in SUBSET Id /\ {id} \in SUBSET Id /\ MsgOf[id] \notin PortClass
      BY RegistryAssumption
    <3> QED BY <2>0, <2>5, <3>1, RegisterKeepsEnums DEF specialize_msg_astpth, specialize_req
  <2>6. ASSUME NEW c \in Ctx, NEW id \in Id, load_ast(c, id)
        PROVE  EnumsPoint'
    BY <2>0, <2>6, RegisterKeepsEnums DEF load_ast, Loaded
  <2>7. ASSUME NEW s \in EnumSlot, NEW c \in Ctx, NEW p \in PortClass, NEW x \in Text, construct(c, p, x, s)
        PROVE  EnumsPoint'
    BY <2>1, <2>7, MadePoints DEF construct
  <2>8. ASSUME NEW s \in EnumSlot, NEW c \in Ctx, NEW x \in Text, read_port(c, x, s)
        PROVE  EnumsPoint'
    BY <2>1, <2>8, MadePoints DEF read_port
  <2>9. ASSUME NEW s \in EnumSlot, NEW t \in EnumSlot, assign(s, t)
        PROVE  EnumsPoint'
    BY <2>1, <2>9 DEF assign, Assigned, EnumsPoint
  <2>10. ASSUME NEW s \in EnumSlot, NEW x \in Compared, compare(s, x)
         PROVE  EnumsPoint'
    <3>1. AstsTyped(asts)
      BY DEF TypeOK, AstsTyped
    <3>2. \A a \in Ast : \A p : Asked(p, a, x).reg = a.reg
      BY DEF Asked, Ast
    <3>3. ASSUME NEW n \in AstMap, NEW id \in DOMAIN asts[n]
          PROVE  id \in DOMAIN asts'[n] /\ asts'[n][id].reg = asts[n][id].reg
      <4>1. DOMAIN asts'[n] = DOMAIN asts[n]
        BY <2>10, <3>1, CompareEffect
      <4>2. asts'[n][id] = asts[n][id] \/ asts'[n][id] = Asked(id, asts[n][id], x)
        BY <2>10, <3>1, CompareEffect
      <4> QED BY <3>1, <3>2, <4>1, <4>2 DEF AstsTyped
    <3>4. \A e : Points(e) => Points(e)'
      BY <3>3 DEF Points
    <3> QED BY <2>10, <3>4 DEF EnumsPoint, compare, IsSet
  <2>11. CASE UNCHANGED vars
    BY <2>11 DEF EnumsPoint, IsSet, Points, vars
  <2> QED BY <2>2, <2>3, <2>4, <2>5, <2>6, <2>7, <2>8, <2>9, <2>10, <2>11
          DEF Next, ContextStep, EnumStep
<1> QED BY <1>1, <1>2, RegistryTyped, PTL DEF Spec

-----------------------------------------------------------------------------
(* Which ASTs may ask a context that is gone.                              *)

\* At most one context of a map is open, and one that is not made yet has
\* registered nothing.
OneByOne ==
  /\ \A c, d \in Ctx : Open(c) /\ Open(d) /\ MapOf[c] = MapOf[d] => c = d
  /\ \A c \in Ctx : contexts[c] = "unborn" => polymorphs[c] = NoPort

\* What is inductive of the ASTs: the ones register_jserv makes ask the context
\* that registered last, and of the others only messages ask any.
AsksRegistrar(id, a, c) == id \in Created => a.ctx \in {NoCtx, c}
MayAsk(id, a) == a.ctx # NoCtx => id \in Created \cup Messages
CapturesLast ==
  /\ \A c \in Ctx : Serving(c) =>
        \A id \in DOMAIN asts[MapOf[c]] : AsksRegistrar(id, asts[MapOf[c]][id], c)
  /\ \A m \in AstMap : \A id \in DOMAIN asts[m] : MayAsk(id, asts[m][id])

LEMMA OneByOneKept ==
  ASSUME Successive, TypeOK, OneByOne, [Next]_vars
  PROVE  OneByOne'
<1>0. \A c \in Ctx, d \in Ctx : MapOf[c] = MapOf[d] => MapOf[d] = MapOf[c]
  OBVIOUS
<1>1. ASSUME NEW c \in Ctx, make_context(c) PROVE OneByOne'
  BY <1>1 DEF make_context, OneByOne, Open, TypeOK
<1>2. ASSUME NEW c \in Ctx, destroy_context(c) PROVE OneByOne'
  BY <1>2 DEF destroy_context, OneByOne, Open, TypeOK
<1>3. ASSUME NEW c \in Ctx, NEW p, Open(c), register_polymorph(c, p), contexts' = contexts
      PROVE  OneByOne'
  BY <1>3 DEF register_polymorph, OneByOne, Open, TypeOK
<1>4. CASE contexts' = contexts /\ polymorphs' = polymorphs
  BY <1>4 DEF OneByOne, Open
<1> QED BY <1>1, <1>2, <1>3, <1>4 DEF Next, ContextStep, EnumStep, register_jserv, register_iport,
           specialize_msg_astpth, load_ast, construct, read_port, assign, compare, vars

\* A new AST asks the context that made it, and none unless it is a message's,
\* a body's or one of register_jserv.
LEMMA NewAsks ==
  ASSUME NEW id, NEW c
  PROVE  AsksRegistrar(id, NewAst(id, c), c) /\ NewAst(id, c).ctx \in {NoCtx, c}
  BY DEF NewAst, AsksRegistrar

\* A registration by c keeps what is inductive, if c is the only context of
\* its map that serves afterwards and, should it begin to serve, makes all
\* that register_jserv makes.
LEMMA RegisterCaptures ==
  ASSUME TypeOK, CapturesLast, NEW c \in Ctx, NEW b \in {c, NoCtx},
         NEW made \in SUBSET Id, NEW kept \in SUBSET Id, Register(MapOf[c], b, made, kept),
         \A d \in Ctx : Serving(d)' /\ MapOf[d] = MapOf[c] => d = c,
         \A d \in Ctx : Serving(d)' => Serving(d) \/ (d = c /\ Created \subseteq made),
         \A id \in made \cup kept : NewAst(id, b).ctx # NoCtx => id \in Created \cup Messages
  PROVE  CapturesLast'
<1> DEFINE m == MapOf[c]
<1>0. AstsTyped(asts) /\ m \in AstMap /\ Register(m, b, made, kept)
  BY RegistryAssumption DEF TypeOK, AstsTyped
<1>1. \A n \in AstMap \ {m} : asts'[n] = asts[n]
  BY <1>0 DEF Register, Registered, AstsTyped
<1>2. DOMAIN asts'[m] = DOMAIN asts[m] \cup made \cup kept
  BY <1>0 DEF Register, Registered, AstsTyped
<1>3. \A id \in DOMAIN asts'[m] :
         asts'[m][id] = IF id \in made \/ id \notin DOMAIN asts[m] THEN NewAst(id, b) ELSE asts[m][id]
  BY <1>0 DEF Register, Registered, AstsTyped
<1>4. ASSUME NEW d \in Ctx, Serving(d)', NEW id \in DOMAIN asts'[MapOf[d]]
      PROVE  AsksRegistrar(id, asts'[MapOf[d]][id], d)
  <2>0. MapOf[d] \in AstMap
    BY RegistryAssumption
  <2>1. CASE MapOf[d] # m
    <3>1. Serving(d) /\ asts'[MapOf[d]] = asts[MapOf[d]]
      BY <1>1, <1>4, <2>0, <2>1
    <3> QED BY <1>4, <3>1 DEF CapturesLast
  <2>2. CASE MapOf[d] = m
    <3>1. d = c /\ id \in DOMAIN asts'[m]
      BY <1>4, <2>2
    <3>2. AsksRegistrar(id, NewAst(id, b), c)
      BY NewAsks DEF AsksRegistrar
    <3>3. CASE id \in made \/ id \notin DOMAIN asts[m]
      <4>1. asts'[m][id] = NewAst(id, b)
        BY <1>3, <3>1, <3>3
      <4> QED BY <2>2, <3>1, <3>2, <4>1
    <3>4. CASE id \notin made /\ id \in DOMAIN asts[m]
      <4>1. asts'[m][id] = asts[m][id]
        BY <1>3, <3>1, <3>4
      <4>2. CASE id \in Created
        <5>1. Serving(c)
          BY <1>4, <3>1, <3>4, <4>2
        <5>2. AsksRegistrar(id, asts[m][id], c)
          BY <3>4, <5>1 DEF CapturesLast
        <5> QED BY <2>2, <3>1, <4>1, <5>2
      <4>3. CASE id \notin Created
        BY <4>3 DEF AsksRegistrar
      <4> QED BY <4>2, <4>3
    <3> QED BY <3>3, <3>4
  <2> QED BY <2>1, <2>2
<1>5. ASSUME NEW n \in AstMap, NEW id \in DOMAIN asts'[n]
      PROVE  MayAsk(id, asts'[n][id])
  <2>1. CASE n # m
    BY <1>1, <1>5, <2>1 DEF CapturesLast
  <2>2. CASE n = m
    <3>0. id \in DOMAIN asts'[m]
      BY <2>2
    <3>1. CASE id \in made \/ id \notin DOMAIN asts[m]
      <4>1. asts'[m][id] = NewAst(id, b)
        BY <1>3, <3>0, <3>1
      <4>2. id \in made \cup kept
        BY <1>2, <3>0, <3>1
      <4> QED BY <2>2, <4>1, <4>2 DEF MayAsk
    <3>2. CASE id \notin made /\ id \in DOMAIN asts[m]
      <4>1. asts'[m][id] = asts[m][id]
        BY <1>3, <3>0, <3>2
      <4> QED BY <1>0, <2>2, <3>2, <4>1 DEF CapturesLast
    <3> QED BY <3>1, <3>2
  <2> QED BY <2>1, <2>2
<1> QED BY <1>4, <1>5 DEF CapturesLast

LEMMA CapturesLastKept ==
  ASSUME Successive, TypeOK, OneByOne, OneByOne', CapturesLast, [Next]_vars
  PROVE  CapturesLast'
<1>1. \A c, d \in Ctx : Serving(c) /\ Serving(d) /\ MapOf[c] = MapOf[d] => c = d
  BY DEF OneByOne, Serving
<1>2. ASSUME asts' = asts, \A d \in Ctx : Serving(d)' => Serving(d) PROVE CapturesLast'
  BY <1>2 DEF CapturesLast
<1>3. ASSUME NEW c \in Ctx, make_context(c) PROVE CapturesLast'
  <2>1. \A d \in Ctx : Serving(d)' => Serving(d)
    BY <1>3, RegistryAssumption DEF make_context, OneByOne, Serving, Open, TypeOK
  <2> QED BY <1>2, <1>3, <2>1 DEF make_context
<1>4. ASSUME NEW c \in Ctx, destroy_context(c) PROVE CapturesLast'
  <2>1. \A d \in Ctx : Serving(d)' => Serving(d)
    BY <1>4 DEF destroy_context, Serving, Open, TypeOK
  <2> QED BY <1>2, <1>4, <2>1 DEF destroy_context
<1>5. ASSUME NEW c \in Ctx, contexts' = contexts, Open(c)
      PROVE  \A d \in Ctx : Serving(d)' /\ MapOf[d] = MapOf[c] => d = c
  BY <1>5 DEF OneByOne, Serving, Open
<1>6. ASSUME NEW c \in Ctx, register_jserv(c) PROVE CapturesLast'
  <2>1. \A d \in Ctx : Serving(d)' => Serving(d) \/ (d = c /\ Created \subseteq Created)
    BY <1>6 DEF register_jserv, register_polymorph, Serving, Open, TypeOK
  <2>2. \A id \in Created \cup Kept : id \in Created \cup Messages
    BY DEF Messages
  <2> QED BY <1>5, <1>6, <2>1, <2>2, RegisterCaptures, RegistryAssumption DEF register_jserv
<1>7. ASSUME NEW c \in Ctx, NEW p \in PortClass, register_iport(c, p) PROVE CapturesLast'
  <2>1. \A d \in Ctx : Serving(d)' => Serving(d)
    BY <1>7 DEF register_iport, register_polymorph, Serving, Open, TypeOK
  <2>2. \A id \in {p} \cup {} : NewAst(id, c).ctx = NoCtx
    BY RegistryAssumption DEF NewAst
  <2>3. {p} \in SUBSET Id /\ {} \in SUBSET Id
    BY RegistryAssumption
  <2> QED BY <1>5, <1>7, <2>1, <2>2, <2>3, RegisterCaptures DEF register_iport
<1>8. ASSUME NEW c \in Ctx, NEW id \in DOMAIN MsgOf, specialize_msg_astpth(c, id) PROVE CapturesLast'
  <2>1. \A d \in Ctx : Serving(d)' => Serving(d)
    BY <1>8 DEF specialize_msg_astpth, Serving, Open
  <2>2. {MsgOf[id]} \in SUBSET Id /\ {id} \in SUBSET Id
    BY RegistryAssumption
  <2>3. \A i \in {MsgOf[id]} \cup {id} : i \in Created \cup Messages
    BY DEF Messages
  <2> QED BY <1>5, <1>8, <2>1, <2>2, <2>3, RegisterCaptures DEF specialize_msg_astpth, specialize_req
<1>9. ASSUME NEW c \in Ctx, NEW id \in Id, load_ast(c, id) PROVE CapturesLast'
  <2>1. \A d \in Ctx : Serving(d)' => Serving(d)
    BY <1>9 DEF load_ast, Serving, Open
  <2>2. \A i \in {} \cup {id} : NewAst(i, NoCtx).ctx = NoCtx
    BY DEF NewAst
  <2>3. {id} \in SUBSET Id /\ {} \in SUBSET Id
    OBVIOUS
  <2>4. Register(MapOf[c], NoCtx, {}, {id}) /\ contexts' = contexts /\ Open(c)
    BY <1>9 DEF load_ast, Loaded
  <2>5. \A d \in Ctx : Serving(d)' /\ MapOf[d] = MapOf[c] => d = c
    BY <1>5, <2>4
  <2> QED BY <2>1, <2>2, <2>3, <2>4, <2>5, RegisterCaptures
<1>10. ASSUME NEW s \in EnumSlot, NEW x \in Compared, compare(s, x) PROVE CapturesLast'
  <2>1. AstsTyped(asts)
    BY DEF TypeOK, AstsTyped
  <2>2. \A a \in Ast : \A p : Asked(p, a, x).ctx = a.ctx
    BY DEF Asked, Ast
  <2>3. ASSUME NEW n \in AstMap, NEW id \in DOMAIN asts'[n]
        PROVE  id \in DOMAIN asts[n] /\ asts'[n][id].ctx = asts[n][id].ctx
    <3>1. DOMAIN asts'[n] = DOMAIN asts[n]
      BY <1>10, <2>1, CompareEffect
    <3>2. asts'[n][id] = asts[n][id] \/ asts'[n][id] = Asked(id, asts[n][id], x)
      BY <1>10, <2>1, <3>1, CompareEffect
    <3> QED BY <2>1, <2>2, <3>1, <3>2 DEF AstsTyped
  <2>4. \A d \in Ctx : MapOf[d] \in AstMap /\ (Serving(d)' <=> Serving(d))
    BY <1>10, RegistryAssumption DEF compare, Serving, Open
  <2> QED BY <2>3, <2>4 DEF CapturesLast, AsksRegistrar, MayAsk
<1>11. ASSUME UNCHANGED <<contexts, asts, polymorphs>> PROVE CapturesLast'
  <2>1. \A d \in Ctx : Serving(d)' => Serving(d)
    BY <1>11 DEF Serving, Open
  <2> QED BY <1>2, <1>11, <2>1
<1> QED BY <1>3, <1>4, <1>6, <1>7, <1>8, <1>9, <1>10, <1>11
        DEF Next, ContextStep, EnumStep, construct, read_port, assign, vars

\* When contexts of one map are made one after another, an open one that has
\* registered the protocol meets a context that is gone only through message
\* bodies and messages it did not make again: every AST register_jserv makes
\* itself asks the context that registered last.
THEOREM MessagesDangleAtMost ==
  ASSUME Successive
  PROVE  Spec => []OnlyMessagesDangle
<1>1. Init => OneByOne /\ CapturesLast
  BY RegistryAssumption DEF Init, OneByOne, CapturesLast, Serving, Open
<1>2. TypeOK /\ OneByOne /\ CapturesLast /\ [Next]_vars => (OneByOne /\ CapturesLast)'
  BY OneByOneKept, CapturesLastKept
<1>3. CapturesLast => OnlyMessagesDangle
  <2> SUFFICES ASSUME CapturesLast, NEW c \in Ctx, Serving(c), NEW id \in DOMAIN asts[MapOf[c]],
                      AsksGone(MapOf[c], id)
               PROVE  id \in Messages \ Created
    BY DEF OnlyMessagesDangle
  <2>1. MapOf[c] \in AstMap
    BY RegistryAssumption
  <2>2. AsksRegistrar(id, asts[MapOf[c]][id], c) /\ MayAsk(id, asts[MapOf[c]][id])
    BY <2>1 DEF CapturesLast
  <2> QED BY <2>2 DEF AsksRegistrar, MayAsk, AsksGone, Serving
<1> QED BY <1>1, <1>2, <1>3, RegistryTyped, PTL DEF Spec

-----------------------------------------------------------------------------
(* An enum prints what it was made of.                                     *)

\* What is inductive: no AST of a port class has a blank for a text that the
\* program makes enums of, and every enum prints what it was made of.
NoBlanks == /\ \A m \in AstMap : \A id \in DOMAIN asts[m] :
                  id \in PortClass => asts[m][id].blanks \cap Text \subseteq DOMAIN Encode[id]
            /\ PrintsItsName

LEMMA UrlRoundTrip ==
  ASSUME NEW p \in PortClass, NEW bs, NEW x \in Text, bs \cap Text \subseteq DOMAIN Encode[p]
  PROVE  NameOfUrl(p, UrlOf(p, bs, x)) = NameOfText(p, x)
<1>1. CASE x \in DOMAIN Encode[p]
  BY <1>1, EnumAssumption DEF NameOfUrl, UrlOf, NameOfText
<1>2. CASE x \notin DOMAIN Encode[p]
  <2>1. UrlOf(p, bs, x) = x
    BY <1>2 DEF UrlOf
  <2> QED BY <1>2, <2>1 DEF NameOfText
<1> QED BY <1>1, <1>2

\* Where no text that encode lacks is both compared with and made an enum of,
\* every enum prints the name of what it was made of, by the table of its own
\* class, wherever it was assigned to.
THEOREM EnumsPrintTheirName ==
  ASSUME \A p \in PortClass : Compared \cap Text \subseteq DOMAIN Encode[p]
  PROVE  Spec => []PrintsItsName
<1> DEFINE Prints(e) == IsSet(e) => NameOfUrl(e.cls, e.url) = e.said
           Clear(id, a) == id \in PortClass => a.blanks \cap Text \subseteq DOMAIN Encode[id]
<1>1. Init => NoBlanks
  BY DEF Init, NoBlanks, PrintsItsName, IsSet
<1>2. TypeOK /\ NoBlanks /\ [Next]_vars => NoBlanks'
  <2> SUFFICES ASSUME TypeOK, NoBlanks, [Next]_vars PROVE NoBlanks'
    OBVIOUS
  <2>1. AstsTyped(asts) /\ PrintsItsName
    BY DEF TypeOK, AstsTyped, NoBlanks
  <2>2. \A m \in AstMap : \A id \in DOMAIN asts[m] : Clear(id, asts[m][id])
    BY DEF NoBlanks
  <2>3. \A m \in AstMap : \A id \in DOMAIN asts'[m] : Clear(id, asts'[m][id])
    <3>1. ASSUME NEW m \in AstMap, NEW c, NEW made \in SUBSET Id, NEW kept \in SUBSET Id,
                 Register(m, c, made, kept), NEW n \in AstMap, NEW id \in DOMAIN asts'[n]
          PROVE  Clear(id, asts'[n][id])
      <4>1. Clear(id, NewAst(id, c))
        BY DEF NewAst
      <4>2. asts'[n][id] = NewAst(id, c) \/ (id \in DOMAIN asts[n] /\ asts'[n][id] = asts[n][id])
        BY <2>1, <3>1, RegisterNewOrKept
      <4> HIDE DEF Clear
      <4> QED BY <2>2, <4>1, <4>2
    <3>2. ASSUME NEW s \in EnumSlot, NEW x \in Compared, compare(s, x),
                 NEW n \in AstMap, NEW id \in DOMAIN asts'[n]
          PROVE  Clear(id, asts'[n][id])
      <4>1. id \in DOMAIN asts[n] /\ (asts'[n][id] = asts[n][id] \/ asts'[n][id] = Asked(id, asts[n][id], x))
        BY <2>1, <3>2, CompareEffect
      <4>2. \A a \in Ast : Asked(id, a, x).blanks = BlanksAfter(id, a.blanks, x)
        BY DEF Asked, Ast
      <4>3. asts[n][id] \in Ast
        BY <2>1, <4>1 DEF AstsTyped
      <4>4. Clear(id, asts[n][id])
        BY <2>2, <4>1
      <4>5. CASE asts'[n][id] = asts[n][id]
        BY <4>4, <4>5
      <4>6. CASE asts'[n][id] = Asked(id, asts[n][id], x)
        <5> SUFFICES ASSUME id \in PortClass
                     PROVE  BlanksAfter(id, asts[n][id].blanks, x) \cap Text \subseteq DOMAIN Encode[id]
          BY <4>2, <4>3, <4>6
        <5> QED BY <4>4 DEF BlanksAfter
      <4> QED BY <4>1, <4>5, <4>6
    <3>3. CASE asts' = asts
      BY <2>2, <3>3
    <3>4. \A c \in Ctx : MapOf[c] \in AstMap
      BY RegistryAssumption
    <3>5. \A id \in DOMAIN MsgOf : {MsgOf[id]} \in SUBSET Id /\ {id} \in SUBSET Id
      BY RegistryAssumption
    <3>6. (\E m \in AstMap, made \in SUBSET Id, kept \in SUBSET Id : \E c : Register(m, c, made, kept))
          \/ asts' = asts \/ (\E s \in EnumSlot, x \in Compared : compare(s, x))
      <4> DEFINE Registers == \E m \in AstMap, made \in SUBSET Id, kept \in SUBSET Id :
                                 \E d : Register(m, d, made, kept)
      <4>1. \A c \in Ctx : register_jserv(c) => Registers
        BY <3>4, RegistryAssumption DEF register_jserv
      <4>2. \A c \in Ctx, p \in PortClass : register_iport(c, p) => Registers
        BY <3>4, RegistryAssumption DEF register_iport
      <4>3. \A c \in Ctx, id \in DOMAIN MsgOf : specialize_msg_astpth(c, id) => Registers
        BY <3>4, <3>5 DEF specialize_msg_astpth, specialize_req
      <4>4. \A c \in Ctx, id \in Id : load_ast(c, id) => Registers
        BY <3>4 DEF load_ast, Loaded
      <4> HIDE DEF Registers
      <4>5. \A c \in Ctx : ContextStep(c) => Registers \/ asts' = asts
        BY <4>1, <4>2, <4>3, <4>4 DEF ContextStep, make_context, destroy_context
      <4>6. \A s \in EnumSlot : EnumStep(s) => asts' = asts \/ \E x \in Compared : compare(s, x)
        BY DEF EnumStep, construct, read_port, assign
      <4>7. Registers \/ asts' = asts \/ (\E s \in EnumSlot, x \in Compared : compare(s, x))
        BY <4>5, <4>6 DEF Next, vars
      <4> QED BY <4>7 DEF Registers
    <3> QED BY <3>1, <3>2, <3>3, <3>6
  <2>4. PrintsItsName'
    <3>1. ASSUME NEW c \in Ctx, NEW p \in PortClass, NEW x \in Text, Has(c, p)
          PROVE  Prints(Made(c, p, x))
      <4>1. asts[MapOf[c]][p].blanks \cap Text \subseteq DOMAIN Encode[p]
        BY <2>2, <3>1, RegistryAssumption DEF Has
      <4> QED BY <4>1, UrlRoundTrip DEF Made
    <3>2. ASSUME NEW s \in EnumSlot, NEW e, enums' = [enums EXCEPT ![s] = e], Prints(e)
          PROVE  PrintsItsName'
      BY <2>1, <3>2 DEF PrintsItsName, IsSet, TypeOK
    <3>3. ASSUME NEW s \in EnumSlot, NEW c \in Ctx, NEW p \in PortClass, NEW x \in Text, construct(c, p, x, s)
          PROVE  PrintsItsName'
      BY <3>1, <3>2, <3>3 DEF construct
    <3>4. ASSUME NEW s \in EnumSlot, NEW c \in Ctx, NEW x \in Text, read_port(c, x, s)
          PROVE  PrintsItsName'
      <4>1. polymorphs[c] \in PortClass
        BY <3>4 DEF read_port, TypeOK
      <4> QED BY <3>1, <3>2, <3>4, <4>1 DEF read_port
    <3>5. ASSUME NEW s \in EnumSlot, NEW t \in EnumSlot, assign(s, t)
          PROVE  PrintsItsName'
      <4>1. Prints(enums[t])
        BY <2>1 DEF PrintsItsName
      <4> QED BY <3>2, <3>5, <4>1 DEF assign, Assigned
    <3>6. CASE enums' = enums
      BY <2>1, <3>6 DEF PrintsItsName, IsSet
    <3> QED BY <3>3, <3>4, <3>5, <3>6
            DEF Next, ContextStep, EnumStep, make_context, destroy_context, register_jserv,
                register_iport, specialize_msg_astpth, load_ast, compare, vars
  <2> QED BY <2>3, <2>4 DEF NoBlanks
<1>3. NoBlanks => PrintsItsName
  BY DEF NoBlanks
<1> QED BY <1>1, <1>2, <1>3, RegistryTyped, PTL DEF Spec
====
