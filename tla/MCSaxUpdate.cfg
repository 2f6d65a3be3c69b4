SPECIFICATION Spec
CONSTANTS
  TypeId <- MCTypeId
  Kind <- MCKind
  Key <- MCKey
  NoKey = "0"
  NoAst = ""
  Meta <- MCMeta
  Ast <- MCAst
  Asts = {"AnUpdateReq"}
  Elem <- MCElem
  VarCtor = {"list<VarType", "list<list<VarType"}
  CreatePtr = {}
  Fresh <- MCFresh
  EnumName = {}
  Sentinel = "sentinel"
  PortUrl <- MCPortUrl
  RootType = "AnUpdateReq"
  Token <- MCToken
  Conforming = FALSE
  MaxEvents = 13
  MaxDepth = 5
  MaxParses = 1
CHECK_DEADLOCK FALSE
INVARIANT TypeOK
INVARIANT RootKept
INVARIANT StackWithinDocument
PROPERTY WholeMembersOnly
