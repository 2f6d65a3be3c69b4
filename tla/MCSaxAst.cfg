SPECIFICATION Spec
CONSTANTS
  TypeId <- MCTypeId
  Kind <- MCKind
  Key <- MCKey
  NoKey = "0"
  NoAst = ""
  Meta <- MCMeta
  Ast <- MCAst
  Asts <- MCAsts
  Elem <- MCElem
  VarCtor = {}
  CreatePtr = {}
  Fresh <- MCFresh
  EnumName = {}
  Sentinel = "sentinel"
  PortUrl <- MCPortUrl
  RootType = "AnsonAst"
  Token <- MCToken
  Conforming = TRUE
  MaxEvents = 14
  MaxDepth = 6
  MaxParses = 1
CHECK_DEADLOCK FALSE
PROPERTY Decodes
