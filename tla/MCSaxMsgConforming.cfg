SPECIFICATION Spec
CONSTANTS
  TypeId <- MCTypeId
  Kind <- MCKind
  Key <- MCKey
  NoKey = "0"
  NoAst = ""
  Meta <- MCMeta
  Ast <- MCMeta
  Asts <- MCAsts
  Elem <- MCElem
  VarCtor = {}
  CreatePtr = {"UserReq"}
  Fresh <- MCFresh
  EnumName = {}
  Sentinel = "sentinel"
  PortUrl <- MCPortUrl
  RootType = "AnsonMsg"
  Token <- MCToken
  Conforming = TRUE
  MaxEvents = 12
  MaxDepth = 5
  MaxParses = 2
CHECK_DEADLOCK FALSE
PROPERTY Decodes
PROPERTY ContainersOnlyGrow
PROPERTY ConformingNeverRefused
