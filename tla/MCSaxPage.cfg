SPECIFICATION Spec
CONSTANTS
  TypeId <- MCTypeId
  Kind <- MCKind
  Key <- MCKey
  NoKey = "0"
  NoAst = ""
  Meta <- MCMeta
  Ast <- MCMeta
  Asts <- MCAsts
  Elem <- MCElem
  VarCtor = {"list<VarType", "list<list<VarType"}
  CreatePtr = {}
  Fresh <- MCFresh
  EnumName = {}
  Sentinel = "sentinel"
  PortUrl <- MCPortUrl
  RootType = "DocsResp"
  Token <- MCToken
  Conforming = TRUE
  MaxEvents = 16
  MaxDepth = 6
  MaxParses = 1
CHECK_DEADLOCK FALSE
INVARIANT StackFollowsDocument
INVARIANT KeyFollowsDocument
PROPERTY Decodes
