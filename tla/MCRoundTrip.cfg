SPECIFICATION RSpec
CONSTANTS
  TypeId <- MCTypeId
  Kind <- MCKind
  Key <- MCKey
  NoKey = "0"
  NoAst = ""
  Meta <- MCMeta
  Ast <- MCAst
  Asts = {"Anson", "AnsonMsg", "AnsonHeader", "SemanticObject", "AnsonBody", "UserReq", "AnResultset", "AnUpdateReq", "AnInsertReq", "JavaEnum", "MsgCode"}
  Elem <- MCElem
  VarCtor = {"list<VarType"}
  CreatePtr = {"UserReq"}
  Fresh <- MCFresh
  EnumName = {"ok", "exIo", "_sentinel_"}
  Sentinel = "past the end"
  PortUrl <- MCPortUrl
  RootType = "AnsonMsg"
  Token = {}
  Conforming = FALSE
  MaxEvents = 200
  MaxDepth = 10
  MaxParses = 1
  OwnAst <- MCOwnAst
  BaseAst <- MCBaseAst
  Getter <- MCGetter
  NullPtr = NullPtr
  Unescaped <- MCUnescaped
  Narrowed <- MCNarrowed
  Refused = Refused
  Content <- MCContent
  Objects <- MCObjects
CHECK_DEADLOCK FALSE
INVARIANT NeverMisread
INVARIANT AcceptedIfWritable
PROPERTY EveryObjectSettles
