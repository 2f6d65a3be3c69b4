SPECIFICATION Spec
CONSTANTS
  PortClass = {"Port", "WSPort"}
  Encode <- MCEncode
  Decode <- MCDecode
  Ctx = {"syn", "reg"}
  NoCtx = "no context"
  AstMap = {"syn_asts", "reg_asts"}
  MapOf <- MCOwnMaps
  Id <- MCId
  Created = {"Port", "AnsonBody", "AnsonMsg<UserReq>"}
  Kept = {"UserReq"}
  Capturing = {"AnsonBody", "UserReq", "DocsReq", "AnsonMsg<UserReq>", "AnsonMsg<DocsReq>"}
  MsgOf <- MCMsgOf
  AppLoaded = {"Device"}
  Port = "Port"
  EnumSlot = {xp, port}
  xp = xp
  port = port
  Text = {"echo", "echo.ws"}
  Compared = {"echo", "query"}
  Reregisters = FALSE
  Successive = FALSE
  MaxRegs = 4
SYMMETRY MCSymmetry
CHECK_DEADLOCK FALSE
INVARIANTS TypeOK EnumsPoint PrintsItsName
