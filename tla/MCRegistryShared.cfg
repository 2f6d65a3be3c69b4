SPECIFICATION Spec
CONSTANTS
  PortClass = {"Port", "WSPort"}
  Encode <- MCEncode
  Decode <- MCDecode
  Ctx = {"syn", "reg"}
  NoCtx = "no context"
  AstMap = {"asts"}
  MapOf <- MCOneMap
  Id <- MCId
  Created = {"Port", "AnsonBody", "AnsonMsg<UserReq>"}
  Kept = {"UserReq"}
  Capturing = {"AnsonBody", "UserReq", "DocsReq", "AnsonMsg<UserReq>", "AnsonMsg<DocsReq>"}
  MsgOf <- MCMsgOf
  AppLoaded = {"Device"}
  Port = "Port"
  EnumSlot = {port}
  xp = xp
  port = port
  Text = {"echo"}
  Compared = {"echo"}
  Reregisters = TRUE
  Successive = TRUE
  MaxRegs = 5
CHECK_DEADLOCK FALSE
INVARIANT OnlyMessagesDangle
