---- MODULE MCRegistry ----
(***************************************************************************)
(* Two port classes, Port and WSPort, whose tables share a name and differ *)
(* in the url of another; a message body of register_jserv and one of the  *)
(* application.                                                            *)
(***************************************************************************)
EXTENDS AstRegistry, TLC

CONSTANTS xp, port  \* enum variables
MCSymmetry == Permutations({xp, port})

MCEncode == "Port" :> ("ping" :> "ping.ws" @@ "echo" :> "echo.less") @@
            "WSPort" :> ("ping" :> "ping.ws" @@ "echo" :> "echo.ws")
MCDecode == "Port" :> ("ping.ws" :> "ping" @@ "echo.less" :> "echo") @@
            "WSPort" :> ("ping.ws" :> "ping" @@ "echo.ws" :> "echo")

MCOwnMaps == "syn" :> "syn_asts" @@ "reg" :> "reg_asts"
MCOneMap == [c \in {"syn", "reg"} |-> "asts"]  \* as in a test that has one for two
MCMsgOf == "UserReq" :> "AnsonMsg<UserReq>" @@ "DocsReq" :> "AnsonMsg<DocsReq>"

MCId == {"Port", "WSPort", "AnsonBody", "UserReq", "DocsReq",
         "AnsonMsg<UserReq>", "AnsonMsg<DocsReq>", "Device"}
====
