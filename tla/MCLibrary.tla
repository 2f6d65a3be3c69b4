---- MODULE MCLibrary ----
(***************************************************************************)
(* A result set, the language strings and a server's address side by side: *)
(* sets of up to four rows, one of them ragged, with the column "A" asked  *)
(* for as "a" too; three language files; the urls of the tests.            *)
(***************************************************************************)
EXTENDS ResultSet, LangStrings, JServUrl, TLC

MCCol == {"a", "A", "B"}
MCUpper == "a" :> "A" @@ "A" :> "A" @@ "B" :> "B"
MCCellType == {"int", "string"}
Cells(n) == <<[t |-> "int", v |-> n], [t |-> "string", v |-> n]>>
MCNewRows == {<<>>, <<Cells(1)>>, <<Cells(2), Cells(3)>>, <<<<[t |-> "int", v |-> 4]>>>>}
MCNewCols == {"A" :> 0 @@ "B" :> 1, "A" :> 1}

MCText == {"ok", "failed"}
MCFiles == {[lang |-> "zh", en |-> "ok" :> "OK" @@ "failed" :> "Failed", local |-> "ok" :> "hao"],
            [lang |-> "ja", en |-> "ok" :> "Okay", local |-> "ok" :> "hai" @@ "failed" :> "dame"],
            [lang |-> "en", en |-> "failed" :> "No", local |-> <<>>]}

\* The urls of tests/test.common.h: with and without scheme, port and path; a
\* name boost does not parse, and a text without a host.
Url(s, h, p, ps) == [scheme |-> s, host |-> h, port |-> p, paths |-> ps]
MCUrls ==
  {Url(s, "odys-z", p, ps) : s \in {"http", "https", "ws", "ftp", "", "bare"},
                             p \in {NoPort, 80, 443, 8964}, ps \in {<<>>, <<"notes", "index">>}}
  \cup {Url("bare", "", NoPort, <<>>), Url("https", "::1", NoPort, <<"notes">>),
        Url("", "odys-z", 0, <<>>), Url("http", "odys-z", NoPort, <<"notes ">>)}
MCPaths == {<<>>, <<"jserv-album">>, <<"jserv", "album">>}

\* The three share nothing: a program uses one of them, the other two are as
\* they began.
LibraryInit == Init /\ LangInit /\ UrlInit
RowsUnused == ~walking /\ rowIdx = Before /\ landed = {} /\ rows = <<>>
TextsUnused == loaded = <<>>
UrlUnused == from.host = Blank /\ protocolpath = <<>> /\ ~ctx
LibraryNext ==
  \/ TextsUnused /\ UrlUnused /\ Next /\ UNCHANGED <<langvars, urlvars>>
  \/ RowsUnused /\ UrlUnused /\ loadLangs /\ UNCHANGED <<vars, urlvars>>
  \/ RowsUnused /\ TextsUnused /\ UrlNext /\ UNCHANGED <<vars, langvars>>
LibrarySpec == LibraryInit /\ [][LibraryNext]_<<vars, langvars, urlvars>> /\ WF_vars(next)
====
