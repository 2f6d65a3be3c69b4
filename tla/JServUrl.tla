---- MODULE JServUrl ----
(***************************************************************************)
(* The address of a server: a JServUrl made of the text of a url and of a  *)
(* protocol, given other urls later, and printed for a peer to read.  The  *)
(* text of a url is the record of the parts its author wrote;              *)
(* getHttpParts is what the expressions of common.h make of them.          *)
(***************************************************************************)
EXTENDS Integers, Sequences

CONSTANTS
  Urls,       \* the texts: [scheme, host, port, paths]
  Paths,      \* the protocol paths an application gives, sequences of names
  Bare,       \* the scheme of a text without "//"
  Blank,      \* a part that is there and empty
  NoPort,     \* the port of a text that has none, or one that is no number
  WellFormed, \* the hosts and names of a path boost parses
  Leftover    \* what an uninitialized int may hold

Allowed == {"http", "https", "ws", "wss"}
UrlText == [scheme : STRING, host : STRING, port : Nat \cup {NoPort}, paths : Seq(STRING)]

ASSUME UrlAssumption ==
  /\ Bare \in STRING /\ Blank \in STRING /\ Bare # Blank /\ {Bare, Blank} \cap Allowed = {}
  /\ NoPort \notin Nat /\ Blank \notin WellFormed
  /\ Leftover # {} /\ Leftover \subseteq Int
  /\ Urls \subseteq UrlText /\ Paths \subseteq Seq(STRING)

VARIABLES
  https, port, scheme, host,
  protocolpath,  \* of its jprotocol, a sequence of names
  ctx,           \* whether its jprotocol has a context
  from           \* history: the text given last

urlvars == <<https, port, scheme, host, protocolpath, ctx, from>>

\* A text without "//" is read as http; the port is the scheme's unless there is one.
SchemeOf(u) == IF u.scheme = Bare THEN "http" ELSE u.scheme
DefaultPort(s) == CASE s = "https" -> 443
                    [] s \in {"http", Blank} -> 80
                    [] OTHER -> 0

\* All the outcomes: without a host it returns early, and https and port are
\* what the caller's memory held.
Parts(s, sec, h, p, ps) == [scheme |-> s, https |-> sec, host |-> h, port |-> p, paths |-> ps]
getHttpParts(u) ==
  IF u.host = Blank
  THEN {Parts(Blank, sec, Blank, p, <<>>) : sec \in BOOLEAN, p \in Leftover}
  ELSE {Parts(SchemeOf(u), SchemeOf(u) = "https", u.host,
              IF u.port # NoPort THEN u.port ELSE DefaultPort(SchemeOf(u)), u.paths)}

\* The text Regex::asJserv normalizes u to; it leaves 80 and 443 out.
asJserv_http(u) ==
  LET p == CHOOSE p \in getHttpParts(u) : TRUE
  IN [scheme |-> "http", host |-> p.host,
      port |-> IF p.port \in {80, 443} THEN NoPort ELSE p.port, paths |-> p.paths]
asJserv(u) ==
  LET p == CHOOSE p \in getHttpParts(u) : TRUE
  IN [scheme |-> IF p.https THEN "https" ELSE "http", host |-> p.host,
      port |-> IF p.port \in {80, 443} THEN NoPort ELSE p.port, paths |-> p.paths]

seturl(parts) == /\ https' = parts.https /\ port' = parts.port
                 /\ scheme' = parts.scheme /\ host' = parts.host

\* Only the first name of the url's path becomes the protocol's.
PathGiven(parts, otherwise) == IF parts.paths = <<>> THEN otherwise ELSE <<Head(parts.paths)>>

\* JServUrl(url, jprotocol), and JServUrl(host, port, jprotocol) by way of "host:port".
construct_with_protocol(u, path, c) ==
  /\ \E parts \in getHttpParts(u) : seturl(parts)
  /\ protocolpath' = path /\ ctx' = c /\ from' = u

\* JServUrl(url, ctx).
construct_with_context(u, c) ==
  /\ \E parts \in getHttpParts(u) : seturl(parts) /\ protocolpath' = PathGiven(parts, <<>>)
  /\ ctx' = c /\ from' = u

\* A url without a path leaves the protocol the address had.
force_update_protocol(u) ==
  /\ \E parts \in getHttpParts(u) : seturl(parts) /\ protocolpath' = PathGiven(parts, protocolpath)
  /\ from' = u /\ UNCHANGED ctx

\* JServUrl() is an address of the blank text, without a context.
UrlInit == /\ https \in BOOLEAN /\ port \in Leftover
           /\ scheme = Blank /\ host = Blank /\ protocolpath = <<>> /\ ctx = FALSE
           /\ from = [scheme |-> Bare, host |-> Blank, port |-> NoPort, paths |-> <<>>]

UrlNext == \E u \in Urls :
  \/ \E path \in Paths, c \in BOOLEAN : construct_with_protocol(u, path, c)
  \/ \E c \in BOOLEAN : construct_with_context(u, c)
  \/ force_update_protocol(u)

UrlSpec == UrlInit /\ [][UrlNext]_urlvars

\* What the address prints.
jserv_short == [scheme |-> IF scheme = Blank THEN IF https THEN "https" ELSE "http" ELSE scheme,
                host |-> host, port |-> IF port \in {80, 443} THEN NoPort ELSE port, paths |-> protocolpath]
jserv == [scheme |-> IF scheme = Blank THEN IF https THEN "https" ELSE "http" ELSE scheme,
          host |-> host, port |-> IF port <= 0 THEN 80 ELSE port, paths |-> protocolpath]

\* UrlValidator: boost parses the text, and its scheme is one of the four.
isValid(u) == /\ u.scheme \in Allowed /\ u.host \in WellFormed
              /\ \A i \in DOMAIN u.paths : u.paths[i] \in WellFormed
valid == host # Blank /\ ctx /\ port >= 80 /\ scheme # Blank /\ isValid(jserv)

-----------------------------------------------------------------------------
\* A peer that makes a JServUrl of the text a valid() one prints addresses the
\* same server by the same protocol, whatever urls the first was given before;
\* the exception are the protocols an application gave with a path of several
\* names, of which the peer keeps the first (jprotocol.h:374).
SameAddress(parts) == /\ parts.https = https /\ parts.port = port
                      /\ parts.scheme = scheme /\ parts.host = host
                      /\ PathGiven(parts, <<>>) = protocolpath
ValidReadsBack ==
  valid => \A parts \in getHttpParts(jserv) : SameAddress(parts) <=> Len(protocolpath) <= 1

\* asJserv is said to have all parts (common.h:440), but for a server of one
\* scheme on the default port of the other it names another server: those, and
\* no others.
SameServer(p, q) == p.https = q.https /\ p.port = q.port /\ p.host = q.host /\ p.paths = q.paths
AsJservKeepsServer ==
  from.host # Blank =>
    \A p \in getHttpParts(from), q \in getHttpParts(asJserv(from)) :
      SameServer(p, q) <=> p.port # (IF p.https THEN 80 ELSE 443)
====
