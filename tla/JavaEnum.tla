---- MODULE JavaEnum ----
(***************************************************************************)
(* Java's enums in C++: Port and the other port classes.  A value holds a  *)
(* url and a pointer to the AST of its class, whose encode table turns     *)
(* names into urls and whose decode table turns them back.                 *)
(***************************************************************************)
EXTENDS Naturals, Sequences

CONSTANTS
  PortClass,  \* the port classes: Port, and those an application registers
  Encode,     \* class -> [name -> url], as its AST file gives it
  Decode      \* class -> [url -> name]

\* The value operator[] gives to a key a map<string, string> lacks.
Blank == ""

\* encode and decode are each other's inverse, as in the AST files.
ASSUME EnumAssumption ==
  /\ DOMAIN Encode = PortClass /\ DOMAIN Decode = PortClass
  /\ \A p \in PortClass : /\ Blank \notin DOMAIN Decode[p]
                          /\ \A x \in DOMAIN Encode[p] :
                               /\ Encode[p][x] \in DOMAIN Decode[p]
                               /\ Decode[p][Encode[p][x]] = x

\* The url of an enum of class p made of the text x, when encode holds a
\* blank url for the names in blanks beside those of the file.
UrlOf(p, blanks, x) == CASE x \in DOMAIN Encode[p] -> Encode[p][x]
                         [] x \in blanks \ DOMAIN Encode[p] -> Blank
                         [] OTHER -> x

\* valof: what an enum of class p prints for its url.
NameOfUrl(p, url) == IF url \in DOMAIN Decode[p] THEN Decode[p][url] ELSE url

\* The name the text x stands for, by the file: a url's, or itself.
NameOfText(p, x) == IF x \in DOMAIN Encode[p] THEN x ELSE NameOfUrl(p, x)
====
