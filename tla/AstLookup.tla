---- MODULE AstLookup ----
(***************************************************************************)
(* Field lookup along a base chain, as find_field_recursive does for EnTT's *)
(* types and find_field_astid does for ASTs: a class's own table wins, and *)
(* the search goes on in the base class until a base is not registered.    *)
(***************************************************************************)

\* A table with another one put into it; what that one has replaces.
Replacing(old, new) ==
  [k \in DOMAIN old \cup DOMAIN new |-> IF k \in DOMAIN new THEN new[k] ELSE old[k]]

\* The whole table of each class, from the tables registered for the class
\* itself (own) and the base class it names (base).
Inherited(own, base) ==
  LET table[c \in DOMAIN own] ==
        IF base[c] \in DOMAIN own THEN Replacing(table[base[c]], own[c]) ELSE own[c]
  IN table
====
