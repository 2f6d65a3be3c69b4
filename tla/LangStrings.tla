---- MODULE LangStrings ----
(***************************************************************************)
(* The global langs of langstring.h: the texts of one language file after  *)
(* another are read into it, and operator""_ans looks a text up.           *)
(***************************************************************************)
EXTENDS Naturals, Sequences

CONSTANTS
  Text,      \* the texts of the program
  Files,     \* the language files: [lang, en, local], the maps from Text
  MaxLoads   \* bound: files loaded

VARIABLES
  langs,   \* the global: [lang, en, local]
  loaded   \* history: what each load brought, in order

langvars == <<langs, loaded>>

NoTexts == [key \in {} |-> key]
LangInit == langs = [lang |-> "", en |-> NoTexts, local |-> NoTexts] /\ loaded = <<>>

\* A map member keeps the text it has for a key.
Replacing(old, new) ==
  [key \in DOMAIN old \cup DOMAIN new |-> IF key \in DOMAIN new THEN new[key] ELSE old[key]]
Keeping(old, new) ==
  [key \in DOMAIN old \cup DOMAIN new |-> IF key \in DOMAIN old THEN old[key] ELSE new[key]]

\* loadLangs: from_file into the same object.  A syntax error leaves the
\* members the file had completed: some of the three.
Brought(file, members) ==
  [lang |-> IF "lang" \in members THEN file.lang ELSE langs.lang,
   en |-> IF "en" \in members THEN file.en ELSE NoTexts,
   local |-> IF "local" \in members THEN file.local ELSE NoTexts]
load(file, members) ==
  /\ Len(loaded) < MaxLoads
  /\ LET b == Brought(file, members)
     IN /\ langs' = [lang |-> b.lang, en |-> Keeping(langs.en, b.en), local |-> Keeping(langs.local, b.local)]
        /\ loaded' = Append(loaded, b)
loadLangs == \E file \in Files, members \in SUBSET {"lang", "en", "local"} : load(file, members)

LangSpec == LangInit /\ [][loadLangs]_langvars

\* operator""_ans.
ans(key) == CASE key \in DOMAIN langs.local -> langs.local[key]
              [] key \notin DOMAIN langs.local /\ key \in DOMAIN langs.en -> langs.en[key]
              [] OTHER -> key

-----------------------------------------------------------------------------
\* A text is answered by the first file that brought a local text for it, else
\* by the first that brought an English one, else it stands for itself.
Bringing(loads, field, key) == {i \in DOMAIN loads : key \in DOMAIN loads[i][field]}
Earliest(S) == {i \in S : \A j \in S : i <= j}
FirstFileAnswers ==
  \A key \in Text :
    /\ \A i \in Earliest(Bringing(loaded, "local", key)) : ans(key) = loaded[i].local[key]
    /\ Bringing(loaded, "local", key) = {} =>
         \A i \in Earliest(Bringing(loaded, "en", key)) : ans(key) = loaded[i].en[key]
    /\ Bringing(loaded, "local", key) = {} /\ Bringing(loaded, "en", key) = {} => ans(key) = key
====
