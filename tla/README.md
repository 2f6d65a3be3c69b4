# A verification project for anson.cmake

anson.cmake is the C++ peer of Antson: a header-only library that reads and
writes the JSON messages of the jserv protocol. It decodes with nlohmann's SAX
parser into classes whose members are found through EnTT's meta system, driven
by *ASTs* (tables of field types) that the application registers. This
directory holds TLA+ modules of its core logic, the TLC configurations that
check them, and theorems about them checked by TLAPS. Source paths below are
relative to `src/io/odysz/` (in `PROJECT.json`, `src/src/io/odysz/`); tests are
in `tests/`.

## 1. The system

The program is single-threaded and keeps nothing on disk: its only actors are
the application, the lexer that calls the parser back, and the registries that
several contexts share. What is hard about it is therefore not concurrency but
callback order, long sequences of legal calls, copies that are written back
later, tables that two registrations must keep in agreement, and two programs,
a writer and a reader, that must agree on a text neither of them specifies.

| Component | State it keeps | Operations | Talks to |
|---|---|---|---|
| JSON decoder, `anserializer.h:357-988` | stack of `ParseNode`s, the shared `active_key` | one handler per token (`start_object`, `key`, `string`, ... `end_array`), `parse` | called by `sax_parse`; writes through EnTT; reads ASTs |
| AST registry and contexts, `reflect.h`, `json.h`, `entt_jserv.h`, `semantier.h`, `gen/semantier.hpp` | `AstMap` (owner of the ASTs) of each `JsonOpt`, polymorph aliases; EnTT meta data and variant constructors, shared by all contexts | `createAST`, `register_*`, `body_specialize_msg`, `load_ast`, `find_field_astid`, `register_polymorph` | the decoder, to load an AST file; everything else looks types up here |
| Enumerations, `anson.h:240-295`, `reflect.h:193-225`, `jprotocol.h:80-124` | name, raw pointer to an AST | construct, copy, compare, `valof` | the registry owns what it points to |
| Serializer, `anserializer.h:47-353, 990-1028` | none (a recursive writer) | `toBlock`, `serialize_envelope`, `serialize_kvs`, `serialize_list`, `serialize_map` | registry, EnTT |
| Type-id grammar, `common.h:591-643` | none | `parse_val_type`, `parseListValtype`, `parseMapValtype` | the decoder |
| Result set, `module/rs.h` | rows, column table, cursor | `next`, `beforeFirst`, `getInt`, ... | decoded as a message member |
| Language strings, `module/langstring.h` | a global table of translations | `loadLangs`, lookup | the decoder |
| Protocol messages, `jprotocol.h` | data classes: `AnsonMsg`, `AnsonResp`, `AnUpdateReq` ... | constructors, setters | decoder and serializer |
| Server addresses, `jprotocol.h:328-409`, `common.h:357-704` | scheme, host, port, protocol path | constructors, `force_update_protocol`, `jserv`, `valid`; `getHttpParts`, `asJserv` | a context; peers read what it prints |
| String utilities, `EnvPath`, `common.h`, `utils.h` | none | split, join, environment substitution | messages, tests |
| AES helper, `common.h:708-887` | none | encrypt, decrypt, pack and verify a session token | OpenSSL |

What makes each part correct, and what is hard to test about it:

* **Decoder.** A document that conforms to the registered classes ends up in
  the object as a decoder in place would put it; one that does not can neither unseat the node
  that refers to the caller's object nor leave nodes behind; an aborted parse
  leaves no fragment of the member it was in. Hard: every nested value is read into a *copy* and
  written back when its bracket closes; one `active_key` serves all nodes; a
  handler may push nothing for a bracket, yet the closing handler pops; the
  registrations in EnTT and in the AST are made by hand and may disagree.
* **Registry.** Every AST that something points to is alive; the base chain is
  finite; the field table and the polymorph aliases say what the last (or
  first) registration said. Hard: order and repetition of registrations,
  `operator[]` on shared tables, contexts sharing EnTT's global state.
* **Enumerations.** Two values are equal when they name the same member, and a
  comparison changes nothing. Hard: `operator==` with a string writes the
  table it reads.
* **Serializer.** What it writes is JSON, and the decoder reads it back as the
  same object, or as near to it as the text allows. Hard: the comma and key rules
  are spread over five functions, the writer goes by the type the AST declares,
  whatever the member holds, and texts are written as they are while the lexer
  reads escapes.
* **Result set.** Between two `beforeFirst`, `next` gives every row once, and a
  getter answers only on a row. Hard: documents are decoded into a set that is
  being walked, and what a decoder makes of a column differs from what the
  constructor makes of it.
* **Language strings.** What a second file may change of the texts of the first.
* **Server addresses.** A peer that reads what an address prints addresses the
  same server. Hard: parts are left over from the url given before, or from
  uninitialized memory, and default ports are left out.

`PROJECT.json` lists the hazards of all of them at their lines; the two without
a property carry a note that says why.

## 2. What is modelled

### Modules

| Module | Models | Size of its state |
|---|---|---|
| `AnsonSchema` | registered types: EnTT members (`Meta`), AST fields (`Ast`), the element types parsed from container ids (`Elem`), scalar conversions | constants only |
| `AstLookup` | the walk along base classes that `find_field_recursive` and `find_field_astid` make; the MC modules flatten their tables with it | - |
| `SaxEvents` | the lexer: the documents it can read and the order of its callbacks | `doc`, `nev`, `nparse`, `status` |
| `SaxParser` | `EnTTSaxParser`, one action per handler | `stack`, `inst`, `active_key` |
| `JsonDecode` | the abstract specification: decoding in place, without a stack | `obj`, `whole`, `path` |
| `SaxRefinement` | the refinement mapping from `SaxParser` to `JsonDecode` | - |
| `SaxParserProofs` | TLAPS theorems about `SaxParser` on any document | - |
| `ConformingProofs` | TLAPS theorems about it on conforming documents, among them that it implements `JsonDecode` | - |
| `JavaEnum` | a port class's `encode` and `decode` tables, what a text becomes and a url prints | constants only |
| `AstRegistry` | `JsonOpt`s, the ASTs in their maps, and the enums that point to them | `contexts`, `asts`, `polymorphs`, `nregs`, `enums` |
| `AstRegistryProofs` | TLAPS theorems about `AstRegistry` | - |
| `Serializer` | `toBlock` and the functions it calls, one action per function | `calls`, `text`, `serialize_type` |
| `RoundTrip` | `Serializer` and `SaxParser` joined by the text: a writer, a lexer with a text to read, a reader | theirs, `obj`, `pos`, `sep` |
| `RoundTripProofs` | TLAPS theorem about `RoundTrip`: what is accepted is what becomes of the object on the way | - |
| `AcceptanceProofs` | TLAPS theorem about it: which texts are accepted | - |
| `JservTypes` | the classes `register_jserv` knows: AST, EnTT type and getter of each, as registered | constants only |
| `JservRegistry`, `JservRegistryProofs` | the register functions run for several contexts over one table of EnTT types; TLAPS theorems about their order, what lookups and getters answer, what can be constructed | `turn`, `asts`, `aliases`, `entt`, `var_ctors` |
| `ResultSet` | `AnResultset` | `rows`, `colnames`, `rowIdx`, `walking`, `answer` and a history |
| `LangStrings` | the global `langs` | `langs` and a history |
| `JServUrl` | the address of a server | `https`, `port`, `scheme`, `host`, `protocolpath`, `ctx` and a history |
| `LibraryProofs` | TLAPS theorems about the last three | - |
| `MCSaxMsg`, `MCSaxPage`, `MCSaxAst`, `MCSaxUpdate` | four schemas taken from the protocol's classes | - |
| `MCRegistry` | two contexts, two port classes, two message bodies | - |
| `MCRoundTrip` | a message class over the classes jserv registers, and the objects of it that are sent | - |
| `MCJserv`, `MCLibrary` | two contexts; result sets, language files and urls | - |

`SaxEvents` is the environment. Its `doc` is the lexer's stack of open
brackets; an event (`EvOpen`, `EvKey`, `EvScalar`, ...) is enabled exactly when
JSON's grammar allows it next, and an error can strike at any time. Beside each
bracket `doc` remembers the type the schema has at that place; with
`Conforming = TRUE` only documents a writer of the registered classes could
produce are read (plus members no class has, where the value is a scalar),
with `FALSE` any document whatever.

`SaxParser` conjoins each event with what the handler does. Correspondence:

| Code | Model |
|---|---|
| `ParseNode` (`instance`, `val_astid`, `is_val_ptr`, `is_list`, `is_map`, `activekey`, `map_key`) | `stack[i]`; `instance` is split into its type `stack[i].ty` and its content `inst[i]` |
| the root's instance, a reference to the caller's object | `inst[1]`, which outlives a parse |
| `set_value`, `insert_list`, `insert_map`, called by the scalar handlers | `set_value(tok)` by way of `ValueSet` |
| `start_object` | `start_object_member`, `_element`, `_skipped`: a member opened on a copy, an element constructed, nothing pushed |
| `end_object` | `end_object_root`, `end_object_nested`; `ObjectInto` is the write-back into member, map or list |
| `start_array`, `end_array` | `start_array_member`, `_element`, `_refused`, `_skipped`; `end_array_list`, `_skipped` with `ListInto` and `ArrayVerdict` |
| `key`, `null`, `parse_error` | the actions of those names |
| `from_json` / `parse` | `parse` begins, `finish` ends; the answer is `status` |
| inserting into an EnTT container view that is not valid | `status = "undefined"`, after which nothing is claimed |

Values have no tags, as in C++: `inst[i]` is an integer, a string, a sequence or
a function, and `stack[i].ty` says which. Strings, names and numbers are
members of small sets; conversions are what they do (`AsInt`, `VarOf`,
`EnumOf`, `PortOf`).

`JsonDecode` is what a user is promised: there is one object and no stack, each
event takes effect at once at the place the document has reached, closing a
bracket changes nothing, a list is appended to, a map keeps the first value it
has for a key, and an error takes back the top-level member it struck in.
`SaxRefinement` maps the parser onto it: `obj` is the stack folded from the top
with the parser's own write-backs, `whole` is `inst[1]`, and `path` is read off
the nodes.

`AstRegistry` is about who owns what. The code has no ownership protocol: a
map's `unique_ptr`s own the ASTs, while enums and the `get_field_instance`
closures hold raw pointers to ASTs and contexts. The model gives every AST the
number of the registration that made it; a pointer remembers that number, and
`Points` says whether the AST is still the one it was taken from.

| Code | Model |
|---|---|
| `JsonOpt` constructed, destroyed | `make_context`, `destroy_context`; a context lives once; with `Successive`, one after another on a map |
| `(*ctx->asts)[id] = unique_ptr(...)` in `createAST`, `register_enums`, `register_iport`, `specialize_req` | the ids in `made` of `Register`: replaced if there |
| `if (!ctx->has_ast(...))` in `body_specialize_msg`, `load_ast` | the ids in `kept`: left alone if there |
| `[ast, ctx]` captured by `get_field_instance` | `ctx` of the AST, for the ids in `Capturing` |
| `register_jserv` and the ten functions it calls | one step, over the ids the constants `Created` and `Kept` give |
| `Port(ctx, x)`; the branch of `set_value` for ports | `construct`; `read_port`, which asks the context's alias of `JavaEnum` |
| `encode[s]` in `operator==(string)` | `compare`, which may add `s` to the `blanks` of the AST it asks |
| `operator=`, `valof` | `assign`; `NameOfUrl` |

An enum's `said` is a history variable: the name of what the enum was made of.

`Serializer` keeps the C++ stack of the writer as `calls`: one activation for
each function that writes a bracket (an object, a list, a map), innermost last,
with the value it writes, its local variables and the place it is at (`pc`). A
step is what the innermost does next: `[out |-> the token it writes, if any,
calls |-> the stack afterwards]`. A `meta_any` is a pair of the C++ type it holds
(`ct`) and its content; beside it travels the type the AST declares (`id`), by
which the writer goes.

| Code | Model |
|---|---|
| `toBlock`, `serialize_envelope`, `serialize_kvs`, `serialize_fields` | an activation of `Object` and the actions of those names |
| the loop over the base ASTs and its flag `comma_by_base` | `at`, `last` and `comma` of an object's activation, `BaseComma` |
| `serialize_list`, `serialize_map` | activations of `ListOf`, `MapOf` and the actions of those names; a map of objects goes from `entry` to `object` without its key |
| `serialize_val` and what it calls: `serialize_jsonable`, `serialize_prim_value`, `serialize_var` | `serialize_val`, `JsonableMove`, `prim_token`, `serialize_var` |
| the closing bracket and the return | `close` |
| `get_field_instance` of an AST, its default getter | `get_field_instance`, over the names in `Getter` |
| `os << '"' << *s << '"'`, and what the lexer reads of it | `Quoted`, `RawKey`: `AsRead` is the text itself but for those in the table `Unescaped`, and `Refused` if it is no JSON |
| `std::to_string` of a double, read by `number_float` | `Decimal`: the table `Narrowed` gives the float, or `Refused` for `inf` and `nan` |
| `cast<double>()` of a float (`anson.h:132`) | `InvalidCast`; `invalid_cast` of `RoundTrip` sets `status = "undefined"`, and nothing is written on |

`RoundTrip` gives the lexer that text instead of any document: the actions
`read_open`, `read_key`, ... call `SaxParser`'s handlers when the token may stand
where it stands (`Allowed`, from JSON's grammar: `SaxEvents` knows where a value
is due, `sep` where a comma is), `read_misfit` is the lexer's syntax error. The
reader's object is a fresh one of the same class.

`JservTypes` is the tables the register functions write: for each class the
fields of its AST, the members of its EnTT type with their C++ types, and the
names its getter answers, each taken from its own place in the code.
`JservRegistry` runs the functions, in `register_jserv`'s order and then
`register_semantier`'s, as one action each per context. EnTT's types and the
container constructors belong to the process; ASTs and aliases to the context.
`ReadText` is the field that reading an AST text inserts into the registered AST
of `AnsonBodyAst` (`operator[]`, `anserializer.h:608`); `missing_ast_file` is
the exception that ends `register_semantier` half way.

| Code | Model |
|---|---|
| `AnResultset::next`, `beforeFirst`, `getCell`, `getInt` ... | `next`, `beforeFirst`, `getCell`, `get` |
| entering `while (rs.next())` without `beforeFirst` | `go_on` |
| `from_json` into a set in use | `from_json` of `ResultSet`: rows appended, columns kept, numbers read as text |
| reading past a row's end | `answer = Undefined` |
| `loadLangs`, `operator""_ans` | `load` with the members a file brought before it was cut short; `ans` |
| `JServUrl(url, jprotocol)`, `JServUrl(url, ctx)`, `JServUrl()` | `construct_with_protocol`, `construct_with_context`, `UrlInit` |
| `force_update_protocol`, `jserv`, `valid` | the definitions of those names; a text of a url is the record of its parts |
| parts of a url without a host (`common.h:496`, `556` return early) | `https` and `port` are any of `BOOLEAN` and `Leftover` |

### Runs

| Run | Question | Bounds | Result |
|---|---|---|---|
| `message` | Are two messages read into one `AnsonMsg<UserReq>` decoded as promised, is what its containers hold kept, is no conforming message refused? | 12 events, depth 5, 2 parses | holds |
| `page` | With nested objects, rows of variants and a map whose keys are also member names: do stack and key follow the document, and is it decoded as promised? | 16 events, depth 6 | holds |
| `ast` | Is an AST file (a map of objects, repeated keys, a list EnTT and the AST declare differently) decoded as promised? | 14 events, depth 6 | holds |
| `any_document` | What survives *any* document, conforming or not? | 13 events, depth 5 | holds |
| `registry` | While contexts come and go and AST files are loaded again, does an enum dangle, and do enums print what they were made of? | 2 contexts and maps, 4 registrations, 2 enums | holds |
| `registered_again` | Does an enum survive a second `register_jserv` on its map? | as above | violated |
| `na_goes_blank` | Is an enum made of "na" still "na" after another was compared with it? | as above | violated |
| `shared_map` | Which ASTs of a map that a second context registers on ask the first one, when that is gone? | 2 contexts, 1 map, 5 registrations, 1 enum | message bodies and their messages only |
| `round_trip` | Is what `toBlock` writes read back by `from_json` as what becomes of it on the way, or refused, and which is it? | 26 objects, with and without types | holds |
| `float_sent_on` | Can every object be written? | as above | violated |
| `jserv` | While two contexts are set up, do ASTs, EnTT's types and getters agree, and do lookups stay? | 2 contexts, 15 functions each | holds |
| `library` | Does a result set give every row once, which text does a language file leave, what does an address print? | 4 rows, 2 files, 52 urls | holds |

The properties:

* `TypeOK`: one content per node, never an empty stack.
* `RootKept`: the bottom node is the caller's, and only it has no key to be
  written back under.
* `StackWithinDocument`: no node outlives the bracket it was pushed for, though
  the handlers pop without asking what they close.
* `WholeMembersOnly`: the caller's object changes only while at most one node
  is above it.
* `StackFollowsDocument`, `KeyFollowsDocument`: on conforming documents the
  stack is the document's bracket stack and the shared key is the one the next
  value needs.
* `ConformingNeverRefused`, `ContainersOnlyGrow`: no handler refuses such a
  document, and no document takes back what a container holds.
* `Decodes`: the refinement, `SaxParser => JsonDecode`.
* `EnumsPoint`: every enum points to an AST that is still there.
* `OnlyMessagesDangle`: contexts of one map are made one after another, and each
  registers the protocol. Then `createAST` has replaced what captured the context
  before, but for the bodies `body_specialize_msg` keeps and the messages made for
  bodies of the application: whatever was read, specialized or registered in
  between, nothing else asks a context that is gone. A body that is kept does: its
  `get_field_instance` looks up the base's AST through the context it captured.
* `PrintsItsName`: an enum prints the name of what it was made of, after
  assignments between classes and after comparisons.
* `NeverMisread`: if the reader accepts a text, its object is what `Travelled` says
  becomes of the one that was written, and nothing else is lost: a text and a map
  key are what the lexer reads of them between quotes (a backslash and an `n` are
  a line end afterwards), a double is the float of its six decimals, an unsigned
  integer among variants is text, null cells and pointers vanish, and a member no
  getter answers is left as constructed.
* `AcceptedIfWritable`: of the texts that are written to their end, the reader
  accepts those of the objects that are `Writable` and no others. The others are
  written as something that is no JSON: an `AnInsertReq` (it has inherited fields
  only, and the comma after its type is missing), a map of objects that is not
  empty (keyless), a row with a date (unquoted), a null pointer with neighbours
  in its list (a comma too many), a text or a map key that is no JSON between
  quotes, such as a path of Windows (`tests/t10_escape.cpp`, `Invalid_payload`), an
  infinite double. Without types `AnInsertReq` is written soundly, and a null
  pointer alone in its list is: the list comes back empty.
* `EveryObjectSettles`: every object ends up read back or refused, or its writing
  is undefined. `WritingDefined`, that the latter never happens, is what
  `float_sent_on` violates.
* `BasesRegistered`, `LookupsStay`: whatever the progress of the contexts, a
  registered class finds its base, and what a field lookup answers never
  changes afterwards; the blank inserted by reading a text hides nothing.
* `DeclaredAsHeld`, `DeclaredConstructible`, `DeclaredAnswered`,
  `OnlyInsertOnlyInherits`: the three hand-written tables agree. Each property
  names its exceptions, all of them and no others: the ASTs of `SemanExpr`
  (`args`, `semantics`), `AnCtor` (`stype`, `semantics`), `SemanticObject.data`,
  `AnsonResp.map` and `AnUpdateReq`'s `cols` and `where` declare something else
  than the class holds; `where` names a type nobody registers; `SemanticObject`
  has no getter; `AnInsertReq` alone only inherits.
* `EveryRowOnce`: `next` passes no row it did not give, whatever is decoded in
  between, except a row that was decoded under a cursor past the end.
* `DefinedOnFullRows`: a getter leaves its row only if rows are ragged, as in
  `tests/t08_resultset.cpp`. `NothingFromDecoded`: the getters of a set that was
  only decoded never answer, because its column numbers are text.
* `LoopEnds`: a `while (rs.next())` loop ends, also when its body decodes.
* `FirstFileAnswers`: the first file with a local text answers for it, else the
  first with an English one, whatever is loaded later and wherever a file is cut
  short.
* `ValidReadsBack`: what a `valid()` address prints is read as the same address,
  whatever urls it was given before, unless its protocol path has several
  names. `AsJservKeepsServer`: `asJserv` keeps the server, except one on the
  default port of the other scheme (`https://h:80` becomes `https://h/`).

`PROJECT.json` names for each one a mutant of the code's logic that TLC must
then catch, such as forgetting to restore `active_key` in `end_object`.

**Bounds.** `MaxEvents` cuts a document off after that many tokens (the state
stays, an error or the end of the text may still come); `MaxDepth` bounds the
open brackets; `MaxParses` the `from_json` calls on one object. The bounds
let a document finish one deeply nested value and go on with the next, where a
key or a node left over from the first would show: closing a map of two lists
in a member of a member (`{"syncingPage":{"clientPaths":{k:[v],k:[v]}}}`) takes
16 events, two elements of a map of objects (`{"fields":{k:{"dataAnclass":v},`
`k:{"dataAnclass":v}}`) 14, and the first member of the second element of a list of
objects with rows (`{"postUpds":[{"nvs":[[v]]},{k`) 13. Each schema is the smallest with
the collision it is there for (a map key that is also a member name, a list whose two declarations differ, a list of shared pointers, a declaration that
disagrees with EnTT). The tokens are one for each lexer type the schema's
scalars tell apart. There is no symmetry: names are looked up in tables.
`MaxRegs = 4` lets both contexts register and two more registrations meet what
the first two left, such as a port class of the application and a load of its
file again; the two enum variables are symmetric. `Text` has a name and a text
that is a url in one class and none in the other, `Compared` a known name and
an unknown one. `Reregisters = FALSE` in `registry` leaves out only a second
`register_jserv` or `register_iport` of the same class on one map, which
`registered_again` shows to be unsafe; loading and specializing again stay in.
`shared_map` does register twice, and `MaxRegs = 5` lets the first context register and specialize a body of its own before the second registers,
with two more between and after. The objects of
`round_trip` are one that uses every member, a fresh one, and one for each way a
member can differ from the first, among them texts and keys with an escape, with
what is none, with a quote and with a line end, and doubles that are kept, cut to
zero and infinite; their classes cover every case of the writer: a
class without fields of its own at the bottom (`AnInsertReq`), in the middle
(`Anson`) and at the top of a base chain, pointers, rows, maps, both enums, a
class without a getter. `jserv` needs no bound: the scripts are finite.
`MaxRows = 4` lets a set be decoded into after a walk and walked again;
`library` checks three components in one run because they share nothing, each
with the other two as they began; its urls vary those of `tests/test.common.h`,
every scheme with every port. `MaxLoads = 2`: what a
further file changes depends on what it finds alone.

**Deadlock** is not checked: the system stops after the last parse, a
parser whose document reached `MaxEvents` can only fail, and a program whose
contexts are gone has nothing left to register; a text that was read, a
registration that is complete and a set nobody asks are ends too.

**Fairness and liveness.** `toBlock` and `from_json` run on the caller's thread
and wait for nothing, so that `RoundTrip` has `WF_allvars(RNext)`: an enabled
step is taken. `EveryObjectSettles` is then a claim about the writer's walk along
the base classes and the reader's over the text. `ResultSet` has `WF_vars(next)`:
the body of a `while (rs.next())` loop ends and the condition is evaluated again.
Nothing is assumed of the documents that are decoded in the body; they are
finitely many (`MaxRows`). The other specifications state no fairness: their
properties are safety, the refinement included.

### Findings

* `registered_again`: `createAST` and `register_iport` destroy the AST they
  replace (`json.h:87`, `json.h:642`), which only `load_ast` takes care not to
  do (`json.h:39`); the tests register twice on one map
  (`tests/t06_java_enum.cpp:19`).
* `na_goes_blank`: `operator==(string)` inserts a blank for an unknown name
  (`reflect.h:194`), and enums made of that name are blank from then on;
  `tests/t06_java_enum.cpp:35` expects "na".
* `float_sent_on`: `serialize_var` casts a float to double without `allow_cast`
  (`anson.h:131-132`), so that the cast fails; the parser stores every decimal of a
  row as a float (`anserializer.h:775`), and such a row cannot be sent on.

More that a reader of the code should know, and that the properties say openly:

* A number the lexer reads as unsigned becomes a string in a container of
  variants, because `VarType` has no alternative for `uint64_t`
  (`anserializer.h:406`): `Travelled` of `NeverMisread` has it so, and
  `NothingFromDecoded` is a consequence. `tests/t11_docstier.cpp:91-92` calls it a
  bug.
* The AST of `AnUpdateReq` declares `where` as `list<list<VarTypae>`
  (`entt_jserv.h:179`); no constructor of that name is registered, and the first row
  ends the parse. It is the one exception of `DeclaredConstructible`.
* `body_specialize_msg` keeps the AST of a body (`json.h:728`), which captured the
  context it was registered with; in a map that a second context registers on, as
  in `tests/t06_java_enum.cpp:64-65`, it asks the first for the fields of its base
  after that is destroyed. It is the exception of `OnlyMessagesDangle`.
* Lists are read on a copy of their present value (`anserializer.h:826`), so that a
  second `from_json` into the same object appends (`Decodes` and
  `ContainersOnlyGrow` say so; the test that would object is commented out,
  `tests/t09_autogen_Regex_Jservr.cpp:155`).
* `JavaEnum`'s constructor reports a null AST and then reads it (`reflect.h:206`).

## 3. What is proved

`SaxParserProofs` proves, for every schema that satisfies `SchemaAssumption`,
every set of tokens, every bound and conforming and other documents alike:

* `TypeCorrect == Spec => []TypeOK`
* `RootNodeKept == Spec => []RootKept`
* `WholeMembers == Spec => WholeMembersOnly`
* `ContainersGrow == Spec => ContainersOnlyGrow`

The assumptions are named `ASSUME`s that TLC evaluates in every run: the
schema's tables have the domains they are used with (`SchemaAssumption`), a new
container is empty and a new object's own objects and containers are new too
(`FreshAssumption`, which only `ContainersGrow` and the refinement need), the
bounds are natural numbers and the type ids do not contain the mark of an untyped
place (`BoundsAssumption`).

The argument. The inductive invariant is `Inv == DocOK /\ status \in Status /\
StackOK /\ RootKept /\ active_key \in Key \cup {NoKey}`. `RootKept` is needed
even for the type invariant: `end_array` pops when the top node is a list and
does not look at the stack's depth, so that the stack stays non-empty only
because the bottom node is never a list. Each handler is first classified by
what it does to the stack (`Pushes`, `Pops`, `Sets`, `Names`, `Stays`,
`Restarts`); one lemma per class then shows that the class keeps the invariant
and, away from the two lowest nodes, the caller's object. Lemmas on sequences
and on the lexer's events come first.

`ContainersGrow` is about copies of copies: what a list of the caller's object
holds is in the object, in the copy a node is building of its member, and in
the copies above that. `CInv` adds to `Inv` that each content is of its node's
type (`Contents`) and that what a copy was made of is still in it (`Copies`);
a write-back then only ever puts back something that has grown.

`AstRegistryProofs` proves, for any contexts, maps, ids, classes and number of
registrations:

* `RegistryTyped == Spec => []TypeOK`
* `EnumsNeverDangle`: if `~Reregisters`, then `Spec => []EnumsPoint`
* `MessagesDangleAtMost`: if `Successive`, then `Spec => []OnlyMessagesDangle`
* `EnumsPrintTheirName`: if the program makes no enum of an unknown text it
  also compares with, then `Spec => []PrintsItsName`

Their conditions are what the program must keep: `registered_again` and
`na_goes_blank` break the second and the last, and `Successive` says that two
contexts of one map are not open at once. `RegisterEffect` says what a registration does to all maps, and the
theorems follow from it action by action. `OnlyMessagesDangle` is not inductive: the invariant is `CapturesLast`. It says
of an open context that has registered that what `register_jserv` makes captured it
(`AsksRegistrar`), which needs that there is only one (`OneByOne`), and of every
AST, also while no context is open, that one which captured a context is made by
`register_jserv` or is a message's (`MayAsk`). Nor is `PrintsItsName`: `NoBlanks` adds that no AST has a blank for a text
enums are made of. They rest on `RegistryAssumption` and on `EnumAssumption`,
that `encode` and `decode` of an AST file are each other's inverse.

`ConformingProofs` proves, for every schema and every document:

* `NodesWithinDocument == Spec => []StackWithinDocument`

That there are no more nodes than brackets is not inductive: `end_object` and
`end_array` pop by the node on top, so that the brackets nothing was pushed for
may lie anywhere among the others. `Placed` adds that each node can be given the
position of a bracket, in rising order, lists (and only lists) that of a `[`:
a brace that closes then finds the last bracket without a node, or its node on
top. Before the first event no key is active, which is why the document's
outermost bracket pushes nothing.

And for every schema and every document that conforms to it:

* `NodesFollowDocument == Spec => []StackFollowsDocument`
* `KeyFollowsNodes == Spec => []KeyFollowsDocument`
* `ConformingAccepted == Spec => ConformingNeverRefused`

The invariant `Conforms` says what a reader of a bracket must be (`Reads`, per
node and bracket), how neighbouring nodes are nested (`Nests`: an element of a
list carries the list's key and has the constructors it needs), and what the
shared key holds (`KeyDue`). Every case of it is needed by another: the refusals
of `end_array` and `end_object` depend on the node below, which depends on what
was nested when it was pushed.

It proves too, for every schema that satisfies the assumptions above and `AgreementAssumption` (a scalar, port or enumeration member is declared as
what it is, and no map holds pointers), every set of tokens and every bound:

* `ConformingDecoded`: if `Conforming`, then `Spec => Decodes`

so that every handler is a step of `JsonDecode` or a stutter of it. Conforming
documents are what the promise is about: `Conforming` is the constant the passing
runs of `Decodes` set, not a restriction of the theorem to them.

The argument. The decoder's object is `Folded`, the contents of all nodes put
into each other down to the bottom, and a handler touches the top node only. For
each way in which it may (the top's content changes, a node is pushed, the top is
popped into the one below; `TopReplaced`, `TopCovered`, `TopPopped`) a lemma says
what becomes of the fold: it is the old object with one place changed, the place
`PathOf` leads to (`UpdatedIs`). That is an induction down the stack; the library's
induction theorems take an operator as a parameter, which the provers cannot
instantiate, so that `SetInduction`, `UpTo` and `DownTo` state it for the set of
the levels where the claim holds. `PutStep` is the link: what the parser's
write-back does with a child is what the decoder does at one step of its path,
also where a map has the key already and the child goes nowhere.
The steps then compare the handlers with the decoder's actions on the same event
(`ScalarStep`, `NoValueStep`, `OpenRootStep`, `OpenInsideStep`, `CloseStep`,
`BoundsStep`). Beside `CInv` and `Conforms` they need `Held`: a node above an
object's node is for a member of the type that node has, so that the write-back
puts a value of the member's type; a map's node has the key the document is at;
outside of the document there is only the root's node.

`JservRegistryProofs` proves, for any contexts:

* `BaseFirst == Spec => []BasesRegistered`
* `LookupsKept == Spec => LookupsStay`
* `DeclaredIsAnswered == Spec => []DeclaredAnswered`
* `DeclaredIsHeld == Spec => []DeclaredAsHeld`
* `DeclaredIsConstructible == Spec => []DeclaredConstructible`
* `OnlyInsertInherits == Spec => []OnlyInsertOnlyInherits`

`BasesDue` says what each function of `register_jserv` and `register_semantier`
finds of the bases it needs, by its place in the order (`TurnOf`); the `Batch`
lemmas read off the tables of `JservTypes` which bases a function's classes name
and which ids it brings. A class may name another one of its own function, as
`AnInsertReq` does `AnUpdateReq`; that is why `TableInstalled` is about a whole
batch. `BasesRegistered` alone is not inductive, because it does not say that a
base is there when the next function needs it.

The others are about lookups, whose definition is recursive along the
bases. `Rank` numbers the classes by their distance from the root; `Ranked`
tables name bases of a lower rank, and that makes `Inherited` a well-founded
definition (`InheritedAt`). `Stage` says which function registers an id: every id
belongs to one, so that a step puts into a context's table ids that were not
there before (`Extends`), all of whose bases are in the table or in the same
batch. A lookup of a class that was there cannot meet the new ids, because
`BaseFirst` holds: `SameLookups`, once for every rank. The step that does change
an old entry is the reading of a text, which puts the blank member `fields` into
the AST of `AnsonBodyAst`. It would hide a field `fields` a base declares;
`ChainOK` says that along `AstChain`, the bases of `AnsonBodyAst`, there is
none. `SettledInv` is the inductive invariant: in every table an entry is what
the code registers for the id (`ClassOf`), but for that blank, and its stage is
behind the context's turn. From it the comparisons of two tables of one context
follow class by class: `WrittenClasses` have fields and a getter that answers
them all and asks its base, `BareClasses` declare nothing.
`DeclaredIsHeld` compares tables of different owners, a context's ASTs with the
EnTT types all contexts share. `SettledInv` says of these too that they are what
the code registers, and `EnttBasesRank` that their bases rank below, so that
`DataInherited` defines them as `InheritedAt` does the ASTs. `HeldStep` goes up
one class: what is wrongly held of it is what is wrong among its own fields and
what is wrong of its base and not declared again. The classes of which the two
tables agree (`TypedIds`) add nothing; of the others (`Fits`) the fields that
differ are told apart by a word of their type id (`Words`, `Mistyped`).
`SemanExpr` and `AnCtor` have another base in EnTT than in the AST, and
`AnsonBodyAst` has the blank, which declares nothing; each has a lemma of its
own.
`DeclaredIsConstructible` asks for more than `SettledInv`, which says only what an
entry is if there is one: that the class a declared type id names is there. The
invariant is `WholeInv`. `Complete` says that a context has every class of the
functions `register_jserv` has called; `Together` that the classes of one function
come all or none, which is what is known of `register_semantier`'s, whose sequence
a missing AST file ends; `CtorsDue` that the constructors of `register_varctors`
are there once it was called. `ConstructibleIs` unfolds `Constructible` one
container at a time, and `SimpleOk`, `NestedOk` and `PointedOk` evaluate it for the
forms the ASTs use: a class, in a list or a map, in one more, and the list of
pointers a message holds its body in, whose class came with the message. `OwnTypes`
says which form each declared field has, and `FieldsFrom`, once for every rank,
that an inherited field is some base's own; the field misspelt in `AnUpdateReq` is
so in `AnInsertReq` and in no other class.
The proofs rest on `MsgOfAssumption`: the ids of message types, `AnsonMsg<T>`,
are those of no class, nor the misspelt `VarTypae` of `AnUpdateReq`, and differ for
different bodies.

`RoundTripProofs` proves, for every schema with registrations that agree
(`WriterAssumption`), every object of its classes, of any size and depth
(`ContentAssumption`), with or without types, and every bound:

* `ReadBackOrRefused == RSpec => []NeverMisread`

`NeverMisread` is relative to `Travelled`, which is part of the statement: where
escapes are read and decimals rounded, the object that is read is not the one that
was written. `WriterAssumption` is what two peers of one `register_jserv` have: the AST of a
class is its own fields and its base's and says what the class holds, only
containers lack a getter, variants are elements and maps are members.
`ContentAssumption` says that contents are of their types, `TextAssumption` that the
names in the code (members, enums, ports, types) hold no escapes, and that no two
keys of a map are read alike. What texts and doubles are read as is arbitrary
otherwise (`Unescaped`, `Narrowed`). TLC evaluates all three in `round_trip`.

The argument. The text is complete before the reader begins, and the writer's
activations are gone by then; what the reader has is to be compared with what the
writer had when it wrote the token at `pos`. So the invariant `RInv` carries the
run of the writer, as a sequence of activations `h` and lengths of the text `p`
that `IsRun` says are its moves, and says that the reader matches one of them:
`Match(h[i])`, for an `i` with `p[i] = pos - 1`. `Match` goes through the stacks:
as many activations as nodes and brackets, each with its node (`At`: the members
still ahead of the writer are as constructed, the others are what `Travelled`
makes of them; the list is `Written` up to the place the writer is at; the map
has the entries whose keys it has passed), and each neighbouring pair with one
place (`Chain`). `SilentMatch` shows that a move that writes nothing keeps the
match while the reader stands still, `ReadsNext` that a move that writes a token
and the reader's handling of that token lead from match to match: one lemma for
each kind of token and place. From the match at the end, `doc = <<>>`, the
object follows. Two things the text may hold end in a refusal, which the
property allows: the values of a map of objects have no keys (`NoObjectInMap`),
and what is no JSON is no token (`Unlexable`). A writer that has come to a float
stays where it is (`Stalled`), and its text is never read. `Travelled` and `Written` are recursive functions over
numbers (levels, lengths); `TravelledExists` shows by induction that they are
defined, `TravelledIs` that they are what their equations say.

`AcceptanceProofs` proves, from the same assumptions, for every object, with or
without types:

* `AcceptedExactly == RSpec => []AcceptedIfWritable`

In one direction no token of a writable object's text may be refused, in the
other a text that is read to its end must not hide what is not writable. One
invariant, `AInv`, says both: `RInv` with the lexer beside the match (`Lexed`).

* `Fits` says what the lexer has read last (`sep`), by the activation on top and
  where it is: at the opening bracket, behind a key, a value or a comma.
* `Lex` says of every activation that what it has written so far was writable,
  and where a class that only inherits its fields, or a list with a null pointer,
  may be without having been refused yet: before the missing comma, before the
  superfluous one.
* `Sound` is `Writable` from any level downward, so that what has closed stays
  known to be writable when its activation is gone (`Linked` is whose value it
  was).

`LexSilent` shows that a move that writes nothing keeps `Lexed`, `LexTook` that a
token the lexer takes leads from `Lexed` to `Lexed`: an unwritable part has no
such token. `Ready` shows that the token of a writable object fits the lexer,
`NotRefused` that then no handler refuses it or leaves its behaviour undefined.
At the end of the text no activation is left, so `Lexed` is `Sound` of the whole
object.

`LibraryProofs` proves of the result set, the language strings and the server's
address what follows. For any texts, files and bound:

* `FirstTextStays == LangSpec => []FirstFileAnswers`

`Kept` is the invariant: a table of `langs` holds of each text what the earliest
load brought for it, in each of the two tables by itself, because a file cut
short may have brought one of them and not the other. It rests on no assumption.

For any rows, columns and bound, `CursorTyped`,
`RowsGivenOnce`, `FullRowsDefined` and `DecodedAnswersNothing` hold: `TypeOK`,
`EveryRowOnce`, `DefinedOnFullRows` and `NothingFromDecoded` are invariants. The
inductive invariant `RInv` adds to them that an entry of a set that was not
constructed is text and that rows are made of the rows that were brought, from
which an answer's conjuncts follow: an undefined answer stays explained by a
ragged row, since rows only grow. It rests on `ResultSetAssumption`.

For any urls, paths and leftovers:

* `ValidAddressReadsBack == UrlSpec => []ValidReadsBack`
* `AsJservOfServer == UrlSpec => []AsJservKeepsServer`

The invariant `UrlInv` says that `https` agrees with the scheme as soon as there
is a host, which `valid()` asks first: nothing else it reads may be
uninitialized. It rests on `UrlAssumption`.

## 4. What is only model-checked

Every safety invariant and action property of the passing runs is proved. TLC
alone checks `EveryObjectSettles` and `LoopEnds`: liveness under fairness is out
of the prover's reach.

## 5. What is not modelled

* Widths of integers: `number_integer` casts `int64_t` to `int`. Members of kinds
  float, double and long, which no registered class has.
* The characters of texts. What the lexer reads of a text between quotes is a
  table; a text with a quote whose rest goes on as JSON of its own, so that it adds
  members, is not in it, nor are two keys of one map that are read alike. Callers
  that escape their texts first (`IJsonable::escape`, `tests/t10_escape.cpp`,
  `Valid_payload`) send the escaped ones.
* Polymorph aliases of type ids other than `JavaEnum`, and the verbose builds (log
  output, and the `throw`s `anerror` stands for there).
* The branch of `set_value` for nodes whose `val_astid` is a primitive type
  (`anserializer.h:482-497`): an object node's `val_astid` always has an AST.
* The reading of an AST text beyond the classes it brings and the blank it
  inserts; `map2str`; an `AstMap` destroyed while contexts or enums are alive.
* String utilities and `EnvPath`: pure functions on character strings, driven by
  regular expressions. A model would spell out characters and show nothing
  that a table of inputs in a unit test does not. Of the urls only the parts are
  modelled, not the expressions that find them, nor query, fragment, `wservUri`
  and `valid_port`.
* The AES helper and the session token: calls of OpenSSL.
* EnTT and nlohmann themselves: modelled from how the code uses them and
  marked external in `PROJECT.json`.
* OpenSSL, the file system, generated tests, and the retired copies
  (`anson-trying-enttypid-in-ast.h`, `anson.delete.h`, `json.backup.h`,
  `json.hpp`).

## 6. Plan

1. **Decoder** (done, proved).
2. **Registry, enumerations, classes** (done, proved).
3. **Serializer and round trip** (done, proved). Left: a second message read into
   the same object, and two contexts with different registrations at the two ends.
4. **Result set, language strings, server addresses** (done).
5. **Pure functions**: split and join, environment paths, session tokens, only if
   they grow state.
