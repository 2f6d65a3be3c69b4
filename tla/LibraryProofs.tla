---- MODULE LibraryProofs ----
(***************************************************************************)
(* Theorems about what the protocol classes carry.  The result set, for    *)
(* any rows, columns and bound: its type invariant, that the cursor passes *)
(* no row it did not give, and what its getters can answer.  The language  *)
(* strings: which file's text is answered, for any texts, files, bound and *)
(* history of loads, complete or cut short.  The server's address, for any *)
(* texts of urls, protocol paths and outcomes of what is left              *)
(* uninitialized.                                                          *)
(***************************************************************************)
EXTENDS ResultSet, LangStrings, JServUrl, SequenceTheorems, TLAPS

-----------------------------------------------------------------------------
(* The result set.                                                         *)

\* What the rows and the column table are made of: a set that was only
\* decoded has no entry that is a number.
RowsOK == rows \in Seq(AllRows)
ColumnsOK == \A k \in DOMAIN colnames : /\ colnames[k].v \in Nat
                                        /\ colnames[k].text \in BOOLEAN
                                        /\ ~built => colnames[k].text
CursorOK == /\ Len(rows) \in 0..MaxRows
            /\ rowIdx \in Before..Len(rows)
            /\ given \subseteq 0..MaxRows /\ landed \subseteq 0..MaxRows

LEMMA ColumnsMade ==
  ASSUME NEW table \in NewCols, NEW text \in BOOLEAN, NEW k \in DOMAIN Columns(table, text)
  PROVE  Columns(table, text)[k].v \in Nat /\ Columns(table, text)[k].text = text
  BY ResultSetAssumption DEF Columns

LEMMA InitRows == Init => RowsOK /\ ColumnsOK
  <1> SUFFICES ASSUME Init
               PROVE  RowsOK /\ ColumnsOK
    OBVIOUS
  <1>1. CASE rows \in NewRows /\ \E t \in NewCols : colnames = Columns(t, FALSE)
    <2>1. RowsOK
      BY <1>1, ResultSetAssumption DEF RowsOK
    <2>2. PICK t \in NewCols : colnames = Columns(t, FALSE)
      BY <1>1
    <2>3. built = (colnames # <<>>)
      BY DEF Init
    <2>4. ASSUME NEW k \in DOMAIN colnames
          PROVE  built
      <3>1. DOMAIN <<>> = {}
        OBVIOUS
      <3>2. colnames # <<>>
        BY <3>1
      <3> QED BY <2>3, <3>2
    <2>5. ASSUME NEW k \in DOMAIN colnames
          PROVE  colnames[k].v \in Nat /\ colnames[k].text = FALSE
      BY <2>2, ColumnsMade
    <2> QED BY <2>1, <2>4, <2>5 DEF ColumnsOK
  <1>2. CASE rows = <<>> /\ colnames = <<>>
    <2>1. RowsOK
      BY <1>2, EmptySeq DEF RowsOK
    <2>2. DOMAIN colnames = {}
      BY <1>2
    <2> QED BY <2>1, <2>2 DEF ColumnsOK
  <1> QED BY <1>1, <1>2 DEF Init

LEMMA DecodedRows ==
  ASSUME RowsOK, ColumnsOK, NEW more \in NewRows, NEW table \in NewCols, from_json(more, table)
  PROVE  /\ RowsOK' /\ ColumnsOK'
         /\ Len(rows') = Len(rows) + Len(more)
         /\ \A i \in 1..Len(rows) : rows'[i] = rows[i]
         /\ \A k \in DOMAIN colnames : k \in DOMAIN colnames' /\ colnames'[k] = colnames[k]
  <1>1. rows' = rows \o more /\ rows \in Seq(AllRows) /\ more \in Seq(AllRows)
    BY ResultSetAssumption DEF from_json, RowsOK
  <1>2. /\ rows' \in Seq(AllRows) /\ Len(rows') = Len(rows) + Len(more)
        /\ \A i \in 1..Len(rows) : rows'[i] = rows[i]
    BY <1>1, ConcatProperties
  <1>3. colnames' = WithColumns(colnames, Columns(table, TRUE)) /\ built' = built
    BY DEF from_json, Decoded
  <1>4. \A k \in DOMAIN colnames : k \in DOMAIN colnames' /\ colnames'[k] = colnames[k]
    BY <1>3 DEF WithColumns
  <1>5. \A k \in DOMAIN colnames' : k \notin DOMAIN colnames =>
          k \in DOMAIN Columns(table, TRUE) /\ colnames'[k] = Columns(table, TRUE)[k]
    BY <1>3 DEF WithColumns
  <1>6. ColumnsOK'
    BY <1>3, <1>4, <1>5, ColumnsMade DEF ColumnsOK
  <1> QED BY <1>2, <1>4, <1>6 DEF RowsOK

-----------------------------------------------------------------------------
\* The cursor and what it has given.
LEMMA InitCursor == Init => CursorOK /\ EveryRowOnce
  <1> SUFFICES ASSUME Init
               PROVE  CursorOK /\ EveryRowOnce
    OBVIOUS
  <1>1. RowsOK
    BY InitRows
  <1>2. Len(rows) \in Nat
    BY <1>1, LenProperties DEF RowsOK
  <1>3. /\ Len(rows) <= MaxRows /\ rowIdx = -1 /\ given = {} /\ landed = {}
    BY DEF Init, Before
  <1>4. CursorOK
    BY <1>2, <1>3, ResultSetAssumption DEF CursorOK, Before
  <1>5. EveryRowOnce
    BY <1>3 DEF EveryRowOnce
  <1> QED BY <1>4, <1>5

LEMMA NextRow ==
  ASSUME CursorOK, EveryRowOnce, next
  PROVE  CursorOK' /\ EveryRowOnce'
  <1> DEFINE n == Len(rows)
  <1>1. /\ n \in Nat /\ n <= MaxRows /\ MaxRows \in Nat
        /\ rowIdx \in Int /\ -1 <= rowIdx /\ rowIdx <= n
        /\ given \subseteq 0..MaxRows /\ landed \subseteq 0..MaxRows
    BY ResultSetAssumption DEF CursorOK, Before
  <1>2. rows' = rows /\ landed' = landed /\ rowIdx' = IF rowIdx < n THEN rowIdx + 1 ELSE rowIdx
    BY DEF next, Step
  <1>3. \/ rowIdx < n /\ rowIdx' < n /\ given' = given \cup {rowIdx'}
        \/ ~(rowIdx < n /\ rowIdx' < n) /\ given' = given
    <2>1. rowIdx < n => 0 <= rowIdx'
      BY <1>1, <1>2
    <2>2. IF rowIdx < n /\ OnRow(rowIdx', n) THEN given' = given \cup {rowIdx'} ELSE given' = given
      BY DEF next
    <2> QED BY <2>1, <2>2 DEF OnRow
  <1>4. /\ \A i \in 0..rowIdx : i < n => i \in given \cup landed
        /\ \A i \in given : i <= rowIdx
    BY DEF EveryRowOnce
  <1> HIDE DEF n
  <1>5. rowIdx' \in -1..n /\ given' \subseteq 0..MaxRows
    <2>1. rowIdx' \in Int /\ -1 <= rowIdx' /\ rowIdx' <= n
      BY <1>1, <1>2
    <2>2. rowIdx < n => 0 <= rowIdx'
      BY <1>1, <1>2
    <2>3. CASE rowIdx < n /\ rowIdx' < n /\ given' = given \cup {rowIdx'}
      <3>1. rowIdx' \in 0..MaxRows
        BY <1>1, <2>1, <2>2, <2>3
      <3> QED BY <1>1, <2>1, <2>3, <3>1
    <2>4. CASE given' = given
      BY <1>1, <2>1, <2>4
    <2> QED BY <1>3, <2>3, <2>4
  <1>6. ASSUME NEW i \in 0..rowIdx', i < n
        PROVE  i \in given' \cup landed'
    <2>1. CASE i \in 0..rowIdx
      BY <1>2, <1>3, <1>4, <1>6, <2>1
    <2>2. CASE i \notin 0..rowIdx
      <3>1. rowIdx < n /\ i = rowIdx'
        BY <1>1, <1>2, <2>2
      <3> QED BY <1>3, <1>6, <3>1
    <2> QED BY <2>1, <2>2
  <1>7. ASSUME NEW i \in given'
        PROVE  i <= rowIdx'
    <2>1. i = rowIdx' \/ (i \in given /\ i <= rowIdx /\ i \in Int)
      <3>1. i \in given \/ i = rowIdx'
        BY <1>3
      <3>2. i \in given => i \in Int
        BY <1>1
      <3> QED BY <1>4, <3>1, <3>2
    <2>2. rowIdx' >= rowIdx /\ rowIdx' \in Int
      BY <1>1, <1>2
    <2> QED BY <1>1, <2>1, <2>2
  <1> QED BY <1>1, <1>2, <1>5, <1>6, <1>7 DEF CursorOK, EveryRowOnce, Before, n

\* Rows that are decoded when the cursor is past the last row land under it.
LEMMA DecodedCursor ==
  ASSUME RowsOK, ColumnsOK, CursorOK, EveryRowOnce,
         NEW more \in NewRows, NEW table \in NewCols, from_json(more, table)
  PROVE  CursorOK' /\ EveryRowOnce'
  <1>1. PICK n : n = Len(rows)
    OBVIOUS
  <1>2. PICK m : m = Len(more)
    OBVIOUS
  <1>3. Len(rows') = n + m
    BY <1>1, <1>2, DecodedRows
  <1>4. m \in Nat /\ n + m <= MaxRows
    <2>1. more \in Seq(AllRows)
      BY ResultSetAssumption
    <2>2. Len(more) \in Nat
      BY <2>1, LenProperties
    <2>3. Len(rows) + Len(more) <= MaxRows
      BY DEF from_json
    <2> QED BY <1>1, <1>2, <2>2, <2>3
  <1>5. /\ n \in Nat /\ n <= MaxRows /\ MaxRows \in Nat
        /\ rowIdx \in Int /\ -1 <= rowIdx /\ rowIdx <= n
        /\ given \subseteq 0..MaxRows /\ landed \subseteq 0..MaxRows
    BY <1>1, ResultSetAssumption DEF CursorOK, Before
  <1>6. /\ rowIdx' = rowIdx /\ given' = given
        /\ landed' = IF rowIdx = n THEN landed \cup {rowIdx} ELSE landed
    BY <1>1 DEF from_json
  <1>7. landed' \subseteq 0..MaxRows
    BY <1>5, <1>6
  <1>8. ASSUME NEW i \in 0..rowIdx
        PROVE  i \in given' \cup landed'
    <2>1. CASE i < n
      BY <1>1, <1>6, <2>1 DEF EveryRowOnce
    <2>2. CASE ~(i < n)
      <3>1. i = rowIdx /\ rowIdx = n
        BY <1>5, <2>2
      <3> QED BY <1>6, <3>1
    <2> QED BY <2>1, <2>2
  <1>9. CursorOK'
    <2>1. Len(rows') \in 0..MaxRows
      BY <1>3, <1>4, <1>5
    <2>2. rowIdx' \in Before..Len(rows')
      BY <1>3, <1>4, <1>5, <1>6 DEF Before
    <2> QED BY <1>5, <1>6, <1>7, <2>1, <2>2 DEF CursorOK
  <1> QED BY <1>6, <1>8, <1>9 DEF EveryRowOnce

\* The loop begins again, or goes on.
LEMMA WalkBegins ==
  ASSUME CursorOK, EveryRowOnce, beforeFirst \/ go_on
  PROVE  CursorOK' /\ EveryRowOnce'
  <1>1. CASE beforeFirst
    <2>1. rowIdx' = -1 /\ given' = {} /\ landed' = {} /\ rows' = rows
      BY <1>1 DEF beforeFirst, Before
    <2>2. CursorOK'
      BY <2>1 DEF CursorOK, Before
    <2> QED BY <2>1, <2>2 DEF EveryRowOnce
  <1>2. CASE go_on
    BY <1>2 DEF go_on, CursorOK, EveryRowOnce
  <1> QED BY <1>1, <1>2

-----------------------------------------------------------------------------
\* What a getter answers: with numbers in no entry, nothing; and undefined
\* only where the column's number is past the row's end.
AnswerOK == NothingFromDecoded /\ DefinedOnFullRows

LEMMA CellOK ==
  ASSUME RowsOK, ColumnsOK, NEW k, OnRow(rowIdx, Len(rows)), rowIdx \in Int, Numbered(k)
  PROVE  Cell(rows[rowIdx + 1], colnames[k].v).t = "undefined" => Ragged
  <1> DEFINE row == rows[rowIdx + 1]
             colx == colnames[k].v
  <1>1. rows \in Seq(AllRows) /\ Len(rows) \in Nat
    BY LenProperties DEF RowsOK
  <1>2. rowIdx + 1 \in 1..Len(rows)
    BY <1>1 DEF OnRow
  <1>3. row \in AllRows /\ rowIdx + 1 \in DOMAIN rows
    BY <1>1, <1>2, ElementOfSeq, LenProperties
  <1>4. k \in DOMAIN colnames /\ colx \in Nat
    BY DEF Numbered, ColumnsOK
  <1>5. Len(row) \in Nat /\ \A j \in 1..Len(row) : row[j].t # "undefined"
    BY <1>3, ResultSetAssumption
  <1>6. colx >= Len(row) => Ragged
    BY <1>3, <1>4 DEF Ragged
  <1> HIDE DEF row, colx
  <1>7. colx < Len(row) => colx + 1 \in 1..Len(row)
    BY <1>4, <1>5
  <1>8. colx < Len(row) \/ colx >= Len(row)
    BY <1>4, <1>5
  <1>9. Cell(row, colx).t = "undefined" => colx >= Len(row)
    <2>1. CASE colx < Len(row)
      BY <1>5, <1>7, <2>1 DEF Cell
    <2>2. CASE colx >= Len(row)
      BY <2>2
    <2> QED BY <1>8, <2>1, <2>2
  <1> QED BY <1>6, <1>9 DEF row, colx

LEMMA AnswerGiven ==
  ASSUME RowsOK, ColumnsOK, CursorOK, AnswerOK, NEW k, NEW type, get(k, type)
  PROVE  AnswerOK'
  <1> DEFINE cell == getCell(k)
  <1>1. rowIdx \in Int
    BY DEF CursorOK, Before
  <1>2. /\ cell # None => built
        /\ cell.t = "undefined" => Ragged
    <2>1. CASE ~OnRow(rowIdx, Len(rows))
      BY <2>1 DEF getCell, None
    <2>2. CASE OnRow(rowIdx, Len(rows)) /\ Numbered(k)
      <3>1. cell = Cell(rows[rowIdx + 1], colnames[k].v)
        BY <2>2 DEF getCell
      <3>2. built
        BY <2>2 DEF Numbered, ColumnsOK
      <3> QED BY <1>1, <2>2, <3>1, <3>2, CellOK
    <2>3. CASE OnRow(rowIdx, Len(rows)) /\ ~Numbered(k) /\ Numbered(Upper[k])
      <3>1. cell = Cell(rows[rowIdx + 1], colnames[Upper[k]].v)
        BY <2>3 DEF getCell
      <3>2. built
        BY <2>3 DEF Numbered, ColumnsOK
      <3> QED BY <1>1, <2>3, <3>1, <3>2, CellOK
    <2>4. CASE OnRow(rowIdx, Len(rows)) /\ ~Numbered(k) /\ ~Numbered(Upper[k])
      BY <2>4 DEF getCell, None
    <2> QED BY <2>1, <2>2, <2>3, <2>4
  <1>3. answer' = cell \/ answer' = None
    BY DEF get
  <1>4. None.t # "undefined"
    BY DEF None
  <1>5. rows' = rows /\ colnames' = colnames /\ built' = built
    BY DEF get
  <1> QED BY <1>2, <1>3, <1>4, <1>5 DEF AnswerOK, NothingFromDecoded, DefinedOnFullRows, Ragged

\* A set with a row too short stays one when more is decoded into it.
LEMMA StaysRagged ==
  ASSUME RowsOK, ColumnsOK, NEW more \in NewRows, NEW table \in NewCols,
         from_json(more, table), Ragged
  PROVE  Ragged'
  <1>1. PICK i \in DOMAIN rows, k \in DOMAIN colnames : colnames[k].v >= Len(rows[i])
    BY DEF Ragged
  <1>2. DOMAIN rows = 1..Len(rows) /\ Len(rows) \in Nat
    BY LenProperties DEF RowsOK
  <1>3. /\ RowsOK' /\ Len(rows') = Len(rows) + Len(more)
        /\ rows'[i] = rows[i] /\ k \in DOMAIN colnames' /\ colnames'[k] = colnames[k]
    BY <1>1, <1>2, DecodedRows
  <1>4. DOMAIN rows' = 1..Len(rows')
    BY <1>3, LenProperties DEF RowsOK
  <1>5. Len(more) \in Nat
    <2>1. more \in Seq(AllRows)
      BY ResultSetAssumption
    <2> QED BY <2>1, LenProperties
  <1>6. i \in DOMAIN rows'
    BY <1>1, <1>2, <1>3, <1>4, <1>5
  <1> QED BY <1>1, <1>3, <1>6 DEF Ragged

-----------------------------------------------------------------------------
\* The inductive invariant.
RInv == RowsOK /\ ColumnsOK /\ CursorOK /\ EveryRowOnce /\ AnswerOK /\ walking \in BOOLEAN

LEMMA RInvInit == Init => RInv
  <1> SUFFICES ASSUME Init
               PROVE  RInv
    OBVIOUS
  <1>1. answer = None /\ walking = FALSE
    BY DEF Init
  <1>2. AnswerOK
    BY <1>1 DEF AnswerOK, NothingFromDecoded, DefinedOnFullRows, None
  <1> QED BY <1>1, <1>2, InitRows, InitCursor DEF RInv

LEMMA RInvNext == RInv /\ [Next]_vars => RInv'
  <1> SUFFICES ASSUME RInv, [Next]_vars
               PROVE  RInv'
    OBVIOUS
  <1>0. RowsOK /\ ColumnsOK /\ CursorOK /\ EveryRowOnce /\ AnswerOK /\ walking \in BOOLEAN
    BY DEF RInv
  <1>1. CASE next
    <2>1. rows' = rows /\ colnames' = colnames /\ built' = built /\ answer' = None
      BY <1>1 DEF next
    <2>2. walking' \in BOOLEAN
      BY <1>0, <1>1 DEF next
    <2>3. RowsOK' /\ ColumnsOK'
      BY <1>0, <2>1 DEF RowsOK, ColumnsOK
    <2>4. AnswerOK'
      BY <2>1 DEF AnswerOK, NothingFromDecoded, DefinedOnFullRows, None
    <2> QED BY <1>0, <1>1, <2>2, <2>3, <2>4, NextRow DEF RInv
  <1>2. CASE beforeFirst \/ go_on
    <2>1. rows' = rows /\ colnames' = colnames /\ built' = built /\ answer' = answer /\ walking' = TRUE
      BY <1>2 DEF beforeFirst, go_on
    <2>2. RowsOK' /\ ColumnsOK' /\ AnswerOK'
      BY <1>0, <2>1 DEF RowsOK, ColumnsOK, AnswerOK, NothingFromDecoded, DefinedOnFullRows, Ragged
    <2> QED BY <1>0, <1>2, <2>1, <2>2, WalkBegins DEF RInv
  <1>3. ASSUME NEW k \in Col, NEW type \in CellType, get(k, type)
        PROVE  RInv'
    <2>1. /\ rows' = rows /\ colnames' = colnames /\ rowIdx' = rowIdx /\ walking' = walking
          /\ given' = given /\ landed' = landed /\ built' = built
      BY <1>3 DEF get
    <2>2. RowsOK' /\ ColumnsOK' /\ CursorOK' /\ EveryRowOnce'
      BY <1>0, <2>1 DEF RowsOK, ColumnsOK, CursorOK, EveryRowOnce
    <2>3. AnswerOK'
      BY <1>0, <1>3, AnswerGiven
    <2> QED BY <1>0, <2>1, <2>2, <2>3 DEF RInv
  <1>4. ASSUME NEW more \in NewRows, NEW table \in NewCols, from_json(more, table)
        PROVE  RInv'
    <2>1. answer' = answer /\ built' = built /\ walking' = walking
      BY <1>4 DEF from_json
    <2>2. RowsOK' /\ ColumnsOK' /\ CursorOK' /\ EveryRowOnce'
      BY <1>0, <1>4, DecodedRows, DecodedCursor
    <2>3. AnswerOK'
      BY <1>0, <1>4, <2>1, StaysRagged DEF AnswerOK, NothingFromDecoded, DefinedOnFullRows
    <2> QED BY <1>0, <2>1, <2>2, <2>3 DEF RInv
  <1>5. CASE UNCHANGED vars
    BY <1>0, <1>5 DEF vars, RInv, RowsOK, ColumnsOK, CursorOK, EveryRowOnce, AnswerOK,
                      NothingFromDecoded, DefinedOnFullRows, Ragged
  <1> QED BY <1>1, <1>2, <1>3, <1>4, <1>5 DEF Next

LEMMA RInvInvariant == Spec => []RInv
  BY RInvInit, RInvNext, PTL DEF Spec

\* The cursor stays within the rows, however the set is walked and decoded
\* into.
THEOREM CursorTyped == Spec => []TypeOK
  <1>1. RInv => TypeOK
    BY DEF RInv, CursorOK, TypeOK
  <1> QED BY <1>1, RInvInvariant, PTL

\* The while (rs.next()) loop passes no row it did not give, except those a
\* decoder put under a cursor that was past the end.
THEOREM RowsGivenOnce == Spec => []EveryRowOnce
  <1>1. RInv => EveryRowOnce
    BY DEF RInv
  <1> QED BY <1>1, RInvInvariant, PTL

\* A getter reads past a row's end only if some row is shorter than the
\* column table says.
THEOREM FullRowsDefined == Spec => []DefinedOnFullRows
  <1>1. RInv => DefinedOnFullRows
    BY DEF RInv, AnswerOK
  <1> QED BY <1>1, RInvInvariant, PTL

\* The getters of a set that was only decoded never answer: its columns hold
\* their numbers as text.
THEOREM DecodedAnswersNothing == Spec => []NothingFromDecoded
  <1>1. RInv => NothingFromDecoded
    BY DEF RInv, AnswerOK
  <1> QED BY <1>1, RInvInvariant, PTL

-----------------------------------------------------------------------------
(* The language strings.                                                   *)

\* A table of langs holds of each text what the earliest load with a text for
\* it brought, and nothing for the others.
Kept(table, loads, field) ==
  \A key :
    /\ key \in DOMAIN table <=> Bringing(loads, field, key) # {}
    /\ \A i \in Earliest(Bringing(loads, field, key)) : table[key] = loads[i][field][key]
LoadedSeq == loaded \in Seq({loaded[i] : i \in DOMAIN loaded})
LangInv == /\ LoadedSeq
           /\ Kept(langs.local, loaded, "local")
           /\ Kept(langs.en, loaded, "en")

\* A load comes after the others and changes none of them.
LEMMA LoadAppended ==
  ASSUME LoadedSeq, NEW b, loaded' = Append(loaded, b)
  PROVE  /\ LoadedSeq'
         /\ Len(loaded) \in Nat /\ DOMAIN loaded = 1..Len(loaded)
         /\ DOMAIN loaded' = 1..(Len(loaded) + 1)
         /\ \A i \in DOMAIN loaded : loaded'[i] = loaded[i]
         /\ loaded'[Len(loaded) + 1] = b
  <1> DEFINE S == {loaded[i] : i \in DOMAIN loaded} \cup {b}
  <1>1. loaded \in Seq(S) /\ b \in S
    BY SeqDef DEF LoadedSeq
  <1> HIDE DEF S
  <1>2. /\ Len(loaded) \in Nat /\ DOMAIN loaded = 1..Len(loaded)
        /\ loaded' \in Seq(S) /\ Len(loaded') = Len(loaded) + 1
        /\ \A i \in 1..Len(loaded) : loaded'[i] = loaded[i]
        /\ loaded'[Len(loaded) + 1] = b
    BY <1>1, AppendProperties, LenProperties
  <1>3. PICK m \in Nat : m = Len(loaded')
    BY <1>2
  <1>4. loaded' \in [1..m -> {loaded'[i] : i \in DOMAIN loaded'}]
    BY <1>2, <1>3, LenProperties
  <1>5. LoadedSeq'
    <2> DEFINE T == {loaded'[i] : i \in DOMAIN loaded'}
    <2>1. loaded' \in Seq(T)
      BY <1>4, SeqDef
    <2> QED
      BY <2>1 DEF LoadedSeq
  <1> QED
    BY <1>2, <1>5, LenProperties

\* One more load changes of a table only what no load brought before.
LEMMA KeepingKeeps ==
  ASSUME LoadedSeq, NEW table, NEW field, NEW b, Kept(table, loaded, field), loaded' = Append(loaded, b)
  PROVE  Kept(Keeping(table, b[field]), loaded', field)
  <1> DEFINE kept == Keeping(table, b[field])
             n == Len(loaded)
  <1> SUFFICES ASSUME NEW key
               PROVE  /\ key \in DOMAIN kept <=> Bringing(loaded', field, key) # {}
                      /\ \A i \in Earliest(Bringing(loaded', field, key)) : kept[key] = loaded'[i][field][key]
    BY DEF Kept
  <1>1. /\ n \in Nat /\ DOMAIN loaded = 1..n /\ DOMAIN loaded' = 1..(n + 1)
        /\ \A i \in 1..n : loaded'[i] = loaded[i]
        /\ loaded'[n + 1] = b
    BY LoadAppended
  <1>2. /\ DOMAIN kept = DOMAIN table \cup DOMAIN b[field]
        /\ key \in DOMAIN table => kept[key] = table[key]
        /\ key \in DOMAIN b[field] /\ key \notin DOMAIN table => kept[key] = b[field][key]
    BY DEF Keeping
  <1>3. Bringing(loaded', field, key) = Bringing(loaded, field, key) \cup {i \in {n + 1} : key \in DOMAIN b[field]}
    BY <1>1 DEF Bringing
  <1>4. Bringing(loaded, field, key) \subseteq 1..n
    BY <1>1 DEF Bringing
  <1>5. key \in DOMAIN table <=> Bringing(loaded, field, key) # {}
    BY DEF Kept
  <1>6. CASE key \in DOMAIN table
    <2>1. PICK j \in Bringing(loaded, field, key) : TRUE
      BY <1>5, <1>6
    <2>2. Earliest(Bringing(loaded', field, key)) \subseteq Earliest(Bringing(loaded, field, key))
      BY <1>1, <1>3, <1>4, <2>1 DEF Earliest
    <2>3. \A i \in Earliest(Bringing(loaded, field, key)) : table[key] = loaded[i][field][key] /\ i \in 1..n
      BY <1>4 DEF Kept, Earliest
    <2> QED
      BY <1>1, <1>2, <1>3, <1>5, <1>6, <2>2, <2>3
  <1>7. CASE key \notin DOMAIN table
    <2>1. \A i \in Bringing(loaded', field, key) : i = n + 1 /\ key \in DOMAIN b[field]
      BY <1>3, <1>5, <1>7
    <2>2. key \in DOMAIN b[field] => n + 1 \in Bringing(loaded', field, key)
      BY <1>3
    <2> QED
      BY <1>1, <1>2, <1>7, <2>1, <2>2 DEF Earliest
  <1> QED
    BY <1>6, <1>7

LEMMA LangInvInit == LangInit => LangInv
  <1> SUFFICES ASSUME LangInit PROVE LangInv
    OBVIOUS
  <1>1. DOMAIN loaded = {} /\ DOMAIN langs.local = {} /\ DOMAIN langs.en = {}
    <2>1. loaded = <<>> /\ langs.local = NoTexts /\ langs.en = NoTexts
      BY DEF LangInit
    <2>2. DOMAIN NoTexts = {}
      BY DEF NoTexts
    <2>3. <<>> \in Seq({}) /\ Len(<<>>) = 0
      BY EmptySeq
    <2> QED
      BY <2>1, <2>2, <2>3, LenProperties
  <1>2. LoadedSeq
    BY EmptySeq DEF LangInit, LoadedSeq
  <1> QED
    BY <1>1, <1>2 DEF LangInv, Kept, Bringing, Earliest

LEMMA LangInvNext == LangInv /\ [loadLangs]_langvars => LangInv'
  <1> SUFFICES ASSUME LangInv, [loadLangs]_langvars PROVE LangInv'
    OBVIOUS
  <1>1. CASE loadLangs
    <2>1. PICK file \in Files, members \in SUBSET {"lang", "en", "local"} : load(file, members)
      BY <1>1 DEF loadLangs
    <2> PICK b : b = Brought(file, members)
      OBVIOUS
    <2>2. /\ langs' = [lang |-> b.lang, en |-> Keeping(langs.en, b.en), local |-> Keeping(langs.local, b.local)]
          /\ loaded' = Append(loaded, b)
      BY <2>1 DEF load
    <2>3. langs'.en = Keeping(langs.en, b["en"]) /\ langs'.local = Keeping(langs.local, b["local"])
      BY <2>2
    <2>4. LoadedSeq'
      BY <2>2, LoadAppended DEF LangInv
    <2>5. Kept(langs.en, loaded, "en")'
      BY <2>2, <2>3, KeepingKeeps DEF LangInv
    <2>6. Kept(langs.local, loaded, "local")'
      BY <2>2, <2>3, KeepingKeeps DEF LangInv
    <2> QED
      BY <2>4, <2>5, <2>6 DEF LangInv
  <1>2. CASE UNCHANGED langvars
    BY <1>2 DEF LangInv, LoadedSeq, Kept, Bringing, langvars
  <1> QED
    BY <1>1, <1>2

\* The answer to a text is that of the first file that has one, whatever is
\* read into langs later and wherever a file is cut short (langstring.h:71).
THEOREM FirstTextStays == LangSpec => []FirstFileAnswers
  <1>1. LangInv => FirstFileAnswers
    <2> SUFFICES ASSUME LangInv, NEW key \in Text
                 PROVE  /\ \A i \in Earliest(Bringing(loaded, "local", key)) : ans(key) = loaded[i].local[key]
                        /\ Bringing(loaded, "local", key) = {} =>
                             \A i \in Earliest(Bringing(loaded, "en", key)) : ans(key) = loaded[i].en[key]
                        /\ Bringing(loaded, "local", key) = {} /\ Bringing(loaded, "en", key) = {} => ans(key) = key
      BY DEF FirstFileAnswers
    <2>1. \A i \in Earliest(Bringing(loaded, "local", key)) :
            Bringing(loaded, "local", key) # {} /\ langs.local[key] = loaded[i].local[key]
      BY DEF LangInv, Kept, Earliest
    <2>2. \A i \in Earliest(Bringing(loaded, "en", key)) :
            Bringing(loaded, "en", key) # {} /\ langs.en[key] = loaded[i].en[key]
      BY DEF LangInv, Kept, Earliest
    <2>3. /\ key \in DOMAIN langs.local <=> Bringing(loaded, "local", key) # {}
          /\ key \in DOMAIN langs.en <=> Bringing(loaded, "en", key) # {}
      BY DEF LangInv, Kept
    <2> QED
      BY <2>1, <2>2, <2>3 DEF ans
  <1> QED
    BY <1>1, LangInvInit, LangInvNext, PTL DEF LangSpec

-----------------------------------------------------------------------------
(* The server's address.                                                   *)

\* https says what scheme says as soon as there is a host; without one it may
\* be anything, and nothing valid() reads then.
UrlInv == /\ port \in Int /\ https \in BOOLEAN
          /\ protocolpath \in Seq(STRING)
          /\ scheme # Bare
          /\ host # Blank => (https <=> scheme = "https")
          /\ from \in UrlText

\* A sequence is its head alone exactly if it has no second element.
LEMMA HeadAlone ==
  ASSUME NEW S, NEW s \in Seq(S), s # <<>>
  PROVE  <<Head(s)>> = s <=> Len(s) <= 1
<1>. PICK n \in Nat : n = Len(s) OBVIOUS
<1>1. n >= 1 OBVIOUS
<1>2. CASE n = 1
  <2>1. s = [i \in 1..Len(s) |-> s[i]] OBVIOUS
  <2>2. Head(s) = s[1] OBVIOUS
  <2>3. <<Head(s)>> = [i \in 1..1 |-> s[1]] BY <2>2
  <2>. QED BY <1>2, <2>1, <2>3
<1>3. CASE n > 1
  <2>1. Len(<<Head(s)>>) = 1 OBVIOUS
  <2>. QED BY <1>3, <2>1
<1>. QED BY <1>1, <1>2, <1>3

\* The parts of a text that names a host are determined by it.
LEMMA PartsOfHost ==
  ASSUME NEW u, u.host # Blank
  PROVE  getHttpParts(u) = {Parts(SchemeOf(u), SchemeOf(u) = "https", u.host,
                              IF u.port # NoPort THEN u.port ELSE DefaultPort(SchemeOf(u)), u.paths)}
BY DEF getHttpParts

LEMMA BlankIsNoScheme == Blank # "https" /\ Blank # "http"
BY UrlAssumption DEF Allowed

LEMMA DefaultPortInt == \A s : DefaultPort(s) \in Int
BY DEF DefaultPort

\* What a text is read as has the types an address needs.
LEMMA PartsTyped ==
  ASSUME NEW u \in UrlText, NEW parts \in getHttpParts(u)
  PROVE  /\ parts.port \in Int /\ parts.https \in BOOLEAN
         /\ parts.paths \in Seq(STRING)
         /\ parts.scheme # Bare
         /\ parts.host # Blank => (parts.https <=> parts.scheme = "https")
<1>1. CASE u.host = Blank
  <2>1. PICK sec \in BOOLEAN, p \in Leftover : parts = Parts(Blank, sec, Blank, p, <<>>)
    BY <1>1 DEF getHttpParts
  <2>2. p \in Int /\ Blank # Bare BY UrlAssumption
  <2>3. <<>> \in Seq(STRING) OBVIOUS
  <2>. QED BY <2>1, <2>2, <2>3 DEF Parts
<1>2. CASE u.host # Blank
  <2>1. parts = Parts(SchemeOf(u), SchemeOf(u) = "https", u.host,
                  IF u.port # NoPort THEN u.port ELSE DefaultPort(SchemeOf(u)), u.paths)
    BY <1>2, PartsOfHost
  <2>2. u.paths \in Seq(STRING) BY DEF UrlText
  <2>3. u.port \in Nat \cup {NoPort} BY DEF UrlText
  <2>4. (IF u.port # NoPort THEN u.port ELSE DefaultPort(SchemeOf(u))) \in Int
    BY <2>3, DefaultPortInt
  <2>5. SchemeOf(u) # Bare
    <3>1. Bare \notin Allowed BY UrlAssumption
    <3>2. "http" # Bare BY <3>1 DEF Allowed
    <3>. QED BY <3>2 DEF SchemeOf
  <2>. QED BY <2>1, <2>2, <2>4, <2>5 DEF Parts
<1>. QED BY <1>1, <1>2

\* The path taken from a url is a path.
LEMMA PathTyped ==
  ASSUME NEW u \in UrlText, NEW parts \in getHttpParts(u), NEW otherwise \in Seq(STRING)
  PROVE  PathGiven(parts, otherwise) \in Seq(STRING)
<1>1. parts.paths \in Seq(STRING) BY PartsTyped
<1>2. parts.paths # <<>> => Head(parts.paths) \in STRING BY <1>1
<1>3. parts.paths # <<>> => <<Head(parts.paths)>> \in Seq(STRING) BY <1>2
<1>. QED BY <1>3 DEF PathGiven

LEMMA SetUrlKeeps ==
  ASSUME NEW u \in UrlText, NEW parts \in getHttpParts(u), seturl(parts), from' = u,
         protocolpath' \in Seq(STRING)
  PROVE  UrlInv'
BY PartsTyped DEF seturl, UrlInv

LEMMA UrlInvInductive == UrlSpec => []UrlInv
<1>1. UrlInit => UrlInv
  <2>. SUFFICES ASSUME UrlInit PROVE UrlInv OBVIOUS
  <2>1. port \in Int /\ https \in BOOLEAN /\ scheme = Blank /\ host = Blank
    BY UrlAssumption DEF UrlInit
  <2>2. Blank \in STRING /\ Bare \in STRING /\ Blank # Bare BY UrlAssumption
  <2>3. protocolpath \in Seq(STRING) BY DEF UrlInit
  <2>4. from \in UrlText BY <2>2 DEF UrlInit, UrlText
  <2>. QED BY <2>1, <2>2, <2>3, <2>4 DEF UrlInv
<1>2. UrlInv /\ [UrlNext]_urlvars => UrlInv'
  <2>. SUFFICES ASSUME UrlInv, [UrlNext]_urlvars PROVE UrlInv' OBVIOUS
  <2>0. Urls \subseteq UrlText /\ Paths \subseteq Seq(STRING) BY UrlAssumption
  <2>1. ASSUME NEW u \in Urls, NEW path \in Paths, NEW c \in BOOLEAN,
               construct_with_protocol(u, path, c)
        PROVE  UrlInv'
    BY <2>0, <2>1, SetUrlKeeps DEF construct_with_protocol
  <2>2. ASSUME NEW u \in Urls, NEW c \in BOOLEAN, construct_with_context(u, c)
        PROVE  UrlInv'
    <3>1. <<>> \in Seq(STRING) OBVIOUS
    <3>. QED BY <2>0, <2>2, <3>1, PathTyped, SetUrlKeeps DEF construct_with_context
  <2>3. ASSUME NEW u \in Urls, force_update_protocol(u) PROVE UrlInv'
    <3>1. protocolpath \in Seq(STRING) BY DEF UrlInv
    <3>. QED BY <2>0, <2>3, <3>1, PathTyped, SetUrlKeeps DEF force_update_protocol
  <2>4. CASE UNCHANGED urlvars BY <2>4 DEF urlvars, UrlInv
  <2>. QED BY <2>1, <2>2, <2>3, <2>4 DEF UrlNext
<1>. QED BY <1>1, <1>2, PTL DEF UrlSpec

-----------------------------------------------------------------------------
\* A valid() address is the one a peer makes of the text it prints, but for a
\* protocol path of several names (jprotocol.h:374, 381, 404).
THEOREM ValidAddressReadsBack == UrlSpec => []ValidReadsBack
<1>1. UrlInv => ValidReadsBack
  <2>. SUFFICES ASSUME UrlInv, valid, NEW parts \in getHttpParts(jserv)
                PROVE  SameAddress(parts) <=> Len(protocolpath) <= 1
    BY DEF ValidReadsBack
  <2>1. host # Blank /\ port >= 80 /\ port \in Int /\ scheme # Blank /\ scheme # Bare
    BY DEF valid, UrlInv
  <2>2. https <=> scheme = "https" BY <2>1 DEF UrlInv
  <2>3. port # NoPort
    <3>1. port \in Nat BY <2>1
    <3>. QED BY <3>1, UrlAssumption
  <2>4. jserv = [scheme |-> scheme, host |-> host, port |-> port, paths |-> protocolpath]
    <3>1. ~(port <= 0) BY <2>1
    <3>. QED BY <2>1, <3>1 DEF jserv
  <2>5. SchemeOf(jserv) = scheme BY <2>1, <2>4 DEF SchemeOf
  <2>6. parts = Parts(scheme, scheme = "https", host, port, protocolpath)
    BY <2>1, <2>3, <2>4, <2>5, PartsOfHost
  <2>7. https \in BOOLEAN /\ protocolpath \in Seq(STRING) BY DEF UrlInv
  <2>8. SameAddress(parts) <=> PathGiven(parts, <<>>) = protocolpath
    BY <2>2, <2>6, <2>7 DEF SameAddress, Parts
  <2>9. parts.paths = protocolpath BY <2>6 DEF Parts
  <2>10. PathGiven(parts, <<>>) = protocolpath <=> Len(protocolpath) <= 1
    <3>1. CASE protocolpath = <<>> BY <3>1, <2>9 DEF PathGiven
    <3>2. CASE protocolpath # <<>>
      <4>1. PathGiven(parts, <<>>) = <<Head(protocolpath)>> BY <3>2, <2>9 DEF PathGiven
      <4>. QED BY <4>1, <3>2, <2>7, HeadAlone
    <3>. QED BY <3>1, <3>2
  <2>. QED BY <2>8, <2>10
<1>. QED BY <1>1, UrlInvInductive, PTL

\* asJserv names the same server but for the default port of the other scheme
\* (common.h:442-452).
THEOREM AsJservOfServer == UrlSpec => []AsJservKeepsServer
<1>1. UrlInv => AsJservKeepsServer
  <2>. SUFFICES ASSUME UrlInv, from.host # Blank,
                       NEW p \in getHttpParts(from), NEW q \in getHttpParts(asJserv(from))
                PROVE  SameServer(p, q) <=> p.port # (IF p.https THEN 80 ELSE 443)
    BY DEF AsJservKeepsServer
  <2>1. getHttpParts(from) = {p} BY PartsOfHost
  <2>2. p.host = from.host BY PartsOfHost DEF Parts
  <2>3. p.port \in Int /\ p.https \in BOOLEAN BY PartsTyped DEF UrlInv
  <2>4. (CHOOSE x \in getHttpParts(from) : TRUE) = p BY <2>1
  <2> DEFINE r == [scheme |-> IF p.https THEN "https" ELSE "http", host |-> p.host,
                   port |-> IF p.port \in {80, 443} THEN NoPort ELSE p.port, paths |-> p.paths]
  <2>5. asJserv(from) = r BY <2>4 DEF asJserv
  <2>6. SchemeOf(r) = IF p.https THEN "https" ELSE "http"
    BY UrlAssumption DEF SchemeOf, Allowed
  <2>7. q = Parts(SchemeOf(r), SchemeOf(r) = "https", p.host,
                  IF r.port # NoPort THEN r.port ELSE DefaultPort(SchemeOf(r)), p.paths)
    BY <2>2, <2>5, PartsOfHost
  <2>8. q.https = p.https /\ q.host = p.host /\ q.paths = p.paths
    BY <2>3, <2>6, <2>7 DEF Parts
  <2>9. q.port = IF r.port # NoPort THEN r.port ELSE DefaultPort(SchemeOf(r))
    BY <2>7 DEF Parts
  <2>10. p.port # NoPort
    <3>1. from.port \in Nat \cup {NoPort} BY DEF UrlInv, UrlText
    <3>2. p.port = IF from.port # NoPort THEN from.port ELSE DefaultPort(SchemeOf(from))
      BY PartsOfHost DEF Parts
    <3>3. DefaultPort(SchemeOf(from)) \in Nat BY DEF DefaultPort
    <3>. QED BY <3>1, <3>2, <3>3, UrlAssumption
  <2>11. CASE p.port \notin {80, 443}
    <3>1. q.port = p.port BY <2>9, <2>10, <2>11
    <3>. QED BY <3>1, <2>8, <2>11 DEF SameServer
  <2>12. CASE p.port \in {80, 443}
    <3>1. q.port = DefaultPort(SchemeOf(r)) BY <2>9, <2>12
    <3>2. CASE p.https
      <4>1. SchemeOf(r) = "https" BY <3>2, <2>6
      <4>2. DefaultPort("https") = 443 BY BlankIsNoScheme DEF DefaultPort
      <4>3. q.port = 443 BY <3>1, <4>1, <4>2
      <4>. QED BY <4>3, <3>2, <2>8, <2>12 DEF SameServer
    <3>3. CASE ~p.https
      <4>1. SchemeOf(r) = "http" BY <3>3, <2>6
      <4>2. q.port = 80 BY <3>1, <4>1 DEF DefaultPort
      <4>. QED BY <4>2, <3>3, <2>8, <2>12 DEF SameServer
    <3>. QED BY <2>3, <3>2, <3>3
  <2>. QED BY <2>11, <2>12
<1>. QED BY <1>1, UrlInvInductive, PTL
====
