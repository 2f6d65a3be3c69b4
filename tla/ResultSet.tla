---- MODULE ResultSet ----
(***************************************************************************)
(* AnResultset: rows, the table of column names, and the cursor that       *)
(* next() moves.  The application constructs one or decodes one, possibly  *)
(* into a set it already reads, and walks it with while (rs.next()).       *)
(*                                                                         *)
(* C++ counts rows and columns from 0: row i is rows[i + 1] here.          *)
(***************************************************************************)
EXTENDS Integers, Sequences

CONSTANTS
  Col,      \* the names a caller asks for
  Upper,    \* name -> the name in upper case
  CellType, \* the alternatives of a cell a getter can ask for
  NewRows,  \* the rows a constructor or a document brings; a cell is [t, v]
  NewCols,  \* the column tables: name -> the number of the column
  MaxRows   \* bound: rows of a set

AllRows == UNION {{more[i] : i \in DOMAIN more} : more \in NewRows}

\* "undefined" marks undefined behaviour and is no alternative of a cell.
ASSUME ResultSetAssumption ==
  /\ MaxRows \in Nat
  /\ NewRows \subseteq Seq(AllRows)
  /\ \A row \in AllRows : /\ Len(row) \in Nat
                          /\ \A j \in 1..Len(row) : row[j].t # "undefined"
  /\ \A table \in NewCols : \A k \in DOMAIN table : table[k] \in Nat

VARIABLES
  rows,
  colnames,  \* name -> [v |-> number, text |-> whether it is held as text]
  rowIdx,    \* the cursor, -1 before the first row
  walking,   \* the application is in its while (rs.next()) loop
  answer,    \* what the last call gave: a cell, or none, or undefined behaviour
  given,     \* history: the rows next() has given since beforeFirst
  landed,    \* history: the rows that were decoded under a cursor past the end
  built      \* history: the set was constructed with columns

vars == <<rows, colnames, rowIdx, walking, answer, given, landed, built>>

Before == -1
None == [t |-> "none", v |-> 0]
Undefined == [t |-> "undefined", v |-> 0]

\* A column's entry is made of numbers by a constructor, of text by a decoder
\* (an unsigned integer has no VarType).
Columns(table, text) == [k \in DOMAIN table |-> [v |-> table[k], text |-> text]]

Init == /\ \/ rows \in NewRows /\ \E t \in NewCols : colnames = Columns(t, FALSE)
           \/ rows = <<>> /\ colnames = <<>>
        /\ Len(rows) <= MaxRows
        /\ built = (colnames # <<>>)
        /\ rowIdx = Before /\ walking = FALSE /\ answer = None /\ given = {} /\ landed = {}

\* next() stays past the last row once it is there.
StepUnchecked(i, n) == i + 1
StepToLast(i, n) == IF i + 1 < n THEN i + 1 ELSE i
Step(i, n) == IF i < n THEN i + 1 ELSE i
OnRow(i, n) == 0 <= i /\ i < n
next == /\ walking
        /\ rowIdx' = Step(rowIdx, Len(rows))
        /\ IF rowIdx < Len(rows) /\ OnRow(rowIdx', Len(rows))
           THEN given' = given \cup {rowIdx'} /\ UNCHANGED walking
           ELSE walking' = FALSE /\ UNCHANGED given
        /\ answer' = None
        /\ UNCHANGED <<rows, colnames, landed, built>>

\* The loop begins at the first row, or goes on from where the cursor is.
beforeFirst_on_row == /\ ~walking
                      /\ rowIdx' = 0 /\ walking' = TRUE /\ given' = {} /\ landed' = {}
                      /\ UNCHANGED <<rows, colnames, answer, built>>
beforeFirst == /\ ~walking
               /\ rowIdx' = Before /\ walking' = TRUE /\ given' = {} /\ landed' = {}
               /\ UNCHANGED <<rows, colnames, answer, built>>
go_on == /\ ~walking
         /\ walking' = TRUE
         /\ UNCHANGED <<rows, colnames, rowIdx, answer, given, landed, built>>

\* getCell: the column by its name, then by its upper-case name, when its
\* entry is a number; the number is not checked against the row's length.
CellFromOne(row, colx) == IF colx + 1 < Len(row) THEN row[colx + 2] ELSE Undefined
Cell(row, colx) == IF colx < Len(row) THEN row[colx + 1] ELSE Undefined
Numbered(k) == k \in DOMAIN colnames /\ ~colnames[k].text
getCell(k) ==
  CASE ~OnRow(rowIdx, Len(rows)) -> None
    [] OnRow(rowIdx, Len(rows)) /\ Numbered(k) -> Cell(rows[rowIdx + 1], colnames[k].v)
    [] OnRow(rowIdx, Len(rows)) /\ ~Numbered(k) /\ Numbered(Upper[k]) ->
         Cell(rows[rowIdx + 1], colnames[Upper[k]].v)
    [] OTHER -> None

\* getInt, getString, ...: the cell, if it holds that alternative.
get(k, type) == /\ answer' = IF getCell(k).t \in {type, "undefined"} THEN getCell(k) ELSE None
                /\ UNCHANGED <<rows, colnames, rowIdx, walking, given, landed, built>>

\* from_json into this set: rows are appended, a column keeps the entry it
\* has; the cursor is not touched.
WithColumns(old, new) ==
  [k \in DOMAIN old \cup DOMAIN new |-> IF k \in DOMAIN old THEN old[k] ELSE new[k]]
DecodedAsNumbers(table) == Columns(table, FALSE)
Decoded(table) == Columns(table, TRUE)
from_json(more, table) ==
  /\ more # <<>> /\ Len(rows) + Len(more) <= MaxRows
  /\ rows' = rows \o more
  /\ colnames' = WithColumns(colnames, Decoded(table))
  /\ landed' = IF rowIdx = Len(rows) THEN landed \cup {rowIdx} ELSE landed
  /\ UNCHANGED <<rowIdx, walking, answer, given, built>>

Next == \/ next \/ beforeFirst \/ go_on
        \/ \E k \in Col, type \in CellType : get(k, type)
        \/ \E more \in NewRows, table \in NewCols : from_json(more, table)

\* The loop's body ends and next() is called again.
Spec == Init /\ [][Next]_vars /\ WF_vars(next)

-----------------------------------------------------------------------------
TypeOK == /\ Len(rows) \in 0..MaxRows
          /\ rowIdx \in Before..Len(rows)
          /\ walking \in BOOLEAN
          /\ given \subseteq 0..MaxRows /\ landed \subseteq 0..MaxRows

\* Wherever the cursor is, next() has given each row up to it since
\* beforeFirst, and no row ahead of it; the exception are rows that were
\* decoded when the cursor was past the end: it stands on them already, and
\* the next call goes on to the row after them (rs.h:70-75).
EveryRowOnce ==
  /\ \A i \in 0..rowIdx : i < Len(rows) => i \in given \cup landed
  /\ \A i \in given : i <= rowIdx

\* A getter is undefined only in a set with a row shorter than its column
\* table says (those of tests/t08_resultset.cpp, IntVal, are).
Ragged == \E i \in DOMAIN rows, k \in DOMAIN colnames : colnames[k].v >= Len(rows[i])
DefinedOnFullRows == answer.t = "undefined" => Ragged

\* A set that is only decoded holds no column number, and its getters give
\* nothing; the ones of a set that was constructed go on after a decode.
NothingFromDecoded == answer # None => built

\* The while (rs.next()) loop ends, wherever the cursor is when it begins and
\* also when its body decodes more documents into the set it walks (finitely
\* many: MaxRows).
LoopEnds == walking ~> ~walking
====
