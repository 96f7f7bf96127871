-------------------------------- MODULE CopyScan --------------------------------
(***************************************************************************)
(* mycopyscan::copy_scan_value_t: the leaves of a plan.  An INT32 column   *)
(* whose pages have no NULL is not copied but referenced, and a row is     *)
(* then found by the number of rows that a full page of it has; another    *)
(* INT32 column is copied; a text becomes a reference to its page and its  *)
(* place there, materialised when a result is written.                     *)
(*                                                                         *)
(* The table scanned is one that ColumnInserters filled.  The columns are  *)
(* scanned by filter_tp, which applies the task to each of them once, in   *)
(* any order (ParallelFor).                                                *)
(***************************************************************************)
EXTENDS TypedColumns

CONSTANT
  OutputAttrs   (* the columns the scan returns                              *)

Outputs == DOMAIN OutputAttrs

(* INT32_MIN is not among the values of an INT32 column.                    *)
ScanAssumption ==
  /\ OutputAttrs \in Seq(Columns)
  /\ \A c \in Columns : IF Types[c] = "text" THEN ColumnValues[c] \subseteq Strings
                        ELSE ColumnValues[c] \cap Strings = {}
  /\ Null \notin [page : Nat, offset : Nat]
ASSUME ScanAssumption

VARIABLES
  stage,     (* write, scan, returned                           *)
  rows,      (* the records written                             *)
  inserters, (* inserters[c]: column c as it is written         *)
  pending,   (* output columns that filter_tp is yet to process *)
  results    (* results[k]: a column_t                          *)

copyVars == <<stage, rows, inserters, pending, results>>

(* A column_t: the column it refers to, or none, and the values it has. *)
NoColumn == 0
EmptyColumnT == [ref |-> NoColumn, values |-> <<>>]

NewTable ==
  /\ stage = "write" /\ rows = <<>>
  /\ inserters = [c \in Columns |-> NewWriter]
  /\ pending = {}
  /\ results = [k \in Outputs |-> EmptyColumnT]

InsertRow ==
  /\ stage = "write" /\ Len(rows) < MaxRows
  /\ \E row \in [Columns -> Values] :
       /\ \A c \in Columns : row[c] \in ColumnValues[c] \cup {Null}
       /\ rows' = Append(rows, row)
       /\ inserters' = [c \in Columns |-> InserterValue(inserters[c], row[c])]
  /\ UNCHANGED <<stage, pending, results>>

StartCopy ==
  /\ stage = "write" /\ stage' = "scan"
  /\ inserters' = [c \in Columns |-> InserterFlush(inserters[c])]
  /\ pending' = Outputs
  /\ UNCHANGED <<rows, results>>

-----------------------------------------------------------------------------
Pages(c) == inserters[c].pages

(* No page of the column has fewer values than rows. *)
DenseAtFirst(c) ==   \* mutant: the first page speaks for the column
  Types[c] = "int" /\ (Pages(c) # <<>> => Len(Pages(c)[1].data) = Pages(c)[1].rows)
Dense(c) ==
  Types[c] = "int" /\ \A n \in DOMAIN Pages(c) : Len(Pages(c)[n].data) = Pages(c)[n].rows

(* A NewString, without its table and its column: the page, and the number  *)
(* of values of the page before the text.                                   *)
NewString(page, offset) == [page |-> page, offset |-> offset]

(* The values that a page adds. *)
ScannedInts(page) == PageRows(page)
ScannedTexts(page, id) ==
  CASE page.kind = "first" -> <<NewString(id, 0)>>
    [] page.kind = "more"  -> <<>>
    [] page.kind = "rows"  ->
         [n \in 1 .. page.rows |->
            IF BitAt(page, n) THEN NewString(id, RankOf(page, n) - 1) ELSE Null]
Scanned(c) ==
  FlattenSeq([id \in DOMAIN Pages(c) |->
    IF Types[c] = "int" THEN ScannedInts(Pages(c)[id]) ELSE ScannedTexts(Pages(c)[id], id)])

CopyColumn(k) ==
  /\ stage = "scan" /\ k \in pending
  /\ LET c == OutputAttrs[k]
     IN  results' = [results EXCEPT ![k] =
           IF Dense(c) THEN [ref |-> c, values |-> <<>>]
                       ELSE [ref |-> NoColumn, values |-> Scanned(c)]]
  /\ pending' = pending \ {k}
  /\ UNCHANGED <<stage, rows, inserters>>

ReturnColumns ==
  /\ stage = "scan" /\ pending = {}
  /\ stage' = "returned"
  /\ UNCHANGED <<rows, inserters, pending, results>>

ColumnsReturned == stage = "returned" /\ UNCHANGED copyVars

CopyStep == InsertRow \/ StartCopy \/ (\E k \in Outputs : CopyColumn(k)) \/ ReturnColumns \/ ColumnsReturned
CopySpec == NewTable /\ [][CopyStep]_copyVars

-----------------------------------------------------------------------------
(* ROWS_PER_PAGE: the most rows without a NULL for which header, values and *)
(* bitmap fit a page of so many bytes; 1984 of 8192.                        *)
RowsPerPage(size, bits) ==
  CHOOSE n \in 0 .. size :
    /\ 4 + 4 * n + (n + bits - 1) \div bits <= size
    /\ 4 + 4 * (n + 1) + (n + bits) \div bits > size
ROWS_PER_PAGE == RowsPerPage(PageSize, BitsPerByte)

(* operator[] of a column_t; Broken if no value is where it looks. *)
DenseAt(c, n) ==
  LET page == n \div ROWS_PER_PAGE + 1
      offset == (n % ROWS_PER_PAGE) + 1
  IN  IF page \in DOMAIN Pages(c) /\ offset \in DOMAIN Pages(c)[page].data
      THEN Pages(c)[page].data[offset] ELSE Broken
At(k, n) ==
  IF results[k].ref = NoColumn THEN results[k].values[n + 1] ELSE DenseAt(results[k].ref, n)

(* materialize_string: a value of a page of rows, or the pages of a long    *)
(* text up to the next page that does not continue it.                      *)
Materialize(c, text) ==
  LET pages == Pages(c)
      ends == {n \in text.page .. Len(pages) : n = Len(pages) \/ pages[n + 1].kind # "more"}
  IN  IF pages[text.page].kind = "rows" THEN pages[text.page].data[text.offset + 1]
      ELSE ReadColumn(SubSeq(pages, text.page, CHOOSE n \in ends : \A m \in ends : n <= m))[1]

ValueAt(k, n) ==
  IF Types[OutputAttrs[k]] = "int" \/ At(k, n) = Null THEN At(k, n)
  ELSE Materialize(OutputAttrs[k], At(k, n))

(* What the scan returns reads as the rows that were written, in their     *)
(* order, whether a column was referenced or copied, and wherever a NULL,  *)
(* a long text or the border of a page falls: a dense column has exactly   *)
(* ROWS_PER_PAGE rows in every page but the last, and the place of a text  *)
(* counts the texts of its page and the pages of its column, those that    *)
(* only continue a text included.                                          *)
ScanReadsBack ==
  stage = "returned" =>
    \A k \in Outputs :
      /\ results[k].ref = NoColumn => Len(results[k].values) = Len(rows)
      /\ \A n \in 1 .. Len(rows) : ValueAt(k, n - 1) = rows[n][OutputAttrs[k]]
=============================================================================
