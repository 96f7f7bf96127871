------------------------------ MODULE PageFormat ------------------------------
(***************************************************************************)
(* Pages of a column, as the root join writes them (IntColumnBuffer,       *)
(* VarcharColumnBuffer, insert_value; to_columnar and to_columnar_value_t  *)
(* repeat them) and as Table::from_columnar reads them.                    *)
(*                                                                         *)
(* A page of rows has their number, its values that are not NULL, and a    *)
(* bitmap aligned to its end that tells the rows with a value.  A string   *)
(* longer than a page takes a page of kind "first" (0xffff) and pages of   *)
(* kind "more" (0xfffe).  Characters are abstracted to lengths, except for *)
(* a long string, whose pages each hold a piece of it, named by the string *)
(* and where the piece starts.                                             *)
(***************************************************************************)
EXTENDS Integers, Sequences, FiniteSets, SequencesExt

CONSTANTS
  PageSize,      (* PAGE_SIZE, 8192 in the code                              *)
  BitsPerByte,   (* rows per byte of the bitmap, 8 in the code               *)
  Null,          (* the NULL of a value_t                                    *)
  Strings,       (* VARCHAR values                                           *)
  WideValues,    (* INT64 and FP64 values                                    *)
  Length,        (* their lengths: [Strings -> Nat]                          *)
  Broken         (* what a reader makes of a page it cannot place            *)

PageAssumption ==
  /\ PageSize \in Nat /\ BitsPerByte \in Nat \ {0} /\ PageSize > 16
  /\ Null \notin Strings \cup WideValues /\ Strings \cap WideValues = {}
  /\ Length \in [Strings -> Nat]
ASSUME PageAssumption

(* A column being written: its pages, and the buffer of the next page with  *)
(* the bytes its header and its values take.  Values begin where the header *)
(* of 4 bytes ends, or 8 bytes into the page when they take 8.              *)
EmptyBuffer(begin, pages, bits) ==
  [pages |-> pages, begin |-> begin, rows |-> 0, data |-> <<>>, bytes |-> begin, bits |-> bits]
NewWriter == EmptyBuffer(4, <<>>, <<>>)

(* Bytes of one value in a page: an int, a wide value, or an offset and     *)
(* characters.                                                              *)
IsString(v)  == v \in Strings
IsWide(v)    == v \in WideValues
ValueBytes(v) == IF IsString(v) THEN 2 + Length[v] ELSE IF IsWide(v) THEN 8 ELSE 4

-----------------------------------------------------------------------------
(* set_bitmap, unset_bitmap: the bitmap grows by bytes. *)
SetBit(bits, row, bit) ==
  LET grown == IF row < Len(bits) THEN bits ELSE bits \o [n \in 1 .. BitsPerByte |-> FALSE]
  IN  [grown EXCEPT ![row + 1] = bit]

(* save_page: the buffer becomes a page and is cleared. *)
RowsPage(w, bits) ==
  [kind |-> "rows", rows |-> w.rows, data |-> w.data, bytes |-> w.bytes, bits |-> bits]
KeptBits(w) ==   \* mutant: the bitmap is not cleared
  EmptyBuffer(w.begin, Append(w.pages, RowsPage(w, w.bits)), w.bits)
SavePage(w) == EmptyBuffer(w.begin, Append(w.pages, RowsPage(w, w.bits)), <<>>)

(* The test before an insertion: header, values and a bitmap with room for  *)
(* one more row fit the page.                                               *)
BitmapBytes(rows) == rows \div BitsPerByte + 1
Fits(w, bytes) == w.bytes + bytes + BitmapBytes(w.rows) <= PageSize
Room(w, bytes) == IF Fits(w, bytes) THEN w ELSE SavePage(w)

(* One row more, with a value that takes so many bytes or with none. *)
AddRow(w, bit, values, bytes) ==
  [pages |-> w.pages, begin |-> w.begin, rows |-> w.rows + 1, data |-> w.data \o values,
   bytes |-> w.bytes + bytes, bits |-> SetBit(w.bits, w.rows, bit)]
InsertNull(w)     == AddRow(Room(w, 0), FALSE, <<>>, 0)
InsertShort(w, v) == AddRow(Room(w, ValueBytes(v)), TRUE, <<v>>, ValueBytes(v))

(* A string that no page of rows can hold: the rows before it are saved,    *)
(* and it takes pages of its own.                                           *)
IsLongFull(v) == IsString(v) /\ Length[v] > PageSize - 4   \* mutant: no offset, no bitmap
IsLong(v) == IsString(v) /\ Length[v] > PageSize - 7
PieceBytes == PageSize - 4
LongPages(v) ==
  [n \in 1 .. (Length[v] + PieceBytes - 1) \div PieceBytes |->
     [kind |-> IF n = 1 THEN "first" ELSE "more",
      text |-> <<v, (n - 1) * PieceBytes>>,
      length |-> IF n * PieceBytes < Length[v] THEN PieceBytes ELSE Length[v] - (n - 1) * PieceBytes]]
FlushNever(w) == w   \* mutant: buffered rows stay behind the long string
FlushRows(w) == IF w.rows = 0 THEN w ELSE SavePage(w)
InsertLong(w, v) ==
  LET saved == FlushRows(w)
  IN  [saved EXCEPT !.pages = @ \o LongPages(v)]

InsertValue(w, v) ==
  IF v = Null THEN InsertNull(w)
  ELSE IF IsLong(v) THEN InsertLong(w, v)
  ELSE InsertShort(w, v)

(* The end of a column: a buffer with rows becomes the last page. *)
Finalize(w) == IF w.rows = 0 THEN w ELSE SavePage(w)

-----------------------------------------------------------------------------
(* from_columnar: the bitmap of num_rows bits ends where the page ends; a  *)
(* row takes the next value if its bit is set ...                          *)
BitmapBits(rows) == ((rows + BitsPerByte - 1) \div BitsPerByte) * BitsPerByte
BitAt(page, n)  == page.bits[Len(page.bits) - BitmapBits(page.rows) + n]
RankOf(page, n) == Cardinality({m \in 1 .. n : BitAt(page, m)})
PageRows(page) ==
  [n \in 1 .. page.rows |-> IF BitAt(page, n) THEN page.data[RankOf(page, n)] ELSE Null]

(* ... and a long string from its first page, to which the pages that      *)
(* continue it are appended; Broken when they do not continue it.          *)
Stitched(text, page) ==
  IF text # Broken /\ text[1] = page.text[1] /\ text[2] = page.text[2]
  THEN <<text[1], text[2] + page.length>> ELSE Broken
AddPage(texts, page) ==
  IF page.kind = "rows" THEN texts \o [n \in 1 .. page.rows |-> <<PageRows(page)[n], 0>>]
  ELSE IF page.kind = "first" THEN Append(texts, <<page.text[1], page.length>>)
  ELSE [texts EXCEPT ![Len(texts)] = Stitched(@, page)]
ReadPages(pages) ==
  LET read[n \in 0 .. Len(pages)] ==   \* the values of the first n pages
        IF n = 0 THEN <<>> ELSE AddPage(read[n - 1], pages[n])
  IN  read[Len(pages)]

(* The values of a column: a long string counts when it is whole. *)
ReadColumn(pages) ==
  LET texts == ReadPages(pages)
      whole(text) == IF text = Broken THEN Broken
                     ELSE IF text[1] = Null \/ ~IsLong(text[1]) THEN text[1]
                     ELSE IF text[2] = Length[text[1]] THEN text[1] ELSE Broken
  IN  [n \in 1 .. Len(texts) |-> whole(texts[n])]
=============================================================================
