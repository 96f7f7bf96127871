---------------------------- MODULE ColumnInserter ----------------------------
(***************************************************************************)
(* ColumnInserter<T> and ColumnInserter<std::string>, through which tables *)
(* read from a file get their pages.  They write the same format as the    *)
(* page buffers of PageFormat with a bitmap that is as large as a page,    *)
(* never cleared, and copied as far as the rows of a page go; and their    *)
(* test before an insertion counts four bytes for every value of a fixed   *)
(* width, whatever its type: the bitmap may then be copied over the last   *)
(* value.  (The zeros at the end of the bitmap that no row has reached yet *)
(* are left out.)                                                          *)
(***************************************************************************)
EXTENDS PageFormat

(* save_page copies the bitmap to the end of the page, where values may     *)
(* reach.  The test below leaves four bytes uncounted at most, and no row   *)
(* comes after a value that takes them, so they are of the last value; what *)
(* is left of it is Broken.                                                 *)
BitmapSize(rows) == (rows + BitsPerByte - 1) \div BitsPerByte
Overlap(w) == w.bytes + BitmapSize(w.rows) > PageSize
UnderBitmap(w) == IF Overlap(w) THEN [w EXCEPT !.data[Len(w.data)] = Broken] ELSE w
InserterPage(w) == RowsPage(UnderBitmap(w), SubSeq(w.bits, 1, BitmapBits(w.rows)))
InserterSave(w) == EmptyBuffer(w.begin, Append(w.pages, InserterPage(w)), w.bits)

(* The tests of insert and insert_null *)
CountedBytes(v) == IF IsString(v) THEN ValueBytes(v) ELSE 4
InserterRoom(w, bytes) == IF Fits(w, bytes) THEN w ELSE InserterSave(w)

InserterNull(w)     == AddRow(InserterRoom(w, 0), FALSE, <<>>, 0)
InserterShort(w, v) == AddRow(InserterRoom(w, CountedBytes(v)), TRUE, <<v>>, ValueBytes(v))

(* save_long_string, after the rows before the string *)
InserterFlush(w) == IF w.rows = 0 THEN w ELSE InserterSave(w)
InserterLong(w, v) ==
  LET saved == InserterFlush(w)
  IN  [saved EXCEPT !.pages = @ \o LongPages(v)]

InserterValue(w, v) ==
  IF v = Null THEN InserterNull(w)
  ELSE IF IsLong(v) THEN InserterLong(w, v)
  ELSE InserterShort(w, v)
=============================================================================
