------------------------------ MODULE PageWriter ------------------------------
(***************************************************************************)
(* One column, written value by value and flushed at the end: by the page  *)
(* buffers that the root join, to_columnar and to_columnar_value_t share,  *)
(* or by a ColumnInserter.  What a reader of its pages finds, and what     *)
(* fits a page.                                                            *)
(***************************************************************************)
EXTENDS ColumnInserter

CONSTANTS
  IntValues,   (* INT32 values                                              *)
  Kinds,       (* pairs of a type (int32, wide, text) and a writer (buffer, *)
               (* inserter)                                                 *)
  MaxRows      (* bound: values written to the column                       *)

(* A page that cannot be placed is told from every value and its length.   *)
PageValues == IntValues \cup WideValues \cup Strings
ReaderAssumption == Broken \notin (PageValues \cup {Null}) \X Int
ASSUME ReaderAssumption

VARIABLES
  kind,      (* type and writer of the column   *)
  writer,    (* its pages and its buffer        *)
  given,     (* the values written so far       *)
  closed     (* the last buffer was flushed     *)

writerVars == <<kind, writer, given, closed>>

DataBegin(type) == IF type = "wide" THEN 8 ELSE 4
Values(type) ==
  CASE type = "int32" -> IntValues [] type = "wide" -> WideValues [] type = "text" -> Strings

WriterInit ==
  /\ kind \in Kinds
  /\ writer = EmptyBuffer(DataBegin(kind[1]), <<>>, <<>>)
  /\ given = <<>>
  /\ closed = FALSE

Written(v) == IF kind[2] = "buffer" THEN InsertValue(writer, v) ELSE InserterValue(writer, v)
Insert(type, by) ==
  /\ ~closed /\ Len(given) < MaxRows
  /\ kind = <<type, by>>
  /\ \E v \in Values(type) \cup {Null} :
       /\ writer' = Written(v)
       /\ given' = Append(given, v)
  /\ UNCHANGED <<kind, closed>>

BufferInt32   == Insert("int32", "buffer")
BufferWide    == Insert("wide", "buffer")
BufferText    == Insert("text", "buffer")
InserterFixed == \E type \in {"int32", "wide"} : Insert(type, "inserter")
InserterText  == Insert("text", "inserter")

(* The rows still buffered become the last page. *)
Flushed == IF kind[2] = "buffer" THEN Finalize(writer) ELSE InserterFlush(writer)
Close ==
  /\ ~closed /\ closed' = TRUE
  /\ writer' = Flushed
  /\ UNCHANGED <<kind, given>>

Done == closed /\ UNCHANGED writerVars

WriterNext ==
  \/ BufferInt32 \/ BufferWide \/ BufferText
  \/ InserterFixed \/ InserterText
  \/ Close \/ Done
WriterSpec == WriterInit /\ [][WriterNext]_writerVars

-----------------------------------------------------------------------------
(* Instructions.md gives a page 8192 bytes, its values at the start and the  *)
(* bitmap of its rows in the last bytes: what is saved as a page, and what   *)
(* is in the buffer and will be, fits without the bitmap overwriting the     *)
(* last value.                                                               *)
PageFits(page) ==
  IF page.kind = "rows"
  THEN page.bytes + Len(page.bits) \div BitsPerByte <= PageSize
  ELSE page.length \in 1 .. PageSize - 4
PagesFit == \A n \in 1 .. Len(Flushed.pages) : PageFits(Flushed.pages[n])

(* The marks 0xffff and 0xfffe are told from numbers of rows: a page, even    *)
(* one of NULLs only, has fewer rows than bits after its header; with pages   *)
(* of 8192 bytes that is 65504, below the marks.                              *)
RowsBelowMarks ==
  \A n \in 1 .. Len(Flushed.pages) :
    Flushed.pages[n].kind = "rows" => Flushed.pages[n].rows <= (PageSize - 4) * BitsPerByte

(* At every moment the pages read back as the values written, in their       *)
(* order, NULLs and long strings included, short of the rows still buffered; *)
(* nothing is missing once the column is closed.  (A value that the bitmap   *)
(* was copied over reads as Broken.)                                         *)
RoundTrip ==
  LET read == ReadColumn(Flushed.pages)
  IN  /\ read = given
      /\ closed => read = ReadColumn(writer.pages)
-----------------------------------------------------------------------------
(* Why no page overflows: the test before an insertion counts the byte the   *)
(* bitmap may grow by, so a buffer has room for the bytes of its bitmap that *)
(* its rows need, and these are what save_page copies.                       *)
BytesFor(rows) == IF rows = 0 THEN 0 ELSE BitmapBytes(rows - 1)
BitsFor(rows)  == BytesFor(rows) * BitsPerByte
RowsPages ==
  {page \in [kind : {"rows"}, rows : Nat, data : Seq(PageValues), bytes : Nat, bits : Seq(BOOLEAN)] :
     PageFits(page) /\ page.bytes >= 4 /\ Len(page.bits) = BitsFor(page.rows)}
TextPages ==
  [kind : {"first", "more"}, text : Strings \X Nat, length : 1 .. PageSize - 4]
Writers ==
  [pages : Seq(RowsPages \cup TextPages), begin : {4, 8}, rows : Nat, data : Seq(PageValues),
   bytes : Nat, bits : Seq(BOOLEAN)]

WriterFits(w) ==
  /\ w \in Writers
  /\ w.bytes >= w.begin /\ w.bytes + BytesFor(w.rows) <= PageSize
  /\ \E bitmapBytes \in Nat : Len(w.bits) = bitmapBytes * BitsPerByte /\ bitmapBytes >= BytesFor(w.rows)

(* A page buffer clears its bitmap, and copies all of it. *)
Cleared(w) == Len(w.bits) = BitsFor(w.rows)
=============================================================================
