------------------------- MODULE WriterAndRootProofs -------------------------
(***************************************************************************)
(* The columns of a result.  Of the page writers: for every page size,     *)
(* width of a bitmap byte and set of values, no page the writer saves      *)
(* overflows, and none has as many rows as the marks of a long string, but *)
(* for wide values through a ColumnInserter; and a reader of the pages     *)
(* finds the values written.  Of the probe of the root join, which writes  *)
(* its result through them: the same for every pair of columns, every      *)
(* table that is complete, every number of threads, all sizes of chunks    *)
(* and pages, and all values with their lengths.                           *)
(***************************************************************************)
EXTENDS RootJoin, PageWriter, PageFormatProofs

-----------------------------------------------------------------------------
(* Arithmetic of bitmap bytes. *)

(* A quotient is known from its bounds. *)
LEMMA DivUnique ==
  ASSUME NEW a \in Nat, NEW b \in Nat \ {0}, NEW q \in Nat, b * q <= a, a < b * (q + 1)
  PROVE  a \div b = q
  BY SMTT(30)

(* Whole bitmap bytes: counted by division, whatever their number. *)
LEMMA BytesOfBits ==
  ASSUME NEW n \in Nat
  PROVE  n * BitsPerByte \in Nat /\ (n * BitsPerByte) \div BitsPerByte = n
<1>1. BitsPerByte \in Nat \ {0}
  BY PageAssumption DEF PageAssumption
<1> QED
  BY <1>1, SMTT(30)

(* The byte count of the test before an insertion. *)
LEMMA BytesNat ==
  ASSUME NEW n \in Nat
  PROVE  /\ BitmapBytes(n) \in Nat
         /\ n < BitmapBytes(n) * BitsPerByte
         /\ BitmapBytes(0) = 1
<1>1. BitsPerByte \in Nat \ {0}
  BY PageAssumption DEF PageAssumption
<1>2. n \div BitsPerByte \in Nat /\ n < BitsPerByte * ((n \div BitsPerByte) + 1)
  BY <1>1, DivBounds
<1>3. 0 \div BitsPerByte = 0
  BY <1>1, DivUnique, SMTT(30)
<1> QED
  BY <1>1, <1>2, <1>3, SMTT(30) DEF BitmapBytes

(* set_bitmap grows a bitmap that has the bytes of its rows, and perhaps     *)
(* more, by a byte when the next row needs one.                              *)
LEMMA OneMoreRow ==
  ASSUME NEW n \in Nat, NEW m \in Nat, m >= BytesFor(n)
  PROVE  /\ n < m * BitsPerByte => m >= BytesFor(n + 1)
         /\ ~(n < m * BitsPerByte) => BytesFor(n + 1) = m + 1
         /\ m = BytesFor(n) /\ n < m * BitsPerByte => BytesFor(n + 1) = m
<1>1. BitsPerByte \in Nat \ {0}
  BY PageAssumption DEF PageAssumption
<1> DEFINE q == n \div BitsPerByte
<1>2. BytesFor(n + 1) = q + 1
  BY DEF BytesFor, BitmapBytes
<1>3. q \in Nat /\ BitsPerByte * q <= n /\ n < BitsPerByte * (q + 1)
  BY <1>1, DivBounds
<1> HIDE DEF q
<1>4. n < m * BitsPerByte => m >= q + 1
  BY <1>1, <1>3, SMTT(30)
<1>5. CASE n = 0
  <2>1. BytesFor(n) = 0 /\ q = 0
    BY <1>1, <1>3, <1>5, SMTT(30) DEF BytesFor
  <2> QED
    BY <1>1, <1>2, <1>3, <1>4, <1>5, <2>1, SMTT(30)
<1>6. CASE n # 0
  <2> DEFINE p == (n - 1) \div BitsPerByte
  <2>1. n - 1 \in Nat
    BY <1>6
  <2>2. p \in Nat /\ BitsPerByte * p <= n - 1 /\ n - 1 < BitsPerByte * (p + 1)
    BY <1>1, <2>1, DivBounds
  <2>3. BytesFor(n) = p + 1
    BY <1>6 DEF BytesFor, BitmapBytes
  <2> HIDE DEF p
  <2>4. m >= p + 1
    BY <2>3
  <2>5. q = p \/ q = p + 1
    BY <1>1, <1>3, <2>2, SMTT(30)
  <2>6. m >= q
    BY <1>3, <2>2, <2>4, <2>5
  <2>7. ~(n < m * BitsPerByte) => m <= q
    BY <1>1, <1>3, SMTT(30)
  <2>8. m = p + 1 /\ m >= q + 1 => m = q + 1
    BY <1>3, <2>2, <2>5
  <2> QED
    BY <1>2, <1>3, <1>4, <2>3, <2>6, <2>7, <2>8
<1> QED
  BY <1>5, <1>6

(* The bitmap bytes a page's rows need, as a reader counts them. *)
LEMMA ReaderCounts ==
  ASSUME NEW n \in Nat
  PROVE  BytesFor(n) \in Nat /\ BitmapBits(n) = BitsFor(n)
<1>1. BitsPerByte \in Nat \ {0}
  BY PageAssumption DEF PageAssumption
<1>2. CASE n = 0
  <2>1. (n + BitsPerByte - 1) \div BitsPerByte = 0
    BY <1>1, <1>2, DivUnique, SMTT(30)
  <2> QED
    BY <1>2, <2>1 DEF BitmapBits, BitsFor, BytesFor
<1>3. CASE n # 0
  <2> DEFINE p == (n - 1) \div BitsPerByte
             r == n + BitsPerByte - 1
  <2>1. n - 1 \in Nat /\ r \in Nat
    BY <1>1, <1>3
  <2>2. p \in Nat /\ BitsPerByte * p <= n - 1 /\ n - 1 < BitsPerByte * (p + 1)
    BY <1>1, <2>1, DivBounds
  <2>3. BytesFor(n) = p + 1
    BY <1>3 DEF BytesFor, BitmapBytes
  <2>4. BitmapBits(n) = (r \div BitsPerByte) * BitsPerByte
    BY DEF BitmapBits
  <2> HIDE DEF p
  <2>5. BitsPerByte * (p + 1) <= r /\ r < BitsPerByte * ((p + 1) + 1)
    BY <1>1, <1>3, <2>2, SMTT(30)
  <2> HIDE DEF r
  <2>6. r \div BitsPerByte = p + 1
    BY <1>1, <2>1, <2>2, <2>5, DivUnique
  <2> QED
    BY <2>2, <2>3, <2>4, <2>6 DEF BitsFor
<1> QED
  BY <1>2, <1>3

-----------------------------------------------------------------------------
(* An empty buffer behind pages that fit. *)
LEMMA EmptyFits ==
  ASSUME NEW begin \in {4, 8}, NEW pages \in Seq(RowsPages \cup TextPages)
  PROVE  WriterFits(EmptyBuffer(begin, pages, <<>>)) /\ Cleared(EmptyBuffer(begin, pages, <<>>))
<1> DEFINE w == EmptyBuffer(begin, pages, <<>>)
<1>1. w = [pages |-> pages, begin |-> begin, rows |-> 0, data |-> <<>>, bytes |-> begin, bits |-> <<>>]
  BY DEF EmptyBuffer
<1>2. BytesFor(0) = 0 /\ BitsFor(0) = 0 /\ 0 = 0 * BitsPerByte
  BY PageAssumption, SMTT(30) DEF BitsFor, BytesFor, PageAssumption
<1> HIDE DEF w
<1>3. w \in Writers
  BY <1>1 DEF Writers
<1>4. w.bytes >= w.begin /\ w.bytes + BytesFor(w.rows) <= PageSize
  BY <1>1, <1>2, PageAssumption DEF PageAssumption
<1>5. Len(w.bits) = 0 * BitsPerByte /\ 0 >= BytesFor(w.rows) /\ Len(w.bits) = BitsFor(w.rows)
  BY <1>1, <1>2
<1> QED
  BY <1>3, <1>4, <1>5 DEF WriterFits, Cleared, w

(* What is known of a writer that fits. *)
LEMMA Shape ==
  ASSUME NEW w, WriterFits(w)
  PROVE  /\ w.rows \in Nat /\ w.data \in Seq(PageValues) /\ w.bytes \in Nat /\ w.bits \in Seq(BOOLEAN)
         /\ w.pages \in Seq(RowsPages \cup TextPages) /\ w.begin \in {4, 8} /\ w.bytes >= 4
         /\ BytesFor(w.rows) \in Nat /\ w.bytes + BytesFor(w.rows) <= PageSize
         /\ \E m \in Nat : Len(w.bits) = m * BitsPerByte /\ m >= BytesFor(w.rows)
<1>1. w.rows \in Nat /\ w.data \in Seq(PageValues) /\ w.bytes \in Nat /\ w.bits \in Seq(BOOLEAN)
      /\ w.pages \in Seq(RowsPages \cup TextPages) /\ w.begin \in {4, 8}
  BY DEF WriterFits, Writers
<1>2. BytesFor(w.rows) \in Nat
  BY <1>1, ReaderCounts
<1> QED
  BY <1>1, <1>2 DEF WriterFits

(* A page with the bitmap bytes its rows need, made of a buffer that fits. *)
LEMMA PageOfBuffer ==
  ASSUME NEW w, WriterFits(w), NEW bits \in Seq(BOOLEAN), Len(bits) = BitsFor(w.rows)
  PROVE  [kind |-> "rows", rows |-> w.rows, data |-> w.data, bytes |-> w.bytes, bits |-> bits]
           \in RowsPages
<1> DEFINE page == [kind |-> "rows", rows |-> w.rows, data |-> w.data, bytes |-> w.bytes, bits |-> bits]
<1>1. w.rows \in Nat /\ w.data \in Seq(PageValues) /\ w.bytes \in Nat /\ w.bytes >= 4
      /\ BytesFor(w.rows) \in Nat /\ w.bytes + BytesFor(w.rows) <= PageSize
  BY Shape
<1>2. Len(bits) \div BitsPerByte = BytesFor(w.rows)
  BY <1>1, BytesOfBits DEF BitsFor
<1>3. page.kind = "rows" /\ page.bytes = w.bytes /\ page.bits = bits /\ page.rows = w.rows
  OBVIOUS
<1>4. page \in [kind : {"rows"}, rows : Nat, data : Seq(PageValues), bytes : Nat, bits : Seq(BOOLEAN)]
  BY <1>1
<1> HIDE DEF page
<1>5. PageFits(page) /\ page.bytes >= 4 /\ Len(page.bits) = BitsFor(page.rows)
  BY <1>1, <1>2, <1>3 DEF PageFits
<1>6. page \in RowsPages
  BY <1>4, <1>5 DEF RowsPages
<1> QED
  BY <1>6 DEF page

(* save_page of a page buffer. *)
LEMMA SavedFits ==
  ASSUME NEW w, WriterFits(w), Cleared(w)
  PROVE  /\ WriterFits(SavePage(w)) /\ Cleared(SavePage(w))
         /\ SavePage(w).rows = 0 /\ SavePage(w).bytes = w.begin /\ SavePage(w).begin = w.begin
<1>1. w.begin \in {4, 8} /\ w.pages \in Seq(RowsPages \cup TextPages) /\ w.bits \in Seq(BOOLEAN)
  BY Shape
<1>2. RowsPage(w, w.bits) \in RowsPages
  BY <1>1, PageOfBuffer DEF RowsPage, Cleared
<1>3. Append(w.pages, RowsPage(w, w.bits)) \in Seq(RowsPages \cup TextPages)
  BY <1>1, <1>2
<1>4. WriterFits(SavePage(w)) /\ Cleared(SavePage(w))
  BY <1>1, <1>3, EmptyFits DEF SavePage
<1>5. SavePage(w).rows = 0 /\ SavePage(w).bytes = w.begin /\ SavePage(w).begin = w.begin
  BY DEF SavePage, EmptyBuffer
<1> QED
  BY <1>4, <1>5

(* Sequences extended, and changed at a place. *)
LEMMA SequenceExtended ==
  ASSUME NEW S, NEW s \in Seq(S), NEW t \in Seq(S)
  PROVE  s \o t \in Seq(S) /\ Len(s \o t) = Len(s) + Len(t)
  OBVIOUS

LEMMA SequenceChanged ==
  ASSUME NEW S, NEW s \in Seq(S), NEW i \in 1 .. Len(s), NEW e \in S
  PROVE  [s EXCEPT ![i] = e] \in Seq(S) /\ Len([s EXCEPT ![i] = e]) = Len(s)
  BY ExceptSeq

(* Bitmaps as long have as many bytes. *)
LEMMA SameFactor ==
  ASSUME NEW m \in Nat, NEW n \in Nat, NEW b \in Nat \ {0}, m * b = n * b
  PROVE  m = n
  BY SMTT(30)

(* The first bits of a bitmap. *)
LEMMA SequenceCut ==
  ASSUME NEW S, NEW s \in Seq(S), NEW n \in 0 .. Len(s)
  PROVE  SubSeq(s, 1, n) \in Seq(S) /\ Len(SubSeq(s, 1, n)) = n
  OBVIOUS

(* The last step of a save: the bitmap stays as it was. *)
LEMMA KeptBitsFit ==
  ASSUME NEW begin \in {4, 8}, NEW pages \in Seq(RowsPages \cup TextPages), NEW bits \in Seq(BOOLEAN),
         NEW m \in Nat, Len(bits) = m * BitsPerByte
  PROVE  WriterFits([pages |-> pages, begin |-> begin, rows |-> 0, data |-> <<>>, bytes |-> begin,
                     bits |-> bits])
<1> DEFINE w == [pages |-> pages, begin |-> begin, rows |-> 0, data |-> <<>>, bytes |-> begin, bits |-> bits]
<1>1. BytesFor(w.rows) = 0
  BY DEF BytesFor
<1>2. w \in Writers
  BY DEF Writers
<1>3. w.bytes = begin /\ w.begin = begin /\ w.bits = bits
  OBVIOUS
<1> HIDE DEF w
<1>4. w.bytes >= w.begin /\ w.bytes + BytesFor(w.rows) <= PageSize
  BY <1>1, <1>3, PageAssumption DEF PageAssumption
<1>5. WriterFits(w)
  BY <1>1, <1>2, <1>3, <1>4 DEF WriterFits
<1> QED
  BY <1>5 DEF w

(* A writer that fits has its bitmap apart from its values. *)
LEMMA FitsApart ==
  ASSUME NEW w, WriterFits(w)
  PROVE  ~Overlap(w) /\ (w.begin = 4 => Apart(w))
<1>1. /\ w.rows \in Nat /\ w.bytes \in Nat /\ BytesFor(w.rows) \in Nat
      /\ w.bytes + BytesFor(w.rows) <= PageSize
  BY Shape
<1>2. BitmapSize(w.rows) = BytesFor(w.rows)
  <2>1. CASE w.rows = 0
    BY <2>1, SizeGrows DEF BytesFor
  <2>2. CASE w.rows # 0
    <3>1. w.rows - 1 \in Nat /\ (w.rows - 1) + 1 = w.rows
      BY <1>1, <2>2
    <3>2. BitmapSize((w.rows - 1) + 1) = BitmapBytes(w.rows - 1)
      BY <3>1, SizeGrows
    <3> QED
      BY <2>2, <3>1, <3>2 DEF BytesFor
  <2> QED
    BY <2>1, <2>2
<1>3. PageSize \in Nat
  BY PageAssumption DEF PageAssumption
<1> QED
  BY <1>1, <1>2, <1>3 DEF Apart, Overlap

(* save_page of a ColumnInserter: it copies the bits of the page's rows. *)
LEMMA InserterSavedFits ==
  ASSUME NEW w, WriterFits(w)
  PROVE  /\ WriterFits(InserterSave(w))
         /\ InserterSave(w).rows = 0 /\ InserterSave(w).bytes = w.begin /\ InserterSave(w).begin = w.begin
<1>1. /\ w.rows \in Nat /\ w.bits \in Seq(BOOLEAN) /\ BytesFor(w.rows) \in Nat
      /\ w.begin \in {4, 8} /\ w.pages \in Seq(RowsPages \cup TextPages)
  BY Shape
<1>2. PICK m \in Nat : Len(w.bits) = m * BitsPerByte /\ m >= BytesFor(w.rows)
  BY Shape
<1>3. BitmapBits(w.rows) \in 0 .. Len(w.bits)
  <2>1. BitmapBits(w.rows) = BytesFor(w.rows) * BitsPerByte
    BY <1>1, ReaderCounts DEF BitsFor
  <2>2. BytesFor(w.rows) * BitsPerByte \in Nat /\ m * BitsPerByte \in Nat
        /\ BytesFor(w.rows) * BitsPerByte <= m * BitsPerByte
    BY <1>1, <1>2, PageAssumption, SMTT(30) DEF PageAssumption
  <2> QED
    BY <1>2, <2>1, <2>2
<1> DEFINE bits == SubSeq(w.bits, 1, BitmapBits(w.rows))
<1>4. bits \in Seq(BOOLEAN) /\ Len(bits) = BitsFor(w.rows)
  BY <1>1, <1>3, SequenceCut, ReaderCounts
<1>5. InserterPage(w) =
        [kind |-> "rows", rows |-> w.rows, data |-> w.data, bytes |-> w.bytes, bits |-> bits]
  BY FitsApart DEF InserterPage, UnderBitmap, RowsPage
<1> HIDE DEF bits
<1>6. InserterPage(w) \in RowsPages
  BY <1>4, <1>5, PageOfBuffer
<1>7. Append(w.pages, InserterPage(w)) \in Seq(RowsPages \cup TextPages)
  BY <1>1, <1>6
<1>8. InserterSave(w) =
        [pages |-> Append(w.pages, InserterPage(w)), begin |-> w.begin, rows |-> 0, data |-> <<>>,
         bytes |-> w.begin, bits |-> w.bits]
  BY DEF InserterSave, EmptyBuffer
<1>9. WriterFits(InserterSave(w))
  BY <1>1, <1>2, <1>7, <1>8, KeptBitsFit
<1> QED
  BY <1>8, <1>9

(* The step every insertion takes: a row more, its bytes having been tested. *)
LEMMA RowAddedFits ==
  ASSUME NEW w, WriterFits(w), NEW b \in Nat, Fits(w, b), NEW bit \in BOOLEAN,
         NEW values \in Seq(PageValues)
  PROVE  /\ WriterFits(AddRow(w, bit, values, b))
         /\ Cleared(w) => Cleared(AddRow(w, bit, values, b))
<1> DEFINE bits == SetBit(w.bits, w.rows, bit)
<1>1. /\ w.rows \in Nat /\ w.data \in Seq(PageValues) /\ w.bytes \in Nat /\ w.bits \in Seq(BOOLEAN)
      /\ w.pages \in Seq(RowsPages \cup TextPages) /\ w.begin \in {4, 8} /\ BytesFor(w.rows) \in Nat
      /\ w.bytes >= w.begin
  BY Shape DEF WriterFits
<1>2. PICK m \in Nat : Len(w.bits) = m * BitsPerByte /\ m >= BytesFor(w.rows)
  BY Shape
<1>3. BitsPerByte \in Nat \ {0} /\ PageSize \in Nat
  BY PageAssumption DEF PageAssumption
<1>4. BytesFor(w.rows + 1) = BitmapBytes(w.rows) /\ BitmapBytes(w.rows) \in Nat
      /\ w.rows < BitmapBytes(w.rows) * BitsPerByte
  <2>1. w.rows + 1 # 0 /\ (w.rows + 1) - 1 = w.rows
    BY <1>1
  <2> QED
    BY <1>1, <2>1, BytesNat DEF BytesFor
<1> DEFINE byte == [n \in 1 .. BitsPerByte |-> FALSE]
           grown == IF w.rows < Len(w.bits) THEN w.bits ELSE w.bits \o byte
           m2 == IF w.rows < m * BitsPerByte THEN m ELSE m + 1
<1>5. grown \in Seq(BOOLEAN) /\ Len(grown) = m2 * BitsPerByte
  <2>1. byte \in Seq(BOOLEAN) /\ Len(byte) = BitsPerByte
    BY <1>3
  <2> HIDE DEF byte
  <2>2. w.bits \o byte \in Seq(BOOLEAN) /\ Len(w.bits \o byte) = Len(w.bits) + BitsPerByte
    BY <1>1, <2>1, SequenceExtended
  <2>3. m * BitsPerByte + BitsPerByte = (m + 1) * BitsPerByte
    BY <1>2, <1>3, SMTT(30)
  <2> QED
    BY <1>1, <1>2, <2>2, <2>3
<1>6. m2 \in Nat /\ m2 >= BytesFor(w.rows + 1)
      /\ (m = BytesFor(w.rows) => m2 = BytesFor(w.rows + 1))
  BY <1>1, <1>2, <1>4, OneMoreRow
<1>7. bits = [grown EXCEPT ![w.rows + 1] = bit]
  BY DEF SetBit
<1> HIDE DEF grown, m2
<1>8. w.rows + 1 \in 1 .. Len(grown)
  <2>1. BitmapBytes(w.rows) * BitsPerByte <= m2 * BitsPerByte
    BY <1>3, <1>4, <1>6, SMTT(30)
  <2>2. BitmapBytes(w.rows) * BitsPerByte \in Nat /\ m2 * BitsPerByte \in Nat
    BY <1>3, <1>4, <1>6, SMTT(30)
  <2> QED
    BY <1>1, <1>4, <1>5, <2>1, <2>2, SMTT(30)
<1>9. bits \in Seq(BOOLEAN) /\ Len(bits) = m2 * BitsPerByte
  BY <1>5, <1>7, <1>8, SequenceChanged
<1> DEFINE v == AddRow(w, bit, values, b)
<1>10. v = [pages |-> w.pages, begin |-> w.begin, rows |-> w.rows + 1, data |-> w.data \o values,
            bytes |-> w.bytes + b, bits |-> bits]
  BY DEF AddRow
<1>11. w.data \o values \in Seq(PageValues) /\ w.rows + 1 \in Nat /\ w.bytes + b \in Nat
  BY <1>1
<1> HIDE DEF bits, v
<1>12. v \in Writers
  BY <1>1, <1>9, <1>10, <1>11 DEF Writers
<1>13. v.bytes >= v.begin /\ v.bytes + BytesFor(v.rows) <= PageSize
  BY <1>1, <1>4, <1>10, SMTT(30) DEF Fits
<1>14. WriterFits(v)
  BY <1>6, <1>9, <1>10, <1>12, <1>13 DEF WriterFits
<1>15. ASSUME Cleared(w) PROVE Cleared(v)
  <2>1. m * BitsPerByte = BytesFor(w.rows) * BitsPerByte
    BY <1>2, <1>15 DEF Cleared, BitsFor
  <2>2. m = BytesFor(w.rows)
    BY <1>1, <1>3, <2>1, SameFactor
  <2> QED
    BY <1>6, <1>9, <1>10, <2>2 DEF Cleared, BitsFor
<1> QED
  BY <1>14, <1>15 DEF v

(* A buffer without rows has room for anything short enough. *)
LEMMA RoomForOne ==
  ASSUME NEW w, w.rows = 0, w.begin \in {4, 8}, w.bytes = w.begin, NEW b \in Nat,
         b <= (PageSize - w.begin) - 1
  PROVE  Fits(w, b)
<1>1. BitmapBytes(0) = 1
  BY BytesNat
<1> QED
  BY <1>1, PageAssumption DEF Fits, PageAssumption

(* The values a column may hold, by where its values begin. *)
Holds(begin, x) == x = Null \/ (begin = 8 /\ x \in WideValues) \/ (begin = 4 /\ x \in IntValues \cup Strings)

(* The bytes of a value that is not a long string fit an empty page. *)
LEMMA ShortBytes ==
  ASSUME NEW begin \in {4, 8}, NEW x, Holds(begin, x), x # Null, ~IsLong(x)
  PROVE  ValueBytes(x) \in Nat /\ ValueBytes(x) <= (PageSize - begin) - 1
<1>1. PageSize \in Nat /\ PageSize > 16
  BY PageAssumption DEF PageAssumption
<1>2. CASE x \in Strings
  <2>1. Length[x] \in Nat /\ ~(Length[x] > PageSize - 7) /\ x \notin WideValues
    BY <1>2, PageAssumption DEF PageAssumption, IsLong, IsString
  <2>2. ValueBytes(x) = 2 + Length[x] /\ begin = 4
    BY <1>2, <2>1 DEF ValueBytes, IsString, Holds
  <2> QED
    BY <1>1, <2>1, <2>2
<1>3. CASE x \notin Strings
  <2>1. ValueBytes(x) \in {4, 8}
    BY <1>3 DEF ValueBytes, IsString
  <2> QED
    BY <1>1, <2>1
<1> QED
  BY <1>2, <1>3

(* What a page buffer inserts fits after the test, and a saved page if need be. *)
LEMMA RoomFits ==
  ASSUME NEW w, WriterFits(w), Cleared(w), NEW b \in Nat, b <= (PageSize - w.begin) - 1
  PROVE  LET room == Room(w, b)
         IN  WriterFits(room) /\ Cleared(room) /\ Fits(room, b) /\ room.begin = w.begin
<1>1. CASE Fits(w, b)
  BY <1>1 DEF Room
<1>2. CASE ~Fits(w, b)
  <2>1. WriterFits(SavePage(w)) /\ Cleared(SavePage(w)) /\ SavePage(w).rows = 0
        /\ SavePage(w).bytes = w.begin /\ SavePage(w).begin = w.begin
    BY SavedFits
  <2>2. w.begin \in {4, 8}
    BY Shape
  <2>3. Fits(SavePage(w), b)
    BY <2>1, <2>2, RoomForOne
  <2> QED
    BY <1>2, <2>1, <2>3 DEF Room
<1> QED
  BY <1>1, <1>2

(* The same of a ColumnInserter. *)
LEMMA InserterRoomFits ==
  ASSUME NEW w, WriterFits(w), NEW b \in Nat, b <= (PageSize - w.begin) - 1
  PROVE  LET room == InserterRoom(w, b)
         IN  WriterFits(room) /\ Fits(room, b) /\ room.begin = w.begin
<1>1. CASE Fits(w, b)
  BY <1>1 DEF InserterRoom
<1>2. CASE ~Fits(w, b)
  <2>1. WriterFits(InserterSave(w)) /\ InserterSave(w).rows = 0
        /\ InserterSave(w).bytes = w.begin /\ InserterSave(w).begin = w.begin
    BY InserterSavedFits
  <2>2. w.begin \in {4, 8}
    BY Shape
  <2>3. Fits(InserterSave(w), b)
    BY <2>1, <2>2, RoomForOne
  <2> QED
    BY <1>2, <2>1, <2>3 DEF InserterRoom
<1> QED
  BY <1>1, <1>2

(* NULL takes no bytes, and there is room for none. *)
LEMMA NullBytes ==
  ASSUME NEW w, WriterFits(w)
  PROVE  0 \in Nat /\ 0 <= (PageSize - w.begin) - 1 /\ <<>> \in Seq(PageValues)
  BY Shape, PageAssumption DEF PageAssumption

(* unset_bitmap and a row more. *)
LEMMA InsertNullFits ==
  ASSUME NEW w, WriterFits(w), Cleared(w)
  PROVE  WriterFits(InsertNull(w)) /\ Cleared(InsertNull(w)) /\ InsertNull(w).begin = w.begin
<1> DEFINE room == Room(w, 0)
<1>1. 0 \in Nat /\ 0 <= (PageSize - w.begin) - 1 /\ <<>> \in Seq(PageValues)
  BY NullBytes
<1>2. WriterFits(room) /\ Cleared(room) /\ Fits(room, 0) /\ room.begin = w.begin
  BY <1>1, RoomFits
<1> HIDE DEF room
<1>3. WriterFits(AddRow(room, FALSE, <<>>, 0)) /\ Cleared(AddRow(room, FALSE, <<>>, 0))
      /\ AddRow(room, FALSE, <<>>, 0).begin = w.begin
  <2>1. FALSE \in BOOLEAN
    OBVIOUS
  <2>2. WriterFits(AddRow(room, FALSE, <<>>, 0)) /\ Cleared(AddRow(room, FALSE, <<>>, 0))
    BY <1>1, <1>2, <2>1, RowAddedFits
  <2>3. AddRow(room, FALSE, <<>>, 0).begin = w.begin
    BY <1>2 DEF AddRow
  <2> QED
    BY <2>2, <2>3
<1> QED
  BY <1>3 DEF InsertNull, room

(* A value that is not a long string. *)
LEMMA InsertShortFits ==
  ASSUME NEW w, WriterFits(w), Cleared(w), NEW x, Holds(w.begin, x), x # Null, ~IsLong(x)
  PROVE  WriterFits(InsertShort(w, x)) /\ Cleared(InsertShort(w, x)) /\ InsertShort(w, x).begin = w.begin
<1> DEFINE b == ValueBytes(x)
           room == Room(w, b)
<1>1. b \in Nat /\ b <= (PageSize - w.begin) - 1
  BY Shape, ShortBytes
<1>2. <<x>> \in Seq(PageValues)
  BY DEF Holds, PageValues
<1> HIDE DEF b
<1>3. WriterFits(room) /\ Cleared(room) /\ Fits(room, b) /\ room.begin = w.begin
  BY <1>1, RoomFits
<1> HIDE DEF room
<1>4. WriterFits(AddRow(room, TRUE, <<x>>, b)) /\ Cleared(AddRow(room, TRUE, <<x>>, b))
      /\ AddRow(room, TRUE, <<x>>, b).begin = w.begin
  <2>1. TRUE \in BOOLEAN
    OBVIOUS
  <2>2. WriterFits(AddRow(room, TRUE, <<x>>, b)) /\ Cleared(AddRow(room, TRUE, <<x>>, b))
    BY <1>1, <1>2, <1>3, <2>1, RowAddedFits
  <2>3. AddRow(room, TRUE, <<x>>, b).begin = w.begin
    BY <1>3 DEF AddRow
  <2> QED
    BY <2>2, <2>3
<1> QED
  BY <1>4 DEF InsertShort, room, b

(* insert_null of a ColumnInserter. *)
LEMMA InserterNullFits ==
  ASSUME NEW w, WriterFits(w)
  PROVE  WriterFits(InserterNull(w)) /\ InserterNull(w).begin = w.begin
<1> DEFINE room == InserterRoom(w, 0)
<1>1. 0 \in Nat /\ 0 <= (PageSize - w.begin) - 1 /\ <<>> \in Seq(PageValues)
  BY NullBytes
<1>2. WriterFits(room) /\ Fits(room, 0) /\ room.begin = w.begin
  BY <1>1, InserterRoomFits
<1> HIDE DEF room
<1>3. WriterFits(AddRow(room, FALSE, <<>>, 0)) /\ AddRow(room, FALSE, <<>>, 0).begin = w.begin
  <2>1. FALSE \in BOOLEAN
    OBVIOUS
  <2>2. WriterFits(AddRow(room, FALSE, <<>>, 0))
    BY <1>1, <1>2, <2>1, RowAddedFits
  <2>3. AddRow(room, FALSE, <<>>, 0).begin = w.begin
    BY <1>2 DEF AddRow
  <2> QED
    BY <2>2, <2>3
<1> QED
  BY <1>3 DEF InserterNull, room

(* insert of a ColumnInserter counts what the value takes, unless it is wide. *)
LEMMA InserterShortFits ==
  ASSUME NEW w, WriterFits(w), w.begin = 4, NEW x, Holds(w.begin, x), x # Null, ~IsLong(x),
         x \notin WideValues
  PROVE  WriterFits(InserterShort(w, x)) /\ InserterShort(w, x).begin = w.begin
<1> DEFINE b == ValueBytes(x)
           room == InserterRoom(w, b)
<1>1. b \in Nat /\ b <= (PageSize - w.begin) - 1
  BY Shape, ShortBytes
<1>2. <<x>> \in Seq(PageValues)
  BY DEF Holds, PageValues
<1>3. CountedBytes(x) = b
  BY DEF CountedBytes, ValueBytes, IsWide, IsString
<1> HIDE DEF b
<1>4. WriterFits(room) /\ Fits(room, b) /\ room.begin = w.begin
  BY <1>1, InserterRoomFits
<1> HIDE DEF room
<1>5. WriterFits(AddRow(room, TRUE, <<x>>, b)) /\ AddRow(room, TRUE, <<x>>, b).begin = w.begin
  <2>1. TRUE \in BOOLEAN
    OBVIOUS
  <2>2. WriterFits(AddRow(room, TRUE, <<x>>, b))
    BY <1>1, <1>2, <1>4, <2>1, RowAddedFits
  <2>3. AddRow(room, TRUE, <<x>>, b).begin = w.begin
    BY <1>4 DEF AddRow
  <2> QED
    BY <2>2, <2>3
<1>6. InserterShort(w, x) = AddRow(room, TRUE, <<x>>, b)
  BY <1>3 DEF InserterShort, room, b
<1> QED
  BY <1>5, <1>6

(* The pages of a long string: none is empty, none too long. *)
LEMMA LongPagesFit ==
  ASSUME NEW x \in Strings, IsLong(x)
  PROVE  LongPages(x) \in Seq(RowsPages \cup TextPages)
<1> DEFINE L == Length[x]
           B == PieceBytes
           N == (L + B - 1) \div B
<1>1. L \in Nat /\ B \in Nat \ {0} /\ B = PageSize - 4 /\ PageSize \in Nat
  BY PageAssumption DEF PageAssumption, PieceBytes
<1>2. L + B - 1 \in Nat
  BY <1>1
<1>3. N \in Nat /\ B * N <= L + B - 1
  BY <1>1, <1>2, DivBounds
<1>4. LongPages(x) =
        [n \in 1 .. N |->
           [kind |-> IF n = 1 THEN "first" ELSE "more", text |-> <<x, (n - 1) * B>>,
            length |-> IF n * B < L THEN B ELSE L - (n - 1) * B]]
  BY DEF LongPages
<1> HIDE DEF L, B, N
<1>5. ASSUME NEW n \in 1 .. N
      PROVE  [kind |-> IF n = 1 THEN "first" ELSE "more", text |-> <<x, (n - 1) * B>>,
              length |-> IF n * B < L THEN B ELSE L - (n - 1) * B] \in TextPages
  <2>1. n \in Nat \ {0} /\ n - 1 \in Nat /\ n <= N
    BY <1>3
  <2>2. (n - 1) * B \in Nat /\ n * B = (n - 1) * B + B
    BY <1>1, <2>1, SMTT(30)
  <2>3. n * B <= N * B
    BY <1>1, <1>3, <2>1, SMTT(30)
  <2>4. (n - 1) * B < L
    BY <1>1, <1>3, <2>2, <2>3, SMTT(30)
  <2> DEFINE o == (n - 1) * B
             m == n * B
  <2>5. o \in Nat /\ m = o + B /\ o < L
    BY <2>2, <2>4
  <2> HIDE DEF o, m
  <2>6. (IF m < L THEN B ELSE L - o) \in 1 .. PageSize - 4
    BY <1>1, <2>5
  <2> QED
    BY <2>5, <2>6 DEF TextPages, o, m
<1> QED
  BY <1>3, <1>4, <1>5

(* Pages that fit may follow. *)
LEMMA PagesAppended ==
  ASSUME NEW w, WriterFits(w), NEW pages \in Seq(RowsPages \cup TextPages)
  PROVE  LET v == [w EXCEPT !.pages = w.pages \o pages]
         IN  WriterFits(v) /\ (Cleared(w) => Cleared(v)) /\ v.begin = w.begin
<1> DEFINE v == [w EXCEPT !.pages = w.pages \o pages]
<1>1. w \in Writers
  BY DEF WriterFits
<1>2. w.pages \o pages \in Seq(RowsPages \cup TextPages)
  BY <1>1 DEF Writers
<1>3. v \in Writers /\ v.rows = w.rows /\ v.bytes = w.bytes /\ v.bits = w.bits /\ v.begin = w.begin
  BY <1>1, <1>2 DEF Writers
<1> HIDE DEF v
<1>4. WriterFits(v) /\ (Cleared(w) => Cleared(v))
  BY <1>3 DEF WriterFits, Cleared
<1> QED
  BY <1>3, <1>4 DEF v

(* A long string: the rows before it are saved, its pages follow. *)
LEMMA InsertLongFits ==
  ASSUME NEW w, WriterFits(w), NEW x \in Strings, IsLong(x)
  PROVE  /\ Cleared(w) => /\ WriterFits(InsertLong(w, x)) /\ Cleared(InsertLong(w, x))
                          /\ InsertLong(w, x).begin = w.begin
         /\ WriterFits(InserterLong(w, x)) /\ InserterLong(w, x).begin = w.begin
<1> DEFINE pages == LongPages(x)
<1>1. pages \in Seq(RowsPages \cup TextPages)
  BY LongPagesFit
<1> HIDE DEF pages
<1>2. ASSUME Cleared(w)
      PROVE  WriterFits(InsertLong(w, x)) /\ Cleared(InsertLong(w, x)) /\ InsertLong(w, x).begin = w.begin
  <2> DEFINE saved == FlushRows(w)
  <2>1. WriterFits(saved) /\ Cleared(saved) /\ saved.begin = w.begin
    BY <1>2, SavedFits DEF FlushRows
  <2>2. InsertLong(w, x) = [saved EXCEPT !.pages = saved.pages \o pages]
    BY DEF InsertLong, pages
  <2> HIDE DEF saved
  <2> QED
    BY <1>1, <2>1, <2>2, PagesAppended
<1>3. WriterFits(InserterLong(w, x)) /\ InserterLong(w, x).begin = w.begin
  <2> DEFINE saved == InserterFlush(w)
  <2>1. WriterFits(saved) /\ saved.begin = w.begin
    BY InserterSavedFits DEF InserterFlush
  <2>2. InserterLong(w, x) = [saved EXCEPT !.pages = saved.pages \o pages]
    BY DEF InserterLong, pages
  <2> HIDE DEF saved
  <2> QED
    BY <1>1, <2>1, <2>2, PagesAppended
<1> QED
  BY <1>2, <1>3

(* insert_value keeps a page buffer that fits, whatever the value. *)
LEMMA InsertValueFits ==
  ASSUME NEW w, WriterFits(w), Cleared(w), NEW x, Holds(w.begin, x)
  PROVE  WriterFits(InsertValue(w, x)) /\ Cleared(InsertValue(w, x)) /\ InsertValue(w, x).begin = w.begin
<1>1. CASE x = Null
  BY <1>1, InsertNullFits DEF InsertValue
<1>2. CASE x # Null /\ IsLong(x)
  <2>1. x \in Strings
    BY <1>2 DEF IsLong, IsString
  <2> QED
    BY <1>2, <2>1, InsertLongFits DEF InsertValue
<1>3. CASE x # Null /\ ~IsLong(x)
  BY <1>3, InsertShortFits DEF InsertValue
<1> QED
  BY <1>1, <1>2, <1>3

(* A ColumnInserter keeps fitting, unless its values are wide. *)
LEMMA InserterValueFits ==
  ASSUME NEW w, WriterFits(w), w.begin = 4, NEW x \in IntValues \cup Strings \cup {Null},
         x \notin WideValues
  PROVE  WriterFits(InserterValue(w, x)) /\ InserterValue(w, x).begin = w.begin
<1>1. CASE x = Null
  BY <1>1, InserterNullFits DEF InserterValue
<1>2. CASE x # Null /\ IsLong(x)
  <2>1. x \in Strings
    BY <1>2 DEF IsLong, IsString
  <2> QED
    BY <1>2, <2>1, InsertLongFits DEF InserterValue
<1>3. CASE x # Null /\ ~IsLong(x)
  <2>1. Holds(w.begin, x)
    BY DEF Holds
  <2> QED
    BY <1>3, <2>1, InserterShortFits DEF InserterValue
<1> QED
  BY <1>1, <1>2, <1>3

-----------------------------------------------------------------------------
(* The inductive invariant of a column. *)
ColumnFits ==
  /\ kind \in Kinds
  /\ WriterFits(writer)
  /\ writer.begin = DataBegin(kind[1])
  /\ kind[2] = "buffer" => Cleared(writer)

(* Every pair of a type and a writer, but for wide values through a          *)
(* ColumnInserter; and no value of an INT32 column counts as wide.           *)
FixedKinds == ({"int32", "wide", "text"} \X {"buffer", "inserter"}) \ {<<"wide", "inserter">>}
ExactTests == Kinds \subseteq FixedKinds /\ IntValues \cap WideValues = {}

(* The pages of the rows still buffered fit like those saved. *)
LEMMA FlushedFits ==
  ASSUME ColumnFits, ExactTests
  PROVE  /\ WriterFits(Flushed) /\ Flushed.begin = writer.begin
         /\ kind[2] = "buffer" => Cleared(Flushed)
<1>1. kind[2] \in {"buffer", "inserter"}
  BY DEF ColumnFits, ExactTests, FixedKinds
<1>2. CASE kind[2] = "buffer"
  BY <1>2, SavedFits DEF ColumnFits, Flushed, Finalize
<1>3. CASE kind[2] = "inserter"
  BY <1>3, InserterSavedFits DEF ColumnFits, Flushed, InserterFlush
<1> QED
  BY <1>1, <1>2, <1>3

(* Every step of a column keeps a writer that fits. *)
LEMMA ColumnAlwaysFits ==
  ASSUME ExactTests
  PROVE  WriterSpec => []ColumnFits
<1>1. WriterInit => ColumnFits
  <2> SUFFICES ASSUME WriterInit
               PROVE  ColumnFits
    OBVIOUS
  <2>1. DataBegin(kind[1]) \in {4, 8} /\ <<>> \in Seq(RowsPages \cup TextPages)
    BY DEF DataBegin
  <2>2. writer = EmptyBuffer(DataBegin(kind[1]), <<>>, <<>>) /\ kind \in Kinds
    BY DEF WriterInit
  <2>3. writer.begin = DataBegin(kind[1])
    BY <2>2 DEF EmptyBuffer
  <2> QED
    BY <2>1, <2>2, <2>3, EmptyFits DEF ColumnFits
<1>2. ColumnFits /\ [WriterNext]_writerVars => ColumnFits'
  <2> SUFFICES ASSUME ColumnFits, [WriterNext]_writerVars
               PROVE  ColumnFits'
    OBVIOUS
  <2>0. SUFFICES /\ kind' = kind
                 /\ WriterFits(writer') /\ writer'.begin = writer.begin
                 /\ kind[2] = "buffer" => Cleared(writer')
    BY DEF ColumnFits, WriterFits, Writers, Cleared, DataBegin, RowsPages, TextPages, BitsFor, BytesFor,
           BitmapBytes, PageFits, PageValues
  <2>1. ASSUME NEW type, kind = <<type, "buffer">>, Insert(type, "buffer")
        PROVE  kind' = kind /\ WriterFits(writer') /\ writer'.begin = writer.begin /\ Cleared(writer')
    <3>1. PICK x \in Values(type) \cup {Null} : writer' = InsertValue(writer, x)
      BY <2>1 DEF Insert, Written
    <3>2. type \in {"int32", "wide", "text"}
      BY <2>1 DEF ColumnFits, ExactTests, FixedKinds
    <3>3. writer.begin = DataBegin(type)
      BY <2>1 DEF ColumnFits
    <3>4. Holds(writer.begin, x)
      BY <3>1, <3>2, <3>3 DEF Holds, Values, DataBegin
    <3> QED
      BY <2>1, <3>1, <3>4, InsertValueFits DEF ColumnFits, Insert
  <2>2. ASSUME NEW type, kind = <<type, "inserter">>, Insert(type, "inserter")
        PROVE  kind' = kind /\ WriterFits(writer') /\ writer'.begin = writer.begin
    <3>1. PICK x \in Values(type) \cup {Null} : writer' = InserterValue(writer, x)
      BY <2>2 DEF Insert, Written
    <3>2. type \in {"int32", "text"}
      BY <2>2 DEF ColumnFits, ExactTests, FixedKinds
    <3>3. writer.begin = 4
      BY <2>2, <3>2 DEF ColumnFits, DataBegin
    <3>4. x \in IntValues \cup Strings \cup {Null} /\ x \notin WideValues
      BY <3>1, <3>2, PageAssumption DEF Values, ExactTests, PageAssumption
    <3> QED
      BY <2>2, <3>1, <3>3, <3>4, InserterValueFits DEF ColumnFits, Insert
  <2>3. CASE BufferInt32
    BY <2>1, <2>3 DEF BufferInt32, Insert
  <2>4. CASE BufferWide
    BY <2>1, <2>4 DEF BufferWide, Insert
  <2>5. CASE BufferText
    BY <2>1, <2>5 DEF BufferText, Insert
  <2>6. CASE InserterFixed
    <3>1. PICK type \in {"int32", "wide"} : Insert(type, "inserter")
      BY <2>6 DEF InserterFixed
    <3>2. kind = <<type, "inserter">>
      BY <3>1 DEF Insert
    <3> QED
      BY <2>2, <3>1, <3>2
  <2>7. CASE InserterText
    BY <2>2, <2>7 DEF InserterText, Insert
  <2>8. CASE Close
    BY <2>8, FlushedFits DEF Close
  <2>9. CASE UNCHANGED writerVars
    BY <2>9 DEF writerVars, ColumnFits
  <2> QED
    BY <2>3, <2>4, <2>5, <2>6, <2>7, <2>8, <2>9 DEF WriterNext, Done
<1> QED
  BY <1>1, <1>2, PTL DEF WriterSpec

(* save_page never copies a bitmap over the last value of its page, nor      *)
(* anything past the page's end; a piece of a long string fits its page.     *)
THEOREM PagesNeverOverflow ==
  ASSUME ExactTests
  PROVE  WriterSpec => []PagesFit
<1>1. ColumnFits => PagesFit
  <2> SUFFICES ASSUME ColumnFits, NEW n \in 1 .. Len(Flushed.pages)
               PROVE  PageFits(Flushed.pages[n])
    BY DEF PagesFit
  <2> DEFINE page == Flushed.pages[n]
  <2>1. Flushed.pages \in Seq(RowsPages \cup TextPages)
    BY FlushedFits, Shape
  <2>2. page \in RowsPages \cup TextPages
    BY <2>1
  <2> HIDE DEF page
  <2>3. PageFits(page)
    BY <2>2 DEF RowsPages, TextPages, PageFits
  <2> QED
    BY <2>3 DEF page
<1> QED
  BY <1>1, ColumnAlwaysFits, PTL

(* A page of rows is never taken for a page of a long string: it has no     *)
(* more rows than bits fit behind its header, 65504 in a page of 8192 bytes *)
(* with eight rows to a byte, and the marks are 65534 and 65535.            *)
THEOREM RowsNeverReachMarks ==
  ASSUME ExactTests
  PROVE  WriterSpec => []RowsBelowMarks
<1>1. ColumnFits => RowsBelowMarks
  <2> SUFFICES ASSUME ColumnFits, NEW n \in 1 .. Len(Flushed.pages), Flushed.pages[n].kind = "rows"
               PROVE  Flushed.pages[n].rows <= (PageSize - 4) * BitsPerByte
    BY DEF RowsBelowMarks
  <2> DEFINE page == Flushed.pages[n]
  <2>1. Flushed.pages \in Seq(RowsPages \cup TextPages)
    BY FlushedFits, Shape
  <2>2. page \in RowsPages
    BY <2>1 DEF TextPages
  <2> HIDE DEF page
  <2>3. page.rows \in Nat /\ page.bytes \in Nat /\ page.bytes >= 4 /\ page.kind = "rows"
        /\ PageFits(page) /\ Len(page.bits) = BitsFor(page.rows)
    BY <2>2 DEF RowsPages
  <2>4. BitsPerByte \in Nat \ {0} /\ PageSize \in Nat /\ PageSize > 16
    BY PageAssumption DEF PageAssumption
  <2>5. CASE page.rows = 0
    <3>1. (PageSize - 4) * BitsPerByte \in Nat
      BY <2>4, SMTT(30)
    <3> QED
      BY <2>5, <3>1 DEF page
  <2>6. CASE page.rows # 0
    <3> DEFINE q == BitmapBytes(page.rows - 1)
    <3>1. page.rows - 1 \in Nat
      BY <2>3, <2>6
    <3>2. q \in Nat /\ page.rows - 1 < q * BitsPerByte
      BY <3>1, BytesNat
    <3>3. Len(page.bits) \div BitsPerByte = q
      BY <2>3, <2>6, <3>2, BytesOfBits DEF BitsFor, BytesFor
    <3>4. q <= PageSize - 4
      BY <2>3, <2>4, <3>2, <3>3, SMTT(30) DEF PageFits
    <3> HIDE DEF q
    <3>5. q * BitsPerByte <= (PageSize - 4) * BitsPerByte
      BY <2>4, <3>2, <3>4, SMTT(30)
    <3>6. q * BitsPerByte \in Nat /\ (PageSize - 4) * BitsPerByte \in Nat
      BY <2>4, <3>2, SMTT(30)
    <3> QED
      BY <2>3, <3>1, <3>2, <3>5, <3>6 DEF page
  <2> QED
    BY <2>5, <2>6
<1> QED
  BY <1>1, ColumnAlwaysFits, PTL

-----------------------------------------------------------------------------
(* The writer spells the values given to it, and keeps none back once the   *)
(* column is closed.                                                       *)
ColumnValues == PageValues \cup {Null}
ColumnSpelled ==
  /\ Spelled(writer, given, ColumnValues)
  /\ kind[2] = "buffer" => Exact(writer)
  /\ closed => writer.rows = 0

LEMMA ColumnValueSet == ValueSet(ColumnValues)
BY ReaderAssumption DEF ReaderAssumption, ValueSet, ColumnValues

LEMMA ColumnAlwaysSpelled ==
  ASSUME ExactTests
  PROVE  WriterSpec => []ColumnSpelled
<1>1. WriterInit => ColumnSpelled
  <2> SUFFICES ASSUME WriterInit PROVE ColumnSpelled
    OBVIOUS
  <2>1. DataBegin(kind[1]) \in Int
    BY DEF DataBegin
  <2>2. Spelled(writer, <<>>, ColumnValues) /\ Exact(writer)
    BY <2>1, ColumnValueSet, NewSpells DEF WriterInit
  <2> QED
    BY <2>2 DEF WriterInit, ColumnSpelled
<1>2. ColumnFits /\ ColumnSpelled /\ [WriterNext]_writerVars => ColumnSpelled'
  <2> SUFFICES ASSUME ColumnFits, ColumnSpelled, [WriterNext]_writerVars PROVE ColumnSpelled'
    OBVIOUS
  <2>a. ~Overlap(writer)
    BY FitsApart DEF ColumnFits
  <2>0. SUFFICES /\ kind' = kind /\ Spelled(writer', given', ColumnValues)
                 /\ kind[2] = "buffer" => Exact(writer')
                 /\ closed' => writer'.rows = 0
    BY DEF ColumnSpelled
  <2>1. ASSUME NEW type, NEW by, Insert(type, by), Values(type) \subseteq ColumnValues
        PROVE  /\ kind' = kind /\ Spelled(writer', given', ColumnValues)
               /\ kind[2] = "buffer" => Exact(writer')
               /\ closed' => writer'.rows = 0
    <3>1. PICK x \in Values(type) \cup {Null} : writer' = Written(x) /\ given' = Append(given, x)
      BY <2>1 DEF Insert
    <3>2. x \in ColumnValues
      BY <2>1, <3>1 DEF ColumnValues
    <3>3. CASE kind[2] = "buffer"
      <4>1. Spelled(InsertValue(writer, x), Append(given, x), ColumnValues) /\ Exact(InsertValue(writer, x))
        BY <3>2, <3>3, ColumnValueSet, Inserted DEF ColumnSpelled
      <4> QED
        BY <2>1, <3>1, <3>3, <4>1 DEF Insert, Written
    <3>4. CASE kind[2] # "buffer"
      <4>1. Spelled(InserterValue(writer, x), Append(given, x), ColumnValues)
        BY <2>a, <3>2, ColumnValueSet, InserterInserted DEF ColumnSpelled
      <4> QED
        BY <2>1, <3>1, <3>4, <4>1 DEF Insert, Written
    <3> QED
      BY <3>3, <3>4
  <2>2. \A type \in {"int32", "wide", "text"} : Values(type) \subseteq ColumnValues
    BY DEF Values, ColumnValues, PageValues
  <2>3. CASE BufferInt32 \/ BufferWide \/ BufferText \/ InserterFixed \/ InserterText
    <3>1. \E type \in {"int32", "wide", "text"} : \E by \in {"buffer", "inserter"} : Insert(type, by)
      BY <2>3 DEF BufferInt32, BufferWide, BufferText, InserterFixed, InserterText
    <3> QED
      BY <2>1, <2>2, <3>1
  <2>4. CASE Close
    BY <2>4, <2>a, ColumnValueSet, Flushes DEF Close, Flushed, ColumnSpelled
  <2>5. CASE UNCHANGED writerVars
    BY <2>5 DEF writerVars, ColumnSpelled
  <2> QED
    BY <2>3, <2>4, <2>5 DEF WriterNext, Done
<1> QED
  BY <1>1, <1>2, ColumnAlwaysFits, PTL DEF WriterSpec

(* The reader of a column finds the values written, in their order, NULLs    *)
(* and long strings included, whatever the pages their sizes cut them into;  *)
(* and closing the column leaves no row behind.  (A wide value that goes     *)
(* through a ColumnInserter may be lost to the bitmap.)                      *)
THEOREM RoundTripCorrect ==
  ASSUME ExactTests
  PROVE  WriterSpec => []RoundTrip
<1>1. ColumnFits /\ ColumnSpelled => RoundTrip
  <2> SUFFICES ASSUME ColumnFits, ColumnSpelled PROVE RoundTrip
    OBVIOUS
  <2>5. ~Overlap(writer)
    BY FitsApart DEF ColumnFits
  <2>1. given \in Seq(ColumnValues)
    BY DEF ColumnSpelled, Spelled
  <2>2. Flushed.pages \in PageLists(ColumnValues) /\ Adds(Flushed.pages, <<>>, given, ColumnValues)
    BY <2>5, ColumnValueSet, Flushes DEF Flushed, ColumnSpelled
  <2>3. ReadColumn(Flushed.pages) = given
    BY <2>1, <2>2, ColumnValueSet, ColumnRead
  <2>4. closed => Flushed = writer
    BY DEF ColumnSpelled, Flushed, Finalize, InserterFlush
  <2> QED
    BY <2>3, <2>4 DEF RoundTrip
<1> QED
  BY <1>1, ColumnAlwaysFits, ColumnAlwaysSpelled, PTL

-----------------------------------------------------------------------------
(* The number of threads is positive, and the sizes are numbers.           *)
LEMMA RoundUpPositive ==
  ASSUME NEW n \in Nat
  PROVE  RoundUp(n) \in Nat \ {0}
BY DoublingEnds, Zenon DEF RoundUp

LEMMA ThreadsPositive == ASSUME NEW s \in Settings PROVE RootThreads(s) \in Nat \ {0}
<1>1. Wanted(s) \in Nat
  BY SettingsAssumption DEF SettingsAssumption, Wanted
<1> QED BY <1>1, RoundUpPositive DEF RootThreads

LEMMA Sizes == ProbeSize \in Nat /\ ChunkRows \in Nat \ {0}
BY RootAssumption DEF RootAssumption

-----------------------------------------------------------------------------
(* The values of a column, for a list of pairs.                            *)
AllCells  == ResultCells \cup {Null}
Pairs     == BuildRows \X ProbeRows
PairLists == Seq(Pairs)
CellOf(c, m)   == Cell[c][SourceRow(c, m[1], m[2])]
ColumnOf(c, s) == [n \in 1 .. Len(s) |-> CellOf(c, s[n])]

LEMMA CellSet == ValueSet(AllCells)
BY RootAssumption DEF RootAssumption, ValueSet, AllCells

LEMMA CellType ==
  ASSUME NEW c \in Columns, NEW m \in Pairs
  PROVE  CellOf(c, m) \in ResultCells /\ CellOf(c, m) \in AllCells
<1>1. SourceRow(c, m[1], m[2]) \in BuildRows \cup ProbeRows
  BY DEF Pairs, SourceRow
<1> QED BY <1>1 DEF CellOf, ResultCells, AllCells

LEMMA ColumnType ==
  ASSUME NEW c \in Columns, NEW s \in PairLists
  PROVE  /\ ColumnOf(c, s) \in Seq(AllCells) /\ Len(ColumnOf(c, s)) = Len(s)
         /\ \A n \in 1 .. Len(s) : ColumnOf(c, s)[n] = CellOf(c, s[n]) /\ s[n] \in Pairs
<1>1. Len(s) \in Nat /\ \A n \in 1 .. Len(s) : s[n] \in Pairs  BY DEF PairLists
<1>2. \A n \in 1 .. Len(s) : CellOf(c, s[n]) \in AllCells  BY <1>1, CellType
<1> DEFINE col == [n \in 1 .. Len(s) |-> CellOf(c, s[n])]
<1>3. col \in Seq(AllCells) /\ Len(col) = Len(s)  BY <1>1, <1>2
<1> QED BY <1>1, <1>3 DEF ColumnOf

LEMMA ColumnAppend ==
  ASSUME NEW c \in Columns, NEW s \in PairLists, NEW m \in Pairs
  PROVE  /\ Append(s, m) \in PairLists
         /\ ColumnOf(c, Append(s, m)) = Append(ColumnOf(c, s), CellOf(c, m))
<1> DEFINE t == Append(s, m)
           n == Len(s)
           x == ColumnOf(c, s)
           y == ColumnOf(c, t)
           z == Append(x, CellOf(c, m))
<1>1. n \in Nat /\ t \in PairLists /\ Len(t) = n + 1 /\ t[n + 1] = m /\ \A k \in 1 .. n : t[k] = s[k]
  BY DEF PairLists
<1> HIDE DEF t
<1>2. /\ x \in Seq(AllCells) /\ Len(x) = n /\ y \in Seq(AllCells) /\ Len(y) = n + 1
      /\ \A k \in 1 .. n : x[k] = CellOf(c, s[k])
      /\ \A k \in 1 .. n + 1 : y[k] = CellOf(c, t[k])
  BY <1>1, ColumnType
<1>3. CellOf(c, m) \in AllCells  BY CellType
<1> HIDE DEF x, y, n
<1>4. /\ z \in Seq(AllCells) /\ Len(z) = n + 1 /\ z[n + 1] = CellOf(c, m)
      /\ \A k \in 1 .. n : z[k] = x[k]
  BY <1>2, <1>3
<1> HIDE DEF z
<1>5. \A k \in 1 .. n + 1 : y[k] = z[k]
  <2>1. \A k \in 1 .. n + 1 : k = n + 1 \/ k \in 1 .. n  BY <1>1
  <2> QED BY <1>1, <1>2, <1>4, <2>1
<1>6. y = z  BY <1>2, <1>4, <1>5, SeqEqual
<1> QED BY <1>1, <1>6 DEF t, x, y, z

LEMMA ColumnConcat ==
  ASSUME NEW c \in Columns, NEW s \in PairLists, NEW r \in PairLists
  PROVE  s \o r \in PairLists /\ ColumnOf(c, s \o r) = ColumnOf(c, s) \o ColumnOf(c, r)
<1> DEFINE t == s \o r
           m == Len(s)
           n == Len(r)
           x == ColumnOf(c, s)
           y == ColumnOf(c, r)
           z == ColumnOf(c, t)
           xy == x \o y
<1>1. /\ m \in Nat /\ n \in Nat /\ t \in PairLists /\ Len(t) = m + n
      /\ \A k \in 1 .. m + n : t[k] = IF k <= m THEN s[k] ELSE r[k - m]
  BY DEF PairLists
<1> HIDE DEF t
<1>2. /\ x \in Seq(AllCells) /\ Len(x) = m /\ y \in Seq(AllCells) /\ Len(y) = n
      /\ z \in Seq(AllCells) /\ Len(z) = m + n
      /\ \A k \in 1 .. m : x[k] = CellOf(c, s[k])
      /\ \A k \in 1 .. n : y[k] = CellOf(c, r[k])
      /\ \A k \in 1 .. m + n : z[k] = CellOf(c, t[k])
  BY <1>1, ColumnType
<1> HIDE DEF m, n, x, y, z
<1>3. /\ xy \in Seq(AllCells) /\ Len(xy) = m + n
      /\ \A k \in 1 .. m + n : xy[k] = IF k <= m THEN x[k] ELSE y[k - m]
  <2>1. x \in Seq(AllCells) /\ y \in Seq(AllCells)  BY <1>2
  <2>2. /\ xy \in Seq(AllCells) /\ Len(xy) = Len(x) + Len(y)
        /\ \A k \in 1 .. Len(x) + Len(y) : xy[k] = IF k <= Len(x) THEN x[k] ELSE y[k - Len(x)]
    BY <2>1
  <2> HIDE DEF xy
  <2> QED BY <1>2, <2>2
<1> HIDE DEF xy
<1>4. ASSUME NEW k \in 1 .. m + n PROVE z[k] = xy[k]
  <2>1. CASE k <= m
    <3>1. k \in 1 .. m  BY <1>1, <2>1
    <3>2. t[k] = s[k]  BY <1>1, <2>1
    <3>3. xy[k] = x[k]  BY <1>3, <2>1
    <3> QED BY <1>2, <3>1, <3>2, <3>3
  <2>2. CASE ~(k <= m)
    <3>1. k - m \in 1 .. n  BY <1>1, <2>2
    <3>2. t[k] = r[k - m]  BY <1>1, <2>2
    <3>3. xy[k] = y[k - m]  BY <1>3, <2>2
    <3> QED BY <1>2, <3>1, <3>2, <3>3
  <2> QED BY <2>1, <2>2
<1>5. z = xy  BY <1>2, <1>3, <1>4, SeqEqual
<1> QED BY <1>1, <1>5 DEF t, x, y, z, xy

-----------------------------------------------------------------------------
(* The inductive invariant.                                                *)

(* Variables have their shapes.                                            *)
Shapes ==
  /\ denseKey \in BOOLEAN /\ buildLeft \in BOOLEAN
  /\ probeColumn \in [ProbeRows -> Keys \cup {Null}]
  /\ numThreads \in Nat \ {0}
  /\ phase \in {"probe", "merge", "finished"}
  /\ nextStart \in Nat
  /\ todo \in [Threads -> (0 .. ProbeSize) \X (0 .. ProbeSize)]
  /\ probing \subseteq Threads
  /\ keyValue \in [Threads -> Keys \cup {Null}]
  /\ entry \in [Threads -> Nat]
  /\ cache \in [Threads -> Keys \cup {Null, Other}]
  /\ writers \in [Threads -> [Columns -> WriterSet(AllCells)]]
  /\ numRows \in [Threads -> Nat]
  /\ merging \in 0 .. numThreads
  /\ results \in [pages : [Columns -> PageLists(AllCells)], numRows : Nat]

(* The chunks of the workers are apart, and end where the next one begins;  *)
(* a worker that left its loop has no rows to do, nor has anybody then to   *)
(* claim some.                                                             *)
Busy(t) == todo[t][1] < todo[t][2]
Chunks ==
  /\ \A t \in Threads : todo[t][1] <= todo[t][2]
  /\ \A t \in Threads \ probing : ~Busy(t) /\ (UseWorkers => ProbeSize <= nextStart)
  /\ UseWorkers => \A t \in Threads : todo[t][2] <= nextStart
  /\ \A t, u \in Threads : t # u /\ Busy(t) /\ Busy(u) =>
       todo[t][2] <= todo[u][1] \/ todo[u][2] <= todo[t][1]

(* A worker looks at the entries of the key of its next row.               *)
Looking ==
  \A t \in Threads : entry[t] # 0 =>
    /\ Busy(t) /\ keyValue[t] = probeColumn[todo[t][1]] /\ keyValue[t] \in Keys
    /\ entry[t] \in 1 .. Len(Entries[keyValue[t]])

Stage ==
  /\ phase = "probe" => merging = 0
  /\ phase # "probe" => probing = {}
  /\ phase = "finished" => merging = numThreads

(* The pairs that are done: those of the rows nobody has to do, and, of the *)
(* rows workers are at, those of the entries they passed.                   *)
ToDo(p) ==
  \/ UseWorkers /\ nextStart <= p
  \/ \E t \in Threads : todo[t][1] <= p /\ p < todo[t][2]
Passed(t, m) ==
  /\ entry[t] # 0 /\ m[2] = todo[t][1]
  /\ \E i \in 1 .. entry[t] - 1 : Entries[probeColumn[m[2]]][i] = m[1]
DonePairs == {m \in Matches : ~ToDo(m[2]) \/ \E t \in Threads : Passed(t, m)}

(* Each worker has written a list of pairs, in every column the same; these *)
(* lists have every pair that is done once, and no other.                   *)
Has(s, m) == \E i \in 1 .. Len(s) : s[i] = m
Wrote(ms) ==
  \A t \in Threads :
    /\ ms[t] \in PairLists /\ numRows[t] = Len(ms[t])
    /\ \A c \in Columns : Spelled(writers[t][c], ColumnOf(c, ms[t]), AllCells) /\ Exact(writers[t][c])
Once(ms) ==
  /\ \A t, u \in Threads : \A i \in 1 .. Len(ms[t]), j \in 1 .. Len(ms[u]) :
       ms[t][i] = ms[u][j] => t = u /\ i = j
  /\ \A m \in Pairs : m \in DonePairs <=> \E t \in Threads : Has(ms[t], m)

(* The result has the pairs of the workers merged so far, each once.        *)
Merged(ms, s) ==
  /\ s \in PairLists /\ results.numRows = Len(s)
  /\ \A c \in Columns : Adds(results.pages[c], <<>>, ColumnOf(c, s), AllCells)
  /\ \A i, j \in 1 .. Len(s) : s[i] = s[j] => i = j
  /\ \A m \in Pairs : Has(s, m) <=> \E t \in Threads : t < merging /\ Has(ms[t], m)

RowsWritten == \E ms, s : Wrote(ms) /\ Once(ms) /\ Merged(ms, s)

RootInv == Shapes /\ Chunks /\ Looking /\ Stage /\ RowsWritten

-----------------------------------------------------------------------------
(* Initially.                                                              *)
LEMMA ZeroThread ==
  ASSUME numThreads \in Nat \ {0}
  PROVE  0 \in Threads /\ \A t \in Threads : t \in Nat /\ t < numThreads
BY DEF Threads

LEMMA RootInit == Init => RootInv
<1> SUFFICES ASSUME Init PROVE RootInv
  OBVIOUS
<1>1. numThreads \in Nat \ {0}
  BY ThreadsPositive DEF Init
<1>2. /\ denseKey \in BOOLEAN /\ buildLeft \in BOOLEAN /\ phase = "probe" /\ nextStart = 0
      /\ probeColumn \in [ProbeRows -> Keys \cup {Null}]
      /\ probing = IF UseWorkers THEN Threads ELSE {0}
      /\ keyValue = [t \in Threads |-> Null] /\ entry = [t \in Threads |-> 0]
      /\ cache = [t \in Threads |-> Other]
      /\ writers = [t \in Threads |-> [c \in Columns |-> NewWriter]]
      /\ numRows = [t \in Threads |-> 0]
      /\ merging = 0 /\ results = [pages |-> [c \in Columns |-> <<>>], numRows |-> 0]
  BY DEF Init
<1>3. \A t \in Threads : todo[t] = <<0, IF UseWorkers THEN 0 ELSE IF t = 0 THEN ProbeSize ELSE 0>>
  BY DEF Init
<1>4. Spelled(NewWriter, <<>>, AllCells) /\ Exact(NewWriter)
  <2>1. 4 \in Int  OBVIOUS
  <2> QED BY <2>1, CellSet, NewSpells DEF NewWriter
<1>5. NewWriter \in WriterSet(AllCells)  BY <1>4 DEF Spelled
<1>6. todo \in [Threads -> (0 .. ProbeSize) \X (0 .. ProbeSize)]
  <2>1. \A t \in Threads : todo[t] \in (0 .. ProbeSize) \X (0 .. ProbeSize)
    BY <1>3, Sizes
  <2>2. todo = [t \in Threads |-> todo[t]]  BY DEF Init
  <2> QED BY <2>1, <2>2
<1>7. Shapes
  <2>1. <<>> \in PageLists(AllCells)  BY DEF PageLists
  <2>2. results \in [pages : [Columns -> PageLists(AllCells)], numRows : Nat]  BY <1>2, <2>1
  <2>3. writers \in [Threads -> [Columns -> WriterSet(AllCells)]]  BY <1>2, <1>5
  <2>4. probing \subseteq Threads  BY <1>1, <1>2, ZeroThread
  <2> QED BY <1>1, <1>2, <1>6, <2>2, <2>3, <2>4 DEF Shapes
<1>8. \A t \in Threads : todo[t][1] = 0 /\ todo[t][2] = IF UseWorkers THEN 0 ELSE IF t = 0 THEN ProbeSize ELSE 0
  BY <1>3
<1>9. Chunks
  BY <1>2, <1>8, Sizes DEF Chunks, Busy
<1>10. Looking /\ Stage
  BY <1>2 DEF Looking, Stage
<1>11. ASSUME NEW p \in ProbeRows PROVE ToDo(p)
  <2>1. p \in Nat /\ 0 <= p /\ p < ProbeSize  BY Sizes DEF ProbeRows
  <2>2. CASE UseWorkers  BY <1>2, <2>1, <2>2 DEF ToDo
  <2>3. CASE ~UseWorkers
    <3>1. 0 \in Threads /\ todo[0][1] = 0 /\ todo[0][2] = ProbeSize  BY <1>1, <1>8, <2>3, ZeroThread
    <3> QED BY <2>1, <3>1 DEF ToDo
  <2> QED BY <2>2, <2>3
<1>12. DonePairs = {}
  <2>1. \A t \in Threads : entry[t] = 0  BY <1>2
  <2>2. \A m \in Matches : m[2] \in ProbeRows  BY DEF Matches
  <2> QED BY <1>11, <2>1, <2>2 DEF DonePairs, Passed
<1> DEFINE none == <<>>
           ms == [t \in Threads |-> none]
<1>13. none \in PairLists /\ Len(none) = 0  BY DEF PairLists
<1>14. \A c : ColumnOf(c, none) = <<>>  BY <1>13 DEF ColumnOf
<1>15. \A t \in Threads : ms[t] = none  OBVIOUS
<1>16. \A m : ~Has(none, m)  BY <1>13 DEF Has
<1> HIDE DEF none, ms
<1>17. Wrote(ms)
  BY <1>2, <1>4, <1>13, <1>14, <1>15 DEF Wrote
<1>18. Once(ms)
  BY <1>12, <1>13, <1>15, <1>16 DEF Once
<1>19. Merged(ms, none)
  <2>1. \A c \in Columns : Adds(results.pages[c], <<>>, <<>>, AllCells)
    <3>1. \A c \in Columns : results.pages[c] = <<>>  BY <1>2
    <3>2. NewWriter.pages = <<>> /\ NewWriter.rows = 0  BY DEF NewWriter, EmptyBuffer
    <3>3. Adds(<<>>, <<>>, <<>>, AllCells)  BY <1>4, <3>2, CellSet, Unbuffered
    <3> QED BY <3>1, <3>3
  <2>2. results.numRows = 0  BY <1>2
  <2> QED BY <1>2, <1>13, <1>14, <1>15, <1>16, <2>1, <2>2 DEF Merged
<1>20. RowsWritten  BY <1>17, <1>18, <1>19 DEF RowsWritten
<1> QED BY <1>7, <1>9, <1>10, <1>20 DEF RootInv

-----------------------------------------------------------------------------
(* What a step leaves alone.                                               *)
LEMMA RowsKept ==
  ASSUME RowsWritten, DonePairs' = DonePairs,
         UNCHANGED <<writers, numRows, merging, results, buildLeft, numThreads>>
  PROVE  RowsWritten'
<1>1. PICK ms, s : Wrote(ms) /\ Once(ms) /\ Merged(ms, s)  BY DEF RowsWritten
<1>2. Threads' = Threads  BY DEF Threads
<1>3. \A c, x : ColumnOf(c, x)' = ColumnOf(c, x)  BY DEF ColumnOf, CellOf, SourceRow
<1>4. Wrote(ms)'  BY <1>1, <1>2, <1>3 DEF Wrote
<1>5. Once(ms)'  BY <1>1, <1>2 DEF Once
<1>6. Merged(ms, s)'  BY <1>1, <1>2, <1>3 DEF Merged
<1> QED BY <1>4, <1>5, <1>6 DEF RowsWritten

LEMMA DoneKept ==
  ASSUME UNCHANGED <<probeColumn, numThreads>>,
         \A m \in Matches : ToDo(m[2])' = ToDo(m[2]),
         \A m \in Matches : \A t \in Threads : Passed(t, m)' = Passed(t, m)
  PROVE  DonePairs' = DonePairs
<1>1. Matches' = Matches /\ Threads' = Threads  BY DEF Matches, Threads
<1> QED BY <1>1 DEF DonePairs

(* The bounds of a worker's chunk.                                         *)
LEMMA ChunkType ==
  ASSUME Shapes, NEW t \in Threads
  PROVE  todo[t][1] \in 0 .. ProbeSize /\ todo[t][2] \in 0 .. ProbeSize /\ todo[t] = <<todo[t][1], todo[t][2]>>
<1>1. todo[t] \in (0 .. ProbeSize) \X (0 .. ProbeSize)  BY DEF Shapes
<1> QED BY <1>1

(* A row that a worker is at is nobody else's, and nobody has to claim it.  *)
LEMMA RowOwned ==
  ASSUME Shapes, Chunks, NEW t \in Threads, Busy(t)
  PROVE  LET p == todo[t][1]
         IN  /\ p \in ProbeRows /\ p \in Nat /\ ~(UseWorkers /\ nextStart <= p) /\ ToDo(p)
             /\ \A u \in Threads \ {t} : ~(todo[u][1] <= p /\ p < todo[u][2])
<1> DEFINE p == todo[t][1]
<1>1. p \in Nat /\ todo[t][2] \in Nat /\ p < todo[t][2] /\ todo[t][2] <= ProbeSize
  BY ChunkType, Sizes DEF Busy
<1>2. p \in ProbeRows  BY <1>1, Sizes DEF ProbeRows
<1>3. ~(UseWorkers /\ nextStart <= p)  BY <1>1 DEF Chunks, Shapes
<1>4. ASSUME NEW u \in Threads \ {t}, todo[u][1] <= p, p < todo[u][2] PROVE FALSE
  <2>1. todo[u][1] \in Nat /\ todo[u][2] \in Nat  BY ChunkType, Sizes
  <2>2. Busy(u)  BY <1>1, <1>4, <2>1 DEF Busy
  <2>3. todo[t][2] <= todo[u][1] \/ todo[u][2] <= todo[t][1]  BY <2>2 DEF Chunks
  <2> QED BY <1>1, <1>4, <2>1, <2>3
<1>5. ToDo(p)  BY <1>1 DEF ToDo
<1> QED BY <1>1, <1>2, <1>3, <1>4, <1>5

-----------------------------------------------------------------------------
(* A chunk is claimed.                                                     *)
LEMMA ClaimChunkInv == ASSUME RootInv, NEW t \in Threads, ClaimChunk(t) PROVE RootInv'
<1>1. Shapes /\ Chunks /\ Looking /\ Stage /\ RowsWritten  BY DEF RootInv
<1>2. /\ phase = "probe" /\ UseWorkers /\ t \in probing /\ todo[t][1] = todo[t][2]
      /\ nextStart' = nextStart + ChunkRows
      /\ UNCHANGED <<inputVars, phase, keyValue, entry, cache, writers, numRows, mergeVars>>
      /\ IF nextStart < ProbeSize
         THEN todo' = [todo EXCEPT ![t] = <<nextStart, ChunkEnd(nextStart)>>] /\ probing' = probing
         ELSE probing' = probing \ {t} /\ todo' = todo
  BY DEF ClaimChunk
<1>3. UNCHANGED <<denseKey, probeColumn, buildLeft, numThreads, merging, results>>
  BY <1>2 DEF inputVars, mergeVars
<1>4. Threads' = Threads /\ UseWorkers' = UseWorkers  BY <1>3 DEF Threads, UseWorkers
<1>5. nextStart \in Nat /\ nextStart' \in Nat /\ nextStart' = nextStart + ChunkRows /\ nextStart <= nextStart'
  BY <1>1, <1>2, Sizes DEF Shapes
<1>6. ~Busy(t)
  <2>1. todo[t][1] \in Nat  BY <1>1, ChunkType, Sizes
  <2> QED BY <1>2, <2>1 DEF Busy
<1>7. entry[t] = 0  BY <1>1, <1>6 DEF Looking
<1> DEFINE end == ChunkEnd(nextStart)
<1>8. nextStart < ProbeSize =>
        /\ end \in 0 .. ProbeSize /\ nextStart \in 0 .. ProbeSize /\ nextStart < end /\ end <= nextStart'
        /\ end = ProbeSize \/ end = nextStart'
  BY <1>5, Sizes DEF ChunkEnd
<1> HIDE DEF end
<1>9. CASE nextStart < ProbeSize
  <2>1. /\ todo' = [todo EXCEPT ![t] = <<nextStart, end>>] /\ probing' = probing
        /\ end \in 0 .. ProbeSize /\ nextStart \in 0 .. ProbeSize
    BY <1>2, <1>8, <1>9 DEF end
  <2>2. /\ todo' \in [Threads -> (0 .. ProbeSize) \X (0 .. ProbeSize)]
        /\ todo'[t] = <<nextStart, end>> /\ \A u \in Threads \ {t} : todo'[u] = todo[u]
    BY <1>1, <2>1 DEF Shapes
  <2>3. /\ todo'[t][1] = nextStart /\ todo'[t][2] = end
        /\ \A u \in Threads \ {t} : todo'[u][1] = todo[u][1] /\ todo'[u][2] = todo[u][2]
    BY <2>2
  <2>4. \A u \in Threads : todo[u][1] \in Nat /\ todo[u][2] \in Nat  BY <1>1, ChunkType, Sizes
  <2>5. Shapes'  BY <1>1, <1>2, <1>3, <1>4, <1>5, <2>1, <2>2 DEF Shapes
  <2>6. (\A u \in Threads \ {t} : Busy(u)' = Busy(u)) /\ Busy(t)'  BY <1>8, <1>9, <2>3 DEF Busy
  <2>7. Chunks'
    <3>1. \A u \in Threads : todo'[u][1] <= todo'[u][2]
      BY <1>1, <1>5, <1>8, <1>9, <2>3 DEF Chunks, end
    <3>2. \A u \in Threads \ probing : ~Busy(u)' /\ ProbeSize <= nextStart'
      BY <1>1, <1>2, <1>5, <1>9, <2>6, Sizes DEF Chunks
    <3>3. \A u \in Threads : todo'[u][2] <= nextStart'
      BY <1>1, <1>2, <1>5, <1>8, <1>9, <2>3, <2>4, Sizes DEF Chunks
    <3>4. ASSUME NEW u \in Threads, NEW x \in Threads, u # x, Busy(u)', Busy(x)'
          PROVE  todo'[u][2] <= todo'[x][1] \/ todo'[x][2] <= todo'[u][1]
      <4>1. CASE u # t /\ x # t
        BY <1>1, <2>3, <2>6, <3>4, <4>1 DEF Chunks
      <4>2. CASE u = t \/ x = t
        BY <1>1, <1>2, <2>3, <3>4, <4>2 DEF Chunks
      <4> QED BY <4>1, <4>2
    <3> QED BY <1>4, <2>1, <3>1, <3>2, <3>3, <3>4 DEF Chunks
  <2>8. Looking'
    <3> SUFFICES ASSUME NEW u \in Threads, entry[u] # 0
                 PROVE  /\ Busy(u)' /\ keyValue[u] = probeColumn[todo'[u][1]] /\ keyValue[u] \in Keys
                        /\ entry[u] \in 1 .. Len(Entries[keyValue[u]])
      BY <1>2, <1>3, <1>4 DEF Looking
    <3> QED BY <1>1, <1>7, <2>3, <2>6 DEF Looking
  <2>9. DonePairs' = DonePairs
    <3>1. ASSUME NEW m \in Matches PROVE ToDo(m[2])' = ToDo(m[2])
      <4> DEFINE p == m[2]
      <4>1. p \in Nat /\ p < ProbeSize  BY Sizes DEF Matches, ProbeRows
      <4>2. ~(todo[t][1] <= p /\ p < todo[t][2])
        <5>1. todo[t][1] \in Nat  BY <2>4
        <5> QED BY <1>2, <4>1, <5>1
      <4> HIDE DEF p
      <4>3. (todo'[t][1] <= p /\ p < todo'[t][2]) \/ nextStart' <= p <=> nextStart <= p
        BY <1>5, <1>8, <1>9, <2>3, <4>1, Sizes
      <4>4. \A u \in Threads \ {t} : (todo'[u][1] <= p /\ p < todo'[u][2]) <=> (todo[u][1] <= p /\ p < todo[u][2])
        BY <2>3
      <4>5. ToDo(p)' <=> nextStart' <= p \/ \E u \in Threads : todo'[u][1] <= p /\ p < todo'[u][2]
        <5>1. UseWorkers'  BY <1>2, <1>4
        <5>2. p' = p  BY DEF p
        <5> QED BY <1>4, <5>1, <5>2 DEF ToDo
      <4>6. ToDo(p) <=> nextStart <= p \/ \E u \in Threads : todo[u][1] <= p /\ p < todo[u][2]
        BY <1>2 DEF ToDo
      <4>7. ToDo(p)' <=> ToDo(p)  BY <4>2, <4>3, <4>4, <4>5, <4>6
      <4> QED BY <4>7 DEF p, ToDo
    <3>2. ASSUME NEW m \in Matches, NEW u \in Threads PROVE Passed(u, m)' = Passed(u, m)
      <4>1. entry' = entry /\ probeColumn' = probeColumn /\ (u # t => todo'[u][1] = todo[u][1])
        BY <1>2, <1>3, <2>3
      <4> QED BY <1>7, <4>1 DEF Passed
    <3> QED BY <1>3, <3>1, <3>2, DoneKept
  <2>10. RowsWritten'  BY <1>1, <1>2, <1>3, <2>9, RowsKept
  <2>11. Stage'  BY <1>1, <1>2, <1>3, <2>1 DEF Stage
  <2> QED BY <2>5, <2>7, <2>8, <2>10, <2>11 DEF RootInv
<1>10. CASE ~(nextStart < ProbeSize)
  <2>1. todo' = todo /\ probing' = probing \ {t} /\ ProbeSize <= nextStart
    BY <1>2, <1>5, <1>10, Sizes
  <2>2. Shapes'  BY <1>1, <1>2, <1>3, <1>4, <1>5, <2>1 DEF Shapes
  <2>3. \A u : Busy(u)' = Busy(u)  BY <2>1 DEF Busy
  <2>4. Chunks'
    <3>1. \A u \in Threads \ probing' : ~Busy(u)' /\ ProbeSize <= nextStart'
      BY <1>1, <1>5, <1>6, <2>1, <2>3, Sizes DEF Chunks
    <3>2. \A u \in Threads : todo'[u][2] <= nextStart'
      <4>1. \A u \in Threads : todo[u][2] \in Nat  BY <1>1, ChunkType, Sizes
      <4> QED BY <1>1, <1>2, <1>5, <2>1, <4>1, Sizes DEF Chunks
    <3> QED BY <1>1, <1>4, <2>1, <2>3, <3>1, <3>2 DEF Chunks
  <2>5. Looking'
    BY <1>1, <1>2, <1>3, <1>4, <2>1, <2>3 DEF Looking
  <2>6. DonePairs' = DonePairs
    <3>1. ASSUME NEW m \in Matches PROVE ToDo(m[2])' = ToDo(m[2])
      <4>1. m[2] \in Nat /\ m[2] < ProbeSize  BY Sizes DEF Matches, ProbeRows
      <4>2. ~(nextStart <= m[2]) /\ ~(nextStart' <= m[2])  BY <1>5, <2>1, <4>1, Sizes
      <4> QED BY <1>4, <2>1, <4>2 DEF ToDo
    <3>2. ASSUME NEW m \in Matches, NEW u \in Threads PROVE Passed(u, m)' = Passed(u, m)
      BY <1>2, <1>3, <2>1 DEF Passed
    <3> QED BY <1>3, <3>1, <3>2, DoneKept
  <2>7. RowsWritten'  BY <1>1, <1>2, <1>3, <2>6, RowsKept
  <2>8. Stage'  BY <1>1, <1>2, <1>3, <2>1 DEF Stage
  <2> QED BY <2>2, <2>4, <2>5, <2>7, <2>8 DEF RootInv
<1> QED BY <1>9, <1>10

-----------------------------------------------------------------------------
(* Nothing changes that the rows depend on.                                *)
LEMMA ClaimsKept ==
  ASSUME Chunks, Looking, RowsWritten,
         UNCHANGED <<inputVars, nextStart, todo, keyValue, entry, writers, numRows, mergeVars>>
  PROVE  /\ Looking' /\ RowsWritten' /\ Threads' = Threads /\ UseWorkers' = UseWorkers
         /\ \A t \in Threads : Busy(t)' = Busy(t)
<1>1. UNCHANGED <<denseKey, probeColumn, buildLeft, numThreads, merging, results>>
  BY DEF inputVars, mergeVars
<1>2. Threads' = Threads /\ UseWorkers' = UseWorkers  BY <1>1 DEF Threads, UseWorkers
<1>3. \A t : Busy(t)' = Busy(t)  BY DEF Busy
<1>4. Looking'  BY <1>1, <1>2, <1>3 DEF Looking
<1>5. \A m \in Matches : ToDo(m[2])' = ToDo(m[2])  BY <1>2 DEF ToDo
<1>6. \A m \in Matches : \A t \in Threads : Passed(t, m)' = Passed(t, m)  BY <1>1 DEF Passed
<1>7. DonePairs' = DonePairs  BY <1>1, <1>5, <1>6, DoneKept
<1>8. RowsWritten'  BY <1>1, <1>7, RowsKept
<1> QED BY <1>2, <1>3, <1>4, <1>8

(* The caller's loop over all rows ends.                                   *)
LEMMA LastRowInv == ASSUME RootInv, LastRow PROVE RootInv'
<1>1. Shapes /\ Chunks /\ Looking /\ Stage /\ RowsWritten  BY DEF RootInv
<1>2. /\ phase = "probe" /\ ~UseWorkers /\ probing = {0} /\ todo[0][1] = todo[0][2] /\ probing' = {}
      /\ UNCHANGED <<inputVars, phase, nextStart, todo, keyValue, entry, cache, writers, numRows, mergeVars>>
  BY DEF LastRow, probeVars
<1>3. /\ Looking' /\ RowsWritten' /\ Threads' = Threads /\ UseWorkers' = UseWorkers
      /\ \A t \in Threads : Busy(t)' = Busy(t)
  BY <1>1, <1>2, ClaimsKept
<1>4. Shapes'  BY <1>1, <1>2, <1>3 DEF Shapes, inputVars, mergeVars
<1>5. Chunks'
  <2>1. 0 \in Threads  BY <1>1, ZeroThread DEF Shapes
  <2>2. todo[0][1] \in Nat  BY <1>1, <2>1, ChunkType, Sizes
  <2>3. ~Busy(0)  BY <1>2, <2>2 DEF Busy
  <2>4. \A t \in Threads : ~Busy(t)  BY <1>1, <1>2, <2>3 DEF Chunks
  <2> QED BY <1>1, <1>2, <1>3, <2>4 DEF Chunks
<1>6. Stage'  BY <1>1, <1>2 DEF Stage, mergeVars
<1> QED BY <1>3, <1>4, <1>5, <1>6 DEF RootInv

LEMMA JoinWorkersInv == ASSUME RootInv, JoinWorkers PROVE RootInv'
<1>1. Shapes /\ Chunks /\ Looking /\ Stage /\ RowsWritten  BY DEF RootInv
<1>2. /\ phase = "probe" /\ probing = {} /\ phase' = "merge" /\ probing' = probing
      /\ UNCHANGED <<inputVars, nextStart, todo, keyValue, entry, cache, writers, numRows, mergeVars>>
  BY DEF JoinWorkers, probeVars, claimVars
<1>3. /\ Looking' /\ RowsWritten' /\ Threads' = Threads /\ UseWorkers' = UseWorkers
      /\ \A t \in Threads : Busy(t)' = Busy(t)
  BY <1>1, <1>2, ClaimsKept
<1>4. Shapes'  BY <1>1, <1>2, <1>3 DEF Shapes, inputVars, mergeVars
<1>5. Chunks'  BY <1>1, <1>2, <1>3 DEF Chunks
<1>6. Stage'  BY <1>1, <1>2 DEF Stage, mergeVars
<1> QED BY <1>3, <1>4, <1>5, <1>6 DEF RootInv

LEMMA MergeDoneInv == ASSUME RootInv, MergeDone PROVE RootInv'
<1>1. Shapes /\ Chunks /\ Looking /\ Stage /\ RowsWritten  BY DEF RootInv
<1>2. /\ phase = "merge" /\ merging = numThreads /\ phase' = "finished" /\ probing' = probing
      /\ UNCHANGED <<inputVars, nextStart, todo, keyValue, entry, cache, writers, numRows, mergeVars>>
  BY DEF MergeDone, probeVars, claimVars
<1>3. /\ Looking' /\ RowsWritten' /\ Threads' = Threads /\ UseWorkers' = UseWorkers
      /\ \A t \in Threads : Busy(t)' = Busy(t)
  BY <1>1, <1>2, ClaimsKept
<1>4. Shapes'  BY <1>1, <1>2, <1>3 DEF Shapes, inputVars, mergeVars
<1>5. Chunks'  BY <1>1, <1>2, <1>3 DEF Chunks
<1>6. Stage'  BY <1>1, <1>2 DEF Stage, mergeVars, inputVars
<1> QED BY <1>3, <1>4, <1>5, <1>6 DEF RootInv

-----------------------------------------------------------------------------
(* A worker steps to its next row.                                         *)
LEMMA NextRowFacts ==
  ASSUME Shapes, Chunks, NEW t \in Threads, Busy(t), NextRow(t)
  PROVE  /\ todo' \in [Threads -> (0 .. ProbeSize) \X (0 .. ProbeSize)]
         /\ \A u \in Threads : todo'[u][2] = todo[u][2]
         /\ \A u \in Threads : todo'[u][1] = IF u = t THEN todo[u][1] + 1 ELSE todo[u][1]
         /\ \A u \in Threads \ {t} : Busy(u)' = Busy(u)
<1>1. /\ todo[t][1] \in Nat /\ todo[t][2] \in Nat /\ todo[t][1] < todo[t][2] /\ todo[t][2] <= ProbeSize
      /\ todo[t] = <<todo[t][1], todo[t][2]>>
  BY ChunkType, Sizes DEF Busy
<1> DEFINE a == todo[t][1]
           b == todo[t][2]
<1>2. todo' = [todo EXCEPT ![t] = <<a + 1, b>>]
  <2>1. todo' = [todo EXCEPT ![t] = [todo[t] EXCEPT ![1] = @ + 1]]  BY DEF NextRow
  <2>2. [todo[t] EXCEPT ![1] = @ + 1] = <<a + 1, b>>
    <3>1. todo[t] = <<a, b>>  BY <1>1
    <3> HIDE DEF a, b
    <3>2. [<<a, b>> EXCEPT ![1] = @ + 1] = <<a + 1, b>>  OBVIOUS
    <3> QED BY <3>1, <3>2
  <2> QED BY <2>1, <2>2
<1>3. a + 1 \in 0 .. ProbeSize /\ b \in 0 .. ProbeSize  BY <1>1, Sizes
<1> HIDE DEF a, b
<1>4. /\ todo' \in [Threads -> (0 .. ProbeSize) \X (0 .. ProbeSize)]
      /\ todo'[t] = <<a + 1, b>> /\ \A u \in Threads \ {t} : todo'[u] = todo[u]
  BY <1>2, <1>3 DEF Shapes
<1>5. todo'[t][1] = a + 1 /\ todo'[t][2] = b  BY <1>4
<1>6. \A u \in Threads \ {t} : Busy(u)' = Busy(u)  BY <1>4 DEF Busy
<1> QED BY <1>4, <1>5, <1>6 DEF a, b

LEMMA ChunksStep ==
  ASSUME Shapes, Chunks, NEW t \in Threads, Busy(t), NextRow(t),
         UNCHANGED <<inputVars, nextStart, probing>>
  PROVE  Chunks'
<1>1. Threads' = Threads /\ UseWorkers' = UseWorkers  BY DEF Threads, UseWorkers, inputVars
<1>2. /\ \A u \in Threads : todo'[u][2] = todo[u][2]
      /\ \A u \in Threads : todo'[u][1] = IF u = t THEN todo[u][1] + 1 ELSE todo[u][1]
      /\ \A u \in Threads \ {t} : Busy(u)' = Busy(u)
  BY NextRowFacts
<1>3. \A u \in Threads : todo[u][1] \in Nat /\ todo[u][2] \in Nat  BY ChunkType, Sizes
<1>4. \A u \in Threads : todo'[u][1] <= todo'[u][2]
  BY <1>2, <1>3 DEF Chunks, Busy
<1>5. t \in probing  BY DEF Chunks
<1>6. \A u \in Threads \ probing : ~Busy(u)' /\ (UseWorkers => ProbeSize <= nextStart)
  BY <1>2, <1>5 DEF Chunks
<1>7. UseWorkers => \A u \in Threads : todo'[u][2] <= nextStart  BY <1>2 DEF Chunks
<1>8. ASSUME NEW u \in Threads, NEW x \in Threads, u # x, Busy(u)', Busy(x)'
      PROVE  todo'[u][2] <= todo'[x][1] \/ todo'[x][2] <= todo'[u][1]
  <2>1. Busy(u) /\ Busy(x)  BY <1>2, <1>8
  <2>2. todo[u][2] <= todo[x][1] \/ todo[x][2] <= todo[u][1]  BY <1>8, <2>1 DEF Chunks
  <2> QED BY <1>2, <1>3, <2>2
<1> QED BY <1>1, <1>4, <1>6, <1>7, <1>8 DEF Chunks

(* The row it leaves has nobody to do it, and no other row changes.         *)
LEMMA RowLeft ==
  ASSUME Shapes, Chunks, NEW t \in Threads, Busy(t), NextRow(t), NEW q \in Nat, q = todo[t][1],
         UNCHANGED <<inputVars, nextStart>>
  PROVE  ~ToDo(q)' /\ \A p \in ProbeRows : p # q => ToDo(p)' = ToDo(p)
<1>1. Threads' = Threads /\ UseWorkers' = UseWorkers  BY DEF Threads, UseWorkers, inputVars
<1>2. /\ \A u \in Threads : todo'[u][2] = todo[u][2]
      /\ \A u \in Threads : todo'[u][1] = IF u = t THEN todo[u][1] + 1 ELSE todo[u][1]
  BY NextRowFacts
<1>3. \A u \in Threads : todo[u][1] \in Nat /\ todo[u][2] \in Nat  BY ChunkType, Sizes
<1>4. /\ ~(UseWorkers /\ nextStart <= q)
      /\ \A u \in Threads \ {t} : ~(todo[u][1] <= q /\ q < todo[u][2])
  BY RowOwned
<1>5. ASSUME NEW p \in Nat
      PROVE  ToDo(p)' <=> \/ UseWorkers /\ nextStart <= p
                          \/ \E u \in Threads : todo'[u][1] <= p /\ p < todo[u][2]
  BY <1>1, <1>2 DEF ToDo
<1>6. ~ToDo(q)'
  <2>1. ~(\E u \in Threads : todo'[u][1] <= q /\ q < todo[u][2])
    BY <1>2, <1>3, <1>4
  <2> QED BY <1>4, <1>5, <2>1
<1>7. ASSUME NEW p \in ProbeRows, p # q PROVE ToDo(p)' = ToDo(p)
  <2>1. p \in Nat  BY Sizes DEF ProbeRows
  <2>2. \A u \in Threads : (todo'[u][1] <= p /\ p < todo[u][2]) <=> (todo[u][1] <= p /\ p < todo[u][2])
    BY <1>2, <1>3, <1>7, <2>1
  <2>3. ToDo(p)' <=> ToDo(p)  BY <1>5, <2>1, <2>2 DEF ToDo
  <2> QED BY <2>3 DEF ToDo
<1> QED BY <1>6, <1>7

(* A key is read.                                                          *)
LEMMA ReadKeyInv == ASSUME RootInv, NEW t \in Threads, ReadKey(t) PROVE RootInv'
<1>1. Shapes /\ Chunks /\ Looking /\ Stage /\ RowsWritten  BY DEF RootInv
<1>2. PICK q, k : q = todo[t][1] /\ k = probeColumn[todo[t][1]]  OBVIOUS
<1>3. /\ phase = "probe" /\ Busy(t) /\ entry[t] = 0
      /\ cache' = (IF denseKey THEN [cache EXCEPT ![t] = k] ELSE cache)
      /\ keyValue' = [keyValue EXCEPT ![t] = k]
      /\ IF k = Null \/ Entries[k] = <<>> THEN NextRow(t) /\ entry' = entry
         ELSE entry' = [entry EXCEPT ![t] = 1] /\ todo' = todo
      /\ UNCHANGED <<inputVars, phase, nextStart, probing, writers, numRows, mergeVars>>
  <2>1. ReadKey(t) <=>
          /\ phase = "probe" /\ todo[t][1] < todo[t][2] /\ entry[t] = 0
          /\ cache' = (IF denseKey THEN [cache EXCEPT ![t] = k] ELSE cache)
          /\ keyValue' = [keyValue EXCEPT ![t] = k]
          /\ (IF k = Null THEN NextRow(t) /\ UNCHANGED entry
              ELSE IF Entries[k] = <<>> THEN NextRow(t) /\ UNCHANGED entry
              ELSE entry' = [entry EXCEPT ![t] = 1] /\ UNCHANGED todo)
          /\ UNCHANGED <<inputVars, phase, claimVars, writers, numRows, mergeVars>>
    BY <1>2 DEF ReadKey
  <2> QED BY <2>1 DEF Busy, claimVars
<1>4. UNCHANGED <<denseKey, probeColumn, buildLeft, numThreads, merging, results>>
  BY <1>3 DEF inputVars, mergeVars
<1>5. Threads' = Threads /\ UseWorkers' = UseWorkers  BY <1>4 DEF Threads, UseWorkers
<1>6. q \in ProbeRows /\ q \in Nat /\ k \in Keys \cup {Null}
  BY <1>1, <1>2, <1>3, RowOwned DEF Shapes
<1>7. /\ keyValue' \in [Threads -> Keys \cup {Null}] /\ cache' \in [Threads -> Keys \cup {Null, Other}]
      /\ keyValue'[t] = k /\ \A u \in Threads \ {t} : keyValue'[u] = keyValue[u]
  BY <1>1, <1>3, <1>6 DEF Shapes
<1>8. CASE k = Null \/ Entries[k] = <<>>
  <2>1. NextRow(t) /\ entry' = entry  BY <1>3, <1>8
  <2>2. /\ todo' \in [Threads -> (0 .. ProbeSize) \X (0 .. ProbeSize)]
        /\ \A u \in Threads : todo'[u][1] = IF u = t THEN todo[u][1] + 1 ELSE todo[u][1]
        /\ \A u \in Threads \ {t} : Busy(u)' = Busy(u)
    BY <1>1, <1>3, <2>1, NextRowFacts
  <2>3. Shapes'  BY <1>1, <1>3, <1>4, <1>5, <1>7, <2>1, <2>2 DEF Shapes
  <2>4. Chunks'  BY <1>1, <1>3, <2>1, ChunksStep
  <2>5. Looking'
    <3> SUFFICES ASSUME NEW u \in Threads, entry[u] # 0
                 PROVE  /\ Busy(u)' /\ keyValue'[u] = probeColumn[todo'[u][1]] /\ keyValue'[u] \in Keys
                        /\ entry[u] \in 1 .. Len(Entries[keyValue'[u]])
      BY <1>4, <1>5, <2>1 DEF Looking
    <3>1. u # t  BY <1>3
    <3> QED BY <1>1, <1>7, <2>2, <3>1 DEF Looking
  <2>6. \A m \in Matches : m[2] \in ProbeRows /\ m[2] # q
    <3> SUFFICES ASSUME NEW m \in Matches, m[2] = q PROVE FALSE
      BY DEF Matches
    <3>1. m[1] \in BuildRows /\ BuildKey[m[1]] = k  BY <1>2 DEF Matches
    <3>2. BuildKey[m[1]] \in Keys /\ Null \notin Keys  BY <3>1, RootAssumption DEF RootAssumption
    <3>3. Entries[k] = <<>> /\ k \in Keys  BY <1>8, <3>1, <3>2
    <3>4. \E i \in DOMAIN Entries[k] : Entries[k][i] = m[1]
      BY <3>1, <3>3, EntriesAssumption DEF EntriesAssumption
    <3> QED BY <3>3, <3>4
  <2>7. \A m \in Matches : ToDo(m[2])' = ToDo(m[2])
    BY <1>1, <1>2, <1>3, <1>6, <2>1, <2>6, RowLeft
  <2>8. ASSUME NEW m \in Matches, NEW u \in Threads PROVE Passed(u, m)' = Passed(u, m)
    <3>1. u # t => todo'[u][1] = todo[u][1]  BY <2>2
    <3> QED BY <1>3, <1>4, <2>1, <3>1 DEF Passed
  <2>9. DonePairs' = DonePairs  BY <1>4, <2>7, <2>8, DoneKept
  <2>10. RowsWritten'  BY <1>1, <1>3, <1>4, <2>9, RowsKept
  <2>11. Stage'  BY <1>1, <1>3, <1>4 DEF Stage
  <2> QED BY <2>3, <2>4, <2>5, <2>10, <2>11 DEF RootInv
<1>9. CASE ~(k = Null \/ Entries[k] = <<>>)
  <2>1. entry' = [entry EXCEPT ![t] = 1] /\ todo' = todo /\ k \in Keys  BY <1>3, <1>6, <1>9
  <2>2. /\ entry' \in [Threads -> Nat] /\ entry'[t] = 1
        /\ \A u \in Threads \ {t} : entry'[u] = entry[u]
    BY <1>1, <2>1 DEF Shapes
  <2>3. Shapes'  BY <1>1, <1>3, <1>4, <1>5, <1>7, <2>1, <2>2 DEF Shapes
  <2>4. \A u : Busy(u)' = Busy(u)  BY <2>1 DEF Busy
  <2>5. Chunks'  BY <1>1, <1>3, <1>5, <2>1, <2>4 DEF Chunks
  <2>6. Looking'
    <3> SUFFICES ASSUME NEW u \in Threads, entry'[u] # 0
                 PROVE  /\ Busy(u) /\ keyValue'[u] = probeColumn[todo[u][1]] /\ keyValue'[u] \in Keys
                        /\ entry'[u] \in 1 .. Len(Entries[keyValue'[u]])
      BY <1>4, <1>5, <2>1, <2>4 DEF Looking
    <3>1. CASE u # t  BY <1>1, <1>7, <2>2, <3>1 DEF Looking
    <3>2. CASE u = t
      <4>1. Entries[k] \in Seq(BuildRows)  BY <2>1, EntriesAssumption DEF EntriesAssumption
      <4>2. 1 \in 1 .. Len(Entries[k])  BY <1>9, <4>1
      <4> QED BY <1>2, <1>3, <1>7, <2>1, <2>2, <3>2, <4>2
    <3> QED BY <3>1, <3>2
  <2>7. \A m \in Matches : ToDo(m[2])' = ToDo(m[2])  BY <1>3, <1>5, <2>1 DEF ToDo
  <2>8. ASSUME NEW m \in Matches, NEW u \in Threads PROVE Passed(u, m)' = Passed(u, m)
    <3>1. CASE u # t  BY <1>4, <2>1, <2>2, <3>1 DEF Passed
    <3>2. CASE u = t
      <4>1. ~Passed(u, m)  BY <1>3, <3>2 DEF Passed
      <4>2. ~Passed(u, m)'
        <5>1. \A i : ~(i \in 1 .. entry'[u] - 1)  BY <2>2, <3>2
        <5> QED BY <5>1 DEF Passed
      <4> QED BY <4>1, <4>2 DEF Passed
    <3> QED BY <3>1, <3>2
  <2>9. DonePairs' = DonePairs  BY <1>4, <2>7, <2>8, DoneKept
  <2>10. RowsWritten'  BY <1>1, <1>3, <1>4, <2>9, RowsKept
  <2>11. Stage'  BY <1>1, <1>3, <1>4 DEF Stage
  <2> QED BY <2>3, <2>5, <2>6, <2>10, <2>11 DEF RootInv
<1> QED BY <1>8, <1>9

-----------------------------------------------------------------------------
(* An entry is probed.                                                     *)
LEMMA EntryFacts ==
  ASSUME Shapes, Chunks, Looking, NEW t \in Threads, entry[t] # 0,
         NEW k, k = keyValue[t], NEW i, i = entry[t], NEW e, e = Entries[k][i], NEW p, p = todo[t][1]
  PROVE  /\ k \in Keys /\ probeColumn[p] = k /\ p \in ProbeRows /\ p \in Nat
         /\ Entries[k] \in Seq(BuildRows) /\ i \in 1 .. Len(Entries[k]) /\ e \in BuildRows
         /\ <<e, p>> \in Pairs /\ Busy(t) /\ ToDo(p)
         /\ \A u \in Threads \ {t} : entry[u] # 0 => todo[u][1] # p
         /\ BuildKey[e] = k => <<e, p>> \in Matches /\ <<e, p>> \notin DonePairs
<1>1. Busy(t) /\ k = probeColumn[p] /\ k \in Keys /\ i \in 1 .. Len(Entries[k])
  BY DEF Looking
<1>2. p \in ProbeRows /\ p \in Nat /\ ToDo(p) /\ \A u \in Threads \ {t} : ~(todo[u][1] <= p /\ p < todo[u][2])
  BY <1>1, RowOwned
<1>3. Entries[k] \in Seq(BuildRows)  BY <1>1, EntriesAssumption DEF EntriesAssumption
<1>4. e \in BuildRows /\ <<e, p>> \in Pairs  BY <1>1, <1>2, <1>3 DEF Pairs
<1>5. \A u \in Threads \ {t} : entry[u] # 0 => todo[u][1] # p
  <2> SUFFICES ASSUME NEW u \in Threads \ {t}, entry[u] # 0, todo[u][1] = p PROVE FALSE
    OBVIOUS
  <2>1. Busy(u)  BY DEF Looking
  <2> QED BY <1>2, <2>1 DEF Busy
<1>6. ASSUME BuildKey[e] = k PROVE <<e, p>> \in Matches /\ <<e, p>> \notin DonePairs
  <2>1. <<e, p>> \in Matches  BY <1>1, <1>4, <1>6 DEF Matches, Pairs
  <2>2. ASSUME NEW u \in Threads, Passed(u, <<e, p>>) PROVE FALSE
    <3>1. u = t  BY <1>5, <2>2 DEF Passed
    <3>2. PICK j \in 1 .. i - 1 : Entries[k][j] = e  BY <1>1, <2>2, <3>1 DEF Passed
    <3>3. j \in DOMAIN Entries[k] /\ i \in DOMAIN Entries[k] /\ j # i  BY <1>1, <1>3, <3>2
    <3> QED BY <1>1, <1>6, <3>2, <3>3, EntriesAssumption DEF EntriesAssumption
  <2> QED BY <1>2, <2>1, <2>2 DEF DonePairs
<1> QED BY <1>1, <1>2, <1>3, <1>4, <1>5, <1>6

(* Probing an entry does its pair, if it is one.                           *)
LEMMA EntryDone ==
  ASSUME Shapes, Chunks, Looking, NEW t \in Threads, entry[t] # 0,
         NEW k, k = keyValue[t], NEW i, i = entry[t], NEW e, e = Entries[k][i], NEW p, p = todo[t][1],
         \/ i < Len(Entries[k]) /\ entry' = [entry EXCEPT ![t] = i + 1] /\ todo' = todo
         \/ ~(i < Len(Entries[k])) /\ entry' = [entry EXCEPT ![t] = 0] /\ NextRow(t),
         UNCHANGED <<inputVars, nextStart>>
  PROVE  \A m \in Pairs : m \in DonePairs' <=> m \in DonePairs \/ (BuildKey[e] = k /\ m = <<e, p>>)
<1> DEFINE found == Entries[k]
<1>1. /\ k \in Keys /\ probeColumn[p] = k /\ p \in ProbeRows /\ p \in Nat /\ found \in Seq(BuildRows)
      /\ i \in 1 .. Len(found) /\ e \in BuildRows /\ Busy(t) /\ ToDo(p)
      /\ \A u \in Threads \ {t} : entry[u] # 0 => todo[u][1] # p
      /\ BuildKey[e] = k => <<e, p>> \in Matches /\ <<e, p>> \notin DonePairs
  BY EntryFacts
<1>2. UNCHANGED <<probeColumn, numThreads>>  BY DEF inputVars
<1>3. Matches' = Matches /\ Threads' = Threads /\ UseWorkers' = UseWorkers
  BY <1>2 DEF Matches, Threads, UseWorkers
<1>4. \A m \in Matches : m \in Pairs /\ m = <<m[1], m[2]>> /\ m[2] \in ProbeRows /\ BuildKey[m[1]] = probeColumn[m[2]]
  BY DEF Matches, Pairs
<1>5. \A m : m \in DonePairs <=> m \in Matches /\ (~ToDo(m[2]) \/ \E u \in Threads : Passed(u, m))
  BY DEF DonePairs
<1>6. \A m : m \in DonePairs' <=> m \in Matches /\ (~ToDo(m[2])' \/ \E u \in Threads : Passed(u, m)')
  BY <1>3 DEF DonePairs
<1>7. \A m : Passed(t, m) <=> m[2] = p /\ \E j \in 1 .. i - 1 : Entries[probeColumn[m[2]]][j] = m[1]
  BY DEF Passed
<1>8. \A u \in Threads \ {t} : entry'[u] = entry[u]  BY DEF Shapes
<1>9. ASSUME NEW m \in Matches
      PROVE  (~ToDo(m[2])' \/ \E u \in Threads : Passed(u, m)')
               <=> (~ToDo(m[2]) \/ \E u \in Threads : Passed(u, m)) \/ (BuildKey[e] = k /\ m = <<e, p>>)
  <2>1. CASE i < Len(found)
    <3>1. entry' = [entry EXCEPT ![t] = i + 1] /\ todo' = todo  BY <2>1
    <3>2. entry'[t] = i + 1 /\ i + 1 # 0 /\ (i + 1) - 1 = i  BY <1>1, <3>1 DEF Shapes
    <3>3. ToDo(m[2])' <=> ToDo(m[2])  BY <1>3, <3>1 DEF ToDo
    <3>4. \A u \in Threads \ {t} : Passed(u, m)' <=> Passed(u, m)  BY <1>2, <1>8, <3>1 DEF Passed
    <3>5. Passed(t, m)' <=> m[2] = p /\ \E j \in 1 .. i : Entries[probeColumn[m[2]]][j] = m[1]
      BY <1>2, <3>1, <3>2 DEF Passed
    <3>6. Passed(t, m)' <=> Passed(t, m) \/ m = <<e, p>>
      <4>1. \A j \in 1 .. i : j = i \/ j \in 1 .. i - 1  BY <1>1
      <4>2. i \in 1 .. i /\ \A j \in 1 .. i - 1 : j \in 1 .. i  BY <1>1
      <4>3. m = <<e, p>> <=> m[2] = p /\ m[1] = e  BY <1>4
      <4>4. m[2] = p => (Entries[probeColumn[m[2]]][i] = m[1] <=> m[1] = e)  BY <1>1
      <4> QED BY <1>7, <3>5, <4>1, <4>2, <4>3, <4>4
    <3>7. m = <<e, p>> => BuildKey[e] = k  BY <1>1, <1>4
    <3> QED BY <3>3, <3>4, <3>6, <3>7
  <2>2. CASE ~(i < Len(found))
    <3>1. entry' = [entry EXCEPT ![t] = 0] /\ NextRow(t) /\ i = Len(found)  BY <1>1, <2>2
    <3>2. entry'[t] = 0  BY <3>1 DEF Shapes
    <3>3. ~ToDo(p)' /\ \A q \in ProbeRows : q # p => ToDo(q)' = ToDo(q)
      BY <1>1, <3>1, RowLeft
    <3>4. CASE m[2] = p
      <4>1. ~ToDo(m[2])'  BY <3>3, <3>4
      <4>2. Passed(t, m) \/ (BuildKey[e] = k /\ m = <<e, p>>)
        <5>1. m[1] \in BuildRows /\ BuildKey[m[1]] = k  BY <1>1, <1>4, <3>4 DEF Pairs
        <5>2. PICK j \in DOMAIN found : found[j] = m[1]  BY <1>1, <5>1, EntriesAssumption DEF EntriesAssumption
        <5>3. j \in 1 .. i - 1 \/ j = i  BY <1>1, <3>1, <5>2
        <5>4. j \in 1 .. i - 1 => Passed(t, m)  BY <1>1, <1>7, <3>4, <5>2
        <5>5. j = i => m = <<e, p>>  BY <1>4, <3>4, <5>2
        <5> QED BY <5>1, <5>3, <5>4, <5>5
      <4> QED BY <4>1, <4>2
    <3>5. CASE m[2] # p
      <4>1. ToDo(m[2])' <=> ToDo(m[2])  BY <1>4, <3>3, <3>5
      <4>2. ~Passed(t, m) /\ ~Passed(t, m)'  BY <1>7, <3>2, <3>5 DEF Passed
      <4>3. ASSUME NEW u \in Threads \ {t} PROVE Passed(u, m)' <=> Passed(u, m)
        <5>1. todo'[u][1] = todo[u][1]  BY <1>1, <3>1, NextRowFacts
        <5> QED BY <1>2, <1>8, <5>1 DEF Passed
      <4>4. m # <<e, p>>  BY <3>5
      <4> QED BY <4>1, <4>2, <4>3, <4>4
    <3> QED BY <3>4, <3>5
  <2> QED BY <2>1, <2>2
<1> QED BY <1>1, <1>5, <1>6, <1>9

(* The pair's row is written.                                              *)
LEMMA RowsExtended ==
  ASSUME Shapes, RowsWritten, merging = 0, NEW t \in Threads, NEW m \in Pairs, m \notin DonePairs,
         \A x \in Pairs : x \in DonePairs' <=> x \in DonePairs \/ x = m,
         writers' = [writers EXCEPT ![t] = [c \in Columns |-> InsertValue(writers[t][c], CellOf(c, m))]],
         numRows' = [numRows EXCEPT ![t] = numRows[t] + 1],
         UNCHANGED <<merging, results, buildLeft, numThreads>>
  PROVE  RowsWritten' /\ writers' \in [Threads -> [Columns -> WriterSet(AllCells)]]
<1>1. PICK ms, s : Wrote(ms) /\ Once(ms) /\ Merged(ms, s)  BY DEF RowsWritten
<1>2. PICK more : more = Append(ms[t], m)  OBVIOUS
<1>3. PICK ns : ns = [u \in Threads |-> IF u = t THEN more ELSE ms[u]]  OBVIOUS
<1>4. Threads' = Threads  BY DEF Threads
<1>5. \A c, x : ColumnOf(c, x)' = ColumnOf(c, x)  BY DEF ColumnOf, CellOf, SourceRow
<1>6. ms[t] \in PairLists /\ numRows[t] = Len(ms[t])  BY <1>1 DEF Wrote
<1>7. /\ more \in PairLists /\ Len(more) = Len(ms[t]) + 1 /\ more[Len(ms[t]) + 1] = m
      /\ \A i \in 1 .. Len(ms[t]) : more[i] = ms[t][i]
  BY <1>6, <1>2 DEF PairLists
<1>8. Len(ms[t]) \in Nat /\ \A i \in 1 .. Len(more) : i \in 1 .. Len(ms[t]) \/ i = Len(ms[t]) + 1
  BY <1>6, <1>7 DEF PairLists
<1>9. \A c \in Columns : ColumnOf(c, more) = Append(ColumnOf(c, ms[t]), CellOf(c, m))
  BY <1>6, <1>2, ColumnAppend
<1>10. ns[t] = more /\ \A u \in Threads \ {t} : ns[u] = ms[u]  BY <1>3
<1>11. ASSUME NEW c \in Columns
      PROVE  Spelled(writers'[t][c], ColumnOf(c, more), AllCells) /\ Exact(writers'[t][c])
  <2>1. writers'[t][c] = InsertValue(writers[t][c], CellOf(c, m))  BY DEF Shapes
  <2>2. Spelled(writers[t][c], ColumnOf(c, ms[t]), AllCells) /\ Exact(writers[t][c])  BY <1>1 DEF Wrote
  <2>3. CellOf(c, m) \in AllCells  BY CellType
  <2> QED BY <1>9, <2>1, <2>2, <2>3, CellSet, Inserted
<1>12. \A u \in Threads \ {t} : writers'[u] = writers[u] /\ numRows'[u] = numRows[u]  BY DEF Shapes
<1>13. numRows'[t] = Len(more)  BY <1>6, <1>7 DEF Shapes
<1>14. Wrote(ns)'
  <2> SUFFICES ASSUME NEW u \in Threads
               PROVE  /\ ns[u] \in PairLists /\ numRows'[u] = Len(ns[u])
                      /\ \A c \in Columns : Spelled(writers'[u][c], ColumnOf(c, ns[u]), AllCells)
                                            /\ Exact(writers'[u][c])
    BY <1>4, <1>5 DEF Wrote
  <2>1. CASE u = t  BY <1>7, <1>10, <1>11, <1>13, <2>1
  <2>2. CASE u # t  BY <1>1, <1>10, <1>12, <2>2 DEF Wrote
  <2> QED BY <2>1, <2>2
<1>15. \A u \in Threads : ~Has(ms[u], m)  BY <1>1 DEF Once
<1>16. Once(ns)'
  <2>1. ASSUME NEW u \in Threads, NEW x \in Threads, NEW i \in 1 .. Len(ns[u]), NEW j \in 1 .. Len(ns[x]),
               ns[u][i] = ns[x][j]
        PROVE  u = x /\ i = j
    <3>1. \A y \in Threads : \A n : n \in 1 .. Len(ns[y]) =>
            \/ n \in 1 .. Len(ms[y]) /\ ns[y][n] = ms[y][n] /\ ns[y][n] # m
            \/ y = t /\ n = Len(ms[t]) + 1 /\ ns[y][n] = m
      <4> SUFFICES ASSUME NEW y \in Threads, NEW n \in 1 .. Len(ns[y])
                   PROVE  \/ n \in 1 .. Len(ms[y]) /\ ns[y][n] = ms[y][n] /\ ns[y][n] # m
                          \/ y = t /\ n = Len(ms[t]) + 1 /\ ns[y][n] = m
        OBVIOUS
      <4>1. CASE y = t  BY <1>7, <1>8, <1>10, <1>15, <4>1 DEF Has
      <4>2. CASE y # t  BY <1>10, <1>15, <4>2 DEF Has
      <4> QED BY <4>1, <4>2
    <3> QED BY <1>1, <2>1, <3>1 DEF Once
  <2>2. \A u \in Threads : \A x \in Pairs : Has(ns[u], x) <=> Has(ms[u], x) \/ (u = t /\ x = m)
    <3>1. \A u \in Threads \ {t} : ns[u] = ms[u]  BY <1>10
    <3>2. \A x \in Pairs : Has(more, x) <=> Has(ms[t], x) \/ x = m
      <4>1. Len(ms[t]) + 1 \in 1 .. Len(more) /\ \A i \in 1 .. Len(ms[t]) : i \in 1 .. Len(more)
        BY <1>7, <1>8
      <4> QED BY <1>7, <1>8, <4>1 DEF Has
    <3> QED BY <1>10, <3>1, <3>2
  <2>3. \A x \in Pairs : x \in DonePairs' <=> \E u \in Threads : Has(ns[u], x)
    BY <1>1, <2>2 DEF Once
  <2> QED BY <1>4, <2>1, <2>3 DEF Once
<1>17. Merged(ns, s)'
  <2>1. \A u \in Threads : ~(u < 0)  BY DEF Threads
  <2> QED BY <1>1, <1>4, <1>5, <2>1 DEF Merged
<1>18. writers' \in [Threads -> [Columns -> WriterSet(AllCells)]]
  <2>1. \A c \in Columns : InsertValue(writers[t][c], CellOf(c, m)) \in WriterSet(AllCells)
    <3>1. \A c \in Columns : writers'[t][c] = InsertValue(writers[t][c], CellOf(c, m))  BY DEF Shapes
    <3> QED BY <1>11, <3>1 DEF Spelled
  <2> QED BY <2>1 DEF Shapes
<1> QED BY <1>14, <1>16, <1>17, <1>18 DEF RowsWritten

LEMMA ProbeEntryInv == ASSUME RootInv, NEW t \in Threads, ProbeEntry(t) PROVE RootInv'
<1>1. Shapes /\ Chunks /\ Looking /\ Stage /\ RowsWritten  BY DEF RootInv
<1>2. PICK k, i, p : k = keyValue[t] /\ i = entry[t] /\ p = todo[t][1]  OBVIOUS
<1>3. PICK e : e = Entries[k][i]  OBVIOUS
<1>4. PICK m : m = <<e, p>>  OBVIOUS
<1>5. /\ phase = "probe" /\ entry[t] # 0
      /\ IF BuildKey[e] = k
         THEN /\ writers' = [writers EXCEPT ![t] = [c \in Columns |-> InsertValue(writers[t][c], CellOf(c, m))]]
              /\ numRows' = [numRows EXCEPT ![t] = numRows[t] + 1]
              /\ cache' = IF DenseOut = {} THEN cache ELSE [cache EXCEPT ![t] = Other]
         ELSE writers' = writers /\ numRows' = numRows /\ cache' = cache
      /\ \/ i < Len(Entries[k]) /\ entry' = [entry EXCEPT ![t] = i + 1] /\ todo' = todo
         \/ ~(i < Len(Entries[k])) /\ entry' = [entry EXCEPT ![t] = 0] /\ NextRow(t)
      /\ UNCHANGED <<inputVars, phase, nextStart, probing, keyValue, mergeVars>>
  BY <1>2, <1>3, <1>4 DEF ProbeEntry, ProbedKey, CellOf, claimVars
<1>6. UNCHANGED <<denseKey, probeColumn, buildLeft, numThreads, merging, results>>
  BY <1>5 DEF inputVars, mergeVars
<1>7. Threads' = Threads /\ UseWorkers' = UseWorkers  BY <1>6 DEF Threads, UseWorkers
<1>8. /\ k \in Keys /\ probeColumn[p] = k /\ m \in Pairs /\ Busy(t) /\ Entries[k] \in Seq(BuildRows)
      /\ i \in 1 .. Len(Entries[k])
      /\ BuildKey[e] = k => m \notin DonePairs
  BY <1>1, <1>2, <1>3, <1>5, <1>4, EntryFacts
<1>9. \A x \in Pairs : x \in DonePairs' <=> x \in DonePairs \/ (BuildKey[e] = k /\ x = m)
  BY <1>1, <1>2, <1>3, <1>5, <1>4, EntryDone
<1>10. merging = 0  BY <1>1, <1>5 DEF Stage
<1>11. /\ RowsWritten' /\ writers' \in [Threads -> [Columns -> WriterSet(AllCells)]]
       /\ numRows' \in [Threads -> Nat] /\ cache' \in [Threads -> Keys \cup {Null, Other}]
  <2>1. CASE BuildKey[e] = k
    <3>1. RowsWritten' /\ writers' \in [Threads -> [Columns -> WriterSet(AllCells)]]
      <4>1. m \in Pairs /\ m \notin DonePairs  BY <1>8, <2>1
      <4>2. \A x \in Pairs : x \in DonePairs' <=> x \in DonePairs \/ x = m  BY <1>9, <2>1
      <4>3. /\ writers' = [writers EXCEPT ![t] = [c \in Columns |-> InsertValue(writers[t][c], CellOf(c, m))]]
            /\ numRows' = [numRows EXCEPT ![t] = numRows[t] + 1]
        BY <1>5, <2>1
      <4>4. UNCHANGED <<merging, results, buildLeft, numThreads>>  BY <1>6
      <4> QED BY <1>1, <1>10, <4>1, <4>2, <4>3, <4>4, RowsExtended
    <3>2. numRows' = [numRows EXCEPT ![t] = numRows[t] + 1] /\ numRows \in [Threads -> Nat]
      BY <1>1, <1>5, <2>1 DEF Shapes
    <3>3. numRows[t] + 1 \in Nat  BY <3>2
    <3>4. numRows' \in [Threads -> Nat]  BY <3>2, <3>3
    <3>5. cache' \in [Threads -> Keys \cup {Null, Other}]
      <4>1. cache' = IF DenseOut = {} THEN cache ELSE [cache EXCEPT ![t] = Other]  BY <1>5, <2>1
      <4> QED BY <1>1, <4>1 DEF Shapes
    <3> QED BY <3>1, <3>4, <3>5
  <2>2. CASE BuildKey[e] # k
    <3>1. DonePairs' = DonePairs
      <4>1. \A x \in Pairs : x \in DonePairs' <=> x \in DonePairs  BY <1>9, <2>2
      <4>2. Matches' = Matches /\ \A x \in Matches : x \in Pairs  BY <1>6 DEF Matches, Pairs
      <4>3. (\A x \in DonePairs : x \in Pairs) /\ \A x \in DonePairs' : x \in Pairs
        BY <4>2 DEF DonePairs
      <4> QED BY <4>1, <4>3
    <3>2. RowsWritten'  BY <1>1, <1>5, <1>6, <2>2, <3>1, RowsKept
    <3> QED BY <1>1, <1>5, <2>2, <3>2 DEF Shapes
  <2> QED BY <2>1, <2>2
<1>12. CASE i < Len(Entries[k]) /\ entry' = [entry EXCEPT ![t] = i + 1] /\ todo' = todo
  <2>1. i \in Nat /\ i + 1 \in Nat
    <3>1. Len(Entries[k]) \in Nat  BY <1>8
    <3>2. i \in 1 .. Len(Entries[k])  BY <1>8
    <3> QED BY <3>1, <3>2
  <2>2. entry' \in [Threads -> Nat] /\ entry'[t] = i + 1 /\ \A u \in Threads \ {t} : entry'[u] = entry[u]
    BY <1>1, <1>12, <2>1 DEF Shapes
  <2>3. Shapes'  BY <1>1, <1>5, <1>6, <1>7, <1>11, <1>12, <2>2 DEF Shapes
  <2>4. \A u : Busy(u)' = Busy(u)  BY <1>12 DEF Busy
  <2>5. Chunks'  BY <1>1, <1>5, <1>7, <1>12, <2>4 DEF Chunks
  <2>6. Looking'
    <3> SUFFICES ASSUME NEW u \in Threads, entry'[u] # 0
                 PROVE  /\ Busy(u) /\ keyValue[u] = probeColumn[todo[u][1]] /\ keyValue[u] \in Keys
                        /\ entry'[u] \in 1 .. Len(Entries[keyValue[u]])
      BY <1>5, <1>6, <1>7, <1>12, <2>4 DEF Looking
    <3>1. CASE u # t  BY <1>1, <2>2, <3>1 DEF Looking
    <3>2. CASE u = t
      <4>1. Len(Entries[k]) \in Nat  BY <1>8
      <4>2. i + 1 \in 1 .. Len(Entries[k])  BY <1>12, <2>1, <4>1
      <4> QED BY <1>1, <1>2, <1>5, <2>2, <3>2, <4>2 DEF Looking
    <3> QED BY <3>1, <3>2
  <2>7. Stage'  BY <1>1, <1>5, <1>6 DEF Stage
  <2> QED BY <1>11, <2>3, <2>5, <2>6, <2>7 DEF RootInv
<1>13. CASE ~(i < Len(Entries[k])) /\ entry' = [entry EXCEPT ![t] = 0] /\ NextRow(t)
  <2>1. entry' \in [Threads -> Nat] /\ entry'[t] = 0 /\ \A u \in Threads \ {t} : entry'[u] = entry[u]
    BY <1>1, <1>13 DEF Shapes
  <2>2. /\ todo' \in [Threads -> (0 .. ProbeSize) \X (0 .. ProbeSize)]
        /\ \A u \in Threads : todo'[u][1] = IF u = t THEN todo[u][1] + 1 ELSE todo[u][1]
        /\ \A u \in Threads \ {t} : Busy(u)' = Busy(u)
    BY <1>1, <1>8, <1>13, NextRowFacts
  <2>3. Shapes'  BY <1>1, <1>5, <1>6, <1>7, <1>11, <2>1, <2>2 DEF Shapes
  <2>4. Chunks'  BY <1>1, <1>5, <1>8, <1>13, ChunksStep
  <2>5. Looking'
    <3> SUFFICES ASSUME NEW u \in Threads, entry'[u] # 0
                 PROVE  /\ Busy(u)' /\ keyValue[u] = probeColumn[todo'[u][1]] /\ keyValue[u] \in Keys
                        /\ entry'[u] \in 1 .. Len(Entries[keyValue[u]])
      BY <1>5, <1>6, <1>7 DEF Looking
    <3>1. u # t  BY <2>1
    <3> QED BY <1>1, <2>1, <2>2, <3>1 DEF Looking
  <2>6. Stage'  BY <1>1, <1>5, <1>6 DEF Stage
  <2> QED BY <1>11, <2>3, <2>4, <2>5, <2>6 DEF RootInv
<1> QED BY <1>5, <1>12, <1>13

-----------------------------------------------------------------------------
(* A worker's pages join the result.                                       *)
LEMMA PagesOf ==
  ASSUME NEW t \in Threads, NEW c \in Columns, NEW ms, Wrote(ms)
  PROVE  /\ WriterPages(writers[t][c]) \in PageLists(AllCells)
         /\ Adds(WriterPages(writers[t][c]), <<>>, ColumnOf(c, ms[t]), AllCells)
<1>1. Spelled(writers[t][c], ColumnOf(c, ms[t]), AllCells) /\ Exact(writers[t][c])  BY DEF Wrote
<1> QED BY <1>1, CellSet, Flushes DEF WriterPages

LEMMA MergeWriterInv == ASSUME RootInv, MergeWriter PROVE RootInv'
<1>1. Shapes /\ Chunks /\ Looking /\ Stage /\ RowsWritten  BY DEF RootInv
<1>2. PICK w, oldPages, oldRows : w = merging /\ oldPages = results.pages /\ oldRows = results.numRows
  OBVIOUS
<1>3. /\ phase = "merge" /\ w < numThreads /\ merging' = w + 1
      /\ results' = [pages |-> [c \in Columns |-> oldPages[c] \o WriterPages(writers[w][c])],
                     numRows |-> oldRows + numRows[w]]
      /\ UNCHANGED <<inputVars, phase, nextStart, probing, todo, keyValue, entry, cache, writers, numRows>>
  BY <1>2 DEF MergeWriter, claimVars, probeVars
<1>4. UNCHANGED <<denseKey, probeColumn, buildLeft, numThreads>>  BY <1>3 DEF inputVars
<1>5. Threads' = Threads /\ UseWorkers' = UseWorkers /\ \A t : Busy(t)' = Busy(t)
  BY <1>3, <1>4 DEF Threads, UseWorkers, Busy
<1>6. w \in Nat /\ numThreads \in Nat /\ w \in Threads /\ \A t \in Threads : t \in Nat
  BY <1>1, <1>2, <1>3 DEF Shapes, Threads
<1>7. PICK ms, s : Wrote(ms) /\ Once(ms) /\ Merged(ms, s)  BY <1>1 DEF RowsWritten
<1>8. PICK r : r = ms[w]  OBVIOUS
<1>9. PICK more : more = s \o r  OBVIOUS
<1>10. s \in PairLists /\ r \in PairLists /\ numRows[w] = Len(r) /\ oldRows = Len(s)
  BY <1>2, <1>6, <1>7, <1>8 DEF Wrote, Merged
<1>11. /\ Len(s) \in Nat /\ Len(r) \in Nat /\ more \in PairLists /\ Len(more) = Len(s) + Len(r)
       /\ \A i \in 1 .. Len(s) + Len(r) : more[i] = IF i <= Len(s) THEN s[i] ELSE r[i - Len(s)]
  BY <1>9, <1>10 DEF PairLists
<1>12. \A i \in 1 .. Len(more) : \/ i \in 1 .. Len(s) /\ more[i] = s[i]
                                 \/ i - Len(s) \in 1 .. Len(r) /\ more[i] = r[i - Len(s)] /\ i \in Nat
  BY <1>11
<1>13. /\ \A i \in 1 .. Len(s) : i \in 1 .. Len(more) /\ more[i] = s[i]
       /\ \A i \in 1 .. Len(r) : i + Len(s) \in 1 .. Len(more) /\ more[i + Len(s)] = r[i]
  <2>1. \A i \in 1 .. Len(r) : i + Len(s) \in 1 .. Len(s) + Len(r) /\ ~(i + Len(s) <= Len(s))
                               /\ (i + Len(s)) - Len(s) = i
    BY <1>11
  <2>2. \A i \in 1 .. Len(s) : i \in 1 .. Len(s) + Len(r) /\ i <= Len(s)  BY <1>11
  <2> QED BY <1>11, <2>1, <2>2
<1>14. \A x \in Pairs : Has(more, x) <=> Has(s, x) \/ Has(r, x)
  <2>1. ASSUME NEW x \in Pairs, Has(more, x) PROVE Has(s, x) \/ Has(r, x)
    BY <1>12, <2>1 DEF Has
  <2>2. ASSUME NEW x \in Pairs, Has(s, x) PROVE Has(more, x)  BY <1>13, <2>2 DEF Has
  <2>3. ASSUME NEW x \in Pairs, Has(r, x) PROVE Has(more, x)  BY <1>13, <2>3 DEF Has
  <2> QED BY <2>1, <2>2, <2>3
<1>15. \A i \in 1 .. Len(s), j \in 1 .. Len(r) : s[i] # r[j]
  <2> SUFFICES ASSUME NEW i \in 1 .. Len(s), NEW j \in 1 .. Len(r), s[i] = r[j] PROVE FALSE
    OBVIOUS
  <2>1. s[i] \in Pairs /\ Has(s, s[i])  BY <1>10 DEF PairLists, Has
  <2>2. PICK t \in Threads : t < w /\ Has(ms[t], s[i])  BY <1>2, <1>7, <2>1 DEF Merged
  <2>3. PICK n \in 1 .. Len(ms[t]) : ms[t][n] = ms[w][j]  BY <1>8, <2>2 DEF Has
  <2>4. t = w  BY <1>6, <1>7, <1>8, <2>3 DEF Once
  <2> QED BY <1>6, <2>2, <2>4
<1>16. ASSUME NEW c \in Columns
       PROVE  /\ results'.pages[c] = oldPages[c] \o WriterPages(writers[w][c])
              /\ results'.pages[c] \in PageLists(AllCells)
              /\ Adds(results'.pages[c], <<>>, ColumnOf(c, more), AllCells)
  <2>1. results'.pages[c] = oldPages[c] \o WriterPages(writers[w][c])  BY <1>3
  <2>2. /\ WriterPages(writers[w][c]) \in PageLists(AllCells)
        /\ Adds(WriterPages(writers[w][c]), <<>>, ColumnOf(c, r), AllCells)
    BY <1>6, <1>7, <1>8, PagesOf
  <2>3. oldPages[c] \in PageLists(AllCells)  BY <1>1, <1>2 DEF Shapes
  <2>4. Adds(oldPages[c], <<>>, ColumnOf(c, s), AllCells)  BY <1>2, <1>7 DEF Merged
  <2>5. ColumnOf(c, more) = ColumnOf(c, s) \o ColumnOf(c, r)  BY <1>9, <1>10, ColumnConcat
  <2>6. ColumnOf(c, s) \in Seq(AllCells) /\ ColumnOf(c, r) \in Seq(AllCells)  BY <1>10, ColumnType
  <2> QED BY <2>1, <2>2, <2>3, <2>4, <2>5, <2>6, CellSet, AddsConcat
<1>17. oldRows + numRows[w] = Len(more) /\ oldRows + numRows[w] \in Nat /\ results'.numRows = Len(more)
  BY <1>3, <1>10, <1>11
<1>18. results' \in [pages : [Columns -> PageLists(AllCells)], numRows : Nat]
  <2>1. \A c \in Columns : oldPages[c] \o WriterPages(writers[w][c]) \in PageLists(AllCells)  BY <1>16
  <2> QED BY <1>3, <1>17, <2>1
<1>19. \A c, x : ColumnOf(c, x)' = ColumnOf(c, x)  BY <1>4 DEF ColumnOf, CellOf, SourceRow
<1>20. Wrote(ms)'  BY <1>3, <1>5, <1>7, <1>19 DEF Wrote
<1>21. DonePairs' = DonePairs
  <2>1. \A m \in Matches : ToDo(m[2])' = ToDo(m[2])  BY <1>3, <1>5 DEF ToDo
  <2>2. \A m \in Matches : \A t \in Threads : Passed(t, m)' = Passed(t, m)  BY <1>3, <1>4 DEF Passed
  <2> QED BY <1>4, <2>1, <2>2, DoneKept
<1>22. Once(ms)'  BY <1>5, <1>7, <1>21 DEF Once
<1>23. \A i, j \in 1 .. Len(more) : more[i] = more[j] => i = j
  <2> SUFFICES ASSUME NEW i \in 1 .. Len(more), NEW j \in 1 .. Len(more), more[i] = more[j] PROVE i = j
    OBVIOUS
  <2>1. i \in Nat /\ j \in Nat  BY <1>11
  <2>2. \A a, b \in 1 .. Len(s) : s[a] = s[b] => a = b  BY <1>7 DEF Merged
  <2>3. \A a, b \in 1 .. Len(r) : r[a] = r[b] => a = b  BY <1>6, <1>7, <1>8 DEF Once
  <2>4. CASE i - Len(s) \in 1 .. Len(r) /\ more[i] = r[i - Len(s)]
             /\ j - Len(s) \in 1 .. Len(r) /\ more[j] = r[j - Len(s)]
    <3>1. i - Len(s) = j - Len(s)  BY <2>3, <2>4
    <3> QED BY <1>11, <2>1, <3>1
  <2>5. CASE i \in 1 .. Len(s) /\ more[i] = s[i] /\ j \in 1 .. Len(s) /\ more[j] = s[j]
    BY <2>2, <2>5
  <2> QED BY <1>12, <1>15, <2>4, <2>5
<1>24. \A x \in Pairs : Has(more, x) <=> \E t \in Threads : t < w + 1 /\ Has(ms[t], x)
  <2>1. \A t \in Threads : t < w + 1 <=> t < w \/ t = w  BY <1>6
  <2>2. \A x \in Pairs : Has(s, x) <=> \E t \in Threads : t < w /\ Has(ms[t], x)  BY <1>2, <1>7 DEF Merged
  <2> QED BY <1>6, <1>8, <1>14, <2>1, <2>2
<1>25. Merged(ms, more)'
  <2>1. \A c \in Columns : Adds(results'.pages[c], <<>>, ColumnOf(c, more), AllCells)  BY <1>16
  <2> QED BY <1>3, <1>5, <1>11, <1>17, <1>19, <1>23, <1>24, <2>1 DEF Merged
<1>26. RowsWritten'  BY <1>20, <1>22, <1>25 DEF RowsWritten
<1>27. merging' \in 0 .. numThreads'  BY <1>3, <1>4, <1>6
<1>28. Shapes'  BY <1>1, <1>3, <1>4, <1>5, <1>18, <1>27 DEF Shapes
<1>29. Chunks'  BY <1>1, <1>3, <1>5 DEF Chunks
<1>30. Looking'  BY <1>1, <1>3, <1>4, <1>5 DEF Looking
<1>31. Stage'  BY <1>1, <1>3, <1>4 DEF Stage
<1> QED BY <1>26, <1>28, <1>29, <1>30, <1>31 DEF RootInv

LEMMA RootStutters == ASSUME RootInv, UNCHANGED vars PROVE RootInv'
<1>1. /\ Shapes /\ Chunks /\ Looking /\ Stage /\ RowsWritten
      /\ UNCHANGED <<inputVars, phase, nextStart, probing, todo, keyValue, entry, cache, writers, numRows, mergeVars>>
  BY DEF RootInv, vars, claimVars, probeVars
<1>2. /\ Looking' /\ RowsWritten' /\ Threads' = Threads /\ UseWorkers' = UseWorkers
      /\ \A t \in Threads : Busy(t)' = Busy(t)
  BY <1>1, ClaimsKept
<1>3. Shapes'  BY <1>1, <1>2 DEF Shapes, inputVars, mergeVars
<1>4. Chunks'  BY <1>1, <1>2 DEF Chunks
<1>5. Stage'  BY <1>1 DEF Stage, mergeVars, inputVars
<1> QED BY <1>2, <1>3, <1>4, <1>5 DEF RootInv

LEMMA RootNext == RootInv /\ [Next]_vars => RootInv'
<1> SUFFICES ASSUME RootInv, [Next]_vars PROVE RootInv'
  OBVIOUS
<1>1. CASE LastRow  BY <1>1, LastRowInv
<1>2. CASE JoinWorkers  BY <1>2, JoinWorkersInv
<1>3. CASE MergeWriter  BY <1>3, MergeWriterInv
<1>4. CASE MergeDone  BY <1>4, MergeDoneInv
<1>5. CASE \E t \in Threads : Worker(t)
  <2>1. PICK t \in Threads : Worker(t)  BY <1>5
  <2>2. CASE ClaimChunk(t)  BY <2>2, ClaimChunkInv
  <2>3. CASE ReadKey(t)  BY <2>3, ReadKeyInv
  <2>4. CASE ProbeEntry(t)  BY <2>4, ProbeEntryInv
  <2> QED BY <2>1, <2>2, <2>3, <2>4 DEF Worker
<1>6. CASE UNCHANGED vars  BY <1>6, RootStutters
<1> QED BY <1>1, <1>2, <1>3, <1>4, <1>5, <1>6 DEF Next, Caller, Finished

LEMMA RootInvariant == Spec => []RootInv
<1>1. Init => RootInv  BY RootInit
<1>2. RootInv /\ [Next]_vars => RootInv'  BY RootNext
<1> QED BY <1>1, <1>2, PTL DEF Spec

-----------------------------------------------------------------------------
(* What the invariant says to a reader.                                    *)

(* Every variable has its shape, for every table, probe side, number of     *)
(* threads and chunk size: chunks stay within the probe side although the   *)
(* shared counter runs past its end, and no worker looks beyond the range   *)
(* find_range returned.                                                     *)
THEOREM RootTypeCorrect == Spec => []TypeOK
<1>1. RootInv => TypeOK
  <2> SUFFICES ASSUME RootInv PROVE TypeOK
    OBVIOUS
  <2>1. Shapes /\ Chunks /\ Looking  BY DEF RootInv
  <2>2. ASSUME NEW t \in Threads
        PROVE  todo[t][1] \in 0 .. ProbeSize /\ todo[t][2] \in todo[t][1] .. ProbeSize
    <3>1. todo[t][1] \in 0 .. ProbeSize /\ todo[t][2] \in 0 .. ProbeSize  BY <2>1, ChunkType
    <3>2. todo[t][1] <= todo[t][2]  BY <2>1 DEF Chunks
    <3> QED BY <3>1, <3>2, Sizes
  <2> QED BY <2>1, <2>2 DEF TypeOK, Shapes, Looking
<1> QED BY <1>1, RootInvariant, PTL

(* The pages of a worker's columns spell the pairs it wrote.               *)
LEMMA ColumnsRead ==
  ASSUME NEW ms, Wrote(ms), NEW t \in Threads, NEW c \in Columns
  PROVE  ReadColumn(WriterPages(writers[t][c])) = ColumnOf(c, ms[t])
<1>1. ms[t] \in PairLists  BY DEF Wrote
<1> QED BY <1>1, CellSet, PagesOf, ColumnType, ColumnRead

(* At every moment the pages of all columns of a worker's table spell the   *)
(* same number of rows, the counted one, and row n of each column comes     *)
(* from one and the same matching pair, although the columns fill pages of  *)
(* different lengths and put long strings on pages of their own.            *)
THEOREM RowsAlwaysAligned == Spec => []RowsAligned
<1>1. ASSUME RootInv PROVE RowsAligned
  <2>1. PICK ms, s : Wrote(ms) /\ Once(ms) /\ Merged(ms, s)  BY <1>1 DEF RootInv, RowsWritten
  <2>2. ASSUME NEW t \in Threads
        PROVE  LET read == [c \in Columns |-> ReadColumn(WriterPages(writers[t][c]))]
               IN  /\ \A c \in Columns : Len(read[c]) = numRows[t]
                   /\ \A n \in 1 .. numRows[t] : \E m \in Matches :
                        \A c \in Columns : read[c][n] = Cell[c][SourceRow(c, m[1], m[2])]
    <3> DEFINE read == [c \in Columns |-> ReadColumn(WriterPages(writers[t][c]))]
    <3>1. ms[t] \in PairLists /\ numRows[t] = Len(ms[t])  BY <2>1 DEF Wrote
    <3>2. \A c \in Columns : read[c] = ColumnOf(c, ms[t])  BY <2>1, ColumnsRead
    <3> HIDE DEF read
    <3>3. \A c \in Columns : Len(read[c]) = numRows[t]  BY <3>1, <3>2, ColumnType
    <3>4. ASSUME NEW n \in 1 .. numRows[t]
          PROVE  \E m \in Matches : \A c \in Columns : read[c][n] = Cell[c][SourceRow(c, m[1], m[2])]
      <4>1. n \in 1 .. Len(ms[t]) /\ ms[t][n] \in Pairs  BY <3>1 DEF PairLists
      <4>2. Has(ms[t], ms[t][n])  BY <4>1 DEF Has
      <4>3. ms[t][n] \in Matches  BY <2>1, <4>1, <4>2 DEF Once, DonePairs
      <4>4. \A c \in Columns : read[c][n] = CellOf(c, ms[t][n])  BY <3>1, <3>2, <4>1, ColumnType
      <4> QED BY <4>3, <4>4 DEF CellOf
    <3> QED BY <3>3, <3>4 DEF read
  <2> QED BY <2>2 DEF RowsAligned
<1> QED BY <1>1, RootInvariant, PTL

-----------------------------------------------------------------------------
(* The result.                                                             *)

(* In the end every matching pair is done.                                 *)
LEMMA AllDone ==
  ASSUME Shapes, Chunks, Stage, phase = "finished"
  PROVE  DonePairs = Matches
<1>1. probing = {} /\ \A t \in Threads : ~Busy(t) /\ (UseWorkers => ProbeSize <= nextStart)
  BY DEF Stage, Chunks
<1>2. 0 \in Threads  BY ZeroThread DEF Shapes
<1>3. ASSUME NEW m \in Matches PROVE m \in DonePairs
  <2>1. m[2] \in Nat /\ m[2] < ProbeSize  BY Sizes DEF Matches, ProbeRows
  <2>2. ~(UseWorkers /\ nextStart <= m[2])
    <3>1. nextStart \in Nat  BY DEF Shapes
    <3> QED BY <1>1, <1>2, <2>1, <3>1, Sizes
  <2>3. ASSUME NEW t \in Threads PROVE ~(todo[t][1] <= m[2] /\ m[2] < todo[t][2])
    <3>1. todo[t][1] \in Nat /\ todo[t][2] \in Nat  BY ChunkType, Sizes
    <3>2. ~(todo[t][1] < todo[t][2])  BY <1>1 DEF Busy
    <3> QED BY <2>1, <3>1, <3>2
  <2>4. ~ToDo(m[2])  BY <2>2, <2>3 DEF ToDo
  <2> QED BY <2>4 DEF DonePairs
<1> QED BY <1>3 DEF DonePairs

(* The finished pages spell a list of the matching pairs, each once.       *)
ListsMatches(s) ==
  /\ s \in PairLists /\ \A i, j \in 1 .. Len(s) : s[i] = s[j] => i = j
  /\ \A m \in Pairs : Has(s, m) <=> m \in Matches
LEMMA ResultSpelled ==
  ASSUME RootInv, phase = "finished"
  PROVE  \E s : /\ ListsMatches(s) /\ results.numRows = Len(s)
                /\ \A c \in Columns : ReadColumn(results.pages[c]) = ColumnOf(c, s)
<1>1. PICK ms, s : Wrote(ms) /\ Once(ms) /\ Merged(ms, s)  BY DEF RootInv, RowsWritten
<1>2. Shapes /\ Chunks /\ Stage  BY DEF RootInv
<1>3. s \in PairLists /\ results.numRows = Len(s)  BY <1>1 DEF Merged
<1>4. ASSUME NEW c \in Columns PROVE ReadColumn(results.pages[c]) = ColumnOf(c, s)
  <2>1. results.pages[c] \in PageLists(AllCells)  BY <1>2 DEF Shapes
  <2>2. Adds(results.pages[c], <<>>, ColumnOf(c, s), AllCells)  BY <1>1 DEF Merged
  <2> QED BY <1>3, <2>1, <2>2, CellSet, ColumnType, ColumnRead
<1>5. \A m \in Pairs : Has(s, m) <=> m \in Matches
  <2>1. merging = numThreads  BY <1>2 DEF Stage
  <2>2. \A t \in Threads : t < merging  BY <1>2, <2>1, ZeroThread DEF Shapes
  <2>3. DonePairs = Matches  BY <1>2, AllDone
  <2> QED BY <1>1, <2>2, <2>3 DEF Once, Merged
<1>6. ListsMatches(s)  BY <1>1, <1>3, <1>5 DEF ListsMatches, Merged
<1> QED BY <1>3, <1>4, <1>6

(* Such pages have every result row as often as it matches: their row i is  *)
(* the row of the i-th pair.                                                *)
Counts == [v \in [Columns -> ResultCells] |-> Cardinality({m \in Matches : Join!ResultRow(m) = v})]
LEMMA RowsCounted ==
  ASSUME NEW s, ListsMatches(s), results.numRows = Len(s),
         \A c \in Columns : ReadColumn(results.pages[c]) = ColumnOf(c, s)
  PROVE  ResultRows = Counts
<1> DEFINE n == Len(s)
           row(i) == [c \in Columns |-> CellOf(c, s[i])]
<1>1. n \in Nat /\ s \in PairLists /\ \A i \in 1 .. n : s[i] \in Pairs  BY DEF ListsMatches, PairLists
<1>2. ASSUME NEW c \in Columns
      PROVE  Len(ColumnOf(c, s)) = n /\ \A i \in 1 .. n : ColumnOf(c, s)[i] = CellOf(c, s[i])
  BY <1>1, ColumnType
<1>3. ResultRows = [v \in [Columns -> ResultCells] |->
                      Cardinality({i \in 1 .. n : \A c \in Columns : ColumnOf(c, s)[i] = v[c]})]
  <2> DEFINE read == [c \in Columns |-> ReadColumn(results.pages[c])]
             rows(f, k) == [v \in [Columns -> ResultCells] |->
                              Cardinality({i \in 1 .. k : \A c \in Columns : f[c][i] = v[c]})]
             cols == [c \in Columns |-> ColumnOf(c, s)]
  <2>1. read = cols  OBVIOUS
  <2>2. ~(\E c \in Columns : Len(read[c]) # results.numRows)  BY <1>2
  <2>3. ResultRows = IF \E c \in Columns : Len(read[c]) # results.numRows THEN Broken
                     ELSE rows(read, results.numRows)
    BY Zenon DEF ResultRows
  <2>4. rows(cols, n) = [v \in [Columns -> ResultCells] |->
                           Cardinality({i \in 1 .. n : \A c \in Columns : ColumnOf(c, s)[i] = v[c]})]
    <3>1. ASSUME NEW v \in [Columns -> ResultCells]
          PROVE  {i \in 1 .. n : \A c \in Columns : cols[c][i] = v[c]}
                   = {i \in 1 .. n : \A c \in Columns : ColumnOf(c, s)[i] = v[c]}
      OBVIOUS
    <3> HIDE DEF n, cols
    <3> QED BY <3>1
  <2> HIDE DEF n, read, rows, cols
  <2> QED BY <2>1, <2>2, <2>3, <2>4 DEF n
<1>4. \A m : Join!ResultRow(m) = [c \in Columns |-> CellOf(c, m)]
  BY DEF Join!ResultRow, Join!Columns, Columns, CellOf, SourceRow
<1>5. ASSUME NEW v \in [Columns -> ResultCells]
      PROVE  Cardinality({i \in 1 .. n : \A c \in Columns : ColumnOf(c, s)[i] = v[c]}) =
               Cardinality({m \in Matches : Join!ResultRow(m) = v})
  <2> DEFINE A == {i \in 1 .. n : \A c \in Columns : ColumnOf(c, s)[i] = v[c]}
             B == {m \in Matches : Join!ResultRow(m) = v}
             f == [i \in A |-> s[i]]
  <2>1. ASSUME NEW i \in 1 .. n
        PROVE  /\ s[i] \in Matches
               /\ (\A c \in Columns : ColumnOf(c, s)[i] = v[c]) <=> Join!ResultRow(s[i]) = v
    <3>1. s[i] \in Matches  BY <1>1 DEF ListsMatches, Has
    <3>2. (\A c \in Columns : CellOf(c, s[i]) = v[c]) <=> [c \in Columns |-> CellOf(c, s[i])] = v
      OBVIOUS
    <3> QED BY <1>2, <1>4, <3>1, <3>2
  <2>2. \A i \in A : f[i] = s[i] /\ f[i] \in B  BY <2>1
  <2>3. \A i, j \in A : f[i] = f[j] => i = j  BY <2>2 DEF ListsMatches
  <2>4. ASSUME NEW m \in B PROVE \E i \in A : f[i] = m
    <3>1. m \in Pairs /\ m \in Matches  BY DEF Matches, Pairs
    <3>2. PICK i \in 1 .. n : s[i] = m  BY <3>1 DEF ListsMatches, Has
    <3>3. i \in A  BY <2>1, <3>2
    <3> QED BY <2>2, <3>2, <3>3
  <2>5. f \in [A -> B]
    <3>1. f = [i \in A |-> f[i]]  OBVIOUS
    <3> HIDE DEF f
    <3> QED BY <2>2, <3>1
  <2>6. IsFiniteSet(A)
    <3>1. IsFiniteSet(1 .. n)  BY <1>1, FS_Interval
    <3> QED BY <3>1, FS_Subset
  <2> HIDE DEF A, B, f
  <2>7. ExistsBijection(A, B)
    <3>1. f \in Injection(A, B)  BY <2>3, <2>5 DEF Injection, IsInjective
    <3>2. f \in Surjection(A, B)  BY <2>4, <2>5 DEF Surjection
    <3> QED BY <3>1, <3>2 DEF ExistsBijection, Bijection
  <2> QED BY <2>6, <2>7, FS_Bijection DEF A, B
<1> QED BY <1>3, <1>5 DEF Counts

LEMMA CountsReached == RootInv => (phase = "finished" => ResultRows = Counts)
BY ResultSpelled, RowsCounted

LEMMA CellsOfJoin ==
  Join!Cells = ResultCells /\ Join!Columns = Columns /\ Join!Matches = Matches
<1>1. Join!Columns = Columns /\ Join!BuildRows = BuildRows
  BY DEF Join!Columns, Join!BuildRows, Columns, BuildRows
<1> QED BY <1>1 DEF Join!Cells, ResultCells, Join!Matches, Matches

(* HashJoin counts with the Cardinality of its own instance of FiniteSets. *)
LEMMA SameCardinality == \A S : Join!Cardinality(S) = Cardinality(S)
BY Zenon DEF Join!Cardinality, Cardinality

LEMMA InputsFixed == ASSUME [Next]_vars PROVE UNCHANGED <<probeColumn, buildLeft, numThreads>>
BY DEF Next, Caller, Worker, Finished, vars, inputVars, LastRow, JoinWorkers, MergeWriter, MergeDone,
       ClaimChunk, ReadKey, ProbeEntry

(* The pages of the root join are the result of the join: every matching    *)
(* pair is one row, its values side by side in the columns, for every       *)
(* division of the rows among the workers, every size of a page and of a    *)
(* chunk, and whatever a worker's thread-local value holds.                 *)
THEOREM RootJoinCorrect == Spec => ImplementsJoin
<1> DEFINE Shown == IF phase = "finished" THEN ResultRows ELSE Other
           Counted == phase = "finished" => ResultRows = Counts
<1>1. Init => Join!Init
  <2> SUFFICES ASSUME Init PROVE Join!Init
    OBVIOUS
  <2>1. probeColumn \in [ProbeRows -> Keys \cup {Null}] /\ buildLeft \in BOOLEAN /\ phase # "finished"
    BY DEF Init
  <2> QED BY <2>1 DEF Join!Init
<1>2. ASSUME [Next]_vars, Counted' PROVE [Join!Join]_(Join!vars)
  <2>1. UNCHANGED <<probeColumn, buildLeft, numThreads>>  BY <1>2, InputsFixed
  <2>2. CASE phase = "finished"
    <3>1. UNCHANGED vars
      BY <1>2, <2>2 DEF Next, Caller, Worker, Finished, LastRow, JoinWorkers, MergeWriter, MergeDone,
                        ClaimChunk, ReadKey, ProbeEntry
    <3>2. phase' = phase /\ results' = results  BY <3>1 DEF vars, mergeVars
    <3>3. ResultRows' = ResultRows  BY <3>2 DEF ResultRows
    <3>4. Shown' = Shown  BY <3>2, <3>3
    <3> QED BY <2>1, <3>4 DEF Join!vars
  <2>3. CASE phase # "finished" /\ phase' # "finished"
    <3>1. Shown' = Shown  BY <2>3
    <3> QED BY <2>1, <3>1 DEF Join!vars
  <2>4. CASE phase # "finished" /\ phase' = "finished"
    <3>1. Shown = Other /\ Shown' = ResultRows'  BY <2>4
    <3>2. ResultRows' = Counts'  BY <1>2, <2>4
    <3> DEFINE answer == [v \in [Join!Columns -> Join!Cells] |->
                            Cardinality({m \in Join!Matches : Join!ResultRow(m) = v})]
    <3>3. Counts' = answer
      <4>1. Matches' = Matches  BY <2>1 DEF Matches
      <4>2. \A m : Join!ResultRow(m)' = Join!ResultRow(m)  BY <2>1 DEF Join!ResultRow
      <4>3. Counts' = Counts  BY <4>1, <4>2 DEF Counts
      <4> QED BY <4>3, CellsOfJoin DEF Counts
    <3>4. Shown = Other /\ Shown' = answer  BY <3>1, <3>2, <3>3
    <3> HIDE DEF Counted
    <3>5. answer = [v \in [Join!Columns -> Join!Cells] |->
                      Join!Cardinality({m \in Join!Matches : Join!ResultRow(m) = v})]
      BY SameCardinality
    <3>6. Join!Join  BY <2>1, <3>4, <3>5 DEF Join!Join
    <3> QED BY <3>6
  <2> QED BY <2>2, <2>3, <2>4
<1>3. RootInv => Counted  BY CountsReached
<1> HIDE DEF Shown, Counted
<1> QED BY <1>1, <1>2, <1>3, RootInvariant, PTL DEF Spec, ImplementsJoin, Join!Spec

=============================================================================
