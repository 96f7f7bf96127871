------------------------- MODULE FilterAndScanProofs -------------------------
(***************************************************************************)
(* Theorems about the loading of a table, its filter and the scan that     *)
(* returns the wanted rows, for every table, every filter whose nodes form *)
(* a tree, every number of threads and all sizes of pages: the bitmaps of  *)
(* a filter are what the filter says of each record, and the table that is *)
(* returned has the wanted rows in the order of the file.  Then about the  *)
(* copy-scan of such a table: what it returns of a column, referenced or   *)
(* copied, reads as the values that were written.                          *)
(***************************************************************************)
EXTENDS FilterEval, CopyScan, PageFormatProofs

(* The values of a column, and one row more.                               *)
ColumnOf(rs, c) == [n \in 1 .. Len(rs) |-> rs[n][c]]

LEMMA ValuesAre == ValueSet(Values)
<1>1. Null \in Values  BY DEF Values
<1>2. Broken \notin Values \X Int  BY ColumnsAssumption DEF ColumnsAssumption
<1> QED BY <1>1, <1>2 DEF ValueSet

(* INT32 and VARCHAR values, which the inserters' tests count exactly.      *)
LEMMA NoneWide == \A v \in Values : v \notin WideValues
BY PageAssumption, ColumnsAssumption DEF PageAssumption, ColumnsAssumption, Values

LEMMA ColumnTyped ==
  ASSUME NEW V, NEW rs \in Seq([Columns -> V]), NEW c \in Columns
  PROVE  /\ ColumnOf(rs, c) \in Seq(V) /\ Len(ColumnOf(rs, c)) = Len(rs)
         /\ \A n \in 1 .. Len(rs) : ColumnOf(rs, c)[n] = rs[n][c]
<1> DEFINE k == Len(rs)
           s == ColumnOf(rs, c)
<1>1. k \in Nat /\ \A n \in 1 .. k : rs[n][c] \in V  OBVIOUS
<1>2. s = [n \in 1 .. k |-> rs[n][c]]  BY DEF ColumnOf
<1> HIDE DEF k, s
<1>3. s \in Seq(V) /\ Len(s) = k /\ \A n \in 1 .. k : s[n] = rs[n][c]  BY <1>1, <1>2
<1> QED BY <1>3 DEF k, s

LEMMA ColumnAppend ==
  ASSUME NEW V, NEW rs \in Seq([Columns -> V]), NEW row \in [Columns -> V], NEW c \in Columns
  PROVE  ColumnOf(Append(rs, row), c) = Append(ColumnOf(rs, c), row[c])
<1> DEFINE k == Len(rs)
           longer == Append(rs, row)
           s == ColumnOf(rs, c)
           a == ColumnOf(longer, c)
           v == row[c]
<1>1. k \in Nat /\ v \in V /\ \A n \in 1 .. k : rs[n] \in [Columns -> V] /\ rs[n][c] \in V  OBVIOUS
<1>2. /\ Len(longer) = k + 1 /\ longer[k + 1] = row /\ \A n \in 1 .. k : longer[n] = rs[n]
  OBVIOUS
<1>4. a = [n \in 1 .. k + 1 |-> longer[n][c]]  BY <1>2 DEF ColumnOf
<1> HIDE DEF k, longer, s, a
<1>5. s \in Seq(V) /\ Len(s) = k /\ \A n \in 1 .. k : s[n] = rs[n][c]  BY ColumnTyped DEF k, s
<1>6. \A n \in 1 .. k + 1 : longer[n][c] = IF n = k + 1 THEN v ELSE s[n]
  <2> TAKE n \in 1 .. k + 1
  <2>1. n = k + 1 \/ n \in 1 .. k  BY <1>1
  <2>2. ASSUME n \in 1 .. k PROVE n # k + 1  BY <1>1, <2>2
  <2> QED BY <1>2, <1>5, <2>1, <2>2
<1> HIDE DEF v
<1>7. \A n \in 1 .. k + 1 : longer[n][c] \in V
  <2> TAKE n \in 1 .. k + 1
  <2>1. n = k + 1 \/ n \in 1 .. k  BY <1>1
  <2> QED BY <1>1, <1>5, <1>6, <2>1
<1>8. a \in Seq(V) /\ Len(a) = k + 1 /\ \A n \in 1 .. k + 1 : a[n] = longer[n][c]
  <2> DEFINE l == k + 1
             e(n) == longer[n][c]
  <2>1. l \in Nat /\ a = [n \in 1 .. l |-> e(n)] /\ \A n \in 1 .. l : e(n) \in V  BY <1>1, <1>4, <1>7
  <2> HIDE DEF l, e
  <2>2. a \in Seq(V) /\ Len(a) = l /\ \A n \in 1 .. l : a[n] = e(n)  BY <2>1
  <2> QED BY <2>2 DEF l, e
<1> DEFINE b == Append(s, v)
<1>9. b \in Seq(V) /\ Len(b) = k + 1 /\ b[k + 1] = v /\ \A n \in 1 .. k : b[n] = s[n]  BY <1>1, <1>5
<1> HIDE DEF b
<1>10. \A n \in 1 .. k + 1 : a[n] = b[n]
  <2> TAKE n \in 1 .. k + 1
  <2>1. n = k + 1 \/ n \in 1 .. k  BY <1>1
  <2>2. ASSUME n \in 1 .. k PROVE n # k + 1  BY <1>1, <2>2
  <2> QED BY <1>6, <1>8, <1>9, <2>1, <2>2
<1>11. a = b  BY <1>8, <1>9, <1>10, SeqEqual
<1> QED BY <1>11 DEF longer, s, a, b, v

-----------------------------------------------------------------------------
(* Bitmaps grow by whole bytes, just before they are too short.            *)
LEMMA ByteSizes ==
  ASSUME NEW n \in Nat
  PROVE  /\ Bytes(n) \in Nat /\ n <= Bytes(n) * BitsPerByte /\ Bytes(n) * BitsPerByte < n + BitsPerByte
         /\ Bytes(n) * BitsPerByte \in Nat /\ BitsPerByte \in Nat \ {0}
<1>1. BitsPerByte \in Nat \ {0}  BY PageAssumption DEF PageAssumption
<1> QED BY <1>1, CeilBounds DEF Bytes

LEMMA NextByte ==
  ASSUME NEW n \in Nat
  PROVE  /\ Bytes(n + 1) = n \div BitsPerByte + 1
         /\ Bytes(n + 1) > Bytes(n) => Bytes(n + 1) = Bytes(n) + 1 /\ n = Bytes(n) * BitsPerByte
         /\ ~(Bytes(n + 1) > Bytes(n)) => Bytes(n + 1) = Bytes(n) /\ n + 1 <= Bytes(n) * BitsPerByte
<1> DEFINE b == BitsPerByte
           p == Bytes(n)
           q == Bytes(n + 1)
           d == n \div b
<1>1. /\ p \in Nat /\ p * b \in Nat /\ n <= p * b /\ p * b < n + b
      /\ q \in Nat /\ q * b \in Nat /\ n + 1 <= q * b /\ q * b < n + 1 + b /\ b \in Nat \ {0}
  <2>1. n + 1 \in Nat  OBVIOUS
  <2>2. /\ p \in Nat /\ p * b \in Nat /\ n <= p * b /\ p * b < n + b /\ b \in Nat \ {0}
    BY ByteSizes
  <2>3. q \in Nat /\ q * b \in Nat /\ n + 1 <= q * b /\ q * b < n + 1 + b
    <3> HIDE DEF p
    <3> QED BY <2>1, ByteSizes
  <2> QED BY <2>2, <2>3
<1>2. d \in Nat /\ b * d <= n /\ n < b * (d + 1)
  <2>1. b \in Nat \ {0}  BY <1>1
  <2> HIDE DEF b
  <2> QED BY <2>1, DivBounds
<1>3. q = d + 1
  <2> HIDE DEF d, p, q
  <2>1. n + 1 <= (d + 1) * b /\ (d + 1) * b < n + 1 + b
    <3>1. (d + 1) * b = b * (d + 1) /\ b * (d + 1) = b * d + b  BY <1>1, <1>2, SMTT(30) DEF b
    <3>2. b * d \in Nat  BY <1>1, <1>2, SMTT(30)
    <3> HIDE DEF b
    <3> QED BY <1>1, <1>2, <3>1, <3>2
  <2>2. (n + 1 + b - 1) \div b = d + 1
    <3> HIDE DEF b
    <3>1. d + 1 \in Nat /\ n + 1 \in Nat  BY <1>2
    <3> QED BY <1>1, <2>1, <3>1, CeilUnique
  <2> QED BY <2>2 DEF q, Bytes, b
<1> HIDE DEF p, q, b, d
<1>4. ASSUME NEW x \in Nat, NEW y \in Nat, x < y PROVE x * b + b <= y * b
  <2>1. (x + 1) * b <= y * b  BY <1>1, <1>4, TimesMonotonic
  <2>2. (x + 1) * b = x * b + b  BY <1>1, SMTT(30)
  <2> QED BY <2>1, <2>2
<1>5. q > p => n = p * b /\ q = p + 1
  <2> SUFFICES ASSUME p < q PROVE n = p * b /\ q = p + 1
    BY <1>1
  <2>1. p * b + b <= q * b  BY <1>1, <1>4
  <2>2. n = p * b  BY <1>1, <2>1
  <2>3. ~(p + 1 < q)
    <3> SUFFICES ASSUME p + 1 < q PROVE FALSE
      OBVIOUS
    <3>1. (p + 1) * b + b <= q * b  BY <1>1, <1>4
    <3>2. (p + 1) * b = p * b + b  BY <1>1, SMTT(30)
    <3> QED BY <1>1, <2>2, <3>1, <3>2
  <2> QED BY <1>1, <2>2, <2>3
<1>6. ~(q > p) => q = p /\ n + 1 <= p * b
  <2> SUFFICES ASSUME ~(q > p) PROVE q = p /\ n + 1 <= p * b
    OBVIOUS
  <2>1. ~(q < p)
    <3> SUFFICES ASSUME q < p PROVE FALSE
      OBVIOUS
    <3>1. q * b + b <= p * b  BY <1>1, <1>4
    <3> QED BY <1>1, <3>1
  <2>2. q = p  BY <1>1, <2>1
  <2> QED BY <1>1, <2>2
<1> QED BY <1>1, <1>3, <1>5, <1>6 DEF p, q, b, d

(* What a bitmap of a column is: a bit for every row, in whole bytes.      *)
BitmapOf(bits, n) == bits \in Seq(BOOLEAN) /\ Len(bits) = Bytes(n) * BitsPerByte

LEMMA BitPushed ==
  ASSUME NEW type, NEW n \in Nat, NEW bits, BitmapOf(bits, n), NEW bit \in BOOLEAN
  PROVE  LET new == PushBit(type, bits, n, bit)
         IN  /\ BitmapOf(new, n + 1) /\ new[n + 1] = bit
             /\ \A m \in 1 .. n : new[m] = bits[m]
<1> DEFINE b == BitsPerByte
           p == Bytes(n)
           q == Bytes(n + 1)
           byte == [m \in 1 .. b |-> m = 1 /\ bit]
           long == bits \o byte
           set == [bits EXCEPT ![n + 1] = bit]
           new == PushBit(type, bits, n, bit)
<1>1. p \in Nat /\ p * b \in Nat /\ n <= p * b /\ b \in Nat \ {0} /\ q \in Nat
  <2>1. p \in Nat /\ p * b \in Nat /\ n <= p * b /\ b \in Nat \ {0}  BY ByteSizes
  <2>2. n + 1 \in Nat  OBVIOUS
  <2>3. q \in Nat  BY <2>2, ByteSizes
  <2> QED BY <2>1, <2>3
<1>2. q = n \div b + 1  BY NextByte
<1>3. q > p => q = p + 1 /\ n = p * b  BY NextByte
<1>4. ~(q > p) => q = p /\ n + 1 <= p * b  BY NextByte
<1>5. bits \in Seq(BOOLEAN) /\ Len(bits) = p * b  BY DEF BitmapOf
<1>6. Len(bits) \div b = p
  <2> HIDE DEF p, b
  <2> QED BY <1>1, <1>5, DivOfMultiple
<1>7. new = IF q > p THEN long ELSE set
  BY <1>2, <1>6 DEF PushBit, NewByte
<1>8. CASE q > p
  <2>1. q = p + 1 /\ n = p * b /\ new = long  BY <1>3, <1>7, <1>8
  <2>2. byte \in Seq(BOOLEAN) /\ Len(byte) = b /\ byte[1] = bit
    BY <1>1
  <2> HIDE DEF byte, new, p, q
  <2>3. long \in Seq(BOOLEAN) /\ Len(long) = Len(bits) + b
    BY <1>1, <1>5, <2>2
  <2>4. \A m \in 1 .. Len(bits) : long[m] = bits[m]  BY <1>5, <2>2
  <2>5. long[Len(bits) + 1] = byte[1]  BY <1>1, <1>5, <2>2
  <2>6. (p + 1) * b = p * b + b  BY <1>1, SMTT(30)
  <2> HIDE DEF long, b
  <2>7. Len(new) = q * b /\ new \in Seq(BOOLEAN)  BY <1>5, <2>1, <2>3, <2>6
  <2>8. new[n + 1] = bit  BY <1>5, <2>1, <2>2, <2>5
  <2>9. \A m \in 1 .. n : new[m] = bits[m]  BY <1>5, <2>1, <2>4
  <2> QED BY <2>7, <2>8, <2>9 DEF BitmapOf, q, b, new
<1>9. CASE ~(q > p)
  <2>1. q = p /\ n + 1 <= p * b /\ new = set  BY <1>4, <1>7, <1>9
  <2> HIDE DEF new, p, q, b
  <2>2. n + 1 \in 1 .. Len(bits)  BY <1>5, <2>1
  <2>3. set \in Seq(BOOLEAN) /\ Len(set) = Len(bits)  BY <1>5, <2>2
  <2>4. set[n + 1] = bit /\ \A m \in 1 .. n : set[m] = bits[m]  BY <1>5, <2>2
  <2> HIDE DEF set
  <2> QED BY <1>5, <2>1, <2>3, <2>4 DEF BitmapOf, q, b, new
<1> QED BY <1>8, <1>9
-----------------------------------------------------------------------------
(* The ranges of a call of the pool: they cover its tasks.                 *)
LEMMA Cuts ==
  ASSUME NEW tasks \in Nat
  PROVE  /\ BeginIdx(1, tasks) = 0 /\ BeginIdx(Workers + 1, tasks) = tasks
         /\ \A w \in 1 .. Workers :
              /\ BeginIdx(w, tasks) \in Nat /\ BeginIdx(w + 1, tasks) \in Nat
              /\ BeginIdx(w, tasks) <= BeginIdx(w + 1, tasks) /\ BeginIdx(w + 1, tasks) <= tasks
<1> DEFINE base == tasks \div Workers
           rem == tasks % Workers
           less(k) == IF k < rem THEN k ELSE rem
<1>1. Workers \in Nat \ {0}  BY FilterAssumption, ColumnsAssumption DEF FilterAssumption, ColumnsAssumption
<1>2. base \in Nat /\ rem \in 0 .. Workers - 1 /\ tasks = Workers * base + rem  BY <1>1, DivMod
<1>3. \A w : BeginIdx(w, tasks) = (w - 1) * base + less(w - 1)  BY DEF BeginIdx
<1> HIDE DEF base, rem
<1>4. \A k \in Nat : k * base \in Nat /\ (k + 1) * base = k * base + base  BY <1>2, SMTT(30)
<1>5. ASSUME NEW k \in Nat, k <= Workers PROVE k * base <= Workers * base
  BY <1>1, <1>2, <1>5, TimesMonotonic
<1>6. BeginIdx(1, tasks) = 0
  <2>1. BeginIdx(1, tasks) = 0 * base + less(0)
    <3>1. BeginIdx(1, tasks) = (1 - 1) * base + less(1 - 1)  BY <1>3
    <3> QED BY <3>1
  <2>2. 0 * base = 0 /\ less(0) = 0  BY <1>2, SMTT(30)
  <2> HIDE DEF less
  <2> QED BY <2>1, <2>2
<1>7. ASSUME NEW w \in 1 .. Workers
      PROVE  /\ BeginIdx(w, tasks) = (w - 1) * base + less(w - 1)
             /\ BeginIdx(w + 1, tasks) = w * base + less(w)
             /\ w * base = (w - 1) * base + base /\ (w - 1) * base \in Nat
  <2>1. w - 1 \in Nat /\ (w - 1) + 1 = w /\ (w + 1) - 1 = w  BY <1>1
  <2>2. BeginIdx(w + 1, tasks) = ((w + 1) - 1) * base + less((w + 1) - 1)  BY <1>3
  <2> HIDE DEF less
  <2> QED BY <1>3, <1>4, <2>1, <2>2
<1>8. BeginIdx(Workers + 1, tasks) = tasks
  <2>1. Workers \in 1 .. Workers  BY <1>1
  <2>2. BeginIdx(Workers + 1, tasks) = Workers * base + less(Workers)  BY <1>7, <2>1
  <2>3. less(Workers) = rem  BY <1>1, <1>2
  <2> QED BY <1>2, <2>2, <2>3
<1>9. ASSUME NEW w \in 1 .. Workers
      PROVE  /\ BeginIdx(w, tasks) \in Nat /\ BeginIdx(w + 1, tasks) \in Nat
             /\ BeginIdx(w, tasks) <= BeginIdx(w + 1, tasks) /\ BeginIdx(w + 1, tasks) <= tasks
  <2>1. w \in Nat /\ w <= Workers /\ w * base <= Workers * base /\ w * base \in Nat /\ Workers * base \in Nat
    BY <1>1, <1>4, <1>5
  <2>2. less(w - 1) \in Nat /\ less(w) \in Nat /\ less(w - 1) <= less(w) /\ less(w) <= rem
    BY <1>1, <1>2, <2>1
  <2>3. Workers * base \in Nat /\ (w - 1) * base \in Nat /\ w * base = (w - 1) * base + base
    BY <1>7, <2>1
  <2>4. BeginIdx(w, tasks) = (w - 1) * base + less(w - 1) /\ BeginIdx(w + 1, tasks) = w * base + less(w)
    BY <1>7
  <2> DEFINE a == (w - 1) * base
             c == w * base
             e == Workers * base
             x == less(w - 1)
             y == less(w)
  <2>5. /\ a \in Nat /\ c \in Nat /\ e \in Nat /\ x \in Nat /\ y \in Nat /\ x <= y /\ y <= rem
        /\ c = a + base /\ c <= e /\ tasks = e + rem
        /\ BeginIdx(w, tasks) = a + x /\ BeginIdx(w + 1, tasks) = c + y
    BY <1>2, <2>1, <2>2, <2>3, <2>4
  <2> HIDE DEF a, c, e, x, y
  <2> QED BY <1>2, <2>5
<1> QED BY <1>6, <1>8, <1>9

LEMMA Covered ==
  ASSUME NEW tasks \in Nat, NEW x \in 0 .. tasks - 1
  PROVE  \E w \in 1 .. Workers : BeginIdx(w, tasks) <= x /\ x < BeginIdx(w + 1, tasks)
<1> DEFINE In(w) == BeginIdx(w, tasks) <= x /\ x < BeginIdx(w + 1, tasks)
           S == {w \in Nat : w <= Workers /\ x < BeginIdx(w + 1, tasks) => \E v \in 1 .. Workers : In(v)}
<1>1. Workers \in Nat \ {0}  BY FilterAssumption, ColumnsAssumption DEF FilterAssumption, ColumnsAssumption
<1>2. 0 \in S
  <2>1. BeginIdx(0 + 1, tasks) = 0  BY Cuts
  <2> QED BY <2>1
<1>3. ASSUME NEW w \in Nat, w \in S PROVE w + 1 \in S
  <2> SUFFICES ASSUME w + 1 <= Workers, x < BeginIdx((w + 1) + 1, tasks) PROVE \E v \in 1 .. Workers : In(v)
    BY <1>3
  <2>1. w + 1 \in 1 .. Workers /\ w <= Workers  BY <1>1
  <2>2. BeginIdx(w + 1, tasks) \in Nat  BY <2>1, Cuts
  <2>3. CASE x < BeginIdx(w + 1, tasks)  BY <1>3, <2>1, <2>3
  <2>4. CASE BeginIdx(w + 1, tasks) <= x
    <3>1. In(w + 1)  BY <2>4
    <3> QED BY <2>1, <3>1
  <2> QED BY <2>2, <2>3, <2>4
<1> HIDE DEF S
<1>4. Workers \in S  BY <1>1, <1>2, <1>3, NatSetInduction
<1>5. BeginIdx(Workers + 1, tasks) = tasks  BY Cuts
<1>6. x < tasks /\ Workers <= Workers  BY <1>1
<1> QED BY <1>4, <1>5, <1>6 DEF S

-----------------------------------------------------------------------------
(* Statements.                                                             *)
DepthOf(s) == CHOOSE depth \in [0 .. Len(s) -> 0 .. Len(s)] : PostOrder(s, depth)

LEMMA Statement ==
  ASSUME NEW s \in Statements
  PROVE  /\ Len(s) \in Nat /\ s \in Seq({s[n] : n \in DOMAIN s}) /\ s # NoFilter
         /\ \A n \in 1 .. Len(s) : s[n].op \in Operations /\ (IsComparison(s[n]) => s[n].column \in Columns)
         /\ DepthOf(s) \in [0 .. Len(s) -> 0 .. Len(s)]
         /\ DepthOf(s)[0] = 0 /\ DepthOf(s)[Len(s)] = 1
         /\ \A n \in 1 .. Len(s) : /\ DepthOf(s)[n - 1] \in Nat /\ DepthOf(s)[n - 1] >= Operands(s[n])
                                   /\ DepthOf(s)[n] = DepthOf(s)[n - 1] - Operands(s[n]) + 1
<1>1. IsStatement(s) /\ s # NoFilter  BY StatementsAssumption DEF StatementsAssumption
<1>2. Len(s) \in Nat /\ s \in Seq({s[n] : n \in DOMAIN s}) /\ DOMAIN s = 1 .. Len(s)
  BY <1>1 DEF IsStatement
<1>3. DepthOf(s) \in [0 .. Len(s) -> 0 .. Len(s)] /\ PostOrder(s, DepthOf(s))
  <2> DEFINE F == [0 .. Len(s) -> 0 .. Len(s)]
             P(d) == PostOrder(s, d)
             c == CHOOSE d \in F : P(d)
  <2>1. \E d \in F : P(d)  BY <1>1 DEF IsStatement
  <2> HIDE DEF F, P
  <2>2. c \in F /\ P(c)  BY <2>1, Zenon
  <2> QED BY <2>2 DEF F, P, DepthOf
<1>4. \A n \in 1 .. Len(s) : DepthOf(s)[n - 1] \in Nat  BY <1>2, <1>3
<1> QED BY <1>1, <1>2, <1>3, <1>4 DEF IsStatement, PostOrder

(* One node: its operands are replaced by its truth.                       *)
LastTruth(truths, node, record) ==
  CASE node.op = "NOT" -> ~truths[Len(truths)]
    [] node.op = "AND" -> truths[Len(truths) - 1] /\ truths[Len(truths)]
    [] node.op = "OR"  -> truths[Len(truths) - 1] \/ truths[Len(truths)]
    [] OTHER -> RecordHolds(node, record)

LEMMA FrontOf ==
  ASSUME NEW t \in Seq(BOOLEAN)
  PROVE  /\ Front(t) \in Seq(BOOLEAN)
         /\ Len(t) > 0 => Len(Front(t)) = Len(t) - 1 /\ \A j \in 1 .. Len(t) - 1 : Front(t)[j] = t[j]
<1> DEFINE front == SubSeq(t, 1, Len(t) - 1)
<1>1. front \in Seq(BOOLEAN)  OBVIOUS
<1>2. Len(t) > 0 => Len(front) = Len(t) - 1 /\ \A j \in 1 .. Len(t) - 1 : front[j] = t[j]
  <2> SUFFICES ASSUME Len(t) > 0 PROVE Len(front) = Len(t) - 1 /\ \A j \in 1 .. Len(t) - 1 : front[j] = t[j]
    OBVIOUS
  <2> DEFINE m == 1
             n == Len(t) - 1
  <2>1. t \in Seq(BOOLEAN) /\ m \in 1 .. Len(t) + 1 /\ n \in m - 1 .. Len(t)  OBVIOUS
  <2> HIDE DEF m, n
  <2>2. /\ Len(SubSeq(t, m, n)) = IF m <= n THEN n - m + 1 ELSE 0
        /\ \A i \in 1 .. n - m + 1 : SubSeq(t, m, n)[i] = t[m + i - 1]
    BY <2>1, SubSeqProperties
  <2> QED BY <2>2 DEF m, n
<1> QED BY <1>1, <1>2 DEF Front

LEMMA NodeStep ==
  ASSUME NEW t \in Seq(BOOLEAN), NEW node, NEW record
  PROVE  LET new == RecordStep(t, node, record)
             d == Len(t) - Operands(node)
         IN  /\ new \in Seq(BOOLEAN) /\ LastTruth(t, node, record) \in BOOLEAN
             /\ d >= 0 => /\ Len(new) = d + 1 /\ new[d + 1] = LastTruth(t, node, record)
                          /\ \A j \in 1 .. d : new[j] = t[j]
<1> DEFINE new == RecordStep(t, node, record)
           last == LastTruth(t, node, record)
           front == Front(t)
           front2 == Front(front)
<1>2. RecordHolds(node, record) \in BOOLEAN  BY DEF RecordHolds
<1>3. last \in BOOLEAN  BY <1>2 DEF LastTruth
<1>4. /\ front \in Seq(BOOLEAN)
      /\ Len(t) > 0 => Len(front) = Len(t) - 1 /\ \A j \in 1 .. Len(t) - 1 : front[j] = t[j]
  BY FrontOf
<1>5. /\ front2 \in Seq(BOOLEAN)
      /\ Len(front) > 0 => Len(front2) = Len(front) - 1 /\ \A j \in 1 .. Len(front) - 1 : front2[j] = front[j]
  <2> HIDE DEF front
  <2> QED BY <1>4, FrontOf
<1>6. CASE node.op = "NOT"
  <2>1. new = Append(front, last) /\ Operands(node) = 1  BY <1>6 DEF RecordStep, LastTruth, Operands
  <2> HIDE DEF new, last, front
  <2> QED BY <1>3, <1>4, <2>1 DEF new, last
<1>7. CASE node.op \in {"AND", "OR"}
  <2>1. new = Append(front2, last) /\ Operands(node) = 2
    <3>1. CASE node.op = "AND"  BY <3>1 DEF RecordStep, LastTruth, Operands
    <3>2. CASE node.op = "OR"  BY <3>2 DEF RecordStep, LastTruth, Operands
    <3> QED BY <1>7, <3>1, <3>2
  <2>2. Len(t) > 1 => Len(front2) = Len(t) - 2 /\ \A j \in 1 .. Len(t) - 2 : front2[j] = t[j]
    <3> HIDE DEF front, front2
    <3> QED BY <1>4, <1>5
  <2> HIDE DEF new, last, front, front2
  <2> QED BY <1>3, <1>5, <2>1, <2>2 DEF new, last
<1>8. CASE node.op \notin {"NOT", "AND", "OR"}
  <2>1. new = Append(t, last) /\ Operands(node) = 0  BY <1>8 DEF RecordStep, LastTruth, Operands
  <2> HIDE DEF new, last
  <2> QED BY <1>3, <2>1 DEF new, last
<1> QED BY <1>6, <1>7, <1>8

LEMMA TruthsAre ==
  ASSUME NEW s, Len(s) \in Nat, NEW record
  PROVE  /\ Truths(s, record) \in [0 .. Len(s) -> Seq(BOOLEAN)] /\ Truths(s, record)[0] = <<>>
         /\ \A n \in 1 .. Len(s) : Truths(s, record)[n] = RecordStep(Truths(s, record)[n - 1], s[n], record)
<1> DEFINE N == Len(s)
           D == Seq(BOOLEAN)
           R(f) == f = [n \in 0 .. N |-> IF n = 0 THEN <<>> ELSE RecordStep(f[n - 1], s[n], record)]
           read == CHOOSE f : R(f)
           G == [x \in (1 .. N) \X D |-> RecordStep(x[2], s[x[1]], record)]
<1>1. N \in Nat /\ <<>> \in D  OBVIOUS
<1>2. \A t \in D : \A n : RecordStep(t, s[n], record) \in D  BY NodeStep
<1>3. G \in StepsOf(N, D)
  <2> HIDE DEF D, N
  <2> QED BY <1>2 DEF StepsOf
<1>4. PICK f : Iterates(f, N, D, <<>>, G)
  <2> HIDE DEF G, D, N
  <2> QED BY <1>1, <1>3, RecursionExists
<1>5. f \in [0 .. N -> D] /\ f[0] = <<>> /\ \A n \in 1 .. N : f[n] = RecordStep(f[n - 1], s[n], record)
  <2>1. ASSUME NEW n \in 1 .. N PROVE f[n] = RecordStep(f[n - 1], s[n], record)
    <3>1. n - 1 \in 0 .. N  BY <1>1
    <3> HIDE DEF D
    <3>2. <<n, f[n - 1]>> \in (1 .. N) \X D /\ f[n] = G[<<n, f[n - 1]>>]
      BY <1>4, <3>1 DEF Iterates
    <3> QED BY <3>2
  <2> QED BY <1>4, <2>1 DEF Iterates
<1>6. R(f)
  <2>1. \A n \in 0 .. N : f[n] = IF n = 0 THEN <<>> ELSE RecordStep(f[n - 1], s[n], record)
    BY <1>5
  <2> QED BY <1>5, <2>1
<1>7. R(read)  BY <1>6, Zenon
<1>8. Truths(s, record) = read  BY DEF Truths
<1> HIDE DEF read, D
<1>9. \A n \in 0 .. N : read[n] = IF n = 0 THEN <<>> ELSE RecordStep(read[n - 1], s[n], record)
  BY <1>7
<1>10. 0 \in 0 .. N /\ 1 .. N \subseteq 0 .. N  BY <1>1
<1>11. read[0] = <<>> /\ \A n \in 1 .. N : read[n] = RecordStep(read[n - 1], s[n], record)
  BY <1>9, <1>10
<1> DEFINE T == {n \in Nat : n <= N => read[n] \in D}
<1>12. 0 \in T  BY <1>1, <1>11
<1>13. ASSUME NEW n \in Nat, n \in T PROVE n + 1 \in T
  <2> SUFFICES ASSUME n + 1 <= N PROVE read[n + 1] \in D
    OBVIOUS
  <2>1. n + 1 \in 1 .. N /\ (n + 1) - 1 = n /\ read[n] \in D  BY <1>1, <1>13
  <2>2. read[n + 1] = RecordStep(read[n], s[n + 1], record)  BY <1>11, <2>1
  <2> QED BY <1>2, <2>1, <2>2
<1> HIDE DEF T
<1>14. Nat \subseteq T  BY <1>12, <1>13, NatSetInduction
<1>15. \A n \in 0 .. N : read[n] \in D  BY <1>1, <1>14 DEF T
<1>16. read \in [0 .. N -> D]  BY <1>7, <1>15
<1> QED BY <1>8, <1>11, <1>16 DEF D

(* As many results wait after a node as its depth says.                    *)
LEMMA TruthsWait ==
  ASSUME NEW s \in Statements, NEW record
  PROVE  \A n \in 0 .. Len(s) : /\ Truths(s, record)[n] \in Seq(BOOLEAN)
                                /\ Len(Truths(s, record)[n]) = DepthOf(s)[n]
<1> DEFINE t == Truths(s, record)
           T == {n \in Nat : n <= Len(s) => Len(t[n]) = DepthOf(s)[n]}
<1>1. Len(s) \in Nat  BY Statement
<1>2. t \in [0 .. Len(s) -> Seq(BOOLEAN)] /\ t[0] = <<>>
      /\ \A n \in 1 .. Len(s) : t[n] = RecordStep(t[n - 1], s[n], record)
  BY <1>1, TruthsAre
<1> HIDE DEF t
<1>3. 0 \in T  BY <1>2, Statement
<1>4. ASSUME NEW n \in Nat, n \in T PROVE n + 1 \in T
  <2> SUFFICES ASSUME n + 1 <= Len(s) PROVE Len(t[n + 1]) = DepthOf(s)[n + 1]
    OBVIOUS
  <2>1. n + 1 \in 1 .. Len(s) /\ (n + 1) - 1 = n /\ n \in 0 .. Len(s)  BY <1>1
  <2>2. Len(t[n]) = DepthOf(s)[n] /\ t[n] \in Seq(BOOLEAN)  BY <1>1, <1>2, <1>4, <2>1
  <2>3. /\ DepthOf(s)[n] \in Nat /\ DepthOf(s)[n] >= Operands(s[n + 1])
        /\ DepthOf(s)[n + 1] = DepthOf(s)[n] - Operands(s[n + 1]) + 1
    BY <2>1, Statement
  <2>4. t[n + 1] = RecordStep(t[n], s[n + 1], record)  BY <1>2, <2>1
  <2>5. Operands(s[n + 1]) \in Nat  BY DEF Operands
  <2>6. Len(t[n]) - Operands(s[n + 1]) >= 0  BY <2>2, <2>3, <2>5
  <2>7. Len(t[n + 1]) = Len(t[n]) - Operands(s[n + 1]) + 1  BY <2>2, <2>4, <2>6, NodeStep
  <2> QED BY <2>2, <2>3, <2>7
<1> HIDE DEF T
<1>5. Nat \subseteq T  BY <1>3, <1>4, NatSetInduction
<1>6. \A n \in 0 .. Len(s) : Len(t[n]) = DepthOf(s)[n]  BY <1>1, <1>5 DEF T
<1> QED BY <1>2, <1>6 DEF t

-----------------------------------------------------------------------------
(* The table: a column has, in its values and in its bitmap, what the       *)
(* records have.                                                           *)
Stored == Values \cup {Default[t] : t \in {"int", "text"}}
Loaded ==
  /\ records \in Seq([Columns -> Values])
  /\ data \in [Columns -> Seq(Stored)] /\ bitmap \in [Columns -> Seq(BOOLEAN)]
  /\ \A c \in Columns :
       /\ Len(data[c]) = Rows /\ BitmapOf(bitmap[c], Rows)
       /\ \A n \in 1 .. Rows : /\ bitmap[c][n] = (records[n][c] # Null)
                               /\ records[n][c] # Null => data[c][n] = records[n][c]

(* The statement is evaluated as far as its first p nodes: as many bitmaps  *)
(* wait as results of a record would, with the results of every record.    *)
Remains(p) ==
  /\ todo \in Seq({statement[n] : n \in DOMAIN statement}) /\ Len(todo) = Len(statement) - p
  /\ \A j \in 1 .. Len(todo) : todo[j] = statement[p + j]
Waiting(p) ==
  /\ stack \in Seq(Seq(BOOLEAN)) /\ Len(stack) = DepthOf(statement)[p]
  /\ \A j \in 1 .. Len(stack) :
       /\ BitmapOf(stack[j], Rows)
       /\ \A n \in 1 .. Rows : stack[j][n] = Truths(statement, records[n])[p][j]
Unfiltered ==
  /\ statement = NoFilter /\ todo = <<>> /\ stack \in Seq(Seq(BOOLEAN)) /\ Len(stack) = 1
  /\ \A n \in 1 .. Rows : stack[1][n] = TRUE
EvaluatedSoFar ==
  phase \in {"eval", "operation"} =>
    \/ Unfiltered
    \/ statement \in Statements /\ \E p \in 0 .. Len(statement) : Remains(p) /\ Waiting(p)

(* A call of the pool: what is left of the ranges it cut, and the bytes     *)
(* before that are filled.                                                 *)
Divided(tasks) ==
  /\ range \in [1 .. Workers -> Nat \X Nat]
  /\ \A w \in 1 .. Workers :
       range[w][2] = BeginIdx(w + 1, tasks) /\ BeginIdx(w, tasks) <= range[w][1] /\ range[w][1] <= range[w][2]
Past(w, tasks, x) == BeginIdx(w, tasks) <= x /\ x < range[w][1]
Operating ==
  phase = "operation" =>
    /\ todo # <<>> /\ Node.op # "IS_NOT_NULL"
    /\ BitmapOf(ret, Rows) /\ Divided(Bytes(Rows))
    /\ \A w \in 1 .. Workers : \A n \in 1 .. Len(ret) :
         Past(w, Bytes(Rows), (n - 1) \div BitsPerByte) => ret[n] = BitOf(Node, n)

-----------------------------------------------------------------------------
LEMMA RowsAre == ASSUME Loaded PROVE Rows \in Nat /\ \A n \in 1 .. Rows : records[n] \in [Columns -> Values]
BY DEF Loaded, Rows

LEMMA AddLoads ==
  ASSUME Loaded, AddRecord
  PROVE  Loaded'
<1>1. PICK record \in [Columns -> Values] :
       /\ records' = Append(records, record)
       /\ data' = [c \in Columns |-> Append(data[c], IF record[c] = Null THEN Default[Types[c]] ELSE record[c])]
       /\ bitmap' = [c \in Columns |-> PushBit(Types[c], bitmap[c], Len(data[c]), record[c] # Null)]
  BY DEF AddRecord
<1> DEFINE k == Rows
<1>2. k \in Nat /\ records \in Seq([Columns -> Values]) /\ Len(records) = k
  BY RowsAre DEF Loaded, Rows
<1>3. /\ records' \in Seq([Columns -> Values]) /\ Len(records') = k + 1 /\ records'[k + 1] = record
      /\ \A n \in 1 .. k : records'[n] = records[n]
  BY <1>1, <1>2
<1>4. Rows' = k + 1  BY <1>3 DEF Rows
<1> HIDE DEF k
<1>5. ASSUME NEW c \in Columns
      PROVE  /\ data'[c] \in Seq(Stored) /\ Len(data'[c]) = k + 1
             /\ bitmap'[c] \in Seq(BOOLEAN) /\ BitmapOf(bitmap'[c], k + 1)
             /\ \A n \in 1 .. k + 1 :
                  bitmap'[c][n] = (records'[n][c] # Null) /\ (records'[n][c] # Null => data'[c][n] = records'[n][c])
  <2> DEFINE x == IF record[c] = Null THEN Default[Types[c]] ELSE record[c]
             bit == record[c] # Null
             ds == data[c]
             bs == bitmap[c]
             new == PushBit(Types[c], bs, k, bit)
  <2>1. /\ ds \in Seq(Stored) /\ Len(ds) = k /\ BitmapOf(bs, k)
        /\ \A n \in 1 .. k : bs[n] = (records[n][c] # Null) /\ (records[n][c] # Null => ds[n] = records[n][c])
    BY DEF Loaded, k
  <2>2. x \in Stored
    <3>1. Types[c] \in {"int", "text"}  BY FilterAssumption, ColumnsAssumption DEF FilterAssumption, ColumnsAssumption, Columns
    <3> QED BY <3>1 DEF Stored
  <2>3. data'[c] = Append(ds, x) /\ bitmap'[c] = new  BY <1>1, <2>1
  <2>4. bit \in BOOLEAN /\ (record[c] # Null => x = record[c])  OBVIOUS
  <2>5. bit = (record[c] # Null)  OBVIOUS
  <2> HIDE DEF x, bit, ds, bs
  <2>6. BitmapOf(new, k + 1) /\ new[k + 1] = bit /\ \A n \in 1 .. k : new[n] = bs[n]
    BY <1>2, <2>1, <2>4, BitPushed
  <2> HIDE DEF new
  <2>7. /\ data'[c] \in Seq(Stored) /\ Len(data'[c]) = k + 1 /\ data'[c][k + 1] = x
        /\ \A n \in 1 .. k : data'[c][n] = ds[n]
    BY <1>2, <2>1, <2>2, <2>3
  <2>8. new \in Seq(BOOLEAN)  BY <2>6 DEF BitmapOf
  <2>9. ASSUME NEW n \in 1 .. k + 1
        PROVE  bitmap'[c][n] = (records'[n][c] # Null) /\ (records'[n][c] # Null => data'[c][n] = records'[n][c])
    <3>1. CASE n = k + 1  BY <1>3, <2>3, <2>4, <2>5, <2>6, <2>7, <3>1
    <3>2. CASE n # k + 1
      <4>1. n \in 1 .. k  BY <1>2, <3>2
      <4> QED BY <1>3, <2>1, <2>3, <2>6, <2>7, <4>1
    <3> QED BY <3>1, <3>2
  <2> QED BY <2>3, <2>6, <2>7, <2>8, <2>9
<1>6. data' \in [Columns -> Seq(Stored)] /\ bitmap' \in [Columns -> Seq(BOOLEAN)]
  <2>1. data' = [c \in Columns |-> data'[c]] /\ bitmap' = [c \in Columns |-> bitmap'[c]]
    BY <1>1
  <2> QED BY <1>5, <2>1
<1> QED BY <1>3, <1>4, <1>5, <1>6 DEF Loaded

LEMMA StaysLoaded == ASSUME Loaded, UNCHANGED tableVars PROVE Loaded' /\ Rows' = Rows
BY DEF Loaded, tableVars, Rows, BitmapOf, Columns

(* The pool's ranges at the start of a call, after a task, and at its end. *)
LEMMA StartDivides ==
  ASSUME NEW tasks \in Nat, range' = Ranges(tasks)
  PROVE  Divided(tasks)' /\ \A w \in 1 .. Workers, x \in Nat : ~Past(w, tasks, x)'
<1>1. \A w \in 1 .. Workers :
        /\ BeginIdx(w, tasks) \in Nat /\ BeginIdx(w + 1, tasks) \in Nat
        /\ BeginIdx(w, tasks) <= BeginIdx(w + 1, tasks)
  BY Cuts
<1>2. range' \in [1 .. Workers -> Nat \X Nat]  BY <1>1 DEF Ranges
<1>3. \A w \in 1 .. Workers : range'[w][1] = BeginIdx(w, tasks) /\ range'[w][2] = BeginIdx(w + 1, tasks)
  BY DEF Ranges
<1>4. \A w, t : BeginIdx(w, t)' = BeginIdx(w, t)  BY DEF BeginIdx
<1>5. Divided(tasks)'  BY <1>1, <1>2, <1>3 DEF Divided
<1>6. \A w \in 1 .. Workers, x \in Nat : ~Past(w, tasks, x)'  BY <1>1, <1>3 DEF Past
<1> QED BY <1>5, <1>6

LEMMA TaskDivides ==
  ASSUME NEW tasks \in Nat, Divided(tasks), NEW w \in 1 .. Workers, range[w][1] < range[w][2],
         range' = [range EXCEPT ![w][1] = @ + 1]
  PROVE  /\ Divided(tasks)' /\ range[w][1] \in 0 .. tasks - 1
         /\ \A v \in 1 .. Workers, x \in Nat : Past(v, tasks, x)' => Past(v, tasks, x) \/ x = range[w][1]
<1> DEFINE r == range[w]
<1>1. r \in Nat \X Nat /\ r = <<r[1], r[2]>> /\ r[1] \in Nat /\ r[2] \in Nat /\ r[1] + 1 <= r[2]
  BY DEF Divided
<1>2. range' = [range EXCEPT ![w] = <<r[1] + 1, r[2]>>]
  <2>1. [r EXCEPT ![1] = r[1] + 1] = <<r[1] + 1, r[2]>>
    <3> DEFINE a == r[1]
               b == r[2]
    <3>1. r = <<a, b>>  BY <1>1
    <3> HIDE DEF a, b, r
    <3>2. [r EXCEPT ![1] = a + 1] = <<a + 1, b>>  BY <3>1
    <3> QED BY <3>2 DEF a, b
  <2> QED BY <2>1
<1>3. range'[w] = <<r[1] + 1, r[2]>> /\ \A v \in 1 .. Workers : v # w => range'[v] = range[v]
  BY <1>2 DEF Divided
<1>4. range'[w][1] = r[1] + 1 /\ range'[w][2] = r[2]  BY <1>3
<1>5. range' \in [1 .. Workers -> Nat \X Nat]
  <2>1. <<r[1] + 1, r[2]>> \in Nat \X Nat  BY <1>1
  <2> QED BY <1>2, <2>1 DEF Divided
<1>6. BeginIdx(w, tasks) \in Nat /\ BeginIdx(w, tasks) <= r[1] /\ r[2] <= tasks /\ r[2] = BeginIdx(w + 1, tasks)
  BY Cuts DEF Divided
<1> HIDE DEF r
<1>7. ASSUME NEW v \in 1 .. Workers
      PROVE  /\ range'[v][2] = BeginIdx(v + 1, tasks) /\ BeginIdx(v, tasks) <= range'[v][1]
             /\ range'[v][1] <= range'[v][2]
  <2>1. CASE v = w  BY <1>1, <1>4, <1>6, <2>1
  <2>2. CASE v # w  BY <1>3, <2>2 DEF Divided
  <2> QED BY <2>1, <2>2
<1>8. Divided(tasks)'  BY <1>5, <1>7 DEF Divided
<1>9. ASSUME NEW v \in 1 .. Workers, NEW x \in Nat, Past(v, tasks, x)'
      PROVE  Past(v, tasks, x) \/ x = r[1]
  <2>1. BeginIdx(v, tasks) <= x /\ x < range'[v][1]  BY <1>9 DEF Past
  <2>2. CASE v = w  BY <1>1, <1>4, <2>1, <2>2 DEF Past, r
  <2>3. CASE v # w  BY <1>3, <2>1, <2>3 DEF Past
  <2> QED BY <2>2, <2>3
<1> QED BY <1>1, <1>6, <1>8, <1>9 DEF r

LEMMA DoneDivides ==
  ASSUME NEW tasks \in Nat, Divided(tasks), RunDone, NEW x \in 0 .. tasks - 1
  PROVE  \E w \in 1 .. Workers : Past(w, tasks, x)
<1>1. PICK w \in 1 .. Workers : BeginIdx(w, tasks) <= x /\ x < BeginIdx(w + 1, tasks)  BY Covered
<1>2. range[w][1] = BeginIdx(w + 1, tasks)  BY DEF RunDone, Divided
<1> QED BY <1>1, <1>2 DEF Past

-----------------------------------------------------------------------------
(* The node at which the statement stands.                                 *)
LEMMA NodeAt ==
  ASSUME NEW p \in 0 .. Len(statement), statement \in Statements, Remains(p), todo # <<>>
  PROVE  /\ p + 1 \in 1 .. Len(statement) /\ Node = statement[p + 1]
         /\ Node.op \in Operations /\ (IsComparison(Node) => Node.column \in Columns)
         /\ DepthOf(statement)[p] \in Nat /\ Operands(Node) \in 0 .. DepthOf(statement)[p]
         /\ DepthOf(statement)[p + 1] = DepthOf(statement)[p] - Operands(Node) + 1
         /\ (todo' = Tail(todo) /\ statement' = statement) => Remains(p + 1)'
<1> DEFINE S == {statement[n] : n \in DOMAIN statement}
           k == Len(statement)
<1>1. k \in Nat  BY Statement
<1>2. todo \in Seq(S) /\ Len(todo) = k - p /\ \A j \in 1 .. Len(todo) : todo[j] = statement[p + j]
  BY DEF Remains
<1> HIDE DEF S, k
<1>3. Len(todo) \in Nat \ {0} /\ Head(todo) = todo[1]  BY <1>2
<1>4. p + 1 \in 1 .. k /\ Node = statement[p + 1]
  BY <1>1, <1>2, <1>3 DEF Node
<1>5. (p + 1) - 1 = p /\ p \in Nat  OBVIOUS
<1> DEFINE q == p + 1
<1>6. q \in 1 .. Len(statement)  BY <1>4 DEF k
<1> HIDE DEF q
<1>7. /\ statement[q].op \in Operations /\ (IsComparison(statement[q]) => statement[q].column \in Columns)
      /\ DepthOf(statement)[q - 1] \in Nat /\ DepthOf(statement)[q - 1] >= Operands(statement[q])
      /\ DepthOf(statement)[q] = DepthOf(statement)[q - 1] - Operands(statement[q]) + 1
  BY <1>6, Statement
<1>8. Operands(Node) \in Nat  BY DEF Operands
<1>9. ASSUME todo' = Tail(todo), statement' = statement PROVE Remains(p + 1)'
  <2>1. /\ todo' \in Seq(S) /\ Len(todo') = Len(todo) - 1
        /\ \A j \in 1 .. Len(todo) - 1 : todo'[j] = todo[j + 1]
    BY <1>2, <1>3, <1>9
  <2>2. Len(todo') = k - (p + 1)  BY <1>1, <1>2, <2>1
  <2>3. ASSUME NEW j \in 1 .. Len(todo') PROVE todo'[j] = statement[(p + 1) + j]
    <3>1. j \in 1 .. Len(todo) - 1 /\ j + 1 \in 1 .. Len(todo) /\ p + (j + 1) = (p + 1) + j
      BY <1>3, <2>1
    <3> QED BY <1>2, <2>1, <3>1
  <2> QED BY <1>9, <2>1, <2>2, <2>3 DEF Remains, S, k
<1> QED BY <1>4, <1>5, <1>7, <1>8, <1>9 DEF q, k

(* A bitmap takes the place of a node's operands.                          *)
LEMMA NodeDone ==
  ASSUME Loaded, statement \in Statements, NEW p \in 0 .. Len(statement), p + 1 \in 1 .. Len(statement),
         Waiting(p), NEW bits, BitmapOf(bits, Rows),
         \A n \in 1 .. Rows :
           bits[n] = LastTruth(Truths(statement, records[n])[p], statement[p + 1], records[n]),
         NEW d \in Nat, d = Len(stack) - Operands(statement[p + 1]),
         stack' \in Seq(Seq(BOOLEAN)), Len(stack') = d + 1, stack'[d + 1] = bits,
         \A j \in 1 .. d : stack'[j] = stack[j],
         UNCHANGED <<statement, records>>
  PROVE  Waiting(p + 1)'
<1> DEFINE q == p + 1
           k == Len(statement)
<1>1. q \in 1 .. k /\ q - 1 = p /\ k \in Nat  BY Statement
<1> HIDE DEF q
<1>2. DepthOf(statement)[q] = DepthOf(statement)[p] - Operands(statement[q]) + 1
  BY <1>1, Statement
<1>3. Len(stack) = DepthOf(statement)[p]  BY DEF Waiting
<1>4. Len(stack') = DepthOf(statement)[q]  BY <1>2, <1>3 DEF q
<1>5. Operands(statement[q]) \in Nat  BY DEF Operands
<1>6. d <= Len(stack)  BY <1>5, <1>3 DEF q, Waiting
<1>7. ASSUME NEW n \in 1 .. Rows
      PROVE  LET t == Truths(statement, records[n])
             IN  /\ Len(t[p]) = Len(stack) /\ t[p] \in Seq(BOOLEAN)
                 /\ t[q][d + 1] = LastTruth(t[p], statement[q], records[n])
                 /\ \A j \in 1 .. d : t[q][j] = t[p][j]
  <2> DEFINE t == Truths(statement, records[n])
  <2>1. t[p] \in Seq(BOOLEAN) /\ Len(t[p]) = DepthOf(statement)[p]  BY TruthsWait
  <2>2. t[q] = RecordStep(t[p], statement[q], records[n])  BY <1>1, TruthsAre
  <2>3. d = Len(t[p]) - Operands(statement[q]) /\ d >= 0  BY <1>3, <2>1 DEF q
  <2> HIDE DEF t
  <2> DEFINE u == t[p]
             node == statement[q]
             r == records[n]
  <2>4. /\ t[q][d + 1] = LastTruth(t[p], statement[q], records[n])
        /\ \A j \in 1 .. d : t[q][j] = t[p][j]
    <3>1. u \in Seq(BOOLEAN) /\ d = Len(u) - Operands(node) /\ t[q] = RecordStep(u, node, r)
      BY <2>1, <2>2, <2>3
    <3> HIDE DEF u, node, r
    <3>2. RecordStep(u, node, r)[d + 1] = LastTruth(u, node, r) /\ \A j \in 1 .. d : RecordStep(u, node, r)[j] = u[j]
      BY <3>1, NodeStep
    <3> QED BY <3>1, <3>2 DEF u, node, r
  <2> QED BY <1>3, <2>1, <2>4 DEF t
<1>8. Rows' = Rows  BY DEF Rows
<1>9. ASSUME NEW j \in 1 .. Len(stack')
      PROVE  /\ BitmapOf(stack'[j], Rows)
             /\ \A n \in 1 .. Rows : stack'[j][n] = Truths(statement, records[n])[q][j]
  <2>1. CASE j = d + 1  BY <1>7, <2>1 DEF q
  <2>2. CASE j # d + 1
    <3>1. j \in 1 .. d /\ j \in 1 .. Len(stack)  BY <1>6, <2>2
    <3>2. stack'[j] = stack[j] /\ BitmapOf(stack[j], Rows)
          /\ \A n \in 1 .. Rows : stack[j][n] = Truths(statement, records[n])[p][j]
      BY <3>1 DEF Waiting
    <3> QED BY <1>7, <3>1, <3>2
  <2> QED BY <2>1, <2>2
<1>10. \A j \in 1 .. Len(stack') :
         /\ BitmapOf(stack'[j], Rows')
         /\ \A n \in 1 .. Rows' : stack'[j][n] = Truths(statement', records'[n])[q][j]
  BY <1>8, <1>9
<1> QED BY <1>4, <1>10 DEF Waiting, q

(* A bit of a vector operation is the truth of a record.                   *)
LEMMA BitIsTruth ==
  ASSUME Loaded, statement \in Statements, NEW p \in 0 .. Len(statement), Remains(p), Waiting(p),
         todo # <<>>, NEW n \in 1 .. Rows
  PROVE  LET t == Truths(statement, records[n])[p]
         IN  /\ Node.op # "IS_NOT_NULL" => BitOf(Node, n) = LastTruth(t, Node, records[n])
             /\ Node.op = "IS_NOT_NULL" => bitmap[Node.column][n] = LastTruth(t, Node, records[n])
<1> DEFINE t == Truths(statement, records[n])[p]
           r == records[n]
<1>1. /\ Node.op \in Operations /\ (IsComparison(Node) => Node.column \in Columns)
      /\ DepthOf(statement)[p] \in Nat /\ Operands(Node) \in 0 .. DepthOf(statement)[p]
  BY NodeAt
<1>2. Len(stack) = DepthOf(statement)[p] /\ Len(t) = Len(stack) /\ t \in Seq(BOOLEAN)
  BY TruthsWait DEF Waiting
<1>3. \A j \in 1 .. Len(stack) : stack[j][n] = t[j] /\ t[j] \in BOOLEAN
  BY <1>2 DEF Waiting
<1> HIDE DEF t
<1>4. Operands(Node) >= 1 => Top(0)[n] = t[Len(t)] /\ t[Len(t)] \in BOOLEAN
  BY <1>1, <1>2, <1>3 DEF Top
<1>5. Operands(Node) = 2 => Top(1)[n] = t[Len(t) - 1] /\ t[Len(t) - 1] \in BOOLEAN
  BY <1>1, <1>2, <1>3 DEF Top
<1>6. CASE Node.op = "NOT"
  <2>1. Operands(Node) = 1  BY <1>6 DEF Operands
  <2> QED BY <1>4, <1>6, <2>1 DEF BitOf, LastTruth, t
<1>7. CASE Node.op = "AND"
  <2>1. Operands(Node) = 2  BY <1>7 DEF Operands
  <2> QED BY <1>4, <1>5, <1>7, <2>1 DEF BitOf, LastTruth, t
<1>8. CASE Node.op = "OR"
  <2>1. Operands(Node) = 2  BY <1>8 DEF Operands
  <2> QED BY <1>4, <1>5, <1>8, <2>1 DEF BitOf, LastTruth, t
<1>9. CASE Node.op \notin {"NOT", "AND", "OR"}
  <2> DEFINE c == Node.column
  <2>1. c \in Columns  BY <1>1, <1>9 DEF IsComparison, Operands
  <2>2. bitmap[c][n] = (r[c] # Null) /\ (r[c] # Null => data[c][n] = r[c])
    BY <2>1 DEF Loaded
  <2>3. LastTruth(t, Node, r) = RecordHolds(Node, r)  BY <1>9 DEF LastTruth
  <2>4. CASE Node.op = "IS_NULL"
    <3>1. BitOf(Node, n) = ~bitmap[c][n]  BY <2>4 DEF BitOf
    <3>2. RecordHolds(Node, r) = (r[c] = Null)  BY <2>4 DEF RecordHolds
    <3> QED BY <2>2, <2>3, <2>4, <3>1, <3>2 DEF t
  <2>5. CASE Node.op = "IS_NOT_NULL"
    <3>2. RecordHolds(Node, r) = (r[c] # Null)  BY <2>5 DEF RecordHolds
    <3> QED BY <2>2, <2>3, <2>5, <3>2 DEF t
  <2>6. CASE Node.op \notin {"IS_NULL", "IS_NOT_NULL"}
    <3>1. BitOf(Node, n) = Compared(Node, n)  BY <1>9, <2>6 DEF BitOf
    <3>2. RecordHolds(Node, r) = (r[c] # Null /\ Holds(Node.op, r[c], Node.value))
      BY <2>6 DEF RecordHolds
    <3>3. Compared(Node, n) = (n <= Rows /\ bitmap[c][n] /\ Holds(Node.op, data[c][n], Node.value))
      BY DEF Compared
    <3>4. n <= Rows  BY RowsAre
    <3>5. CASE r[c] = Null  BY <2>2, <2>3, <2>6, <3>1, <3>2, <3>3, <3>5 DEF t
    <3>6. CASE r[c] # Null
      <4>1. data[c][n] = r[c] /\ bitmap[c][n]  BY <2>2, <3>6
      <4>2. Compared(Node, n) = RecordHolds(Node, r)  BY <3>2, <3>3, <3>4, <3>6, <4>1
      <4> QED BY <2>3, <2>6, <3>1, <4>2 DEF t
    <3> QED BY <3>5, <3>6
  <2> QED BY <2>4, <2>5, <2>6
<1> QED BY <1>6, <1>7, <1>8, <1>9

-----------------------------------------------------------------------------
(* Evaluation, action by action.                                           *)
LEMMA UnchangedTruths ==
  ASSUME UNCHANGED <<tableVars, statement, todo, stack>>, Loaded, EvaluatedSoFar, phase \in {"eval", "operation"}
  PROVE  EvaluatedSoFar'
<1>1. Rows' = Rows  BY DEF Rows, tableVars
<1>2. /\ statement' = statement /\ todo' = todo /\ stack' = stack /\ records' = records
  BY DEF tableVars
<1>3. Unfiltered => Unfiltered'  BY <1>1, <1>2 DEF Unfiltered
<1>4. ASSUME NEW p, Remains(p), Waiting(p) PROVE Remains(p)' /\ Waiting(p)'
  <2>1. Remains(p)'  BY <1>2, <1>4 DEF Remains
  <2>2. Waiting(p)'  BY <1>1, <1>2, <1>4 DEF Waiting
  <2> QED BY <2>1, <2>2
<1>5. CASE Unfiltered  BY <1>3, <1>5 DEF EvaluatedSoFar
<1>6. CASE statement \in Statements /\ \E p \in 0 .. Len(statement) : Remains(p) /\ Waiting(p)
  <2>1. PICK p \in 0 .. Len(statement) : Remains(p) /\ Waiting(p)  BY <1>6
  <2>2. p \in 0 .. Len(statement') /\ Remains(p)' /\ Waiting(p)' /\ statement' \in Statements
    BY <1>2, <1>4, <1>6, <2>1
  <2> QED BY <2>2 DEF EvaluatedSoFar
<1> QED BY <1>5, <1>6 DEF EvaluatedSoFar

LEMMA StartEvalKeeps ==
  ASSUME Loaded, StartEval
  PROVE  EvaluatedSoFar' /\ Operating'
<1>1. PICK s \in Statements \cup {NoFilter} :
        /\ statement' = s
        /\ IF s = NoFilter
           THEN todo' = <<>> /\ stack' = <<[n \in 1 .. Bytes(Rows) * BitsPerByte |-> TRUE]>>
           ELSE todo' = s /\ stack' = <<>>
  BY DEF StartEval
<1>2. phase' = "eval" /\ UNCHANGED <<records, data, bitmap>>  BY DEF StartEval, tableVars
<1>3. Rows \in Nat /\ Rows' = Rows /\ Rows <= Bytes(Rows) * BitsPerByte /\ Bytes(Rows) * BitsPerByte \in Nat
  <2>1. Rows \in Nat  BY RowsAre
  <2> QED BY <1>2, <2>1, ByteSizes DEF Rows
<1>4. CASE s = NoFilter
  <2> DEFINE k == Bytes(Rows) * BitsPerByte
             ones == [n \in 1 .. k |-> TRUE]
  <2>1. ones \in Seq(BOOLEAN) /\ \A n \in 1 .. Rows : ones[n] = TRUE
    <3>1. k \in Nat /\ Rows \in Nat /\ Rows <= k  BY <1>3
    <3> HIDE DEF k
    <3> QED BY <3>1
  <2>2. stack' = <<ones>> /\ todo' = <<>> /\ statement' = NoFilter  BY <1>1, <1>4
  <2> HIDE DEF ones
  <2>3. stack' \in Seq(Seq(BOOLEAN)) /\ Len(stack') = 1 /\ stack'[1] = ones  BY <2>1, <2>2
  <2>4. Unfiltered'  BY <1>3, <2>1, <2>2, <2>3 DEF Unfiltered
  <2> QED BY <1>2, <2>4 DEF EvaluatedSoFar, Operating
<1>5. CASE s # NoFilter
  <2>1. s \in Statements /\ todo' = s /\ stack' = <<>> /\ statement' = s  BY <1>1, <1>5
  <2>2. Len(s) \in Nat /\ s \in Seq({s[n] : n \in DOMAIN s}) /\ DepthOf(s)[0] = 0  BY <2>1, Statement
  <2>3. Remains(0)'
    <3>1. Len(s) = Len(s) - 0 /\ \A j \in 1 .. Len(s) : s[j] = s[0 + j]  BY <2>2
    <3> QED BY <2>1, <2>2, <3>1 DEF Remains
  <2>4. Waiting(0)'
    <3>1. stack' \in Seq(Seq(BOOLEAN)) /\ Len(stack') = 0  BY <2>1
    <3> QED BY <2>1, <2>2, <3>1 DEF Waiting
  <2>5. 0 \in 0 .. Len(statement')  BY <2>1, <2>2
  <2>6. \E p \in 0 .. Len(statement') : Remains(p)' /\ Waiting(p)'  BY <2>3, <2>4, <2>5
  <2> QED BY <1>2, <2>1, <2>6 DEF EvaluatedSoFar, Operating
<1> QED BY <1>4, <1>5

(* Where a call of the pool can be needed.                                 *)
LEMMA Unfinished ==
  ASSUME Loaded, EvaluatedSoFar, phase \in {"eval", "operation"}, todo # <<>>
  PROVE  /\ statement \in Statements
         /\ \E p \in 0 .. Len(statement) : Remains(p) /\ Waiting(p)
BY DEF EvaluatedSoFar, Unfiltered

LEMMA StartOperationKeeps ==
  ASSUME Loaded, EvaluatedSoFar, StartOperation
  PROVE  EvaluatedSoFar' /\ Operating'
<1> DEFINE size == IF IsComparison(Node) THEN Len(bitmap[Node.column]) ELSE Len(Top(0))
           tasks == IF IsComparison(Node) /\ Node.op # "IS_NULL" THEN Bytes(Rows) ELSE size \div BitsPerByte
<1>0. PICK k \in Nat : k = Bytes(Rows)
  <2>1. Rows \in Nat  BY RowsAre
  <2> QED BY <2>1, ByteSizes
<1>1. /\ phase = "eval" /\ todo # <<>> /\ Node.op # "IS_NOT_NULL"
      /\ ret' = [n \in 1 .. size |-> FALSE] /\ range' = Ranges(tasks) /\ phase' = "operation"
      /\ UNCHANGED <<tableVars, statement, todo, stack>>
  BY DEF StartOperation
<1>2. statement \in Statements /\ \E p \in 0 .. Len(statement) : Remains(p) /\ Waiting(p)
  BY <1>1, Unfinished
<1>3. PICK p \in 0 .. Len(statement) : Remains(p) /\ Waiting(p)  BY <1>2
<1>4. /\ IsComparison(Node) => Node.column \in Columns
      /\ DepthOf(statement)[p] \in Nat /\ Operands(Node) \in 0 .. DepthOf(statement)[p]
  BY <1>1, <1>2, <1>3, NodeAt
<1>5. size = k * BitsPerByte
  <2>1. CASE IsComparison(Node)  BY <1>0, <1>4, <2>1 DEF Loaded, BitmapOf
  <2>2. CASE ~IsComparison(Node)
    <3>1. Len(stack) \in 1 .. Len(stack)  BY <1>3, <1>4, <2>2 DEF IsComparison, Waiting
    <3>2. BitmapOf(stack[Len(stack)], Rows)  BY <1>3, <3>1 DEF Waiting
    <3>3. Top(0) = stack[Len(stack)]  BY <3>1 DEF Top
    <3> QED BY <1>0, <2>2, <3>2, <3>3 DEF BitmapOf
  <2> QED BY <2>1, <2>2
<1>6. Rows \in Nat /\ k \in Nat /\ k * BitsPerByte \in Nat /\ BitsPerByte \in Nat \ {0}
  <2>1. Rows \in Nat  BY RowsAre
  <2> QED BY <1>0, <2>1, ByteSizes
<1> HIDE DEF size
<1>7. tasks = k
  <2>1. (k * BitsPerByte) \div BitsPerByte = k
    BY <1>6, DivOfMultiple
  <2> QED BY <1>0, <1>5, <2>1
<1> HIDE DEF tasks
<1>8. Divided(k)' /\ \A w \in 1 .. Workers, x \in Nat : ~Past(w, k, x)'
  <2>1. range' = Ranges(k)  BY <1>1, <1>7
  <2> QED BY <1>6, <2>1, StartDivides
<1>9. Rows' = Rows /\ todo' = todo /\ Node' = Node  BY <1>1 DEF Rows, tableVars, Node
<1>10. ret' \in Seq(BOOLEAN) /\ Len(ret') = k * BitsPerByte
  <2> DEFINE m == k * BitsPerByte
  <2>1. ret' = [n \in 1 .. m |-> FALSE] /\ m \in Nat  BY <1>1, <1>5, <1>6
  <2> HIDE DEF m
  <2>2. ret' \in Seq(BOOLEAN) /\ Len(ret') = m  BY <2>1
  <2> QED BY <2>2 DEF m
<1>11. \A n \in 1 .. Len(ret') : (n - 1) \div BitsPerByte \in Nat
  BY <1>6, <1>10, DivBounds
<1>12. \A w \in 1 .. Workers : \A n \in 1 .. Len(ret') : ~Past(w, k, (n - 1) \div BitsPerByte)'
  BY <1>8, <1>11
<1>13. BitmapOf(ret', Rows')  BY <1>0, <1>9, <1>10 DEF BitmapOf
<1>14. Operating'
  <2>1. k = Bytes(Rows')  BY <1>0, <1>9
  <2>2. Divided(Bytes(Rows))'  BY <1>8, <2>1 DEF Divided, BeginIdx, Bytes
  <2>3. ASSUME NEW w \in 1 .. Workers, NEW n \in 1 .. Len(ret') PROVE ~Past(w, Bytes(Rows), (n - 1) \div BitsPerByte)'
    BY <1>12, <2>1 DEF Past, BeginIdx, Bytes
  <2> QED BY <1>1, <1>9, <1>13, <2>2, <2>3 DEF Operating
<1>15. EvaluatedSoFar'  BY <1>1, UnchangedTruths
<1> QED BY <1>14, <1>15

LEMMA CopyBitmapKeeps ==
  ASSUME Loaded, EvaluatedSoFar, CopyBitmap
  PROVE  EvaluatedSoFar' /\ Operating'
<1>1. /\ phase = "eval" /\ phase' = "eval" /\ todo # <<>> /\ Node.op = "IS_NOT_NULL"
      /\ stack' = Append(stack, bitmap[Node.column]) /\ todo' = Tail(todo)
      /\ UNCHANGED <<records, data, bitmap, statement>>
  BY DEF CopyBitmap, tableVars
<1>2. statement \in Statements /\ \E p \in 0 .. Len(statement) : Remains(p) /\ Waiting(p)
  BY <1>1, Unfinished
<1>3. PICK p \in 0 .. Len(statement) : Remains(p) /\ Waiting(p)  BY <1>2
<1>4. /\ p + 1 \in 1 .. Len(statement) /\ Node = statement[p + 1] /\ Remains(p + 1)'
      /\ Node.column \in Columns /\ Operands(Node) = 0
  <2>1. Operands(Node) = 0  BY <1>1 DEF Operands
  <2> QED BY <1>1, <1>2, <1>3, <2>1, NodeAt DEF IsComparison
<1> DEFINE bits == bitmap[Node.column]
           d == Len(stack)
<1>5. BitmapOf(bits, Rows) /\ bits \in Seq(BOOLEAN)  BY <1>4 DEF Loaded, BitmapOf
<1>6. \A n \in 1 .. Rows : bits[n] = LastTruth(Truths(statement, records[n])[p], statement[p + 1], records[n])
  BY <1>1, <1>2, <1>3, <1>4, BitIsTruth
<1>7. stack' = Append(stack, bits)  BY <1>1
<1> HIDE DEF bits
<1>8. /\ d \in Nat /\ d = Len(stack) - Operands(statement[p + 1])
      /\ stack' \in Seq(Seq(BOOLEAN)) /\ Len(stack') = d + 1 /\ stack'[d + 1] = bits
      /\ \A j \in 1 .. d : stack'[j] = stack[j]
  BY <1>3, <1>4, <1>5, <1>7 DEF Waiting
<1> HIDE DEF d
<1>9. Waiting(p + 1)'
  <2>1. UNCHANGED <<statement, records>>  BY <1>1
  <2> QED BY <1>2, <1>3, <1>4, <1>5, <1>6, <1>8, <2>1, NodeDone
<1>10. p + 1 \in 0 .. Len(statement)  BY <1>4
<1> QED BY <1>1, <1>2, <1>4, <1>9, <1>10 DEF EvaluatedSoFar, Operating

LEMMA FillByteKeeps ==
  ASSUME Loaded, EvaluatedSoFar, Operating, NEW w \in 1 .. Workers, FillByte(w)
  PROVE  EvaluatedSoFar' /\ Operating'
<1>0. PICK k \in Nat : k = Bytes(Rows)
  <2>1. Rows \in Nat  BY RowsAre
  <2> QED BY <2>1, ByteSizes
<1>1. /\ phase = "operation" /\ phase' = "operation" /\ range[w][1] < range[w][2]
      /\ ret' = [n \in DOMAIN ret |->
           IF (n - 1) \div BitsPerByte = range[w][1] THEN BitOf(Node, n) ELSE ret[n]]
      /\ range' = [range EXCEPT ![w][1] = @ + 1]
      /\ UNCHANGED <<tableVars, statement, todo, stack>>
  BY DEF FillByte
<1>2. /\ todo # <<>> /\ Node.op # "IS_NOT_NULL" /\ BitmapOf(ret, Rows) /\ Divided(k)
      /\ \A v \in 1 .. Workers : \A n \in 1 .. Len(ret) :
           Past(v, k, (n - 1) \div BitsPerByte) => ret[n] = BitOf(Node, n)
  BY <1>0, <1>1 DEF Operating
<1>3. /\ Divided(k)'
      /\ \A v \in 1 .. Workers, x \in Nat : Past(v, k, x)' => Past(v, k, x) \/ x = range[w][1]
  BY <1>1, <1>2, TaskDivides
<1>4. statement \in Statements /\ \E p \in 0 .. Len(statement) : Remains(p) /\ Waiting(p)
  BY <1>1, <1>2, Unfinished
<1>5. PICK p \in 0 .. Len(statement) : Remains(p) /\ Waiting(p)  BY <1>4
<1>6. /\ Node.op \in Operations /\ (IsComparison(Node) => Node.column \in Columns)
      /\ DepthOf(statement)[p] \in Nat /\ Operands(Node) \in 0 .. DepthOf(statement)[p]
  BY <1>2, <1>4, <1>5, NodeAt
<1>7. ret \in Seq(BOOLEAN) /\ Len(ret) = k * BitsPerByte /\ DOMAIN ret = 1 .. Len(ret)
  BY <1>0, <1>2 DEF BitmapOf
<1>8. ASSUME NEW n \in 1 .. Len(ret) PROVE BitOf(Node, n) \in BOOLEAN
  <2>1. CASE Node.op = "NOT"
    <3>1. BitOf(Node, n) = ~Top(0)[n]  BY <2>1 DEF BitOf
    <3> QED BY <3>1
  <2>2. CASE Node.op = "AND"
    <3>1. BitOf(Node, n) = (Top(1)[n] /\ Top(0)[n])  BY <2>2 DEF BitOf
    <3> QED BY <3>1
  <2>3. CASE Node.op = "OR"
    <3>1. BitOf(Node, n) = (Top(1)[n] \/ Top(0)[n])  BY <2>3 DEF BitOf
    <3> QED BY <3>1
  <2>4. CASE Node.op = "IS_NULL"
    <3>1. BitOf(Node, n) = ~bitmap[Node.column][n]  BY <2>4 DEF BitOf
    <3> QED BY <3>1
  <2>5. CASE Node.op \notin {"NOT", "AND", "OR", "IS_NULL"}
    <3>1. BitOf(Node, n) = Compared(Node, n)  BY <2>5 DEF BitOf
    <3>2. Compared(Node, n) = (n <= Rows /\ bitmap[Node.column][n] /\ Holds(Node.op, data[Node.column][n], Node.value))
      BY DEF Compared
    <3> QED BY <3>1, <3>2
  <2> QED BY <2>1, <2>2, <2>3, <2>4, <2>5
<1>9. ret' \in Seq(BOOLEAN) /\ Len(ret') = Len(ret)
      /\ \A n \in 1 .. Len(ret) :
           ret'[n] = IF (n - 1) \div BitsPerByte = range[w][1] THEN BitOf(Node, n) ELSE ret[n]
  <2> DEFINE m == Len(ret)
             bit(n) == IF (n - 1) \div BitsPerByte = range[w][1] THEN BitOf(Node, n) ELSE ret[n]
  <2>1. m \in Nat /\ ret' = [n \in 1 .. m |-> bit(n)]  BY <1>1, <1>7
  <2>2. \A n \in 1 .. m : bit(n) \in BOOLEAN  BY <1>7, <1>8
  <2> HIDE DEF m, bit
  <2>3. ret' \in Seq(BOOLEAN) /\ Len(ret') = m /\ \A n \in 1 .. m : ret'[n] = bit(n)  BY <2>1, <2>2
  <2> QED BY <2>3 DEF m, bit
<1>10. Rows' = Rows /\ Node' = Node  BY <1>1 DEF Rows, tableVars, Node
<1>11. \A n : BitOf(Node, n)' = BitOf(Node, n)
  <2>1. /\ records' = records /\ data' = data /\ bitmap' = bitmap /\ stack' = stack /\ todo' = todo
    BY <1>1 DEF tableVars
  <2> QED BY <2>1 DEF BitOf, Compared, Top, Rows, Node
<1>12. \A n \in 1 .. Len(ret) : (n - 1) \div BitsPerByte \in Nat
  <2>1. BitsPerByte \in Nat \ {0}  BY PageAssumption DEF PageAssumption
  <2> QED BY <1>7, <2>1, DivBounds
<1>13. ASSUME NEW v \in 1 .. Workers, NEW n \in 1 .. Len(ret'), Past(v, k, (n - 1) \div BitsPerByte)'
       PROVE  ret'[n] = BitOf(Node, n)
  <2>1. PICK x \in Nat : x = (n - 1) \div BitsPerByte  BY <1>9, <1>12
  <2>2. Past(v, k, x)'  BY <1>13, <2>1
  <2>3. Past(v, k, x) \/ x = range[w][1]  BY <1>3, <2>2
  <2>4. n \in 1 .. Len(ret)  BY <1>9
  <2>5. CASE x = range[w][1]  BY <1>9, <2>1, <2>4, <2>5
  <2>6. CASE x # range[w][1]  BY <1>2, <1>9, <2>1, <2>3, <2>4, <2>6
  <2> QED BY <2>5, <2>6
<1>14. Operating'
  <2>1. k = Bytes(Rows')  BY <1>0, <1>10
  <2>2. Divided(Bytes(Rows))'  BY <1>3, <2>1 DEF Divided, BeginIdx, Bytes
  <2>3. BitmapOf(ret', Rows')  BY <1>0, <1>7, <1>9, <1>10 DEF BitmapOf
  <2>4. ASSUME NEW v \in 1 .. Workers, NEW n \in 1 .. Len(ret'), Past(v, Bytes(Rows), (n - 1) \div BitsPerByte)'
        PROVE  ret'[n] = BitOf(Node, n)'
    <3>1. Past(v, k, (n - 1) \div BitsPerByte)'  BY <2>1, <2>4 DEF Past, BeginIdx, Bytes
    <3> QED BY <1>11, <1>13, <3>1
  <2>5. todo' # <<>> /\ Node'.op # "IS_NOT_NULL"  BY <1>1, <1>2, <1>10
  <2> QED BY <2>2, <2>3, <2>4, <2>5 DEF Operating
<1>15. EvaluatedSoFar'  BY <1>1, UnchangedTruths
<1> QED BY <1>14, <1>15

LEMMA EndOperationKeeps ==
  ASSUME Loaded, EvaluatedSoFar, Operating, EndOperation
  PROVE  EvaluatedSoFar' /\ Operating'
<1>0. PICK k \in Nat : k = Bytes(Rows)
  <2>1. Rows \in Nat  BY RowsAre
  <2> QED BY <2>1, ByteSizes
<1>1. /\ phase = "operation" /\ phase' = "eval" /\ RunDone
      /\ stack' = Append(SubSeq(stack, 1, Len(stack) - Operands(Node)), ret) /\ todo' = Tail(todo)
      /\ UNCHANGED <<records, data, bitmap, statement>>
  BY DEF EndOperation, tableVars
<1>2. /\ todo # <<>> /\ Node.op # "IS_NOT_NULL" /\ BitmapOf(ret, Rows) /\ Divided(k)
      /\ \A v \in 1 .. Workers : \A n \in 1 .. Len(ret) :
           Past(v, k, (n - 1) \div BitsPerByte) => ret[n] = BitOf(Node, n)
  BY <1>0, <1>1 DEF Operating
<1>3. statement \in Statements /\ \E p \in 0 .. Len(statement) : Remains(p) /\ Waiting(p)
  BY <1>1, <1>2, Unfinished
<1>4. PICK p \in 0 .. Len(statement) : Remains(p) /\ Waiting(p)  BY <1>3
<1>5. /\ p + 1 \in 1 .. Len(statement) /\ Node = statement[p + 1] /\ Remains(p + 1)'
      /\ DepthOf(statement)[p] \in Nat /\ Operands(Node) \in 0 .. DepthOf(statement)[p]
  BY <1>1, <1>2, <1>3, <1>4, NodeAt
<1>6. Rows \in Nat /\ Rows <= Len(ret) /\ Len(ret) = k * BitsPerByte /\ BitsPerByte \in Nat \ {0}
  <2>1. Rows \in Nat  BY RowsAre
  <2> QED BY <1>0, <1>2, <2>1, ByteSizes DEF BitmapOf
<1>7. ASSUME NEW n \in 1 .. Len(ret) PROVE ret[n] = BitOf(Node, n)
  <2>1. n - 1 \in Nat /\ n - 1 < BitsPerByte * k
    <3>1. k * BitsPerByte = BitsPerByte * k  BY <1>6, SMTT(30)
    <3>2. k * BitsPerByte \in Nat  BY <1>6, SMTT(30)
    <3> QED BY <1>6, <3>1, <3>2
  <2>2. (n - 1) \div BitsPerByte \in 0 .. k - 1  BY <1>6, <2>1, DivInRange
  <2>3. \E w \in 1 .. Workers : Past(w, k, (n - 1) \div BitsPerByte)  BY <1>1, <1>2, <2>2, DoneDivides
  <2> QED BY <1>2, <2>3
<1>8. \A n \in 1 .. Rows : ret[n] = LastTruth(Truths(statement, records[n])[p], statement[p + 1], records[n])
  <2>1. \A n \in 1 .. Rows : n \in 1 .. Len(ret)  BY <1>6
  <2>2. \A n \in 1 .. Rows : BitOf(Node, n) = LastTruth(Truths(statement, records[n])[p], Node, records[n])
    BY <1>2, <1>3, <1>4, BitIsTruth
  <2> QED BY <1>5, <1>7, <2>1, <2>2
<1> DEFINE d == Len(stack) - Operands(Node)
           front == SubSeq(stack, 1, d)
<1>9. stack \in Seq(Seq(BOOLEAN)) /\ d \in Nat /\ d <= Len(stack)  BY <1>4, <1>5 DEF Waiting
<1>10. d = Len(stack) - Operands(statement[p + 1])  BY <1>5
<1>11. stack' = Append(front, ret) /\ ret \in Seq(BOOLEAN)  BY <1>1, <1>2 DEF BitmapOf
<1> HIDE DEF d
<1>12. front \in Seq(Seq(BOOLEAN)) /\ Len(front) = d /\ \A j \in 1 .. d : front[j] = stack[j]
  BY <1>9
<1> HIDE DEF front
<1>13. /\ stack' \in Seq(Seq(BOOLEAN)) /\ Len(stack') = d + 1 /\ stack'[d + 1] = ret
       /\ \A j \in 1 .. d : stack'[j] = stack[j]
  BY <1>9, <1>11, <1>12
<1>14. Waiting(p + 1)'
  <2>1. UNCHANGED <<statement, records>>  BY <1>1
  <2>2. PICK bits : bits = ret  OBVIOUS
  <2>3. PICK e \in Nat : e = d  BY <1>9
  <2>4. BitmapOf(bits, Rows) /\ e = Len(stack) - Operands(statement[p + 1])  BY <1>2, <1>10, <2>2, <2>3
  <2>5. /\ Len(stack') = e + 1 /\ stack'[e + 1] = bits /\ stack' \in Seq(Seq(BOOLEAN))
        /\ \A j \in 1 .. e : stack'[j] = stack[j]
    BY <1>13, <2>2, <2>3
  <2>6. \A n \in 1 .. Rows : bits[n] = LastTruth(Truths(statement, records[n])[p], statement[p + 1], records[n])
    BY <1>8, <2>2
  <2> QED BY <1>3, <1>4, <1>5, <2>1, <2>4, <2>5, <2>6, NodeDone
<1>15. p + 1 \in 0 .. Len(statement)  BY <1>5
<1> QED BY <1>1, <1>3, <1>5, <1>14, <1>15 DEF EvaluatedSoFar, Operating

-----------------------------------------------------------------------------
(* The scan: the truths are the bits of the result; the columns that a      *)
(* worker has passed spell the wanted rows.                                *)
Evaluated ==
  phase \in {"scan", "returned"} =>
    \A n \in 1 .. Rows : Results[n] = RecordEval(statement, records[n])
Written(c) ==
  /\ retRows = Len(Wanted[Rows])
  /\ Adds(writers[c].pages, <<>>, ColumnOf(Wanted[Rows], c), Values)
Scanning ==
  phase \in {"scan", "returned"} =>
    /\ Divided(Len(Types)) /\ (phase = "returned" => RunDone)
    /\ \A w \in 1 .. Workers, c \in Columns : Past(w, Len(Types), c - 1) => Written(c)

LEMMA StartScanKeeps ==
  ASSUME Loaded, EvaluatedSoFar, StartScan
  PROVE  Evaluated' /\ Scanning'
<1>1. /\ phase = "eval" /\ phase' = "scan" /\ todo = <<>> /\ range' = Ranges(Len(Types))
      /\ UNCHANGED <<records, statement, stack>>
  BY DEF StartScan, tableVars, evalVars
<1>2. ASSUME NEW n \in 1 .. Rows PROVE Results[n] = RecordEval(statement, records[n])
  <2>1. CASE Unfiltered
    <3>1. stack[1][n] = TRUE /\ statement = NoFilter  BY <2>1 DEF Unfiltered
    <3> QED BY <3>1 DEF Results, RecordEval
  <2>2. CASE statement \in Statements /\ \E p \in 0 .. Len(statement) : Remains(p) /\ Waiting(p)
    <3>1. PICK p \in 0 .. Len(statement) : Remains(p) /\ Waiting(p)  BY <2>2
    <3>2. Len(statement) \in Nat /\ statement # NoFilter /\ DepthOf(statement)[Len(statement)] = 1
      BY <2>2, Statement
    <3>3. p = Len(statement)  BY <1>1, <3>1, <3>2 DEF Remains
    <3>4. Len(stack) = 1 /\ stack[1][n] = Truths(statement, records[n])[p][1]
      BY <3>1, <3>2, <3>3 DEF Waiting
    <3>5. Truths(statement, records[n])[p] \in Seq(BOOLEAN) /\ Len(Truths(statement, records[n])[p]) = 1
      BY <2>2, <3>2, <3>3, TruthsWait
    <3>6. Truths(statement, records[n])[p][1] \in BOOLEAN  BY <3>5
    <3> QED BY <3>2, <3>3, <3>4, <3>6 DEF Results, RecordEval
  <2> QED BY <1>1, <2>1, <2>2 DEF EvaluatedSoFar
<1>3. Evaluated'
  BY <1>1, <1>2 DEF Evaluated, Results, Rows
<1>4. PICK k \in Nat : k = Len(Types)  BY FilterAssumption, ColumnsAssumption DEF FilterAssumption, ColumnsAssumption
<1>5. range' = Ranges(k)  BY <1>1, <1>4
<1>6. Divided(k)' /\ \A w \in 1 .. Workers, x \in Nat : ~Past(w, k, x)'  BY <1>5, StartDivides
<1>7. Divided(Len(Types))'  BY <1>4, <1>6 DEF Divided
<1>8. \A c \in Columns : c - 1 \in Nat  BY <1>4, FilterAssumption, ColumnsAssumption DEF FilterAssumption, ColumnsAssumption, Columns
<1>9. \A w \in 1 .. Workers, c \in Columns : ~Past(w, Len(Types), c - 1)'  BY <1>4, <1>6, <1>8 DEF Past
<1>10. Scanning'  BY <1>1, <1>7, <1>9 DEF Scanning
<1> QED BY <1>3, <1>10

LEMMA ReturnKeeps ==
  ASSUME Evaluated, Scanning, Return
  PROVE  Evaluated' /\ Scanning'
<1>1. /\ phase = "scan" /\ phase' = "returned" /\ RunDone
      /\ UNCHANGED <<records, statement, stack, range, writers, retRows>>
  BY DEF Return, tableVars, evalVars, scanVars
<1>2. Evaluated'  BY <1>1 DEF Evaluated, Results, Rows
<1>3. Wanted' = Wanted /\ Rows' = Rows  BY <1>1 DEF Wanted, Rows
<1>4. Scanning'  BY <1>1, <1>3 DEF Scanning, Divided, Past, Written, RunDone
<1> QED BY <1>2, <1>4

LEMMA WantedAre ==
  ASSUME Loaded
  PROVE  /\ Wanted \in [0 .. Rows -> Seq([Columns -> Values])] /\ Wanted[0] = <<>>
         /\ \A n \in 1 .. Rows :
              Wanted[n] = IF RecordEval(statement, records[n]) THEN Append(Wanted[n - 1], records[n]) ELSE Wanted[n - 1]
<1> DEFINE N == Rows
           D == Seq([Columns -> Values])
           Step(d, n) == IF RecordEval(statement, records[n]) THEN Append(d, records[n]) ELSE d
           R(f) == f = [n \in 0 .. N |->
                     IF n = 0 THEN <<>>
                     ELSE IF RecordEval(statement, records[n]) THEN Append(f[n - 1], records[n]) ELSE f[n - 1]]
           read == CHOOSE f : R(f)
           G == [x \in (1 .. N) \X D |-> Step(x[2], x[1])]
<1>1. N \in Nat /\ <<>> \in D  BY RowsAre
<1>2. \A d \in D : \A n \in 1 .. N : Step(d, n) \in D  BY RowsAre
<1> HIDE DEF Step, D
<1>3. G \in StepsOf(N, D)
  <2> HIDE DEF N
  <2> QED BY <1>2 DEF StepsOf
<1>4. PICK f : Iterates(f, N, D, <<>>, G)
  <2> HIDE DEF G, N
  <2> QED BY <1>1, <1>3, RecursionExists
<1>5. f \in [0 .. N -> D] /\ f[0] = <<>> /\ \A n \in 1 .. N : f[n] = Step(f[n - 1], n)
  <2>1. ASSUME NEW n \in 1 .. N PROVE f[n] = Step(f[n - 1], n)
    <3>1. n - 1 \in 0 .. N  BY <1>1
    <3>2. <<n, f[n - 1]>> \in (1 .. N) \X D /\ f[n] = G[<<n, f[n - 1]>>]
      BY <1>4, <3>1 DEF Iterates
    <3> QED BY <3>2
  <2> QED BY <1>4, <2>1 DEF Iterates
<1>6. R(f)
  <2>1. \A n \in 0 .. N : f[n] = IF n = 0 THEN <<>> ELSE Step(f[n - 1], n)
    BY <1>5
  <2>2. f = [n \in 0 .. N |-> IF n = 0 THEN <<>> ELSE Step(f[n - 1], n)]  BY <1>5, <2>1
  <2> QED BY <2>2 DEF Step
<1>7. R(read)  BY <1>6, Zenon
<1>8. Wanted = read  BY DEF Wanted
<1> HIDE DEF read
<1>9. read = [n \in 0 .. N |-> IF n = 0 THEN <<>> ELSE Step(read[n - 1], n)]  BY <1>7 DEF Step
<1>10. 0 \in 0 .. N /\ 1 .. N \subseteq 0 .. N  BY <1>1
<1>11. read[0] = <<>> /\ \A n \in 1 .. N : read[n] = Step(read[n - 1], n)
  <2>1. \A n \in 0 .. N : read[n] = IF n = 0 THEN <<>> ELSE Step(read[n - 1], n)  BY <1>9
  <2> QED BY <1>10, <2>1
<1> DEFINE T == {n \in Nat : n <= N => read[n] \in D}
<1>12. 0 \in T  BY <1>1, <1>11
<1>13. ASSUME NEW n \in Nat, n \in T PROVE n + 1 \in T
  <2> SUFFICES ASSUME n + 1 <= N PROVE read[n + 1] \in D
    OBVIOUS
  <2>1. n + 1 \in 1 .. N /\ (n + 1) - 1 = n /\ read[n] \in D  BY <1>1, <1>13
  <2>2. read[n + 1] = Step(read[n], n + 1)  BY <1>11, <2>1
  <2> QED BY <1>2, <2>1, <2>2
<1> HIDE DEF T
<1>14. Nat \subseteq T  BY <1>12, <1>13, NatSetInduction
<1>15. \A n \in 0 .. N : read[n] \in D  BY <1>1, <1>14 DEF T
<1>16. read \in [0 .. N -> D]  BY <1>9, <1>15
<1> QED BY <1>8, <1>11, <1>16 DEF D, Step

(* As many rows are wanted as bits are set.                                *)
LEMMA WantedCounted ==
  ASSUME Loaded, \A n \in 1 .. Rows : Results[n] = RecordEval(statement, records[n])
  PROVE  Cardinality({n \in 1 .. Rows : Results[n]}) = Len(Wanted[Rows])
<1> DEFINE T == {n \in Nat : n <= Rows => Count(Results, n) = Len(Wanted[n])}
<1>1. Rows \in Nat  BY RowsAre
<1>2. /\ Wanted \in [0 .. Rows -> Seq([Columns -> Values])] /\ Wanted[0] = <<>>
      /\ \A n \in 1 .. Rows :
           Wanted[n] = IF RecordEval(statement, records[n]) THEN Append(Wanted[n - 1], records[n]) ELSE Wanted[n - 1]
  BY WantedAre
<1>3. 0 \in T
  <2>1. Count(Results, 0) = 0  BY CountStep
  <2> QED BY <1>2, <2>1
<1>4. ASSUME NEW n \in Nat, n \in T PROVE n + 1 \in T
  <2> SUFFICES ASSUME n + 1 <= Rows PROVE Count(Results, n + 1) = Len(Wanted[n + 1])
    OBVIOUS
  <2>1. n + 1 \in 1 .. Rows /\ (n + 1) - 1 = n /\ n \in 0 .. Rows  BY <1>1
  <2>2. Count(Results, n) = Len(Wanted[n]) /\ Wanted[n] \in Seq([Columns -> Values])
    BY <1>2, <1>4, <2>1
  <2>3. Results[n + 1] = RecordEval(statement, records[n + 1])  BY <2>1
  <2>4. Wanted[n + 1] = IF RecordEval(statement, records[n + 1]) THEN Append(Wanted[n], records[n + 1]) ELSE Wanted[n]
    BY <1>2, <2>1
  <2>5. /\ Results[n + 1] => Count(Results, n + 1) = Count(Results, n) + 1
        /\ ~Results[n + 1] => Count(Results, n + 1) = Count(Results, n)
    BY CountStep
  <2>6. CASE RecordEval(statement, records[n + 1])
    <3>1. Wanted[n + 1] = Append(Wanted[n], records[n + 1])  BY <2>4, <2>6
    <3>2. Len(Wanted[n + 1]) = Len(Wanted[n]) + 1  BY <2>2, <3>1
    <3> QED BY <2>2, <2>3, <2>5, <2>6, <3>2
  <2>7. CASE ~RecordEval(statement, records[n + 1])  BY <2>2, <2>3, <2>4, <2>5, <2>7
  <2> QED BY <2>6, <2>7
<1> HIDE DEF T
<1>5. Rows \in T  BY <1>1, <1>3, <1>4, NatSetInduction
<1>6. Count(Results, Rows) = Len(Wanted[Rows])  BY <1>1, <1>5 DEF T
<1> QED BY <1>6 DEF Count

(* A column's loop inserts the values of the wanted rows.                  *)
LEMMA RowsInserted ==
  ASSUME Loaded, \A n \in 1 .. Rows : Results[n] = RecordEval(statement, records[n]), NEW c \in Columns
  PROVE  Spelled(InsertedRows(c), ColumnOf(Wanted[Rows], c), Values) /\ Apart(InsertedRows(c))
<1> DEFINE N == Rows
           V == Values
           D == {w \in WriterSet(V) : Apart(w) /\ \E s : Spelled(w, s, V)}
           Step(d, n) == IF Results[n] THEN InserterValue(d, ScannedValue(c, n)) ELSE d
           R(f) == f = [n \in 0 .. N |->
                     IF n = 0 THEN NewWriter
                     ELSE IF Results[n] THEN InserterValue(f[n - 1], ScannedValue(c, n)) ELSE f[n - 1]]
           read == CHOOSE f : R(f)
           G == [x \in (1 .. N) \X D |-> Step(x[2], x[1])]
<1>1. N \in Nat /\ \A n \in 1 .. N : records[n] \in [Columns -> V]  BY RowsAre
<1>2. ValueSet(V)  BY ValuesAre
<1>3. \A n \in 1 .. N : ScannedValue(c, n) = records[n][c] /\ records[n][c] \in V
  BY <1>1 DEF Loaded, ScannedValue
<1>4. Spelled(NewWriter, <<>>, V) /\ Apart(NewWriter)
  <2>1. 4 \in Int  OBVIOUS
  <2> HIDE DEF V
  <2> QED BY <1>2, <2>1, NewSpells, NewApart DEF NewWriter
<1>21. \A v \in V : v \notin WideValues  BY NoneWide
<1> HIDE DEF V
<1>5. NewWriter \in D  BY <1>4 DEF Spelled
<1>6. ASSUME NEW d \in D, NEW n \in 1 .. N PROVE Step(d, n) \in D
  <2>1. PICK s : Spelled(d, s, V)  OBVIOUS
  <2>2. Apart(d) /\ ~Overlap(d)  BY DEF Apart
  <2>4. /\ Spelled(InserterValue(d, ScannedValue(c, n)), Append(s, ScannedValue(c, n)), V)
        /\ Apart(InserterValue(d, ScannedValue(c, n)))
    BY <1>2, <1>3, <1>21, <2>1, <2>2, InserterInserted, ApartKept
  <2>3. InserterValue(d, ScannedValue(c, n)) \in D  BY <2>4 DEF Spelled
  <2> HIDE DEF D
  <2> QED BY <2>3
<1> HIDE DEF D, Step
<1>7. G \in StepsOf(N, D)
  <2> HIDE DEF N
  <2> QED BY <1>6 DEF StepsOf
<1>8. PICK f : Iterates(f, N, D, NewWriter, G)
  <2> HIDE DEF G, N
  <2> QED BY <1>1, <1>5, <1>7, RecursionExists
<1>9. f \in [0 .. N -> D] /\ f[0] = NewWriter /\ \A n \in 1 .. N : f[n] = Step(f[n - 1], n)
  <2>1. ASSUME NEW n \in 1 .. N PROVE f[n] = Step(f[n - 1], n)
    <3>1. n - 1 \in 0 .. N  BY <1>1
    <3>2. <<n, f[n - 1]>> \in (1 .. N) \X D /\ f[n] = G[<<n, f[n - 1]>>]
      BY <1>8, <3>1 DEF Iterates
    <3> QED BY <3>2
  <2> QED BY <1>8, <2>1 DEF Iterates
<1>10. R(f)
  <2>1. \A n \in 0 .. N : f[n] = IF n = 0 THEN NewWriter ELSE Step(f[n - 1], n)
    BY <1>9
  <2>2. f = [n \in 0 .. N |-> IF n = 0 THEN NewWriter ELSE Step(f[n - 1], n)]  BY <1>9, <2>1
  <2> QED BY <2>2 DEF Step
<1>11. R(read)  BY <1>10, Zenon
<1>12. InsertedRows(c) = read[N]  BY DEF InsertedRows
<1> HIDE DEF read
<1>13. read = [n \in 0 .. N |-> IF n = 0 THEN NewWriter ELSE Step(read[n - 1], n)]  BY <1>11 DEF Step
<1>14. 0 \in 0 .. N /\ 1 .. N \subseteq 0 .. N  BY <1>1
<1>15. read[0] = NewWriter /\ \A n \in 1 .. N : read[n] = Step(read[n - 1], n)
  <2>1. \A n \in 0 .. N : read[n] = IF n = 0 THEN NewWriter ELSE Step(read[n - 1], n)  BY <1>13
  <2> QED BY <1>14, <2>1
<1>16. /\ Wanted \in [0 .. N -> Seq([Columns -> V])] /\ Wanted[0] = <<>>
       /\ \A n \in 1 .. N :
            Wanted[n] = IF RecordEval(statement, records[n]) THEN Append(Wanted[n - 1], records[n]) ELSE Wanted[n - 1]
  BY WantedAre DEF V
<1> DEFINE T == {n \in Nat : n <= N => Spelled(read[n], ColumnOf(Wanted[n], c), V) /\ Apart(read[n])}
<1>17. 0 \in T
  <2>1. ColumnOf(<<>>, c) = <<>>  BY DEF ColumnOf
  <2> QED BY <1>4, <1>15, <1>16, <2>1
<1>18. ASSUME NEW n \in Nat, n \in T PROVE n + 1 \in T
  <2> SUFFICES ASSUME n + 1 <= N
               PROVE  Spelled(read[n + 1], ColumnOf(Wanted[n + 1], c), V) /\ Apart(read[n + 1])
    OBVIOUS
  <2> DEFINE m == n + 1
             wanted == Wanted[n]
             s == ColumnOf(wanted, c)
  <2>1. m \in 1 .. N /\ m - 1 = n /\ n \in 0 .. N  BY <1>1
  <2>2. Spelled(read[n], s, V) /\ Apart(read[n])  BY <1>1, <1>18, <2>1
  <2> HIDE DEF m
  <2>3. read[m] = Step(read[n], m)  BY <1>15, <2>1
  <2>4. Wanted[m] = IF RecordEval(statement, records[m]) THEN Append(wanted, records[m]) ELSE wanted
    BY <1>16, <2>1
  <2>5. Results[m] = RecordEval(statement, records[m])  BY <2>1
  <2>6. ScannedValue(c, m) = records[m][c] /\ records[m][c] \in V /\ records[m] \in [Columns -> V]
    BY <1>1, <1>3, <2>1
  <2>7. wanted \in Seq([Columns -> V])  BY <1>16, <2>1
  <2> HIDE DEF wanted
  <2>8. CASE RecordEval(statement, records[m])
    <3> DEFINE r == records[m]
               v == r[c]
               longer == Append(wanted, r)
    <3>1. read[m] = InserterValue(read[n], v)  BY <2>3, <2>5, <2>6, <2>8 DEF Step
    <3>2. Wanted[m] = longer  BY <2>4, <2>8
    <3>3. v \in V /\ r \in [Columns -> V]  BY <2>6
    <3> HIDE DEF r
    <3>4. ColumnOf(longer, c) = Append(s, v)  BY <2>7, <3>3, ColumnAppend
    <3> HIDE DEF v, s, longer
    <3>6. ~Overlap(read[n]) /\ v \notin WideValues  BY <1>21, <2>2, <3>3 DEF Apart
    <3>5. Spelled(InserterValue(read[n], v), Append(s, v), V) /\ Apart(InserterValue(read[n], v))
      BY <1>2, <2>2, <3>3, <3>6, InserterInserted, ApartKept
    <3> QED BY <3>1, <3>2, <3>4, <3>5 DEF m
  <2>9. CASE ~RecordEval(statement, records[m])
    <3>1. read[m] = read[n] /\ Wanted[m] = wanted  BY <2>3, <2>4, <2>5, <2>9 DEF Step
    <3> QED BY <2>2, <3>1 DEF m, wanted
  <2> QED BY <2>8, <2>9
<1> HIDE DEF T
<1>19. N \in T  BY <1>1, <1>17, <1>18, NatSetInduction
<1>20. Spelled(read[N], ColumnOf(Wanted[N], c), V) /\ Apart(read[N])  BY <1>1, <1>19 DEF T
<1> QED BY <1>12, <1>20 DEF N, V

LEMMA ScanColumnKeeps ==
  ASSUME Loaded, Evaluated, Scanning, writers \in [Columns -> WriterSet(Values)],
         NEW w \in 1 .. Workers, ScanColumn(w)
  PROVE  Evaluated' /\ Scanning' /\ writers' \in [Columns -> WriterSet(Values)]
<1>0. PICK k \in Nat : k = Len(Types)  BY FilterAssumption, ColumnsAssumption DEF FilterAssumption, ColumnsAssumption
<1> DEFINE c == range[w][1] + 1
           new == InserterFlush(InsertedRows(c))
<1>1. /\ phase = "scan" /\ phase' = "scan" /\ range[w][1] < range[w][2]
      /\ writers' = [writers EXCEPT ![c] = new]
      /\ retRows' = Cardinality({n \in 1 .. Rows : Results[n]})
      /\ range' = [range EXCEPT ![w][1] = @ + 1]
      /\ UNCHANGED <<records, data, bitmap, statement, stack>>
  BY DEF ScanColumn, tableVars, evalVars
<1>2. Divided(k) /\ \A v \in 1 .. Workers, d \in Columns : Past(v, k, d - 1) => Written(d)
  BY <1>0, <1>1 DEF Scanning
<1>3. /\ Divided(k)' /\ range[w][1] \in 0 .. k - 1
      /\ \A v \in 1 .. Workers, x \in Nat : Past(v, k, x)' => Past(v, k, x) \/ x = range[w][1]
  BY <1>1, <1>2, TaskDivides
<1>4. c \in Columns /\ Columns = 1 .. k
  <2>1. Columns = 1 .. k  BY <1>0, FilterAssumption, ColumnsAssumption DEF FilterAssumption, ColumnsAssumption, Columns
  <2> QED BY <1>3, <2>1
<1>5. \A n \in 1 .. Rows : Results[n] = RecordEval(statement, records[n])  BY <1>1 DEF Evaluated
<1>6. Spelled(InsertedRows(c), ColumnOf(Wanted[Rows], c), Values) /\ ~Overlap(InsertedRows(c))
  <2>1. \A d \in Columns : /\ Spelled(InsertedRows(d), ColumnOf(Wanted[Rows], d), Values)
                             /\ Apart(InsertedRows(d))
    BY <1>5, RowsInserted
  <2> HIDE DEF c
  <2> QED BY <1>4, <2>1 DEF Apart
<1>7. new \in WriterSet(Values) /\ Adds(new.pages, <<>>, ColumnOf(Wanted[Rows], c), Values)
  <2> DEFINE V == Values
             wr == InsertedRows(c)
             s == ColumnOf(Wanted[Rows], c)
  <2>1. ValueSet(V) /\ Spelled(wr, s, V) /\ ~Overlap(wr)  BY <1>6, ValuesAre
  <2> HIDE DEF V, wr, s
  <2>2. Spelled(InserterFlush(wr), s, V) /\ Adds(InserterFlush(wr).pages, <<>>, s, V)  BY <2>1, Flushes
  <2> QED BY <2>2 DEF V, wr, s, Spelled
<1>8. retRows' = Len(Wanted[Rows])  BY <1>1, <1>5, WantedCounted
<1>9. Wanted' = Wanted /\ Rows' = Rows  BY <1>1 DEF Wanted, Rows
<1>10. Evaluated'  BY <1>1, <1>5 DEF Evaluated, Results, Rows
<1> HIDE DEF c, new
<1>11. writers' \in [Columns -> WriterSet(Values)]  BY <1>1, <1>4, <1>7
<1>12. writers'[c] = new /\ \A d \in Columns : d # c => writers'[d] = writers[d]
  BY <1>1, <1>4
<1>13. ASSUME NEW v \in 1 .. Workers, NEW d \in Columns, Past(v, k, d - 1)' PROVE Written(d)'
  <2>1. d - 1 \in Nat  BY <1>4
  <2>2. PICK x \in Nat : x = d - 1  BY <2>1
  <2>3. Past(v, k, x)'  BY <1>13, <2>2
  <2>4. Past(v, k, x) \/ x = range[w][1]  BY <1>3, <2>3
  <2>5. CASE d = c
    BY <1>7, <1>8, <1>9, <1>12, <2>5 DEF Written
  <2>6. CASE d # c
    <3>1. d \in Nat  BY <1>4
    <3>2. x # range[w][1]  BY <2>2, <2>6, <3>1 DEF c
    <3>3. Written(d)  BY <1>2, <2>2, <2>4, <3>2
    <3> QED BY <1>8, <1>9, <1>12, <2>6, <3>3 DEF Written
  <2> QED BY <2>5, <2>6
<1>14. Scanning'
  <2>1. Divided(Len(Types))'  BY <1>0, <1>3 DEF Divided
  <2>2. ASSUME NEW v \in 1 .. Workers, NEW d \in Columns, Past(v, Len(Types), d - 1)' PROVE Written(d)'
    BY <1>0, <1>13, <2>2 DEF Past
  <2> QED BY <1>1, <2>1, <2>2 DEF Scanning
<1> QED BY <1>10, <1>11, <1>14

-----------------------------------------------------------------------------
(* The invariant.                                                          *)
FilterInv ==
  /\ phase \in {"load", "eval", "operation", "scan", "returned"}
  /\ Loaded /\ EvaluatedSoFar /\ Operating /\ Evaluated /\ Scanning
  /\ writers \in [Columns -> WriterSet(Values)]

LEMMA InitFilter == Init => FilterInv
<1> SUFFICES ASSUME Init PROVE FilterInv
  OBVIOUS
<1>1. /\ phase = "load" /\ records = <<>> /\ data = [c \in Columns |-> <<>>]
      /\ bitmap = [c \in Columns |-> <<>>] /\ writers = [c \in Columns |-> NewWriter]
  BY DEF Init
<1>2. Rows = 0  BY <1>1 DEF Rows
<1>3. BitmapOf(<<>>, 0)
  <2>1. BitsPerByte \in Nat \ {0}  BY PageAssumption DEF PageAssumption
  <2>2. 0 <= 0 * BitsPerByte /\ 0 * BitsPerByte < 0 + BitsPerByte  BY <2>1
  <2>3. Bytes(0) = 0  BY <2>1, <2>2, CeilUnique DEF Bytes
  <2>4. Bytes(0) * BitsPerByte = 0  BY <2>1, <2>3
  <2> QED BY <2>4 DEF BitmapOf
<1>4. Loaded
  <2>1. records \in Seq([Columns -> Values])  BY <1>1
  <2>2. data \in [Columns -> Seq(Stored)] /\ bitmap \in [Columns -> Seq(BOOLEAN)]  BY <1>1
  <2>3. \A c \in Columns : Len(data[c]) = Rows /\ BitmapOf(bitmap[c], Rows)  BY <1>1, <1>2, <1>3
  <2> QED BY <1>2, <2>1, <2>2, <2>3 DEF Loaded
<1>5. NewWriter \in WriterSet(Values)
  <2> DEFINE V == Values
  <2>1. ValueSet(V) /\ 4 \in Int  BY ValuesAre
  <2> HIDE DEF V
  <2>2. Spelled(NewWriter, <<>>, V)  BY <2>1, NewSpells DEF NewWriter
  <2> QED BY <2>2 DEF Spelled, V
<1>6. writers \in [Columns -> WriterSet(Values)]  BY <1>1, <1>5
<1> QED BY <1>1, <1>4, <1>6 DEF FilterInv, EvaluatedSoFar, Operating, Evaluated, Scanning

LEMMA NextFilter == FilterInv /\ [Next]_vars => FilterInv'
<1> SUFFICES ASSUME FilterInv, [Next]_vars PROVE FilterInv'
  OBVIOUS
<1> USE DEF FilterInv
<1>1. CASE AddRecord
  <2>1. phase = "load" /\ phase' = "load" /\ writers' = writers  BY <1>1 DEF AddRecord, scanVars
  <2>2. Loaded'  BY <1>1, AddLoads
  <2> QED BY <2>1, <2>2 DEF EvaluatedSoFar, Operating, Evaluated, Scanning
<1>2. CASE StartEval
  <2>1. phase' = "eval" /\ writers' = writers /\ UNCHANGED tableVars  BY <1>2 DEF StartEval, scanVars
  <2>2. EvaluatedSoFar' /\ Operating' /\ Loaded'  BY <1>2, <2>1, StartEvalKeeps, StaysLoaded
  <2> QED BY <2>1, <2>2 DEF Evaluated, Scanning
<1>3. CASE StartOperation
  <2>1. phase' = "operation" /\ writers' = writers /\ UNCHANGED tableVars  BY <1>3 DEF StartOperation, scanVars
  <2>2. EvaluatedSoFar' /\ Operating' /\ Loaded'  BY <1>3, <2>1, StartOperationKeeps, StaysLoaded
  <2> QED BY <2>1, <2>2 DEF Evaluated, Scanning
<1>4. CASE CopyBitmap
  <2>1. phase' = "eval" /\ writers' = writers /\ UNCHANGED tableVars  BY <1>4 DEF CopyBitmap, scanVars
  <2>2. EvaluatedSoFar' /\ Operating' /\ Loaded'  BY <1>4, <2>1, CopyBitmapKeeps, StaysLoaded
  <2> QED BY <2>1, <2>2 DEF Evaluated, Scanning
<1>5. CASE EndOperation
  <2>1. phase' = "eval" /\ writers' = writers /\ UNCHANGED tableVars  BY <1>5 DEF EndOperation, scanVars
  <2>2. EvaluatedSoFar' /\ Operating' /\ Loaded'  BY <1>5, <2>1, EndOperationKeeps, StaysLoaded
  <2> QED BY <2>1, <2>2 DEF Evaluated, Scanning
<1>6. CASE StartScan
  <2>1. phase' = "scan" /\ writers' = writers /\ UNCHANGED tableVars  BY <1>6 DEF StartScan, scanVars
  <2>2. Evaluated' /\ Scanning' /\ Loaded'  BY <1>6, <2>1, StartScanKeeps, StaysLoaded
  <2> QED BY <2>1, <2>2 DEF EvaluatedSoFar, Operating
<1>7. CASE Return
  <2>1. phase' = "returned" /\ writers' = writers /\ UNCHANGED tableVars  BY <1>7 DEF Return, scanVars
  <2>2. Evaluated' /\ Scanning' /\ Loaded'  BY <1>7, <2>1, ReturnKeeps, StaysLoaded
  <2> QED BY <2>1, <2>2 DEF EvaluatedSoFar, Operating
<1>8. ASSUME NEW w \in 1 .. Workers, FillByte(w) PROVE FilterInv'
  <2>1. phase' = "operation" /\ writers' = writers /\ UNCHANGED tableVars  BY <1>8 DEF FillByte, scanVars
  <2>2. EvaluatedSoFar' /\ Operating' /\ Loaded'  BY <1>8, <2>1, FillByteKeeps, StaysLoaded
  <2> QED BY <2>1, <2>2 DEF Evaluated, Scanning
<1>9. ASSUME NEW w \in 1 .. Workers, ScanColumn(w) PROVE FilterInv'
  <2>1. phase' = "scan" /\ UNCHANGED tableVars  BY <1>9 DEF ScanColumn
  <2>2. Evaluated' /\ Scanning' /\ Loaded' /\ writers' \in [Columns -> WriterSet(Values)]
    BY <1>9, <2>1, ScanColumnKeeps, StaysLoaded
  <2> QED BY <2>1, <2>2 DEF EvaluatedSoFar, Operating
<1>10. CASE UNCHANGED vars
  <2>1. /\ phase' = phase /\ records' = records /\ statement' = statement /\ stack' = stack
        /\ todo' = todo /\ ret' = ret /\ range' = range /\ writers' = writers /\ retRows' = retRows
        /\ data' = data /\ bitmap' = bitmap /\ UNCHANGED tableVars
    BY <1>10 DEF vars, tableVars, evalVars, scanVars
  <2>2. Loaded' /\ Rows' = Rows  BY <2>1, StaysLoaded
  <2>3. EvaluatedSoFar'
    <3>1. CASE phase \in {"eval", "operation"}  BY <2>1, <3>1, UnchangedTruths
    <3>2. CASE phase \notin {"eval", "operation"}  BY <2>1, <3>2 DEF EvaluatedSoFar
    <3> QED BY <3>1, <3>2
  <2>4. Operating'  BY <2>1, <2>2 DEF Operating, Divided, Past, Node, BitOf, Compared, Top, BitmapOf
  <2>5. Evaluated'  BY <2>1, <2>2 DEF Evaluated, Results
  <2>6. Scanning'
    <3>1. Wanted' = Wanted  BY <2>1 DEF Wanted, Rows
    <3> QED BY <2>1, <2>2, <3>1 DEF Scanning, Divided, Past, Written, RunDone
  <2> QED BY <2>1, <2>2, <2>3, <2>4, <2>5, <2>6
<1> QED
  BY <1>1, <1>2, <1>3, <1>4, <1>5, <1>6, <1>7, <1>8, <1>9, <1>10 DEF Next, Caller, Worker, Returned

LEMMA FilterInvariant == Spec => []FilterInv
BY InitFilter, NextFilter, PTL DEF Spec

(* The bitmap a filter yields, evaluated column by column, byte by byte and *)
(* by several workers, has the bit of a row exactly if the filter holds of  *)
(* the row as a record: for every filter, any columns and any values.      *)
THEOREM VectorsCorrect == Spec => []VectorsMatchRecords
<1>1. FilterInv => VectorsMatchRecords  BY DEF FilterInv, Evaluated, VectorsMatchRecords
<1> QED BY <1>1, FilterInvariant, PTL

(* from_csv returns a table whose columns read back as the rows the filter  *)
(* holds of, in the order of the file, and counts them.                    *)
THEOREM ScanCorrect == Spec => []ScanExact
<1>1. FilterInv => ScanExact
  <2> SUFFICES ASSUME FilterInv, phase = "returned"
               PROVE  /\ retRows = Len(Wanted[Rows])
                      /\ \A c \in Columns :
                           ReadColumn(writers[c].pages) = [n \in 1 .. Len(Wanted[Rows]) |-> Wanted[Rows][n][c]]
    BY DEF ScanExact
  <2>0. PICK k \in Nat : k = Len(Types)  BY FilterAssumption, ColumnsAssumption DEF FilterAssumption, ColumnsAssumption
  <2>1. /\ Loaded /\ Divided(k) /\ RunDone /\ writers \in [Columns -> WriterSet(Values)]
        /\ \A w \in 1 .. Workers, c \in Columns : Past(w, k, c - 1) => Written(c)
    BY <2>0 DEF FilterInv, Scanning
  <2>2. Columns = 1 .. k /\ 1 \in Columns
    BY <2>0, FilterAssumption, ColumnsAssumption DEF FilterAssumption, ColumnsAssumption, Columns
  <2>3. ASSUME NEW c \in Columns PROVE Written(c)
    <3>1. c - 1 \in 0 .. k - 1  BY <2>2
    <3>2. \E w \in 1 .. Workers : Past(w, k, c - 1)  BY <2>1, <3>1, DoneDivides
    <3> QED BY <2>1, <3>2
  <2>4. Wanted[Rows] \in Seq([Columns -> Values])
    <3>1. Rows \in 0 .. Rows  BY <2>1, RowsAre
    <3> QED BY <2>1, <3>1, WantedAre
  <2>5. ASSUME NEW c \in Columns
        PROVE  ReadColumn(writers[c].pages) = [n \in 1 .. Len(Wanted[Rows]) |-> Wanted[Rows][n][c]]
    <3> DEFINE V == Values
               s == ColumnOf(Wanted[Rows], c)
               pages == writers[c].pages
    <3>1. s \in Seq(V)  BY <2>4 DEF ColumnOf
    <3>2. ValueSet(V)  BY ValuesAre
    <3>3. pages \in PageLists(V)  BY <2>1 DEF WriterSet
    <3>4. Adds(pages, <<>>, s, V)  BY <2>3 DEF Written
    <3> HIDE DEF V, s, pages
    <3>5. ReadColumn(pages) = s  BY <3>1, <3>2, <3>3, <3>4, ColumnRead
    <3> QED BY <3>5 DEF s, pages, ColumnOf
  <2>6. retRows = Len(Wanted[Rows])  BY <2>2, <2>3 DEF Written
  <2> QED BY <2>5, <2>6
<1> QED BY <1>1, FilterInvariant, PTL

-----------------------------------------------------------------------------
(* Where the values of a column are in its pages: page p has the values     *)
(* after the first start[p], and the pages of a long text stand together.  *)
PageCount(page) == IF page.kind = "rows" THEN page.rows ELSE IF page.kind = "first" THEN 1 ELSE 0

LongAt(pages, p, v) ==
  LET k == Len(LongPages(v))
  IN  /\ IsLong(v) /\ p + k - 1 <= Len(pages)
      /\ \A j \in 1 .. k : pages[p + j - 1] = LongPages(v)[j]
      /\ p + k <= Len(pages) => pages[p + k].kind # "more"
PageAt(pages, s, start, p) ==
  /\ start[p + 1] = start[p] + PageCount(pages[p])
  /\ pages[p].kind = "rows" =>
       /\ Len(pages[p].data) = RankOf(pages[p], pages[p].rows)
       /\ \A n \in 1 .. pages[p].rows : PageRows(pages[p])[n] = s[start[p] + n]
  /\ pages[p].kind = "first" => LongAt(pages, p, s[start[p] + 1])
Laid(pages, s, start) ==
  /\ start \in [1 .. Len(pages) + 1 -> Nat] /\ start[1] = 0
  /\ \A p \in 1 .. Len(pages) : PageAt(pages, s, start, p)

(* Starts grow.                                                            *)
LEMMA StartsGrow ==
  ASSUME NEW V, NEW pages \in PageLists(V), NEW s, NEW start, Laid(pages, s, start), NEW p \in 1 .. Len(pages)
  PROVE  start[p] <= start[p + 1] /\ start[p + 1] <= start[Len(pages) + 1] /\ PageCount(pages[p]) \in Nat
<1> DEFINE N == Len(pages)
<1>1. N \in Nat /\ \A q \in 1 .. N : pages[q] \in PageSet(V)  BY DEF PageLists
<1>2. \A q \in 1 .. N : PageCount(pages[q]) \in Nat
  <2> TAKE q \in 1 .. N
  <2>1. pages[q].kind = "rows" => pages[q].rows \in Nat  BY <1>1 DEF PageSet
  <2> QED BY <2>1 DEF PageCount
<1>3. start \in [1 .. N + 1 -> Nat] /\ \A q \in 1 .. N : start[q + 1] = start[q] + PageCount(pages[q])
  BY DEF Laid, PageAt
<1> HIDE DEF N
<1> DEFINE T == {n \in Nat : p + 1 + n <= N + 1 => start[p + 1] <= start[p + 1 + n]}
<1>4. 0 \in T
  <2>1. p + 1 \in 1 .. N + 1 /\ p + 1 + 0 = p + 1  BY <1>1 DEF N
  <2>2. start[p + 1] \in Nat  BY <1>3, <2>1
  <2> QED BY <2>1, <2>2
<1>5. ASSUME NEW n \in Nat, n \in T PROVE n + 1 \in T
  <2> SUFFICES ASSUME p + 1 + (n + 1) <= N + 1 PROVE start[p + 1] <= start[p + 1 + (n + 1)]
    OBVIOUS
  <2>1. p + 1 + n \in 1 .. N /\ p + 1 \in 1 .. N + 1 /\ p + 1 + (n + 1) = (p + 1 + n) + 1  BY <1>1 DEF N
  <2>2. start[p + 1] <= start[p + 1 + n]
    <3>1. p + 1 + n <= N + 1  BY <1>1, <2>1
    <3> QED BY <1>5, <3>1
  <2>3. start[(p + 1 + n) + 1] = start[p + 1 + n] + PageCount(pages[p + 1 + n])  BY <1>3, <2>1
  <2>4. start[p + 1] \in Nat /\ start[p + 1 + n] \in Nat /\ PageCount(pages[p + 1 + n]) \in Nat
    <3>1. p + 1 + n \in 1 .. N + 1  BY <1>1, <2>1
    <3> QED BY <1>2, <1>3, <2>1, <3>1
  <2> QED BY <2>1, <2>2, <2>3, <2>4
<1> HIDE DEF T
<1>6. Nat \subseteq T  BY <1>4, <1>5, NatSetInduction
<1>7. N - p \in Nat /\ p + 1 + (N - p) = N + 1  BY <1>1 DEF N
<1>8. start[p + 1] <= start[N + 1]  BY <1>6, <1>7 DEF T
<1>9. start[p] \in Nat /\ start[p + 1] = start[p] + PageCount(pages[p])  BY <1>1, <1>3 DEF N
<1> QED BY <1>2, <1>8, <1>9 DEF N

(* A value beyond the last page's does not matter.                         *)
LEMMA LaidLonger ==
  ASSUME NEW V, NEW pages \in PageLists(V), NEW s \in Seq(V), NEW start, Laid(pages, s, start),
         start[Len(pages) + 1] <= Len(s), NEW v \in V
  PROVE  Laid(pages, Append(s, v), start)
<1> DEFINE N == Len(pages)
           t == Append(s, v)
<1>1. N \in Nat /\ \A q \in 1 .. N : pages[q] \in PageSet(V)  BY DEF PageLists
<1>2. \A n \in 1 .. Len(s) : t[n] = s[n]  OBVIOUS
<1> HIDE DEF t
<1>3. ASSUME NEW p \in 1 .. N PROVE PageAt(pages, t, start, p)
  <2>1. PageAt(pages, s, start, p)  BY <1>3 DEF Laid
  <2>2. /\ start[p + 1] <= Len(s) /\ start[p] \in Nat /\ start[p + 1] \in Nat
    <3>1. start[p + 1] <= start[N + 1]  BY StartsGrow
    <3>2. start \in [1 .. N + 1 -> Nat]  BY DEF Laid
    <3>3. p \in 1 .. N + 1 /\ p + 1 \in 1 .. N + 1 /\ N + 1 \in 1 .. N + 1  BY <1>1
    <3>4. start[p] \in Nat /\ start[p + 1] \in Nat /\ start[N + 1] \in Nat  BY <3>2, <3>3
    <3> QED BY <3>1, <3>4
  <2>3. ASSUME pages[p].kind = "rows", NEW n \in 1 .. pages[p].rows PROVE t[start[p] + n] = s[start[p] + n]
    <3>1. pages[p].rows \in Nat  BY <1>1, <2>3 DEF PageSet
    <3>2. start[p + 1] = start[p] + pages[p].rows  BY <2>1, <2>3 DEF PageAt, PageCount
    <3>3. start[p] + n \in 1 .. Len(s)  BY <2>2, <2>3, <3>1, <3>2
    <3> QED BY <1>2, <3>3
  <2>4. ASSUME pages[p].kind = "first" PROVE t[start[p] + 1] = s[start[p] + 1]
    <3>1. start[p + 1] = start[p] + 1  BY <2>1, <2>4 DEF PageAt, PageCount
    <3>2. start[p] + 1 \in 1 .. Len(s)  BY <2>2, <3>1
    <3> QED BY <1>2, <3>2
  <2> QED BY <2>1, <2>3, <2>4 DEF PageAt
<1> QED BY <1>3 DEF Laid, t

(* More pages, the first of which starts a value.                          *)
LEMMA LaidMore ==
  ASSUME NEW V, NEW pages \in PageLists(V), NEW s, NEW start, Laid(pages, s, start),
         NEW both \in PageLists(V), Len(both) > Len(pages),
         \A p \in 1 .. Len(pages) : both[p] = pages[p], both[Len(pages) + 1].kind # "more",
         NEW more \in [1 .. Len(both) + 1 -> Nat],
         \A p \in 1 .. Len(pages) + 1 : more[p] = start[p],
         \A p \in 1 .. Len(both) : p > Len(pages) => PageAt(both, s, more, p)
  PROVE  Laid(both, s, more)
<1> DEFINE N == Len(pages)
           M == Len(both)
<1>1. N \in Nat /\ M \in Nat /\ M > N  BY DEF PageLists
<1>2. start \in [1 .. N + 1 -> Nat] /\ start[1] = 0 /\ more[1] = 0  BY <1>1 DEF Laid
<1>3. ASSUME NEW p \in 1 .. N PROVE PageAt(both, s, more, p)
  <2>1. PageAt(pages, s, start, p)  BY DEF Laid
  <2>2. both[p] = pages[p] /\ more[p] = start[p] /\ more[p + 1] = start[p + 1]
    <3>1. p \in 1 .. N + 1 /\ p + 1 \in 1 .. N + 1  BY <1>1
    <3> QED BY <3>1
  <2>3. ASSUME NEW v, LongAt(pages, p, v) PROVE LongAt(both, p, v)
    <3> DEFINE k == Len(LongPages(v))
    <3>1. /\ IsLong(v) /\ p + k - 1 <= N /\ \A j \in 1 .. k : pages[p + j - 1] = LongPages(v)[j]
          /\ p + k <= N => pages[p + k].kind # "more"
      BY <2>3 DEF LongAt
    <3>2. k \in Nat
      <4>1. v \in Strings /\ IsLong(v)  BY <3>1 DEF IsLong, IsString
      <4>2. (Length[v] + PieceBytes - 1) \div PieceBytes \in Nat  BY <4>1, LongCut
      <4> QED BY <4>2 DEF LongPages
    <3> HIDE DEF k
    <3>3. \A j \in 1 .. k : p + j - 1 \in 1 .. N  BY <1>1, <3>1, <3>2
    <3>4. \A j \in 1 .. k : both[p + j - 1] = LongPages(v)[j]  BY <3>1, <3>3
    <3>5. ASSUME p + k <= M PROVE both[p + k].kind # "more"
      <4>1. CASE p + k <= N
        <5>1. p + k \in 1 .. N  BY <1>1, <3>2, <4>1
        <5> QED BY <3>1, <4>1, <5>1
      <4>2. CASE ~(p + k <= N)
        <5> HIDE DEF N, M
        <5>0. p \in Nat  BY DEF N
        <5>1. p + k = N + 1  BY <1>1, <3>1, <3>2, <4>2, <5>0
        <5> QED BY <5>1 DEF N
      <4> QED BY <4>1, <4>2
    <3>6. p + k - 1 <= M  BY <1>1, <3>1, <3>2
    <3> QED BY <3>1, <3>4, <3>5, <3>6 DEF LongAt, k
  <2> QED BY <2>1, <2>2, <2>3 DEF PageAt
<1>4. \A p \in 1 .. M : p \in 1 .. N \/ p > N  BY <1>1
<1> QED BY <1>2, <1>3, <1>4 DEF Laid

-----------------------------------------------------------------------------
(* Where a writer's values are.                                            *)
WriterLaid(w, s) ==
  \E start : /\ Laid(w.pages, s, start)
             /\ start[Len(w.pages) + 1] + w.rows = Len(s)
             /\ \A n \in 1 .. w.rows : Buffered(w)[n] = s[start[Len(w.pages) + 1] + n]

(* The buffer is saved as a page of rows.                                  *)
LEMMA RowsLaid ==
  ASSUME NEW V, Null \in V, NEW w \in WriterSet(V), BufferOK(w), NEW s \in Seq(V), WriterLaid(w, s),
         ~Overlap(w)
  PROVE  WriterLaid(InserterSave(w), s)
<1> DEFINE all == w.bits
           bits == SubSeq(all, 1, BitmapBits(w.rows))
           page == RowsPage(w, bits)
           new == InserterSave(w)
           N == Len(w.pages)
           r == w.rows
           both == Append(w.pages, page)
<1>1. /\ w.pages \in PageLists(V) /\ N \in Nat /\ r \in Nat /\ all \in Seq(BOOLEAN) /\ w.data \in Seq(V)
      /\ BitmapBits(r) \in Nat /\ r <= BitmapBits(r) /\ BitmapBits(r) <= Len(all)
  <2>1. w.pages \in PageLists(V) /\ r \in Nat /\ all \in Seq(BOOLEAN) /\ w.data \in Seq(V)  BY DEF WriterSet
  <2>2. N \in Nat  BY <2>1 DEF PageLists
  <2> QED BY <2>1, <2>2, BitmapSizes DEF BufferOK
<1>2. bits \in Seq(BOOLEAN) /\ Len(bits) = BitmapBits(r) /\ \A n \in 1 .. r : bits[n] = all[n]
  <2> DEFINE k == BitmapBits(r)
  <2>1. k \in Nat /\ k <= Len(all) /\ r <= k  BY <1>1
  <2> HIDE DEF k, all, r
  <2>2. /\ SubSeq(all, 1, k) \in Seq(BOOLEAN) /\ Len(SubSeq(all, 1, k)) = k
        /\ \A n \in 1 .. k : SubSeq(all, 1, k)[n] = all[n]
    BY <1>1, <2>1
  <2>3. \A n \in 1 .. r : n \in 1 .. k  BY <1>1, <2>1
  <2> QED BY <2>2, <2>3 DEF k, r, all
<1> HIDE DEF bits
<1>3. /\ page \in PageSet(V) /\ PageRows(page) = Buffered(w)
      /\ \A n \in 1 .. r : RankOf(page, n) = Count(all, n)
  BY <1>1, <1>2, PageSaved
<1>4. page.kind = "rows" /\ page.rows = r /\ page.data = w.data  BY DEF RowsPage
<1>5. new.pages = both /\ new.rows = 0
  BY DEF InserterSave, InserterPage, UnderBitmap, EmptyBuffer, bits
<1> HIDE DEF page, new
<1>6. Len(page.data) = RankOf(page, r)
  <2>1. Len(page.data) = Count(all, r)  BY <1>4 DEF BufferOK
  <2>2. CASE r = 0
    <3>1. RankOf(page, 0) = 0 /\ Count(all, 0) = 0
      <4>1. {m \in 1 .. 0 : BitAt(page, m)} = {}  OBVIOUS
      <4> QED BY <4>1, FS_EmptySet, CountStep DEF RankOf
    <3> QED BY <2>1, <2>2, <3>1
  <2>3. CASE r # 0
    <3>1. r \in 1 .. r  BY <1>1, <2>3
    <3> QED BY <1>3, <2>1, <3>1
  <2> QED BY <2>2, <2>3
<1>7. PICK start : /\ Laid(w.pages, s, start) /\ start[N + 1] + r = Len(s)
                   /\ \A n \in 1 .. r : Buffered(w)[n] = s[start[N + 1] + n]
  BY DEF WriterLaid
<1> DEFINE more == [p \in 1 .. N + 2 |-> IF p = N + 2 THEN Len(s) ELSE start[p]]
<1>8. /\ both \in PageLists(V) /\ Len(both) = N + 1 /\ both[N + 1] = page
      /\ \A p \in 1 .. N : both[p] = w.pages[p]
  BY <1>1, <1>3 DEF PageLists
<1>9. start \in [1 .. N + 1 -> Nat]  BY <1>7 DEF Laid
<1> HIDE DEF both, N, r
<1>10. more \in [1 .. N + 2 -> Nat] /\ more[N + 2] = Len(s) /\ \A p \in 1 .. N + 1 : more[p] = start[p]
  BY <1>1, <1>9
<1> HIDE DEF more
<1>11. PageAt(both, s, more, N + 1)
  <2>1. PageCount(page) = r  BY <1>4 DEF PageCount, r
  <2>2. N + 1 \in 1 .. N + 1 /\ (N + 1) + 1 = N + 2  BY <1>1
  <2>3. more[(N + 1) + 1] = more[N + 1] + r  BY <1>7, <1>10, <2>2
  <2>4. \A n \in 1 .. r : PageRows(page)[n] = s[more[N + 1] + n]  BY <1>3, <1>7, <1>10, <2>2
  <2> QED BY <1>4, <1>6, <1>8, <2>1, <2>3, <2>4 DEF PageAt, r
<1>12. Laid(both, s, more)
  <2>1. Len(both) > N /\ both[N + 1].kind # "more"  BY <1>1, <1>4, <1>8
  <2>2. \A p \in 1 .. Len(both) : p > N => p = N + 1  BY <1>1, <1>8
  <2>3. more \in [1 .. Len(both) + 1 -> Nat]
    <3>1. Len(both) + 1 = N + 2  BY <1>1, <1>8
    <3> QED BY <1>10, <3>1
  <2>4. \A p \in 1 .. Len(both) : p > N => PageAt(both, s, more, p)  BY <1>11, <2>2
  <2>5. /\ w.pages \in PageLists(V) /\ Laid(w.pages, s, start) /\ both \in PageLists(V)
        /\ Len(both) > Len(w.pages) /\ both[Len(w.pages) + 1].kind # "more"
        /\ \A p \in 1 .. Len(w.pages) : both[p] = w.pages[p]
    BY <1>1, <1>7, <1>8, <2>1 DEF N
  <2>6. /\ \A p \in 1 .. Len(w.pages) + 1 : more[p] = start[p]
        /\ \A p \in 1 .. Len(both) : p > Len(w.pages) => PageAt(both, s, more, p)
    BY <1>10, <2>4 DEF N
  <2> QED BY <2>3, <2>5, <2>6, LaidMore
<1>13. more[Len(both) + 1] + 0 = Len(s)
  <2>1. Len(both) + 1 = N + 2  BY <1>1, <1>8
  <2> QED BY <1>10, <2>1
<1>14. \A n \in 1 .. 0 : Buffered(new)[n] = s[more[Len(both) + 1] + n]  OBVIOUS
<1> QED BY <1>5, <1>12, <1>13, <1>14 DEF WriterLaid, new, both, page

LEMMA FlushLaid ==
  ASSUME NEW V, Null \in V, NEW w \in WriterSet(V), BufferOK(w), NEW s \in Seq(V), WriterLaid(w, s),
         ~Overlap(w)
  PROVE  WriterLaid(InserterFlush(w), s)
BY RowsLaid DEF InserterFlush

(* One row more in the buffer.                                             *)
LEMMA RowLaid ==
  ASSUME NEW V, Null \in V, NEW w \in WriterSet(V), BufferOK(w), NEW s \in Seq(V), WriterLaid(w, s),
         NEW bit \in BOOLEAN, NEW v \in V, bit \/ v = Null, NEW bytes \in Int
  PROVE  WriterLaid(MoreRow(w, bit, v, bytes), Append(s, v))
<1> DEFINE new == MoreRow(w, bit, v, bytes)
           N == Len(w.pages)
           r == w.rows
           t == Append(s, v)
           b == Buffered(w)
<1>1. w.pages \in PageLists(V) /\ N \in Nat /\ r \in Nat  BY DEF WriterSet, PageLists
<1>2. new.pages = w.pages /\ Buffered(new) = Append(b, v)  BY RowAdded
<1>3. new.rows = r + 1  BY DEF MoreRow, AddRow
<1>4. b \in Seq(V) /\ Len(b) = r  BY BufferedType
<1>5. PICK start : /\ Laid(w.pages, s, start) /\ start[N + 1] + r = Len(s)
                   /\ \A n \in 1 .. r : b[n] = s[start[N + 1] + n]
  BY DEF WriterLaid
<1>6. start[N + 1] \in Nat
  <2>1. start \in [1 .. N + 1 -> Nat]  BY <1>5 DEF Laid
  <2> QED BY <1>1, <2>1
<1>7. Laid(w.pages, t, start)
  <2>1. start[N + 1] <= Len(s)  BY <1>1, <1>5, <1>6
  <2> QED BY <1>1, <1>5, <2>1, LaidLonger
<1>8. t \in Seq(V) /\ Len(t) = Len(s) + 1 /\ t[Len(s) + 1] = v /\ \A n \in 1 .. Len(s) : t[n] = s[n]
  OBVIOUS
<1> HIDE DEF new, N, t, b, r
<1>13. PICK k \in Nat : k = start[N + 1] /\ k + r = Len(s) /\ Len(s) \in Nat
  <2>1. start[N + 1] + r = Len(s) /\ start[N + 1] \in Nat  BY <1>5, <1>6
  <2>2. Len(s) \in Nat  OBVIOUS
  <2> QED BY <2>1, <2>2
<1>14. r \in Nat /\ Len(t) = Len(s) + 1  BY <1>1, <1>8
<1>9. ASSUME NEW n \in 1 .. r + 1 PROVE Append(b, v)[n] = t[start[N + 1] + n]
  <2>1. CASE n = r + 1
    <3>1. Append(b, v)[r + 1] = v  BY <1>4
    <3>2. k + n = Len(s) + 1  BY <1>13, <1>14, <2>1
    <3> QED BY <1>8, <1>13, <2>1, <3>1, <3>2
  <2>2. CASE n # r + 1
    <3>1. n \in 1 .. r /\ k + n \in 1 .. Len(s)  BY <1>13, <1>14, <2>2
    <3>2. Append(b, v)[n] = b[n]  BY <1>4, <3>1
    <3> QED BY <1>5, <1>8, <1>13, <3>1, <3>2
  <2> QED BY <2>1, <2>2
<1>10. k + (r + 1) = Len(t)  BY <1>13, <1>14
<1>11. \A n \in 1 .. new.rows : Buffered(new)[n] = t[start[N + 1] + n]  BY <1>2, <1>3, <1>9
<1>12. WriterLaid(new, t)
  <2>1. Laid(new.pages, t, start)  BY <1>2, <1>7
  <2>2. start[Len(new.pages) + 1] + new.rows = Len(t)  BY <1>2, <1>3, <1>10, <1>13 DEF N
  <2>3. \A n \in 1 .. new.rows : Buffered(new)[n] = t[start[Len(new.pages) + 1] + n]
    BY <1>2, <1>11 DEF N
  <2> QED BY <2>1, <2>2, <2>3 DEF WriterLaid
<1> QED BY <1>12 DEF new, t

(* The pages of a long text, after a column without buffered rows.         *)
LEMMA LongKinds ==
  ASSUME NEW v \in Strings, IsLong(v)
  PROVE  LET L == LongPages(v)
         IN  /\ Len(L) \in Nat \ {0} /\ L[1].kind = "first"
             /\ \A j \in 1 .. Len(L) : j # 1 => L[j].kind = "more"
<1> DEFINE N == (Length[v] + PieceBytes - 1) \div PieceBytes
           L == LongPages(v)
<1>1. N \in Nat \ {0}  BY LongCut
<1>2. Len(L) = N /\ \A j \in 1 .. N : L[j].kind = IF j = 1 THEN "first" ELSE "more"
  BY <1>1 DEF LongPages
<1> HIDE DEF N, L
<1>3. 1 \in 1 .. N  BY <1>1
<1> QED BY <1>1, <1>2, <1>3 DEF L

LEMMA LongLaid ==
  ASSUME NEW V, ValueSet(V), NEW w \in WriterSet(V), w.rows = 0, NEW s \in Seq(V), WriterLaid(w, s),
         NEW v \in V, IsLong(v)
  PROVE  WriterLaid([w EXCEPT !.pages = @ \o LongPages(v)], Append(s, v))
<1> DEFINE L == LongPages(v)
           k == Len(L)
           pages == w.pages
           N == Len(pages)
           both == pages \o L
           new == [w EXCEPT !.pages = @ \o LongPages(v)]
           t == Append(s, v)
           m == Len(s)
<1>1. pages \in PageLists(V) /\ N \in Nat /\ m \in Nat  BY DEF WriterSet, PageLists
<1>2. v \in Strings /\ Broken \notin V \X Int /\ <<>> \in PageLists(V)
  BY DEF IsLong, IsString, ValueSet, PageLists
<1>3. L \in PageLists(V)  BY <1>2, LongRead
<1>4. k \in Nat \ {0} /\ L[1].kind = "first" /\ \A j \in 1 .. k : j # 1 => L[j].kind = "more"
  BY <1>2, LongKinds
<1>5. new.pages = both /\ new.rows = 0  BY DEF WriterSet
<1>6. PICK start : Laid(pages, s, start) /\ start[N + 1] + 0 = m
  BY DEF WriterLaid
<1>7. start \in [1 .. N + 1 -> Nat] /\ N + 1 \in 1 .. N + 1  BY <1>1, <1>6 DEF Laid
<1>8. start[N + 1] = m
  <2>1. start[N + 1] \in Nat  BY <1>7
  <2> QED BY <1>6, <2>1
<1>9. /\ t \in Seq(V) /\ Len(t) = m + 1 /\ t[m + 1] = v
  OBVIOUS
<1>10. Laid(pages, t, start)
  <2>1. start[N + 1] <= m  BY <1>1, <1>8
  <2> QED BY <1>1, <1>6, <2>1, LaidLonger
<1> HIDE DEF L, t, m, new
<1>11. /\ both \in PageLists(V) /\ Len(both) = N + k
       /\ \A p \in 1 .. N : both[p] = pages[p]
       /\ \A j \in 1 .. k : both[N + j] = L[j]
  <2>1. pages \in Seq(PageSet(V)) /\ L \in Seq(PageSet(V))  BY <1>1, <1>3 DEF PageLists
  <2> HIDE DEF pages
  <2>2. both \in Seq(PageSet(V)) /\ Len(both) = N + k  BY <2>1
  <2>3. \A p \in 1 .. N + k : both[p] = IF p <= N THEN pages[p] ELSE L[p - N]  BY <2>1
  <2> HIDE DEF both, N, k
  <2>4. \A p \in 1 .. N : p \in 1 .. N + k /\ p <= N  BY <1>1, <1>4
  <2>5. \A j \in 1 .. k : N + j \in 1 .. N + k /\ ~(N + j <= N) /\ (N + j) - N = j  BY <1>1, <1>4
  <2> QED BY <2>2, <2>3, <2>4, <2>5 DEF PageLists
<1> DEFINE more == [p \in 1 .. N + k + 1 |-> IF p <= N + 1 THEN start[p] ELSE m + 1]
<1> HIDE DEF pages, N, both, k
<1>12. /\ more \in [1 .. N + k + 1 -> Nat] /\ \A p \in 1 .. N + 1 : more[p] = start[p]
       /\ \A p \in 1 .. N + k + 1 : p > N + 1 => more[p] = m + 1
  BY <1>1, <1>4, <1>7
<1> HIDE DEF more
<1>13. /\ more[N + 1] = m /\ more[(N + 1) + 1] = m + 1 /\ more[N + k + 1] = m + 1
  <2>1. (N + 1) + 1 \in 1 .. N + k + 1 /\ (N + 1) + 1 > N + 1  BY <1>1, <1>4
  <2>2. N + k + 1 \in 1 .. N + k + 1 /\ N + k + 1 > N + 1  BY <1>1, <1>4
  <2> QED BY <1>7, <1>8, <1>12, <2>1, <2>2
<1>14. PageAt(both, t, more, N + 1)
  <2>1. 1 \in 1 .. k  BY <1>4
  <2>2. both[N + 1].kind = "first"  BY <1>4, <1>11, <2>1
  <2>3. LongAt(both, N + 1, v)
    <3>1. (N + 1) + k - 1 = N + k /\ ~((N + 1) + k <= N + k)  BY <1>1, <1>4
    <3>2. (N + 1) + k - 1 <= Len(both) /\ ~((N + 1) + k <= Len(both))  BY <1>1, <1>4, <1>11, <3>1
    <3>3. \A j \in 1 .. k : (N + 1) + j - 1 = N + j  BY <1>1, <1>4
    <3>4. \A j \in 1 .. k : both[(N + 1) + j - 1] = L[j]  BY <1>11, <3>3
    <3> QED BY <3>2, <3>4 DEF LongAt, k, L
  <2>4. t[more[N + 1] + 1] = v  BY <1>9, <1>13
  <2> QED BY <1>13, <2>2, <2>3, <2>4 DEF PageAt, PageCount
<1>15. ASSUME NEW p \in 1 .. N + k, p > N + 1 PROVE PageAt(both, t, more, p)
  <2>1. p - N \in 1 .. k /\ p - N # 1 /\ N + (p - N) = p  BY <1>1, <1>4, <1>15
  <2>2. both[p].kind = "more"  BY <1>4, <1>11, <2>1
  <2>3. p \in 1 .. N + k + 1 /\ p + 1 \in 1 .. N + k + 1 /\ p + 1 > N + 1  BY <1>1, <1>4, <1>15
  <2>4. more[p] = m + 1 /\ more[p + 1] = m + 1  BY <1>12, <1>15, <2>3
  <2>5. m + 1 = (m + 1) + 0  BY <1>1
  <2>6. more[p + 1] = more[p] + PageCount(both[p])  BY <2>2, <2>4, <2>5 DEF PageCount
  <2> QED BY <2>2, <2>6 DEF PageAt
<1>16. Laid(both, t, more)
  <2>1. Len(both) > N /\ both[N + 1].kind # "more"
    <3>1. 1 \in 1 .. k  BY <1>4
    <3>2. both[N + 1] = L[1]  BY <1>11, <3>1
    <3>3. N + k > N  BY <1>1, <1>4
    <3> QED BY <1>4, <1>11, <3>2, <3>3
  <2>2. \A p \in 1 .. N + k : p > N => p = N + 1 \/ p > N + 1  BY <1>1, <1>4
  <2>3. \A p \in 1 .. Len(both) : p > N => PageAt(both, t, more, p)  BY <1>11, <1>14, <1>15, <2>2
  <2>4. more \in [1 .. Len(both) + 1 -> Nat]  BY <1>11, <1>12
  <2>5. /\ Len(both) > Len(pages) /\ both[Len(pages) + 1].kind # "more"
        /\ \A p \in 1 .. Len(pages) : both[p] = pages[p]
        /\ \A p \in 1 .. Len(pages) + 1 : more[p] = start[p]
        /\ \A p \in 1 .. Len(both) : p > Len(pages) => PageAt(both, t, more, p)
    BY <1>11, <1>12, <2>1, <2>3 DEF N
  <2>6. pages \in PageLists(V) /\ both \in PageLists(V)  BY <1>1, <1>11
  <2> QED BY <1>10, <2>4, <2>5, <2>6, LaidMore
<1>17. more[Len(both) + 1] + 0 = Len(t)
  <2>1. (m + 1) + 0 = m + 1  BY <1>1
  <2> QED BY <1>9, <1>11, <1>13, <2>1
<1>18. \A n \in 1 .. 0 : Buffered(new)[n] = t[more[Len(both) + 1] + n]  OBVIOUS
<1>19. WriterLaid(new, t)  BY <1>5, <1>16, <1>17, <1>18 DEF WriterLaid
<1> QED BY <1>19 DEF new, t

(* insert of a column inserter.                                            *)
LEMMA InsertedLaid ==
  ASSUME NEW V, ValueSet(V), NEW w, NEW s, Spelled(w, s, V), WriterLaid(w, s), NEW v \in V, ~Overlap(w)
  PROVE  WriterLaid(InserterValue(w, v), Append(s, v))
<1>0. /\ Null \in V /\ w \in WriterSet(V) /\ BufferOK(w) /\ s \in Seq(V)
      /\ \A u, r : Spelled(u, r, V) => u \in WriterSet(V) /\ BufferOK(u)
  BY DEF Spelled, ValueSet
<1>1. ASSUME NEW bytes
      PROVE  /\ Spelled(InserterRoom(w, bytes), s, V) /\ WriterLaid(InserterRoom(w, bytes), s)
  BY <1>0, InserterSaved, RowsLaid DEF InserterRoom
<1>2. CASE v = Null
  <2> DEFINE room == InserterRoom(w, 0)
             bit == FALSE
             zero == 0
             new == MoreRow(room, bit, v, zero)
  <2>1. room \in WriterSet(V) /\ BufferOK(room) /\ WriterLaid(room, s)  BY <1>0, <1>1
  <2>2. bit \in BOOLEAN /\ zero \in Int /\ ~bit  OBVIOUS
  <2> HIDE DEF room, bit, zero
  <2>3. WriterLaid(new, Append(s, v))  BY <1>0, <1>2, <2>1, <2>2, RowLaid
  <2>4. InserterValue(w, v) = new  BY <1>2 DEF InserterValue, InserterNull, MoreRow, room, bit, zero
  <2> HIDE DEF new
  <2> QED BY <2>3, <2>4
<1>3. CASE v # Null /\ ~IsLong(v)
  <2> DEFINE room == InserterRoom(w, CountedBytes(v))
             bytes == ValueBytes(v)
             bit == TRUE
             new == MoreRow(room, bit, v, bytes)
  <2>1. room \in WriterSet(V) /\ BufferOK(room) /\ WriterLaid(room, s)  BY <1>0, <1>1
  <2>2. bytes \in Int /\ bit /\ bit \in BOOLEAN  BY ByteCounts
  <2> HIDE DEF room, bytes, bit
  <2>3. WriterLaid(new, Append(s, v))  BY <1>0, <2>1, <2>2, RowLaid
  <2>4. InserterValue(w, v) = new  BY <1>3 DEF InserterValue, InserterShort, MoreRow, room, bytes, bit
  <2> HIDE DEF new
  <2> QED BY <2>3, <2>4
<1>4. CASE v # Null /\ IsLong(v)
  <2> DEFINE saved == InserterFlush(w)
             new == [saved EXCEPT !.pages = @ \o LongPages(v)]
  <2>1. saved \in WriterSet(V) /\ saved.rows = 0  BY <1>0, InserterSaved DEF InserterFlush
  <2>2. WriterLaid(saved, s)  BY <1>0, FlushLaid
  <2>3. InserterValue(w, v) = new  BY <1>4 DEF InserterValue, InserterLong
  <2> HIDE DEF saved
  <2>4. WriterLaid(new, Append(s, v))  BY <1>0, <1>4, <2>1, <2>2, LongLaid
  <2> HIDE DEF new
  <2> QED BY <2>3, <2>4
<1> QED BY <1>2, <1>3, <1>4

-----------------------------------------------------------------------------
(* Pages of numbers: the number of values and rows a page may have, and the *)
(* numbers of a page that has no room for one value more.                  *)
FitsPage(d, n) == 4 + 4 * d + BitmapSize(n) <= PageSize
FullPage(d, n) == 4 + 4 * (d + 1) + BitmapSize(n + 1) > PageSize

LEMMA BytesGrow ==
  ASSUME NEW m \in Nat, NEW n \in Nat, m <= n
  PROVE  /\ BitmapSize(m) \in Nat /\ BitmapSize(n) \in Nat /\ BitmapSize(m) <= BitmapSize(n)
         /\ BitmapBytes(n) = BitmapSize(n + 1)
<1> DEFINE b == BitsPerByte
           p == BitmapSize(m)
           q == BitmapSize(n)
<1>1. b \in Nat \ {0}  BY PageAssumption DEF PageAssumption
<1>2. /\ p \in Nat /\ p * b \in Nat /\ m <= p * b /\ p * b < m + b
      /\ q \in Nat /\ q * b \in Nat /\ n <= q * b /\ q * b < n + b
  BY <1>1, CeilBounds DEF BitmapSize
<1>3. BitmapBytes(n) = BitmapSize(n + 1)  BY SizeGrows
<1> HIDE DEF b, p, q
<1>4. p <= q
  <2> SUFFICES ASSUME q < p PROVE FALSE
    BY <1>2
  <2>1. q + 1 <= p  BY <1>2
  <2>2. (q + 1) * b <= p * b  BY <1>1, <1>2, <2>1, TimesMonotonic
  <2>3. (q + 1) * b = q * b + b  BY <1>1, <1>2, SMTT(30)
  <2> QED BY <1>1, <1>2, <2>2, <2>3
<1> QED BY <1>2, <1>3, <1>4 DEF p, q

(* How many numbers: ROWS_PER_PAGE is the only number of rows that fits a   *)
(* page while one more does not.                                           *)
LEMMA RowsOfFullPage ==
  /\ ROWS_PER_PAGE \in Nat \ {0}
  /\ \A n \in Nat : FitsPage(n, n) => n <= ROWS_PER_PAGE
  /\ \A n \in Nat : FitsPage(n, n) /\ FullPage(n, n) => n = ROWS_PER_PAGE
<1> DEFINE Fit(n) == 4 + 4 * n + BitmapSize(n) <= PageSize
           P(n) == 4 + 4 * n + (n + BitsPerByte - 1) \div BitsPerByte <= PageSize
                   /\ 4 + 4 * (n + 1) + (n + BitsPerByte) \div BitsPerByte > PageSize
           R == ROWS_PER_PAGE
<1>1. PageSize \in Nat /\ PageSize > 16 /\ BitsPerByte \in Nat \ {0}  BY PageAssumption DEF PageAssumption
<1>2. \A n \in Nat : P(n) <=> Fit(n) /\ ~Fit(n + 1)
  <2> TAKE n \in Nat
  <2>1. (n + 1) + BitsPerByte - 1 = n + BitsPerByte  BY <1>1
  <2>2. BitmapSize(n + 1) = (n + BitsPerByte) \div BitsPerByte  BY <2>1 DEF BitmapSize
  <2>3. BitmapSize(n + 1) \in Nat  BY BytesGrow
  <2> QED BY <1>1, <2>2, <2>3 DEF BitmapSize
<1>3. Fit(0)
  <2>1. BitmapSize(0) = 0
    <3>1. 0 <= 0 * BitsPerByte /\ 0 * BitsPerByte < 0 + BitsPerByte  BY <1>1
    <3> QED BY <1>1, <3>1, CeilUnique DEF BitmapSize
  <2> QED BY <1>1, <2>1
<1>4. ~Fit(PageSize)
  <2>1. BitmapSize(PageSize) \in Nat  BY <1>1, BytesGrow
  <2> QED BY <1>1, <2>1
<1>5. \E n \in 0 .. PageSize : Fit(n) /\ ~Fit(n + 1)
  <2> SUFFICES ASSUME \A n \in 0 .. PageSize : Fit(n) => Fit(n + 1) PROVE FALSE
    OBVIOUS
  <2> DEFINE T == {n \in Nat : n <= PageSize => Fit(n)}
  <2> HIDE DEF Fit
  <2>1. 0 \in T  BY <1>3
  <2>2. ASSUME NEW n \in Nat, n \in T PROVE n + 1 \in T
    <3> SUFFICES ASSUME n + 1 <= PageSize PROVE Fit(n + 1)
      OBVIOUS
    <3>1. n \in 0 .. PageSize  BY <1>1
    <3> QED BY <2>2, <3>1
  <2> HIDE DEF T
  <2>3. PageSize \in T  BY <1>1, <2>1, <2>2, NatSetInduction
  <2> QED BY <1>1, <1>4, <2>3 DEF T
<1>6. R \in 0 .. PageSize /\ P(R)
  <2>1. \E n \in 0 .. PageSize : P(n)  BY <1>1, <1>2, <1>5
  <2>2. R = CHOOSE n \in 0 .. PageSize : P(n)  BY DEF ROWS_PER_PAGE, RowsPerPage
  <2> HIDE DEF P, R
  <2> QED BY <2>1, <2>2
<1> HIDE DEF P, R
<1>7. R \in Nat /\ Fit(R) /\ ~Fit(R + 1)  BY <1>1, <1>2, <1>6
<1>8. ASSUME NEW m \in Nat, NEW n \in Nat, m <= n, Fit(n) PROVE Fit(m)
  <2>1. BitmapSize(m) \in Nat /\ BitmapSize(n) \in Nat /\ BitmapSize(m) <= BitmapSize(n)  BY <1>8, BytesGrow
  <2> QED BY <1>1, <1>8, <2>1
<1>9. \A n \in Nat : FitsPage(n, n) <=> Fit(n)  BY DEF FitsPage
<1>10. \A n \in Nat : FullPage(n, n) <=> ~Fit(n + 1)
  <2> TAKE n \in Nat
  <2>1. BitmapSize(n + 1) \in Nat  BY BytesGrow
  <2> QED BY <1>1, <2>1 DEF FullPage
<1> HIDE DEF Fit
<1>11. \A n \in Nat : Fit(n) => n <= R
  <2> SUFFICES ASSUME NEW n \in Nat, Fit(n), ~(n <= R) PROVE FALSE
    OBVIOUS
  <2>1. R + 1 \in Nat /\ R + 1 <= n  BY <1>7
  <2> QED BY <1>7, <1>8, <2>1
<1>12. \A n \in Nat : Fit(n) /\ ~Fit(n + 1) => n = R
  <2> SUFFICES ASSUME NEW n \in Nat, Fit(n), ~Fit(n + 1) PROVE n = R
    OBVIOUS
  <2>1. n <= R  BY <1>11
  <2>2. ~(n + 1 <= R)  BY <1>7, <1>8
  <2> QED BY <1>7, <2>1, <2>2
<1>13. R # 0
  <2>1. BitmapSize(1) = 1
    <3>1. 1 <= 1 * BitsPerByte /\ 1 * BitsPerByte < 1 + BitsPerByte  BY <1>1
    <3> QED BY <1>1, <3>1, CeilUnique DEF BitmapSize
  <2>2. Fit(1)  BY <1>1, <2>1 DEF Fit
  <2> QED BY <1>7, <2>2
<1> QED BY <1>7, <1>9, <1>10, <1>11, <1>12, <1>13 DEF R

(* A column of numbers: every page but the last is full.                   *)
IsNumber(v) == ~IsString(v) /\ ~IsWide(v)
NumberPage(page)   == page.kind = "rows" /\ FitsPage(Len(page.data), page.rows)
NumbersFill(page)  == FullPage(Len(page.data), page.rows)
NumberPages(pages) ==
  \A p \in 1 .. Len(pages) : NumberPage(pages[p]) /\ (p < Len(pages) => NumbersFill(pages[p]))
Numbers(w) ==
  /\ w.begin = 4 /\ w.bytes = 4 + 4 * Len(w.data) /\ FitsPage(Len(w.data), w.rows)
  /\ \A p \in 1 .. Len(w.pages) : NumberPage(w.pages[p]) /\ NumbersFill(w.pages[p])

LEMMA NumbersApart == ASSUME NEW V, NEW w \in WriterSet(V), Numbers(w) PROVE ~Overlap(w)
<1>1. w.rows \in Nat /\ Len(w.data) \in Nat /\ PageSize \in Nat
  BY PageAssumption DEF WriterSet, PageAssumption
<1>2. w.bytes = 4 + 4 * Len(w.data) /\ 4 + 4 * Len(w.data) + BitmapSize(w.rows) <= PageSize
  BY DEF Numbers, FitsPage
<1>3. w.rows <= w.rows  BY <1>1
<1>4. BitmapSize(w.rows) \in Nat  BY <1>1, <1>3, BytesGrow
<1> QED BY <1>1, <1>2, <1>4 DEF Overlap

LEMMA SavedPages ==
  ASSUME NEW V, NEW w \in WriterSet(V), ~Overlap(w)
  PROVE  LET N == Len(w.pages)
             saved == InserterSave(w)
         IN  /\ N \in Nat /\ Len(saved.pages) = N + 1 /\ \A p \in 1 .. N : saved.pages[p] = w.pages[p]
             /\ saved.pages[N + 1].kind = "rows" /\ saved.pages[N + 1].data = w.data
             /\ saved.pages[N + 1].rows = w.rows
             /\ saved.begin = w.begin /\ saved.bytes = w.begin /\ saved.rows = 0 /\ saved.data = <<>>
<1> DEFINE N == Len(w.pages)
           page == InserterPage(w)
           pages == w.pages
           saved == InserterSave(w)
<1>1. pages \in Seq(PageSet(V)) /\ N \in Nat  BY DEF WriterSet, PageLists
<1>2. page.kind = "rows" /\ page.data = w.data /\ page.rows = w.rows  BY DEF InserterPage, UnderBitmap, RowsPage
<1>3. /\ saved.pages = Append(pages, page) /\ saved.begin = w.begin /\ saved.bytes = w.begin
      /\ saved.rows = 0 /\ saved.data = <<>>
  BY DEF InserterSave, EmptyBuffer
<1> HIDE DEF page, saved
<1>4. /\ Len(Append(pages, page)) = N + 1 /\ Append(pages, page)[N + 1] = page
      /\ \A p \in 1 .. N : Append(pages, page)[p] = pages[p]
  BY <1>1
<1> QED BY <1>1, <1>2, <1>3, <1>4 DEF saved

LEMMA EmptyFits == FitsPage(0, 0)
<1>1. PageSize \in Nat /\ PageSize > 16 /\ BitsPerByte \in Nat \ {0}  BY PageAssumption DEF PageAssumption
<1>2. 0 <= 0 * BitsPerByte /\ 0 * BitsPerByte < 0 + BitsPerByte  BY <1>1
<1>3. BitmapSize(0) = 0  BY <1>1, <1>2, CeilUnique DEF BitmapSize
<1> QED BY <1>1, <1>3 DEF FitsPage

LEMMA NumbersSaved ==
  ASSUME NEW V, NEW w \in WriterSet(V), Numbers(w), FullPage(Len(w.data), w.rows)
  PROVE  Numbers(InserterSave(w))
<1> DEFINE N == Len(w.pages)
           saved == InserterSave(w)
<1>1. /\ N \in Nat /\ Len(saved.pages) = N + 1 /\ \A p \in 1 .. N : saved.pages[p] = w.pages[p]
      /\ saved.pages[N + 1].kind = "rows" /\ saved.pages[N + 1].data = w.data
      /\ saved.pages[N + 1].rows = w.rows
      /\ saved.begin = w.begin /\ saved.bytes = w.begin /\ saved.rows = 0 /\ saved.data = <<>>
  BY NumbersApart, SavedPages
<1> HIDE DEF N, saved
<1>2. NumberPage(saved.pages[N + 1]) /\ NumbersFill(saved.pages[N + 1])
  BY <1>1 DEF NumberPage, NumbersFill, Numbers
<1>3. \A p \in 1 .. N : NumberPage(saved.pages[p]) /\ NumbersFill(saved.pages[p])
  BY <1>1 DEF Numbers, N
<1>4. \A p \in 1 .. N + 1 : p \in 1 .. N \/ p = N + 1  BY <1>1
<1>5. \A p \in 1 .. Len(saved.pages) : NumberPage(saved.pages[p]) /\ NumbersFill(saved.pages[p])
  BY <1>1, <1>2, <1>3, <1>4
<1>6. saved.begin = 4 /\ saved.bytes = 4 + 4 * Len(saved.data) /\ FitsPage(Len(saved.data), saved.rows)
  BY <1>1, EmptyFits DEF Numbers
<1> QED BY <1>5, <1>6 DEF Numbers, saved

(* The page is full when a number or a NULL does not fit.                  *)
LEMMA NumberRoom ==
  ASSUME NEW V, NEW w \in WriterSet(V), Numbers(w), NEW bytes \in {0, 4}
  PROVE  LET room == InserterRoom(w, bytes)
         IN  /\ Numbers(room) /\ Fits(room, bytes)
             /\ Len(room.data) \in Nat /\ room.rows \in Nat
<1> DEFINE d == Len(w.data)
           n == w.rows
           k == BitmapBytes(n)
<1>1. PageSize \in Nat /\ PageSize > 16  BY PageAssumption DEF PageAssumption
<1>2. d \in Nat /\ n \in Nat /\ w.bytes = 4 + 4 * d  BY DEF WriterSet, Numbers
<1>3. k \in Nat /\ k = BitmapSize(n + 1)
  <2> HIDE DEF d, n
  <2>1. n + 1 \in Nat /\ n <= n /\ n + 1 <= n + 1  BY <1>2
  <2>2. BitmapSize(n + 1) \in Nat  BY <2>1, BytesGrow
  <2>3. BitmapBytes(n) = BitmapSize(n + 1)  BY <1>2, <2>1, BytesGrow
  <2> QED BY <2>2, <2>3
<1> HIDE DEF d, n, k
<1>4. CASE Fits(w, bytes)
  <2>1. InserterRoom(w, bytes) = w  BY <1>4 DEF InserterRoom
  <2> QED BY <1>2, <1>4, <2>1 DEF d, n
<1>5. CASE ~Fits(w, bytes)
  <2>1. InserterRoom(w, bytes) = InserterSave(w)  BY <1>5 DEF InserterRoom
  <2>2. FullPage(d, n)
    <3>1. ~(w.bytes + bytes + k <= PageSize)  BY <1>5 DEF Fits, k, n
    <3> QED BY <1>1, <1>2, <1>3, <3>1 DEF FullPage
  <2>3. Numbers(InserterSave(w))  BY <2>2, NumbersSaved DEF d, n
  <2> DEFINE saved == InserterSave(w)
  <2>4. saved.bytes = 4 /\ saved.rows = 0 /\ saved.data = <<>>  BY NumbersApart, SavedPages DEF Numbers
  <2> HIDE DEF saved
  <2>5. BitmapBytes(0) = 1
    <3>1. BitsPerByte \in Nat \ {0}  BY PageAssumption DEF PageAssumption
    <3>2. 0 + 1 <= 1 * BitsPerByte /\ 1 * BitsPerByte < (0 + 1) + BitsPerByte  BY <3>1
    <3>3. BitmapSize(0 + 1) = 1  BY <3>1, <3>2, CeilUnique DEF BitmapSize
    <3>4. BitmapBytes(0) = BitmapSize(0 + 1)  BY BytesGrow
    <3> QED BY <3>3, <3>4
  <2>6. Fits(saved, bytes)  BY <1>1, <2>4, <2>5 DEF Fits
  <2> QED BY <2>1, <2>3, <2>4, <2>6 DEF saved
<1> QED BY <1>4, <1>5

LEMMA NumberInserted ==
  ASSUME NEW V, NEW w \in WriterSet(V), Numbers(w), NEW v \in V, v = Null \/ IsNumber(v)
  PROVE  Numbers(InserterValue(w, v))
<1> DEFINE bytes == IF v = Null THEN 0 ELSE 4
           values == IF v = Null THEN <<>> ELSE <<v>>
           room == InserterRoom(w, bytes)
           new == InserterValue(w, v)
           d == Len(room.data)
           n == room.rows
<1>1. bytes \in {0, 4} /\ PageSize \in Nat  BY PageAssumption DEF PageAssumption
<1>2. Numbers(room) /\ Fits(room, bytes) /\ d \in Nat /\ n \in Nat
  <2> HIDE DEF bytes
  <2> QED BY <1>1, NumberRoom
<1>3. new = AddRow(room, v # Null, values, bytes)
  <2>1. CASE v = Null  BY <2>1 DEF InserterValue, InserterNull
  <2>2. CASE v # Null
    <3>1. ~IsLong(v) /\ CountedBytes(v) = 4 /\ ValueBytes(v) = 4
      BY <2>2 DEF IsNumber, IsLong, CountedBytes, ValueBytes
    <3> QED BY <2>2, <3>1 DEF InserterValue, InserterShort
  <2> QED BY <2>1, <2>2
<1>4. /\ new.pages = room.pages /\ new.begin = room.begin /\ new.rows = n + 1
      /\ new.data = room.data \o values /\ new.bytes = room.bytes + bytes
  <2> HIDE DEF room, values, bytes, new
  <2> QED BY <1>3 DEF AddRow
<1> DEFINE more == IF v = Null THEN 0 ELSE 1
<1>5. Len(new.data) = d + more
  <2>1. room.data \in Seq(V)
    <3>1. room = w \/ room.data = <<>>
      <4>1. InserterRoom(w, bytes) = w \/ InserterRoom(w, bytes) = InserterSave(w)  BY DEF InserterRoom
      <4>2. InserterSave(w).data = <<>>  BY NumbersApart, SavedPages
      <4> QED BY <4>1, <4>2
    <3>2. w.data \in Seq(V)  BY DEF WriterSet
    <3> HIDE DEF room
    <3>3. <<>> \in Seq(V)  OBVIOUS
    <3>4. CASE room = w
      <4>1. room.data = w.data  BY <3>4
      <4> QED BY <3>2, <4>1
    <3>5. CASE room.data = <<>>  BY <3>3, <3>5
    <3> QED BY <3>1, <3>4, <3>5
  <2>2. values \in Seq(V) /\ Len(values) = more  OBVIOUS
  <2> HIDE DEF values, more, new, room
  <2>3. Len(room.data \o values) = Len(room.data) + Len(values)  BY <2>1, <2>2
  <2> QED BY <1>4, <2>2, <2>3
<1>6. bytes = 4 * more /\ more \in Nat  OBVIOUS
<1> HIDE DEF values, more, new, bytes, room
<1>7. new.bytes = 4 + 4 * (d + more)
  <2> HIDE DEF d, n
  <2>1. room.bytes = 4 + 4 * d  BY <1>2 DEF Numbers, d
  <2> QED BY <1>2, <1>4, <1>6, <2>1
<1>8. FitsPage(d + more, n + 1)
  <2>1. room.bytes + bytes + BitmapBytes(n) <= PageSize  BY <1>2 DEF Fits
  <2>2. n <= n  BY <1>2
  <2>3. BitmapBytes(n) = BitmapSize(n + 1)  BY <1>2, <2>2, BytesGrow
  <2> QED BY <1>4, <1>7, <2>1, <2>3 DEF FitsPage
<1> HIDE DEF d, n
<1> QED BY <1>2, <1>4, <1>5, <1>7, <1>8 DEF Numbers, new

LEMMA NumbersFlushed ==
  ASSUME NEW V, NEW w \in WriterSet(V), Numbers(w)
  PROVE  NumberPages(InserterFlush(w).pages)
<1>1. CASE w.rows = 0
  BY <1>1 DEF InserterFlush, NumberPages, Numbers
<1>2. CASE w.rows # 0
  <2> DEFINE N == Len(w.pages)
             saved == InserterSave(w)
  <2>1. /\ N \in Nat /\ Len(saved.pages) = N + 1 /\ \A p \in 1 .. N : saved.pages[p] = w.pages[p]
        /\ saved.pages[N + 1].kind = "rows" /\ saved.pages[N + 1].data = w.data
        /\ saved.pages[N + 1].rows = w.rows
    BY NumbersApart, SavedPages
  <2>2. InserterFlush(w) = saved  BY <1>2 DEF InserterFlush
  <2> HIDE DEF N, saved
  <2>3. NumberPage(saved.pages[N + 1])  BY <2>1 DEF NumberPage, Numbers
  <2>4. \A p \in 1 .. N : NumberPage(saved.pages[p]) /\ NumbersFill(saved.pages[p])
    BY <2>1 DEF Numbers, N
  <2>5. \A p \in 1 .. N + 1 : p \in 1 .. N \/ (p = N + 1 /\ ~(p < N + 1))  BY <2>1
  <2> QED BY <2>1, <2>2, <2>3, <2>4, <2>5 DEF NumberPages
<1> QED BY <1>1, <1>2

-----------------------------------------------------------------------------
(* Every value is in a page.                                               *)
LEMMA Located ==
  ASSUME NEW V, NEW pages \in PageLists(V), NEW s, NEW start, Laid(pages, s, start),
         NEW n \in 1 .. start[Len(pages) + 1]
  PROVE  \E p \in 1 .. Len(pages) : \E m \in 1 .. PageCount(pages[p]) : n = start[p] + m
<1> DEFINE N == Len(pages)
           In(p) == \E m \in 1 .. PageCount(pages[p]) : n = start[p] + m
           T == {k \in Nat : k <= N => (n <= start[k + 1] => \E p \in 1 .. k : In(p))}
<1>1. N \in Nat  BY DEF PageLists
<1>2. /\ start \in [1 .. N + 1 -> Nat] /\ start[1] = 0
      /\ \A p \in 1 .. N : start[p + 1] = start[p] + PageCount(pages[p])
  BY DEF Laid, PageAt
<1>3. n \in Nat \ {0}
  <2>1. N + 1 \in 1 .. N + 1  BY <1>1
  <2>2. start[N + 1] \in Nat  BY <1>2, <2>1
  <2> QED BY <2>2
<1>4. \A p \in 1 .. N : PageCount(pages[p]) \in Nat  BY StartsGrow
<1> HIDE DEF N, In
<1>5. 0 \in T  BY <1>2, <1>3
<1>6. ASSUME NEW k \in Nat, k \in T PROVE k + 1 \in T
  <2> SUFFICES ASSUME k + 1 <= N, n <= start[(k + 1) + 1] PROVE \E p \in 1 .. k + 1 : In(p)
    OBVIOUS
  <2>1. k + 1 \in 1 .. N /\ k + 1 \in 1 .. N + 1 /\ k <= N /\ k + 1 \in 1 .. k + 1  BY <1>1
  <2>2. /\ start[(k + 1) + 1] = start[k + 1] + PageCount(pages[k + 1])
        /\ start[k + 1] \in Nat /\ PageCount(pages[k + 1]) \in Nat
    BY <1>2, <1>4, <2>1
  <2>3. CASE n <= start[k + 1]
    <3>1. \E p \in 1 .. k : In(p)  BY <1>6, <2>1, <2>3
    <3>2. \A p \in 1 .. k : p \in 1 .. k + 1  OBVIOUS
    <3> QED BY <3>1, <3>2
  <2>4. CASE ~(n <= start[k + 1])
    <3> DEFINE m == n - start[k + 1]
    <3>1. m \in 1 .. PageCount(pages[k + 1]) /\ n = start[k + 1] + m  BY <1>3, <2>2, <2>4
    <3>2. In(k + 1)  BY <3>1 DEF In
    <3> QED BY <2>1, <3>2
  <2> QED BY <2>3, <2>4
<1> HIDE DEF T
<1>7. N \in T  BY <1>1, <1>5, <1>6, NatSetInduction
<1>8. n <= start[N + 1]  BY DEF N
<1>9. \E p \in 1 .. N : In(p)  BY <1>1, <1>7, <1>8 DEF T
<1> QED BY <1>9 DEF N, In

(* A page whose rows all have a value.                                     *)
LEMMA AllSet ==
  ASSUME NEW page, page.rows \in Nat, RankOf(page, page.rows) = page.rows, NEW n \in 1 .. page.rows
  PROVE  PageRows(page)[n] = page.data[n]
<1> DEFINE r == page.rows
           S(k) == {m \in 1 .. k : BitAt(page, m)}
<1>1. r \in Nat /\ n \in Nat /\ n <= r  OBVIOUS
<1>2. IsFiniteSet(1 .. r) /\ Cardinality(1 .. r) = r /\ Cardinality(1 .. n) = n  BY <1>1, FS_Interval
<1>3. S(r) = 1 .. r
  <2>1. S(r) \in SUBSET (1 .. r) /\ Cardinality(S(r)) = r  BY DEF RankOf
  <2> HIDE DEF S, r
  <2> QED BY <1>2, <2>1, FS_Subset
<1>4. \A m \in 1 .. r : BitAt(page, m)
  <2>1. \A m \in S(r) : BitAt(page, m)  OBVIOUS
  <2> HIDE DEF S
  <2> QED BY <1>3, <2>1
<1>5. {m \in 1 .. n : BitAt(page, m)} = 1 .. n
  <2>1. \A m \in 1 .. n : m \in 1 .. r  BY <1>1
  <2> QED BY <1>4, <2>1
<1>6. RankOf(page, n) = n  BY <1>2, <1>5 DEF RankOf
<1>7. BitAt(page, n)  BY <1>4
<1> QED BY <1>6, <1>7 DEF PageRows

(* A value of a dense column is where the number of its row says.          *)
LEMMA DenseRead ==
  ASSUME NEW V, NEW pages \in PageLists(V), NumberPages(pages),
         \A p \in 1 .. Len(pages) : Len(pages[p].data) = pages[p].rows,
         NEW s, NEW start, Laid(pages, s, start), NEW n \in Nat, n < start[Len(pages) + 1]
  PROVE  LET p == n \div ROWS_PER_PAGE + 1
             o == (n % ROWS_PER_PAGE) + 1
         IN  p \in DOMAIN pages /\ o \in DOMAIN pages[p].data /\ pages[p].data[o] = s[n + 1]
<1> DEFINE N == Len(pages)
           R == ROWS_PER_PAGE
           q == n \div R
           p == q + 1
           o == n % R
<1>1. N \in Nat /\ \A k \in 1 .. N : pages[k] \in PageSet(V)  BY DEF PageLists
<1>2. R \in Nat \ {0}  BY RowsOfFullPage
<1>3. /\ start \in [1 .. N + 1 -> Nat] /\ start[1] = 0
      /\ \A k \in 1 .. N : PageAt(pages, s, start, k)
  BY DEF Laid
<1>4. ASSUME NEW k \in 1 .. N
      PROVE  /\ pages[k].rows \in Nat /\ pages[k].kind = "rows" /\ start[k + 1] = start[k] + pages[k].rows
             /\ pages[k].rows <= R /\ (k < N => pages[k].rows = R)
             /\ pages[k].data \in Seq(V)
  <2>1. NumberPage(pages[k]) /\ (k < N => NumbersFill(pages[k])) /\ Len(pages[k].data) = pages[k].rows
    BY DEF NumberPages
  <2>2. pages[k].kind = "rows" /\ pages[k].rows \in Nat /\ pages[k].data \in Seq(V)
    BY <1>1, <2>1 DEF NumberPage, PageSet
  <2>3. start[k + 1] = start[k] + pages[k].rows  BY <1>3, <2>2 DEF PageAt, PageCount
  <2>4. FitsPage(pages[k].rows, pages[k].rows) /\ (k < N => FullPage(pages[k].rows, pages[k].rows))
    BY <2>1 DEF NumberPage, NumbersFill
  <2> QED BY <2>2, <2>3, <2>4, RowsOfFullPage
<1> HIDE DEF N, R
<1>5. \A k \in 1 .. N : start[k] = (k - 1) * R
  <2> DEFINE T == {k \in Nat : k + 1 <= N => start[k + 1] = k * R}
  <2>1. 0 \in T  BY <1>2, <1>3
  <2>2. ASSUME NEW k \in Nat, k \in T PROVE k + 1 \in T
    <3> SUFFICES ASSUME (k + 1) + 1 <= N PROVE start[(k + 1) + 1] = (k + 1) * R
      OBVIOUS
    <3>1. k + 1 \in 1 .. N /\ k + 1 < N /\ k + 1 <= N  BY <1>1
    <3>2. start[(k + 1) + 1] = start[k + 1] + R /\ start[k + 1] = k * R  BY <1>4, <2>2, <3>1
    <3>3. (k + 1) * R = k * R + R  BY <1>2, SMTT(30)
    <3> QED BY <3>2, <3>3
  <2> HIDE DEF T
  <2>3. Nat \subseteq T  BY <2>1, <2>2, NatSetInduction
  <2> TAKE k \in 1 .. N
  <2>4. k - 1 \in Nat /\ (k - 1) + 1 = k /\ k <= N  BY <1>1
  <2> QED BY <2>3, <2>4 DEF T
<1>6. q \in Nat /\ o \in 0 .. R - 1 /\ n = R * q + o  BY <1>2, DivMod
<1>7. N # 0 /\ n < start[N + 1]
  <2>1. n < start[N + 1]  BY DEF N
  <2>2. CASE N = 0
    <3>1. start[N + 1] = 0  BY <1>3, <2>2
    <3> QED BY <2>1, <3>1
  <2> QED BY <2>1, <2>2
<1>8. N \in 1 .. N  BY <1>1, <1>7
<1>9. n < R * N
  <2>1. start[N + 1] = (N - 1) * R + pages[N].rows /\ pages[N].rows <= R /\ pages[N].rows \in Nat
    BY <1>4, <1>5, <1>8
  <2>2. (N - 1) * R + R = R * N /\ (N - 1) * R \in Nat  BY <1>1, <1>2, <1>8, SMTT(30)
  <2> DEFINE a == (N - 1) * R
             b == R * N
             c == pages[N].rows
             e == start[N + 1]
  <2>3. a \in Nat /\ a + R = b /\ e = a + c /\ c <= R /\ c \in Nat /\ n < e  BY <1>7, <2>1, <2>2
  <2> HIDE DEF a, b, c, e
  <2>4. n < b  BY <1>2, <2>3
  <2> QED BY <2>4 DEF b
<1>10. q \in 0 .. N - 1  BY <1>1, <1>2, <1>9, DivInRange
<1>11. p \in 1 .. N /\ start[p] = q * R
  <2>1. p \in 1 .. N /\ p - 1 = q  BY <1>1, <1>10
  <2> QED BY <1>5, <2>1
<1>12. R * q = q * R /\ q * R \in Nat  BY <1>2, <1>6, SMTT(30)
<1> DEFINE a == q * R
           r == pages[p].rows
<1>13. o + 1 \in 1 .. r
  <2>1. CASE p < N
    <3>1. r = R  BY <1>4, <1>11, <2>1
    <3> HIDE DEF o, r
    <3> QED BY <1>2, <1>6, <2>1, <3>1
  <2>2. CASE ~(p < N)
    <3>1. p = N  BY <1>1, <1>11, <2>2
    <3>2. start[N + 1] = a + r /\ r \in Nat  BY <1>4, <1>8, <1>11, <3>1
    <3> HIDE DEF a, r, o, q
    <3>3. n < a + r  BY <1>7, <3>2
    <3>4. n = a + o /\ a \in Nat /\ o \in Nat  BY <1>2, <1>6, <1>12 DEF a
    <3> QED BY <3>2, <3>3, <3>4
  <2> QED BY <2>1, <2>2
<1>14. pages[p].data[o + 1] = s[n + 1]
  <2>1. PageAt(pages, s, start, p) /\ pages[p].kind = "rows" /\ r \in Nat  BY <1>3, <1>4, <1>11
  <2>2. Len(pages[p].data) = RankOf(pages[p], r) /\ PageRows(pages[p])[o + 1] = s[start[p] + (o + 1)]
    BY <1>13, <2>1 DEF PageAt
  <2>3. RankOf(pages[p], r) = r  BY <1>11, <2>2 DEF N
  <2>4. PageRows(pages[p])[o + 1] = pages[p].data[o + 1]  BY <1>13, <2>1, <2>3, AllSet
  <2>5. start[p] + (o + 1) = n + 1
    <3> HIDE DEF o, q
    <3> QED BY <1>2, <1>6, <1>11, <1>12
  <2> QED BY <2>2, <2>4, <2>5
<1>15. p \in DOMAIN pages /\ o + 1 \in DOMAIN pages[p].data
  <2>1. Len(pages[p].data) = r /\ pages[p].data \in Seq(V)  BY <1>4, <1>11 DEF N
  <2>2. DOMAIN pages = 1 .. N  BY DEF PageLists, N
  <2>3. DOMAIN pages[p].data = 1 .. r  BY <2>1
  <2> QED BY <1>11, <1>13, <2>2, <2>3
<1> QED BY <1>14, <1>15 DEF R

-----------------------------------------------------------------------------
LEMMA Growing ==
  ASSUME NEW n \in Nat, NEW start \in [1 .. n + 1 -> Nat], \A i \in 1 .. n : start[i] <= start[i + 1],
         NEW i \in 1 .. n + 1, NEW j \in 1 .. n + 1, i <= j
  PROVE  start[i] <= start[j]
<1> DEFINE U == {d \in Nat : i + d <= n + 1 => start[i] <= start[i + d]}
<1>1. 0 \in U  OBVIOUS
<1>2. ASSUME NEW d \in Nat, d \in U PROVE d + 1 \in U
  <2> SUFFICES ASSUME i + (d + 1) <= n + 1 PROVE start[i] <= start[i + (d + 1)]
    OBVIOUS
  <2>1. i + d \in 1 .. n /\ i + d <= n + 1 /\ i + (d + 1) = (i + d) + 1 /\ i + d \in 1 .. n + 1
        /\ (i + d) + 1 \in 1 .. n + 1
    OBVIOUS
  <2>2. start[i] <= start[i + d]  BY <1>2, <2>1
  <2>3. start[i + d] <= start[(i + d) + 1]  BY <2>1
  <2>4. start[i] \in Nat /\ start[i + d] \in Nat /\ start[(i + d) + 1] \in Nat  BY <2>1
  <2> QED BY <2>1, <2>2, <2>3, <2>4
<1> HIDE DEF U
<1>3. Nat \subseteq U  BY <1>1, <1>2, NatSetInduction
<1>4. PICK d \in Nat : j = i + d
  <2>1. j - i \in Nat /\ j = i + (j - i)  OBVIOUS
  <2> QED BY <2>1
<1>5. d \in U /\ i + d <= n + 1  BY <1>3, <1>4
<1>6. start[i] <= start[i + d]  BY <1>5 DEF U
<1> QED BY <1>4, <1>6

(* FlattenSeq: sequences in a row, each where the ones before it end.      *)
LEMMA Flattened ==
  ASSUME NEW D, NEW seqs \in Seq(Seq(D)), NEW start \in [1 .. Len(seqs) + 1 -> Nat], start[1] = 0,
         \A i \in 1 .. Len(seqs) : start[i + 1] = start[i] + Len(seqs[i])
  PROVE  /\ FlattenSeq(seqs) \in Seq(D) /\ Len(FlattenSeq(seqs)) = start[Len(seqs) + 1]
         /\ \A i \in 1 .. Len(seqs) : \A m \in 1 .. Len(seqs[i]) :
              FlattenSeq(seqs)[start[i] + m] = seqs[i][m]
<1> DEFINE N == Len(seqs)
           R(f) == f = [i \in 1 .. N |-> IF i = 1 THEN seqs[i] ELSE f[i - 1] \o seqs[i]]
           flatten == CHOOSE f : R(f)
           G == [x \in (1 .. N) \X Seq(D) |-> x[2] \o seqs[x[1]]]
           Prefixed(g, k) == /\ g[k] \in Seq(D) /\ Len(g[k]) = start[k + 1]
                           /\ \A i \in 1 .. k : \A m \in 1 .. Len(seqs[i]) : g[k][start[i] + m] = seqs[i][m]
<1>1. N \in Nat /\ \A i \in 1 .. N : seqs[i] \in Seq(D)  OBVIOUS
<1>2. CASE N = 0
  <2>1. seqs = <<>> /\ FlattenSeq(seqs) = seqs  BY <1>2 DEF FlattenSeq
  <2>2. seqs \in Seq(D) /\ start[Len(seqs) + 1] = 0 /\ 1 .. Len(seqs) = {} /\ Len(seqs) = 0  BY <1>2, <2>1
  <2> QED BY <2>1, <2>2
<1>3. CASE N # 0
  <2>1. PICK f : Iterates(f, N, Seq(D), <<>>, G)
    <3>1. G \in StepsOf(N, Seq(D))  BY <1>1 DEF StepsOf
    <3>2. <<>> \in Seq(D)  OBVIOUS
    <3> HIDE DEF G, N
    <3> QED BY <1>1, <3>1, <3>2, RecursionExists
  <2>2. f \in [0 .. N -> Seq(D)] /\ f[0] = <<>> /\ \A i \in 1 .. N : f[i] = f[i - 1] \o seqs[i]
    <3>1. f \in [0 .. N -> Seq(D)] /\ f[0] = <<>> /\ \A i \in 1 .. N : f[i] = G[<<i, f[i - 1]>>]
      BY <2>1 DEF Iterates
    <3>2. ASSUME NEW i \in 1 .. N PROVE f[i] = f[i - 1] \o seqs[i]
      <4>1. i - 1 \in 0 .. N  BY <1>1
      <4>2. <<i, f[i - 1]>> \in (1 .. N) \X Seq(D)  BY <3>1, <4>1
      <4> QED BY <3>1, <4>2
    <3> QED BY <3>1, <3>2
  <2> DEFINE h == [i \in 1 .. N |-> f[i]]
  <2>3. R(h)
    <3>1. ASSUME NEW i \in 1 .. N PROVE h[i] = IF i = 1 THEN seqs[i] ELSE h[i - 1] \o seqs[i]
      <4>1. CASE i = 1
        <5>0. 1 \in 1 .. N /\ 1 - 1 = 0  BY <4>1
        <5>1. f[1] = <<>> \o seqs[1] /\ seqs[1] \in Seq(D)  BY <1>1, <2>2, <5>0
        <5>2. <<>> \o seqs[1] = seqs[1]  BY <5>1
        <5> QED BY <4>1, <5>1, <5>2
      <4>2. CASE i # 1
        <5>1. i - 1 \in 1 .. N  BY <1>1, <4>2
        <5> QED BY <2>2, <4>2, <5>1
      <4> QED BY <4>1, <4>2
    <3> HIDE DEF N
    <3> QED BY <3>1
  <2>4. R(flatten)  BY <2>3, Zenon
  <2>5. FlattenSeq(seqs) = flatten[N]  BY <1>3 DEF FlattenSeq
  <2> HIDE DEF flatten, N
  <2>6. \A i \in 1 .. N : flatten[i] = IF i = 1 THEN seqs[i] ELSE flatten[i - 1] \o seqs[i]
    BY <2>4
  <2> DEFINE T == {k \in Nat : k + 1 <= N => Prefixed(flatten, k + 1)}
  <2>7. 0 \in T
    <3>1. 1 \in 1 .. N /\ 0 + 1 = 1  BY <1>1, <1>3
    <3>2. flatten[1] = seqs[1] /\ seqs[1] \in Seq(D)  BY <1>1, <2>6, <3>1
    <3>3. start[1 + 1] = start[1] + Len(seqs[1])  BY <3>1 DEF N
    <3>4. Len(seqs[1]) = start[1 + 1]  BY <3>2, <3>3
    <3>5. \A i \in 1 .. 1 : \A m \in 1 .. Len(seqs[i]) : flatten[1][start[i] + m] = seqs[i][m]
      <4> SUFFICES ASSUME NEW m \in 1 .. Len(seqs[1]) PROVE flatten[1][start[1] + m] = seqs[1][m]
        OBVIOUS
      <4>1. start[1] + m = m  OBVIOUS
      <4> QED BY <3>2, <4>1
    <3> QED BY <3>1, <3>2, <3>4, <3>5
  <2>8. ASSUME NEW k \in Nat, k \in T PROVE k + 1 \in T
    <3> SUFFICES ASSUME (k + 1) + 1 <= N PROVE Prefixed(flatten, (k + 1) + 1)
      OBVIOUS
    <3> DEFINE j == k + 1
               a == flatten[j]
               b == seqs[j + 1]
               c == flatten[j + 1]
    <3>1. j \in 1 .. N /\ j + 1 \in 1 .. N /\ j <= N /\ (j + 1) - 1 = j /\ j + 1 # 1  BY <1>1
    <3>2. Prefixed(flatten, j)  BY <2>8, <3>1
    <3>3. c = a \o b /\ b \in Seq(D)  BY <1>1, <2>6, <3>1
    <3>4. a \in Seq(D) /\ Len(a) = start[j + 1]
          /\ \A i \in 1 .. j : \A m \in 1 .. Len(seqs[i]) : a[start[i] + m] = seqs[i][m]
      BY <3>2
    <3>5. \A i \in 1 .. N + 1 : start[i] \in Nat  BY DEF N
    <3>6. start[(j + 1) + 1] = start[j + 1] + Len(b)  BY <3>1 DEF N
    <3>11. j \in Nat  OBVIOUS
    <3> HIDE DEF j, a, b, c, T
    <3>7. /\ c \in Seq(D) /\ Len(c) = Len(a) + Len(b)
          /\ \A i \in 1 .. Len(a) + Len(b) : c[i] = IF i <= Len(a) THEN a[i] ELSE b[i - Len(a)]
      <4>1. a \in Seq(D) /\ b \in Seq(D) /\ c = a \o b  BY <3>3, <3>4
      <4> QED BY <4>1
    <3>8. Len(c) = start[(j + 1) + 1]  BY <3>4, <3>6, <3>7
    <3>9. ASSUME NEW i \in 1 .. j + 1, NEW m \in 1 .. Len(seqs[i]) PROVE c[start[i] + m] = seqs[i][m]
      <4>1. CASE i = j + 1
        <5>1. m \in 1 .. Len(b) /\ Len(b) \in Nat /\ Len(a) \in Nat  BY <3>3, <3>4, <4>1 DEF b
        <5>2. Len(a) + m \in 1 .. Len(a) + Len(b) /\ ~(Len(a) + m <= Len(a)) /\ (Len(a) + m) - Len(a) = m
          BY <5>1
        <5>3. c[Len(a) + m] = b[m]  BY <3>7, <5>2
        <5> QED BY <3>4, <4>1, <5>3 DEF b
      <4>2. CASE i # j + 1
        <5>1. i \in 1 .. j /\ i \in 1 .. N /\ i + 1 \in 1 .. N + 1 /\ i \in 1 .. N + 1
          BY <1>1, <3>1, <4>2
        <5>2. a[start[i] + m] = seqs[i][m]  BY <3>4, <5>1
        <5>3. start[i] + m \in 1 .. Len(a)
          <6>1. \A l \in 1 .. N : start[l] <= start[l + 1]
            <7> TAKE l \in 1 .. N
            <7>1. start[l + 1] = start[l] + Len(seqs[l])  BY DEF N
            <7>2. l \in 1 .. N + 1  BY <1>1
            <7> QED BY <1>1, <3>5, <7>1, <7>2
          <6>2. i + 1 <= j + 1 /\ j + 1 \in 1 .. N + 1  BY <1>1, <3>1, <5>1
          <6>3. start \in [1 .. N + 1 -> Nat]  BY DEF N
          <6>5. start[i + 1] <= start[j + 1]  BY <1>1, <5>1, <6>1, <6>2, <6>3, Growing
          <6>6. start[i + 1] = start[i] + Len(seqs[i]) /\ start[i] \in Nat /\ start[i + 1] \in Nat
                /\ start[j + 1] \in Nat /\ Len(seqs[i]) \in Nat
            <7>1. start[i + 1] = start[i] + Len(seqs[i])  BY <5>1 DEF N
            <7>2. j + 1 \in 1 .. N + 1  BY <1>1, <3>1
            <7> QED BY <1>1, <3>5, <5>1, <7>1, <7>2
          <6>7. m \in Nat \ {0} /\ m <= Len(seqs[i])  BY <6>6
          <6>8. Len(a) = start[j + 1]  BY <3>4
          <6> DEFINE x == start[i]
                     y == start[i + 1]
                     z == start[j + 1]
                     l == Len(seqs[i])
          <6>9. x \in Nat /\ y \in Nat /\ z \in Nat /\ l \in Nat /\ y = x + l /\ y <= z /\ m <= l
            BY <6>5, <6>6, <6>7
          <6> HIDE DEF x, y, z, l
          <6>10. x + m \in 1 .. z  BY <6>7, <6>9
          <6> QED BY <6>8, <6>10 DEF x, z
        <5>4. Len(a) \in Nat /\ Len(b) \in Nat  BY <3>3, <3>4
        <5>5. start[i] + m \in 1 .. Len(a) + Len(b) /\ start[i] + m <= Len(a)  BY <5>3, <5>4
        <5> QED BY <3>7, <5>2, <5>5
      <4> QED BY <4>1, <4>2
    <3>10. Prefixed(flatten, j + 1)  BY <3>7, <3>8, <3>9 DEF c
    <3> QED BY <3>10 DEF j
  <2> HIDE DEF T, Prefixed
  <2>9. Nat \subseteq T  BY <2>7, <2>8, NatSetInduction
  <2>10. N - 1 \in Nat /\ (N - 1) + 1 = N  BY <1>1, <1>3
  <2>11. Prefixed(flatten, N)  BY <2>9, <2>10 DEF T
  <2>12. Prefixed(flatten, Len(seqs))  BY <2>11 DEF N
  <2> QED BY <2>5, <2>12 DEF Prefixed, N
<1> QED BY <1>2, <1>3

-----------------------------------------------------------------------------
(* Values of pages in a row, each as many as its page counts, are as many   *)
(* as the column's, and every one is of some page.                         *)
Counted(seqs, pages, D) ==
  /\ seqs \in Seq(Seq(D)) /\ Len(seqs) = Len(pages)
  /\ \A p \in 1 .. Len(pages) : Len(seqs[p]) = PageCount(pages[p])
InARow(q, seqs, pages, start, D) ==
  /\ q \in Seq(D) /\ Len(q) = start[Len(pages) + 1]
  /\ \A n \in 1 .. start[Len(pages) + 1] :
       \E p \in 1 .. Len(pages) : \E m \in 1 .. PageCount(pages[p]) : n = start[p] + m /\ q[n] = seqs[p][m]

LEMMA PagesInARow ==
  ASSUME NEW V, NEW pages \in PageLists(V), NEW s, NEW start, Laid(pages, s, start),
         NEW D, NEW seqs, Counted(seqs, pages, D)
  PROVE  InARow(FlattenSeq(seqs), seqs, pages, start, D)
<1>0. /\ seqs \in Seq(Seq(D)) /\ Len(seqs) = Len(pages)
      /\ \A p \in 1 .. Len(pages) : Len(seqs[p]) = PageCount(pages[p])
  BY DEF Counted
<1> DEFINE q == FlattenSeq(seqs)
<1>1. \A n \in 1 .. start[Len(pages) + 1] : \E p \in 1 .. Len(pages) : \E m \in 1 .. PageCount(pages[p]) :
        n = start[p] + m
  BY Located
<1>2. start \in [1 .. Len(seqs) + 1 -> Nat] /\ start[1] = 0  BY <1>0 DEF Laid
<1>3. \A i \in 1 .. Len(seqs) : start[i + 1] = start[i] + Len(seqs[i])  BY <1>0 DEF Laid, PageAt
<1>4. /\ q \in Seq(D) /\ Len(q) = start[Len(pages) + 1]
      /\ \A p \in 1 .. Len(pages) : \A m \in 1 .. Len(seqs[p]) : q[start[p] + m] = seqs[p][m]
  <2>1. /\ FlattenSeq(seqs) \in Seq(D) /\ Len(FlattenSeq(seqs)) = start[Len(seqs) + 1]
        /\ \A i \in 1 .. Len(seqs) : \A m \in 1 .. Len(seqs[i]) : FlattenSeq(seqs)[start[i] + m] = seqs[i][m]
    <3> HIDE DEF q
    <3> QED BY <1>0, <1>2, <1>3, Flattened
  <2> QED BY <1>0, <2>1
<1> HIDE DEF q
<1>5. ASSUME NEW n \in 1 .. start[Len(pages) + 1]
      PROVE  \E p \in 1 .. Len(pages) : \E m \in 1 .. PageCount(pages[p]) : n = start[p] + m /\ q[n] = seqs[p][m]
  <2>1. PICK p \in 1 .. Len(pages) : \E m \in 1 .. PageCount(pages[p]) : n = start[p] + m  BY <1>1
  <2>2. PICK m \in 1 .. PageCount(pages[p]) : n = start[p] + m  BY <2>1
  <2>3. q[start[p] + m] = seqs[p][m]  BY <1>0, <1>4, <2>1
  <2> QED BY <2>2, <2>3
<1> QED BY <1>4, <1>5 DEF q, InARow

(* What a column of numbers gives when it is copied.                       *)
LEMMA IntsScanned ==
  ASSUME NEW V, NEW pages \in PageLists(V), NumberPages(pages), NEW s, NEW start,
         Laid(pages, s, start)
  PROVE  LET q == FlattenSeq([id \in DOMAIN pages |-> ScannedInts(pages[id])])
         IN  /\ q \in Seq(V) /\ Len(q) = start[Len(pages) + 1]
             /\ \A n \in 1 .. start[Len(pages) + 1] : q[n] = s[n]
<1> DEFINE N == Len(pages)
           seqs == [id \in DOMAIN pages |-> ScannedInts(pages[id])]
           q == FlattenSeq(seqs)
<1>1. N \in Nat /\ DOMAIN pages = 1 .. N /\ \A p \in 1 .. N : pages[p] \in PageSet(V)  BY DEF PageLists
<1>2. ASSUME NEW p \in 1 .. N
      PROVE  /\ pages[p].kind = "rows" /\ pages[p].rows \in Nat /\ PageRows(pages[p]) \in Seq(V)
             /\ Len(PageRows(pages[p])) = pages[p].rows
             /\ \A n \in 1 .. pages[p].rows : PageRows(pages[p])[n] = s[start[p] + n]
  <2>1. pages[p].kind = "rows"  BY DEF NumberPages, NumberPage
  <2>2. pages[p].rows \in Nat /\ \A n \in 1 .. pages[p].rows : PageRows(pages[p])[n] \in V
    BY <1>1, <2>1 DEF PageSet
  <2>3. \A n \in 1 .. pages[p].rows : PageRows(pages[p])[n] = s[start[p] + n]
    BY <2>1 DEF Laid, PageAt
  <2> DEFINE r == pages[p].rows
             f == PageRows(pages[p])
  <2>4. f = [n \in 1 .. r |-> f[n]]  BY DEF PageRows
  <2>5. f \in Seq(V) /\ Len(f) = r
    <3>1. r \in Nat /\ \A n \in 1 .. r : f[n] \in V  BY <2>2
    <3> HIDE DEF r, f
    <3> QED BY <2>4, <3>1
  <2> QED BY <2>1, <2>2, <2>3, <2>5
<1>3. seqs \in Seq(Seq(V)) /\ Len(seqs) = N /\ \A p \in 1 .. N : seqs[p] = PageRows(pages[p])
  <2>1. \A p \in 1 .. N : PageRows(pages[p]) \in Seq(V)  BY <1>2
  <2>2. seqs = [p \in 1 .. N |-> PageRows(pages[p])]  BY <1>1 DEF ScannedInts
  <2> HIDE DEF N, seqs
  <2> QED BY <1>1, <2>1, <2>2
<1>4. \A p \in 1 .. N : Len(seqs[p]) = PageCount(pages[p])
  <2> HIDE DEF N, seqs
  <2> QED BY <1>2, <1>3 DEF PageCount
<1>5. /\ q \in Seq(V) /\ Len(q) = start[N + 1]
      /\ \A n \in 1 .. start[N + 1] : \E p \in 1 .. N : \E m \in 1 .. PageCount(pages[p]) :
           n = start[p] + m /\ q[n] = seqs[p][m]
  <2>1. Counted(seqs, pages, V)  BY <1>3, <1>4 DEF Counted
  <2>2. InARow(FlattenSeq(seqs), seqs, pages, start, V)
    <3> HIDE DEF seqs, N, q
    <3> QED BY <2>1, PagesInARow
  <2> QED BY <2>2 DEF InARow
<1> HIDE DEF q, seqs
<1>6. ASSUME NEW n \in 1 .. start[N + 1] PROVE q[n] = s[n]
  <2>1. PICK p \in 1 .. N : \E m \in 1 .. PageCount(pages[p]) : n = start[p] + m /\ q[n] = seqs[p][m]
    BY <1>5
  <2>2. PICK m \in 1 .. PageCount(pages[p]) : n = start[p] + m /\ q[n] = seqs[p][m]  BY <2>1
  <2>3. m \in 1 .. pages[p].rows  BY <1>2, <2>1 DEF PageCount
  <2> QED BY <1>2, <1>3, <2>1, <2>2, <2>3
<1> QED BY <1>5, <1>6 DEF q, seqs

(* A text of a page is found again from what the page gives for it.        *)
References == [page : Nat, offset : Nat]

LEMMA RowReferences ==
  ASSUME NEW page, page.rows \in Nat, NEW n \in 1 .. page.rows, BitAt(page, n)
  PROVE  RankOf(page, n) - 1 \in Nat
<1> DEFINE S == {m \in 1 .. n : BitAt(page, m)}
<1>1. IsFiniteSet(S)
  <2>1. IsFiniteSet(1 .. n)  BY FS_Interval
  <2> QED BY <2>1, FS_Subset
<1>2. n \in S  OBVIOUS
<1> HIDE DEF S
<1>3. Cardinality(S) \in Nat /\ Cardinality(S) # 0  BY <1>1, <1>2, FS_EmptySet, FS_CardinalityType
<1> QED BY <1>3 DEF RankOf, S

LEMMA PageReferences ==
  ASSUME NEW V, NEW page \in PageSet(V), NEW id \in Nat
  PROVE  /\ ScannedTexts(page, id) \in Seq(References \cup {Null})
         /\ Len(ScannedTexts(page, id)) = PageCount(page)
<1>1. page.kind \in {"rows", "first", "more"}  BY DEF PageSet
<1>2. CASE page.kind = "rows"
  <2> DEFINE r == page.rows
             e(n) == IF BitAt(page, n) THEN NewString(id, RankOf(page, n) - 1) ELSE Null
  <2>1. r \in Nat  BY <1>2 DEF PageSet
  <2>2. \A n \in 1 .. r : e(n) \in References \cup {Null}
    <3> TAKE n \in 1 .. r
    <3>1. BitAt(page, n) => RankOf(page, n) - 1 \in Nat  BY <2>1, RowReferences
    <3> QED BY <3>1 DEF References, NewString
  <2>3. ScannedTexts(page, id) = [n \in 1 .. r |-> e(n)]  BY <1>2 DEF ScannedTexts
  <2>4. PageCount(page) = r  BY <1>2 DEF PageCount
  <2> HIDE DEF r, e
  <2> QED BY <2>1, <2>2, <2>3, <2>4
<1>3. CASE page.kind = "first"
  <2>1. ScannedTexts(page, id) = <<NewString(id, 0)>>  BY <1>3 DEF ScannedTexts
  <2>2. NewString(id, 0) \in References  BY DEF NewString, References
  <2>3. PageCount(page) = 1  BY <1>3 DEF PageCount
  <2> QED BY <2>1, <2>2, <2>3
<1>4. CASE page.kind = "more"
  <2>1. ScannedTexts(page, id) = <<>>  BY <1>4 DEF ScannedTexts
  <2>2. PageCount(page) = 0  BY <1>4 DEF PageCount
  <2> QED BY <2>1, <2>2
<1> QED BY <1>1, <1>2, <1>3, <1>4

(* The pages of a long text, by themselves.                                *)
LEMMA LongAlone ==
  ASSUME NEW V, ValueSet(V), NEW v \in V, v \in Strings, IsLong(v)
  PROVE  ReadColumn(LongPages(v))[1] = v
<1> DEFINE L == LongPages(v)
           none == <<>>
<1>1. none \in PageLists(V) /\ ReadPages(none) = <<>>  BY ReadEmpty DEF PageLists
<1>2. Broken \notin V \X Int  BY DEF ValueSet
<1>3. L \in PageLists(V) /\ ReadPages(none \o L) = Append(ReadPages(none), <<v, Length[v]>>)
  <2> HIDE DEF none, L
  <2> QED BY <1>1, <1>2, LongRead DEF L
<1>4. none \o L = L  BY <1>3 DEF PageLists
<1>5. ReadPages(L) = <<<<v, Length[v]>>>>
  <2> DEFINE a == <<v, Length[v]>>
  <2>1. ReadPages(L) = Append(<<>>, a)
    <3> HIDE DEF L
    <3> QED BY <1>1, <1>3, <1>4
  <2> HIDE DEF a
  <2>2. Append(<<>>, a) = <<a>>  OBVIOUS
  <2> QED BY <2>1, <2>2 DEF a
<1>6. TextsOf(<<v>>) = <<<<v, Length[v]>>>>
  <2>1. Len(<<v>>) = 1 /\ <<v>>[1] = v /\ TextOf(v) = <<v, Length[v]>>  BY DEF TextOf
  <2>2. TextsOf(<<v>>) = [n \in 1 .. 1 |-> TextOf(<<v>>[n])]  BY <2>1 DEF TextsOf
  <2>3. \A n \in 1 .. 1 : TextOf(<<v>>[n]) = <<v, Length[v]>>  BY <2>1
  <2> DEFINE a == <<v, Length[v]>>
             t == TextsOf(<<v>>)
  <2>4. t = [n \in 1 .. 1 |-> a]  BY <2>2, <2>3
  <2> HIDE DEF a, t
  <2>5. t = <<a>>  BY <2>4
  <2> QED BY <2>5 DEF a, t
<1> HIDE DEF L
<1>7. ReadColumn(L) = <<v>>  BY <1>5, <1>6, ValuesRead
<1> QED BY <1>7 DEF L

(* The text that a page gives a reference for is the one materialised.      *)
LEMMA TextFound ==
  ASSUME NEW V, ValueSet(V), NEW c, Pages(c) \in PageLists(V), NEW s, NEW start,
         Laid(Pages(c), s, start), NEW p \in 1 .. Len(Pages(c)), NEW m \in 1 .. PageCount(Pages(c)[p]),
         s[start[p] + m] \in V, Null \notin References
  PROVE  LET t == ScannedTexts(Pages(c)[p], p)[m]
         IN  (IF t = Null THEN Null ELSE Materialize(c, t)) = s[start[p] + m]
<1> DEFINE pages == Pages(c)
           page == pages[p]
           v == s[start[p] + m]
           t == ScannedTexts(page, p)[m]
<1>1. page \in PageSet(V) /\ Len(pages) \in Nat /\ pages \in PageLists(V) /\ p \in Nat \ {0}  BY DEF PageLists
<1>2. PageAt(pages, s, start, p)  BY DEF Laid
<1>3. page.kind \in {"rows", "first", "more"}  BY <1>1 DEF PageSet
<1> HIDE DEF pages
<1>4. CASE page.kind = "rows"
  <2>1. PageCount(page) = page.rows /\ page.rows \in Nat  BY <1>1, <1>4 DEF PageCount, PageSet
  <2>2. m \in 1 .. page.rows  BY <2>1 DEF pages
  <2>3. PageRows(page)[m] = v  BY <1>2, <1>4, <2>2 DEF PageAt
  <2>4. v = IF BitAt(page, m) THEN page.data[RankOf(page, m)] ELSE Null
    BY <2>2, <2>3 DEF PageRows
  <2>5. t = IF BitAt(page, m) THEN NewString(p, RankOf(page, m) - 1) ELSE Null
    BY <1>4, <2>2 DEF ScannedTexts
  <2> HIDE DEF v, t
  <2>6. CASE BitAt(page, m)
    <3>1. RankOf(page, m) - 1 \in Nat  BY <2>1, <2>2, <2>6, RowReferences
    <3>2. t = NewString(p, RankOf(page, m) - 1)  BY <2>5, <2>6
    <3>3. t.page = p /\ t.offset = RankOf(page, m) - 1 /\ t.offset + 1 = RankOf(page, m) /\ t # Null
      <4> DEFINE r == RankOf(page, m)
      <4>1. r \in Int /\ r - 1 \in Nat
        <5>1. r \in Nat
          <6>1. IsFiniteSet(1 .. m)  BY <2>2, FS_Interval
          <6> QED BY <6>1, FS_Subset, FS_CardinalityType DEF RankOf
        <5> QED BY <3>1, <5>1
      <4>2. t = NewString(p, r - 1)  BY <3>2
      <4> HIDE DEF r
      <4>3. t \in References /\ t.page = p /\ t.offset = r - 1  BY <1>1, <4>1, <4>2 DEF NewString, References
      <4>4. (r - 1) + 1 = r  BY <4>1
      <4> QED BY <4>3, <4>4 DEF r
    <3>4. Materialize(c, t) = page.data[RankOf(page, m)]
      BY <1>4, <3>3 DEF Materialize, pages
    <3> QED BY <2>4, <2>6, <3>3, <3>4 DEF v, t, pages
  <2>7. CASE ~BitAt(page, m)  BY <2>4, <2>5, <2>7 DEF v, t, pages
  <2> QED BY <2>6, <2>7
<1>5. CASE page.kind = "first"
  <2>1. m = 1  BY <1>5 DEF PageCount, pages
  <2>2. LongAt(pages, p, v)  BY <1>2, <1>5, <2>1 DEF PageAt
  <2>3. t = NewString(p, 0)  BY <1>5, <2>1 DEF ScannedTexts
  <2> DEFINE L == LongPages(v)
             k == Len(L)
             N == Len(pages)
             ends == {n \in p .. N : n = N \/ pages[n + 1].kind # "more"}
             e == p + k - 1
  <2>4. IsLong(v) /\ v \in V /\ v \in Strings  BY <2>2 DEF LongAt, IsLong, IsString, pages
  <2> HIDE DEF v, t
  <2>5. /\ k \in Nat \ {0} /\ L[1].kind = "first" /\ \A j \in 1 .. k : j # 1 => L[j].kind = "more"
        /\ e <= N /\ (\A j \in 1 .. k : pages[p + j - 1] = L[j])
        /\ (p + k <= N => pages[p + k].kind # "more")
    BY <2>2, <2>4, LongKinds DEF LongAt
  <2>6. t.page = p /\ t.offset = 0 /\ t # Null  BY <1>1, <2>3 DEF NewString, References
  <2>7. L \in PageLists(V)
    <3>1. <<>> \in PageLists(V) /\ Broken \notin V \X Int  BY DEF PageLists, ValueSet
    <3> QED BY <2>4, <3>1, LongRead
  <2> HIDE DEF L, k, N
  <2>8. e \in ends
    <3>1. e \in p .. N /\ e + 1 = p + k  BY <1>1, <2>5 DEF N
    <3>2. e = N \/ p + k <= N  BY <1>1, <2>5 DEF N
    <3> HIDE DEF e
    <3> QED BY <2>5, <3>1, <3>2
  <2>9. ASSUME NEW n \in ends PROVE e <= n
    <3> SUFFICES ASSUME n < e PROVE FALSE
      BY <1>1, <2>5 DEF N
    <3>1. n \in p .. N /\ (n = N \/ pages[n + 1].kind # "more")  OBVIOUS
    <3> HIDE DEF ends
    <3>2. n # N  BY <1>1, <2>5, <3>1 DEF N
    <3> DEFINE j == n + 1 - p + 1
    <3>3. j \in 1 .. k /\ j # 1 /\ p + j - 1 = n + 1  BY <1>1, <2>5, <3>1 DEF N
    <3> HIDE DEF j, e
    <3>4. pages[n + 1] = L[j] /\ L[j].kind = "more"  BY <2>5, <3>3
    <3> QED BY <3>1, <3>2, <3>4
  <2>10. (CHOOSE n \in ends : \A x \in ends : n <= x) = e
    <3>1. \A n \in ends : n \in Int /\ e \in Int  BY <1>1, <2>5 DEF N
    <3> HIDE DEF ends, e
    <3> QED BY <2>8, <2>9, <3>1
  <2>11. SubSeq(pages, p, e) = L
    <3>1. e \in Nat /\ 1 <= p /\ e <= N /\ e + 1 - p = k
      <4>1. k \in Nat \ {0} /\ e <= N /\ p \in Nat \ {0}  BY <1>1, <2>5
      <4>2. p + k - 1 \in Nat /\ (p + k - 1) + 1 - p = k  BY <4>1
      <4> QED BY <4>1, <4>2
    <3>2. L \in Seq(PageSet(V)) /\ Len(L) = k /\ pages \in Seq(PageSet(V)) /\ Len(pages) = N
      BY <1>1, <2>7 DEF PageLists, k, N
    <3> DEFINE cut == SubSeq(pages, p, e)
    <3>3. cut \in Seq(PageSet(V)) /\ Len(cut) = k /\ \A j \in 1 .. k : cut[j] = pages[p + j - 1]
      <4> HIDE DEF e
      <4> QED BY <1>1, <2>5, <3>1, <3>2
    <3>4. \A j \in 1 .. k : cut[j] = L[j]  BY <2>5, <3>3
    <3> HIDE DEF cut
    <3>5. cut = L  BY <3>2, <3>3, <3>4, SeqEqual
    <3> QED BY <3>5 DEF cut
  <2>12. Materialize(c, t) = ReadColumn(SubSeq(pages, t.page, CHOOSE n \in ends : \A x \in ends : n <= x))[1]
    BY <1>5, <2>6 DEF Materialize, pages, N
  <2> HIDE DEF ends, e
  <2>13. Materialize(c, t) = ReadColumn(L)[1]  BY <2>6, <2>10, <2>11, <2>12
  <2>14. ReadColumn(L)[1] = v  BY <2>4, LongAlone DEF L
  <2> QED BY <2>1, <2>6, <2>13, <2>14 DEF v, t, pages
<1>6. CASE page.kind = "more"
  <2>1. PageCount(page) = 0  BY <1>6 DEF PageCount
  <2> QED BY <2>1 DEF pages
<1> QED BY <1>3, <1>4, <1>5, <1>6

(* What a column of texts gives.                                           *)
LEMMA TextsScanned ==
  ASSUME NEW V, NEW pages \in PageLists(V), NEW s, NEW start, Laid(pages, s, start)
  PROVE  LET seqs == [id \in DOMAIN pages |-> ScannedTexts(pages[id], id)]
         IN  InARow(FlattenSeq(seqs), seqs, pages, start, References \cup {Null})
<1> DEFINE N == Len(pages)
           D == References \cup {Null}
           seqs == [id \in DOMAIN pages |-> ScannedTexts(pages[id], id)]
<1>1. N \in Nat /\ DOMAIN pages = 1 .. N /\ \A p \in 1 .. N : pages[p] \in PageSet(V)  BY DEF PageLists
<1>2. \A p \in 1 .. N : ScannedTexts(pages[p], p) \in Seq(D) /\ Len(ScannedTexts(pages[p], p)) = PageCount(pages[p])
  BY <1>1, PageReferences
<1>3. seqs \in Seq(Seq(D)) /\ Len(seqs) = N /\ \A p \in 1 .. N : seqs[p] = ScannedTexts(pages[p], p)
  <2>1. seqs = [p \in 1 .. N |-> ScannedTexts(pages[p], p)]  BY <1>1
  <2> HIDE DEF N, seqs, D
  <2> QED BY <1>1, <1>2, <2>1
<1> HIDE DEF seqs
<1>4. Counted(seqs, pages, D)
  <2> HIDE DEF D
  <2> QED BY <1>2, <1>3 DEF Counted
<1>5. InARow(FlattenSeq(seqs), seqs, pages, start, D)
  <2> HIDE DEF D, N
  <2> QED BY <1>4, PagesInARow
<1> QED BY <1>5 DEF seqs

-----------------------------------------------------------------------------
(* The invariant: while the table is written, the inserter of a column      *)
(* holds the column's values in their places; afterwards its pages do, and  *)
(* a column that was processed is what the scan makes of its pages.         *)
Filled(c) ==
  /\ Spelled(inserters[c], ColumnOf(rows, c), Values) /\ WriterLaid(inserters[c], ColumnOf(rows, c))
  /\ Apart(inserters[c])
  /\ Types[c] = "int" => Numbers(inserters[c])
Paged(c) ==
  /\ Pages(c) \in PageLists(Values)
  /\ \E start : Laid(Pages(c), ColumnOf(rows, c), start) /\ start[Len(Pages(c)) + 1] = Len(rows)
  /\ Types[c] = "int" => NumberPages(Pages(c))
CopyOf(c) ==
  IF Dense(c) THEN [ref |-> c, values |-> <<>>] ELSE [ref |-> NoColumn, values |-> Scanned(c)]

CopyInv ==
  /\ stage \in {"write", "scan", "returned"}
  /\ rows \in Seq([Columns -> Values])
  /\ inserters = [c \in Columns |-> inserters[c]]
  /\ pending \in SUBSET Outputs /\ (stage = "returned" => pending = {})
  /\ DOMAIN results = Outputs
  /\ stage = "write" => \A c \in Columns : Filled(c)
  /\ stage # "write" => /\ \A c \in Columns : Paged(c)
                        /\ \A k \in Outputs \ pending : results[k] = CopyOf(OutputAttrs[k])

LEMMA NewLaid == ASSUME NEW V PROVE WriterLaid(NewWriter, <<>>) /\ Numbers(NewWriter)
<1> DEFINE none == <<>>
           start == [p \in 1 .. 1 |-> 0]
<1>1. /\ NewWriter.pages = none /\ NewWriter.rows = 0 /\ NewWriter.data = none
      /\ NewWriter.begin = 4 /\ NewWriter.bytes = 4 /\ Len(none) = 0
  BY DEF NewWriter, EmptyBuffer
<1>2. start \in [1 .. 0 + 1 -> Nat] /\ start[1] = 0  OBVIOUS
<1> HIDE DEF none, start
<1>3. Laid(none, none, start)  BY <1>1, <1>2 DEF Laid
<1>4. WriterLaid(NewWriter, none)  BY <1>1, <1>2, <1>3 DEF WriterLaid
<1>5. Numbers(NewWriter)  BY <1>1, EmptyFits DEF Numbers
<1> QED BY <1>4, <1>5 DEF none

LEMMA NewTableHolds == NewTable => CopyInv
<1> SUFFICES ASSUME NewTable PROVE CopyInv
  OBVIOUS
<1>1. /\ stage = "write" /\ rows = <<>> /\ inserters = [c \in Columns |-> NewWriter] /\ pending = {}
      /\ DOMAIN results = Outputs
  BY DEF NewTable
<1>2. ASSUME NEW c \in Columns PROVE Filled(c)
  <2>1. inserters[c] = NewWriter  BY <1>1
  <2>2. ColumnOf(rows, c) = <<>>  BY <1>1 DEF ColumnOf
  <2> DEFINE V == Values
  <2>3. ValueSet(V) /\ 4 \in Int  BY ValuesAre
  <2> HIDE DEF V
  <2>4. Spelled(NewWriter, <<>>, V)  BY <2>3, NewSpells DEF NewWriter
  <2> QED BY <2>1, <2>2, <2>4, NewLaid, NewApart DEF Filled, V
<1>3. inserters = [c \in Columns |-> inserters[c]]  BY <1>1
<1> QED BY <1>1, <1>2, <1>3 DEF CopyInv

LEMMA InsertRowKeeps == CopyInv /\ InsertRow => CopyInv'
<1> SUFFICES ASSUME CopyInv, InsertRow PROVE CopyInv'
  OBVIOUS
<1> DEFINE V == Values
<1>1. PICK row \in [Columns -> V] :
        /\ \A c \in Columns : row[c] \in ColumnValues[c] \cup {Null}
        /\ rows' = Append(rows, row)
        /\ inserters' = [c \in Columns |-> InserterValue(inserters[c], row[c])]
  BY DEF InsertRow
<1>2. stage = "write" /\ UNCHANGED <<stage, pending, results>>  BY DEF InsertRow
<1>3. /\ rows \in Seq([Columns -> V]) /\ pending \in SUBSET Outputs /\ DOMAIN results = Outputs
      /\ \A c \in Columns : Filled(c)
  BY <1>2 DEF CopyInv
<1>4. ValueSet(V)  BY ValuesAre
<1> HIDE DEF V
<1>5. ASSUME NEW c \in Columns PROVE Filled(c)'
  <2> DEFINE w == inserters[c]
             s == ColumnOf(rows, c)
             v == row[c]
  <2>1. /\ Spelled(w, s, V) /\ WriterLaid(w, s) /\ (Types[c] = "int" => Numbers(w))
        /\ Apart(w) /\ ~Overlap(w)
    BY <1>3 DEF Filled, V, Apart
  <2>2. v \in V /\ v \in ColumnValues[c] \cup {Null} /\ v \notin WideValues  BY <1>1, NoneWide DEF V
  <2>3. inserters'[c] = InserterValue(w, v)  BY <1>1
  <2>4. ColumnOf(rows, c)' = Append(s, v)
    <3>1. ColumnOf(Append(rows, row), c) = Append(s, v)
      <4>1. rows \in Seq([Columns -> V])  BY <1>3
      <4> HIDE DEF w
      <4> QED BY <4>1, ColumnAppend, Zenon
    <3>2. ColumnOf(rows, c)' = ColumnOf(rows', c)  BY DEF ColumnOf
    <3> QED BY <1>1, <3>1, <3>2
  <2>5. ASSUME Types[c] = "int" PROVE v = Null \/ IsNumber(v)
    BY <2>2, <2>5, ScanAssumption, PageAssumption DEF ScanAssumption, PageAssumption, IsNumber, IsString, IsWide
  <2> HIDE DEF w, s, v
  <2>6. Spelled(InserterValue(w, v), Append(s, v), V)  BY <1>4, <2>1, <2>2, InserterInserted
  <2>7. WriterLaid(InserterValue(w, v), Append(s, v)) /\ Apart(InserterValue(w, v))
    BY <1>4, <2>1, <2>2, InsertedLaid, ApartKept
  <2>8. ASSUME Types[c] = "int" PROVE Numbers(InserterValue(w, v))
    <3>1. w \in WriterSet(V)  BY <2>1 DEF Spelled
    <3> QED BY <2>1, <2>2, <2>5, <2>8, <3>1, NumberInserted
  <2>9. /\ Spelled(inserters'[c], ColumnOf(rows, c)', V) /\ WriterLaid(inserters'[c], ColumnOf(rows, c)')
        /\ (Types[c] = "int" => Numbers(inserters'[c])) /\ Apart(inserters'[c])
    BY <2>3, <2>4, <2>6, <2>7, <2>8
  <2> QED BY <2>9 DEF Filled, V, Values
<1>6. rows' \in Seq([Columns -> V])  BY <1>1, <1>3
<1>7. inserters' = [c \in Columns |-> inserters'[c]]  BY <1>1
<1> QED BY <1>2, <1>3, <1>5, <1>6, <1>7 DEF CopyInv, V, Values

LEMMA StartCopyKeeps == CopyInv /\ StartCopy => CopyInv'
<1> SUFFICES ASSUME CopyInv, StartCopy PROVE CopyInv'
  OBVIOUS
<1>1. /\ stage = "write" /\ stage' = "scan" /\ pending' = Outputs /\ UNCHANGED <<rows, results>>
      /\ inserters' = [c \in Columns |-> InserterFlush(inserters[c])]
  BY DEF StartCopy
<1>2. rows \in Seq([Columns -> Values]) /\ DOMAIN results = Outputs /\ \A c \in Columns : Filled(c)
  BY <1>1 DEF CopyInv
<1>3. ASSUME NEW c \in Columns PROVE Paged(c)'
  <2> DEFINE V == Values
             w == inserters[c]
             new == InserterFlush(w)
             s == ColumnOf(rows, c)
  <2>1. Spelled(w, s, V) /\ WriterLaid(w, s) /\ (Types[c] = "int" => Numbers(w)) /\ ~Overlap(w)
    BY <1>2 DEF Filled, Apart
  <2>2. ValueSet(V)  BY ValuesAre
  <2>3. inserters'[c] = new  BY <1>1
  <2>4. Pages(c)' = new.pages  BY <2>3 DEF Pages
  <2>5. ColumnOf(rows, c)' = s /\ Len(rows)' = Len(rows)  BY <1>1 DEF ColumnOf
  <2>6. Len(s) = Len(rows)  BY <1>2, ColumnTyped
  <2> HIDE DEF V, w, s
  <2>7. new.rows = 0 /\ new.pages \in PageLists(V)  BY <2>1, <2>2, Flushes
  <2>8. w \in WriterSet(V) /\ BufferOK(w) /\ s \in Seq(V) /\ Null \in V  BY <2>1, <2>2 DEF Spelled, ValueSet
  <2>9. WriterLaid(new, s)  BY <2>1, <2>8, FlushLaid
  <2>10. Types[c] = "int" => NumberPages(new.pages)  BY <2>1, <2>8, NumbersFlushed
  <2> HIDE DEF new
  <2>11. PICK start : Laid(new.pages, s, start) /\ start[Len(new.pages) + 1] + new.rows = Len(s)
    BY <2>9 DEF WriterLaid
  <2>12. start[Len(new.pages) + 1] = Len(s)
    <3>1. start \in [1 .. Len(new.pages) + 1 -> Nat] /\ Len(new.pages) \in Nat
      BY <2>7, <2>11 DEF Laid, PageLists
    <3>2. start[Len(new.pages) + 1] \in Nat  BY <3>1
    <3> QED BY <2>7, <2>11, <3>2
  <2>13. \E u : Laid(new.pages, s, u) /\ u[Len(new.pages) + 1] = Len(rows)  BY <2>6, <2>11, <2>12
  <2>14. /\ Pages(c)' \in PageLists(V)
         /\ \E u : Laid(Pages(c)', ColumnOf(rows, c)', u) /\ u[Len(Pages(c)') + 1] = Len(rows)'
         /\ (Types[c] = "int" => NumberPages(Pages(c)'))
    BY <2>4, <2>5, <2>7, <2>10, <2>13
  <2> QED BY <2>14 DEF Paged, V, Values
<1>4. inserters' = [c \in Columns |-> inserters'[c]]  BY <1>1
<1>5. Outputs' = Outputs /\ Outputs \ pending' = {}  BY <1>1 DEF Outputs
<1> QED BY <1>1, <1>2, <1>3, <1>4, <1>5 DEF CopyInv, Values

LEMMA StillPaged ==
  ASSUME UNCHANGED <<rows, inserters>>, NEW c
  PROVE  (Paged(c) => Paged(c)') /\ CopyOf(c)' = CopyOf(c)
BY DEF Paged, Pages, ColumnOf, CopyOf, Dense, Scanned, Values

LEMMA CopyColumnKeeps ==
  ASSUME CopyInv, NEW k \in Outputs, CopyColumn(k)
  PROVE  CopyInv'
<1>1. /\ stage = "scan" /\ k \in pending /\ pending' = pending \ {k}
      /\ UNCHANGED <<stage, rows, inserters>>
      /\ results' = [results EXCEPT ![k] = CopyOf(OutputAttrs[k])]
  BY DEF CopyColumn, CopyOf
<1>2. /\ rows \in Seq([Columns -> Values]) /\ inserters = [c \in Columns |-> inserters[c]]
      /\ pending \in SUBSET Outputs /\ DOMAIN results = Outputs
      /\ \A c \in Columns : Paged(c)
      /\ \A j \in Outputs \ pending : results[j] = CopyOf(OutputAttrs[j])
  BY <1>1 DEF CopyInv
<1>3. \A c \in Columns : Paged(c)'  BY <1>1, <1>2, StillPaged
<1>4. ASSUME NEW j \in Outputs \ pending' PROVE results'[j] = CopyOf(OutputAttrs[j])'
  <2>1. CopyOf(OutputAttrs[j])' = CopyOf(OutputAttrs[j])  BY <1>1, StillPaged
  <2>2. CASE j = k  BY <1>1, <1>2, <2>1, <2>2
  <2>3. CASE j # k
    <3>1. j \in Outputs \ pending  BY <1>1, <2>3
    <3>2. results'[j] = results[j]  BY <1>1, <1>2, <2>3
    <3> QED BY <1>2, <2>1, <3>1, <3>2
  <2> QED BY <2>2, <2>3
<1>5. DOMAIN results' = Outputs /\ pending' \in SUBSET Outputs  BY <1>1, <1>2
<1>6. inserters' = [c \in Columns |-> inserters'[c]]  BY <1>1, <1>2
<1> QED BY <1>1, <1>2, <1>3, <1>4, <1>5, <1>6 DEF CopyInv, Values, Outputs

LEMMA CopyStays == CopyInv /\ UNCHANGED <<rows, inserters, pending, results>>
                   /\ (stage' = stage \/ (stage = "scan" /\ pending = {} /\ stage' = "returned")) => CopyInv'
<1> SUFFICES ASSUME CopyInv, UNCHANGED <<rows, inserters, pending, results>>,
                    stage' = stage \/ (stage = "scan" /\ pending = {} /\ stage' = "returned")
             PROVE  CopyInv'
  OBVIOUS
<1>1. \A c : Paged(c) => Paged(c)' /\ CopyOf(c)' = CopyOf(c)  BY StillPaged
<1>2. \A c : CopyOf(c)' = CopyOf(c)  BY StillPaged
<1>3. \A c : Filled(c) => Filled(c)'  BY DEF Filled, ColumnOf, Values
<1>4. stage' = "write" <=> stage = "write"  OBVIOUS
<1>5. stage' # "write" => /\ \A c \in Columns : Paged(c)'
                          /\ \A j \in Outputs \ pending' : results'[j] = CopyOf(OutputAttrs[j])'
  BY <1>1, <1>2, <1>4 DEF CopyInv
<1>6. stage' = "write" => \A c \in Columns : Filled(c)'  BY <1>3, <1>4 DEF CopyInv
<1> QED BY <1>4, <1>5, <1>6 DEF CopyInv, Values, Outputs

LEMMA CopyStepHolds == CopyInv /\ [CopyStep]_copyVars => CopyInv'
<1> SUFFICES ASSUME CopyInv, [CopyStep]_copyVars PROVE CopyInv'
  OBVIOUS
<1>1. CASE InsertRow  BY <1>1, InsertRowKeeps
<1>2. CASE StartCopy  BY <1>2, StartCopyKeeps
<1>3. ASSUME NEW k \in Outputs, CopyColumn(k) PROVE CopyInv'  BY <1>3, CopyColumnKeeps
<1>4. CASE ReturnColumns
  <2>1. stage = "scan" /\ pending = {} /\ stage' = "returned" /\ UNCHANGED <<rows, inserters, pending, results>>
    BY <1>4 DEF ReturnColumns
  <2> QED BY <2>1, CopyStays
<1>5. CASE ColumnsReturned \/ UNCHANGED copyVars
  <2>1. UNCHANGED <<rows, inserters, pending, results>> /\ stage' = stage
    BY <1>5 DEF ColumnsReturned, copyVars
  <2> QED BY <2>1, CopyStays
<1> QED BY <1>1, <1>2, <1>3, <1>4, <1>5 DEF CopyStep

LEMMA CopyInvariant == CopySpec => []CopyInv
<1>1. NewTable => CopyInv  BY NewTableHolds
<1>2. CopyInv /\ [CopyStep]_copyVars => CopyInv'  BY CopyStepHolds
<1> QED BY <1>1, <1>2, PTL DEF CopySpec

-----------------------------------------------------------------------------
(* What is read back of a column that was copied or referenced.            *)
LEMMA NumbersBack ==
  ASSUME CopyInv, stage = "returned", NEW k \in Outputs, Types[OutputAttrs[k]] = "int",
         OutputAttrs[k] \in Columns
  PROVE  /\ results[k].ref = NoColumn => Len(results[k].values) = Len(rows)
         /\ \A n \in 1 .. Len(rows) : ValueAt(k, n - 1) = rows[n][OutputAttrs[k]]
<1> DEFINE c == OutputAttrs[k]
           V == Values
           pages == Pages(c)
           s == ColumnOf(rows, c)
<1>1. rows \in Seq([Columns -> V]) /\ results[k] = CopyOf(c) /\ Paged(c)  BY DEF CopyInv
<1>2. pages \in PageLists(V) /\ NumberPages(pages)  BY <1>1 DEF Paged
<1>3. PICK start : Laid(pages, s, start) /\ start[Len(pages) + 1] = Len(rows)  BY <1>1 DEF Paged
<1>4. s \in Seq(V) /\ Len(s) = Len(rows) /\ \A n \in 1 .. Len(rows) : s[n] = rows[n][c]
  <2> HIDE DEF V, c
  <2> QED BY <1>1, ColumnTyped DEF c
<1>5. \A n : ValueAt(k, n) = At(k, n)  BY DEF ValueAt
<1>6. Len(rows) \in Nat  BY <1>1
<1>7. CASE Dense(c)
  <2>1. results[k].ref = c  BY <1>1, <1>7 DEF CopyOf
  <2>2. c # NoColumn  BY ColumnsAssumption DEF ColumnsAssumption, Columns, NoColumn
  <2>3. \A p \in 1 .. Len(pages) : Len(pages[p].data) = pages[p].rows  BY <1>2, <1>7 DEF Dense, PageLists
  <2>4. ASSUME NEW n \in 1 .. Len(rows) PROVE ValueAt(k, n - 1) = s[n]
    <3> DEFINE m == n - 1
    <3>1. m \in Nat /\ m < Len(rows) /\ m + 1 = n  BY <1>6
    <3>2. m < start[Len(pages) + 1]  BY <1>3, <3>1
    <3>3. At(k, m) = DenseAt(c, m)  BY <2>1, <2>2 DEF At
    <3> HIDE DEF m, s, pages, V
    <3> DEFINE p == m \div ROWS_PER_PAGE + 1
               o == (m % ROWS_PER_PAGE) + 1
    <3>4. p \in DOMAIN pages /\ o \in DOMAIN pages[p].data /\ pages[p].data[o] = s[m + 1]
      BY <1>2, <1>3, <2>3, <3>1, <3>2, DenseRead
    <3>5. DenseAt(c, m) = s[m + 1]  BY <3>4 DEF DenseAt, pages
    <3> QED BY <1>5, <3>1, <3>3, <3>5 DEF m
  <2> QED BY <1>4, <2>1, <2>2, <2>4
<1>8. CASE ~Dense(c)
  <2> DEFINE q == FlattenSeq([id \in DOMAIN pages |-> ScannedInts(pages[id])])
  <2>1. results[k].ref = NoColumn /\ results[k].values = Scanned(c)  BY <1>1, <1>8 DEF CopyOf
  <2>2. Scanned(c) = q  BY DEF Scanned
  <2>3. /\ Len(q) = start[Len(pages) + 1] /\ \A n \in 1 .. start[Len(pages) + 1] : q[n] = s[n]
    <3> HIDE DEF s, pages, V
    <3> QED BY <1>2, <1>3, IntsScanned
  <2> HIDE DEF q, s
  <2>4. Len(q) = Len(rows) /\ \A n \in 1 .. Len(rows) : q[n] = s[n]  BY <1>3, <2>3
  <2>5. ASSUME NEW n \in 1 .. Len(rows) PROVE ValueAt(k, n - 1) = s[n]
    <3>1. (n - 1) + 1 = n  BY <1>6
    <3>2. At(k, n - 1) = q[n]  BY <2>1, <2>2, <3>1 DEF At
    <3> QED BY <1>5, <2>4, <3>2
  <2> QED BY <1>4, <2>1, <2>2, <2>4, <2>5
<1> QED BY <1>7, <1>8

LEMMA TextsBack ==
  ASSUME CopyInv, stage = "returned", NEW k \in Outputs, Types[OutputAttrs[k]] # "int",
         OutputAttrs[k] \in Columns
  PROVE  /\ results[k].ref = NoColumn => Len(results[k].values) = Len(rows)
         /\ \A n \in 1 .. Len(rows) : ValueAt(k, n - 1) = rows[n][OutputAttrs[k]]
<1> DEFINE c == OutputAttrs[k]
           V == Values
           pages == Pages(c)
           s == ColumnOf(rows, c)
           seqs == [id \in DOMAIN pages |-> ScannedTexts(pages[id], id)]
           q == FlattenSeq(seqs)
<1>1. rows \in Seq([Columns -> V]) /\ results[k] = CopyOf(c) /\ Paged(c)  BY DEF CopyInv
<1>2. pages \in PageLists(V)  BY <1>1 DEF Paged
<1>3. PICK start : Laid(pages, s, start) /\ start[Len(pages) + 1] = Len(rows)  BY <1>1 DEF Paged
<1>4. s \in Seq(V) /\ Len(s) = Len(rows) /\ \A n \in 1 .. Len(rows) : s[n] = rows[n][c]
  <2> HIDE DEF V, c
  <2> QED BY <1>1, ColumnTyped DEF c
<1>5. Len(rows) \in Nat  BY <1>1
<1>6. ~Dense(c) /\ results[k].ref = NoColumn /\ results[k].values = Scanned(c)
  BY <1>1 DEF Dense, CopyOf
<1>7. Scanned(c) = q  BY DEF Scanned
<1>8. InARow(q, seqs, pages, start, References \cup {Null})
  <2> HIDE DEF pages, s, V
  <2> QED BY <1>2, <1>3, TextsScanned
<1> HIDE DEF q, seqs
<1>9. /\ Len(q) = Len(rows)
      /\ \A n \in 1 .. Len(rows) : \E p \in 1 .. Len(pages) : \E m \in 1 .. PageCount(pages[p]) :
           n = start[p] + m /\ q[n] = seqs[p][m]
  BY <1>3, <1>8 DEF InARow
<1>10. Null \notin References /\ ValueSet(V)  BY ValuesAre, ScanAssumption DEF ScanAssumption, References
<1>11. ASSUME NEW n \in 1 .. Len(rows) PROVE ValueAt(k, n - 1) = s[n]
  <2>1. (n - 1) + 1 = n  BY <1>5
  <2>2. At(k, n - 1) = q[n]  BY <1>6, <1>7, <2>1 DEF At
  <2>3. ValueAt(k, n - 1) = IF q[n] = Null THEN Null ELSE Materialize(c, q[n])  BY <2>2 DEF ValueAt
  <2>4. PICK p \in 1 .. Len(pages) : \E m \in 1 .. PageCount(pages[p]) : n = start[p] + m /\ q[n] = seqs[p][m]
    BY <1>9
  <2>5. PICK m \in 1 .. PageCount(pages[p]) : n = start[p] + m /\ q[n] = seqs[p][m]  BY <2>4
  <2>6. seqs[p] = ScannedTexts(pages[p], p)  BY <1>2, <2>4 DEF seqs, PageLists
  <2>7. s[start[p] + m] \in V  BY <1>4, <2>5
  <2> HIDE DEF s, V, c
  <2>8. (IF q[n] = Null THEN Null ELSE Materialize(c, q[n])) = s[start[p] + m]
    BY <1>2, <1>3, <1>10, <2>4, <2>5, <2>6, <2>7, TextFound
  <2> QED BY <2>3, <2>5, <2>8 DEF c
<1> QED BY <1>4, <1>6, <1>7, <1>9, <1>11

(* What is returned of a scan reads as the rows that were written, for every *)
(* size of a page and of a bitmap's byte, and all columns, values and texts: *)
(* copy_scan_value_t's references to columns without NULL, its copies, and   *)
(* the texts that materialize_string finds in the pages of ColumnInserter.   *)
THEOREM ScanReadsBackCorrect == CopySpec => []ScanReadsBack
<1>1. CopyInv => ScanReadsBack
  <2> SUFFICES ASSUME CopyInv, stage = "returned", NEW k \in Outputs
               PROVE  /\ results[k].ref = NoColumn => Len(results[k].values) = Len(rows)
                      /\ \A n \in 1 .. Len(rows) : ValueAt(k, n - 1) = rows[n][OutputAttrs[k]]
    BY DEF ScanReadsBack
  <2>1. OutputAttrs[k] \in Columns  BY ScanAssumption DEF ScanAssumption, Outputs
  <2> QED BY <2>1, NumbersBack, TextsBack
<1> QED BY <1>1, CopyInvariant, PTL
=============================================================================
