--------------------------- MODULE PageFormatProofs ---------------------------
(***************************************************************************)
(* What a writer of pages writes is what a reader of the pages reads: for   *)
(* every page size, width of a bitmap byte, set of values and lengths, and  *)
(* for page buffers and column inserters alike.                            *)
(***************************************************************************)
EXTENDS ColumnInserter, Arithmetic, FiniteSetTheorems, SequenceTheorems

-----------------------------------------------------------------------------
(* Reading pages: texts are values with the length read of them.           *)
Texts(V) == (V \X Int) \cup {Broken}
PageSet(V) ==
  {page \in [kind : {"rows"}, rows : Nat, data : Seq(V), bytes : Int, bits : Seq(BOOLEAN)] :
     \A n \in 1 .. page.rows : PageRows(page)[n] \in V}
  \cup [kind : {"first", "more"}, text : V \X Int, length : Int]
PageLists(V) == Seq(PageSet(V))
TextLists(V) == Seq(Texts(V))

RowTexts(page) == [n \in 1 .. page.rows |-> <<PageRows(page)[n], 0>>]

LEMMA AddPageType ==
  ASSUME NEW V, NEW texts \in TextLists(V), NEW page \in PageSet(V)
  PROVE  AddPage(texts, page) \in TextLists(V)
<1>1. CASE page.kind = "rows"
  <2>1. page.rows \in Nat /\ \A n \in 1 .. page.rows : PageRows(page)[n] \in V
    BY <1>1 DEF PageSet
  <2>2. RowTexts(page) \in Seq(Texts(V))
    BY <2>1 DEF RowTexts, Texts
  <2> QED BY <1>1, <2>2 DEF AddPage, RowTexts, TextLists
<1>2. CASE page.kind # "rows"
  <2>1. page.kind \in {"first", "more"} /\ page.text \in V \X Int /\ page.length \in Int
    BY <1>2 DEF PageSet
  <2>2. page.text[1] \in V /\ page.text[2] \in Int  BY <2>1
  <2>3. CASE page.kind = "first"
    <3>1. <<page.text[1], page.length>> \in Texts(V)  BY <2>1, <2>2 DEF Texts
    <3> QED BY <1>2, <2>3, <3>1 DEF AddPage, TextLists
  <2>4. CASE page.kind = "more"
    <3>1. AddPage(texts, page) = [texts EXCEPT ![Len(texts)] = Stitched(texts[Len(texts)], page)]
      BY <2>4 DEF AddPage
    <3>2. CASE texts = <<>>
      <4>1. [texts EXCEPT ![Len(texts)] = Stitched(texts[Len(texts)], page)] = texts
        BY <3>2
      <4> QED BY <3>1, <4>1
    <3>3. CASE texts # <<>>
      <4> DEFINE t == texts[Len(texts)]
      <4>1. Len(texts) \in 1 .. Len(texts) /\ t \in Texts(V)
        BY <3>3 DEF TextLists
      <4>2. Stitched(t, page) \in Texts(V)
        <5>1. CASE t = Broken  BY <5>1 DEF Stitched, Texts
        <5>2. CASE t # Broken
          <6>1. t[1] \in V /\ t[2] \in Int  BY <4>1, <5>2 DEF Texts
          <6>2. <<t[1], t[2] + page.length>> \in Texts(V)  BY <2>1, <6>1 DEF Texts
          <6> QED BY <6>2 DEF Stitched, Texts
        <5> QED BY <5>1, <5>2
      <4> HIDE DEF t
      <4>3. [texts EXCEPT ![Len(texts)] = Stitched(t, page)] \in Seq(Texts(V))
        BY <4>1, <4>2, ExceptSeq DEF TextLists
      <4> QED BY <3>1, <4>3 DEF t, TextLists
    <3> QED BY <3>2, <3>3
  <2> QED BY <2>1, <2>3, <2>4
<1> QED BY <1>1, <1>2

(* Reading n pages is reading n - 1 and adding one.                        *)
Reads(f, pages, V) ==
  /\ f \in [0 .. Len(pages) -> TextLists(V)] /\ f[0] = <<>>
  /\ \A n \in 1 .. Len(pages) : f[n] = AddPage(f[n - 1], pages[n])

LEMMA ReadsUnique ==
  ASSUME NEW V, NEW pages \in PageLists(V), NEW f, NEW g, Reads(f, pages, V), Reads(g, pages, V)
  PROVE  f[Len(pages)] = g[Len(pages)]
<1> DEFINE N == Len(pages)
           T == {n \in Nat : n <= N => f[n] = g[n]}
<1>1. N \in Nat  BY DEF PageLists
<1>2. 0 \in T  BY DEF Reads
<1>3. ASSUME NEW n \in Nat, n \in T PROVE n + 1 \in T
  <2> SUFFICES ASSUME n + 1 <= N PROVE f[n + 1] = g[n + 1]
    OBVIOUS
  <2>1. f[n] = g[n] /\ n + 1 \in 1 .. N /\ (n + 1) - 1 = n  BY <1>1, <1>3
  <2> QED BY <2>1 DEF Reads
<1> HIDE DEF T
<1>4. N \in T  BY <1>1, <1>2, <1>3, NatSetInduction
<1> QED BY <1>1, <1>4 DEF T

LEMMA ReadsExist ==
  ASSUME NEW V, NEW pages \in PageLists(V)
  PROVE  \E f : Reads(f, pages, V) /\ ReadPages(pages) = f[Len(pages)]
<1> DEFINE N == Len(pages)
           D == TextLists(V)
           R(f) == f = [n \in 0 .. N |-> IF n = 0 THEN <<>> ELSE AddPage(f[n - 1], pages[n])]
           read == CHOOSE f : R(f)
           G == [x \in (1 .. N) \X D |-> AddPage(x[2], pages[x[1]])]
<1>1. N \in Nat /\ \A n \in 1 .. N : pages[n] \in PageSet(V)  BY DEF PageLists
<1>2. <<>> \in D  BY DEF TextLists
<1>3. G \in StepsOf(N, D)
  <2>1. \A x \in (1 .. N) \X D : AddPage(x[2], pages[x[1]]) \in D  BY <1>1, AddPageType
  <2> HIDE DEF D
  <2> QED BY <2>1 DEF StepsOf
<1>4. PICK f : Iterates(f, N, D, <<>>, G)
  <2> HIDE DEF G, D, N
  <2> QED BY <1>1, <1>2, <1>3, RecursionExists
<1>5. Reads(f, pages, V)
  <2>1. ASSUME NEW n \in 1 .. N PROVE f[n] = AddPage(f[n - 1], pages[n])
    <3>1. n - 1 \in 0 .. N  BY <1>1
    <3>2. <<n, f[n - 1]>> \in (1 .. N) \X D /\ f[n] = G[<<n, f[n - 1]>>]
      BY <1>4, <3>1 DEF Iterates
    <3> QED BY <3>2
  <2> QED BY <1>4, <2>1 DEF Reads, Iterates
<1>6. R(f)
  <2>1. \A n \in 0 .. N : f[n] = IF n = 0 THEN <<>> ELSE AddPage(f[n - 1], pages[n])
    BY <1>5 DEF Reads
  <2> QED BY <1>5, <2>1 DEF Reads
<1>7. R(read)  BY <1>6, Zenon
<1>8. ReadPages(pages) = read[N]  BY DEF ReadPages
<1> HIDE DEF read
<1>9. Reads(read, pages, V)
  <2>1. \A n \in 0 .. N : read[n] = IF n = 0 THEN <<>> ELSE AddPage(read[n - 1], pages[n])
    BY <1>7
  <2>2. 0 \in 0 .. N /\ 1 .. N \subseteq 0 .. N  BY <1>1
  <2>3. read[0] = <<>> /\ \A n \in 1 .. N : read[n] = AddPage(read[n - 1], pages[n])
    BY <2>1, <2>2
  <2> DEFINE T == {n \in Nat : n <= N => read[n] \in D}
  <2>4. 0 \in T  BY <1>2, <2>3
  <2>5. ASSUME NEW n \in Nat, n \in T PROVE n + 1 \in T
    <3> SUFFICES ASSUME n + 1 <= N PROVE read[n + 1] \in D
      OBVIOUS
    <3>1. n + 1 \in 1 .. N /\ (n + 1) - 1 = n /\ read[n] \in D  BY <1>1, <2>5
    <3>2. read[n + 1] = AddPage(read[n], pages[n + 1])  BY <2>3, <3>1
    <3> QED BY <1>1, <3>1, <3>2, AddPageType
  <2> HIDE DEF T
  <2>6. Nat \subseteq T  BY <2>4, <2>5, NatSetInduction
  <2>7. \A n \in 0 .. N : read[n] \in D  BY <1>1, <2>6 DEF T
  <2>8. read \in [0 .. N -> D]  BY <1>7, <2>7
  <2> QED BY <2>3, <2>8 DEF Reads
<1> QED BY <1>8, <1>9

LEMMA ReadAppend ==
  ASSUME NEW V, NEW pages \in PageLists(V), NEW page \in PageSet(V)
  PROVE  ReadPages(Append(pages, page)) = AddPage(ReadPages(pages), page)
<1> DEFINE N == Len(pages)
           longer == Append(pages, page)
<1>1. /\ N \in Nat /\ longer \in PageLists(V) /\ Len(longer) = N + 1
      /\ longer[N + 1] = page /\ \A n \in 1 .. N : longer[n] = pages[n]
  BY DEF PageLists
<1> HIDE DEF longer
<1>2. PICK f : Reads(f, pages, V) /\ ReadPages(pages) = f[N]  BY ReadsExist
<1>3. PICK g : Reads(g, longer, V) /\ ReadPages(longer) = g[N + 1]  BY <1>1, ReadsExist
<1> DEFINE h == [n \in 0 .. N |-> g[n]]
<1>4. Reads(h, pages, V)
  <2>1. \A n \in 0 .. N : h[n] = g[n] /\ g[n] \in TextLists(V)
    BY <1>1, <1>3 DEF Reads
  <2>2. h \in [0 .. N -> TextLists(V)]  BY <2>1
  <2> HIDE DEF h
  <2>3. ASSUME NEW n \in 1 .. N PROVE h[n] = AddPage(h[n - 1], pages[n])
    <3>1. n \in 0 .. N /\ n - 1 \in 0 .. N /\ n \in 1 .. N + 1  BY <1>1
    <3>2. g[n] = AddPage(g[n - 1], longer[n])  BY <1>1, <1>3, <3>1 DEF Reads
    <3> QED BY <1>1, <2>1, <3>1, <3>2
  <2>4. h[0] = <<>>  BY <1>1, <1>3, <2>1 DEF Reads
  <2> QED BY <2>2, <2>3, <2>4 DEF Reads
<1>5. h[N] = f[N]  BY <1>2, <1>4, ReadsUnique
<1>6. N + 1 \in 1 .. N + 1 /\ (N + 1) - 1 = N /\ N \in 0 .. N  BY <1>1
<1>7. g[N + 1] = AddPage(g[N], longer[N + 1])  BY <1>1, <1>3, <1>6 DEF Reads
<1> QED BY <1>1, <1>2, <1>3, <1>5, <1>6, <1>7 DEF longer

LEMMA ReadEmpty == ASSUME NEW V PROVE ReadPages(<<>>) = <<>>
<1>1. <<>> \in PageLists(V)  BY DEF PageLists
<1>2. PICK f : Reads(f, <<>>, V) /\ ReadPages(<<>>) = f[Len(<<>>)]  BY <1>1, ReadsExist
<1> QED BY <1>2 DEF Reads

LEMMA ReadType ==
  ASSUME NEW V, NEW pages \in PageLists(V)
  PROVE  ReadPages(pages) \in TextLists(V)
<1>1. PICK f : Reads(f, pages, V) /\ ReadPages(pages) = f[Len(pages)]  BY ReadsExist
<1>2. Len(pages) \in 0 .. Len(pages)  BY DEF PageLists
<1> QED BY <1>1, <1>2 DEF Reads

-----------------------------------------------------------------------------
(* A long string: its pages read as one text, whatever the pages before.   *)
LEMMA LongCut ==
  ASSUME NEW v \in Strings, IsLong(v)
  PROVE  LET L == Length[v]
             N == (L + PieceBytes - 1) \div PieceBytes
         IN  /\ L \in Nat \ {0} /\ PieceBytes \in Nat \ {0} /\ N \in Nat \ {0}
             /\ \A n \in Nat : n * PieceBytes \in Nat /\ (n + 1) * PieceBytes = n * PieceBytes + PieceBytes
             /\ \A n \in Nat : n < N => n * PieceBytes < L
             /\ L <= N * PieceBytes
<1> DEFINE L == Length[v]
           B == PieceBytes
           N == (L + B - 1) \div B
<1>1. L \in Nat \ {0} /\ B \in Nat \ {0}
  BY PageAssumption DEF PageAssumption, IsLong, IsString, PieceBytes
<1>2. N \in Nat /\ N * B \in Nat /\ L <= N * B /\ N * B < L + B
  BY <1>1, CeilBounds
<1> HIDE DEF L, B, N
<1>3. \A n \in Nat : n * B \in Nat /\ (n + 1) * B = n * B + B
  BY <1>1, SMTT(30)
<1>4. 0 * B = 0
  BY <1>1
<1>5. N # 0
  BY <1>1, <1>2, <1>4
<1>6. ASSUME NEW n \in Nat, n < N PROVE n * B < L
  <2>1. (n + 1) * B <= N * B
    BY <1>1, <1>2, <1>6, TimesMonotonic
  <2>2. n * B \in Nat /\ n * B + B <= N * B
    BY <1>3, <2>1
  <2> QED
    BY <1>1, <1>2, <2>2
<1> QED
  BY <1>1, <1>2, <1>3, <1>5, <1>6 DEF L, B, N

LEMMA LongRead ==
  ASSUME NEW V, NEW v \in Strings, v \in V, IsLong(v), Broken \notin V \X Int,
         NEW pages \in PageLists(V)
  PROVE  /\ LongPages(v) \in PageLists(V)
         /\ ReadPages(pages \o LongPages(v)) = Append(ReadPages(pages), <<v, Length[v]>>)
<1> DEFINE L == Length[v]
           B == PieceBytes
           N == (L + B - 1) \div B
           LP == LongPages(v)
           got(n) == IF n * B < L THEN n * B ELSE L
           first(n) == [m \in 1 .. n |-> LP[m]]
           texts == ReadPages(pages)
<1>1. /\ L \in Nat \ {0} /\ B \in Nat \ {0} /\ N \in Nat \ {0}
      /\ \A n \in Nat : n * B \in Nat /\ (n + 1) * B = n * B + B
      /\ \A n \in Nat : n < N => n * B < L
      /\ L <= N * B
  BY LongCut
<1>2. LP = [n \in 1 .. N |->
              [kind |-> IF n = 1 THEN "first" ELSE "more", text |-> <<v, (n - 1) * B>>,
               length |-> IF n * B < L THEN B ELSE L - (n - 1) * B]]
  BY DEF LongPages
<1> HIDE DEF LP, B, N, L
<1>3. \A n \in 1 .. N : LP[n] \in PageSet(V)
  <2> SUFFICES ASSUME NEW n \in 1 .. N PROVE LP[n] \in PageSet(V)
    OBVIOUS
  <2>1. n \in Nat /\ n - 1 \in Nat  BY <1>1
  <2>2. (n - 1) * B \in Int /\ n * B \in Int  BY <1>1, <2>1
  <2> DEFINE len == IF n * B < L THEN B ELSE L - (n - 1) * B
  <2>3. len \in Int  BY <1>1, <2>2
  <2>4. LP[n] = [kind |-> IF n = 1 THEN "first" ELSE "more", text |-> <<v, (n - 1) * B>>, length |-> len]
    BY <1>2
  <2> HIDE DEF len
  <2>5. LP[n] \in [kind : {"first", "more"}, text : V \X Int, length : Int]
    BY <2>2, <2>3, <2>4
  <2> QED BY <2>5 DEF PageSet
<1>4. LP \in PageLists(V) /\ Len(LP) = N
  <2>1. LP = [n \in 1 .. N |-> LP[n]]  BY <1>2
  <2> QED BY <1>1, <1>3, <2>1 DEF PageLists
<1>5. texts \in TextLists(V)  BY ReadType
<1> DEFINE T == {n \in Nat : 1 <= n /\ n <= N => ReadPages(pages \o first(n)) = Append(texts, <<v, got(n)>>)}
<1>6. 0 \in T  OBVIOUS
<1>7. ASSUME NEW n \in Nat, n \in T PROVE n + 1 \in T
  <2> SUFFICES ASSUME n + 1 <= N
               PROVE  ReadPages(pages \o first(n + 1)) = Append(texts, <<v, got(n + 1)>>)
    OBVIOUS
  <2>1. n + 1 \in 1 .. N /\ (n + 1) - 1 = n /\ n < N  BY <1>1
  <2> DEFINE page == LP[n + 1]
             before == pages \o first(n)
  <2>2. page \in PageSet(V)  BY <1>3, <2>1
  <2>3. /\ page.kind = (IF n = 0 THEN "first" ELSE "more") /\ page.text[1] = v /\ page.text[2] = n * B
        /\ page.length = IF (n + 1) * B < L THEN B ELSE L - n * B
    <3> DEFINE k == n + 1
    <3>1. k \in 1 .. N /\ k - 1 = n /\ (k = 1 <=> n = 0)  BY <1>1, <2>1
    <3>2. page = LP[k]  OBVIOUS
    <3> HIDE DEF k, page
    <3>3. page = [kind |-> IF k = 1 THEN "first" ELSE "more", text |-> <<v, (k - 1) * B>>,
                  length |-> IF k * B < L THEN B ELSE L - (k - 1) * B]
      BY <1>2, <3>1, <3>2
    <3>4. page.kind = (IF k = 1 THEN "first" ELSE "more") /\ page.text = <<v, n * B>>
          /\ page.length = (IF k * B < L THEN B ELSE L - n * B)
      BY <3>1, <3>3
    <3> QED BY <3>1, <3>4 DEF k
  <2>4. first(n) \in PageLists(V)
    <3>1. \A m \in 1 .. n : LP[m] \in PageSet(V)  BY <1>1, <1>3, <2>1
    <3> QED BY <3>1 DEF PageLists
  <2>5. before \in PageLists(V)  BY <2>4 DEF PageLists
  <2>6. pages \o first(n + 1) = Append(before, page)
    <3>1. first(n + 1) = Append(first(n), page)
      <4> DEFINE a == Append(first(n), page)
      <4>1. \A m \in 1 .. n + 1 : m # n + 1 => m \in 1 .. n  OBVIOUS
      <4> QED BY <4>1
    <3> DEFINE fn == first(n)
               longer == first(n + 1)
    <3>2. fn \in Seq(PageSet(V)) /\ pages \in Seq(PageSet(V)) /\ longer = Append(fn, page)
      BY <2>4, <3>1 DEF PageLists
    <3> HIDE DEF page, fn, longer
    <3>3. pages \o longer = Append(pages \o fn, page)
      BY <2>2, <3>2
    <3> QED BY <3>3 DEF fn, longer
  <2>7. ReadPages(pages \o first(n + 1)) = AddPage(ReadPages(before), page)
    BY <2>2, <2>5, <2>6, ReadAppend
  <2> HIDE DEF page
  <2>8. n * B \in Nat /\ (n + 1) * B = n * B + B /\ n * B < L  BY <1>1, <2>1
  <2>9. n * B + page.length = got(n + 1)
    <3> DEFINE x == n * B
               y == (n + 1) * B
    <3>1. x \in Nat /\ y = x + B /\ page.length = IF y < L THEN B ELSE L - x  BY <2>3, <2>8
    <3>2. got(n + 1) = IF y < L THEN y ELSE L  OBVIOUS
    <3> HIDE DEF x, y, got
    <3>3. x + page.length = got(n + 1)  BY <1>1, <3>1, <3>2
    <3> QED BY <3>3 DEF x
  <2>10. CASE n = 0
    <3>1. first(n) = <<>>  BY <2>10
    <3>2. before = pages  BY <3>1 DEF PageLists
    <3>3. ReadPages(pages \o first(n + 1)) = AddPage(texts, page)  BY <2>7, <3>2
    <3>4. page.length = got(n + 1)
      <4>1. n * B = 0  BY <1>1, <2>10
      <4>2. page.length \in Int  BY <1>1, <2>3, <2>8
      <4> HIDE DEF got
      <4> QED BY <2>9, <4>1, <4>2
    <3> HIDE DEF got, first
    <3> QED BY <2>3, <2>10, <3>3, <3>4 DEF AddPage
  <2>11. CASE n # 0
    <3> DEFINE t == <<v, n * B>>
    <3>1. ReadPages(before) = Append(texts, t)
      <4>1. 1 <= n /\ n <= N  BY <1>1, <2>11
      <4>2. got(n) = n * B  BY <2>8
      <4> QED BY <1>7, <4>1, <4>2
    <3>2. t \in V \X Int /\ t # Broken /\ t[1] = v /\ t[2] = n * B  BY <2>8
    <3>3. Stitched(t, page) = <<v, got(n + 1)>>
      <4> HIDE DEF t, got
      <4> QED BY <2>3, <2>9, <3>2 DEF Stitched
    <3> HIDE DEF t, got, first, before
    <3>4. page.kind = "more"  BY <2>3, <2>11
    <3>5. t \in Texts(V) /\ <<v, got(n + 1)>> \in Texts(V)
      <4>1. got(n + 1) \in Int
        <5>1. page.length \in Int  BY <1>1, <2>3, <2>8
        <5> QED BY <2>8, <2>9, <5>1
      <4> QED BY <3>2, <4>1 DEF Texts
    <3>6. AddPage(Append(texts, t), page) = Append(texts, <<v, got(n + 1)>>)
      <4> DEFINE at == Append(texts, t)
      <4>1. at \in Seq(Texts(V)) /\ Len(at) = Len(texts) + 1 /\ at[Len(at)] = t
        BY <1>5, <3>5 DEF TextLists
      <4>2. AddPage(at, page) = [at EXCEPT ![Len(at)] = Stitched(at[Len(at)], page)]
        BY <3>4 DEF AddPage
      <4>3. AddPage(at, page) = [at EXCEPT ![Len(texts) + 1] = <<v, got(n + 1)>>]
        BY <3>3, <4>1, <4>2
      <4> DEFINE y == <<v, got(n + 1)>>
      <4> HIDE DEF y
      <4>4. [at EXCEPT ![Len(texts) + 1] = y] = Append(texts, y)
        <5> DEFINE k == Len(texts) + 1
                   other == Append(texts, y)
                   set == [at EXCEPT ![k] = y]
        <5>1. /\ at \in Seq(Texts(V)) /\ k \in 1 .. Len(at) /\ Len(at) = k /\ y \in Texts(V)
              /\ other \in Seq(Texts(V)) /\ Len(other) = k
              /\ \A j \in 1 .. k : other[j] = IF j = k THEN y ELSE at[j]
          BY <1>5, <3>5, <4>1 DEF TextLists, y
        <5> HIDE DEF at, other, k
        <5>2. set \in Seq(Texts(V)) /\ Len(set) = k /\ \A j \in 1 .. k : set[j] = IF j = k THEN y ELSE at[j]
          BY <5>1, ExceptSeq
        <5> HIDE DEF set
        <5>3. set = other  BY <5>1, <5>2, SeqEqual
        <5> QED BY <5>3 DEF set, other, k
      <4> QED BY <4>3, <4>4 DEF y
    <3> QED BY <2>7, <3>1, <3>6
  <2> QED BY <2>10, <2>11
<1>8. N \in T
  <2> HIDE DEF T
  <2> QED BY <1>1, <1>6, <1>7, NatSetInduction
<1>9. first(N) = LP  BY <1>2
<1>10. got(N) = L  BY <1>1
<1>11. ReadPages(pages \o LP) = Append(texts, <<v, L>>)
  <2>1. ReadPages(pages \o first(N)) = Append(texts, <<v, got(N)>>)  BY <1>1, <1>8
  <2> HIDE DEF got, first
  <2> QED BY <1>9, <1>10, <2>1
<1> QED BY <1>4, <1>11 DEF L, LP

-----------------------------------------------------------------------------
(* The bitmap: how many rows have a value.                                 *)
Count(bits, n) == Cardinality({m \in 1 .. n : bits[m]})

LEMMA CountStep ==
  ASSUME NEW bits, NEW n \in Nat
  PROVE  /\ Count(bits, 0) = 0 /\ Count(bits, n) \in Nat
         /\ bits[n + 1] => Count(bits, n + 1) = Count(bits, n) + 1
         /\ ~bits[n + 1] => Count(bits, n + 1) = Count(bits, n)
<1> DEFINE S(k) == {m \in 1 .. k : bits[m]}
<1>1. IsFiniteSet(S(n)) /\ Cardinality(S(n)) \in Nat
  <2>1. IsFiniteSet(1 .. n)  BY FS_Interval
  <2> QED BY <2>1, FS_Subset, FS_CardinalityType
<1>2. S(0) = {} /\ n + 1 \notin S(n)  OBVIOUS
<1>3. bits[n + 1] => S(n + 1) = S(n) \cup {n + 1}  OBVIOUS
<1>4. ~bits[n + 1] => S(n + 1) = S(n)  OBVIOUS
<1>5. Cardinality(S(0)) = 0  BY <1>2, FS_EmptySet
<1>6. Cardinality(S(n) \cup {n + 1}) = Cardinality(S(n)) + 1  BY <1>1, <1>2, FS_AddElement
<1> HIDE DEF S
<1>7. /\ Cardinality(S(0)) = 0 /\ Cardinality(S(n)) \in Nat
      /\ bits[n + 1] => Cardinality(S(n + 1)) = Cardinality(S(n)) + 1
      /\ ~bits[n + 1] => Cardinality(S(n + 1)) = Cardinality(S(n))
  BY <1>1, <1>3, <1>4, <1>5, <1>6
<1> QED BY <1>7 DEF Count, S

LEMMA CountBounds ==
  ASSUME NEW bits, NEW k \in Nat, NEW n \in 1 .. k
  PROVE  Count(bits, n) <= Count(bits, k) /\ (bits[n] => Count(bits, n) \in Nat \ {0})
<1> DEFINE S(j) == {m \in 1 .. j : bits[m]}
<1>1. IsFiniteSet(S(k)) /\ IsFiniteSet(S(n))
  <2>1. IsFiniteSet(1 .. k) /\ IsFiniteSet(1 .. n)  BY FS_Interval
  <2> QED BY <2>1, FS_Subset
<1>2. S(n) \in SUBSET S(k)  OBVIOUS
<1>3. bits[n] => n \in S(n)  OBVIOUS
<1>4. Cardinality(S(n)) <= Cardinality(S(k))
  <2> HIDE DEF S
  <2> QED BY <1>1, <1>2, FS_Subset
<1>5. bits[n] => Cardinality(S(n)) \in Nat \ {0}
  <2> HIDE DEF S
  <2> QED BY <1>1, <1>3, FS_EmptySet, FS_CardinalityType
<1> QED BY <1>4, <1>5 DEF Count

LEMMA CountSame ==
  ASSUME NEW a, NEW b, NEW n \in Nat, \A m \in 1 .. n : a[m] = b[m]
  PROVE  Count(a, n) = Count(b, n)
<1>1. {m \in 1 .. n : a[m]} = {m \in 1 .. n : b[m]}  OBVIOUS
<1> QED BY <1>1 DEF Count

(* The bitmap of n rows is a whole number of bytes.                        *)
LEMMA BitmapSizes ==
  ASSUME NEW n \in Nat
  PROVE  /\ BitsPerByte \in Nat \ {0} /\ BitmapBits(n) \in Nat /\ n <= BitmapBits(n)
         /\ BitmapBits(n) < n + BitsPerByte
         /\ \E k \in Nat : BitmapBits(n) = k * BitsPerByte
<1>1. BitsPerByte \in Nat \ {0}  BY PageAssumption DEF PageAssumption
<1> QED BY <1>1, CeilBounds DEF BitmapBits

LEMMA BitmapWhole ==
  ASSUME NEW n \in Nat, NEW m \in Nat, n <= m * BitsPerByte, m * BitsPerByte < n + BitsPerByte
  PROVE  BitmapBits(n) = m * BitsPerByte
<1>1. BitsPerByte \in Nat \ {0}  BY PageAssumption DEF PageAssumption
<1> QED BY <1>1, CeilUnique DEF BitmapBits

-----------------------------------------------------------------------------
(* A writer, and the values in its buffer.                                 *)
WriterSet(V) ==
  [pages : PageLists(V), begin : Int, rows : Nat, data : Seq(V), bytes : Int, bits : Seq(BOOLEAN)]
BufferOK(w) ==
  /\ Len(w.data) = Count(w.bits, w.rows)
  /\ \E m \in Nat : Len(w.bits) = m * BitsPerByte
  /\ BitmapBits(w.rows) <= Len(w.bits)
Buffered(w) == [n \in 1 .. w.rows |-> IF w.bits[n] THEN w.data[Count(w.bits, n)] ELSE Null]
BufferTexts(w) == [n \in 1 .. w.rows |-> <<Buffered(w)[n], 0>>]

LEMMA BufferedType ==
  ASSUME NEW V, Null \in V, NEW w \in WriterSet(V), BufferOK(w)
  PROVE  Buffered(w) \in Seq(V) /\ Len(Buffered(w)) = w.rows
<1>1. w.rows \in Nat /\ w.data \in Seq(V)  BY DEF WriterSet
<1>2. ASSUME NEW n \in 1 .. w.rows PROVE Buffered(w)[n] \in V
  <2>1. w.bits[n] => Count(w.bits, n) \in 1 .. Len(w.data)
    BY <1>1, CountBounds, CountStep DEF BufferOK
  <2> QED BY <1>1, <2>1 DEF Buffered
<1> DEFINE b == Buffered(w)
           k == w.rows
<1>3. k \in Nat /\ b = [n \in 1 .. k |-> b[n]] /\ \A n \in 1 .. k : b[n] \in V
  BY <1>1, <1>2 DEF Buffered
<1> HIDE DEF b, k
<1>4. b \in Seq(V) /\ Len(b) = k  BY <1>3
<1> QED BY <1>4 DEF b, k

(* A page saved from the buffer reads as the buffer's values.              *)
LEMMA PageSaved ==
  ASSUME NEW V, Null \in V, NEW w \in WriterSet(V), BufferOK(w),
         NEW bits \in Seq(BOOLEAN), Len(bits) = BitmapBits(w.rows),
         \A n \in 1 .. w.rows : bits[n] = w.bits[n]
  PROVE  /\ RowsPage(w, bits) \in PageSet(V) /\ RowTexts(RowsPage(w, bits)) = BufferTexts(w)
         /\ PageRows(RowsPage(w, bits)) = Buffered(w)
         /\ \A n \in 1 .. w.rows : RankOf(RowsPage(w, bits), n) = Count(w.bits, n)
<1> DEFINE page == RowsPage(w, bits)
<1>1. w.rows \in Nat /\ w.data \in Seq(V) /\ w.bytes \in Int  BY DEF WriterSet
<1>2. /\ page \in [kind : {"rows"}, rows : Nat, data : Seq(V), bytes : Int, bits : Seq(BOOLEAN)]
      /\ page.kind = "rows" /\ page.rows = w.rows /\ page.data = w.data /\ page.bits = bits
  BY <1>1 DEF RowsPage
<1> HIDE DEF page
<1>3. \A n \in Nat : BitAt(page, n) = bits[n]
  <2> DEFINE k == BitmapBits(w.rows)
  <2>0. k \in Nat /\ Len(page.bits) = k /\ BitmapBits(page.rows) = k
    BY <1>1, <1>2, BitmapSizes
  <2> HIDE DEF k
  <2>1. \A n \in Nat : Len(page.bits) - BitmapBits(page.rows) + n = n
    BY <2>0
  <2> QED BY <1>2, <2>1 DEF BitAt
<1>4. ASSUME NEW n \in 1 .. w.rows PROVE RankOf(page, n) = Count(w.bits, n)
  <2>1. \A m \in 1 .. n : m \in Nat /\ m \in 1 .. w.rows  BY <1>1
  <2>2. {m \in 1 .. n : BitAt(page, m)} = {m \in 1 .. n : w.bits[m]}
    BY <1>3, <2>1
  <2> QED BY <2>2 DEF RankOf, Count
<1>5. PageRows(page) = Buffered(w)
  <2>1. \A n \in 1 .. w.rows : (IF BitAt(page, n) THEN page.data[RankOf(page, n)] ELSE Null)
                                = (IF w.bits[n] THEN w.data[Count(w.bits, n)] ELSE Null)
    BY <1>1, <1>2, <1>3, <1>4
  <2> QED BY <1>2, <2>1 DEF PageRows, Buffered
<1>6. \A n \in 1 .. page.rows : PageRows(page)[n] \in V  BY <1>1, <1>2, <1>5, BufferedType
<1>7. page \in PageSet(V)  BY <1>2, <1>6 DEF PageSet
<1>8. RowTexts(page) = BufferTexts(w)  BY <1>2, <1>5 DEF RowTexts, BufferTexts
<1> QED BY <1>4, <1>5, <1>7, <1>8 DEF page

(* One row more.                                                           *)
MoreRow(w, bit, v, bytes) == AddRow(w, bit, IF bit THEN <<v>> ELSE <<>>, bytes)

LEMMA RowAdded ==
  ASSUME NEW V, Null \in V, NEW w \in WriterSet(V), BufferOK(w),
         NEW bit \in BOOLEAN, NEW v \in V, bit \/ v = Null, NEW bytes \in Int
  PROVE  LET new == MoreRow(w, bit, v, bytes)
         IN  /\ new \in WriterSet(V) /\ BufferOK(new) /\ new.pages = w.pages
             /\ Buffered(new) = Append(Buffered(w), v)
             /\ Len(w.bits) = BitmapBits(w.rows) => Len(new.bits) = BitmapBits(new.rows)
<1> DEFINE values == IF bit THEN <<v>> ELSE <<>>
           new == MoreRow(w, bit, v, bytes)
           n == w.rows
           grown == IF n < Len(w.bits) THEN w.bits ELSE w.bits \o [k \in 1 .. BitsPerByte |-> FALSE]
           bits == SetBit(w.bits, n, bit)
<1>1. /\ n \in Nat /\ w.bits \in Seq(BOOLEAN) /\ w.data \in Seq(V) /\ w.pages \in PageLists(V)
      /\ w.begin \in Int /\ w.bytes \in Int
  BY DEF WriterSet
<1>2. PICK m \in Nat : Len(w.bits) = m * BitsPerByte  BY DEF BufferOK
<1>3. BitsPerByte \in Nat \ {0} /\ n <= BitmapBits(n) /\ BitmapBits(n) <= Len(w.bits) /\ BitmapBits(n) \in Nat
  BY <1>1, BitmapSizes DEF BufferOK
<1>4. /\ grown \in Seq(BOOLEAN) /\ n + 1 \in 1 .. Len(grown) /\ \A k \in 1 .. n : grown[k] = w.bits[k]
      /\ Len(grown) = IF n < Len(w.bits) THEN Len(w.bits) ELSE Len(w.bits) + BitsPerByte
  <2>1. CASE n < Len(w.bits)  BY <1>1, <2>1
  <2>2. CASE ~(n < Len(w.bits))
    <3> DEFINE byte == [k \in 1 .. BitsPerByte |-> FALSE]
    <3>1. byte \in Seq(BOOLEAN) /\ Len(byte) = BitsPerByte  BY <1>3
    <3>2. grown = w.bits \o byte  BY <2>2
    <3> DEFINE old == w.bits
    <3>3. old \in Seq(BOOLEAN) /\ Len(old) = n
      BY <1>1, <1>3, <2>2
    <3> HIDE DEF byte, grown, old
    <3> DEFINE z == BitsPerByte
               l == n
    <3>8. l \in Nat /\ z \in Nat \ {0} /\ Len(old) = l /\ Len(byte) = z
      BY <1>1, <1>3, <3>1, <3>3
    <3> HIDE DEF z, l
    <3>9. /\ old \o byte \in Seq(BOOLEAN) /\ Len(old \o byte) = l + z
          /\ \A k \in 1 .. l : (old \o byte)[k] = old[k]
      BY <3>1, <3>3, <3>8
    <3>4. /\ old \o byte \in Seq(BOOLEAN) /\ Len(old \o byte) = n + BitsPerByte
          /\ \A k \in 1 .. n : (old \o byte)[k] = old[k]
      BY <3>9 DEF l, z
    <3>5. n + 1 \in 1 .. n + BitsPerByte  BY <1>1, <1>3
    <3>6. grown = old \o byte  BY <3>2 DEF old
    <3>7. Len(old) = n /\ ~(n < Len(old))  BY <1>1, <3>3
    <3> QED BY <3>3, <3>4, <3>5, <3>6, <3>7 DEF old
  <2> QED BY <2>1, <2>2
<1>5. bits = [grown EXCEPT ![n + 1] = bit]  BY DEF SetBit
<1> HIDE DEF grown, bits
<1>6. /\ bits \in Seq(BOOLEAN) /\ Len(bits) = Len(grown) /\ bits[n + 1] = bit
      /\ \A k \in 1 .. n : bits[k] = w.bits[k]
  <2>1. \A k \in 1 .. Len(grown) : bits[k] = IF k = n + 1 THEN bit ELSE grown[k]
    BY <1>4, <1>5, ExceptSeq
  <2>2. \A k \in 1 .. n : k \in 1 .. Len(grown) /\ k # n + 1  BY <1>1, <1>4
  <2> QED BY <1>4, <1>5, <2>1, <2>2, ExceptSeq
<1>7. BitmapBits(n + 1) <= Len(bits) /\ (\E k \in Nat : Len(bits) = k * BitsPerByte)
      /\ (Len(w.bits) = BitmapBits(n) => Len(bits) = BitmapBits(n + 1))
  <2> DEFINE mb == m * BitsPerByte
  <2>1. mb \in Nat /\ (m + 1) * BitsPerByte = mb + BitsPerByte  BY <1>3, SMTT(30)
  <2>0. n + 1 \in Nat  BY <1>1
  <2>2. PICK k \in Nat : BitmapBits(n + 1) = k * BitsPerByte  BY <2>0, BitmapSizes
  <2>3. BitmapBits(n + 1) \in Nat /\ n + 1 <= BitmapBits(n + 1) /\ BitmapBits(n + 1) < n + 1 + BitsPerByte
    BY <2>0, BitmapSizes
  <2>4. CASE n < Len(w.bits)
    <3>1. Len(bits) = mb  BY <1>2, <1>4, <1>6, <2>4
    <3>2. k <= m
      <4> SUFFICES ASSUME m < k PROVE FALSE
        BY <1>2
      <4>1. (m + 1) * BitsPerByte <= k * BitsPerByte  BY <1>3, TimesMonotonic
      <4>2. n + 1 <= mb  BY <1>1, <1>2, <2>4, <2>1
      <4> DEFINE kb == BitmapBits(n + 1)
      <4>3. mb + BitsPerByte <= kb  BY <2>1, <2>2, <4>1
      <4>4. kb \in Nat /\ kb < n + 1 + BitsPerByte  BY <2>3
      <4>5. mb \in Nat  BY <2>1
      <4> HIDE DEF mb, kb
      <4> QED BY <1>1, <1>3, <4>2, <4>3, <4>4, <4>5
    <3>3. BitmapBits(n + 1) <= mb  BY <1>3, <2>2, <3>2, TimesMonotonic
    <3>4. Len(w.bits) = BitmapBits(n) => BitmapBits(n + 1) = mb
      <4> SUFFICES ASSUME mb = BitmapBits(n) PROVE BitmapBits(n + 1) = mb
        BY <1>2
      <4>1. n + 1 <= mb /\ mb < n + 1 + BitsPerByte
        <5>1. mb < n + BitsPerByte  BY <1>1, BitmapSizes
        <5> HIDE DEF mb
        <5> QED BY <1>1, <1>2, <1>3, <2>1, <2>4, <5>1 DEF mb
      <4> QED BY <1>1, <4>1, BitmapWhole
    <3> QED BY <1>2, <3>1, <3>3, <3>4
  <2>5. CASE ~(n < Len(w.bits))
    <3>1. n = mb /\ Len(bits) = mb + BitsPerByte
      BY <1>1, <1>2, <1>3, <1>4, <1>6, <2>5
    <3>2. n + 1 <= (m + 1) * BitsPerByte /\ (m + 1) * BitsPerByte < n + 1 + BitsPerByte
      <4> HIDE DEF mb
      <4> QED BY <1>1, <1>3, <2>1, <3>1
    <3>3. BitmapBits(n + 1) = (m + 1) * BitsPerByte  BY <1>1, <3>2, BitmapWhole
    <3>4. Len(bits) = (m + 1) * BitsPerByte /\ m + 1 \in Nat  BY <2>1, <3>1
    <3> QED BY <2>3, <3>3, <3>4
  <2> QED BY <2>4, <2>5
<1>8. values \in Seq(V)  OBVIOUS
<1>9. new = [pages |-> w.pages, begin |-> w.begin, rows |-> n + 1, data |-> w.data \o values,
             bytes |-> w.bytes + bytes, bits |-> bits]
  BY DEF MoreRow, AddRow, bits
<1>10. new \in WriterSet(V)
  <2>1. w.data \o values \in Seq(V)  BY <1>1, <1>8
  <2> HIDE DEF values, new
  <2> QED BY <1>1, <1>6, <1>9, <2>1 DEF WriterSet
<1>11. /\ Count(bits, n) = Count(w.bits, n) /\ Count(w.bits, n) \in Nat
       /\ Count(bits, n + 1) = Count(w.bits, n) + (IF bit THEN 1 ELSE 0)
  <2>1. Count(bits, n) = Count(w.bits, n)  BY <1>1, <1>6, CountSame
  <2>2. /\ Count(bits, n) \in Nat
        /\ bits[n + 1] => Count(bits, n + 1) = Count(bits, n) + 1
        /\ ~bits[n + 1] => Count(bits, n + 1) = Count(bits, n)
    BY <1>1, CountStep
  <2>3. bits[n + 1] = bit  BY <1>6
  <2> QED BY <2>1, <2>2, <2>3
<1>12. Len(w.data \o values) = Count(bits, n + 1)
  <2>1. Len(values) = IF bit THEN 1 ELSE 0  OBVIOUS
  <2> DEFINE old == w.data
  <2>2. old \in Seq(V) /\ Len(old) = Count(w.bits, n)  BY <1>1 DEF BufferOK
  <2> HIDE DEF values, old
  <2>3. Len(old \o values) = Len(old) + Len(values)  BY <1>8, <2>2
  <2>4. Len(old \o values) = Count(bits, n + 1)  BY <1>11, <2>1, <2>2, <2>3
  <2> QED BY <2>4 DEF old
<1>13. new.pages = w.pages /\ new.rows = n + 1 /\ new.data = w.data \o values /\ new.bits = bits
  <2> DEFINE d == w.data \o values
             l == n + 1
             z == w.bytes + bytes
  <2>1. new = [pages |-> w.pages, begin |-> w.begin, rows |-> l, data |-> d, bytes |-> z, bits |-> bits]
    BY <1>9
  <2> HIDE DEF d, l, z, new
  <2>2. new.pages = w.pages /\ new.rows = l /\ new.data = d /\ new.bits = bits  BY <2>1
  <2> QED BY <2>2 DEF d, l
<1> HIDE DEF new
<1>14. BufferOK(new)  BY <1>7, <1>12, <1>13 DEF BufferOK
<1>15. Buffered(new) = Append(Buffered(w), v)
  <2>1. Buffered(w) \in Seq(V) /\ Len(Buffered(w)) = n  BY BufferedType
  <2>2. Buffered(new) \in Seq(V) /\ Len(Buffered(new)) = n + 1  BY <1>10, <1>13, <1>14, BufferedType
  <2>3. ASSUME NEW k \in 1 .. n PROVE Buffered(new)[k] = Buffered(w)[k]
    <3>1. k \in 1 .. n + 1 /\ k \in Nat /\ \A j \in 1 .. k : j \in 1 .. n  BY <1>1
    <3>2. Count(bits, k) = Count(w.bits, k)  BY <1>6, <3>1, CountSame
    <3>3. w.bits[k] => Count(w.bits, k) \in 1 .. Len(w.data)
      BY <1>1, CountBounds, CountStep DEF BufferOK
    <3>4. w.bits[k] => (w.data \o values)[Count(w.bits, k)] = w.data[Count(w.bits, k)]
      <4> HIDE DEF values
      <4> QED BY <1>1, <1>8, <3>3
    <3>5. Buffered(new)[k] = IF bits[k] THEN (w.data \o values)[Count(bits, k)] ELSE Null
      BY <1>13, <3>1 DEF Buffered
    <3>6. Buffered(w)[k] = IF w.bits[k] THEN w.data[Count(w.bits, k)] ELSE Null
      BY DEF Buffered
    <3> HIDE DEF values
    <3> QED BY <1>6, <3>2, <3>4, <3>5, <3>6
  <2>4. Buffered(new)[n + 1] = v
    <3>1. Buffered(new)[n + 1] = IF bit THEN (w.data \o values)[Count(bits, n + 1)] ELSE Null
      <4>1. n + 1 \in 1 .. n + 1  BY <1>1
      <4> HIDE DEF values
      <4> QED BY <1>6, <1>13, <4>1 DEF Buffered
    <3>2. CASE bit
      <4>1. Count(bits, n + 1) = Len(w.data) + 1  BY <1>11, <3>2 DEF BufferOK
      <4>2. (w.data \o <<v>>)[Len(w.data) + 1] = v  BY <1>1
      <4> QED BY <3>1, <3>2, <4>1, <4>2
    <3>3. CASE ~bit  BY <3>1, <3>3
    <3> QED BY <3>2, <3>3
  <2> DEFINE longer == Append(Buffered(w), v)
  <2>5. /\ longer \in Seq(V) /\ Len(longer) = n + 1 /\ longer[n + 1] = v
        /\ \A k \in 1 .. n : longer[k] = Buffered(w)[k]
    BY <1>1, <2>1
  <2> HIDE DEF longer
  <2>6. \A k \in 1 .. n + 1 : Buffered(new)[k] = longer[k]
    <3>1. \A k \in 1 .. n + 1 : k = n + 1 \/ k \in 1 .. n  BY <1>1
    <3> QED BY <2>3, <2>4, <2>5, <3>1
  <2>7. Buffered(new) = longer  BY <2>2, <2>5, <2>6, SeqEqual
  <2> QED BY <2>7 DEF longer
<1> QED BY <1>7, <1>10, <1>13, <1>14, <1>15 DEF new

-----------------------------------------------------------------------------
(* A writer spells the values given to it: whatever pages a reader has read *)
(* before, its pages and then its buffer add these values.                 *)
TextOf(v)   == <<v, IF IsLong(v) THEN Length[v] ELSE 0>>
TextsOf(s)  == [n \in 1 .. Len(s) |-> TextOf(s[n])]
ValueSet(V) == Null \in V /\ Broken \notin V \X Int
Adds(pages, rest, s, V) ==
  \A qs \in PageLists(V) : ReadPages(qs \o pages) \o rest = ReadPages(qs) \o TextsOf(s)
Spelled(w, s, V) ==
  /\ w \in WriterSet(V) /\ BufferOK(w) /\ s \in Seq(V)
  /\ Adds(w.pages, BufferTexts(w), s, V)

(* A page buffer's bitmap is as long as its rows need.                     *)
Exact(w) == Len(w.bits) = BitmapBits(w.rows)

LEMMA TextType ==
  ASSUME NEW V, NEW s \in Seq(V), NEW v \in V
  PROVE  /\ TextsOf(s) \in TextLists(V) /\ Len(TextsOf(s)) = Len(s) /\ TextOf(v) \in Texts(V)
         /\ TextsOf(Append(s, v)) = Append(TextsOf(s), TextOf(v))
<1>1. ASSUME NEW x \in V PROVE TextOf(x) \in V \X Int
  <2>1. (IF IsLong(x) THEN Length[x] ELSE 0) \in Int
    BY PageAssumption DEF PageAssumption, IsLong, IsString
  <2> QED BY <2>1 DEF TextOf
<1>2. ASSUME NEW x \in Seq(V) PROVE TextsOf(x) \in TextLists(V) /\ Len(TextsOf(x)) = Len(x)
  <2>1. \A n \in 1 .. Len(x) : TextOf(x[n]) \in Texts(V)  BY <1>1, <1>2 DEF Texts
  <2> QED BY <1>2, <2>1 DEF TextsOf, TextLists
<1> DEFINE longer == Append(s, v)
           a == TextsOf(longer)
           b == Append(TextsOf(s), TextOf(v))
<1>3. longer \in Seq(V) /\ Len(longer) = Len(s) + 1 /\ longer[Len(s) + 1] = v /\ \A n \in 1 .. Len(s) : longer[n] = s[n]
  OBVIOUS
<1> HIDE DEF longer
<1>4. TextOf(v) \in Texts(V)  BY <1>1 DEF Texts
<1>5. a \in Seq(Texts(V)) /\ Len(a) = Len(s) + 1  BY <1>2, <1>3 DEF TextLists
<1> DEFINE ts == TextsOf(s)
<1>6. ts \in Seq(Texts(V)) /\ Len(ts) = Len(s) /\ \A n \in 1 .. Len(s) : ts[n] = TextOf(s[n])
  BY <1>2 DEF TextLists, TextsOf
<1> HIDE DEF ts
<1>7. b = Append(ts, TextOf(v))  BY DEF ts
<1>8. /\ b \in Seq(Texts(V)) /\ Len(b) = Len(s) + 1 /\ b[Len(s) + 1] = TextOf(v)
      /\ \A n \in 1 .. Len(s) : b[n] = TextOf(s[n])
  BY <1>4, <1>6, <1>7
<1>9. \A n \in 1 .. Len(s) + 1 : a[n] = TextOf(longer[n])  BY <1>3 DEF TextsOf
<1> HIDE DEF a, b
<1>10. Len(s) \in Nat /\ \A n \in 1 .. Len(s) + 1 : n = Len(s) + 1 \/ n \in 1 .. Len(s)  OBVIOUS
<1>11. \A n \in 1 .. Len(s) + 1 : a[n] = b[n]  BY <1>3, <1>8, <1>9, <1>10
<1>12. a = b  BY <1>5, <1>8, <1>11, SeqEqual
<1> QED BY <1>2, <1>4, <1>12 DEF a, b, longer

LEMMA BufferTextsType ==
  ASSUME NEW V, ValueSet(V), NEW w \in WriterSet(V), BufferOK(w)
  PROVE  BufferTexts(w) \in TextLists(V) /\ Len(BufferTexts(w)) = w.rows
<1> DEFINE b == Buffered(w)
           k == w.rows
<1>1. k \in Nat /\ b \in Seq(V) /\ Len(b) = k  BY BufferedType DEF WriterSet, ValueSet
<1>2. BufferTexts(w) = [n \in 1 .. k |-> <<b[n], 0>>]  BY DEF BufferTexts
<1> HIDE DEF b, k
<1>3. \A n \in 1 .. k : <<b[n], 0>> \in Texts(V)  BY <1>1 DEF Texts
<1>4. BufferTexts(w) \in TextLists(V) /\ Len(BufferTexts(w)) = k  BY <1>1, <1>2, <1>3 DEF TextLists
<1> QED BY <1>4 DEF k

(* The buffer becomes a page that reads as the buffer does.                *)
LEMMA SavedAs ==
  ASSUME NEW V, ValueSet(V), NEW w, NEW s, Spelled(w, s, V),
         NEW page \in PageSet(V), page.kind = "rows", RowTexts(page) = BufferTexts(w),
         NEW bits \in Seq(BOOLEAN), NEW m \in Nat, Len(bits) = m * BitsPerByte
  PROVE  LET new == EmptyBuffer(w.begin, Append(w.pages, page), bits)
         IN  /\ Spelled(new, s, V) /\ new.rows = 0 /\ new.bits = bits /\ new.pages \in PageLists(V)
             /\ Adds(new.pages, <<>>, s, V)
<1> DEFINE pages == Append(w.pages, page)
           new == EmptyBuffer(w.begin, pages, bits)
           ps == w.pages
<1>1. w \in WriterSet(V) /\ BufferOK(w) /\ s \in Seq(V) /\ Adds(w.pages, BufferTexts(w), s, V)
  BY DEF Spelled
<1>2. ps \in PageLists(V) /\ w.begin \in Int  BY <1>1 DEF WriterSet
<1>3. pages \in PageLists(V)
  <2> HIDE DEF ps
  <2>1. Append(ps, page) \in PageLists(V)  BY <1>2 DEF PageLists
  <2> QED BY <2>1 DEF ps
<1>4. new = [pages |-> pages, begin |-> w.begin, rows |-> 0, data |-> <<>>, bytes |-> w.begin, bits |-> bits]
  BY DEF EmptyBuffer
<1> HIDE DEF pages, new
<1>5. new \in WriterSet(V) /\ new.rows = 0 /\ new.pages = pages /\ new.bits = bits /\ new.data = <<>>
  BY <1>2, <1>3, <1>4 DEF WriterSet
<1>6. BufferOK(new)
  <2>1. Count(bits, 0) = 0  BY CountStep
  <2>2. BitmapBits(0) = 0
    <3>1. 0 \in Nat /\ 0 <= 0 * BitsPerByte /\ 0 * BitsPerByte < 0 + BitsPerByte
      BY PageAssumption DEF PageAssumption
    <3>2. BitmapBits(0) = 0 * BitsPerByte  BY <3>1, BitmapWhole
    <3> QED BY <3>2, PageAssumption DEF PageAssumption
  <2>3. Len(bits) \in Nat /\ Len(<<>>) = 0  OBVIOUS
  <2> QED BY <1>5, <2>1, <2>2, <2>3 DEF BufferOK
<1>7. Adds(pages, <<>>, s, V)
  <2> SUFFICES ASSUME NEW qs \in PageLists(V) PROVE ReadPages(qs \o pages) \o <<>> = ReadPages(qs) \o TextsOf(s)
    BY DEF Adds
  <2> DEFINE both == qs \o ps
             r == ReadPages(both)
             t == BufferTexts(w)
  <2>1. both \in PageLists(V)  BY <1>2 DEF PageLists
  <2>2. qs \o pages = Append(both, page)
    <3> HIDE DEF ps
    <3>1. qs \o Append(ps, page) = Append(qs \o ps, page)  BY <1>2 DEF PageLists
    <3> QED BY <3>1 DEF pages, ps
  <2>3. ReadPages(qs \o pages) = AddPage(r, page)  BY <2>1, <2>2, ReadAppend
  <2>4. AddPage(r, page) = r \o t  BY DEF AddPage, RowTexts
  <2>5. r \o t = ReadPages(qs) \o TextsOf(s)  BY <1>1 DEF Adds
  <2>6. ReadPages(qs) \in TextLists(V) /\ r \in TextLists(V) /\ t \in TextLists(V)
    BY <1>1, <2>1, ReadType, BufferTextsType
  <2> HIDE DEF r, t, both
  <2>7. (r \o t) \o <<>> = r \o t  BY <2>6 DEF TextLists
  <2> QED BY <2>3, <2>4, <2>5, <2>7
<1>8. BufferTexts(new) = <<>>
  BY <1>5 DEF BufferTexts
<1> QED BY <1>1, <1>3, <1>5, <1>6, <1>7, <1>8 DEF Spelled, new, pages

LEMMA Saved ==
  ASSUME NEW V, ValueSet(V), NEW w, NEW s, Spelled(w, s, V), Exact(w)
  PROVE  LET new == SavePage(w)
         IN  /\ Spelled(new, s, V) /\ Exact(new) /\ new.rows = 0 /\ new.pages \in PageLists(V)
             /\ Adds(new.pages, <<>>, s, V)
<1>1. w \in WriterSet(V) /\ BufferOK(w) /\ w.bits \in Seq(BOOLEAN) /\ Null \in V
  BY DEF Spelled, WriterSet, ValueSet
<1> DEFINE page == RowsPage(w, w.bits)
           none == <<>>
<1>2. page \in PageSet(V) /\ RowTexts(page) = BufferTexts(w)  BY <1>1, PageSaved DEF Exact
<1>3. page.kind = "rows"  BY DEF RowsPage
<1>4. none \in Seq(BOOLEAN) /\ Len(none) = 0 * BitsPerByte
  BY PageAssumption DEF PageAssumption
<1> DEFINE new == EmptyBuffer(w.begin, Append(w.pages, page), none)
<1>5. /\ Spelled(new, s, V) /\ new.rows = 0 /\ new.bits = none /\ new.pages \in PageLists(V)
      /\ Adds(new.pages, <<>>, s, V)
  <2> HIDE DEF page, none
  <2> QED BY <1>2, <1>3, <1>4, SavedAs
<1>6. SavePage(w) = new  BY DEF SavePage
<1> HIDE DEF new
<1>7. BitmapBits(0) = 0
  <2>1. 0 <= 0 * BitsPerByte /\ 0 * BitsPerByte < 0 + BitsPerByte
    BY PageAssumption DEF PageAssumption
  <2>2. BitmapBits(0) = 0 * BitsPerByte  BY <2>1, BitmapWhole
  <2> QED BY <2>2, PageAssumption DEF PageAssumption
<1>8. Exact(new)  BY <1>5, <1>7 DEF Exact
<1> QED BY <1>5, <1>6, <1>8

LEMMA InserterSaved ==
  ASSUME NEW V, ValueSet(V), NEW w, NEW s, Spelled(w, s, V), ~Overlap(w)
  PROVE  LET new == InserterSave(w)
         IN  /\ Spelled(new, s, V) /\ new.rows = 0 /\ new.pages \in PageLists(V)
             /\ Adds(new.pages, <<>>, s, V)
<1>1. w \in WriterSet(V) /\ BufferOK(w) /\ w.bits \in Seq(BOOLEAN) /\ Null \in V /\ w.rows \in Nat
  BY DEF Spelled, WriterSet, ValueSet
<1> DEFINE k == BitmapBits(w.rows)
           all == w.bits
           bits == SubSeq(all, 1, k)
           page == RowsPage(w, bits)
<1>2. k \in Nat /\ w.rows <= k /\ k <= Len(all)  BY <1>1, BitmapSizes DEF BufferOK
<1>3. /\ bits \in Seq(BOOLEAN) /\ Len(bits) = BitmapBits(w.rows)
      /\ \A n \in 1 .. w.rows : bits[n] = w.bits[n]
  <2> HIDE DEF k, all
  <2>1. all \in Seq(BOOLEAN)  BY <1>1 DEF all
  <2>2. bits \in Seq(BOOLEAN) /\ Len(bits) = k  BY <1>2, <2>1
  <2>3. \A n \in 1 .. k : bits[n] = all[n]  BY <1>2, <2>1
  <2>4. \A n \in 1 .. w.rows : n \in 1 .. k  BY <1>1, <1>2
  <2> QED BY <2>2, <2>3, <2>4 DEF k, all
<1> HIDE DEF bits
<1>4. page \in PageSet(V) /\ RowTexts(page) = BufferTexts(w)  BY <1>1, <1>3, PageSaved
<1>5. page.kind = "rows"  BY DEF RowsPage
<1>6. PICK m \in Nat : Len(w.bits) = m * BitsPerByte  BY <1>1 DEF BufferOK
<1> DEFINE new == EmptyBuffer(w.begin, Append(w.pages, page), w.bits)
<1>7. /\ Spelled(new, s, V) /\ new.rows = 0 /\ new.pages \in PageLists(V) /\ Adds(new.pages, <<>>, s, V)
  <2> HIDE DEF page
  <2> QED BY <1>1, <1>4, <1>5, <1>6, SavedAs
<1>8. InserterSave(w) = new  BY DEF InserterSave, InserterPage, UnderBitmap, bits
<1> QED BY <1>7, <1>8

(* One value more in the buffer.                                           *)
LEMMA AddedValue ==
  ASSUME NEW V, ValueSet(V), NEW w, NEW s, Spelled(w, s, V), NEW v \in V, ~IsLong(v),
         NEW bit \in BOOLEAN, bit \/ v = Null, NEW bytes \in Int
  PROVE  LET new == MoreRow(w, bit, v, bytes)
         IN  Spelled(new, Append(s, v), V) /\ (Exact(w) => Exact(new))
<1> DEFINE new == MoreRow(w, bit, v, bytes)
<1>1. /\ w \in WriterSet(V) /\ BufferOK(w) /\ s \in Seq(V) /\ Adds(w.pages, BufferTexts(w), s, V)
      /\ Null \in V /\ w.rows \in Nat
  BY DEF Spelled, ValueSet, WriterSet
<1>2. /\ new \in WriterSet(V) /\ BufferOK(new) /\ new.pages = w.pages
      /\ Buffered(new) = Append(Buffered(w), v)
      /\ Exact(w) => Exact(new)
  <2>1. /\ new \in WriterSet(V) /\ BufferOK(new) /\ new.pages = w.pages
        /\ Buffered(new) = Append(Buffered(w), v)
        /\ Len(w.bits) = BitmapBits(w.rows) => Len(new.bits) = BitmapBits(new.rows)
    BY <1>1, RowAdded
  <2> HIDE DEF new
  <2> QED BY <2>1 DEF Exact
<1> HIDE DEF new
<1>3. BufferTexts(new) = Append(BufferTexts(w), TextOf(v))
  <2> DEFINE b == Buffered(w)
             c == Buffered(new)
             k == w.rows
             l == new.rows
             bt == BufferTexts(w)
             ct == BufferTexts(new)
             longer == Append(bt, TextOf(v))
  <2>1. k \in Nat /\ b \in Seq(V) /\ Len(b) = k /\ c \in Seq(V) /\ Len(c) = l /\ c = Append(b, v)
    BY <1>1, <1>2, BufferedType
  <2>2. bt \in Seq(Texts(V)) /\ Len(bt) = k /\ ct \in Seq(Texts(V)) /\ Len(ct) = l
    BY <1>1, <1>2, BufferTextsType DEF TextLists
  <2>3. (\A n \in 1 .. k : bt[n] = <<b[n], 0>>) /\ (\A n \in 1 .. l : ct[n] = <<c[n], 0>>)
    BY DEF BufferTexts
  <2> HIDE DEF b, c, k, l, bt, ct
  <2>4. l = k + 1 /\ c[k + 1] = v /\ \A n \in 1 .. k : c[n] = b[n]  BY <2>1
  <2>5. TextOf(v) = <<v, 0>> /\ TextOf(v) \in Texts(V)  BY <1>1, TextType DEF TextOf
  <2>6. longer \in Seq(Texts(V)) /\ Len(longer) = k + 1 /\ longer[k + 1] = <<v, 0>> /\ \A n \in 1 .. k : longer[n] = bt[n]
    BY <2>1, <2>2, <2>5
  <2> HIDE DEF longer
  <2>7. \A n \in 1 .. k + 1 : ct[n] = longer[n]
    <3>1. \A n \in 1 .. k + 1 : n = k + 1 \/ n \in 1 .. k  BY <2>1
    <3> QED BY <2>3, <2>4, <2>6, <3>1
  <2>8. ct = longer  BY <2>2, <2>4, <2>6, <2>7, SeqEqual
  <2> QED BY <2>8 DEF ct, longer, bt
<1>4. Append(s, v) \in Seq(V)  BY <1>1
<1>5. ASSUME NEW qs \in PageLists(V)
      PROVE  ReadPages(qs \o new.pages) \o BufferTexts(new) = ReadPages(qs) \o TextsOf(Append(s, v))
  <2> DEFINE r == ReadPages(qs \o w.pages)
             q == ReadPages(qs)
             t == BufferTexts(w)
             x == TextsOf(s)
             y == TextOf(v)
  <2>1. qs \o w.pages \in PageLists(V)  BY <1>1 DEF PageLists, WriterSet
  <2>2. r \in Seq(Texts(V)) /\ q \in Seq(Texts(V)) /\ t \in Seq(Texts(V)) /\ x \in Seq(Texts(V)) /\ y \in Texts(V)
    BY <1>1, <2>1, ReadType, BufferTextsType, TextType DEF TextLists
  <2>3. r \o t = q \o x  BY <1>1 DEF Adds
  <2>4. TextsOf(Append(s, v)) = Append(x, y)  BY <1>1, TextType
  <2> HIDE DEF r, q, t, x, y
  <2>5. r \o Append(t, y) = Append(r \o t, y) /\ q \o Append(x, y) = Append(q \o x, y)  BY <2>2
  <2>6. r \o Append(t, y) = q \o Append(x, y)  BY <2>3, <2>5
  <2> QED BY <1>2, <1>3, <2>4, <2>6 DEF r, q, t, x, y
<1> QED BY <1>2, <1>4, <1>5 DEF Spelled, Adds, new

(* A long string after the rows before it are saved.                       *)
LEMMA AddedLong ==
  ASSUME NEW V, ValueSet(V), NEW w, NEW s, Spelled(w, s, V), w.rows = 0, NEW v \in V, IsLong(v)
  PROVE  LET new == [w EXCEPT !.pages = @ \o LongPages(v)]
         IN  Spelled(new, Append(s, v), V) /\ (Exact(w) => Exact(new))
<1> DEFINE long == LongPages(v)
           pages == w.pages \o long
           new == [w EXCEPT !.pages = pages]
<1>1. w \in WriterSet(V) /\ BufferOK(w) /\ s \in Seq(V) /\ Adds(w.pages, BufferTexts(w), s, V)
  BY DEF Spelled
<1>2. v \in Strings /\ Broken \notin V \X Int /\ <<>> \in PageLists(V)  BY DEF IsLong, IsString, ValueSet, PageLists
<1>3. long \in PageLists(V)  BY <1>2, LongRead
<1>4. w.pages \in PageLists(V) /\ pages \in PageLists(V)
  <2>1. w.pages \in PageLists(V)  BY <1>1 DEF WriterSet
  <2> HIDE DEF long
  <2> QED BY <1>3, <2>1 DEF PageLists
<1> HIDE DEF pages
<1>5. /\ new \in WriterSet(V) /\ new.pages = pages /\ new.rows = 0 /\ new.data = w.data /\ new.bits = w.bits
  BY <1>1, <1>4 DEF WriterSet
<1> HIDE DEF new
<1>6. BufferOK(new) /\ (Exact(w) => Exact(new))  BY <1>1, <1>5 DEF BufferOK, Exact
<1>7. BufferTexts(new) = <<>> /\ BufferTexts(w) = <<>>  BY <1>5 DEF BufferTexts
<1>8. Append(s, v) \in Seq(V)  BY <1>1
<1>9. ASSUME NEW qs \in PageLists(V)
      PROVE  ReadPages(qs \o pages) \o <<>> = ReadPages(qs) \o TextsOf(Append(s, v))
  <2> DEFINE ps == w.pages
             both == qs \o ps
             r == ReadPages(both)
             q == ReadPages(qs)
             x == TextsOf(s)
             y == TextOf(v)
  <2>1. both \in PageLists(V)  BY <1>4 DEF PageLists
  <2>2. r \in Seq(Texts(V)) /\ q \in Seq(Texts(V)) /\ x \in Seq(Texts(V)) /\ y \in Texts(V)
    BY <1>1, <2>1, ReadType, TextType DEF TextLists
  <2>3. r \o <<>> = q \o x  BY <1>1, <1>7 DEF Adds
  <2>4. TextsOf(Append(s, v)) = Append(x, y)  BY <1>1, TextType
  <2>5. qs \o pages = both \o long
    <3> HIDE DEF ps, long
    <3>1. ps \in Seq(PageSet(V)) /\ long \in Seq(PageSet(V)) /\ qs \in Seq(PageSet(V))
      BY <1>3, <1>4 DEF PageLists, ps
    <3>2. qs \o (ps \o long) = (qs \o ps) \o long  BY <3>1
    <3> QED BY <3>2 DEF pages, ps
  <2>6. ReadPages(both \o long) = Append(r, y)  BY <1>2, <2>1, LongRead DEF TextOf
  <2> HIDE DEF r, q, x, y, both, long
  <2>7. r = q \o x  BY <2>2, <2>3
  <2>8. Append(q \o x, y) = q \o Append(x, y) /\ Append(q \o x, y) \o <<>> = Append(q \o x, y)  BY <2>2
  <2>9. ReadPages(qs \o pages) \o <<>> = q \o Append(x, y)  BY <2>5, <2>6, <2>7, <2>8
  <2> QED BY <2>4, <2>9 DEF q
<1>10. Spelled(new, Append(s, v), V)  BY <1>5, <1>6, <1>7, <1>8, <1>9 DEF Spelled, Adds
<1> QED BY <1>6, <1>10 DEF new, pages

(* insert_value, of a page buffer and of a column inserter.                *)
LEMMA ByteCounts ==
  ASSUME NEW v
  PROVE  ValueBytes(v) \in Int /\ 0 \in Int
BY PageAssumption DEF PageAssumption, ValueBytes, IsString, IsWide

LEMMA Inserted ==
  ASSUME NEW V, ValueSet(V), NEW w, NEW s, Spelled(w, s, V), Exact(w), NEW v \in V
  PROVE  Spelled(InsertValue(w, v), Append(s, v), V) /\ Exact(InsertValue(w, v))
<1> DEFINE none == <<>>
           one == <<v>>
<1>1. ASSUME NEW bytes PROVE Spelled(Room(w, bytes), s, V) /\ Exact(Room(w, bytes))
  BY Saved DEF Room
<1>2. CASE v = Null
  <2> DEFINE room == Room(w, 0)
             bit == FALSE
             zero == 0
             new == MoreRow(room, bit, v, zero)
  <2>1. Spelled(room, s, V) /\ Exact(room)  BY <1>1
  <2>2. ~IsLong(v)  BY <1>2, PageAssumption DEF PageAssumption, IsLong, IsString
  <2>5. bit \in BOOLEAN /\ zero \in Int /\ ~bit  OBVIOUS
  <2> HIDE DEF room, bit, zero
  <2>3. Spelled(new, Append(s, v), V) /\ Exact(new)
    BY <1>2, <2>1, <2>2, <2>5, AddedValue
  <2>4. InsertValue(w, v) = new  BY <1>2 DEF InsertValue, InsertNull, MoreRow, room, bit, zero
  <2> HIDE DEF new
  <2> QED BY <2>3, <2>4
<1>3. CASE v # Null /\ ~IsLong(v)
  <2> DEFINE room == Room(w, ValueBytes(v))
             new == MoreRow(room, TRUE, v, ValueBytes(v))
  <2>1. Spelled(room, s, V) /\ Exact(room)  BY <1>1
  <2>2. ValueBytes(v) \in Int  BY ByteCounts
  <2> HIDE DEF room
  <2>3. Spelled(new, Append(s, v), V) /\ Exact(new)
    BY <1>3, <2>1, <2>2, AddedValue
  <2>4. InsertValue(w, v) = new  BY <1>3 DEF InsertValue, InsertShort, MoreRow, room
  <2> HIDE DEF new
  <2> QED BY <2>3, <2>4
<1>4. CASE v # Null /\ IsLong(v)
  <2> DEFINE saved == FlushRows(w)
             new == [saved EXCEPT !.pages = @ \o LongPages(v)]
  <2>1. Spelled(saved, s, V) /\ Exact(saved) /\ saved.rows = 0  BY Saved DEF FlushRows
  <2>2. InsertValue(w, v) = new  BY <1>4 DEF InsertValue, InsertLong
  <2> HIDE DEF saved
  <2>3. Spelled(new, Append(s, v), V) /\ Exact(new)  BY <1>4, <2>1, AddedLong
  <2> HIDE DEF new
  <2> QED BY <2>2, <2>3
<1> QED BY <1>2, <1>3, <1>4

LEMMA InserterInserted ==
  ASSUME NEW V, ValueSet(V), NEW w, NEW s, Spelled(w, s, V), NEW v \in V, ~Overlap(w)
  PROVE  Spelled(InserterValue(w, v), Append(s, v), V)
<1>1. ASSUME NEW bytes PROVE Spelled(InserterRoom(w, bytes), s, V)
  BY InserterSaved DEF InserterRoom
<1>2. CASE v = Null
  <2> DEFINE room == InserterRoom(w, 0)
             bit == FALSE
             zero == 0
             new == MoreRow(room, bit, v, zero)
  <2>1. Spelled(room, s, V)  BY <1>1
  <2>2. ~IsLong(v)  BY <1>2, PageAssumption DEF PageAssumption, IsLong, IsString
  <2>5. bit \in BOOLEAN /\ zero \in Int /\ ~bit  OBVIOUS
  <2> HIDE DEF room, bit, zero
  <2>3. Spelled(new, Append(s, v), V)  BY <1>2, <2>1, <2>2, <2>5, AddedValue
  <2>4. InserterValue(w, v) = new  BY <1>2 DEF InserterValue, InserterNull, MoreRow, room, bit, zero
  <2> HIDE DEF new
  <2> QED BY <2>3, <2>4
<1>3. CASE v # Null /\ ~IsLong(v)
  <2> DEFINE room == InserterRoom(w, CountedBytes(v))
             new == MoreRow(room, TRUE, v, ValueBytes(v))
  <2>1. Spelled(room, s, V)  BY <1>1
  <2>2. ValueBytes(v) \in Int  BY ByteCounts
  <2> HIDE DEF room
  <2>3. Spelled(new, Append(s, v), V)  BY <1>3, <2>1, <2>2, AddedValue
  <2>4. InserterValue(w, v) = new  BY <1>3 DEF InserterValue, InserterShort, MoreRow, room
  <2> HIDE DEF new
  <2> QED BY <2>3, <2>4
<1>4. CASE v # Null /\ IsLong(v)
  <2> DEFINE saved == InserterFlush(w)
             new == [saved EXCEPT !.pages = @ \o LongPages(v)]
  <2>1. Spelled(saved, s, V) /\ saved.rows = 0  BY InserterSaved DEF InserterFlush
  <2>2. InserterValue(w, v) = new  BY <1>4 DEF InserterValue, InserterLong
  <2> HIDE DEF saved
  <2>3. Spelled(new, Append(s, v), V)  BY <1>4, <2>1, AddedLong
  <2> HIDE DEF new
  <2> QED BY <2>2, <2>3
<1> QED BY <1>2, <1>3, <1>4

(* Flushed, a writer's pages alone spell its values.                       *)
LEMMA Unbuffered ==
  ASSUME NEW V, ValueSet(V), NEW w, NEW s, Spelled(w, s, V), w.rows = 0
  PROVE  w.pages \in PageLists(V) /\ Adds(w.pages, <<>>, s, V)
<1>1. w \in WriterSet(V) /\ Adds(w.pages, BufferTexts(w), s, V)  BY DEF Spelled
<1>2. BufferTexts(w) = <<>>  BY DEF BufferTexts
<1> QED BY <1>1, <1>2 DEF WriterSet

LEMMA Flushes ==
  ASSUME NEW V, ValueSet(V), NEW w, NEW s, Spelled(w, s, V)
  PROVE  /\ Exact(w) => /\ Spelled(Finalize(w), s, V) /\ Exact(Finalize(w)) /\ Finalize(w).rows = 0
                        /\ Finalize(w).pages \in PageLists(V) /\ Adds(Finalize(w).pages, <<>>, s, V)
         /\ ~Overlap(w) => /\ Spelled(InserterFlush(w), s, V) /\ InserterFlush(w).rows = 0
                           /\ InserterFlush(w).pages \in PageLists(V)
                           /\ Adds(InserterFlush(w).pages, <<>>, s, V)
BY Saved, InserterSaved, Unbuffered DEF Finalize, InserterFlush

(* The test of an inserter is exact for all but wide values: values and     *)
(* bitmap of its buffer stay apart.                                        *)
Apart(w) == w.begin = 4 /\ w.rows \in Nat /\ w.bytes \in Nat /\ ~Overlap(w)

LEMMA SizeGrows ==
  /\ BitmapSize(0) = 0
  /\ \A n \in Nat : BitmapSize(n) \in Nat /\ BitmapBytes(n) \in Nat /\ BitmapSize(n + 1) = BitmapBytes(n)
  /\ BitmapBytes(0) = 1
<1> DEFINE b == BitsPerByte
<1>1. b \in Nat \ {0}  BY PageAssumption DEF PageAssumption
<1>2. BitmapSize(0) = 0
  <2>1. 0 <= 0 * b /\ 0 * b < 0 + b  BY <1>1
  <2> QED BY <1>1, <2>1, CeilUnique DEF BitmapSize
<1>3. ASSUME NEW n \in Nat
      PROVE  BitmapSize(n) \in Nat /\ BitmapBytes(n) \in Nat /\ BitmapSize(n + 1) = BitmapBytes(n)
  <2> DEFINE d == n \div b
  <2>1. d \in Nat /\ b * d <= n /\ n < b * (d + 1)  BY <1>1, DivBounds
  <2>2. BitmapBytes(n) = d + 1  BY DEF BitmapBytes
  <2> HIDE DEF d
  <2>3. n + 1 <= (d + 1) * b /\ (d + 1) * b < (n + 1) + b
    <3>1. (d + 1) * b = b * d + b /\ b * (d + 1) = b * d + b  BY <1>1, <2>1, SMTT(30)
    <3>2. b * d \in Nat  BY <1>1, <2>1
    <3> QED BY <1>1, <2>1, <3>1, <3>2
  <2>4. BitmapSize(n + 1) = d + 1
    <3>1. n + 1 \in Nat /\ d + 1 \in Nat  BY <2>1
    <3> QED BY <1>1, <2>3, <3>1, CeilUnique DEF BitmapSize
  <2>5. BitmapSize(n) \in Nat  BY <1>1, CeilBounds DEF BitmapSize
  <2> QED BY <2>1, <2>2, <2>4, <2>5
<1>4. BitmapBytes(0) = 1
  <2>1. 0 \div b = 0  BY <1>1, SMTT(30)
  <2> QED BY <2>1 DEF BitmapBytes
<1> QED BY <1>2, <1>3, <1>4

LEMMA ApartSaved == ASSUME NEW w, Apart(w) PROVE Apart(InserterSave(w)) /\ InserterSave(w).rows = 0 /\ InserterSave(w).bytes = 4
<1>1. /\ InserterSave(w).begin = 4 /\ InserterSave(w).bytes = 4 /\ InserterSave(w).rows = 0
  BY DEF InserterSave, EmptyBuffer, Apart
<1>2. PageSize \in Nat /\ PageSize > 16  BY PageAssumption DEF PageAssumption
<1> QED BY <1>1, <1>2, SizeGrows DEF Apart, Overlap

LEMMA ApartRoom ==
  ASSUME NEW w, Apart(w), NEW bytes \in Nat, bytes <= PageSize - 5
  PROVE  Apart(InserterRoom(w, bytes)) /\ Fits(InserterRoom(w, bytes), bytes)
<1>1. CASE Fits(w, bytes)  BY <1>1 DEF InserterRoom
<1>2. CASE ~Fits(w, bytes)
  <2> DEFINE saved == InserterSave(w)
  <2>1. Apart(saved) /\ saved.rows = 0 /\ saved.bytes = 4  BY ApartSaved
  <2> HIDE DEF saved
  <2>2. PageSize \in Nat  BY PageAssumption DEF PageAssumption
  <2>3. Fits(saved, bytes)  BY <2>1, <2>2, SizeGrows DEF Fits
  <2> QED BY <1>2, <2>1, <2>3 DEF InserterRoom, saved
<1> QED BY <1>1, <1>2

LEMMA ApartRow ==
  ASSUME NEW w, Apart(w), NEW bytes \in Nat, Fits(w, bytes), NEW bit, NEW values
  PROVE  Apart(AddRow(w, bit, values, bytes))
<1> DEFINE new == AddRow(w, bit, values, bytes)
<1>1. new.begin = w.begin /\ new.rows = w.rows + 1 /\ new.bytes = w.bytes + bytes  BY DEF AddRow
<1> HIDE DEF new
<1>2. BitmapSize(w.rows + 1) = BitmapBytes(w.rows) /\ BitmapBytes(w.rows) \in Nat  BY SizeGrows DEF Apart
<1>3. PageSize \in Nat  BY PageAssumption DEF PageAssumption
<1>4. Apart(new)  BY <1>1, <1>2, <1>3 DEF Apart, Overlap, Fits
<1> QED BY <1>4 DEF new

LEMMA ApartKept ==
  ASSUME NEW w, Apart(w), NEW v, v \notin WideValues
  PROVE  Apart(InserterValue(w, v)) /\ Apart(InserterFlush(w))
<1>1. Apart(InserterFlush(w))  BY ApartSaved DEF InserterFlush
<1>2. PageSize \in Nat /\ PageSize > 16  BY PageAssumption DEF PageAssumption
<1>3. CASE v = Null
  <2>1. 0 \in Nat /\ 0 <= PageSize - 5  BY <1>2
  <2>2. Apart(InserterNull(w))  BY <2>1, ApartRoom, ApartRow DEF InserterNull
  <2> QED BY <1>1, <1>3, <2>2 DEF InserterValue
<1>4. CASE v # Null /\ ~IsLong(v)
  <2> DEFINE b == ValueBytes(v)
  <2>1. b = CountedBytes(v)  BY DEF ValueBytes, CountedBytes, IsWide
  <2>2. b \in Nat /\ b <= PageSize - 5
    <3>1. CASE IsString(v)
      <4>1. Length[v] \in Nat  BY <3>1, PageAssumption DEF PageAssumption, IsString
      <4>2. ~(Length[v] > PageSize - 7)  BY <1>4, <3>1 DEF IsLong
      <4>3. b = 2 + Length[v]  BY <3>1 DEF ValueBytes
      <4> HIDE DEF b
      <4> QED BY <1>2, <4>1, <4>2, <4>3
    <3>2. CASE ~IsString(v)
      <4>1. b = 4  BY <3>2 DEF ValueBytes, IsWide
      <4> HIDE DEF b
      <4> QED BY <1>2, <4>1
    <3> QED BY <3>1, <3>2
  <2> HIDE DEF b
  <2> DEFINE room == InserterRoom(w, b)
  <2>3. Apart(room) /\ Fits(room, b)  BY <2>2, ApartRoom
  <2> HIDE DEF room
  <2>4. Apart(AddRow(room, TRUE, <<v>>, b))  BY <2>2, <2>3, ApartRow
  <2>5. InserterValue(w, v) = AddRow(room, TRUE, <<v>>, b)
    BY <1>4, <2>1 DEF InserterValue, InserterShort, b, room
  <2> QED BY <1>1, <2>4, <2>5
<1>5. CASE v # Null /\ IsLong(v)
  <2> DEFINE saved == InserterFlush(w)
             new == InserterLong(w, v)
  <2>1. new = [saved EXCEPT !.pages = @ \o LongPages(v)]  BY DEF InserterLong
  <2>2. saved = w \/ saved = InserterSave(w)  BY DEF InserterFlush
  <2>3. new.begin = saved.begin /\ new.rows = saved.rows /\ new.bytes = saved.bytes
    <3> HIDE DEF new, saved
    <3> QED BY <2>1
  <2>4. Apart(new)  BY <1>1, <2>3 DEF Apart, Overlap
  <2> QED BY <1>1, <1>5, <2>4 DEF InserterValue
<1> QED BY <1>3, <1>4, <1>5

LEMMA NewApart == Apart(NewWriter)
<1>1. NewWriter.begin = 4 /\ NewWriter.rows = 0 /\ NewWriter.bytes = 4  BY DEF NewWriter, EmptyBuffer
<1>2. PageSize \in Nat /\ PageSize > 16  BY PageAssumption DEF PageAssumption
<1> QED BY <1>1, <1>2, SizeGrows DEF Apart, Overlap

(* A new writer spells nothing.                                            *)
LEMMA NewSpells ==
  ASSUME NEW V, ValueSet(V), NEW begin \in Int
  PROVE  LET new == EmptyBuffer(begin, <<>>, <<>>)
         IN  Spelled(new, <<>>, V) /\ Exact(new)
<1> DEFINE new == EmptyBuffer(begin, <<>>, <<>>)
<1>1. new \in WriterSet(V)  BY DEF EmptyBuffer, WriterSet, PageLists
<1>2. new.rows = 0 /\ new.pages = <<>> /\ new.data = <<>> /\ new.bits = <<>>  BY DEF EmptyBuffer
<1> HIDE DEF new
<1>3. BitmapBits(0) = 0
  <2>1. 0 <= 0 * BitsPerByte /\ 0 * BitsPerByte < 0 + BitsPerByte
    BY PageAssumption DEF PageAssumption
  <2>2. BitmapBits(0) = 0 * BitsPerByte  BY <2>1, BitmapWhole
  <2> QED BY <2>2, PageAssumption DEF PageAssumption
<1>4. Len(<<>>) = 0 * BitsPerByte  BY PageAssumption DEF PageAssumption
<1>5. BufferOK(new) /\ Exact(new)
  <2>1. Count(<<>>, 0) = 0  BY CountStep
  <2>2. Len(<<>>) = 0  OBVIOUS
  <2> QED BY <1>2, <1>3, <1>4, <2>1, <2>2 DEF BufferOK, Exact
<1>6. BufferTexts(new) = <<>> /\ TextsOf(<<>>) = <<>>  BY <1>2 DEF BufferTexts, TextsOf
<1>7. ASSUME NEW qs \in PageLists(V) PROVE ReadPages(qs \o <<>>) \o <<>> = ReadPages(qs) \o <<>>
  BY DEF PageLists
<1>8. Adds(<<>>, <<>>, <<>>, V)  BY <1>6, <1>7 DEF Adds
<1> QED BY <1>1, <1>2, <1>5, <1>6, <1>8 DEF Spelled, new

(* A reader who finds the texts of values finds the values.                *)
LEMMA ValuesRead ==
  ASSUME NEW V, ValueSet(V), NEW s \in Seq(V), NEW pages, ReadPages(pages) = TextsOf(s)
  PROVE  ReadColumn(pages) = s
<1> DEFINE texts == ReadPages(pages)
           whole(text) == IF text = Broken THEN Broken
                          ELSE IF text[1] = Null \/ ~IsLong(text[1]) THEN text[1]
                          ELSE IF text[2] = Length[text[1]] THEN text[1] ELSE Broken
<1>1. ReadColumn(pages) = [n \in 1 .. Len(texts) |-> whole(texts[n])]  BY DEF ReadColumn
<1>2. Len(texts) = Len(s)
  BY DEF TextsOf
<1>3. ASSUME NEW n \in 1 .. Len(s) PROVE whole(texts[n]) = s[n]
  <2> DEFINE v == s[n]
             l == IF IsLong(v) THEN Length[v] ELSE 0
  <2>1. texts[n] = <<v, l>>  BY DEF TextsOf, TextOf
  <2>2. v \in V /\ l \in Int
    <3>1. l \in Int  BY PageAssumption DEF PageAssumption, IsLong, IsString
    <3> QED BY <3>1
  <2>3. IsLong(v) => l = Length[v]  OBVIOUS
  <2> HIDE DEF v, l
  <2>4. <<v, l>> # Broken  BY <2>2 DEF ValueSet
  <2>5. whole(<<v, l>>) = v  BY <2>3, <2>4
  <2> QED BY <2>1, <2>5 DEF v
<1> HIDE DEF whole, texts
<1>4. ReadColumn(pages) = [n \in 1 .. Len(s) |-> s[n]]  BY <1>1, <1>2, <1>3
<1> QED BY <1>4

(* What a reader finds in a flushed column.                                *)
LEMMA ColumnRead ==
  ASSUME NEW V, ValueSet(V), NEW s \in Seq(V), NEW pages \in PageLists(V), Adds(pages, <<>>, s, V)
  PROVE  ReadColumn(pages) = s
<1>1. <<>> \in PageLists(V)  BY DEF PageLists
<1> DEFINE r == ReadPages(pages)
           t == TextsOf(s)
<1>2. <<>> \o pages = pages  BY DEF PageLists
<1>3. ReadPages(<<>> \o pages) \o <<>> = ReadPages(<<>>) \o t  BY <1>1 DEF Adds
<1>4. r \o <<>> = <<>> \o t  BY <1>2, <1>3, ReadEmpty
<1>5. Null \in V  BY DEF ValueSet
<1>6. r \in Seq(Texts(V)) /\ t \in Seq(Texts(V))  BY <1>5, ReadType, TextType DEF TextLists
<1> HIDE DEF r, t
<1>7. r = t  BY <1>4, <1>6
<1> QED BY <1>7, ValuesRead DEF r, t

(* Pages of two columns in a row read as their values in a row.            *)
LEMMA TextsConcat ==
  ASSUME NEW V, Null \in V, NEW s \in Seq(V), NEW r \in Seq(V)
  PROVE  TextsOf(s \o r) = TextsOf(s) \o TextsOf(r)
<1> DEFINE b == s \o r
           m == Len(s)
           n == Len(r)
           x == TextsOf(s)
           y == TextsOf(r)
           z == TextsOf(b)
<1>1. /\ m \in Nat /\ n \in Nat /\ b \in Seq(V) /\ Len(b) = m + n
      /\ \A k \in 1 .. m + n : b[k] = IF k <= m THEN s[k] ELSE r[k - m]
  OBVIOUS
<1> HIDE DEF b
<1>2. /\ x \in Seq(Texts(V)) /\ Len(x) = m /\ y \in Seq(Texts(V)) /\ Len(y) = n
      /\ z \in Seq(Texts(V)) /\ Len(z) = m + n
  BY <1>1, TextType DEF TextLists
<1>3. /\ \A k \in 1 .. m : x[k] = TextOf(s[k])
      /\ \A k \in 1 .. n : y[k] = TextOf(r[k])
      /\ \A k \in 1 .. m + n : z[k] = TextOf(b[k])
  BY <1>1 DEF TextsOf
<1> HIDE DEF m, n, x, y, z
<1> DEFINE xy == x \o y
<1>4. /\ xy \in Seq(Texts(V)) /\ Len(xy) = m + n
      /\ \A k \in 1 .. m + n : xy[k] = IF k <= m THEN x[k] ELSE y[k - m]
  <2>1. x \in Seq(Texts(V)) /\ y \in Seq(Texts(V))  BY <1>2
  <2>2. /\ xy \in Seq(Texts(V)) /\ Len(xy) = Len(x) + Len(y)
        /\ \A k \in 1 .. Len(x) + Len(y) : xy[k] = IF k <= Len(x) THEN x[k] ELSE y[k - Len(x)]
    BY <2>1
  <2> HIDE DEF xy
  <2> QED BY <1>2, <2>2
<1> HIDE DEF xy
<1>5. ASSUME NEW k \in 1 .. m + n PROVE z[k] = xy[k]
  <2>1. CASE k <= m
    <3>1. k \in 1 .. m  BY <1>1, <2>1
    <3> QED BY <1>1, <1>3, <1>4, <2>1, <3>1
  <2>2. CASE ~(k <= m)
    <3>1. k - m \in 1 .. n  BY <1>1, <2>2
    <3> QED BY <1>1, <1>3, <1>4, <2>2, <3>1
  <2> QED BY <2>1, <2>2
<1>6. z = xy  BY <1>2, <1>4, <1>5, SeqEqual
<1> QED BY <1>6 DEF x, y, z, xy, b

LEMMA AddsConcat ==
  ASSUME NEW V, ValueSet(V), NEW p \in PageLists(V), NEW q \in PageLists(V),
         NEW s \in Seq(V), NEW r \in Seq(V), Adds(p, <<>>, s, V), Adds(q, <<>>, r, V)
  PROVE  p \o q \in PageLists(V) /\ Adds(p \o q, <<>>, s \o r, V)
<1>1. Null \in V  BY DEF ValueSet
<1>2. p \o q \in PageLists(V)  BY DEF PageLists
<1>3. ASSUME NEW qs \in PageLists(V)
      PROVE  ReadPages(qs \o (p \o q)) \o <<>> = ReadPages(qs) \o TextsOf(s \o r)
  <2> DEFINE both == qs \o p
             a == ReadPages(qs)
             b == ReadPages(both)
             c == ReadPages(both \o q)
             x == TextsOf(s)
             y == TextsOf(r)
  <2>1. both \in PageLists(V) /\ both \o q \in PageLists(V) /\ qs \o (p \o q) = both \o q  BY DEF PageLists
  <2>2. b \o <<>> = a \o x  BY DEF Adds
  <2> HIDE DEF both
  <2>3. c \o <<>> = b \o y  BY <2>1 DEF Adds
  <2>4. /\ a \in Seq(Texts(V)) /\ b \in Seq(Texts(V)) /\ c \in Seq(Texts(V))
        /\ x \in Seq(Texts(V)) /\ y \in Seq(Texts(V))
    BY <1>1, <2>1, ReadType, TextType DEF TextLists
  <2>5. TextsOf(s \o r) = x \o y  BY <1>1, TextsConcat
  <2> HIDE DEF a, b, c, x, y
  <2>6. b = a \o x  BY <2>2, <2>4
  <2>7. c \o <<>> = a \o (x \o y)
    <3>0. a \in Seq(Texts(V)) /\ x \in Seq(Texts(V)) /\ y \in Seq(Texts(V))  BY <2>4
    <3>1. a \o (x \o y) = (a \o x) \o y  BY <3>0
    <3> QED BY <2>3, <2>6, <3>1
  <2> QED BY <2>1, <2>5, <2>7 DEF a, c
<1> QED BY <1>2, <1>3 DEF Adds
=============================================================================
