-------------------------- MODULE ParserAndPoolProofs --------------------------
(***************************************************************************)
(* Theorems about the two parts that hand the tables to the executor.      *)
(*                                                                         *)
(* CSVParser, for every file: it does not matter where fread ends a chunk, *)
(* and records written as text are read back.                              *)
(*                                                                         *)
(* FilterThreadPool, for every number of threads and tasks: run never      *)
(* writes function and num_tasks while a worker may read them, and a call  *)
(* of it keeps the promise of ParallelFor.                                 *)
(***************************************************************************)
EXTENDS CSVParser, FilterThreadPool, Arithmetic, FiniteSetTheorems, SequenceTheorems

(* Parsers. *)
Errors == {"Ok", "InconsistentColumns", "QuoteNotClosed"}
Event == Nat \X Nat \X Seq(Characters)
ParserSet ==
  [field : Seq(Characters), col : Nat, row : Nat, numCols : Nat, afterFirstRow : BOOLEAN, quoted : BOOLEAN,
   afterRecordSep : BOOLEAN, escaping : BOOLEAN, newlining : BOOLEAN, i : Nat, error : Errors, fields : Seq(Event)]

(* Two parsers that differ at most in where they are in their chunks. *)
Same(p, q) ==
  /\ p.field = q.field /\ p.col = q.col /\ p.row = q.row /\ p.numCols = q.numCols
  /\ p.afterFirstRow = q.afterFirstRow /\ p.quoted = q.quoted /\ p.afterRecordSep = q.afterRecordSep
  /\ p.escaping = q.escaping /\ p.newlining = q.newlining /\ p.error = q.error /\ p.fields = q.fields

(* The same, q being n characters ahead. *)
Ahead(p, q, n) == Same(p, q) /\ q.i = p.i + n

-----------------------------------------------------------------------------
(* What the operations of the parser do to its type, its place, and another *)
(* parser ahead of it.                                                      *)
LEMMA PushParser ==
  ASSUME NEW p \in ParserSet, NEW c \in Characters
  PROVE  Push(p, c) \in ParserSet /\ Push(p, c).i = p.i /\ Push(p, c).error = p.error
  BY SMTT(30) DEF Push, ParserSet

LEMMA PushAhead ==
  ASSUME NEW p \in ParserSet, NEW q \in ParserSet, NEW n \in Int, Ahead(p, q, n), NEW c
  PROVE  Ahead(Push(p, c), Push(q, c), n)
  BY DEF Push, ParserSet, Ahead, Same

LEMMA OnFieldParser ==
  ASSUME NEW p \in ParserSet
  PROVE  OnField(p) \in ParserSet /\ OnField(p).i = p.i /\ OnField(p).error = p.error /\ OnField(p).col = p.col
<1>1. <<p.col, p.row, p.field>> \in Event
  BY DEF Event, ParserSet
<1> DEFINE all == Append(p.fields, <<p.col, p.row, p.field>>)
<1>2. all \in Seq(Event)
  BY <1>1 DEF ParserSet
<1>3. <<>> \in Seq(Characters)
  OBVIOUS
<1>4. OnField(p) = [p EXCEPT !.fields = all, !.field = <<>>]
  BY DEF OnField
<1> HIDE DEF all
<1> QED
  BY <1>2, <1>3, <1>4 DEF ParserSet

LEMMA OnFieldAhead ==
  ASSUME NEW p \in ParserSet, NEW q \in ParserSet, NEW n \in Int, Ahead(p, q, n)
  PROVE  Ahead(OnField(p), OnField(q), n)
  BY DEF OnField, ParserSet, Ahead, Same

LEMMA EndRecordParser ==
  ASSUME NEW p \in ParserSet
  PROVE  EndRecord(p) \in ParserSet /\ EndRecord(p).i = p.i
<1>1. CASE p.afterFirstRow /\ p.col + 1 # p.numCols
  BY <1>1 DEF EndRecord, ParserSet, Errors
<1>2. CASE ~(p.afterFirstRow /\ p.col + 1 # p.numCols)
  <2> DEFINE o == OnField(p)
  <2>1. o \in ParserSet /\ o.i = p.i
    BY OnFieldParser
  <2>2. EndRecord(p) = [o EXCEPT !.afterFirstRow = TRUE, !.numCols = p.col + 1, !.col = 0, !.row = @ + 1]
    BY <1>2 DEF EndRecord
  <2> DEFINE cols == p.col + 1
             rows == o.row + 1
  <2>3. cols \in Nat /\ rows \in Nat
    BY <2>1 DEF ParserSet
  <2>4. EndRecord(p) = [o EXCEPT !.afterFirstRow = TRUE, !.numCols = cols, !.col = 0, !.row = rows]
    BY <2>2
  <2> HIDE DEF o, cols, rows
  <2> DEFINE first == [o EXCEPT !.afterFirstRow = TRUE, !.numCols = cols]
  <2>5. first \in ParserSet /\ first.i = o.i
    BY <2>1, <2>3 DEF ParserSet
  <2>6. EndRecord(p) = [first EXCEPT !.col = 0, !.row = rows]
    BY <2>4, Zenon
  <2> HIDE DEF first
  <2>7. [first EXCEPT !.col = 0, !.row = rows] \in ParserSet
    BY <2>3, <2>5 DEF ParserSet
  <2>8. [first EXCEPT !.col = 0, !.row = rows].i = first.i
    BY <2>5 DEF ParserSet
  <2> QED
    BY <2>1, <2>5, <2>6, <2>7, <2>8
<1> QED
  BY <1>1, <1>2

LEMMA EndRecordAhead ==
  ASSUME NEW p \in ParserSet, NEW q \in ParserSet, NEW n \in Int, Ahead(p, q, n)
  PROVE  Ahead(EndRecord(p), EndRecord(q), n)
<1>1. Ahead(OnField(p), OnField(q), n) /\ OnField(p) \in ParserSet /\ OnField(q) \in ParserSet
  BY OnFieldAhead, OnFieldParser
<1>2. p.col = q.col /\ p.afterFirstRow = q.afterFirstRow /\ p.numCols = q.numCols
  BY DEF Ahead, Same
<1>3. CASE p.afterFirstRow /\ p.col + 1 # p.numCols
  BY <1>2, <1>3 DEF EndRecord, ParserSet, Ahead, Same
<1>4. CASE ~(p.afterFirstRow /\ p.col + 1 # p.numCols)
  BY <1>1, <1>2, <1>4 DEF EndRecord, ParserSet, Ahead, Same
<1> QED
  BY <1>3, <1>4

(* The escape character is one of two. *)
EscapeOK == escape \in {Quote, Backslash}

LEMMA EscapeParser ==
  ASSUME EscapeOK, NEW p \in ParserSet, NEW c \in Characters
  PROVE  EscapeThen(p, c) \in ParserSet /\ EscapeThen(p, c).i \in p.i .. p.i + 1 /\ EscapeThen(p, c).error = p.error
<1>1. Quote \in Characters /\ Backslash \in Characters /\ escape \in Characters
  BY DEF Characters, EscapeOK
<1>2. /\ Push(p, Quote) \in ParserSet /\ Push(p, Quote).i = p.i /\ Push(p, Quote).error = p.error
      /\ Push(p, c) \in ParserSet /\ Push(p, c).i = p.i /\ Push(p, c).error = p.error
      /\ Push(p, escape) \in ParserSet /\ Push(p, escape).i = p.i /\ Push(p, escape).error = p.error
  BY <1>1, PushParser
<1>3. ASSUME NEW a \in ParserSet, a.i = p.i, a.error = p.error
      PROVE  LET b == [a EXCEPT !.i = @ + 1] IN b \in ParserSet /\ b.i = p.i + 1 /\ b.error = p.error
  <2>1. a.i \in Nat /\ a.i + 1 \in Nat
    BY DEF ParserSet
  <2> DEFINE n == a.i + 1
  <2> HIDE DEF n
  <2>2. [a EXCEPT !.i = n] \in ParserSet /\ [a EXCEPT !.i = n].i = n /\ [a EXCEPT !.i = n].error = a.error
    BY <2>1 DEF ParserSet, n
  <2> QED
    BY <1>3, <2>2 DEF n
<1>4. LET b == [p EXCEPT !.quoted = FALSE] IN b \in ParserSet /\ b.i = p.i /\ b.error = p.error
  BY DEF ParserSet
<1>5. p.i \in Nat /\ p.i \in p.i .. p.i + 1 /\ p.i + 1 \in p.i .. p.i + 1
  BY DEF ParserSet
<1> QED
  BY <1>2, <1>3, <1>4, <1>5 DEF EscapeThen

LEMMA EscapeAhead ==
  ASSUME NEW p \in ParserSet, NEW q \in ParserSet, NEW n \in Int, Ahead(p, q, n), NEW c \in Characters, EscapeOK
  PROVE  Ahead(EscapeThen(p, c), EscapeThen(q, c), n)
<1>1. Quote \in Characters /\ Backslash \in Characters /\ escape \in Characters
  BY DEF Characters, EscapeOK
<1>2. /\ Ahead(Push(p, Quote), Push(q, Quote), n) /\ Push(p, Quote) \in ParserSet /\ Push(q, Quote) \in ParserSet
      /\ Ahead(Push(p, c), Push(q, c), n) /\ Push(p, c) \in ParserSet /\ Push(q, c) \in ParserSet
      /\ Ahead(Push(p, escape), Push(q, escape), n)
  BY <1>1, PushParser, PushAhead
<1>3. ASSUME NEW a \in ParserSet, NEW b \in ParserSet, Ahead(a, b, n)
      PROVE  Ahead([a EXCEPT !.i = @ + 1], [b EXCEPT !.i = @ + 1], n)
  BY <1>3 DEF Ahead, Same, ParserSet
<1>4. Ahead([p EXCEPT !.quoted = FALSE], [q EXCEPT !.quoted = FALSE], n)
  BY DEF Ahead, Same, ParserSet
<1> QED
  BY <1>2, <1>3, <1>4 DEF EscapeThen
-----------------------------------------------------------------------------
(* Both together: typed parsers, one ahead of the other.                    *)
Pair(p, q, n) == p \in ParserSet /\ q \in ParserSet /\ Ahead(p, q, n)

(* The marks that decide what the next character means.                     *)
Marks(p, quoted, afterRecordSep, escaping, newlining) ==
  /\ p.quoted = quoted /\ p.afterRecordSep = afterRecordSep
  /\ p.escaping = escaping /\ p.newlining = newlining
SameMarks(p, q) == Marks(p, q.quoted, q.afterRecordSep, q.escaping, q.newlining)

LEMMA SetI ==
  ASSUME NEW n \in Int, NEW p, NEW q, Pair(p, q, n)
  PROVE  LET a == [p EXCEPT !.i = @ + 1]  b == [q EXCEPT !.i = @ + 1]
         IN  Pair(a, b, n) /\ a.i = p.i + 1 /\ SameMarks(a, p) /\ a.error = p.error
<1>1. p.i + 1 \in Nat /\ q.i + 1 \in Nat /\ p.i \in Nat /\ q.i \in Nat
  BY SMTT(30) DEF ParserSet, Pair
<1> DEFINE x == p.i + 1
           y == q.i + 1
<1>2. y = x + n
  BY <1>1 DEF Pair, Ahead
<1> HIDE DEF x, y
<1>3. x \in Nat /\ y \in Nat
  BY <1>1 DEF x, y
<1>4. [p EXCEPT !.i = x] \in ParserSet /\ [q EXCEPT !.i = y] \in ParserSet
  BY <1>3 DEF Pair, ParserSet
<1>5. Ahead([p EXCEPT !.i = x], [q EXCEPT !.i = y], n)
  BY <1>2 DEF Pair, ParserSet, Ahead, Same
<1>6. [p EXCEPT !.i = x].i = x /\ SameMarks([p EXCEPT !.i = x], p) /\ [p EXCEPT !.i = x].error = p.error
  BY DEF Pair, ParserSet, SameMarks, Marks
<1> QED
  BY <1>4, <1>5, <1>6 DEF x, y, Pair

LEMMA SetCol ==
  ASSUME NEW n \in Int, NEW p, NEW q, Pair(p, q, n)
  PROVE  LET a == [p EXCEPT !.col = @ + 1]  b == [q EXCEPT !.col = @ + 1]
         IN  Pair(a, b, n) /\ a.i = p.i /\ SameMarks(a, p) /\ a.error = p.error
<1>1. p.col + 1 \in Nat /\ p.col = q.col
  BY DEF ParserSet, Pair, Ahead, Same
<1> DEFINE x == p.col + 1
<1>2. x \in Nat
  BY <1>1
<1> HIDE DEF x
<1>3. [p EXCEPT !.col = x] \in ParserSet /\ [q EXCEPT !.col = x] \in ParserSet
  BY <1>2 DEF Pair, ParserSet
<1>4. Ahead([p EXCEPT !.col = x], [q EXCEPT !.col = x], n)
  BY DEF Pair, ParserSet, Ahead, Same
<1>5. [p EXCEPT !.col = x].i = p.i /\ SameMarks([p EXCEPT !.col = x], p) /\ [p EXCEPT !.col = x].error = p.error
  BY DEF Pair, ParserSet, SameMarks, Marks
<1> QED
  BY <1>1, <1>3, <1>4, <1>5 DEF x, Pair

LEMMA SetQuoted ==
  ASSUME NEW n \in Int, NEW p, NEW q, Pair(p, q, n), NEW v \in BOOLEAN
  PROVE  LET a == [p EXCEPT !.quoted = v]  b == [q EXCEPT !.quoted = v]
         IN  Pair(a, b, n) /\ a.i = p.i /\ Marks(a, v, p.afterRecordSep, p.escaping, p.newlining) /\ a.error = p.error
  BY DEF Pair, ParserSet, Ahead, Same, Marks

LEMMA SetAfter ==
  ASSUME NEW n \in Int, NEW p, NEW q, Pair(p, q, n), NEW v \in BOOLEAN
  PROVE  LET a == [p EXCEPT !.afterRecordSep = v]  b == [q EXCEPT !.afterRecordSep = v]
         IN  Pair(a, b, n) /\ a.i = p.i /\ Marks(a, p.quoted, v, p.escaping, p.newlining) /\ a.error = p.error
  BY DEF Pair, ParserSet, Ahead, Same, Marks

LEMMA PushPair ==
  ASSUME NEW n \in Int, NEW p, NEW q, Pair(p, q, n), NEW c \in Characters
  PROVE  /\ Pair(Push(p, c), Push(q, c), n)
         /\ Push(p, c).i = p.i /\ SameMarks(Push(p, c), p) /\ Push(p, c).error = p.error
<1>1. SameMarks(Push(p, c), p)
  BY DEF Push, Pair, ParserSet, SameMarks, Marks
<1> QED
  BY <1>1, PushParser, PushAhead DEF Pair

LEMMA OnFieldPair ==
  ASSUME NEW n \in Int, NEW p, NEW q, Pair(p, q, n)
  PROVE  /\ Pair(OnField(p), OnField(q), n)
         /\ OnField(p).i = p.i /\ SameMarks(OnField(p), p) /\ OnField(p).error = p.error
<1>1. SameMarks(OnField(p), p)
  BY DEF OnField, Pair, ParserSet, SameMarks, Marks
<1> QED
  BY <1>1, OnFieldParser, OnFieldAhead DEF Pair

LEMMA EndRecordPair ==
  ASSUME NEW n \in Int, NEW p, NEW q, Pair(p, q, n)
  PROVE  /\ Pair(EndRecord(p), EndRecord(q), n)
         /\ EndRecord(p).i = p.i /\ SameMarks(EndRecord(p), p)
<1>1. OnField(p) \in ParserSet /\ SameMarks(OnField(p), p)
  BY OnFieldPair DEF Pair
<1>2. SameMarks(EndRecord(p), p)
  BY <1>1 DEF EndRecord, Pair, ParserSet, SameMarks, Marks
<1> QED
  BY <1>2, EndRecordParser, EndRecordAhead DEF Pair

LEMMA EscapePair ==
  ASSUME EscapeOK, NEW n \in Int, NEW p, NEW q, Pair(p, q, n), NEW c \in Characters
  PROVE  LET a == EscapeThen(p, c)
         IN  /\ Pair(a, EscapeThen(q, c), n)
             /\ a.i \in p.i .. p.i + 1 /\ Marks(a, a.quoted, p.afterRecordSep, p.escaping, p.newlining)
             /\ a.error = p.error
<1>1. Quote \in Characters /\ Backslash \in Characters /\ escape \in Characters
  BY DEF Characters, EscapeOK
<1>2. /\ Push(p, Quote) \in ParserSet /\ SameMarks(Push(p, Quote), p)
      /\ Push(p, c) \in ParserSet /\ SameMarks(Push(p, c), p)
      /\ SameMarks(Push(p, escape), p)
  BY <1>1, PushPair DEF Pair
<1>3. LET a == EscapeThen(p, c) IN Marks(a, a.quoted, p.afterRecordSep, p.escaping, p.newlining)
  BY <1>2 DEF EscapeThen, Pair, ParserSet, SameMarks, Marks
<1> QED
  BY <1>3, EscapeParser, EscapeAhead DEF Pair
-----------------------------------------------------------------------------
(* The rounds of the loop, by the character and what it means.              *)
Read(p) == [p EXCEPT !.i = @ + 1, !.afterRecordSep = FALSE]
NeedsNext(p, c) == (c = CR /\ ~p.quoted) \/ (c = escape /\ p.quoted)

LEMMA ReadPair ==
  ASSUME NEW n \in Int, NEW p, NEW q, Pair(p, q, n)
  PROVE  /\ Pair(Read(p), Read(q), n)
         /\ Read(p).i = p.i + 1 /\ Marks(Read(p), p.quoted, FALSE, p.escaping, p.newlining) /\ Read(p).error = p.error
<1> DEFINE a == [p EXCEPT !.i = @ + 1]
           b == [q EXCEPT !.i = @ + 1]
<1>1. Pair(a, b, n) /\ a.i = p.i + 1 /\ SameMarks(a, p) /\ a.error = p.error
  BY SetI
<1>2. Read(p) = [a EXCEPT !.afterRecordSep = FALSE] /\ Read(q) = [b EXCEPT !.afterRecordSep = FALSE]
  BY DEF Read
<1> HIDE DEF a, b
<1>3. LET x == [a EXCEPT !.afterRecordSep = FALSE]  y == [b EXCEPT !.afterRecordSep = FALSE]
      IN  Pair(x, y, n) /\ x.i = a.i /\ Marks(x, a.quoted, FALSE, a.escaping, a.newlining) /\ x.error = a.error
  BY <1>1, SetAfter
<1> QED
  BY <1>1, <1>2, <1>3 DEF SameMarks, Marks

(* The character after this one is passed with it.                          *)
Passes(p, c, next) == c = CR /\ next = LF

Forms(p, chunk, c) ==
  LET o == Read(p)
      last == p.i = Len(chunk)
      next == chunk[p.i + 1]
  IN  /\ c = Comma /\ p.quoted => CharAt(p, chunk) = Push(o, c)
      /\ c = Comma /\ ~p.quoted => CharAt(p, chunk) = [OnField(o) EXCEPT !.col = @ + 1]
      /\ c \in {LF, CR} /\ p.quoted => CharAt(p, chunk) = Push(o, c)
      /\ c = CR /\ ~p.quoted /\ last => CharAt(p, chunk) = [p EXCEPT !.i = @ + 1, !.newlining = TRUE]
      /\ c = CR /\ ~p.quoted /\ ~last /\ next = LF =>
           CharAt(p, chunk) = [EndRecord([o EXCEPT !.i = @ + 1]) EXCEPT !.afterRecordSep = TRUE]
      /\ c = CR /\ ~p.quoted /\ ~last /\ next # LF =>
           CharAt(p, chunk) = [EndRecord(o) EXCEPT !.afterRecordSep = TRUE]
      /\ c = LF /\ ~p.quoted => CharAt(p, chunk) = [EndRecord(o) EXCEPT !.afterRecordSep = TRUE]
      /\ c = Quote /\ ~p.quoted => CharAt(p, chunk) = [o EXCEPT !.quoted = TRUE]
      /\ c = Quote /\ escape # Quote /\ p.quoted => CharAt(p, chunk) = [o EXCEPT !.quoted = FALSE]
      /\ c = escape /\ p.quoted /\ last => CharAt(p, chunk) = [p EXCEPT !.i = @ + 1, !.escaping = TRUE]
      /\ c = escape /\ p.quoted /\ ~last => CharAt(p, chunk) = EscapeThen(o, next)
      /\ c \notin {Comma, LF, CR, Quote} /\ ~(c = escape /\ p.quoted) => CharAt(p, chunk) = Push(o, c)

LEMMA CharForms ==
  ASSUME ParserAssumption, EscapeOK, NEW p \in ParserSet, NEW chunk, NEW c \in Characters, c = chunk[p.i]
  PROVE  Forms(p, chunk, c)
<1>1. /\ Comma \notin {LF, CR, Quote, Backslash} /\ LF \notin {CR, Quote, Backslash}
      /\ CR \notin {Quote, Backslash} /\ Quote # Backslash /\ escape \in {Quote, Backslash}
  BY DEF ParserAssumption, EscapeOK
<1>2. Read(p).quoted = p.quoted
  BY DEF Read, ParserSet
<1>3. CASE c = Comma
  BY <1>1, <1>3 DEF Forms, CharAt, Read
<1>4. CASE c \in {LF, CR}
  BY <1>1, <1>4 DEF Forms, CharAt, Read
<1>5. CASE c = Quote /\ (escape # Quote \/ ~p.quoted)
  <2>1. CharAt(p, chunk) = [Read(p) EXCEPT !.quoted = ~@]
    BY <1>1, <1>5 DEF CharAt, Read
  <2>2. ~p.quoted => [Read(p) EXCEPT !.quoted = ~@] = [Read(p) EXCEPT !.quoted = TRUE]
    BY <1>2
  <2>3. p.quoted => [Read(p) EXCEPT !.quoted = ~@] = [Read(p) EXCEPT !.quoted = FALSE]
    BY <1>2
  <2> QED
    BY <1>1, <1>5, <2>1, <2>2, <2>3 DEF Forms
<1>6. CASE c = escape /\ p.quoted
  BY <1>1, <1>6 DEF Forms, CharAt, Read
<1>7. CASE c \notin {Comma, LF, CR, Quote} /\ ~(c = escape /\ p.quoted)
  BY <1>1, <1>7 DEF Forms, CharAt, Read
<1> QED
  BY <1>1, <1>3, <1>4, <1>5, <1>6, <1>7

(* A parser between two rounds: nothing to resume, and the last character   *)
(* read inside quotes ended no record.                                      *)
Plain(p) == ~p.escaping /\ ~p.newlining /\ (p.quoted => ~p.afterRecordSep)

(* A round with what it needs: two parsers do the same.                     *)
RoundDone(p, a, b, n) ==
  /\ Pair(a, b, n)
  /\ a.i \in p.i + 1 .. p.i + 2
  /\ Plain(p) => Plain(a)

(* Both texts go on with c, and with the next character if that is needed.  *)
Readable(p, q, c, one, two) ==
  /\ one[p.i] = c /\ two[q.i] = c
  /\ NeedsNext(p, c) => /\ p.i # Len(one) /\ q.i # Len(two)
                         /\ one[p.i + 1] = two[q.i + 1] /\ one[p.i + 1] \in Characters

LEMMA CharAtPair ==
  ASSUME ParserAssumption, EscapeOK, NEW n \in Int, NEW p, NEW q, Pair(p, q, n),
         NEW c \in Characters, NEW one, NEW two, Readable(p, q, c, one, two)
  PROVE  /\ RoundDone(p, CharAt(p, one), CharAt(q, two), n)
         /\ ~NeedsNext(p, c) => CharAt(p, one).i = p.i + 1
<1> DEFINE o == Read(p)
           r == Read(q)
<1>1. p \in ParserSet /\ q \in ParserSet /\ p.quoted \in BOOLEAN /\ p.quoted = q.quoted /\ p.i \in Nat
  BY DEF Pair, Ahead, Same, ParserSet
<1>2. /\ one[p.i] = c /\ two[q.i] = c
      /\ NeedsNext(p, c) => /\ p.i # Len(one) /\ q.i # Len(two)
                             /\ one[p.i + 1] = two[q.i + 1] /\ one[p.i + 1] \in Characters
  BY DEF Readable
<1>3. Pair(o, r, n) /\ o.i = p.i + 1 /\ Marks(o, p.quoted, FALSE, p.escaping, p.newlining)
  BY ReadPair
<1>4. /\ Comma \notin {LF, CR, Quote, Backslash} /\ LF \notin {CR, Quote, Backslash}
      /\ CR \notin {Quote, Backslash} /\ Quote # Backslash /\ escape \in {Quote, Backslash}
  BY DEF ParserAssumption, EscapeOK
<1>5. Forms(p, one, c) /\ Forms(q, two, c)
  BY <1>1, <1>2, CharForms
<1>6. ASSUME NEW a, NEW b, Pair(a, b, n), a.i \in p.i + 1 .. p.i + 2,
             Marks(a, a.quoted, FALSE, p.escaping, p.newlining)
      PROVE  RoundDone(p, a, b, n)
  BY <1>6 DEF RoundDone, Plain, Marks
<1> DEFINE pushed == Push(o, c)
<1>7. RoundDone(p, Push(o, c), Push(r, c), n) /\ Push(o, c).i = p.i + 1
  <2>1. Pair(Push(o, c), Push(r, c), n) /\ Push(o, c).i = o.i /\ SameMarks(Push(o, c), o)
    BY <1>3, PushPair
  <2> DEFINE x == Push(o, c)
             y == Push(r, c)
  <2> HIDE DEF o, r, x, y
  <2>2. x.i = p.i + 1 /\ Marks(x, x.quoted, FALSE, p.escaping, p.newlining)
    BY <1>3, <2>1 DEF SameMarks, Marks, x
  <2>3. x.i \in p.i + 1 .. p.i + 2 /\ Pair(x, y, n)
    BY <1>1, <2>1, <2>2 DEF x, y
  <2>4. RoundDone(p, x, y, n)
    BY <1>6, <2>2, <2>3
  <2> QED
    BY <2>2, <2>4 DEF x, y
<1>8. CASE c = Comma /\ ~p.quoted
  <2> DEFINE f == OnField(o)
             g == OnField(r)
  <2>1. Pair(f, g, n) /\ f.i = o.i /\ SameMarks(f, o)
    BY <1>3, OnFieldPair
  <2>2. LET x == [f EXCEPT !.col = @ + 1]  y == [g EXCEPT !.col = @ + 1]
        IN  Pair(x, y, n) /\ x.i = f.i /\ SameMarks(x, f)
    BY <2>1, SetCol
  <2>3. CharAt(p, one) = [f EXCEPT !.col = @ + 1] /\ CharAt(q, two) = [g EXCEPT !.col = @ + 1]
    BY <1>1, <1>8, <1>5 DEF Forms
  <2> DEFINE x == [f EXCEPT !.col = @ + 1]
             y == [g EXCEPT !.col = @ + 1]
  <2>4. Pair(x, y, n) /\ x.i = f.i /\ SameMarks(x, f)
    BY <2>2
  <2> HIDE DEF f, g, o, r, x, y
  <2>5. x.i = p.i + 1 /\ Marks(x, x.quoted, FALSE, p.escaping, p.newlining)
    BY <1>3, <2>1, <2>4 DEF SameMarks, Marks
  <2>6. x.i \in p.i + 1 .. p.i + 2
    BY <1>1, <2>5
  <2>7. RoundDone(p, x, y, n)
    BY <1>6, <2>4, <2>5, <2>6
  <2> QED
    BY <2>3, <2>5, <2>7 DEF x, y
<1>9. ASSUME NEW x, NEW y, Pair(x, y, n), x.i \in p.i + 1 .. p.i + 2, SameMarks(x, o), ~p.quoted
      PROVE  LET u == [EndRecord(x) EXCEPT !.afterRecordSep = TRUE]
                 v == [EndRecord(y) EXCEPT !.afterRecordSep = TRUE]
             IN  RoundDone(p, u, v, n) /\ u.i = x.i
  <2> DEFINE e == EndRecord(x)
             f == EndRecord(y)
  <2>1. Pair(e, f, n) /\ e.i = x.i /\ SameMarks(e, x)
    BY <1>9, EndRecordPair
  <2>2. LET u == [e EXCEPT !.afterRecordSep = TRUE]  v == [f EXCEPT !.afterRecordSep = TRUE]
        IN  Pair(u, v, n) /\ u.i = e.i /\ Marks(u, e.quoted, TRUE, e.escaping, e.newlining)
    BY <2>1, SetAfter
  <2> HIDE DEF e, f, o
  <2> DEFINE u == [e EXCEPT !.afterRecordSep = TRUE]
             v == [f EXCEPT !.afterRecordSep = TRUE]
  <2>3. Pair(u, v, n) /\ u.i = e.i /\ Marks(u, e.quoted, TRUE, e.escaping, e.newlining)
    BY <2>2
  <2> HIDE DEF u, v
  <2>4. RoundDone(p, u, v, n) /\ u.i = x.i
    BY <1>3, <1>9, <2>1, <2>3 DEF SameMarks, Marks, RoundDone, Plain
  <2> QED
    BY <2>4 DEF u, v, e, f
<1>10. o.i \in p.i + 1 .. p.i + 2 /\ SameMarks(o, o)
  BY <1>1, <1>3 DEF SameMarks, Marks
<1>11. LET u == [EndRecord(o) EXCEPT !.afterRecordSep = TRUE]
          v == [EndRecord(r) EXCEPT !.afterRecordSep = TRUE]
      IN  ~p.quoted => RoundDone(p, u, v, n) /\ u.i = o.i
  BY <1>3, <1>9, <1>10
<1>12. CASE c = LF /\ ~p.quoted
  BY <1>1, <1>3, <1>11, <1>12, <1>5 DEF Forms
<1>13. CASE c = CR /\ ~p.quoted
  <2>1. NeedsNext(p, c) /\ p.i # Len(one) /\ q.i # Len(two) /\ one[p.i + 1] = two[q.i + 1]
    BY <1>13, <1>2 DEF NeedsNext
  <2>2. CASE one[p.i + 1] # LF
    BY <1>1, <1>11, <1>13, <2>1, <2>2, <1>5 DEF Forms
  <2>3. CASE one[p.i + 1] = LF
    <3> DEFINE x == [o EXCEPT !.i = @ + 1]
               y == [r EXCEPT !.i = @ + 1]
    <3>1. Pair(x, y, n) /\ x.i = o.i + 1 /\ SameMarks(x, o)
      BY <1>3, SetI
    <3>2. /\ CharAt(p, one) = [EndRecord(x) EXCEPT !.afterRecordSep = TRUE]
          /\ CharAt(q, two) = [EndRecord(y) EXCEPT !.afterRecordSep = TRUE]
      BY <1>1, <1>13, <2>1, <2>3, <1>5 DEF Forms
    <3> HIDE DEF x, y
    <3>3. x.i \in p.i + 1 .. p.i + 2
      BY <1>1, <1>3, <3>1
    <3> QED
      BY <1>9, <1>13, <2>1, <3>1, <3>2, <3>3
  <2> QED
    BY <2>2, <2>3
<1>14. ASSUME NEW v \in BOOLEAN,
              CharAt(p, one) = [o EXCEPT !.quoted = v], CharAt(q, two) = [r EXCEPT !.quoted = v]
       PROVE  RoundDone(p, CharAt(p, one), CharAt(q, two), n) /\ CharAt(p, one).i = p.i + 1
  <2>1. LET x == [o EXCEPT !.quoted = v]  y == [r EXCEPT !.quoted = v]
        IN  Pair(x, y, n) /\ x.i = o.i /\ Marks(x, v, o.afterRecordSep, o.escaping, o.newlining)
    BY <1>3, SetQuoted
  <2> HIDE DEF o, r
  <2> QED
    BY <1>1, <1>3, <1>6, <1>10, <1>14, <2>1 DEF Marks
<1>15. CASE c = Quote /\ ~p.quoted
  BY <1>1, <1>14, <1>15, <1>5 DEF Forms
<1>16. CASE c = Quote /\ escape # Quote /\ p.quoted
  BY <1>1, <1>14, <1>16, <1>5 DEF Forms
<1>17. CASE c = escape /\ p.quoted
  <2> DEFINE next == one[p.i + 1]
  <2>1. NeedsNext(p, c) /\ p.i # Len(one) /\ q.i # Len(two) /\ next = two[q.i + 1] /\ next \in Characters
    BY <1>17, <1>2 DEF NeedsNext
  <2>2. CharAt(p, one) = EscapeThen(o, next) /\ CharAt(q, two) = EscapeThen(r, next)
    BY <1>1, <1>17, <2>1, <1>5 DEF Forms
  <2> HIDE DEF next
  <2>3. LET a == EscapeThen(o, next)
        IN  /\ Pair(a, EscapeThen(r, next), n)
            /\ a.i \in o.i .. o.i + 1 /\ Marks(a, a.quoted, o.afterRecordSep, o.escaping, o.newlining)
    BY <1>3, <2>1, EscapePair
  <2> DEFINE a == EscapeThen(o, next)
             b == EscapeThen(r, next)
  <2>4. Pair(a, b, n) /\ a.i \in o.i .. o.i + 1 /\ Marks(a, a.quoted, o.afterRecordSep, o.escaping, o.newlining)
    BY <2>3
  <2> HIDE DEF o, r, a, b
  <2>5. Marks(a, a.quoted, FALSE, p.escaping, p.newlining)
    BY <1>3, <2>4 DEF Marks
  <2>6. a.i \in p.i + 1 .. p.i + 2
    BY <1>1, <1>3, <2>4
  <2>7. RoundDone(p, a, b, n)
    BY <1>6, <2>4, <2>5, <2>6
  <2> QED
    BY <2>1, <2>2, <2>7 DEF a, b
<1>18. CASE CharAt(p, one) = Push(o, c) /\ CharAt(q, two) = Push(r, c)
  BY <1>7, <1>18
<1>19. CASE \/ c \in {Comma, LF, CR} /\ p.quoted
            \/ c \notin {Comma, LF, CR, Quote} /\ ~(c = escape /\ p.quoted)
  <2>1. CharAt(p, one) = Push(o, c) /\ CharAt(q, two) = Push(r, c)
    BY <1>1, <1>19, <1>5 DEF Forms
  <2> QED
    BY <1>18, <2>1
<1> QED
  BY <1>1, <1>4, <1>8, <1>12, <1>13, <1>17, <1>19, <1>15, <1>16

(* A parser that a chunk leaves waiting for the character after c.          *)
Waiting(q) == IF q.quoted THEN [q EXCEPT !.escaping = TRUE] ELSE [q EXCEPT !.newlining = TRUE]

LEMMA WaitingParser ==
  ASSUME NEW q \in ParserSet
  PROVE  Waiting(q) \in ParserSet
  BY DEF Waiting, ParserSet

LEMMA CharAtLast ==
  ASSUME ParserAssumption, EscapeOK, NEW p \in ParserSet, NEW c \in Characters, NEW chunk,
         c = chunk[p.i], p.i = Len(chunk), NeedsNext(p, c)
  PROVE  LET a == CharAt(p, chunk)
         IN  a \in ParserSet /\ a.i = p.i + 1 /\ Same(a, Waiting(p))
<1>1. Forms(p, chunk, c)
  BY CharForms
<1>2. CharAt(p, chunk) = [Waiting(p) EXCEPT !.i = @ + 1]
  <2>1. CASE p.quoted
    <3>1. c = escape
      BY <2>1 DEF NeedsNext
    <3>2. CharAt(p, chunk) = [p EXCEPT !.i = @ + 1, !.escaping = TRUE]
      BY <1>1, <2>1, <3>1 DEF Forms
    <3> QED
      BY <2>1, <3>2 DEF Waiting, ParserSet
  <2>2. CASE ~p.quoted
    <3>1. c = CR
      BY <2>2 DEF NeedsNext
    <3>2. CharAt(p, chunk) = [p EXCEPT !.i = @ + 1, !.newlining = TRUE]
      BY <1>1, <2>2, <3>1 DEF Forms
    <3> QED
      BY <2>2, <3>2 DEF Waiting, ParserSet
  <2> QED
    BY <2>1, <2>2
<1> DEFINE w == Waiting(p)
<1>3. w \in ParserSet /\ w.i = p.i
  BY WaitingParser DEF Waiting, ParserSet
<1> HIDE DEF w
<1>4. Pair(w, w, 0)
  <2>1. w.i \in Nat
    BY <1>3 DEF ParserSet
  <2> QED
    BY <1>3, <2>1 DEF Pair, Ahead, Same
<1>5. LET a == [w EXCEPT !.i = @ + 1] IN a \in ParserSet /\ a.i = w.i + 1
  <2>1. LET a == [w EXCEPT !.i = @ + 1]  b == [w EXCEPT !.i = @ + 1]
        IN  Pair(a, b, 0) /\ a.i = w.i + 1 /\ SameMarks(a, w) /\ a.error = w.error
    BY <1>4, SetI
  <2> QED
    BY <2>1 DEF Pair
<1>6. Same([w EXCEPT !.i = @ + 1], w)
  BY <1>3 DEF Same, ParserSet
<1> QED
  BY <1>2, <1>3, <1>5, <1>6 DEF w

(* A round in a sequence of characters makes a parser.                      *)
LEMMA CharAtParser ==
  ASSUME ParserAssumption, EscapeOK, NEW chunk \in Seq(Characters), NEW p \in ParserSet, p.i \in 1 .. Len(chunk)
  PROVE  CharAt(p, chunk) \in ParserSet
<1> DEFINE c == chunk[p.i]
<1>1. c \in Characters /\ Len(chunk) \in Nat /\ p.i \in Nat
  BY DEF ParserSet
<1>2. p.i # Len(chunk) => chunk[p.i + 1] \in Characters
  <2> SUFFICES ASSUME p.i # Len(chunk) PROVE chunk[p.i + 1] \in Characters
    OBVIOUS
  <2>1. p.i + 1 \in 1 .. Len(chunk)
    BY <1>1
  <2> QED
    BY <2>1
<1>3. Pair(p, p, 0)
  BY <1>1 DEF Pair, Ahead, Same
<1>4. CASE NeedsNext(p, c) /\ p.i = Len(chunk)
  BY <1>1, <1>4, CharAtLast
<1>5. CASE ~(NeedsNext(p, c) /\ p.i = Len(chunk))
  <2>1. RoundDone(p, CharAt(p, chunk), CharAt(p, chunk), 0)
    <3>1. Readable(p, p, c, chunk, chunk)
      BY <1>2, <1>5 DEF Readable
    <3>2. 0 \in Int
      OBVIOUS
    <3> QED
      BY <1>1, <1>3, <3>1, <3>2, CharAtPair
  <2> QED
    BY <2>1 DEF RoundDone, Pair
<1> QED
  BY <1>4, <1>5
-----------------------------------------------------------------------------
(* The start of a chunk.                                                    *)
LEMMA ParsersEqual ==
  ASSUME NEW p \in ParserSet, NEW q \in ParserSet, Same(p, q), p.i = q.i
  PROVE  p = q
  BY DEF ParserSet, Same

LEMMA RestartSame ==
  ASSUME NEW p \in ParserSet, NEW q \in ParserSet, Same(p, q)
  PROVE  [p EXCEPT !.i = 1] = [q EXCEPT !.i = 1] /\ [p EXCEPT !.i = 1] \in ParserSet
<1>1. [p EXCEPT !.i = 1] \in ParserSet /\ [q EXCEPT !.i = 1] \in ParserSet
  BY DEF ParserSet
<1>2. Same([p EXCEPT !.i = 1], [q EXCEPT !.i = 1]) /\ [p EXCEPT !.i = 1].i = [q EXCEPT !.i = 1].i
  BY DEF ParserSet, Same
<1> QED
  BY <1>1, <1>2, ParsersEqual

(* What execute does depends on all of the parser but its place.           *)
LEMMA ExecuteSame ==
  ASSUME NEW p \in ParserSet, NEW q \in ParserSet, Same(p, q), NEW chunk
  PROVE  Execute(p, chunk) = Execute(q, chunk)
<1>1. Resume(p, chunk) = Resume(q, chunk)
  BY RestartSame DEF Resume
<1> QED
  BY <1>1 DEF Execute

LEMMA ResumePlain ==
  ASSUME NEW p \in ParserSet, Plain(p), NEW chunk
  PROVE  Resume(p, chunk) = [p EXCEPT !.i = 1]
  BY DEF Resume, ResumeEscape, ResumeNewline, Plain, ParserSet

(* The marks that a resumed parser clears make no difference to what it     *)
(* does.                                                                    *)
LEMMA EscapeClears ==
  ASSUME EscapeOK, NEW x \in ParserSet, NEW c \in Characters
  PROVE  [EscapeThen(x, c) EXCEPT !.escaping = FALSE] = EscapeThen([x EXCEPT !.escaping = FALSE], c)
<1> DEFINE z == [x EXCEPT !.escaping = FALSE]
<1>1. Quote \in Characters /\ Backslash \in Characters /\ escape \in Characters
  BY DEF Characters, EscapeOK
<1>2. ASSUME NEW d \in Characters
      PROVE  /\ [Push(x, d) EXCEPT !.escaping = FALSE] = Push(z, d)
             /\ [[Push(x, d) EXCEPT !.i = @ + 1] EXCEPT !.escaping = FALSE] = [Push(z, d) EXCEPT !.i = @ + 1]
  BY <1>2 DEF Push, ParserSet
<1>3. [[x EXCEPT !.quoted = FALSE] EXCEPT !.escaping = FALSE] = [z EXCEPT !.quoted = FALSE]
  BY DEF ParserSet
<1> HIDE DEF z
<1>4. [EscapeThen(x, c) EXCEPT !.escaping = FALSE] = EscapeThen(z, c)
  BY <1>1, <1>2, <1>3 DEF EscapeThen
<1> QED
  BY <1>4 DEF z

LEMMA EndRecordClears ==
  ASSUME NEW x \in ParserSet
  PROVE  [EndRecord(x) EXCEPT !.newlining = FALSE, !.afterRecordSep = TRUE]
           = [EndRecord([x EXCEPT !.newlining = FALSE, !.afterRecordSep = FALSE]) EXCEPT !.afterRecordSep = TRUE]
<1> DEFINE z == [x EXCEPT !.newlining = FALSE, !.afterRecordSep = FALSE]
<1>1. /\ z.afterFirstRow = x.afterFirstRow /\ z.col = x.col /\ z.numCols = x.numCols /\ z.row = x.row
      /\ z.field = x.field /\ z.fields = x.fields
  BY DEF ParserSet
<1>2. CASE x.afterFirstRow /\ x.col + 1 # x.numCols
  BY <1>1, <1>2 DEF EndRecord, ParserSet
<1>3. CASE ~(x.afterFirstRow /\ x.col + 1 # x.numCols)
  <2> DEFINE o == OnField(x)
             r == OnField(z)
             cols == x.col + 1
             rows == o.row + 1
  <2>1. o \in ParserSet
    BY OnFieldParser
  <2>2. r = [o EXCEPT !.newlining = FALSE, !.afterRecordSep = FALSE]
    BY <1>1 DEF OnField, ParserSet
  <2>3. EndRecord(x) = [o EXCEPT !.afterFirstRow = TRUE, !.numCols = cols, !.col = 0, !.row = rows]
    BY <1>3 DEF EndRecord
  <2>4. r.row = o.row
    BY <2>1, <2>2 DEF ParserSet
  <2>5. EndRecord(z) = [r EXCEPT !.afterFirstRow = TRUE, !.numCols = cols, !.col = 0, !.row = rows]
    BY <1>1, <1>3, <2>4 DEF EndRecord
  <2> HIDE DEF o, r, cols, rows, z
  <2>6. [EndRecord(x) EXCEPT !.newlining = FALSE, !.afterRecordSep = TRUE]
          = [EndRecord(z) EXCEPT !.afterRecordSep = TRUE]
    BY <2>1, <2>2, <2>3, <2>5 DEF ParserSet
  <2> QED
    BY <2>6 DEF z
<1> QED
  BY <1>2, <1>3

(* A parser resumed with the character after c does what it would have done *)
(* had c not been the last character of a chunk.                           *)
LEMMA ResumeWaiting ==
  ASSUME ParserAssumption, EscapeOK, NEW p \in ParserSet, NEW q \in ParserSet, Plain(q), Same(p, Waiting(q)),
         NEW c \in Characters, NeedsNext(q, c), NEW text, q.i \in Nat \ {0}, text[q.i] = c, q.i # Len(text),
         NEW chunk, chunk # <<>>, chunk[1] = text[q.i + 1], chunk[1] \in Characters
  PROVE  LET a == Resume(p, chunk)
         IN  Pair(a, CharAt(q, text), q.i) /\ a.i \in 1 .. 2 /\ Plain(a)
<1> DEFINE n == q.i
           next == chunk[1]
           o == Read(q)
           x == [p EXCEPT !.i = 1]
<1>1. n \in Nat /\ n \in Int /\ 0 \in Int
  OBVIOUS
<1>2. Pair(q, q, 0)
  BY <1>1 DEF Pair, Ahead, Same
<1>3. Pair(o, o, 0) /\ o.i = n + 1 /\ Marks(o, q.quoted, FALSE, q.escaping, q.newlining) /\ o.error = q.error
  BY <1>1, <1>2, ReadPair, Zenon
<1>4. o \in ParserSet
  BY <1>3 DEF Pair
<1>5. Forms(q, text, c)
  BY CharForms
<1>6. x \in ParserSet /\ x.i = 1 /\ Same(x, p)
  BY DEF ParserSet, Same
<1>7. Same(x, Waiting(q))
  BY <1>6 DEF Same
<1>8. Same(o, [q EXCEPT !.afterRecordSep = FALSE])
  BY DEF Read, ParserSet, Same
<1>9. CASE q.quoted
  <2>1. c = escape
    BY <1>9 DEF NeedsNext
  <2>2. CharAt(q, text) = EscapeThen(o, next)
    BY <1>5, <1>9, <2>1 DEF Forms
  <2> DEFINE z == [x EXCEPT !.escaping = FALSE]
  <2>3. z \in ParserSet /\ z.i = 1
    BY <1>6 DEF ParserSet
  <2>4. x.escaping /\ ~x.newlining
    BY <1>7, <1>9 DEF Waiting, Same, ParserSet, Plain
  <2>5. Same(z, q)
    BY <1>6, <1>7, <1>9 DEF Waiting, Same, ParserSet, Plain
  <2>6. Same(q, o)
    BY <1>8, <1>9 DEF Same, ParserSet, Plain
  <2>7. Pair(z, o, n)
    <3> HIDE DEF z, o
    <3> QED
      BY <1>1, <1>3, <1>4, <2>3, <2>5, <2>6 DEF Pair, Ahead, Same
  <2> DEFINE a == EscapeThen(z, next)
  <2>8. /\ Pair(a, EscapeThen(o, next), n)
        /\ a.i \in z.i .. z.i + 1 /\ Marks(a, a.quoted, z.afterRecordSep, z.escaping, z.newlining)
        /\ a.error = z.error
    BY <1>1, <2>7, EscapePair
  <2>9. Resume(p, chunk) = a
    <3>1. ResumeEscape(x, chunk) = a
      BY <1>6, <2>4, EscapeClears DEF ResumeEscape
    <3>2. ~z.newlining
      BY <1>6, <2>4 DEF ParserSet
    <3>3. ~a.newlining
      BY <2>8, <3>2 DEF Marks
    <3> HIDE DEF a, x
    <3> QED
      BY <3>1, <3>3 DEF Resume, ResumeNewline, x
  <2>10. ~z.newlining /\ ~z.escaping /\ ~z.afterRecordSep
    BY <1>9, <2>5 DEF Same, Plain
  <2> HIDE DEF a, z, o
  <2>11. Plain(a) /\ a.i \in 1 .. 2
    BY <2>3, <2>8, <2>10 DEF Marks, Plain
  <2> QED
    BY <2>2, <2>8, <2>9, <2>11
<1>10. CASE ~q.quoted
  <2>1. c = CR
    BY <1>10 DEF NeedsNext
  <2> DEFINE y == SkipLF(x, chunk)
             z == [y EXCEPT !.newlining = FALSE, !.afterRecordSep = FALSE]
             after == IF next = LF THEN [o EXCEPT !.i = @ + 1] ELSE o
  <2>2. CharAt(q, text) = [EndRecord(after) EXCEPT !.afterRecordSep = TRUE]
    BY <1>5, <1>10, <2>1 DEF Forms
  <2>3. ~x.escaping /\ x.newlining
    BY <1>7, <1>10 DEF Waiting, Same, ParserSet, Plain
  <2>4. y = IF next = LF THEN [x EXCEPT !.i = 2] ELSE x
    BY <1>6 DEF SkipLF
  <2>5. y \in ParserSet /\ y.i = (IF next = LF THEN 2 ELSE 1) /\ Same(y, x)
    <3>1. LET v == [x EXCEPT !.i = 2] IN v \in ParserSet /\ v.i = 2 /\ Same(v, x)
      <4> HIDE DEF x
      <4> QED
        BY <1>6 DEF ParserSet, Same
    <3>2. Same(x, x)
      BY DEF Same
    <3> HIDE DEF x, y
    <3> QED
      BY <1>6, <2>4, <3>1, <3>2
  <2>6. z \in ParserSet /\ z.i = y.i
    <3> HIDE DEF y
    <3> QED
      BY <2>5 DEF ParserSet
  <2>7. Same(z, o)
    <3>1. Same(y, Waiting(q))
      BY <1>7, <2>5 DEF Same
    <3>2. Same(z, [Waiting(q) EXCEPT !.newlining = FALSE, !.afterRecordSep = FALSE])
      <4>1. Waiting(q) \in ParserSet
        BY WaitingParser
      <4> HIDE DEF y
      <4> QED
        BY <2>5, <3>1, <4>1 DEF Same, ParserSet
    <3>3. [Waiting(q) EXCEPT !.newlining = FALSE, !.afterRecordSep = FALSE] = [q EXCEPT !.afterRecordSep = FALSE]
      BY <1>10 DEF Waiting, ParserSet, Plain
    <3> DEFINE u == [q EXCEPT !.afterRecordSep = FALSE]
    <3>4. Same(z, u) /\ Same(o, u)
      BY <1>8, <3>2, <3>3, Zenon
    <3> HIDE DEF z, o, u
    <3> QED
      BY <3>4 DEF Same
  <2>8. after \in ParserSet /\ after.i = n + y.i /\ Same(o, after)
    <3>1. LET v == [o EXCEPT !.i = @ + 1]  w == [o EXCEPT !.i = @ + 1]
          IN  Pair(v, w, 0) /\ v.i = o.i + 1 /\ SameMarks(v, o) /\ v.error = o.error
      BY <1>1, <1>3, SetI, Zenon
    <3>2. Same(o, [o EXCEPT !.i = @ + 1]) /\ Same(o, o)
      BY <1>4 DEF Same, ParserSet
    <3> HIDE DEF o, y
    <3> QED
      BY <1>1, <1>3, <1>4, <2>5, <3>1, <3>2 DEF Pair
  <2> HIDE DEF after, o
  <2>9. Pair(z, after, n)
    <3> HIDE DEF z
    <3> QED
      BY <1>1, <2>5, <2>6, <2>7, <2>8 DEF Pair, Ahead, Same
  <2> DEFINE e == EndRecord(z)
             f == EndRecord(after)
             a == [e EXCEPT !.afterRecordSep = TRUE]
             b == [f EXCEPT !.afterRecordSep = TRUE]
  <2>10. Pair(e, f, n) /\ e.i = z.i /\ SameMarks(e, z)
    BY <1>1, <2>9, EndRecordPair
  <2>11. Pair(a, b, n) /\ a.i = e.i /\ Marks(a, e.quoted, TRUE, e.escaping, e.newlining)
    <3> HIDE DEF e, f
    <3> QED
      BY <1>1, <2>10, SetAfter
  <2>12. Resume(p, chunk) = a
    <3>1. ResumeEscape(x, chunk) = x
      BY <2>3 DEF ResumeEscape
    <3>2. [EndRecord(y) EXCEPT !.newlining = FALSE, !.afterRecordSep = TRUE] = a
      BY <2>5, EndRecordClears
    <3> HIDE DEF a
    <3> QED
      BY <2>3, <3>1, <3>2 DEF Resume, ResumeNewline
  <2>13. ~z.newlining /\ ~z.escaping /\ ~z.quoted
    <3>1. ~o.newlining /\ ~o.escaping /\ ~o.quoted
      BY <1>3, <1>10 DEF Marks, Plain
    <3> QED
      BY <2>7, <3>1 DEF Same
  <2> HIDE DEF a, b, e, f, z, y
  <2>14. Plain(a) /\ a.i \in 1 .. 2
    BY <2>5, <2>6, <2>10, <2>11, <2>13 DEF SameMarks, Marks, Plain
  <2> QED
    BY <2>2, <2>11, <2>12, <2>14 DEF b, f
<1> QED
  BY <1>9, <1>10
-----------------------------------------------------------------------------
(* execute as its rounds.                                                   *)
Rounds(W, p, chunk) ==
  /\ W \in [0 .. Len(chunk) -> ParserSet]
  /\ W[0] = Resume(p, chunk)
  /\ \A k \in 1 .. Len(chunk) : W[k] = Round(W[k - 1], chunk, k)
  /\ Execute(p, chunk) = W[Len(chunk)]

LEMMA RoundsExist ==
  ASSUME ParserAssumption, EscapeOK, NEW chunk \in Seq(Characters), NEW p, Resume(p, chunk) \in ParserSet
  PROVE  \E W : Rounds(W, p, chunk)
<1> DEFINE N == Len(chunk)
           base == Resume(p, chunk)
           G == [x \in (1 .. N) \X ParserSet |-> Round(x[2], chunk, x[1])]
<1>1. N \in Nat
  OBVIOUS
<1>2. ASSUME NEW x \in (1 .. N) \X ParserSet PROVE Round(x[2], chunk, x[1]) \in ParserSet
  <2>1. x[2] \in ParserSet /\ x[1] \in 1 .. Len(chunk)
    BY <1>2
  <2> QED
    BY <2>1, CharAtParser DEF Round
<1>3. G \in StepsOf(N, ParserSet)
  BY <1>2 DEF StepsOf
<1>4. ASSUME NEW n \in 1 .. N, NEW q \in ParserSet PROVE G[<<n, q>>] = Round(q, chunk, n)
  OBVIOUS
<1> HIDE DEF base, G, N
<1>5. PICK f : Iterates(f, N, ParserSet, base, G)
  BY <1>1, <1>3, RecursionExists DEF base
<1>6. f \in [0 .. N -> ParserSet] /\ f[0] = base
  BY <1>5 DEF Iterates
<1>7. ASSUME NEW n \in 1 .. N PROVE f[n] = Round(f[n - 1], chunk, n)
  <2>1. n - 1 \in 0 .. N
    BY <1>1
  <2>2. f[n - 1] \in ParserSet
    BY <1>6, <2>1
  <2> QED
    BY <1>4, <1>5, <2>2 DEF Iterates
<1> DEFINE g == [n \in 0 .. N |-> IF n = 0 THEN base ELSE Round(f[n - 1], chunk, n)]
           first == CHOOSE r : r = [n \in 0 .. N |-> IF n = 0 THEN base ELSE Round(r[n - 1], chunk, n)]
<1>8. f = g
  <2>1. \A n \in 0 .. N : f[n] = g[n]
    <3> TAKE n \in 0 .. N
    <3>1. CASE n = 0
      BY <1>6, <3>1
    <3>2. CASE n # 0
      <4>1. n \in 1 .. N
        BY <1>1, <3>2
      <4> QED
        BY <1>7, <3>2, <4>1
    <3> QED
      BY <3>1, <3>2
  <2> QED
    BY <1>6, <2>1
<1>9. first = [n \in 0 .. N |-> IF n = 0 THEN base ELSE Round(first[n - 1], chunk, n)]
  <2> HIDE DEF base
  <2> QED
    BY <1>8, Zenon
<1> HIDE DEF first, g
<1>10. first[0] = base /\ \A n \in 1 .. N : first[n] = Round(first[n - 1], chunk, n)
  BY <1>1, <1>9
<1>11. Execute(p, chunk) = first[N]
  BY Zenon DEF Execute, first, base, N
<1> DEFINE S == {n \in Nat : n \in 0 .. N => first[n] \in ParserSet}
<1>12. 0 \in S
  BY <1>10 DEF base
<1>13. ASSUME NEW n \in Nat, n \in S PROVE n + 1 \in S
  <2> SUFFICES ASSUME n + 1 \in 0 .. N PROVE first[n + 1] \in ParserSet
    OBVIOUS
  <2>1. n \in 0 .. N /\ n + 1 \in 1 .. N /\ (n + 1) - 1 = n
    BY <1>1
  <2>2. first[n] \in ParserSet /\ first[n + 1] = Round(first[n], chunk, n + 1)
    BY <1>10, <1>13, <2>1
  <2> QED
    BY <2>1, <2>2, CharAtParser DEF Round, N
<1>14. Nat \subseteq S
  <2> HIDE DEF S
  <2> QED
    BY <1>12, <1>13, NatSetInduction
<1>15. first \in [0 .. N -> ParserSet]
  <2>1. \A n \in 0 .. N : first[n] \in ParserSet
    BY <1>1, <1>14
  <2> QED
    BY <1>9, <2>1
<1> WITNESS first
<1> QED
  BY <1>10, <1>11, <1>15 DEF Rounds, N, base
-----------------------------------------------------------------------------
(* The parser after n characters, between two chunks: as the rounds W over  *)
(* the whole text leave it, or waiting for what follows character n.        *)
ReadTo(W, text, p, n) ==
  /\ p \in ParserSet /\ p.error = "Ok"
  /\ \/ Plain(p) /\ Same(p, W[n]) /\ W[n].i = n + 1
     \/ /\ n > 0 /\ W[n - 1].i = n /\ Plain(W[n - 1]) /\ W[n - 1].error = "Ok"
        /\ NeedsNext(W[n - 1], text[n]) /\ Same(p, Waiting(W[n - 1]))

(* The parser in a chunk of m characters after the first n, k of them read. *)
Along(W, text, p, n, m, k) ==
  \/ p.error # "Ok" /\ p \in ParserSet /\ Same(p, W[n + k])
  \/ p.error = "Ok" /\ Plain(p) /\ Pair(p, W[n + k], n) /\ p.i \in k + 1 .. m + 1
  \/ k = m /\ ReadTo(W, text, p, n + m)

LEMMA ChunkStarts ==
  ASSUME ParserAssumption, EscapeOK, NEW text \in Seq(Characters), NEW start, NEW W, Rounds(W, start, text),
         NEW n \in Nat, NEW m \in Nat \ {0}, n + m <= Len(text), NEW p, ReadTo(W, text, p, n),
         NEW chunk \in Seq(Characters), Len(chunk) = m, chunk[1] = text[n + 1]
  PROVE  Along(W, text, Resume(p, chunk), n, m, 0) /\ Resume(p, chunk) \in ParserSet
<1>1. p \in ParserSet /\ Len(text) \in Nat /\ n \in 0 .. Len(text) /\ n + 1 \in 1 .. Len(text) /\ n + 0 = n
  BY DEF ReadTo
<1>2. chunk # <<>> /\ chunk[1] \in Characters
  OBVIOUS
<1>3. W[n] \in ParserSet
  BY <1>1 DEF Rounds
<1>4. CASE Plain(p) /\ Same(p, W[n]) /\ W[n].i = n + 1
  <2> DEFINE x == [p EXCEPT !.i = 1]
  <2>1. Resume(p, chunk) = x
    BY <1>1, <1>4, ResumePlain
  <2>2. x \in ParserSet /\ x.i = 1 /\ Same(x, p) /\ x.error = p.error
    BY <1>1 DEF ParserSet, Same
  <2>3. p.error = "Ok"
    BY DEF ReadTo
  <2> HIDE DEF x
  <2>4. Plain(x)
    BY <1>4, <2>2 DEF Plain, Same
  <2>5. Pair(x, W[n + 0], n)
    BY <1>1, <1>3, <1>4, <2>2 DEF Pair, Ahead, Same
  <2>6. x.i \in 0 + 1 .. m + 1
    BY <2>2
  <2> QED
    BY <2>1, <2>2, <2>3, <2>4, <2>5, <2>6 DEF Along
<1>5. CASE ~(Plain(p) /\ Same(p, W[n]) /\ W[n].i = n + 1)
  <2>1. /\ n > 0 /\ W[n - 1].i = n /\ Plain(W[n - 1]) /\ W[n - 1].error = "Ok"
        /\ NeedsNext(W[n - 1], text[n]) /\ Same(p, Waiting(W[n - 1]))
    BY <1>5 DEF ReadTo
  <2>2. n - 1 \in 0 .. Len(text) /\ n \in 1 .. Len(text) /\ n # Len(text) /\ n \in Nat \ {0}
    BY <1>1, <2>1
  <2>3. W[n - 1] \in ParserSet /\ text[n] \in Characters
    BY <2>2, SMTT(30) DEF Rounds
  <2>4. W[n] = CharAt(W[n - 1], text)
    BY <2>1, <2>2 DEF Rounds, Round
  <2> DEFINE q == W[n - 1]
             a == Resume(p, chunk)
  <2>5. q \in ParserSet /\ q.i = n
    BY <2>1, <2>3
  <2>6. Pair(a, CharAt(q, text), n) /\ a.i \in 1 .. 2 /\ Plain(a)
    <3>1. q.i \in Nat \ {0} /\ text[q.i] = text[n] /\ q.i # Len(text) /\ chunk[1] = text[q.i + 1]
      BY <2>2, <2>5
    <3>2. Plain(q) /\ Same(p, Waiting(q)) /\ NeedsNext(q, text[n])
      BY <2>1
    <3> HIDE DEF q
    <3>3. Pair(a, CharAt(q, text), q.i) /\ a.i \in 1 .. 2 /\ Plain(a)
      BY <1>1, <1>2, <2>3, <2>5, <3>1, <3>2, ResumeWaiting
    <3> QED
      BY <2>5, <3>3
  <2>7. Pair(a, W[n + 0], n)
    BY <1>1, <2>4, <2>6
  <2>8. a \in ParserSet /\ Same(a, W[n + 0])
    BY <2>7 DEF Pair, Ahead
  <2> HIDE DEF a
  <2>9. a.i \in 0 + 1 .. m + 1
    BY <2>6
  <2>10. Along(W, text, a, n, m, 0)
    BY <2>6, <2>7, <2>8, <2>9 DEF Along
  <2> QED
    BY <2>8, <2>10 DEF a
<1> QED
  BY <1>4, <1>5

LEMMA ChunkAdvances ==
  ASSUME ParserAssumption, EscapeOK, NEW text \in Seq(Characters), NEW start, NEW W, Rounds(W, start, text),
         NEW n \in Nat, NEW m \in Nat \ {0}, n + m <= Len(text),
         NEW chunk \in Seq(Characters), Len(chunk) = m, \A k \in 1 .. m : chunk[k] = text[n + k],
         NEW k \in 0 .. m - 1, NEW p, Along(W, text, p, n, m, k)
  PROVE  Along(W, text, Round(p, chunk, k + 1), n, m, k + 1)
<1> DEFINE q == W[n + k]
           j == k + 1
<1>1. /\ Len(text) \in Nat /\ n + k \in 0 .. Len(text) /\ j \in 1 .. m /\ j - 1 = k /\ k # m
      /\ n + j \in 1 .. Len(text) /\ n + j - 1 = n + k /\ (n + k) + 1 = n + j /\ n \in Int
  BY SMTT(30)
<1>2. q \in ParserSet
  BY <1>1 DEF Rounds
<1>3. W[n + j] = Round(q, text, n + j)
  BY <1>1 DEF Rounds
<1>4. CASE p.error # "Ok" /\ p \in ParserSet /\ Same(p, q)
  <2>1. q.error # "Ok"
    BY <1>4 DEF Same
  <2>2. Round(p, chunk, j) = p /\ W[n + j] = q
    BY <1>3, <1>4, <2>1 DEF Round
  <2> QED
    BY <1>4, <2>2 DEF Along
<1>5. CASE p.error = "Ok" /\ Plain(p) /\ Pair(p, q, n) /\ p.i \in k + 1 .. m + 1
  <2>1. q.error = "Ok" /\ q.i = p.i + n /\ p \in ParserSet /\ q \in ParserSet /\ p.i \in Nat
    BY <1>5 DEF Pair, Ahead, Same, ParserSet
  <2>2. CASE p.i # j
    <3>1. Round(p, chunk, j) = p
      BY <2>2 DEF Round
    <3>2. q.i # n + j
      BY <1>1, <2>1, <2>2, SMTT(30)
    <3>3. W[n + j] = q
      BY <1>3, <3>2 DEF Round
    <3>4. p.i \in j + 1 .. m + 1
      BY <1>1, <1>5, <2>1, <2>2
    <3> QED
      BY <1>5, <3>1, <3>3, <3>4 DEF Along
  <2>3. CASE p.i = j
    <3> DEFINE c == chunk[j]
               a == CharAt(p, chunk)
               b == CharAt(q, text)
    <3>1. q.i = n + j /\ c \in Characters /\ text[n + j] = c
      BY <1>1, <2>1, <2>3
    <3>2. Round(p, chunk, j) = a /\ W[n + j] = b
      BY <1>3, <1>5, <2>1, <2>3, <3>1 DEF Round
    <3>3. chunk[p.i] = c /\ text[q.i] = c
      BY <2>3, <3>1
    <3>4. CASE NeedsNext(p, c) /\ j = m
      <4>1. a \in ParserSet /\ Same(a, Waiting(p))
        BY <2>1, <2>3, <3>1, <3>3, <3>4, CharAtLast
      <4>2. Same(Waiting(p), Waiting(q)) /\ p.quoted = q.quoted
        BY <1>5, <2>1 DEF Pair, Ahead, Same, Waiting, ParserSet
      <4>3. Same(a, Waiting(q)) /\ NeedsNext(q, c)
        <5> HIDE DEF a
        <5> QED
          BY <3>4, <4>1, <4>2 DEF Same, NeedsNext
      <4>4. Plain(q)
        BY <1>5 DEF Pair, Ahead, Same, Plain
      <4>5. a.error = "Ok"
        <5>1. Waiting(p).error = p.error
          BY <2>1 DEF Waiting, ParserSet
        <5> QED
          BY <1>5, <4>1, <5>1 DEF Same
      <4> HIDE DEF a, c
      <4>6. W[(n + j) - 1] = q /\ n + j > 0
        BY <1>1
      <4> HIDE DEF q
      <4>7. ReadTo(W, text, a, n + j)
        BY <2>1, <3>1, <4>1, <4>3, <4>4, <4>5, <4>6 DEF ReadTo
      <4> QED
        BY <3>2, <3>4, <4>7 DEF Along
    <3>5. CASE ~(NeedsNext(p, c) /\ j = m)
      <4>1. NeedsNext(p, c) => /\ p.i # Len(chunk) /\ q.i # Len(text)
                               /\ chunk[p.i + 1] = text[q.i + 1] /\ chunk[p.i + 1] \in Characters
        <5> SUFFICES ASSUME NeedsNext(p, c)
                     PROVE  /\ p.i # Len(chunk) /\ q.i # Len(text)
                            /\ chunk[p.i + 1] = text[q.i + 1] /\ chunk[p.i + 1] \in Characters
          OBVIOUS
        <5>1. j + 1 \in 1 .. m /\ n + (j + 1) = (n + j) + 1 /\ n + j # Len(text)
          BY <1>1, <3>5
        <5>2. chunk[j + 1] = text[n + (j + 1)] /\ chunk[j + 1] \in Characters
          BY <5>1
        <5> QED
          BY <2>3, <3>1, <3>5, <5>1, <5>2
      <4>2. RoundDone(p, a, b, n) /\ (~NeedsNext(p, c) => a.i = p.i + 1)
        <5>1. n \in Int /\ Pair(p, q, n) /\ c \in Characters
          BY <1>1, <1>5, <3>1
        <5>2. Readable(p, q, c, chunk, text)
          BY <3>3, <4>1 DEF Readable
        <5> HIDE DEF c, q
        <5> QED
          BY <5>1, <5>2, CharAtPair
      <4>3. a.i \in j + 1 .. m + 1
        <5> HIDE DEF a, b, c
        <5>1. a.i \in j + 1 .. j + 2 /\ (~NeedsNext(p, c) => a.i = j + 1)
          BY <2>3, <4>2 DEF RoundDone
        <5>2. ASSUME NeedsNext(p, c) PROVE j + 2 <= m + 1
          <6>1. j # m
            BY <3>5, <5>2
          <6> QED
            BY <1>1, <6>1, SMTT(30)
        <5>3. CASE NeedsNext(p, c)
          BY <5>1, <5>2, <5>3, SMTT(30)
        <5>4. CASE ~NeedsNext(p, c)
          <6>1. a.i = j + 1 /\ j + 1 <= m + 1 /\ j \in Nat
            BY <1>1, <5>1, <5>4
          <6> QED
            BY <6>1
        <5> QED
          BY <5>3, <5>4
      <4>4. Plain(a) /\ Pair(a, b, n)
        BY <1>5, <4>2 DEF RoundDone
      <4>5. Pair(a, W[n + j], n)
        BY <3>2, <4>4
      <4> HIDE DEF a, b, c
      <4>6. a \in ParserSet /\ Same(a, W[n + j])
        BY <4>5 DEF Pair, Ahead
      <4> QED
        BY <3>2, <4>3, <4>4, <4>5, <4>6 DEF Along
    <3> QED
      BY <3>4, <3>5
  <2> QED
    BY <2>2, <2>3
<1> QED
  BY <1>1, <1>4, <1>5 DEF Along

LEMMA ChunkRead ==
  ASSUME ParserAssumption, EscapeOK, NEW text \in Seq(Characters), NEW start, NEW W, Rounds(W, start, text),
         NEW n \in Nat, NEW m \in Nat \ {0}, n + m <= Len(text), NEW p, ReadTo(W, text, p, n)
  PROVE  LET r == Execute(p, SubSeq(text, n + 1, n + m))
         IN  IF r.error = "Ok" THEN ReadTo(W, text, r, n + m) ELSE Same(r, W[n + m])
<1> DEFINE chunk == SubSeq(text, n + 1, n + m)
<1>1. /\ chunk \in Seq(Characters) /\ Len(chunk) = m /\ \A k \in 1 .. m : chunk[k] = text[n + k]
  <2>1. n + 1 \in 1 .. Len(text) + 1 /\ n + m \in n .. Len(text) /\ Len(text) \in Nat
    OBVIOUS
  <2>2. chunk \in Seq(Characters)
    BY <2>1, SubSeqProperties
  <2>3. Len(chunk) = m
    BY <2>1, SubSeqProperties
  <2>4. ASSUME NEW k \in 1 .. m PROVE chunk[k] = text[n + k]
    <3>1. (n + 1) + k - 1 = n + k
      OBVIOUS
    <3> QED
      BY <2>1, <2>3, <3>1, SubSeqProperties
  <2> QED
    BY <2>2, <2>3, <2>4
<1> HIDE DEF chunk
<1>2. 1 \in 1 .. m
  OBVIOUS
<1>3. Along(W, text, Resume(p, chunk), n, m, 0) /\ Resume(p, chunk) \in ParserSet
  BY <1>1, <1>2, ChunkStarts
<1>4. PICK C : Rounds(C, p, chunk)
  BY <1>1, <1>3, RoundsExist
<1> DEFINE S == {k \in Nat : k \in 0 .. m => Along(W, text, C[k], n, m, k)}
<1>5. 0 \in S
  BY <1>3, <1>4 DEF Rounds
<1>6. ASSUME NEW k \in Nat, k \in S PROVE k + 1 \in S
  <2> SUFFICES ASSUME k + 1 \in 0 .. m PROVE Along(W, text, C[k + 1], n, m, k + 1)
    OBVIOUS
  <2>1. k \in 0 .. m - 1 /\ k \in 0 .. m /\ k + 1 \in 1 .. m /\ (k + 1) - 1 = k
    OBVIOUS
  <2>2. Along(W, text, C[k], n, m, k) /\ C[k + 1] = Round(C[k], chunk, k + 1)
    BY <1>1, <1>4, <1>6, <2>1 DEF Rounds
  <2>3. Along(W, text, Round(C[k], chunk, k + 1), n, m, k + 1)
    BY <1>1, <2>1, <2>2, ChunkAdvances
  <2> QED
    BY <2>2, <2>3
<1>7. Nat \subseteq S
  <2> HIDE DEF S
  <2> QED
    BY <1>5, <1>6, NatSetInduction
<1> DEFINE r == Execute(p, chunk)
<1>8. Along(W, text, r, n, m, m)
  BY <1>1, <1>4, <1>7 DEF Rounds
<1> HIDE DEF r
<1>9. IF r.error = "Ok" THEN ReadTo(W, text, r, n + m) ELSE Same(r, W[n + m])
  <2>1. CASE r.error # "Ok"
    BY <1>8, <2>1 DEF Along, Pair, Ahead, ReadTo
  <2>2. CASE r.error = "Ok" /\ Plain(r) /\ Pair(r, W[n + m], n) /\ r.i \in m + 1 .. m + 1
    <3>1. r.i = m + 1 /\ W[n + m].i = r.i + n /\ r \in ParserSet /\ Same(r, W[n + m])
      BY <2>2 DEF Pair, Ahead
    <3>2. W[n + m].i = (n + m) + 1
      BY <3>1
    <3> QED
      BY <2>2, <3>1, <3>2 DEF ReadTo
  <2> QED
    BY <1>8, <2>1, <2>2 DEF Along
<1> QED
  BY <1>9 DEF r, chunk
-----------------------------------------------------------------------------
(* Rounds after an error change nothing.                                    *)
LEMMA ErrorStays ==
  ASSUME NEW text \in Seq(Characters), NEW start, NEW W, Rounds(W, start, text),
         NEW n \in 0 .. Len(text), W[n].error # "Ok"
  PROVE  Execute(start, text) = W[n]
<1> DEFINE S == {k \in Nat : n + k <= Len(text) => W[n + k] = W[n]}
<1>1. Len(text) \in Nat /\ n \in Nat
  OBVIOUS
<1>2. 0 \in S
  BY <1>1
<1>3. ASSUME NEW k \in Nat, k \in S PROVE k + 1 \in S
  <2> SUFFICES ASSUME n + (k + 1) <= Len(text) PROVE W[n + (k + 1)] = W[n]
    OBVIOUS
  <2>1. n + (k + 1) \in 1 .. Len(text) /\ (n + (k + 1)) - 1 = n + k /\ n + k <= Len(text)
    BY <1>1
  <2>2. W[n + (k + 1)] = Round(W[n + k], text, n + (k + 1)) /\ W[n + k] = W[n]
    BY <1>3, <2>1 DEF Rounds
  <2> QED
    BY <2>2 DEF Round
<1>4. Nat \subseteq S
  <2> HIDE DEF S
  <2> QED
    BY <1>2, <1>3, NatSetInduction
<1>5. Len(text) - n \in S /\ n + (Len(text) - n) = Len(text)
  BY <1>1, <1>4
<1> QED
  BY <1>1, <1>5 DEF Rounds

(* At the end of the text the parser is the one that read it whole.         *)
LEMMA EndReached ==
  ASSUME ParserAssumption, EscapeOK, NEW text \in Seq(Characters), NEW start, NEW W, Rounds(W, start, text),
         NEW p, ReadTo(W, text, p, Len(text))
  PROVE  /\ p \in ParserSet /\ Execute(start, text) \in ParserSet /\ Same(p, Execute(start, text))
         /\ p.error = "Ok"
<1> DEFINE n == Len(text)
<1>1. n \in Nat /\ n \in 0 .. n /\ Execute(start, text) = W[n] /\ W[n] \in ParserSet
  BY DEF Rounds
<1>2. p \in ParserSet /\ p.error = "Ok"
  BY DEF ReadTo
<1>3. CASE Same(p, W[n])
  BY <1>1, <1>2, <1>3
<1>4. CASE ~Same(p, W[n])
  <2> DEFINE q == W[n - 1]
             c == text[n]
  <2>1. n > 0 /\ q.i = n /\ q.error = "Ok" /\ NeedsNext(q, c) /\ Same(p, Waiting(q))
    BY <1>4 DEF ReadTo
  <2>2. n - 1 \in 0 .. n /\ n \in 1 .. n
    BY <1>1, <2>1
  <2>3. q \in ParserSet /\ c \in Characters /\ W[n] = Round(q, text, n)
    BY <2>2 DEF Rounds
  <2>4. W[n] = CharAt(q, text)
    BY <2>1, <2>3 DEF Round
  <2>5. c = text[q.i] /\ q.i = Len(text)
    BY <2>1
  <2> HIDE DEF q, c
  <2>6. Same(CharAt(q, text), Waiting(q))
    BY <2>1, <2>3, <2>5, CharAtLast
  <2> QED
    BY <1>4, <2>1, <2>4, <2>6 DEF Same
<1> QED
  BY <1>3, <1>4

LEMMA FinishSame ==
  ASSUME NEW p \in ParserSet, NEW q \in ParserSet, Same(p, q)
  PROVE  FinishParser(p).fields = FinishParser(q).fields /\ FinishParser(p).error = FinishParser(q).error
<1>1. p.quoted = q.quoted /\ p.newlining = q.newlining /\ p.afterRecordSep = q.afterRecordSep
  BY DEF Same
<1>2. CASE p.quoted
  BY <1>1, <1>2 DEF FinishParser, ParserSet, Same
<1>3. CASE ~p.quoted /\ (p.newlining \/ ~p.afterRecordSep)
  <2>1. FinishParser(p) = FinishParser(q)
    BY <1>1, <1>3, ExecuteSame DEF FinishParser, FinishOpen
  <2> QED
    BY <2>1
<1>4. CASE ~p.quoted /\ ~p.newlining /\ p.afterRecordSep
  <2>1. FinishParser(p) = p /\ FinishParser(q) = q
    BY <1>1, <1>4 DEF FinishParser, FinishOpen
  <2> QED
    BY <2>1 DEF Same
<1> QED
  BY <1>2, <1>3, <1>4

-----------------------------------------------------------------------------
(* The text of the records is a text.                                       *)
JoinsFirst(first, s, N) ==
  /\ first \in [0 .. N -> Seq(Characters)] /\ first[0] = <<>>
  /\ \A n \in 1 .. N : first[n] = first[n - 1] \o s[n]
  /\ Joined(s) = first[N]

LEMMA JoinedFirst ==
  ASSUME NEW s, NEW N \in Nat, Len(s) = N, \A n \in 1 .. N : s[n] \in Seq(Characters)
  PROVE  \E first : JoinsFirst(first, s, N)
<1> DEFINE D == Seq(Characters)
           G == [x \in (1 .. N) \X D |-> x[2] \o s[x[1]]]
<1>1. <<>> \in D
  OBVIOUS
<1>2. ASSUME NEW x \in (1 .. N) \X D PROVE x[2] \o s[x[1]] \in D
  <2>1. x[2] \in Seq(Characters) /\ s[x[1]] \in Seq(Characters)
    BY <1>2
  <2> QED
    BY <2>1, ConcatProperties
<1>3. G \in StepsOf(N, D)
  BY <1>2 DEF StepsOf
<1>4. ASSUME NEW n \in 1 .. N, NEW q \in D PROVE G[<<n, q>>] = q \o s[n]
  OBVIOUS
<1> HIDE DEF G, D
<1>5. PICK f : Iterates(f, N, D, <<>>, G)
  BY <1>1, <1>3, RecursionExists
<1>6. f \in [0 .. N -> D] /\ f[0] = <<>>
  BY <1>5 DEF Iterates
<1>7. ASSUME NEW n \in 1 .. N PROVE f[n] = f[n - 1] \o s[n]
  <2>1. n - 1 \in 0 .. N
    OBVIOUS
  <2>2. f[n - 1] \in D
    BY <1>6, <2>1
  <2> QED
    BY <1>4, <1>5, <2>2 DEF Iterates
<1> DEFINE g == [n \in 0 .. N |-> IF n = 0 THEN <<>> ELSE f[n - 1] \o s[n]]
           first == CHOOSE r : r = [n \in 0 .. N |-> IF n = 0 THEN <<>> ELSE r[n - 1] \o s[n]]
<1>8. f = g
  <2>1. \A n \in 0 .. N : f[n] = g[n]
    <3> TAKE n \in 0 .. N
    <3>1. CASE n = 0
      BY <1>6, <3>1
    <3>2. CASE n # 0
      <4>1. n \in 1 .. N
        BY <3>2
      <4> QED
        BY <1>7, <3>2, <4>1
    <3> QED
      BY <3>1, <3>2
  <2> QED
    BY <1>6, <2>1
<1>9. first = [n \in 0 .. N |-> IF n = 0 THEN <<>> ELSE first[n - 1] \o s[n]]
  BY <1>8, Zenon
<1> HIDE DEF first, g
<1>10. first[0] = <<>> /\ \A n \in 1 .. N : first[n] = first[n - 1] \o s[n]
  <2>1. first[0] = <<>>
    <3>1. 0 \in 0 .. N
      OBVIOUS
    <3> QED
      BY <1>9, <3>1, Zenon
  <2>2. ASSUME NEW n \in 1 .. N PROVE first[n] = first[n - 1] \o s[n]
    <3>1. n \in 0 .. N /\ n # 0
      OBVIOUS
    <3> QED
      BY <1>9, <3>1, Zenon
  <2> QED
    BY <2>1, <2>2
<1>11. Joined(s) = first[N]
  BY Zenon DEF Joined, first
<1> DEFINE S == {n \in Nat : n \in 0 .. N => first[n] \in D}
<1>12. 0 \in S
  BY <1>1, <1>10
<1>13. ASSUME NEW n \in Nat, n \in S PROVE n + 1 \in S
  <2> SUFFICES ASSUME n + 1 \in 0 .. N PROVE first[n + 1] \in D
    OBVIOUS
  <2>1. n \in 0 .. N /\ n + 1 \in 1 .. N /\ (n + 1) - 1 = n
    OBVIOUS
  <2>2. first[n] \in Seq(Characters) /\ s[n + 1] \in Seq(Characters) /\ first[n + 1] = first[n] \o s[n + 1]
    BY <1>10, <1>13, <2>1 DEF D
  <2> QED
    BY <2>2, ConcatProperties DEF D
<1>14. Nat \subseteq S
  <2> HIDE DEF S
  <2> QED
    BY <1>12, <1>13, NatSetInduction
<1>15. first \in [0 .. N -> Seq(Characters)]
  <2>1. \A n \in 0 .. N : first[n] \in D
    BY <1>14
  <2> QED
    BY <1>9, <2>1 DEF D
<1> WITNESS first
<1> QED
  BY <1>10, <1>11, <1>15 DEF JoinsFirst

LEMMA JoinedText ==
  ASSUME NEW s, NEW N \in Nat, Len(s) = N, \A n \in 1 .. N : s[n] \in Seq(Characters)
  PROVE  Joined(s) \in Seq(Characters)
<1>1. PICK first : JoinsFirst(first, s, N)
  BY JoinedFirst
<1> QED
  BY <1>1 DEF JoinsFirst

LEMMA EscapedIsText ==
  ASSUME NEW value \in Seq(Characters)
  PROVE  Escaped(value) \in Seq(Characters)
<1> DEFINE s == [n \in 1 .. Len(value) |-> IF value[n] \in {Quote, Backslash} THEN <<Backslash, value[n]>>
                                                                            ELSE <<value[n]>>]
<1>1. Len(value) \in Nat /\ Quote \in Characters /\ Backslash \in Characters
  BY DEF Characters
<1>2. Len(s) = Len(value)
  BY <1>1
<1>3. ASSUME NEW n \in 1 .. Len(value) PROVE s[n] \in Seq(Characters)
  <2>1. value[n] \in Characters
    OBVIOUS
  <2>2. <<Backslash, value[n]>> \in Seq(Characters) /\ <<value[n]>> \in Seq(Characters)
    BY <1>1, <2>1
  <2> QED
    BY <2>2
<1>4. Escaped(value) = Joined(s)
  BY DEF Escaped
<1> HIDE DEF s
<1> QED
  BY <1>1, <1>2, <1>3, <1>4, JoinedText

LEMMA FieldIsText ==
  ASSUME NEW value \in {Null} \cup Seq(Characters)
  PROVE  FieldText(value) \in Seq(Characters)
<1>1. CASE value = Null
  BY <1>1 DEF FieldText
<1>2. CASE value # Null
  <2>1. value \in Seq(Characters) /\ Quote \in Characters
    BY <1>2 DEF Characters
  <2>2. <<Quote>> \o Escaped(value) \o <<Quote>> \in Seq(Characters)
    <3>1. <<Quote>> \in Seq(Characters) /\ Escaped(value) \in Seq(Characters)
      BY <2>1, EscapedIsText
    <3> QED
      BY <3>1, ConcatProperties
  <2> QED
    BY <1>2, <2>1, <2>2 DEF FieldText
<1> QED
  BY <1>1, <1>2

Record == Seq({Null} \cup Seq(Characters))

LEMMA LineIsText ==
  ASSUME NEW record \in Record
  PROVE  LineText(record) \in Seq(Characters)
<1> DEFINE s == [n \in 1 .. Len(record) |-> (IF n = 1 THEN <<>> ELSE <<Comma>>) \o FieldText(record[n])]
<1>1. record \in Seq({Null} \cup Seq(Characters)) /\ Len(record) \in Nat
  BY DEF Record
<1>2. Len(s) = Len(record)
  BY <1>1
<1>3. ASSUME NEW n \in 1 .. Len(record) PROVE s[n] \in Seq(Characters)
  <2>1. record[n] \in {Null} \cup Seq(Characters)
    BY <1>1
  <2>2. FieldText(record[n]) \in Seq(Characters)
    BY <2>1, FieldIsText
  <2>3. <<>> \in Seq(Characters) /\ <<Comma>> \in Seq(Characters)
    BY DEF Characters
  <2>4. s[n] = (IF n = 1 THEN <<>> ELSE <<Comma>>) \o FieldText(record[n])
    OBVIOUS
  <2> HIDE DEF s
  <2> QED
    BY <2>2, <2>3, <2>4, ConcatProperties
<1>4. LineText(record) = Joined(s)
  BY DEF LineText
<1> HIDE DEF s
<1> QED
  BY <1>1, <1>2, <1>3, <1>4, JoinedText

LEMMA TableIsText ==
  ASSUME NEW table \in Seq(Record), NEW eol \in Seq(Characters), NEW end \in Seq(Characters)
  PROVE  TableText(table, eol, end) \in Seq(Characters)
<1> DEFINE s == [n \in 1 .. Len(table) |-> LineText(table[n]) \o (IF n = Len(table) THEN end ELSE eol)]
<1>1. Len(table) \in Nat
  OBVIOUS
<1>2. Len(s) = Len(table)
  BY <1>1
<1>3. ASSUME NEW n \in 1 .. Len(table) PROVE s[n] \in Seq(Characters)
  <2>1. LineText(table[n]) \in Seq(Characters)
    BY LineIsText
  <2>2. s[n] = LineText(table[n]) \o (IF n = Len(table) THEN end ELSE eol)
    OBVIOUS
  <2> HIDE DEF s
  <2> QED
    BY <2>1, <2>2, ConcatProperties
<1>4. TableText(table, eol, end) = Joined(s)
  BY DEF TableText
<1> HIDE DEF s
<1> QED
  BY <1>1, <1>2, <1>3, <1>4, JoinedText

LEMMA FileIsText == ParserAssumption /\ ParserInit => EscapeOK /\ file \in Seq(Characters)
<1> SUFFICES ASSUME ParserAssumption, ParserInit PROVE EscapeOK /\ file \in Seq(Characters)
  OBVIOUS
<1>1. EscapeOK
  BY DEF ParserInit, EscapeOK
<1>2. CASE file \in Files
  BY <1>1, <1>2 DEF ParserAssumption
<1>3. CASE file \notin Files
  <2> DEFINE letter == CHOOSE c \in Letters : TRUE
             names == [n \in DOMAIN Types |-> <<letter>>]
             table == IF header THEN <<names>> \o given ELSE given
  <2>1. PICK eol \in {<<LF>>, <<CR>>, <<CR, LF>>} : \E end \in {eol, <<>>} : file = TableText(table, eol, end)
    BY <1>3 DEF ParserInit
  <2>2. PICK end \in {eol, <<>>} : file = TableText(table, eol, end)
    BY <2>1
  <2>3. given \in Seq(Record)
    BY <1>3 DEF ParserInit, ParserAssumption, Record
  <2>4. names \in Record
    <3>1. letter \in Characters
      BY DEF ParserAssumption, Characters
    <3> HIDE DEF letter
    <3>2. <<letter>> \in {Null} \cup Seq(Characters)
      BY <3>1
    <3>3. Types \in Seq({"int", "text"}) /\ Len(Types) \in Nat /\ DOMAIN Types = 1 .. Len(Types)
      BY DEF ParserAssumption
    <3> QED
      BY <3>2, <3>3 DEF Record
  <2> HIDE DEF names
  <2>5. <<names>> \in Seq(Record)
    BY <2>4
  <2>6. table \in Seq(Record)
    BY <2>3, <2>5, ConcatProperties
  <2> HIDE DEF table
  <2>7. LF \in Characters /\ CR \in Characters
    BY DEF Characters
  <2>8. eol \in Seq(Characters)
    BY <2>1, <2>7
  <2>9. end \in Seq(Characters)
    <3>1. <<>> \in Seq(Characters)
      OBVIOUS
    <3> QED
      BY <2>2, <2>8, <3>1, Zenon
  <2> QED
    BY <1>1, <2>2, <2>6, <2>8, <2>9, TableIsText
<1> QED
  BY <1>2, <1>3

-----------------------------------------------------------------------------
(* Until the end the parser is the one that has read the text so far; then  *)
(* it is the one that has read all of it.                                   *)
Reads == \E W : Rounds(W, NewParser, file) /\ ReadTo(W, file, parser, position)
ParserIInv ==
  /\ EscapeOK /\ file \in Seq(Characters) /\ position \in 0 .. Len(file)
  /\ ~ended => Reads
  /\ ChunksDoNotMatter

LEMMA NewIsPlain ==
  NewParser \in ParserSet /\ Plain(NewParser) /\ NewParser.error = "Ok" /\ Same(NewParser, NewParser)
  /\ NewParser.i = 1 /\ [NewParser EXCEPT !.i = 1] = NewParser
  BY DEF NewParser, ParserSet, Plain, Errors, Event, Same

LEMMA ParserInitIInv == ParserInit => ParserIInv
<1> SUFFICES ASSUME ParserInit PROVE ParserIInv
  OBVIOUS
<1>1. EscapeOK /\ file \in Seq(Characters) /\ ParserAssumption
  BY ParserAssumption, FileIsText
<1>2. position = 0 /\ parser = NewParser /\ ~ended /\ Len(file) \in Nat
  BY <1>1 DEF ParserInit
<1>3. Resume(NewParser, file) = NewParser
  BY NewIsPlain, ResumePlain
<1>4. PICK W : Rounds(W, NewParser, file)
  BY <1>1, <1>3, NewIsPlain, RoundsExist
<1>5. W[0] = NewParser
  BY <1>3, <1>4 DEF Rounds
<1>6. ReadTo(W, file, NewParser, 0)
  BY <1>5, NewIsPlain DEF ReadTo
<1>7. Reads
  BY <1>2, <1>4, <1>6 DEF Reads
<1> QED
  BY <1>1, <1>2, <1>7 DEF ParserIInv, ChunksDoNotMatter

(* The escape character is the same for the whole file.                     *)
LEMMA EscapeFixed ==
  ASSUME escape' = escape
  PROVE  /\ \A p, chunk : Execute(p, chunk)' = Execute(p, chunk)
         /\ \A p : FinishParser(p)' = FinishParser(p)
         /\ \A p, c : NeedsNext(p, c)' <=> NeedsNext(p, c)
         /\ \A p, chunk : Resume(p, chunk)' = Resume(p, chunk)
         /\ \A p, chunk, n : Round(p, chunk, n)' = Round(p, chunk, n)
<1>1. \A x, c : EscapeThen(x, c)' = EscapeThen(x, c)
  BY DEF EscapeThen
<1>2. \A x, chunk : CharAt(x, chunk)' = CharAt(x, chunk)
  BY <1>1 DEF CharAt
<1>3. \A x, chunk : Resume(x, chunk)' = Resume(x, chunk)
  BY <1>1 DEF Resume, ResumeEscape, ResumeNewline
<1>4. \A x, chunk, n : Round(x, chunk, n)' = Round(x, chunk, n)
  BY <1>2 DEF Round
<1>5. \A p, chunk : Execute(p, chunk)' = Execute(p, chunk)
  <2> TAKE p, chunk
  <2> DEFINE F(r) == [n \in 0 .. Len(chunk) |-> IF n = 0 THEN Resume(p, chunk) ELSE Round(r[n - 1], chunk, n)]
             G(r) == [n \in 0 .. Len(chunk) |-> IF n = 0 THEN Resume(p, chunk)' ELSE Round(r[n - 1], chunk, n)']
  <2>1. ASSUME NEW r PROVE F(r) = G(r)
    BY <1>3, <1>4
  <2>2. Execute(p, chunk) = (CHOOSE r : r = F(r))[Len(chunk)]
    BY Zenon DEF Execute
  <2>3. Execute(p, chunk)' = (CHOOSE r : r = G(r))[Len(chunk)]
    BY Zenon DEF Execute
  <2> HIDE DEF F, G
  <2>4. (CHOOSE r : r = F(r)) = (CHOOSE r : r = G(r))
    BY <2>1, Zenon
  <2> QED
    BY <2>2, <2>3, <2>4
<1>6. \A p : FinishParser(p)' = FinishParser(p)
  BY <1>5 DEF FinishParser, FinishOpen
<1>7. \A p, c : NeedsNext(p, c)' <=> NeedsNext(p, c)
  BY DEF NeedsNext
<1> QED
  BY <1>3, <1>4, <1>5, <1>6, <1>7

LEMMA WholeFixed ==
  ASSUME escape' = escape, file' = file
  PROVE  /\ \A W : Rounds(W, NewParser, file)' <=> Rounds(W, NewParser, file)
         /\ \A W, p, n : ReadTo(W, file, p, n)' <=> ReadTo(W, file, p, n)
         /\ Execute(NewParser, file)' = Execute(NewParser, file)
         /\ FinishParser(Execute(NewParser, file))' = FinishParser(Execute(NewParser, file))
<1>1. Execute(NewParser, file)' = Execute(NewParser, file)
  BY EscapeFixed
<1>2. Resume(NewParser, file)' = Resume(NewParser, file)
  BY EscapeFixed
<1>3. \A q, n : Round(q, file, n)' = Round(q, file, n)
  BY EscapeFixed
<1>4. \A W : Rounds(W, NewParser, file)' <=> Rounds(W, NewParser, file)
  BY <1>1, <1>2, <1>3 DEF Rounds
<1>5. \A W, p, n : ReadTo(W, file, p, n)' <=> ReadTo(W, file, p, n)
  BY EscapeFixed DEF ReadTo
<1>6. PICK r : r = Execute(NewParser, file)
  OBVIOUS
<1>7. FinishParser(r)' = FinishParser(r)
  BY EscapeFixed
<1> QED
  BY <1>1, <1>4, <1>5, <1>6, <1>7

LEMMA ChunkIInv == ASSUME ParserIInv, ReadChunk PROVE ParserIInv'
<1>1. /\ EscapeOK /\ file \in Seq(Characters) /\ position \in Nat /\ ParserAssumption /\ Reads /\ ~ended
      /\ Len(file) \in Nat
  BY ParserAssumption DEF ParserIInv, ReadChunk
<1>2. UNCHANGED <<escape, header, file, given>> /\ ended' = (parser'.error # "Ok")
  BY DEF ReadChunk
<1>3. PICK m \in 1 .. Len(file) - position :
        /\ parser' = Execute(parser, SubSeq(file, position + 1, position + m))
        /\ position' = position + m
  BY DEF ReadChunk
<1>4. PICK W : Rounds(W, NewParser, file) /\ ReadTo(W, file, parser, position)
  BY <1>1 DEF Reads
<1>5. m \in Nat \ {0} /\ position + m <= Len(file) /\ position + m \in 0 .. Len(file)
  BY <1>1, <1>3
<1>6. IF parser'.error = "Ok" THEN ReadTo(W, file, parser', position + m) ELSE Same(parser', W[position + m])
  BY <1>1, <1>3, <1>4, <1>5, ChunkRead
<1>7. EscapeOK' /\ file' = file /\ position' \in 0 .. Len(file')
  BY <1>1, <1>2, <1>3, <1>5 DEF EscapeOK
<1>8. CASE parser'.error = "Ok"
  <2>1. ~ended' /\ ReadTo(W, file, parser', position')
    BY <1>2, <1>3, <1>6, <1>8
  <2>2. PICK p, n : p = parser' /\ n = position'
    OBVIOUS
  <2>3. ReadTo(W, file, p, n)' /\ Rounds(W, NewParser, file)'
    BY <1>2, <1>4, <2>1, <2>2, WholeFixed
  <2>4. Reads'
    BY <2>2, <2>3 DEF Reads
  <2> QED
    BY <1>1, <1>7, <2>1, <2>4 DEF ParserIInv, ChunksDoNotMatter
<1>9. CASE parser'.error # "Ok"
  <2>1. Same(parser', W[position + m])
    BY <1>6, <1>9
  <2>2. W[position + m].error # "Ok"
    BY <1>9, <2>1 DEF Same
  <2>3. Execute(NewParser, file) = W[position + m]
    BY <1>1, <1>4, <1>5, <2>2, ErrorStays
  <2>4. Execute(NewParser, file)' = W[position + m]
    BY <1>2, <2>3, WholeFixed
  <2>5. ended' /\ ChunksDoNotMatter'
    BY <1>2, <1>9, <2>1, <2>2, <2>4 DEF ChunksDoNotMatter, Same
  <2> QED
    BY <1>1, <1>7, <2>5 DEF ParserIInv
<1> QED
  BY <1>8, <1>9

LEMMA FinishIInv == ASSUME ParserIInv, FinishFile PROVE ParserIInv'
<1>1. /\ EscapeOK /\ file \in Seq(Characters) /\ position = Len(file) /\ ParserAssumption /\ Reads
      /\ Len(file) \in Nat
  BY ParserAssumption DEF ParserIInv, FinishFile
<1>2. /\ UNCHANGED <<escape, header, file, given, position>> /\ ended' = TRUE
      /\ parser' = FinishParser(parser)
  BY DEF FinishFile
<1>3. PICK W : Rounds(W, NewParser, file) /\ ReadTo(W, file, parser, position)
  BY <1>1 DEF Reads
<1> DEFINE r == Execute(NewParser, file)
<1>4. parser \in ParserSet /\ r \in ParserSet /\ Same(parser, r) /\ parser.error = "Ok"
  BY <1>1, <1>3, EndReached
<1>5. r.error = "Ok"
  BY <1>4 DEF Same
<1>6. parser'.fields = FinishParser(r).fields /\ parser'.error = FinishParser(r).error
  BY <1>2, <1>4, FinishSame
<1>7. r' = r /\ FinishParser(r)' = FinishParser(r)
  BY <1>2, WholeFixed
<1>8. ChunksDoNotMatter'
  BY <1>5, <1>6, <1>7 DEF ChunksDoNotMatter
<1> QED
  BY <1>1, <1>2, <1>8 DEF ParserIInv, EscapeOK

LEMMA StutterIInv == ASSUME ParserIInv, UNCHANGED parserVars PROVE ParserIInv'
<1>1. escape' = escape /\ file' = file /\ position' = position /\ parser' = parser /\ ended' = ended
  BY DEF parserVars
<1>2. Reads => Reads'
  <2> SUFFICES ASSUME Reads PROVE Reads'
    OBVIOUS
  <2>1. PICK W : Rounds(W, NewParser, file) /\ ReadTo(W, file, parser, position)
    BY DEF Reads
  <2>2. PICK p, n : p = parser /\ n = position
    OBVIOUS
  <2>3. ReadTo(W, file, p, n)' /\ Rounds(W, NewParser, file)'
    BY <1>1, <2>1, <2>2, WholeFixed
  <2> QED
    BY <1>1, <2>2, <2>3 DEF Reads
<1>3. ChunksDoNotMatter => ChunksDoNotMatter'
  BY <1>1, WholeFixed DEF ChunksDoNotMatter
<1> QED
  BY <1>1, <1>2, <1>3 DEF ParserIInv, EscapeOK

(* Wherever fread ends its chunks, between a backslash or a carriage return *)
(* and the character that decides what it means too, the fields and the     *)
(* error are those of the text read whole: whatever the text.               *)
THEOREM ChunksNeverMatter == ParserSpec => []ChunksDoNotMatter
<1>1. ParserIInv /\ [ParserNext]_parserVars => ParserIInv'
  BY ChunkIInv, FinishIInv, StutterIInv DEF ParserNext, ParserDone
<1>2. ParserIInv => ChunksDoNotMatter
  BY DEF ParserIInv
<1> QED
  BY <1>1, <1>2, ParserInitIInv, PTL DEF ParserSpec
-----------------------------------------------------------------------------
(* Where s stands in the text, after the first n characters.                *)
Occurs(text, n, s) ==
  n \in Nat /\ n + Len(s) <= Len(text) /\ \A j \in 1 .. Len(s) : text[n + j] = s[j]

LEMMA OccursConcat ==
  ASSUME NEW text \in Seq(Characters), NEW a \in Seq(Characters), NEW b \in Seq(Characters),
         NEW n, Occurs(text, n, a \o b)
  PROVE  Occurs(text, n, a) /\ Occurs(text, n + Len(a), b)
<1> DEFINE c == a \o b
<1>1. /\ Len(c) = Len(a) + Len(b) /\ Len(a) \in Nat /\ Len(b) \in Nat /\ n \in Nat /\ Len(text) \in Nat
      /\ \A j \in 1 .. Len(a) : c[j] = a[j]
      /\ \A j \in 1 .. Len(b) : c[Len(a) + j] = b[j]
  BY DEF Occurs
<1>2. n + Len(c) <= Len(text) /\ \A j \in 1 .. Len(c) : text[n + j] = c[j]
  BY DEF Occurs
<1> HIDE DEF c
<1>3. ASSUME NEW j \in 1 .. Len(a) PROVE text[n + j] = a[j]
  <2>1. j \in 1 .. Len(c)
    BY <1>1
  <2> QED
    BY <1>1, <1>2, <2>1
<1>4. ASSUME NEW j \in 1 .. Len(b) PROVE text[(n + Len(a)) + j] = b[j]
  <2>1. Len(a) + j \in 1 .. Len(c) /\ (n + Len(a)) + j = n + (Len(a) + j)
    BY <1>1
  <2> QED
    BY <1>1, <1>2, <2>1
<1> QED
  BY <1>1, <1>2, <1>3, <1>4 DEF Occurs

(* Where the N parts of a joined text start, and the last one ends.         *)
Divides(at, text, n, s, N) ==
  /\ at \in [0 .. N -> Nat] /\ at[0] = n /\ at[N] = n + Len(Joined(s))
  /\ \A k \in 1 .. N : Occurs(text, at[k - 1], s[k]) /\ at[k] = at[k - 1] + Len(s[k])

LEMMA JoinedOccurs ==
  ASSUME NEW text \in Seq(Characters), NEW s, NEW N \in Nat, Len(s) = N, \A k \in 1 .. N : s[k] \in Seq(Characters),
         NEW n, Occurs(text, n, Joined(s))
  PROVE  \E at : Divides(at, text, n, s, N)
<1>1. PICK first : JoinsFirst(first, s, N)
  BY JoinedFirst
<1>2. /\ first \in [0 .. N -> Seq(Characters)] /\ first[0] = <<>> /\ first[N] = Joined(s) /\ n \in Nat
      /\ \A k \in 1 .. N : first[k] = first[k - 1] \o s[k]
  BY <1>1 DEF JoinsFirst, Occurs
<1>3. ASSUME NEW k \in 1 .. N, Occurs(text, n, first[k])
      PROVE  /\ Occurs(text, n, first[k - 1]) /\ Occurs(text, n + Len(first[k - 1]), s[k])
             /\ Len(first[k]) = Len(first[k - 1]) + Len(s[k])
  <2>1. k - 1 \in 0 .. N
    OBVIOUS
  <2>2. first[k - 1] \in Seq(Characters) /\ s[k] \in Seq(Characters) /\ first[k] = first[k - 1] \o s[k]
    BY <1>2, <2>1
  <2> QED
    BY <1>3, <2>2, OccursConcat
<1> DEFINE S == {m \in Nat : m <= N => Occurs(text, n, first[N - m])}
<1>4. 0 \in S
  BY <1>2
<1>5. ASSUME NEW m \in Nat, m \in S PROVE m + 1 \in S
  <2> SUFFICES ASSUME m + 1 <= N PROVE Occurs(text, n, first[N - (m + 1)])
    OBVIOUS
  <2>1. N - m \in 1 .. N /\ (N - m) - 1 = N - (m + 1) /\ Occurs(text, n, first[N - m])
    BY <1>5
  <2> QED
    BY <1>3, <2>1
<1>6. Nat \subseteq S
  <2> HIDE DEF S
  <2> QED
    BY <1>4, <1>5, NatSetInduction
<1>7. ASSUME NEW k \in 1 .. N PROVE Occurs(text, n, first[k])
  <2>1. N - k \in Nat /\ N - k <= N /\ N - (N - k) = k
    OBVIOUS
  <2> QED
    BY <1>6, <2>1
<1> DEFINE at == [k \in 0 .. N |-> n + Len(first[k])]
<1>8. at \in [0 .. N -> Nat]
  <2>1. \A k \in 0 .. N : n + Len(first[k]) \in Nat
    BY <1>2
  <2> QED
    BY <2>1
<1>9. at[0] = n /\ at[N] = n + Len(Joined(s))
  <2>1. 0 \in 0 .. N /\ N \in 0 .. N /\ Len(<<>>) = 0
    OBVIOUS
  <2>2. at[0] = n + Len(first[0]) /\ at[N] = n + Len(first[N])
    BY <2>1
  <2> HIDE DEF at
  <2> QED
    BY <1>2, <2>1, <2>2
<1>10. ASSUME NEW k \in 1 .. N PROVE Occurs(text, at[k - 1], s[k]) /\ at[k] = at[k - 1] + Len(s[k])
  <2>1. k - 1 \in 0 .. N /\ k \in 0 .. N
    OBVIOUS
  <2>2. at[k - 1] = n + Len(first[k - 1]) /\ at[k] = n + Len(first[k])
    BY <2>1
  <2>3. Occurs(text, n + Len(first[k - 1]), s[k]) /\ Len(first[k]) = Len(first[k - 1]) + Len(s[k])
    BY <1>3, <1>7
  <2>4. Len(first[k - 1]) \in Nat /\ Len(s[k]) \in Nat
    BY <1>2, <2>1
  <2> QED
    BY <1>2, <2>2, <2>3, <2>4
<1> HIDE DEF at
<1> QED
  BY <1>8, <1>9, <1>10 DEF Divides
-----------------------------------------------------------------------------
(* The fields added one after the other.                                    *)
Values == {ValueOf(Types[event[1] + 1], event[3]) : event \in Event}
AddStates == [record : Seq(Values), table : Seq(Seq(Values))]
NoneAdded == [record |-> <<>>, table |-> <<>>]
Adds(f, fields) ==
  /\ f \in [0 .. Len(fields) -> AddStates] /\ f[0] = NoneAdded
  /\ \A n \in 1 .. Len(fields) : f[n] = AddField(f[n - 1], fields[n])

LEMMA LeadingAll ==
  ASSUME NEW text \in Seq(Digits)
  PROVE  LeadingDigits(text) = text
<1> DEFINE digits == {n \in 0 .. Len(text) : \A m \in 1 .. n : text[m] \in Digits}
           longest == CHOOSE n \in digits : \A m \in digits : m <= n
<1>1. Len(text) \in Nat /\ Len(text) \in digits /\ \A m \in digits : m <= Len(text)
  OBVIOUS
<1>2. longest \in digits /\ \A m \in digits : m <= longest
  BY <1>1
<1>3. longest = Len(text)
  BY <1>1, <1>2
<1>4. LeadingDigits(text) = SubSeq(text, 1, longest)
  BY DEF LeadingDigits
<1> QED
  BY <1>3, <1>4, SubSeqFull

LEMMA AddFieldType ==
  ASSUME NEW state \in AddStates, NEW event \in Event
  PROVE  AddField(state, event) \in AddStates
<1> DEFINE value == ValueOf(Types[event[1] + 1], event[3])
           record == Append(state.record, value)
           table == Append(state.table, record)
<1>1. value \in Values
  BY DEF Values
<1>2. state.record \in Seq(Values) /\ state.table \in Seq(Seq(Values))
  BY DEF AddStates
<1>3. AddField(state, event) \in {state, [record |-> <<>>, table |-> table], [state EXCEPT !.record = record]}
  BY DEF AddField
<1> HIDE DEF value
<1>4. record \in Seq(Values)
  BY <1>1, <1>2, AppendProperties
<1> HIDE DEF record
<1>5. table \in Seq(Seq(Values))
  BY <1>2, <1>4, AppendProperties
<1> HIDE DEF table
<1>6. <<>> \in Seq(Values)
  OBVIOUS
<1>7. [record |-> <<>>, table |-> table] \in AddStates
  BY <1>5, <1>6 DEF AddStates
<1>8. [state EXCEPT !.record = record] \in AddStates
  BY <1>4 DEF AddStates
<1> QED
  BY <1>3, <1>7, <1>8

LEMMA AddsUnique ==
  ASSUME NEW fields \in Seq(Event), NEW f, NEW g, Adds(f, fields), Adds(g, fields)
  PROVE  f[Len(fields)] = g[Len(fields)]
<1> DEFINE N == Len(fields)
           T == {n \in Nat : n <= N => f[n] = g[n]}
<1>1. N \in Nat
  OBVIOUS
<1>2. 0 \in T
  BY DEF Adds
<1>3. ASSUME NEW n \in Nat, n \in T PROVE n + 1 \in T
  <2> SUFFICES ASSUME n + 1 <= N PROVE f[n + 1] = g[n + 1]
    OBVIOUS
  <2>1. f[n] = g[n] /\ n + 1 \in 1 .. N /\ (n + 1) - 1 = n
    BY <1>1, <1>3
  <2> QED
    BY <2>1 DEF Adds
<1> HIDE DEF T
<1>4. N \in T
  BY <1>1, <1>2, <1>3, NatSetInduction
<1> QED
  BY <1>1, <1>4 DEF T

LEMMA AddsExist ==
  ASSUME NEW fields \in Seq(Event)
  PROVE  \E f : Adds(f, fields) /\ AddFields(fields) = f[Len(fields)]
<1> DEFINE N == Len(fields)
           R(f) == f = [n \in 0 .. N |-> IF n = 0 THEN [record |-> <<>>, table |-> <<>>]
                                                  ELSE AddField(f[n - 1], fields[n])]
           added == CHOOSE f : R(f)
           G == [x \in (1 .. N) \X AddStates |-> AddField(x[2], fields[x[1]])]
<1>1. N \in Nat /\ \A n \in 1 .. N : fields[n] \in Event
  OBVIOUS
<1>2. NoneAdded \in AddStates
  BY DEF AddStates, NoneAdded
<1>3. G \in StepsOf(N, AddStates)
  <2>1. \A x \in (1 .. N) \X AddStates : AddField(x[2], fields[x[1]]) \in AddStates
    BY <1>1, AddFieldType
  <2> QED
    BY <2>1 DEF StepsOf
<1>4. ASSUME NEW n \in 1 .. N, NEW x \in AddStates PROVE G[<<n, x>>] = AddField(x, fields[n])
  OBVIOUS
<1> HIDE DEF G, N
<1>5. PICK f : Iterates(f, N, AddStates, NoneAdded, G)
  BY <1>1, <1>2, <1>3, RecursionExists
<1>6. Adds(f, fields)
  <2>1. ASSUME NEW n \in 1 .. N PROVE f[n] = AddField(f[n - 1], fields[n])
    <3>1. n - 1 \in 0 .. N
      BY <1>1
    <3>2. f[n - 1] \in AddStates /\ f[n] = G[<<n, f[n - 1]>>]
      BY <1>5, <3>1 DEF Iterates
    <3> QED
      BY <1>4, <3>2
  <2> QED
    BY <1>5, <2>1 DEF Adds, Iterates, N
<1>7. R(f)
  <2>1. \A n \in 0 .. N : f[n] = IF n = 0 THEN [record |-> <<>>, table |-> <<>>] ELSE AddField(f[n - 1], fields[n])
    BY <1>1, <1>6 DEF Adds, NoneAdded, N
  <2>2. f \in [0 .. N -> AddStates]
    BY <1>6 DEF Adds, N
  <2> QED
    BY <2>1, <2>2
<1>8. R(added)
  BY <1>7, Zenon
<1>9. AddFields(fields) = added[N]
  BY Zenon DEF AddFields, N
<1> HIDE DEF added
<1>10. Adds(added, fields)
  <2>1. \A n \in 0 .. N : added[n] = IF n = 0 THEN [record |-> <<>>, table |-> <<>>] ELSE AddField(added[n - 1], fields[n])
    BY <1>8
  <2>2. 0 \in 0 .. N /\ 1 .. N \subseteq 0 .. N
    BY <1>1
  <2>3. added[0] = NoneAdded /\ \A n \in 1 .. N : added[n] = AddField(added[n - 1], fields[n])
    BY <2>1, <2>2 DEF NoneAdded
  <2> DEFINE T == {n \in Nat : n <= N => added[n] \in AddStates}
  <2>4. 0 \in T
    BY <1>2, <2>3
  <2>5. ASSUME NEW n \in Nat, n \in T PROVE n + 1 \in T
    <3> SUFFICES ASSUME n + 1 <= N PROVE added[n + 1] \in AddStates
      OBVIOUS
    <3>1. n + 1 \in 1 .. N /\ (n + 1) - 1 = n /\ added[n] \in AddStates
      BY <1>1, <2>5
    <3>2. added[n + 1] = AddField(added[n], fields[n + 1])
      BY <2>3, <3>1
    <3> QED
      BY <1>1, <3>1, <3>2, AddFieldType
  <2> HIDE DEF T
  <2>6. Nat \subseteq T
    BY <2>4, <2>5, NatSetInduction
  <2>7. \A n \in 0 .. N : added[n] \in AddStates
    BY <1>1, <2>6 DEF T
  <2>8. added \in [0 .. N -> AddStates]
    BY <1>8, <2>7
  <2> QED
    BY <2>3, <2>8 DEF Adds, N
<1> QED
  BY <1>9, <1>10 DEF N

(* One field more.                                                          *)
LEMMA AddFieldsAppend ==
  ASSUME NEW fields \in Seq(Event), NEW event \in Event
  PROVE  AddFields(Append(fields, event)) = AddField(AddFields(fields), event)
<1> DEFINE N == Len(fields)
           longer == Append(fields, event)
<1>1. /\ N \in Nat /\ longer \in Seq(Event) /\ Len(longer) = N + 1
      /\ longer[N + 1] = event /\ \A n \in 1 .. N : longer[n] = fields[n]
  OBVIOUS
<1> HIDE DEF longer
<1>2. PICK f : Adds(f, fields) /\ AddFields(fields) = f[N]
  BY AddsExist
<1>3. PICK g : Adds(g, longer) /\ AddFields(longer) = g[N + 1]
  BY <1>1, AddsExist
<1> DEFINE h == [n \in 0 .. N |-> g[n]]
<1>4. Adds(h, fields)
  <2>1. \A n \in 0 .. N : h[n] = g[n] /\ g[n] \in AddStates
    BY <1>1, <1>3 DEF Adds
  <2>2. h \in [0 .. N -> AddStates]
    BY <2>1
  <2> HIDE DEF h
  <2>3. ASSUME NEW n \in 1 .. N PROVE h[n] = AddField(h[n - 1], fields[n])
    <3>1. n \in 0 .. N /\ n - 1 \in 0 .. N /\ n \in 1 .. N + 1
      BY <1>1
    <3>2. g[n] = AddField(g[n - 1], longer[n])
      BY <1>1, <1>3, <3>1 DEF Adds
    <3> QED
      BY <1>1, <2>1, <3>1, <3>2
  <2>4. h[0] = NoneAdded
    BY <1>1, <1>3, <2>1 DEF Adds
  <2> QED
    BY <2>2, <2>3, <2>4 DEF Adds
<1>5. h[N] = f[N]
  BY <1>2, <1>4, AddsUnique
<1>6. N + 1 \in 1 .. N + 1 /\ (N + 1) - 1 = N /\ N \in 0 .. N
  BY <1>1
<1>7. g[N + 1] = AddField(g[N], longer[N + 1])
  BY <1>1, <1>3, <1>6 DEF Adds
<1> QED
  BY <1>1, <1>2, <1>3, <1>5, <1>6, <1>7 DEF longer

LEMMA AddFieldsNone == AddFields(<<>>) = NoneAdded
<1>1. <<>> \in Seq(Event)
  OBVIOUS
<1>2. PICK f : Adds(f, <<>>) /\ AddFields(<<>>) = f[Len(<<>>)]
  BY <1>1, AddsExist
<1> QED
  BY <1>2 DEF Adds
-----------------------------------------------------------------------------
(* The whole text read in rounds, W; a parser that has read n characters,   *)
(* the last of them into the field f, and two parsers in the same column.   *)
Parses(W, text) ==
  ParserAssumption /\ escape = Backslash /\ text \in Seq(Characters) /\ Rounds(W, NewParser, text)
Inside == TRUE      \* quotes
Outside == FALSE
Reading(p, n, f, quoted) ==
  /\ p \in ParserSet /\ p.i = n + 1 /\ p.error = "Ok" /\ ~p.escaping /\ ~p.newlining
  /\ p.quoted = quoted /\ p.field = f
LEMMA Sides == Inside # Outside
  BY DEF Inside, Outside
SameColumn(p, q) ==
  /\ q.col = p.col /\ q.row = p.row /\ q.numCols = p.numCols /\ q.afterFirstRow = p.afterFirstRow
  /\ q.fields = p.fields

LEMMA ReadReads ==
  ASSUME NEW n \in Nat, NEW p, NEW f, NEW quoted, Reading(p, n, f, quoted)
  PROVE  Reading(Read(p), n + 1, f, quoted) /\ SameColumn(p, Read(p)) /\ ~Read(p).afterRecordSep
<1>1. p \in ParserSet /\ Pair(p, p, 0)
  BY DEF Reading, Pair, Ahead, Same, ParserSet
<1>2. 0 \in Int
  OBVIOUS
<1>3. Pair(Read(p), Read(p), 0) /\ Read(p).i = p.i + 1 /\ Marks(Read(p), p.quoted, FALSE, p.escaping, p.newlining)
      /\ Read(p).error = p.error
  BY <1>1, <1>2, ReadPair
<1>4. SameColumn(p, Read(p)) /\ Read(p).field = p.field
  BY <1>1 DEF Read, ParserSet, SameColumn
<1> DEFINE o == Read(p)
<1> HIDE DEF o
<1>5. o \in ParserSet /\ o.i = p.i + 1 /\ Marks(o, p.quoted, FALSE, p.escaping, p.newlining) /\ o.error = p.error
      /\ SameColumn(p, o) /\ o.field = p.field
  BY <1>3, <1>4 DEF o, Pair
<1>6. Reading(o, n + 1, f, quoted) /\ SameColumn(p, o) /\ ~o.afterRecordSep
  BY <1>5 DEF Reading, Marks
<1> QED
  BY <1>6 DEF o

LEMMA PushReads ==
  ASSUME NEW n \in Nat, NEW p, NEW f, NEW quoted, Reading(p, n, f, quoted), NEW c \in Characters
  PROVE  /\ Reading(Push(p, c), n, Append(f, c), quoted) /\ SameColumn(p, Push(p, c))
         /\ Push(p, c).afterRecordSep = p.afterRecordSep
<1>1. p \in ParserSet
  BY DEF Reading
<1>2. Push(p, c) \in ParserSet /\ Push(p, c).i = p.i /\ Push(p, c).error = p.error
  BY <1>1, PushParser
<1> DEFINE o == Push(p, c)
<1>3. /\ o.field = Append(p.field, c) /\ o.quoted = p.quoted /\ o.escaping = p.escaping /\ o.newlining = p.newlining
      /\ o.afterRecordSep = p.afterRecordSep /\ SameColumn(p, o)
  BY <1>1 DEF Push, ParserSet, SameColumn
<1>4. o \in ParserSet /\ o.i = p.i /\ o.error = p.error
  BY <1>2
<1> HIDE DEF o
<1>5. Reading(o, n, Append(f, c), quoted) /\ SameColumn(p, o) /\ o.afterRecordSep = p.afterRecordSep
  BY <1>3, <1>4 DEF Reading
<1> QED
  BY <1>5 DEF o

(* The round of a parser that has read n characters.                        *)
LEMMA RoundReads ==
  ASSUME NEW W, NEW text, Parses(W, text), NEW n \in Nat, n + 1 <= Len(text),
         NEW f, NEW quoted, Reading(W[n], n, f, quoted)
  PROVE  W[n + 1] = CharAt(W[n], text) /\ Forms(W[n], text, text[n + 1]) /\ text[n + 1] \in Characters
<1>1. n + 1 \in 1 .. Len(text) /\ (n + 1) - 1 = n /\ text[n + 1] \in Characters
  BY DEF Parses
<1>2. W[n + 1] = Round(W[n], text, n + 1)
  BY <1>1 DEF Parses, Rounds
<1>3. W[n + 1] = CharAt(W[n], text)
  BY <1>2 DEF Round, Reading
<1>4. W[n] \in ParserSet /\ text[n + 1] = text[W[n].i]
  BY DEF Reading
<1>5. Forms(W[n], text, text[n + 1])
  BY <1>1, <1>4, CharForms DEF Parses, EscapeOK
<1> QED
  BY <1>1, <1>3, <1>5

(* A character that means itself.                                           *)
LEMMA CharRead ==
  ASSUME NEW W, NEW text, Parses(W, text), NEW n \in Nat, n + 1 <= Len(text),
         NEW f, NEW quoted \in {Inside, Outside}, Reading(W[n], n, f, quoted), text[n + 1] # Quote,
         quoted = Inside => text[n + 1] # Backslash, quoted = Outside => text[n + 1] \notin {Comma, LF, CR}
  PROVE  /\ Reading(W[n + 1], n + 1, Append(f, text[n + 1]), quoted) /\ SameColumn(W[n], W[n + 1])
         /\ ~W[n + 1].afterRecordSep
<1> DEFINE c == text[n + 1]
           p == W[n]
<1>1. W[n + 1] = CharAt(p, text) /\ Forms(p, text, c) /\ c \in Characters
  BY RoundReads
<1>2. p.quoted = quoted /\ p \in ParserSet
  BY DEF Reading
<1>3. CharAt(p, text) = Push(Read(p), c)
  BY <1>1, <1>2 DEF Forms, Parses, Inside, Outside
<1>4. Reading(Read(p), n + 1, f, quoted) /\ SameColumn(p, Read(p)) /\ ~Read(p).afterRecordSep
  BY ReadReads
<1> DEFINE o == Read(p)
<1>5. Reading(Push(o, c), n + 1, Append(f, c), quoted) /\ SameColumn(o, Push(o, c))
      /\ Push(o, c).afterRecordSep = o.afterRecordSep
  BY <1>1, <1>4, PushReads
<1> QED
  BY <1>1, <1>3, <1>4, <1>5 DEF SameColumn

(* A quote opens or closes.                                                 *)
LEMMA QuoteOpens ==
  ASSUME NEW W, NEW text, Parses(W, text), NEW n \in Nat, n + 1 <= Len(text),
         NEW f, Reading(W[n], n, f, Outside), text[n + 1] = Quote
  PROVE  /\ Reading(W[n + 1], n + 1, f, Inside) /\ SameColumn(W[n], W[n + 1])
         /\ ~W[n + 1].afterRecordSep
<1> DEFINE p == W[n]
           o == Read(p)
<1>1. W[n + 1] = CharAt(p, text) /\ Forms(p, text, text[n + 1])
  BY RoundReads
<1>2. p.quoted = Outside /\ escape # Quote
  BY DEF Reading, Parses, ParserAssumption
<1>3. W[n + 1] = [o EXCEPT !.quoted = Inside]
  BY <1>1, <1>2 DEF Forms, Inside, Outside
<1>4. Reading(o, n + 1, f, Outside) /\ SameColumn(p, o) /\ ~o.afterRecordSep
  BY ReadReads
<1> HIDE DEF o
<1>5. LET q == [o EXCEPT !.quoted = Inside]
      IN  Reading(q, n + 1, f, Inside) /\ SameColumn(o, q) /\ ~q.afterRecordSep
  BY <1>4 DEF Reading, ParserSet, SameColumn, Inside, Outside
<1> QED
  BY <1>3, <1>4, <1>5 DEF SameColumn

LEMMA QuoteCloses ==
  ASSUME NEW W, NEW text, Parses(W, text), NEW n \in Nat, n + 1 <= Len(text),
         NEW f, Reading(W[n], n, f, Inside), text[n + 1] = Quote
  PROVE  /\ Reading(W[n + 1], n + 1, f, Outside) /\ SameColumn(W[n], W[n + 1])
         /\ ~W[n + 1].afterRecordSep
<1> DEFINE p == W[n]
           o == Read(p)
<1>1. W[n + 1] = CharAt(p, text) /\ Forms(p, text, text[n + 1])
  BY RoundReads
<1>2. p.quoted = Inside /\ escape # Quote
  BY DEF Reading, Parses, ParserAssumption
<1>3. W[n + 1] = [o EXCEPT !.quoted = Outside]
  BY <1>1, <1>2 DEF Forms, Inside, Outside
<1>4. Reading(o, n + 1, f, Inside) /\ SameColumn(p, o) /\ ~o.afterRecordSep
  BY ReadReads
<1> HIDE DEF o
<1>5. LET q == [o EXCEPT !.quoted = Outside]
      IN  Reading(q, n + 1, f, Outside) /\ SameColumn(o, q) /\ ~q.afterRecordSep
  BY <1>4 DEF Reading, ParserSet, SameColumn, Inside, Outside
<1> QED
  BY <1>3, <1>4, <1>5 DEF SameColumn

(* A backslash, and the quote or backslash after it.                        *)
LEMMA EscapeRead ==
  ASSUME NEW W, NEW text, Parses(W, text), NEW n \in Nat, n + 2 <= Len(text),
         NEW f, Reading(W[n], n, f, Inside), text[n + 1] = Backslash, text[n + 2] \in {Quote, Backslash}
  PROVE  /\ Reading(W[n + 2], n + 2, Append(f, text[n + 2]), Inside) /\ SameColumn(W[n], W[n + 2])
         /\ ~W[n + 2].afterRecordSep
<1> DEFINE p == W[n]
           o == Read(p)
           c == text[n + 2]
           q == Push(o, c)
           next == [q EXCEPT !.i = @ + 1]
<1>1. Len(text) \in Nat /\ n + 1 <= Len(text) /\ n + 2 \in 1 .. Len(text) /\ (n + 2) - 1 = n + 1
  BY DEF Parses
<1>2. W[n + 1] = CharAt(p, text) /\ Forms(p, text, text[n + 1])
  BY <1>1, RoundReads
<1>3. p.quoted = Inside /\ p.i = n + 1 /\ escape = Backslash /\ c \in Characters
  BY <1>1 DEF Reading, Parses
<1>4. p.i # Len(text) /\ text[p.i + 1] = c
  BY <1>1, <1>3
<1>5. W[n + 1] = EscapeThen(o, c)
  BY <1>2, <1>3, <1>4 DEF Forms, Inside
<1>6. EscapeThen(o, c) = next
  BY <1>3 DEF EscapeThen, Parses, ParserAssumption
<1>7. Reading(o, n + 1, f, Inside) /\ SameColumn(p, o) /\ ~o.afterRecordSep
  BY ReadReads
<1> HIDE DEF o
<1>8. Reading(q, n + 1, Append(f, c), Inside) /\ SameColumn(o, q) /\ ~q.afterRecordSep
  <2>1. n + 1 \in Nat
    OBVIOUS
  <2> QED
    BY <1>3, <1>7, <2>1, PushReads
<1> HIDE DEF q
<1>9. Reading(next, n + 2, Append(f, c), Inside) /\ SameColumn(q, next) /\ ~next.afterRecordSep
  <2>1. q \in ParserSet /\ q.i = n + 2 /\ q.i + 1 = n + 3 /\ n + 3 \in Nat /\ (n + 2) + 1 = n + 3
    BY <1>8 DEF Reading
  <2>2. next = [q EXCEPT !.i = n + 3]
    BY <2>1
  <2> DEFINE m == n + 3
  <2> HIDE DEF m
  <2>3. LET x == [q EXCEPT !.i = m]
        IN  x \in ParserSet /\ x.i = m /\ x.error = q.error /\ x.escaping = q.escaping /\ x.newlining = q.newlining
            /\ x.quoted = q.quoted /\ x.field = q.field /\ SameColumn(q, x) /\ x.afterRecordSep = q.afterRecordSep
    BY <2>1 DEF ParserSet, SameColumn, m
  <2> QED
    BY <1>8, <2>1, <2>2, <2>3 DEF Reading, m
<1>10. W[n + 2] = W[n + 1]
  <2>1. W[n + 2] = Round(W[n + 1], text, n + 2)
    BY <1>1 DEF Parses, Rounds
  <2>2. W[n + 1].i = n + 3
    BY <1>5, <1>6, <1>9 DEF Reading
  <2> QED
    BY <2>1, <2>2 DEF Round
<1> QED
  BY <1>5, <1>6, <1>7, <1>8, <1>9, <1>10 DEF SameColumn
-----------------------------------------------------------------------------
(* From n characters to m the parser has read f, in one column.             *)
Takes(W, n, m, f, quoted) ==
  /\ n \in Nat /\ m \in Nat /\ n <= m
  /\ Reading(W[m], m, f, quoted) /\ SameColumn(W[n], W[m])
  /\ m > n => ~W[m].afterRecordSep

LEMMA TakesOn ==
  ASSUME NEW W, NEW n, NEW m, NEW f, NEW quoted, Takes(W, n, m, f, quoted),
         NEW k, NEW g, NEW then, m < k, Takes(W, m, k, g, then)
  PROVE  Takes(W, n, k, g, then)
  BY DEF Takes, SameColumn

LEMMA OneMore ==
  ASSUME NEW value \in Seq(Characters), NEW k \in Nat, k < Len(value)
  PROVE  SubSeq(value, 1, k + 1) = Append(SubSeq(value, 1, k), value[k + 1]) /\ value[k + 1] \in Characters
<1>1. k + 1 \in 1 .. Len(value) /\ 1 \in 1 .. Len(value) /\ k + 1 \in 1 .. Len(value) /\ (k + 1) - 1 = k
  OBVIOUS
<1>2. SubSeq(value, 1, k + 1) = SubSeq(value, 1, k) \o <<value[k + 1]>>
  BY <1>1, SubSeqRecursiveSecond
<1>3. SubSeq(value, 1, k) \in Seq(Characters) /\ value[k + 1] \in Characters
  BY <1>1
<1> QED
  BY <1>2, <1>3, AppendIsConcat

(* A field of digits and letters.                                           *)
LEMMA PlainTaken ==
  ASSUME TablesAssumption, NEW W, NEW text, Parses(W, text),
         NEW n, NEW value \in Seq(Digits \cup Letters), Occurs(text, n, value), Reading(W[n], n, <<>>, Outside)
  PROVE  Takes(W, n, n + Len(value), value, Outside)
<1> DEFINE S == {k \in Nat : k <= Len(value) => Takes(W, n, n + k, SubSeq(value, 1, k), Outside)}
<1>1. /\ Len(value) \in Nat /\ n \in Nat /\ n + Len(value) <= Len(text) /\ Len(text) \in Nat
      /\ \A j \in 1 .. Len(value) : text[n + j] = value[j]
  BY DEF Occurs, Parses
<1>2. value \in Seq(Characters)
  BY DEF Characters
<1>3. 0 \in S
  <2>1. SubSeq(value, 1, 0) = <<>> /\ n + 0 = n
    BY <1>1, SubSeqEmpty
  <2>2. Takes(W, n, n, <<>>, Outside)
    BY <1>1 DEF Takes, SameColumn
  <2> QED
    BY <2>1, <2>2
<1>4. ASSUME NEW k \in Nat, k \in S PROVE k + 1 \in S
  <2> SUFFICES ASSUME k + 1 <= Len(value) PROVE Takes(W, n, n + (k + 1), SubSeq(value, 1, k + 1), Outside)
    OBVIOUS
  <2> DEFINE m == n + k
             f == SubSeq(value, 1, k)
  <2>1. Takes(W, n, m, f, Outside) /\ k < Len(value) /\ k + 1 \in 1 .. Len(value)
    BY <1>1, <1>4
  <2>2. SubSeq(value, 1, k + 1) = Append(f, value[k + 1])
    BY <1>2, <2>1, OneMore
  <2>3. m \in Nat /\ m + 1 = n + (k + 1) /\ m + 1 <= Len(text) /\ text[m + 1] = value[k + 1]
    BY <1>1, <2>1
  <2>4. value[k + 1] \in Digits \cup Letters
    BY <2>1
  <2>5. value[k + 1] \notin {Comma, LF, CR, Quote, Backslash}
    BY <2>4 DEF TablesAssumption
  <2> HIDE DEF m, f
  <2>6. Reading(W[m], m, f, Outside)
    BY <2>1 DEF Takes
  <2>7. /\ Reading(W[m + 1], m + 1, Append(f, text[m + 1]), Outside) /\ SameColumn(W[m], W[m + 1])
        /\ ~W[m + 1].afterRecordSep
    BY <2>3, <2>5, <2>6, CharRead
  <2>8. Takes(W, m, m + 1, Append(f, text[m + 1]), Outside)
    BY <2>3, <2>7 DEF Takes
  <2>9. m < m + 1
    BY <2>3
  <2>10. Takes(W, n, m + 1, Append(f, text[m + 1]), Outside)
    BY <2>1, <2>8, <2>9, TakesOn
  <2> QED
    BY <2>2, <2>3, <2>10
<1>5. Nat \subseteq S
  <2> HIDE DEF S
  <2> QED
    BY <1>3, <1>4, NatSetInduction
<1>6. Takes(W, n, n + Len(value), SubSeq(value, 1, Len(value)), Outside)
  BY <1>1, <1>5
<1> QED
  BY <1>2, <1>6, SubSeqFull

(* What is inside quotes.                                                   *)
LEMMA EscapedTaken ==
  ASSUME TablesAssumption, NEW W, NEW text, Parses(W, text),
         NEW n, NEW value \in Seq(Characters), Occurs(text, n, Escaped(value)), Reading(W[n], n, <<>>, Inside)
  PROVE  Takes(W, n, n + Len(Escaped(value)), value, Inside)
<1> DEFINE N == Len(value)
           s == [j \in 1 .. N |-> IF value[j] \in {Quote, Backslash} THEN <<Backslash, value[j]>> ELSE <<value[j]>>]
<1>1. N \in Nat /\ Len(s) = N /\ Escaped(value) = Joined(s) /\ \A j \in 1 .. N : value[j] \in Characters
  BY DEF Escaped
<1>2. Quote \in Characters /\ Backslash \in Characters /\ text \in Seq(Characters) /\ Len(text) \in Nat
  BY DEF Characters, Parses
<1>3. \A j \in 1 .. N : /\ value[j] \in {Quote, Backslash} => s[j] = <<Backslash, value[j]>>
                        /\ value[j] \notin {Quote, Backslash} => s[j] = <<value[j]>>
  OBVIOUS
<1> HIDE DEF s
<1>4. \A j \in 1 .. N : s[j] \in Seq(Characters)
  <2> TAKE j \in 1 .. N
  <2>1. value[j] \in Characters
    BY <1>1
  <2>2. <<Backslash, value[j]>> \in Seq(Characters) /\ <<value[j]>> \in Seq(Characters)
    BY <1>2, <2>1
  <2> QED
    BY <1>3, <2>2
<1> HIDE DEF N
<1>5. PICK at : Divides(at, text, n, s, N)
  BY <1>1, <1>2, <1>4, JoinedOccurs
<1> DEFINE S == {k \in Nat : k <= N => Takes(W, n, at[k], SubSeq(value, 1, k), Inside)}
<1>6. 0 \in S
  <2>1. SubSeq(value, 1, 0) = <<>> /\ at[0] = n /\ n \in Nat
    BY SubSeqEmpty, <1>5 DEF Divides, Occurs
  <2>2. Takes(W, n, n, <<>>, Inside)
    BY <2>1 DEF Takes, SameColumn
  <2> QED
    BY <2>1, <2>2
<1>7. ASSUME NEW k \in Nat, k \in S PROVE k + 1 \in S
  <2> SUFFICES ASSUME k + 1 <= N PROVE Takes(W, n, at[k + 1], SubSeq(value, 1, k + 1), Inside)
    OBVIOUS
  <2> DEFINE m == at[k]
             f == SubSeq(value, 1, k)
             c == value[k + 1]
  <2>1. Takes(W, n, m, f, Inside) /\ k < N /\ k + 1 \in 1 .. N /\ (k + 1) - 1 = k /\ k \in 0 .. N
    BY <1>1, <1>7
  <2>2. SubSeq(value, 1, k + 1) = Append(f, c)
    BY <2>1, OneMore DEF N
  <2>3. m \in Nat /\ Occurs(text, m, s[k + 1]) /\ at[k + 1] = m + Len(s[k + 1])
    BY <1>5, <2>1 DEF Divides
  <2> HIDE DEF m, f, c
  <2>4. Reading(W[m], m, f, Inside)
    BY <2>1 DEF Takes
  <2>5. CASE c \in {Quote, Backslash}
    <3>1. s[k + 1] = <<Backslash, c>>
      BY <1>3, <2>1, <2>5 DEF c
    <3>2. Len(s[k + 1]) = 2 /\ s[k + 1][1] = Backslash /\ s[k + 1][2] = c
      BY <3>1
    <3>3. at[k + 1] = m + 2 /\ m + 2 <= Len(text) /\ text[m + 1] = Backslash /\ text[m + 2] = c
      BY <2>3, <3>2 DEF Occurs
    <3>4. /\ Reading(W[m + 2], m + 2, Append(f, c), Inside) /\ SameColumn(W[m], W[m + 2])
          /\ ~W[m + 2].afterRecordSep
      BY <2>3, <2>4, <2>5, <3>3, EscapeRead
    <3>5. Takes(W, m, m + 2, Append(f, c), Inside) /\ m < m + 2
      BY <2>3, <3>4 DEF Takes
    <3>6. Takes(W, n, m + 2, Append(f, c), Inside)
      BY <2>1, <3>5, TakesOn
    <3> QED
      BY <2>2, <3>3, <3>6
  <2>6. CASE c \notin {Quote, Backslash}
    <3>1. s[k + 1] = <<c>>
      BY <1>3, <2>1, <2>6 DEF c
    <3>2. Len(s[k + 1]) = 1 /\ s[k + 1][1] = c
      BY <3>1
    <3>3. at[k + 1] = m + 1 /\ m + 1 <= Len(text) /\ text[m + 1] = c
      BY <2>3, <3>2 DEF Occurs
    <3>4. /\ Reading(W[m + 1], m + 1, Append(f, c), Inside) /\ SameColumn(W[m], W[m + 1])
          /\ ~W[m + 1].afterRecordSep
      BY <2>3, <2>4, <2>6, <3>3, CharRead, Sides
    <3>5. Takes(W, m, m + 1, Append(f, c), Inside) /\ m < m + 1
      BY <2>3, <3>4 DEF Takes
    <3>6. Takes(W, n, m + 1, Append(f, c), Inside)
      BY <2>1, <3>5, TakesOn
    <3> QED
      BY <2>2, <3>3, <3>6
  <2> QED
    BY <2>5, <2>6
<1>8. Nat \subseteq S
  <2> HIDE DEF S
  <2> QED
    BY <1>6, <1>7, NatSetInduction
<1>9. Takes(W, n, at[N], SubSeq(value, 1, N), Inside)
  BY <1>1, <1>8
<1>10. at[N] = n + Len(Escaped(value)) /\ SubSeq(value, 1, N) = value
  BY <1>1, <1>5, SubSeqFull DEF Divides, N
<1> QED
  BY <1>9, <1>10

(* The text of a value.                                                     *)
Content(value) == IF value = Null THEN <<>> ELSE value

LEMMA FieldTaken ==
  ASSUME TablesAssumption, NEW W, NEW text, Parses(W, text),
         NEW n, NEW value \in {Null} \cup Seq(Characters), value # <<>>,
         Occurs(text, n, FieldText(value)), Reading(W[n], n, <<>>, Outside)
  PROVE  /\ Takes(W, n, n + Len(FieldText(value)), Content(value), Outside)
         /\ value = Null \/ Len(FieldText(value)) > 0
<1>1. n \in Nat /\ FieldText(value) \in Seq(Characters) /\ text \in Seq(Characters) /\ Quote \in Characters
  BY FieldIsText DEF Occurs, Parses, Characters
<1>2. CASE value = Null
  <2>1. FieldText(value) = <<>> /\ Content(value) = <<>> /\ n + Len(<<>>) = n
    BY <1>1, <1>2 DEF FieldText, Content
  <2> QED
    BY <1>1, <1>2, <2>1 DEF Takes, SameColumn
<1>3. CASE value # Null /\ \A k \in 1 .. Len(value) : value[k] \in Digits \cup Letters
  <2>1. FieldText(value) = value /\ Content(value) = value /\ value \in Seq(Characters)
    BY <1>3 DEF FieldText, Content
  <2>2. value \in Seq(Digits \cup Letters) /\ Len(value) > 0
    BY <1>3, <2>1
  <2> QED
    BY <2>1, <2>2, PlainTaken
<1>4. CASE value # Null /\ ~\A k \in 1 .. Len(value) : value[k] \in Digits \cup Letters
  <2> DEFINE e == Escaped(value)
             L == Len(e)
  <2>1. FieldText(value) = <<Quote>> \o e \o <<Quote>> /\ Content(value) = value /\ value \in Seq(Characters)
    BY <1>4 DEF FieldText, Content
  <2>2. e \in Seq(Characters) /\ <<Quote>> \in Seq(Characters) /\ L \in Nat
    <3>1. e \in Seq(Characters)
      BY <2>1, EscapedIsText
    <3> HIDE DEF e
    <3> QED
      BY <1>1, <3>1
  <2> HIDE DEF e, L
  <2>3. <<Quote>> \o e \in Seq(Characters) /\ Len(<<Quote>> \o e) = L + 1 /\ Len(FieldText(value)) = L + 2
    BY <2>1, <2>2 DEF L
  <2>4. Occurs(text, n, <<Quote>> \o e) /\ Occurs(text, n + (L + 1), <<Quote>>)
    BY <1>1, <2>1, <2>2, <2>3, OccursConcat
  <2>5. Occurs(text, n, <<Quote>>) /\ Occurs(text, n + 1, e)
    <3>1. Len(<<Quote>>) = 1
      OBVIOUS
    <3> QED
      BY <1>1, <2>2, <2>4, <3>1, OccursConcat
  <2>6. /\ n + 1 <= Len(text) /\ text[n + 1] = Quote
        /\ (n + (L + 1)) + 1 <= Len(text) /\ text[(n + (L + 1)) + 1] = Quote
    BY <2>4, <2>5 DEF Occurs
  <2>7. /\ Reading(W[n + 1], n + 1, <<>>, Inside) /\ SameColumn(W[n], W[n + 1]) /\ ~W[n + 1].afterRecordSep
    BY <1>1, <2>6, QuoteOpens
  <2>8. Takes(W, n, n + 1, <<>>, Inside)
    BY <1>1, <2>7 DEF Takes
  <2> DEFINE m == (n + 1) + L
  <2>9. Takes(W, n + 1, m, value, Inside)
    BY <2>1, <2>5, <2>7, EscapedTaken DEF e, L
  <2>10. m \in Nat /\ m = n + (L + 1) /\ m + 1 = n + Len(FieldText(value)) /\ n <= m /\ n < m + 1 /\ m < m + 1
    BY <1>1, <2>2, <2>3
  <2> HIDE DEF m
  <2>11. Reading(W[m], m, value, Inside)
    BY <2>9 DEF Takes
  <2>12. /\ Reading(W[m + 1], m + 1, value, Outside) /\ SameColumn(W[m], W[m + 1]) /\ ~W[m + 1].afterRecordSep
    BY <2>6, <2>10, <2>11, QuoteCloses
  <2>13. Takes(W, n, m + 1, value, Outside)
    BY <1>1, <2>7, <2>9, <2>10, <2>12 DEF Takes, SameColumn
  <2> QED
    BY <2>1, <2>2, <2>3, <2>10, <2>13
<1> QED
  BY <1>2, <1>3, <1>4
-----------------------------------------------------------------------------
(* What the table has when the parser is k columns into a line.             *)
Named(row) == header /\ row = 0
Added(table, row, record, k) ==
  [record |-> IF Named(row) THEN <<>> ELSE SubSeq(record, 1, k), table |-> table]

LEMMA ContentRead ==
  ASSUME NEW record, RecordOK(record), NEW k \in 1 .. Len(record)
  PROVE  ValueOf(Types[k], Content(record[k])) = record[k]
<1>1. CASE record[k] = Null
  BY <1>1 DEF ValueOf, Content
<1>2. CASE record[k] # Null
  <2>1. record[k] # <<>> /\ (Types[k] = "int" => record[k] \in Seq(Digits)) /\ Content(record[k]) = record[k]
    BY <1>2 DEF RecordOK, Content
  <2> QED
    BY <2>1, LeadingAll DEF ValueOf
<1> QED
  BY <1>1, <1>2

LEMMA RecordGrows ==
  ASSUME NEW record \in Record, NEW k \in Nat, k < Len(record)
  PROVE  Append(SubSeq(record, 1, k), record[k + 1]) = SubSeq(record, 1, k + 1)
<1>1. record \in Seq({Null} \cup Seq(Characters))
  BY DEF Record
<1>2. k + 1 \in 1 .. Len(record) /\ 1 \in 1 .. Len(record) /\ (k + 1) - 1 = k
  BY <1>1
<1>3. SubSeq(record, 1, k + 1) = SubSeq(record, 1, k) \o <<record[k + 1]>>
  BY <1>1, <1>2, SubSeqRecursiveSecond
<1>4. SubSeq(record, 1, k) \in Seq({Null} \cup Seq(Characters)) /\ record[k + 1] \in {Null} \cup Seq(Characters)
  BY <1>1, <1>2
<1> QED
  BY <1>3, <1>4, AppendIsConcat

(* A field that does not end its line, and one that does.                   *)
LEMMA ColumnAdded ==
  ASSUME NEW table, NEW row, NEW record \in Record, Named(row) \/ RecordOK(record), Len(record) = Len(Types),
         NEW k \in Nat, k + 1 < Len(record)
  PROVE  AddField(Added(table, row, record, k), <<k, row, Content(record[k + 1])>>) = Added(table, row, record, k + 1)
<1>1. k + 1 \in 1 .. Len(record) /\ k + 1 # Len(Types) /\ k < Len(record) /\ Len(record) \in Nat
  BY DEF Record
<1>2. CASE Named(row)
  BY <1>2 DEF AddField, Added, Named
<1>3. CASE ~Named(row)
  <2> DEFINE part == SubSeq(record, 1, k)
             value == ValueOf(Types[k + 1], Content(record[k + 1]))
  <2>1. value = record[k + 1]
    BY <1>1, <1>3, ContentRead
  <2>2. Append(part, value) = SubSeq(record, 1, k + 1)
    BY <1>1, <2>1, RecordGrows
  <2>3. Added(table, row, record, k) = [record |-> part, table |-> table]
    BY <1>3 DEF Added
  <2>4. AddField(Added(table, row, record, k), <<k, row, Content(record[k + 1])>>)
          = [record |-> Append(part, value), table |-> table]
    <3> DEFINE state == [record |-> part, table |-> table]
    <3>1. state.record = part /\ \A x : [state EXCEPT !.record = x] = [record |-> x, table |-> table]
      OBVIOUS
    <3> HIDE DEF state
    <3>2. AddField(state, <<k, row, Content(record[k + 1])>>) = [state EXCEPT !.record = Append(part, value)]
      BY <1>1, <1>3, <3>1 DEF AddField, Named
    <3> QED
      BY <2>3, <3>1, <3>2 DEF state
  <2> QED
    BY <1>3, <2>2, <2>4 DEF Added
<1> QED
  BY <1>2, <1>3

LEMMA LineAdded ==
  ASSUME NEW table, NEW row, NEW record \in Record, Named(row) \/ RecordOK(record), Len(record) = Len(Types),
         NEW k \in Nat, k + 1 = Len(record)
  PROVE  AddField(Added(table, row, record, k), <<k, row, Content(record[k + 1])>>)
           = [record |-> <<>>, table |-> IF Named(row) THEN table ELSE Append(table, record)]
<1>1. k + 1 \in 1 .. Len(record) /\ k + 1 = Len(Types) /\ k < Len(record) /\ Len(record) \in Nat
  BY DEF Record
<1>2. CASE Named(row)
  BY <1>2 DEF AddField, Added, Named
<1>3. CASE ~Named(row)
  <2> DEFINE part == SubSeq(record, 1, k)
             value == ValueOf(Types[k + 1], Content(record[k + 1]))
  <2>1. value = record[k + 1]
    BY <1>1, <1>3, ContentRead
  <2>2. Append(part, value) = record
    <3>1. SubSeq(record, 1, Len(record)) = record
      BY SubSeqFull DEF Record
    <3> QED
      BY <1>1, <2>1, <3>1, RecordGrows
  <2>3. Added(table, row, record, k) = [record |-> part, table |-> table]
    BY <1>3 DEF Added
  <2>4. AddField(Added(table, row, record, k), <<k, row, Content(record[k + 1])>>)
          = [record |-> <<>>, table |-> Append(table, Append(part, value))]
    BY <1>1, <1>3, <2>3 DEF AddField, Named
  <2> QED
    BY <1>3, <2>2, <2>4
<1> QED
  BY <1>2, <1>3

(* A comma.                                                                 *)
LEMMA OnFieldReads ==
  ASSUME NEW n \in Nat, NEW p, NEW f, Reading(p, n, f, Outside)
  PROVE  /\ Reading(OnField(p), n, <<>>, Outside)
         /\ OnField(p).col = p.col /\ OnField(p).row = p.row /\ OnField(p).numCols = p.numCols
         /\ OnField(p).afterFirstRow = p.afterFirstRow /\ OnField(p).afterRecordSep = p.afterRecordSep
         /\ OnField(p).fields = Append(p.fields, <<p.col, p.row, f>>)
<1> DEFINE o == OnField(p)
<1>1. p \in ParserSet /\ p.field = f
  BY DEF Reading
<1>2. o \in ParserSet /\ o.i = p.i /\ o.error = p.error
  BY <1>1, OnFieldParser
<1>3. /\ o.field = <<>> /\ o.quoted = p.quoted /\ o.escaping = p.escaping /\ o.newlining = p.newlining
      /\ o.col = p.col /\ o.row = p.row /\ o.numCols = p.numCols
      /\ o.afterFirstRow = p.afterFirstRow /\ o.afterRecordSep = p.afterRecordSep
  BY <1>1 DEF OnField, ParserSet
<1>4. o.fields = Append(p.fields, <<p.col, p.row, f>>)
  BY <1>1 DEF OnField, ParserSet
<1> HIDE DEF o
<1>5. Reading(o, n, <<>>, Outside)
  BY <1>2, <1>3 DEF Reading
<1> QED
  BY <1>3, <1>4, <1>5 DEF o

LEMMA CommaRead ==
  ASSUME NEW W, NEW text, Parses(W, text), NEW n \in Nat, n + 1 <= Len(text),
         NEW f, Reading(W[n], n, f, Outside), text[n + 1] = Comma
  PROVE  /\ Reading(W[n + 1], n + 1, <<>>, Outside) /\ ~W[n + 1].afterRecordSep
         /\ W[n + 1].col = W[n].col + 1 /\ W[n + 1].row = W[n].row /\ W[n + 1].numCols = W[n].numCols
         /\ W[n + 1].afterFirstRow = W[n].afterFirstRow
         /\ W[n + 1].fields = Append(W[n].fields, <<W[n].col, W[n].row, f>>)
<1> DEFINE p == W[n]
           o == Read(p)
           q == OnField(o)
           next == [q EXCEPT !.col = @ + 1]
<1>1. W[n + 1] = CharAt(p, text) /\ Forms(p, text, text[n + 1])
  BY RoundReads
<1>2. W[n + 1] = next
  BY <1>1 DEF Forms, Reading, Outside
<1>3. Reading(o, n + 1, f, Outside) /\ SameColumn(p, o) /\ ~o.afterRecordSep
  BY ReadReads
<1> HIDE DEF o
<1>4. /\ Reading(q, n + 1, <<>>, Outside)
      /\ q.col = o.col /\ q.row = o.row /\ q.numCols = o.numCols
      /\ q.afterFirstRow = o.afterFirstRow /\ q.afterRecordSep = o.afterRecordSep
      /\ q.fields = Append(o.fields, <<o.col, o.row, f>>)
  <2>1. n + 1 \in Nat
    OBVIOUS
  <2> QED
    BY <1>3, <2>1, OnFieldReads
<1> HIDE DEF q
<1> DEFINE c == q.col + 1
<1>5. c \in Nat /\ next = [q EXCEPT !.col = c] /\ q \in ParserSet
  <2>1. q \in ParserSet
    BY <1>4 DEF Reading
  <2>2. q.col \in Nat
    BY <2>1 DEF ParserSet
  <2> QED
    BY <2>1, <2>2
<1> HIDE DEF c
<1>6. LET x == [q EXCEPT !.col = c]
      IN  /\ x \in ParserSet /\ x.i = q.i /\ x.error = q.error /\ x.escaping = q.escaping /\ x.newlining = q.newlining
          /\ x.quoted = q.quoted /\ x.field = q.field /\ x.col = c /\ x.row = q.row /\ x.numCols = q.numCols
          /\ x.afterFirstRow = q.afterFirstRow /\ x.afterRecordSep = q.afterRecordSep /\ x.fields = q.fields
  BY <1>5 DEF ParserSet
<1> HIDE DEF next
<1>7. /\ next \in ParserSet /\ next.i = q.i /\ next.error = q.error /\ next.escaping = q.escaping
      /\ next.newlining = q.newlining /\ next.quoted = q.quoted /\ next.field = q.field /\ next.col = c
      /\ next.row = q.row /\ next.numCols = q.numCols
      /\ next.afterFirstRow = q.afterFirstRow /\ next.afterRecordSep = q.afterRecordSep /\ next.fields = q.fields
  BY <1>5, <1>6
<1>8. Reading(next, n + 1, <<>>, Outside)
  BY <1>4, <1>7 DEF Reading
<1> QED
  BY <1>2, <1>3, <1>4, <1>7, <1>8 DEF SameColumn, c
-----------------------------------------------------------------------------
(* A line that starts after n characters, read to m: the last field is not  *)
(* yet given to on_field.                                                   *)
InLine(W, n, m, record, k, table) ==
  /\ Reading(W[m], m, Content(record[k]), Outside)
  /\ W[m].col = k - 1 /\ W[m].row = W[n].row /\ W[m].numCols = W[n].numCols
  /\ W[m].afterFirstRow = W[n].afterFirstRow
  /\ AddFields(W[m].fields) = Added(table, W[n].row, record, k - 1)
  /\ k > 1 \/ record[1] # Null => ~W[m].afterRecordSep

LineOK(record, row) ==
  /\ record \in Record /\ Len(record) = Len(Types) /\ record \notin {<<>>, <<Null>>}
  /\ \A k \in 1 .. Len(record) : record[k] # <<>>
  /\ Named(row) \/ RecordOK(record)

(* The columns of a line, and where they start.                             *)
ColumnTexts(record) ==
  [k \in 1 .. Len(record) |-> (IF k = 1 THEN <<>> ELSE <<Comma>>) \o FieldText(record[k])]

LEMMA ColumnForms ==
  ASSUME NEW record \in Record
  PROVE  /\ Len(record) \in Nat /\ Len(ColumnTexts(record)) = Len(record) /\ LineText(record) = Joined(ColumnTexts(record))
         /\ \A k \in 1 .. Len(record) :
              /\ record[k] \in {Null} \cup Seq(Characters) /\ FieldText(record[k]) \in Seq(Characters)
              /\ ColumnTexts(record)[k] \in Seq(Characters)
              /\ k = 1 => ColumnTexts(record)[k] = FieldText(record[k])
              /\ k # 1 => ColumnTexts(record)[k] = <<Comma>> \o FieldText(record[k])
<1>1. Len(record) \in Nat /\ \A k \in 1 .. Len(record) : record[k] \in {Null} \cup Seq(Characters)
  BY DEF Record
<1>2. Len(ColumnTexts(record)) = Len(record)
  BY <1>1 DEF ColumnTexts
<1>3. LineText(record) = Joined(ColumnTexts(record))
  BY DEF LineText, ColumnTexts
<1>4. ASSUME NEW k \in 1 .. Len(record)
      PROVE  /\ FieldText(record[k]) \in Seq(Characters) /\ ColumnTexts(record)[k] \in Seq(Characters)
             /\ k = 1 => ColumnTexts(record)[k] = FieldText(record[k])
             /\ k # 1 => ColumnTexts(record)[k] = <<Comma>> \o FieldText(record[k])
  <2>1. FieldText(record[k]) \in Seq(Characters)
    BY <1>1, FieldIsText
  <2>2. ColumnTexts(record)[k] = (IF k = 1 THEN <<>> ELSE <<Comma>>) \o FieldText(record[k])
    BY DEF ColumnTexts
  <2>3. <<Comma>> \in Seq(Characters) /\ <<>> \o FieldText(record[k]) = FieldText(record[k])
    BY <2>1 DEF Characters
  <2>4. <<Comma>> \o FieldText(record[k]) \in Seq(Characters)
    BY <2>1, <2>3, ConcatProperties
  <2> QED
    BY <2>1, <2>2, <2>3, <2>4
<1> QED
  BY <1>1, <1>2, <1>3, <1>4

(* A comma, and the field after it.                                         *)
Follows(p, q, f) ==
  /\ q.col = p.col + 1 /\ q.row = p.row /\ q.numCols = p.numCols /\ q.afterFirstRow = p.afterFirstRow
  /\ q.fields = Append(p.fields, <<p.col, p.row, f>>)

LEMMA NextTaken ==
  ASSUME TablesAssumption, NEW W, NEW text, Parses(W, text), NEW m \in Nat, NEW f, Reading(W[m], m, f, Outside),
         NEW value \in {Null} \cup Seq(Characters), value # <<>>, Occurs(text, m, <<Comma>> \o FieldText(value))
  PROVE  LET last == m + Len(<<Comma>> \o FieldText(value))
         IN  /\ Reading(W[last], last, Content(value), Outside) /\ Follows(W[m], W[last], f)
             /\ ~W[last].afterRecordSep
<1> DEFINE field == FieldText(value)
           last == (m + 1) + Len(field)
<1>1. field \in Seq(Characters) /\ <<Comma>> \in Seq(Characters) /\ text \in Seq(Characters)
  BY FieldIsText DEF Characters, Parses
<1> HIDE DEF field
<1>2. Occurs(text, m, <<Comma>>) /\ Occurs(text, m + Len(<<Comma>>), field)
  BY <1>1, OccursConcat DEF field
<1>3. /\ m + Len(<<Comma>> \o field) = last /\ Occurs(text, m + 1, field)
      /\ Len(field) \in Nat /\ m + 1 <= Len(text) /\ text[m + 1] = Comma
  BY <1>1, <1>2 DEF Occurs
<1>4. /\ Reading(W[m + 1], m + 1, <<>>, Outside) /\ ~W[m + 1].afterRecordSep
      /\ W[m + 1].col = W[m].col + 1 /\ W[m + 1].row = W[m].row /\ W[m + 1].numCols = W[m].numCols
      /\ W[m + 1].afterFirstRow = W[m].afterFirstRow
      /\ W[m + 1].fields = Append(W[m].fields, <<W[m].col, W[m].row, f>>)
  BY <1>3, CommaRead
<1>5. Takes(W, m + 1, last, Content(value), Outside)
  BY <1>3, <1>4, FieldTaken DEF field
<1>6. last = m + 1 \/ last > m + 1
  BY <1>3
<1> HIDE DEF last
<1>7. Reading(W[last], last, Content(value), Outside) /\ SameColumn(W[m + 1], W[last]) /\ ~W[last].afterRecordSep
  BY <1>4, <1>5, <1>6 DEF Takes
<1>8. Follows(W[m], W[last], f)
  BY <1>4, <1>7 DEF SameColumn, Follows
<1> QED
  BY <1>3, <1>7, <1>8 DEF field

LEMMA ColumnTaken ==
  ASSUME TablesAssumption, NEW W, NEW text, Parses(W, text), NEW n, NEW record, NEW table,
         W[n] \in ParserSet, LineOK(record, W[n].row),
         NEW at, Divides(at, text, n, ColumnTexts(record), Len(record)),
         NEW k \in 1 .. Len(record) - 1, InLine(W, n, at[k], record, k, table)
  PROVE  InLine(W, n, at[k + 1], record, k + 1, table)
<1> DEFINE m == at[k]
           last == at[k + 1]
           value == record[k + 1]
           f == Content(record[k])
           p == W[m]
           q == W[last]
           event == <<k - 1, W[n].row, f>>
<1>1. /\ record \in Record /\ Len(record) \in Nat /\ k + 1 \in 1 .. Len(record) /\ (k + 1) - 1 = k /\ k + 1 # 1
      /\ k \in 0 .. Len(record) /\ k - 1 \in Nat /\ (k - 1) + 1 = k /\ k < Len(record)
  BY DEF LineOK, Record
<1>2. /\ value \in {Null} \cup Seq(Characters) /\ value # <<>>
      /\ ColumnTexts(record)[k + 1] = <<Comma>> \o FieldText(value)
  BY <1>1, ColumnForms DEF LineOK
<1>3. m \in Nat /\ Occurs(text, m, <<Comma>> \o FieldText(value)) /\ last = m + Len(<<Comma>> \o FieldText(value))
  BY <1>1, <1>2 DEF Divides
<1>4. /\ Reading(p, m, f, Outside)
      /\ p.col = k - 1 /\ p.row = W[n].row /\ p.numCols = W[n].numCols /\ p.afterFirstRow = W[n].afterFirstRow
      /\ AddFields(p.fields) = Added(table, W[n].row, record, k - 1)
  BY DEF InLine
<1>5. Len(record) = Len(Types) /\ (Named(W[n].row) \/ RecordOK(record)) /\ W[n].row \in Nat
  BY DEF LineOK, ParserSet
<1>6. AddField(Added(table, W[n].row, record, k - 1), event) = Added(table, W[n].row, record, k)
  BY <1>1, <1>5, ColumnAdded
<1> HIDE DEF m, last, value, f
<1>7. Reading(q, last, Content(value), Outside) /\ Follows(p, q, f) /\ ~q.afterRecordSep
  BY <1>2, <1>3, <1>4, NextTaken
<1>8. AddFields(q.fields) = Added(table, W[n].row, record, k)
  <2>1. p \in ParserSet /\ p.field = f
    BY <1>4 DEF Reading
  <2>2. p.fields \in Seq(Event) /\ p.field \in Seq(Characters)
    BY <2>1 DEF ParserSet
  <2>3. event \in Event
    BY <1>1, <1>5, <2>1, <2>2 DEF Event
  <2>4. q.fields = Append(p.fields, event)
    BY <1>4, <1>7 DEF Follows
  <2> QED
    BY <1>4, <1>6, <2>2, <2>3, <2>4, AddFieldsAppend
<1> HIDE DEF p, q
<1>9. q.col = k /\ q.row = W[n].row /\ q.numCols = W[n].numCols /\ q.afterFirstRow = W[n].afterFirstRow
  BY <1>1, <1>4, <1>7 DEF Follows
<1>10. W[at[k + 1]] = q /\ at[k + 1] = last /\ record[k + 1] = value
  BY DEF q, last, value
<1> QED
  BY <1>1, <1>7, <1>8, <1>9, <1>10 DEF InLine

LEMMA LineTaken ==
  ASSUME TablesAssumption, NEW W, NEW text, Parses(W, text), NEW n, NEW record, NEW table,
         Reading(W[n], n, <<>>, Outside), W[n].col = 0, LineOK(record, W[n].row),
         Occurs(text, n, LineText(record)), AddFields(W[n].fields) = [record |-> <<>>, table |-> table]
  PROVE  /\ InLine(W, n, n + Len(LineText(record)), record, Len(record), table)
         /\ ~W[n + Len(LineText(record))].afterRecordSep
<1> DEFINE C == Len(record)
           s == ColumnTexts(record)
<1>1. record \in Record /\ C \in Nat \ {0} /\ W[n] \in ParserSet /\ n \in Nat /\ text \in Seq(Characters) /\ record[1] # <<>>
  BY DEF LineOK, Record, Reading, Occurs, Parses
<1>2. /\ Len(s) = C /\ LineText(record) = Joined(s) /\ \A k \in 1 .. C : s[k] \in Seq(Characters)
      /\ s[1] = FieldText(record[1]) /\ record[1] \in {Null} \cup Seq(Characters)
  BY <1>1, ColumnForms
<1> HIDE DEF s, C
<1>3. PICK at : Divides(at, text, n, s, C)
  BY <1>1, <1>2, JoinedOccurs
<1>4. InLine(W, n, at[1], record, 1, table)
  <2>1. Occurs(text, n, FieldText(record[1])) /\ at[1] = n + Len(FieldText(record[1]))
    <3>1. 1 \in 1 .. C /\ 1 - 1 = 0 /\ at[0] = n
      BY <1>1, <1>3 DEF Divides
    <3> QED
      BY <1>2, <1>3, <3>1 DEF Divides
  <2> DEFINE m == at[1]
  <2>2. Takes(W, n, m, Content(record[1]), Outside) /\ (record[1] = Null \/ m > n)
    <3>1. Len(FieldText(record[1])) \in Nat
      BY <1>2, FieldIsText
    <3> QED
      BY <1>1, <1>2, <2>1, <3>1, FieldTaken
  <2> HIDE DEF m
  <2>3. /\ Reading(W[m], m, Content(record[1]), Outside) /\ SameColumn(W[n], W[m])
        /\ record[1] # Null => ~W[m].afterRecordSep
    BY <2>2 DEF Takes
  <2>4. Added(table, W[n].row, record, 0) = [record |-> <<>>, table |-> table]
    BY SubSeqEmpty DEF Added
  <2>5. 1 - 1 = 0 /\ ~(1 > 1)
    OBVIOUS
  <2>6. InLine(W, n, m, record, 1, table)
    BY <2>3, <2>4, <2>5 DEF InLine, SameColumn
  <2> QED
    BY <2>6 DEF m
<1> DEFINE S == {k \in Nat : k + 1 <= C => InLine(W, n, at[k + 1], record, k + 1, table)}
<1>5. 0 \in S
  BY <1>4
<1>6. ASSUME NEW k \in Nat, k \in S PROVE k + 1 \in S
  <2> SUFFICES ASSUME (k + 1) + 1 <= C PROVE InLine(W, n, at[(k + 1) + 1], record, (k + 1) + 1, table)
    OBVIOUS
  <2>1. k + 1 \in 1 .. C - 1 /\ InLine(W, n, at[k + 1], record, k + 1, table)
    BY <1>1, <1>6
  <2> QED
    BY <1>1, <1>3, <2>1, ColumnTaken DEF s, C
<1>7. Nat \subseteq S
  <2> HIDE DEF S
  <2> QED
    BY <1>5, <1>6, NatSetInduction
<1>8. InLine(W, n, at[C], record, C, table)
  <2>1. C - 1 \in S /\ (C - 1) + 1 = C
    BY <1>1, <1>7
  <2> QED
    BY <1>1, <2>1
<1>9. at[C] = n + Len(LineText(record))
  BY <1>2, <1>3 DEF Divides
<1>10. C > 1 \/ record[1] # Null
  <2> SUFFICES ASSUME C = 1, record[1] = Null PROVE FALSE
    BY <1>1
  <2>1. record = <<Null>>
    BY <1>1 DEF Record, C
  <2> QED
    BY <2>1 DEF LineOK
<1>11. ~W[at[C]].afterRecordSep
  BY <1>8, <1>10 DEF InLine
<1> QED
  BY <1>8, <1>9, <1>11 DEF C

(* No line begins with a line feed.                                         *)
LEMMA FieldStarts ==
  ASSUME ParserAssumption, TablesAssumption, NEW value \in Seq(Characters), value # Null, value # <<>>
  PROVE  Len(FieldText(value)) > 0 /\ FieldText(value)[1] # LF
<1>1. CASE \A k \in 1 .. Len(value) : value[k] \in Digits \cup Letters
  <2>1. FieldText(value) = value /\ Len(value) > 0 /\ value[1] \in Digits \cup Letters
    BY <1>1 DEF FieldText
  <2> QED
    BY <2>1 DEF TablesAssumption
<1>2. CASE ~\A k \in 1 .. Len(value) : value[k] \in Digits \cup Letters
  <2> DEFINE e == Escaped(value)
  <2>1. FieldText(value) = <<Quote>> \o e \o <<Quote>>
    BY <1>2 DEF FieldText
  <2>2. e \in Seq(Characters) /\ Quote \in Characters
    BY EscapedIsText DEF Characters
  <2> HIDE DEF e
  <2>3. Len(<<Quote>> \o e \o <<Quote>>) > 0 /\ (<<Quote>> \o e \o <<Quote>>)[1] = Quote
    BY <2>2
  <2> QED
    BY <2>1, <2>3 DEF ParserAssumption
<1> QED
  BY <1>1, <1>2

LEMMA LineStarts ==
  ASSUME ParserAssumption, TablesAssumption, NEW text \in Seq(Characters), NEW n, NEW record, NEW row, LineOK(record, row),
         Occurs(text, n, LineText(record))
  PROVE  n < Len(text) /\ text[n + 1] # LF
<1> DEFINE C == Len(record)
           s == ColumnTexts(record)
           a == FieldText(record[1])
<1>1. record \in Record /\ C \in Nat \ {0} /\ record[1] # <<>> /\ 1 \in 1 .. C /\ n \in Nat /\ Len(text) \in Nat
  BY DEF LineOK, Record, Occurs
<1>2. /\ Len(s) = C /\ LineText(record) = Joined(s) /\ \A k \in 1 .. C : s[k] \in Seq(Characters)
      /\ s[1] = a /\ record[1] \in {Null} \cup Seq(Characters)
      /\ \A k \in 1 .. C : k # 1 => s[k] = <<Comma>> \o FieldText(record[k]) /\ FieldText(record[k]) \in Seq(Characters)
  BY <1>1, ColumnForms
<1> HIDE DEF s
<1>3. PICK at : Divides(at, text, n, s, C)
  BY <1>1, <1>2, JoinedOccurs
<1>4. Occurs(text, n, a) /\ at[1] = n + Len(a)
  <2>1. 1 - 1 = 0 /\ at[0] = n
    BY <1>3 DEF Divides
  <2> QED
    BY <1>1, <1>2, <1>3, <2>1 DEF Divides
<1>5. CASE record[1] # Null
  <2>1. Len(a) > 0 /\ a[1] # LF /\ Len(a) \in Nat
    BY <1>2, <1>1, <1>5, FieldStarts, FieldIsText
  <2>2. 1 \in 1 .. Len(a) /\ n + Len(a) <= Len(text)
    BY <1>4, <2>1 DEF Occurs
  <2> QED
    BY <1>1, <1>4, <2>1, <2>2 DEF Occurs
<1>6. CASE record[1] = Null
  <2>1. C # 1
    <3> SUFFICES ASSUME C = 1 PROVE FALSE
      OBVIOUS
    <3>1. record = <<Null>>
      BY <1>1, <1>6 DEF Record
    <3> QED
      BY <3>1 DEF LineOK
  <2> HIDE DEF C
  <2>2. 2 \in 1 .. C /\ 2 # 1 /\ 2 - 1 = 1
    BY <1>1, <2>1
  <2>3. a = <<>> /\ at[1] = n
    <3>1. a = <<>>
      BY <1>6 DEF FieldText
    <3> QED
      BY <1>1, <1>4, <3>1
  <2>4. Occurs(text, n, <<Comma>> \o FieldText(record[2])) /\ FieldText(record[2]) \in Seq(Characters)
    BY <1>2, <1>3, <2>2, <2>3 DEF Divides
  <2>5. Occurs(text, n, <<Comma>>)
    <3>1. <<Comma>> \in Seq(Characters)
      BY DEF Characters
    <3> QED
      BY <2>4, <3>1, OccursConcat
  <2> QED
    BY <1>1, <2>5 DEF Occurs, ParserAssumption
<1> QED
  BY <1>5, <1>6
-----------------------------------------------------------------------------
(* The end of a record.                                                     *)
Counts(p) == p.afterFirstRow => p.numCols = p.col + 1
NextLine(p, q, f) ==
  /\ q.col = 0 /\ q.row = p.row + 1 /\ q.afterFirstRow /\ q.numCols = p.col + 1
  /\ q.fields = Append(p.fields, <<p.col, p.row, f>>) /\ q.afterRecordSep

LEMMA EndRecordReads ==
  ASSUME NEW n \in Nat, NEW p, NEW f, Reading(p, n, f, Outside), Counts(p)
  PROVE  LET q == [EndRecord(p) EXCEPT !.afterRecordSep = TRUE]
         IN  Reading(q, n, <<>>, Outside) /\ NextLine(p, q, f)
<1> DEFINE o == OnField(p)
           e == EndRecord(p)
           q == [e EXCEPT !.afterRecordSep = TRUE]
           cols == p.col + 1
           rows == p.row + 1
<1>1. /\ Reading(o, n, <<>>, Outside)
      /\ o.col = p.col /\ o.row = p.row /\ o.fields = Append(p.fields, <<p.col, p.row, f>>)
  BY OnFieldReads
<1>2. e \in ParserSet
  BY EndRecordParser DEF Reading
<1>3. e = [o EXCEPT !.afterFirstRow = TRUE, !.numCols = cols, !.col = 0, !.row = @ + 1]
  BY DEF Counts, EndRecord, Reading
<1> HIDE DEF o, cols, rows
<1>4. e = [o EXCEPT !.afterFirstRow = TRUE, !.numCols = cols, !.col = 0, !.row = rows]
  BY <1>1, <1>3 DEF Reading, ParserSet, rows
<1>5. /\ e.i = o.i /\ e.error = o.error /\ e.escaping = o.escaping /\ e.newlining = o.newlining /\ e.quoted = o.quoted
      /\ e.field = o.field /\ e.col = 0 /\ e.row = rows /\ e.numCols = cols /\ e.afterFirstRow = TRUE /\ e.fields = o.fields
  BY <1>1, <1>4 DEF Reading, ParserSet
<1> HIDE DEF e
<1>6. /\ q \in ParserSet
      /\ q.i = e.i /\ q.error = e.error /\ q.escaping = e.escaping /\ q.newlining = e.newlining /\ q.quoted = e.quoted
      /\ q.field = e.field /\ q.col = e.col /\ q.row = e.row /\ q.numCols = e.numCols
      /\ q.afterFirstRow = e.afterFirstRow /\ q.fields = e.fields /\ q.afterRecordSep = TRUE
  BY <1>2 DEF ParserSet
<1> HIDE DEF q
<1>7. Reading(q, n, <<>>, Outside)
  BY <1>1, <1>5, <1>6 DEF Reading
<1>8. NextLine(p, q, f)
  BY <1>1, <1>5, <1>6 DEF NextLine, cols, rows
<1> QED
  BY <1>7, <1>8 DEF q, e

(* The same, if p differs only in its place.                                *)
LEMMA NextLineMoved ==
  ASSUME NEW p, NEW q, NEW r, NEW f, SameColumn(p, q)
  PROVE  (Counts(p) => Counts(q)) /\ (NextLine(q, r, f) => NextLine(p, r, f))
  BY DEF SameColumn, Counts, NextLine

LEMMA MovedReads ==
  ASSUME NEW n \in Nat, NEW m \in Nat, NEW p, NEW f, Reading(p, n, f, Outside)
  PROVE  LET q == [p EXCEPT !.i = m + 1] IN Reading(q, m, f, Outside) /\ SameColumn(p, q)
<1> DEFINE k == m + 1
<1>1. k \in Nat /\ p \in ParserSet
  BY DEF Reading
<1> HIDE DEF k
<1>2. LET q == [p EXCEPT !.i = k] IN Reading(q, m, f, Outside) /\ SameColumn(p, q)
  <2>1. k = m + 1
    BY DEF k
  <2> DEFINE q == [p EXCEPT !.i = k]
  <2>2. /\ q \in ParserSet /\ q.i = k /\ q.error = p.error /\ q.escaping = p.escaping /\ q.newlining = p.newlining
        /\ q.quoted = p.quoted /\ q.field = p.field /\ SameColumn(p, q)
    BY <1>1 DEF ParserSet, SameColumn
  <2> HIDE DEF q
  <2>3. Reading(q, m, f, Outside)
    BY <2>1, <2>2 DEF Reading
  <2> QED
    BY <2>2, <2>3 DEF q
<1> QED
  BY <1>2 DEF k

(* A line feed.                                                             *)
LEMMA LFReads ==
  ASSUME ParserAssumption, EscapeOK, NEW chunk, NEW n \in Nat, NEW p, NEW f, Reading(p, n, f, Outside), Counts(p),
         chunk[n + 1] = LF
  PROVE  Reading(CharAt(p, chunk), n + 1, <<>>, Outside) /\ NextLine(p, CharAt(p, chunk), f)
<1> DEFINE o == Read(p)
           q == [EndRecord(o) EXCEPT !.afterRecordSep = TRUE]
<1>1. Forms(p, chunk, LF)
  <2>1. p \in ParserSet /\ LF \in Characters /\ LF = chunk[p.i]
    BY DEF Reading, Characters
  <2> QED
    BY <2>1, CharForms
<1>2. CharAt(p, chunk) = q
  BY <1>1 DEF Forms, Reading, Outside
<1>3. Reading(o, n + 1, f, Outside) /\ SameColumn(p, o)
  BY ReadReads
<1> HIDE DEF o
<1>4. n + 1 \in Nat /\ Counts(o)
  BY <1>3, NextLineMoved
<1>5. Reading(q, n + 1, <<>>, Outside) /\ NextLine(o, q, f)
  BY <1>3, <1>4, EndRecordReads
<1> HIDE DEF q
<1>6. NextLine(p, q, f)
  BY <1>3, <1>5, NextLineMoved
<1> QED
  BY <1>2, <1>5, <1>6

(* Every line ending but the last.                                          *)
LEMMA LineEnds ==
  ASSUME NEW W, NEW text, Parses(W, text), NEW n \in Nat, NEW f, Reading(W[n], n, f, Outside), Counts(W[n]),
         NEW eol \in {<<LF>>, <<CR>>, <<CR, LF>>}, Occurs(text, n, eol),
         eol = <<CR>> => n + 1 < Len(text) /\ text[n + 2] # LF
  PROVE  /\ Reading(W[n + Len(eol)], n + Len(eol), <<>>, Outside) /\ NextLine(W[n], W[n + Len(eol)], f)
<1> DEFINE p == W[n]
           o == Read(p)
<1>1. ParserAssumption /\ EscapeOK /\ Len(text) \in Nat
  BY DEF Parses, EscapeOK
<1>2. Reading(o, n + 1, f, Outside) /\ SameColumn(p, o) /\ n + 1 \in Nat /\ Counts(o)
  <2>1. Reading(o, n + 1, f, Outside) /\ SameColumn(p, o)
    BY ReadReads
  <2> HIDE DEF o
  <2> QED
    BY <2>1, NextLineMoved
<1>3. p.quoted = Outside /\ p.i = n + 1 /\ n + 2 = p.i + 1
  BY DEF Reading
<1>4. CASE eol = <<LF>>
  <2>1. Len(eol) = 1 /\ n + 1 <= Len(text) /\ text[n + 1] = LF
    BY <1>4 DEF Occurs
  <2>2. W[n + 1] = CharAt(p, text)
    BY <2>1, RoundReads
  <2>3. Reading(CharAt(p, text), n + 1, <<>>, Outside) /\ NextLine(p, CharAt(p, text), f)
    BY <1>1, <2>1, LFReads
  <2> QED
    BY <2>1, <2>2, <2>3
<1>5. CASE eol = <<CR>>
  <2>1. Len(eol) = 1 /\ n + 1 <= Len(text) /\ text[n + 1] = CR /\ p.i # Len(text) /\ text[p.i + 1] # LF
    BY <1>1, <1>3, <1>5 DEF Occurs
  <2>2. W[n + 1] = CharAt(p, text) /\ Forms(p, text, text[n + 1])
    BY <2>1, RoundReads
  <2>3. CharAt(p, text) = [EndRecord(o) EXCEPT !.afterRecordSep = TRUE]
    BY <1>3, <2>1, <2>2 DEF Forms, Outside
  <2> HIDE DEF o
  <2> DEFINE q == [EndRecord(o) EXCEPT !.afterRecordSep = TRUE]
  <2>4. Reading(q, n + 1, <<>>, Outside) /\ NextLine(o, q, f)
    BY <1>2, EndRecordReads
  <2> HIDE DEF q
  <2>5. NextLine(p, q, f)
    BY <1>2, <2>4, NextLineMoved
  <2> QED
    BY <2>1, <2>2, <2>3, <2>4, <2>5 DEF q
<1>6. CASE eol = <<CR, LF>>
  <2>1. Len(eol) = 2 /\ n + 2 <= Len(text) /\ text[n + 1] = CR /\ text[n + 2] = LF
    BY <1>6 DEF Occurs
  <2>2. n + 1 <= Len(text) /\ p.i # Len(text) /\ text[p.i + 1] = LF /\ n + 2 \in 1 .. Len(text) /\ (n + 2) - 1 = n + 1
    BY <1>1, <1>3, <2>1
  <2>3. W[n + 1] = CharAt(p, text) /\ Forms(p, text, text[n + 1])
    BY <2>2, RoundReads
  <2> DEFINE x == [o EXCEPT !.i = (n + 2) + 1]
             q == [EndRecord(x) EXCEPT !.afterRecordSep = TRUE]
  <2>4. CharAt(p, text) = [EndRecord([o EXCEPT !.i = @ + 1]) EXCEPT !.afterRecordSep = TRUE]
    BY <1>3, <2>1, <2>2, <2>3 DEF Forms, Outside
  <2>5. [o EXCEPT !.i = @ + 1] = x
    <3>1. o.i + 1 = (n + 2) + 1
      BY <1>2 DEF Reading
    <3> HIDE DEF o
    <3> QED
      BY <3>1
  <2> HIDE DEF o
  <2>6. Reading(x, n + 2, f, Outside) /\ SameColumn(o, x)
    <3>1. n + 2 \in Nat
      OBVIOUS
    <3> QED
      BY <1>2, <3>1, MovedReads
  <2> HIDE DEF x
  <2>7. Reading(q, n + 2, <<>>, Outside) /\ NextLine(x, q, f)
    <3>1. n + 2 \in Nat /\ Counts(x)
      BY <1>2, <2>6, NextLineMoved
    <3> QED
      BY <2>6, <3>1, EndRecordReads
  <2> HIDE DEF q
  <2>8. NextLine(p, q, f)
    BY <1>2, <2>6, <2>7, NextLineMoved
  <2>9. W[n + 1] = q
    BY <2>3, <2>4, <2>5 DEF q
  <2>10. W[n + 2] = q
    <3>1. W[n + 2] = Round(W[n + 1], text, n + 2)
      BY <2>2 DEF Parses, Rounds
    <3>2. q.i = n + 3
      BY <2>7 DEF Reading
    <3> QED
      BY <2>9, <3>1, <3>2 DEF Round
  <2> QED
    BY <2>1, <2>7, <2>8, <2>10
<1> QED
  BY <1>4, <1>5, <1>6

(* The end of the file: p has read the last field.                          *)
Finishes(z, p, f) == z.error = "Ok" /\ z.fields = Append(p.fields, <<p.col, p.row, f>>)

LEMMA FinishEnded ==
  ASSUME NEW n \in Nat, NEW q, Reading(q, n, <<>>, Outside), NEW p, NEW f, NextLine(p, q, f)
  PROVE  Finishes(FinishParser(q), p, f)
<1>1. FinishParser(q) = q
  BY DEF FinishParser, FinishOpen, Reading, NextLine, Outside
<1> QED
  BY <1>1 DEF Finishes, NextLine, Reading

LEMMA FinishLast ==
  ASSUME ParserAssumption, EscapeOK, NEW n \in Nat, NEW p, NEW f, Reading(p, n, f, Outside), Counts(p), ~p.afterRecordSep
  PROVE  Finishes(FinishParser(p), p, f)
<1> DEFINE x == [p EXCEPT !.i = 1]
           z == CharAt(x, <<LF>>)
<1>1. FinishParser(p) = Execute(p, <<LF>>)
  BY DEF FinishParser, FinishOpen, Reading, Outside
<1>2. Reading(x, 0, f, Outside) /\ SameColumn(p, x)
  <2>1. 0 \in Nat /\ 0 + 1 = 1
    OBVIOUS
  <2> QED
    BY <2>1, MovedReads
<1>3. Resume(p, <<LF>>) = x
  BY ResumePlain DEF Reading, Plain, Outside
<1> HIDE DEF x
<1>4. <<LF>> \in Seq(Characters) /\ Len(<<LF>>) = 1 /\ <<LF>>[0 + 1] = LF /\ x \in ParserSet
  BY <1>2 DEF Characters, Reading
<1>5. PICK V : Rounds(V, p, <<LF>>)
  BY <1>3, <1>4, RoundsExist
<1>6. Execute(p, <<LF>>) = z
  <2>1. V[1] = Round(V[0], <<LF>>, 1) /\ V[0] = x /\ Execute(p, <<LF>>) = V[1]
    BY <1>3, <1>4, <1>5 DEF Rounds
  <2>2. x.i = 1 /\ x.error = "Ok"
    BY <1>2 DEF Reading
  <2> QED
    BY <2>1, <2>2 DEF Round
<1>7. Counts(x)
  BY <1>2, NextLineMoved
<1>8. Reading(z, 0 + 1, <<>>, Outside) /\ NextLine(x, z, f)
  <2>1. 0 \in Nat
    OBVIOUS
  <2> QED
    BY <1>2, <1>4, <1>7, <2>1, LFReads
<1> HIDE DEF z
<1>9. NextLine(p, z, f)
  BY <1>2, <1>8, NextLineMoved
<1> QED
  BY <1>1, <1>6, <1>8, <1>9 DEF Finishes, NextLine, Reading

LEMMA FinishCR ==
  ASSUME NEW W, NEW text, Parses(W, text), NEW n \in Nat, NEW f, Reading(W[n], n, f, Outside), Counts(W[n]),
         Len(text) = n + 1, text[n + 1] = CR
  PROVE  W[n + 1].error = "Ok" /\ Finishes(FinishParser(W[n + 1]), W[n], f)
<1> DEFINE p == W[n]
           w == W[n + 1]
           x == [w EXCEPT !.i = 1]
           z == [EndRecord(x) EXCEPT !.newlining = FALSE, !.afterRecordSep = TRUE]
<1>1. ParserAssumption /\ EscapeOK /\ p \in ParserSet /\ p.i = n + 1
  BY DEF Parses, EscapeOK, Reading
<1>2. w = CharAt(p, text) /\ Forms(p, text, text[n + 1])
  BY RoundReads
<1>3. w = [p EXCEPT !.i = @ + 1, !.newlining = TRUE]
  BY <1>1, <1>2 DEF Forms, Reading, Outside
<1>4. w \in ParserSet
  <2>1. n + 1 \in 0 .. Len(text)
    OBVIOUS
  <2> QED
    BY <2>1 DEF Parses, Rounds
<1>5. /\ w.field = f /\ SameColumn(p, w) /\ w.newlining = TRUE /\ w.quoted = FALSE /\ w.error = "Ok" /\ w.escaping = FALSE
  BY <1>1, <1>3 DEF Reading, ParserSet, SameColumn, Outside
<1> HIDE DEF w, p
<1>6. FinishParser(w) = Execute(w, <<>>)
  BY <1>5 DEF FinishParser, FinishOpen
<1>7. x \in ParserSet /\ x.field = f /\ SameColumn(w, x) /\ x.newlining = TRUE /\ x.escaping = FALSE /\ x.error = "Ok"
  BY <1>4, <1>5 DEF ParserSet, SameColumn
<1> HIDE DEF x
<1>8. Resume(w, <<>>) = z
  BY <1>7 DEF Resume, ResumeEscape, ResumeNewline, SkipLF, x
<1>9. EndRecord(x) \in ParserSet
  BY <1>7, EndRecordParser
<1>10. z \in ParserSet /\ z.error = EndRecord(x).error /\ z.fields = EndRecord(x).fields
  BY <1>9 DEF ParserSet
<1>11. Counts(x)
  BY <1>5, <1>7, NextLineMoved DEF p, w
<1>12. EndRecord(x).error = "Ok" /\ EndRecord(x).fields = Append(x.fields, <<x.col, x.row, f>>)
  <2> DEFINE o == OnField(x)
  <2>1. o \in ParserSet /\ o.error = x.error
    BY <1>7, OnFieldParser
  <2>2. o.fields = Append(x.fields, <<x.col, x.row, f>>)
    BY <1>7 DEF OnField, ParserSet
  <2>3. EndRecord(x) = [o EXCEPT !.afterFirstRow = TRUE, !.numCols = x.col + 1, !.col = 0, !.row = @ + 1]
    BY <1>11 DEF Counts, EndRecord
  <2> HIDE DEF o
  <2> QED
    BY <1>7, <2>1, <2>2, <2>3 DEF ParserSet
<1> HIDE DEF z
<1>13. Execute(w, <<>>) = z
  <2>1. <<>> \in Seq(Characters) /\ Len(<<>>) = 0
    OBVIOUS
  <2>2. PICK V : Rounds(V, w, <<>>)
    BY <1>1, <1>8, <1>10, <2>1, RoundsExist
  <2> QED
    BY <1>8, <2>1, <2>2 DEF Rounds
<1> QED
  BY <1>5, <1>6, <1>7, <1>10, <1>12, <1>13 DEF Finishes, SameColumn, p, w
-----------------------------------------------------------------------------
(* The whole file.  The lines, and what the table has after row of them.    *)
Names == [n \in DOMAIN Types |-> <<CHOOSE c \in Letters : TRUE>>]
Lines == IF header THEN <<Names>> \o given ELSE given
Before(row) == SubSeq(given, 1, IF header THEN row - 1 ELSE row)
LineTexts(eol, end) == [n \in 1 .. Len(Lines) |-> LineText(Lines[n]) \o (IF n = Len(Lines) THEN end ELSE eol)]

LEMMA TableGrows ==
  ASSUME NEW table \in Seq(Record), NEW k \in Nat, k < Len(table)
  PROVE  Append(SubSeq(table, 1, k), table[k + 1]) = SubSeq(table, 1, k + 1)
<1>1. k + 1 \in 1 .. Len(table) /\ 1 \in 1 .. Len(table) /\ (k + 1) - 1 = k
  OBVIOUS
<1>2. SubSeq(table, 1, k + 1) = SubSeq(table, 1, k) \o <<table[k + 1]>>
  BY <1>1, SubSeqRecursiveSecond
<1>3. SubSeq(table, 1, k) \in Seq(Record) /\ table[k + 1] \in Record
  BY <1>1
<1> QED
  BY <1>2, <1>3, AppendIsConcat

LEMMA LinesOK ==
  ASSUME ParserAssumption, TablesAssumption, header \in BOOLEAN, given \in Tables
  PROVE  /\ Len(Lines) \in Nat \ {0} /\ given \in Seq(Record)
         /\ \A row \in 0 .. Len(Lines) - 1 :
              /\ LineOK(Lines[row + 1], row)
              /\ (IF Named(row) THEN Before(row) ELSE Append(Before(row), Lines[row + 1])) = Before(row + 1)
         /\ Before(0) = <<>> /\ Before(Len(Lines)) = given
<1>1. /\ given \in Seq(Record) /\ Len(given) \in Nat \ {0} /\ Types \in Seq({"int", "text"}) /\ Letters # {}
      /\ \A n \in 1 .. Len(given) : RecordOK(given[n])
  BY DEF ParserAssumption, TablesAssumption, Record
<1>2. Null # <<>> /\ \A c \in Letters : <<c>> # Null /\ <<c>> # <<>> /\ <<c>> \in Seq(Characters)
  <2>1. Null \notin Seq(Characters) /\ Letters \subseteq Characters
    BY DEF ParserAssumption, Characters
  <2>2. <<>> \in Seq(Characters) /\ \A c \in Characters : <<c>> \in Seq(Characters) /\ <<c>> # <<>>
    OBVIOUS
  <2> QED
    BY <2>1, <2>2
<1>3. ASSUME NEW n \in 1 .. Len(given), NEW row PROVE LineOK(given[n], row)
  <2>1. given[n] \in Record /\ RecordOK(given[n])
    BY <1>1
  <2>2. \A k \in 1 .. Len(given[n]) : given[n][k] # <<>>
    BY <1>2, <2>1 DEF RecordOK
  <2> QED
    BY <2>1, <2>2 DEF LineOK, RecordOK
<1>4. Len(Types) \in Nat \ {0}
  <2>1. Len(given[1]) = Len(Types) /\ given[1] # <<>> /\ given[1] \in Record
    BY <1>1 DEF RecordOK
  <2> QED
    BY <2>1 DEF Record
<1>5. Names \in Record /\ \A row : Named(row) => LineOK(Names, row)
  <2>1. /\ DOMAIN Types = 1 .. Len(Types) /\ Len(Names) = Len(Types) /\ Names \in Record
        /\ \A n \in 1 .. Len(Types) : Names[n] # Null /\ Names[n] # <<>>
    <3> DEFINE name == <<CHOOSE c \in Letters : TRUE>>
    <3>1. name # Null /\ name # <<>> /\ name \in {Null} \cup Seq(Characters)
      BY <1>1, <1>2
    <3>2. DOMAIN Types = 1 .. Len(Types)
      BY <1>1
    <3>3. Names = [n \in 1 .. Len(Types) |-> name]
      BY <3>2 DEF Names
    <3> HIDE DEF name
    <3> QED
      BY <1>4, <3>1, <3>2, <3>3 DEF Record
  <2>2. Names \notin {<<>>, <<Null>>}
    <3>1. 1 \in 1 .. Len(Types) /\ Names[1] # Null /\ Len(Names) # 0
      BY <1>4, <2>1
    <3> QED
      BY <3>1
  <2> QED
    BY <2>1, <2>2 DEF LineOK
<1>6. Before(0) = <<>>
  <2>1. (IF header THEN 0 - 1 ELSE 0) \in Int /\ (IF header THEN 0 - 1 ELSE 0) < 1
    OBVIOUS
  <2> QED
    BY <2>1, SubSeqEmpty DEF Before
<1>7. CASE header
  <2> DEFINE names == Names
  <2>1. <<names>> \in Seq(Record) /\ Lines = <<names>> \o given
    BY <1>5, <1>7 DEF Lines
  <2>2. /\ Len(Lines) = Len(given) + 1 /\ Lines[1] = names
        /\ \A n \in 1 .. Len(given) : Lines[n + 1] = given[n]
    BY <1>1, <2>1
  <2>3. Before(Len(Lines)) = given
    <3>1. SubSeq(given, 1, Len(given)) = given
      BY <1>1, SubSeqFull
    <3> QED
      BY <1>1, <1>7, <2>2, <3>1 DEF Before
  <2>4. ASSUME NEW row \in 0 .. Len(Lines) - 1
        PROVE  /\ LineOK(Lines[row + 1], row)
               /\ (IF Named(row) THEN Before(row) ELSE Append(Before(row), Lines[row + 1])) = Before(row + 1)
    <3>1. CASE row = 0
      <4>1. Named(row) /\ Lines[row + 1] = names
        BY <1>7, <2>2, <3>1 DEF Named
      <4>2. Before(1) = <<>>
        BY <1>7, SubSeqEmpty DEF Before
      <4> QED
        BY <1>5, <1>6, <3>1, <4>1, <4>2
    <3>2. CASE row # 0
      <4>1. ~Named(row) /\ row \in 1 .. Len(given) /\ Lines[row + 1] = given[row]
        BY <1>1, <2>2, <3>2 DEF Named
      <4>2. row - 1 \in Nat /\ row - 1 < Len(given) /\ (row - 1) + 1 = row
        BY <1>1, <4>1
      <4>3. Append(SubSeq(given, 1, row - 1), given[row]) = SubSeq(given, 1, row)
        BY <1>1, <4>2, TableGrows
      <4>4. Before(row) = SubSeq(given, 1, row - 1) /\ Before(row + 1) = SubSeq(given, 1, row)
        BY <1>7, <4>1 DEF Before
      <4> QED
        BY <1>3, <4>1, <4>3, <4>4
    <3> QED
      BY <3>1, <3>2
  <2> QED
    BY <1>1, <1>6, <2>2, <2>3, <2>4
<1>8. CASE ~header
  <2>1. Lines = given
    BY <1>8 DEF Lines
  <2>2. Before(Len(Lines)) = given
    BY <1>1, <1>8, <2>1, SubSeqFull DEF Before
  <2>3. ASSUME NEW row \in 0 .. Len(Lines) - 1
        PROVE  /\ LineOK(Lines[row + 1], row)
               /\ (IF Named(row) THEN Before(row) ELSE Append(Before(row), Lines[row + 1])) = Before(row + 1)
    <3>1. ~Named(row) /\ row + 1 \in 1 .. Len(given) /\ row \in Nat /\ row < Len(given)
      BY <1>1, <1>8, <2>1 DEF Named
    <3>2. Append(SubSeq(given, 1, row), given[row + 1]) = SubSeq(given, 1, row + 1)
      BY <1>1, <3>1, TableGrows
    <3>3. Before(row) = SubSeq(given, 1, row) /\ Before(row + 1) = SubSeq(given, 1, row + 1)
      BY <1>8 DEF Before
    <3> QED
      BY <1>3, <2>1, <3>1, <3>2, <3>3
  <2> QED
    BY <1>1, <1>6, <2>1, <2>2, <2>3
<1> QED
  BY <1>7, <1>8
-----------------------------------------------------------------------------
(* Where a line starts, and where its last field has been read.             *)
AtLine(W, n, row) ==
  /\ Reading(W[n], n, <<>>, Outside) /\ W[n].col = 0 /\ W[n].row = row
  /\ W[n].afterFirstRow => W[n].numCols = Len(Types)
  /\ AddFields(W[n].fields) = [record |-> <<>>, table |-> Before(row)]

AtEnd(W, m, row, f) ==
  /\ Reading(W[m], m, f, Outside) /\ W[m].col + 1 = Len(Types) /\ W[m].row = row
  /\ Counts(W[m]) /\ ~W[m].afterRecordSep
  /\ AddFields(Append(W[m].fields, <<W[m].col, W[m].row, f>>)) = [record |-> <<>>, table |-> Before(row + 1)]

TableInText(text) ==
  /\ ParserAssumption /\ TablesAssumption /\ header \in BOOLEAN /\ given \in Tables
  /\ text \in Seq(Characters)

LEMMA LineRead ==
  ASSUME NEW W, NEW text, Parses(W, text), TableInText(text), NEW row \in 0 .. Len(Lines) - 1,
         NEW n, AtLine(W, n, row), Occurs(text, n, LineText(Lines[row + 1]))
  PROVE  \E f : AtEnd(W, n + Len(LineText(Lines[row + 1])), row, f)
<1> DEFINE record == Lines[row + 1]
           C == Len(record)
           m == n + Len(LineText(record))
           f == Content(record[C])
           table == Before(row)
           event == <<C - 1, row, f>>
<1>1. /\ TablesAssumption /\ LineOK(record, row)
      /\ (IF Named(row) THEN table ELSE Append(table, record)) = Before(row + 1)
  BY LinesOK DEF TableInText
<1>2. /\ Reading(W[n], n, <<>>, Outside) /\ W[n].col = 0 /\ W[n].row = row
      /\ W[n].afterFirstRow => W[n].numCols = Len(Types)
      /\ AddFields(W[n].fields) = [record |-> <<>>, table |-> table]
  BY DEF AtLine
<1>3. record \in Record /\ C = Len(Types) /\ C \in Nat \ {0} /\ (Named(row) \/ RecordOK(record)) /\ row \in Nat
  <2>1. record \in Record /\ C = Len(Types) /\ record # <<>> /\ (Named(row) \/ RecordOK(record))
    BY <1>1 DEF LineOK
  <2>2. Len(Lines) \in Nat
    BY LinesOK DEF TableInText
  <2> QED
    BY <2>1, <2>2 DEF Record
<1> HIDE DEF record, table
<1>4. InLine(W, n, m, record, C, table) /\ ~W[m].afterRecordSep
  BY <1>1, <1>2, LineTaken DEF record
<1> HIDE DEF C, m, f
<1>5. /\ Reading(W[m], m, f, Outside)
      /\ W[m].col = C - 1 /\ W[m].row = row /\ W[m].numCols = W[n].numCols /\ W[m].afterFirstRow = W[n].afterFirstRow
      /\ AddFields(W[m].fields) = Added(table, row, record, C - 1)
  BY <1>2, <1>4 DEF InLine, f
<1>6. W[m].col + 1 = Len(Types) /\ C - 1 \in Nat /\ (C - 1) + 1 = C
  BY <1>3, <1>5
<1>7. Counts(W[m])
  BY <1>2, <1>5, <1>6 DEF Counts
<1>8. AddField(Added(table, row, record, C - 1), event) = [record |-> <<>>, table |-> Before(row + 1)]
  <2>1. AddField(Added(table, row, record, C - 1), <<C - 1, row, Content(record[(C - 1) + 1])>>)
          = [record |-> <<>>, table |-> IF Named(row) THEN table ELSE Append(table, record)]
    BY <1>3, <1>6, LineAdded DEF C
  <2>2. event = <<C - 1, row, Content(record[(C - 1) + 1])>>
    BY <1>6 DEF f
  <2> HIDE DEF event
  <2> QED
    BY <1>1, <2>1, <2>2
<1>9. AddFields(Append(W[m].fields, event)) = [record |-> <<>>, table |-> Before(row + 1)]
  <2>1. W[m] \in ParserSet /\ W[m].field = f
    BY <1>5 DEF Reading
  <2>2. W[m].fields \in Seq(Event) /\ f \in Seq(Characters)
    BY <2>1 DEF ParserSet
  <2>3. event \in Event
    BY <1>3, <1>6, <2>2 DEF Event
  <2> QED
    BY <1>5, <1>8, <2>2, <2>3, AddFieldsAppend
<1>10. AtEnd(W, m, row, f)
  BY <1>4, <1>5, <1>6, <1>7, <1>9 DEF AtEnd
<1> QED
  BY <1>10 DEF m, record

LEMMA LineEnded ==
  ASSUME NEW W, NEW text, Parses(W, text), NEW row \in Nat, NEW m \in Nat, NEW f, AtEnd(W, m, row, f),
         NEW eol \in {<<LF>>, <<CR>>, <<CR, LF>>}, Occurs(text, m, eol),
         eol = <<CR>> => m + 1 < Len(text) /\ text[m + 2] # LF
  PROVE  AtLine(W, m + Len(eol), row + 1) /\ NextLine(W[m], W[m + Len(eol)], f)
<1> DEFINE n == m + Len(eol)
<1>1. /\ Reading(W[m], m, f, Outside) /\ W[m].col + 1 = Len(Types) /\ W[m].row = row /\ Counts(W[m])
      /\ AddFields(Append(W[m].fields, <<W[m].col, W[m].row, f>>)) = [record |-> <<>>, table |-> Before(row + 1)]
  BY DEF AtEnd
<1>2. Reading(W[n], n, <<>>, Outside) /\ NextLine(W[m], W[n], f)
  BY <1>1, LineEnds
<1> HIDE DEF n
<1>3. AtLine(W, n, row + 1)
  BY <1>1, <1>2 DEF AtLine, NextLine
<1> QED
  BY <1>2, <1>3 DEF n

(* The lines of the text.                                                   *)
Eols == {<<LF>>, <<CR>>, <<CR, LF>>}

LEMMA LineForms ==
  ASSUME NEW text, TableInText(text), NEW eol \in Eols, NEW end \in {eol, <<>>}
  PROVE  /\ Len(LineTexts(eol, end)) = Len(Lines) /\ eol \in Seq(Characters) /\ end \in Seq(Characters)
         /\ \A k \in 1 .. Len(Lines) :
              /\ LineText(Lines[k]) \in Seq(Characters) /\ LineTexts(eol, end)[k] \in Seq(Characters)
              /\ k < Len(Lines) => LineTexts(eol, end)[k] = LineText(Lines[k]) \o eol
              /\ k = Len(Lines) => LineTexts(eol, end)[k] = LineText(Lines[k]) \o end
<1> DEFINE N == Len(Lines)
<1>1. N \in Nat \ {0} /\ \A row \in 0 .. N - 1 : LineOK(Lines[row + 1], row)
  BY LinesOK DEF TableInText
<1> HIDE DEF N
<1>2. eol \in Seq(Characters) /\ end \in Seq(Characters)
  <2>1. LF \in Characters /\ CR \in Characters
    BY DEF Characters
  <2>2. <<LF>> \in Seq(Characters) /\ <<CR>> \in Seq(Characters) /\ <<CR, LF>> \in Seq(Characters)
        /\ <<>> \in Seq(Characters)
    BY <2>1
  <2> QED
    BY <2>2 DEF Eols
<1>3. Len(LineTexts(eol, end)) = N
  BY <1>1 DEF LineTexts, N
<1>4. ASSUME NEW k \in 1 .. N
      PROVE  /\ LineText(Lines[k]) \in Seq(Characters) /\ LineTexts(eol, end)[k] \in Seq(Characters)
             /\ k < N => LineTexts(eol, end)[k] = LineText(Lines[k]) \o eol
             /\ k = N => LineTexts(eol, end)[k] = LineText(Lines[k]) \o end
  <2>1. k - 1 \in 0 .. N - 1 /\ (k - 1) + 1 = k
    BY <1>1
  <2>2. Lines[k] \in Record
    BY <1>1, <2>1 DEF LineOK
  <2>3. LineText(Lines[k]) \in Seq(Characters)
    BY <2>2, LineIsText
  <2>4. LineTexts(eol, end)[k] = LineText(Lines[k]) \o (IF k = N THEN end ELSE eol)
    BY DEF LineTexts, N
  <2>5. /\ k # N => LineTexts(eol, end)[k] = LineText(Lines[k]) \o eol
        /\ k = N => LineTexts(eol, end)[k] = LineText(Lines[k]) \o end
        /\ k = N \/ k # N
    BY <2>4, Zenon
  <2>6. LineText(Lines[k]) \o eol \in Seq(Characters) /\ LineText(Lines[k]) \o end \in Seq(Characters)
    BY <1>2, <2>3, ConcatProperties
  <2>7. k < N => k # N
    BY <1>1
  <2>8. LineTexts(eol, end)[k] \in Seq(Characters)
    BY <2>5, <2>6, Zenon
  <2> QED
    BY <2>3, <2>5, <2>7, <2>8, Zenon
<1> QED
  BY <1>2, <1>3, <1>4 DEF N

(* A line that is not the last: the next one follows.                       *)
LEMMA LineFollows ==
  ASSUME NEW W, NEW text, Parses(W, text), TableInText(text), NEW eol \in Eols, NEW end \in {eol, <<>>},
         NEW at, Divides(at, text, 0, LineTexts(eol, end), Len(Lines)),
         NEW row \in Nat, row + 1 < Len(Lines), AtLine(W, at[row], row)
  PROVE  AtLine(W, at[row + 1], row + 1)
<1> DEFINE N == Len(Lines)
           s == LineTexts(eol, end)
           line == LineText(Lines[row + 1])
           m == at[row] + Len(line)
<1>1. N \in Nat \ {0} /\ \A k \in 0 .. N - 1 : LineOK(Lines[k + 1], k)
  BY LinesOK DEF TableInText
<1>2. row + 1 \in 1 .. N /\ (row + 1) - 1 = row /\ row \in 0 .. N - 1 /\ row + 1 \in 0 .. N - 1 /\ row \in 0 .. N
      /\ row + 2 \in 1 .. N /\ (row + 2) - 1 = row + 1 /\ (row + 1) + 1 = row + 2
  BY <1>1
<1>3. /\ line \in Seq(Characters) /\ s[row + 1] = line \o eol /\ eol \in Seq(Characters) /\ text \in Seq(Characters)
      /\ LineText(Lines[row + 2]) \in Seq(Characters)
      /\ \E more \in {eol, end} : s[row + 2] = LineText(Lines[row + 2]) \o more
      /\ end \in Seq(Characters) /\ Len(s) = N
  <2>1. /\ Len(s) = N /\ eol \in Seq(Characters) /\ end \in Seq(Characters)
        /\ \A k \in 1 .. N :
              /\ LineText(Lines[k]) \in Seq(Characters)
              /\ k < N => s[k] = LineText(Lines[k]) \o eol
              /\ k = N => s[k] = LineText(Lines[k]) \o end
    BY LineForms
  <2> HIDE DEF s
  <2>2. row + 1 < N /\ (row + 2 < N \/ row + 2 = N)
    BY <1>1, <1>2
  <2>3. line \in Seq(Characters) /\ LineText(Lines[row + 2]) \in Seq(Characters)
    BY <1>2, <2>1
  <2>4. s[row + 1] = line \o eol
    BY <1>2, <2>1, <2>2
  <2>5. s[row + 2] = LineText(Lines[row + 2]) \o eol \/ s[row + 2] = LineText(Lines[row + 2]) \o end
    BY <1>2, <2>1, <2>2
  <2>6. text \in Seq(Characters)
    BY DEF TableInText
  <2> HIDE DEF line
  <2> QED
    BY <2>1, <2>3, <2>4, <2>5, <2>6
<1> HIDE DEF line, s
<1>4. at[row] \in Nat /\ Occurs(text, at[row], line \o eol) /\ at[row + 1] = at[row] + Len(line \o eol)
  BY <1>2, <1>3 DEF Divides, s
<1>5. Occurs(text, at[row], line) /\ Occurs(text, m, eol) /\ m \in Nat /\ at[row + 1] = m + Len(eol)
  <2>1. Occurs(text, at[row], line) /\ Occurs(text, m, eol)
    BY <1>3, <1>4, OccursConcat
  <2>2. Len(line \o eol) = Len(line) + Len(eol) /\ Len(line) \in Nat /\ Len(eol) \in Nat
    BY <1>3
  <2> QED
    BY <1>4, <2>1, <2>2
<1>6. PICK f : AtEnd(W, m, row, f)
  BY <1>2, <1>5, LineRead DEF line
<1>7. Occurs(text, at[row + 1], LineText(Lines[row + 2]))
  <2>1. PICK more \in {eol, end} : s[row + 2] = LineText(Lines[row + 2]) \o more
    BY <1>3
  <2>2. Occurs(text, at[row + 1], s[row + 2])
    BY <1>2 DEF Divides, s
  <2>3. more \in Seq(Characters)
    BY <1>3
  <2> QED
    BY <1>3, <2>1, <2>2, <2>3, OccursConcat
<1>8. at[row + 1] < Len(text) /\ text[at[row + 1] + 1] # LF
  <2>1. LineOK(Lines[row + 2], row + 1) /\ ParserAssumption /\ TablesAssumption
    BY <1>1, <1>2 DEF TableInText
  <2> QED
    BY <1>3, <1>7, <2>1, LineStarts
<1> HIDE DEF m
<1>9. eol = <<CR>> => m + 1 < Len(text) /\ text[m + 2] # LF
  <2> SUFFICES ASSUME eol = <<CR>> PROVE m + 1 < Len(text) /\ text[m + 2] # LF
    OBVIOUS
  <2>1. at[row + 1] = m + 1 /\ at[row + 1] + 1 = m + 2
    BY <1>5
  <2> QED
    BY <1>8, <2>1
<1>10. AtLine(W, m + Len(eol), row + 1)
  BY <1>5, <1>6, <1>9, LineEnded DEF Eols
<1> QED
  BY <1>5, <1>10

(* The last line.                                                           *)
LEMMA LastLineRead ==
  ASSUME NEW W, NEW text, Parses(W, text), TableInText(text), NEW eol \in Eols, NEW end \in {eol, <<>>},
         NEW n \in Nat, NEW row \in Nat, row + 1 = Len(Lines), AtLine(W, n, row),
         Occurs(text, n, LineText(Lines[row + 1]) \o end), Len(text) = n + Len(LineText(Lines[row + 1]) \o end)
  PROVE  /\ W[Len(text)].error = "Ok"
         /\ LET z == FinishParser(W[Len(text)]) IN z.error = "Ok" /\ Records(z.fields) = given
<1> DEFINE line == LineText(Lines[row + 1])
           m == n + Len(line)
<1>1. line \in Seq(Characters) /\ end \in Seq(Characters) /\ text \in Seq(Characters) /\ row \in 0 .. Len(Lines) - 1
      /\ Before(row + 1) = given /\ EscapeOK /\ ParserAssumption
  <2>1. Len(Lines) \in Nat \ {0} /\ Before(Len(Lines)) = given
    BY LinesOK DEF TableInText
  <2>2. row + 1 \in 1 .. Len(Lines)
    BY <2>1
  <2>3. line \in Seq(Characters) /\ end \in Seq(Characters)
    BY <2>2, LineForms
  <2>4. row \in 0 .. Len(Lines) - 1
    BY <2>1
  <2> QED
    BY <2>1, <2>3, <2>4 DEF TableInText, Parses, EscapeOK
<1> HIDE DEF line
<1>2. Occurs(text, n, line) /\ Occurs(text, m, end) /\ m \in Nat /\ Len(text) = m + Len(end)
  BY <1>1, OccursConcat DEF line
<1>3. PICK f : AtEnd(W, m, row, f)
  BY <1>1, <1>2, LineRead DEF line
<1>4. /\ Reading(W[m], m, f, Outside) /\ Counts(W[m]) /\ ~W[m].afterRecordSep
      /\ AddFields(Append(W[m].fields, <<W[m].col, W[m].row, f>>)) = [record |-> <<>>, table |-> given]
  BY <1>1, <1>3 DEF AtEnd
<1> HIDE DEF m
<1>5. W[Len(text)].error = "Ok" /\ Finishes(FinishParser(W[Len(text)]), W[m], f)
  <2>1. CASE end = <<>>
    <3>1. Len(text) = m
      BY <1>2, <2>1
    <3> QED
      BY <1>1, <1>2, <1>4, <3>1, FinishLast DEF Reading
  <2>2. CASE end = <<CR>>
    <3>1. Len(text) = m + 1 /\ text[m + 1] = CR
      <4>1. Len(end) = 1 /\ end[1] = CR
        BY <2>2
      <4> QED
        <5>1. 1 \in 1 .. Len(end) /\ \A j \in 1 .. Len(end) : text[m + j] = end[j]
          BY <1>2, <4>1 DEF Occurs
        <5> QED
          BY <1>2, <4>1, <5>1
    <3> QED
      BY <1>2, <1>4, <3>1, FinishCR
  <2>3. CASE end \in {<<LF>>, <<CR, LF>>}
    <3>1. end \in {<<LF>>, <<CR>>, <<CR, LF>>} /\ end # <<CR>>
      <4>1. LF # CR
        BY <1>1 DEF ParserAssumption
      <4>2. <<LF>> # <<CR>> /\ <<CR, LF>> # <<CR>>
        BY <4>1
      <4> QED
        BY <2>3, <4>2
    <3>2. AtLine(W, m + Len(end), row + 1) /\ NextLine(W[m], W[m + Len(end)], f)
      BY <1>2, <1>3, <3>1, LineEnded
    <3>3. Reading(W[Len(text)], Len(text), <<>>, Outside) /\ NextLine(W[m], W[Len(text)], f)
      BY <1>2, <3>2 DEF AtLine
    <3>4. Len(text) \in Nat
      BY <1>1
    <3> QED
      BY <3>3, <3>4, FinishEnded DEF Reading
  <2> QED
    BY <2>1, <2>2, <2>3 DEF Eols
<1> QED
  BY <1>4, <1>5 DEF Finishes, Records
-----------------------------------------------------------------------------
(* The table the file was written from.                                     *)
Written ==
  given # Null =>
    /\ escape = Backslash /\ header \in BOOLEAN /\ given \in Tables
    /\ \E eol \in Eols : \E end \in {eol, <<>>} : file = Joined(LineTexts(eol, end))

LEMMA WholeReadsBack ==
  ASSUME Written, given # Null, file \in Seq(Characters)
  PROVE  LET read == Execute(NewParser, file)
         IN  /\ read.error = "Ok"
             /\ FinishParser(read).error = "Ok" /\ Records(FinishParser(read).fields) = given
<1> DEFINE N == Len(Lines)
<1>1. /\ escape = Backslash /\ header \in BOOLEAN /\ given \in Tables /\ EscapeOK
      /\ ParserAssumption /\ TablesAssumption /\ TableInText(file)
  BY ParserAssumption, TablesAssumption DEF Written, EscapeOK, TableInText
<1>2. PICK eol \in Eols : \E end \in {eol, <<>>} : file = Joined(LineTexts(eol, end))
  BY DEF Written
<1>3. PICK end \in {eol, <<>>} : file = Joined(LineTexts(eol, end))
  BY <1>2
<1> DEFINE s == LineTexts(eol, end)
<1>4. N \in Nat \ {0} /\ Before(0) = <<>>
  BY <1>1, LinesOK
<1>5. Len(s) = N /\ \A k \in 1 .. N : s[k] \in Seq(Characters)
  BY <1>1, LineForms
<1>6. Resume(NewParser, file) = NewParser
  BY NewIsPlain, ResumePlain
<1>7. PICK W : Rounds(W, NewParser, file)
  BY <1>1, <1>6, NewIsPlain, RoundsExist
<1>8. Parses(W, file) /\ W[0] = NewParser /\ Execute(NewParser, file) = W[Len(file)] /\ Len(file) \in Nat
  BY <1>1, <1>6, <1>7 DEF Parses, Rounds
<1> HIDE DEF N, s
<1>9. PICK at : Divides(at, file, 0, s, N)
  <2>1. Occurs(file, 0, Joined(s))
    BY <1>3, <1>8 DEF Occurs, s
  <2> QED
    BY <1>4, <1>5, <2>1, JoinedOccurs
<1>10. AtLine(W, at[0], 0)
  <2>1. at[0] = 0
    BY <1>9 DEF Divides
  <2>2. Reading(W[0], 0, <<>>, Outside)
    BY <1>8, NewIsPlain DEF Reading, NewParser, Outside
  <2>3. W[0].col = 0 /\ W[0].row = 0 /\ W[0].afterFirstRow = FALSE /\ W[0].fields = <<>>
    BY <1>8 DEF NewParser
  <2>4. AddFields(W[0].fields) = [record |-> <<>>, table |-> Before(0)]
    BY <1>4, <2>3, AddFieldsNone DEF NoneAdded
  <2> QED
    BY <2>1, <2>2, <2>3, <2>4 DEF AtLine
<1> DEFINE S == {row \in Nat : row + 1 <= N => AtLine(W, at[row], row)}
<1>11. 0 \in S
  BY <1>10
<1>12. ASSUME NEW row \in Nat, row \in S PROVE row + 1 \in S
  <2> SUFFICES ASSUME (row + 1) + 1 <= N PROVE AtLine(W, at[row + 1], row + 1)
    OBVIOUS
  <2>1. row + 1 < N /\ AtLine(W, at[row], row)
    BY <1>4, <1>12
  <2> QED
    BY <1>1, <1>8, <1>9, <2>1, LineFollows DEF s, N
<1>13. Nat \subseteq S
  <2> HIDE DEF S
  <2> QED
    BY <1>11, <1>12, NatSetInduction
<1>14. PICK row \in Nat : row + 1 = N
  <2>1. N - 1 \in Nat /\ (N - 1) + 1 = N
    BY <1>4
  <2> QED
    BY <2>1
<1>15. AtLine(W, at[row], row)
  BY <1>13, <1>14
<1>16. PICK n \in Nat : n = at[row]
  <2>1. row \in 0 .. N
    BY <1>4, <1>14
  <2> QED
    BY <1>9, <2>1 DEF Divides
<1>17. Occurs(file, n, LineText(Lines[row + 1]) \o end) /\ Len(file) = n + Len(LineText(Lines[row + 1]) \o end)
  <2>1. N \in 1 .. N /\ N - 1 = row /\ N = Len(Lines)
    BY <1>4, <1>14 DEF N
  <2>2. Occurs(file, at[row], s[N]) /\ at[N] = at[row] + Len(s[N]) /\ at[N] = 0 + Len(Joined(s))
    BY <1>9, <2>1 DEF Divides
  <2>3. s[N] = LineText(Lines[N]) \o end
    BY <1>1, <2>1, LineForms DEF s
  <2>4. Joined(s) = file
    BY <1>3 DEF s
  <2>5. 0 + Len(file) = Len(file)
    BY <1>8
  <2> QED
    BY <1>14, <1>16, <2>2, <2>3, <2>4, <2>5
<1> DEFINE read == W[Len(file)]
<1>18. read.error = "Ok" /\ FinishParser(read).error = "Ok" /\ Records(FinishParser(read).fields) = given
  BY <1>1, <1>8, <1>14, <1>15, <1>16, <1>17, LastLineRead DEF N
<1> QED
  BY <1>8, <1>18

LEMMA InitWritten == ParserInit => Written
<1> SUFFICES ASSUME ParserInit, given # Null PROVE Written
  BY DEF Written
<1>1. escape = Backslash /\ header \in BOOLEAN /\ given \in Tables
  BY DEF ParserInit
<1>2. PICK eol \in Eols : \E end \in {eol, <<>>} :
             file = TableText(IF header THEN <<[n \in DOMAIN Types |-> <<CHOOSE c \in Letters : TRUE>>]>> \o given
                                        ELSE given, eol, end)
  BY DEF ParserInit, Eols
<1>3. PICK end \in {eol, <<>>} : file = TableText(Lines, eol, end)
  BY <1>2 DEF Lines, Names
<1>4. file = Joined(LineTexts(eol, end))
  BY <1>3 DEF TableText, LineTexts
<1> QED
  BY <1>1, <1>3, <1>4 DEF Written

LEMMA WrittenFixed ==
  ASSUME Written, UNCHANGED <<escape, header, file, given>>
  PROVE  Written'
<1>1. Lines' = Lines
  BY DEF Lines
<1>2. \A eol, end : LineTexts(eol, end)' = LineTexts(eol, end)
  BY <1>1 DEF LineTexts
<1> QED
  BY <1>2 DEF Written

(* Records written as text are read back, whatever the values: fields with  *)
(* separators, quotes and backslashes in them, NULLs, and with every line   *)
(* ending, also divided between two chunks, and none at the end.            *)
THEOREM RecordsAreReadBack == ParserSpec => []RecordsReadBack
<1> DEFINE I == ParserIInv /\ Written
<1>1. ParserInit => I
  BY ParserInitIInv, InitWritten
<1>2. I /\ [ParserNext]_parserVars => I'
  <2> SUFFICES ASSUME I, [ParserNext]_parserVars PROVE I'
    OBVIOUS
  <2>1. ParserIInv'
    BY ChunkIInv, FinishIInv, StutterIInv DEF ParserNext, ParserDone
  <2>2. UNCHANGED <<escape, header, file, given>>
    BY DEF ParserNext, ReadChunk, FinishFile, ParserDone, parserVars
  <2>3. Written'
    BY <2>2, WrittenFixed
  <2> QED
    BY <2>1, <2>3
<1>3. I => RecordsReadBack
  <2> SUFFICES ASSUME I, ended, given # Null PROVE parser.error = "Ok" /\ Records(parser.fields) = given
    BY DEF RecordsReadBack
  <2> DEFINE read == Execute(NewParser, file)
  <2>1. read.error = "Ok" /\ FinishParser(read).error = "Ok" /\ Records(FinishParser(read).fields) = given
    BY WholeReadsBack DEF ParserIInv
  <2>2. parser.fields = FinishParser(read).fields /\ parser.error = FinishParser(read).error
    BY <2>1 DEF ParserIInv, ChunksDoNotMatter
  <2> QED
    BY <2>1, <2>2
<1> QED
  BY <1>1, <1>2, <1>3, PTL DEF ParserSpec

-----------------------------------------------------------------------------
(* FilterThreadPool.                                                        *)

(* The pool starts in the invariant: nothing is posted, nobody holds a mutex. *)
LEMMA InitIInv == Init => IInv
  BY SizesAssumption, SMT
  DEF SizesAssumption, Init, IInv, ControlTypeOK, HoldsForWork, AnsweredSoFar, Threads, Holding, Unlocked, Ready

(* A loop over the threads: its index stays one of a thread. *)
LEMMA AdvanceIndex ==
  ASSUME ControlTypeOK, NEW to, Advance(to)
  PROVE  /\ i' \in Threads
         /\ \/ i' = i + 1 /\ pc' = pc
            \/ i' = 0 /\ pc' = to /\ \A t \in Threads : t <= i
  BY SizesAssumption, SMT DEF SizesAssumption, ControlTypeOK, Advance, Threads

(* The steps of a worker: it takes its mutex only for work to do, and no    *)
(* step of it posts work.                                                   *)
LEMMA WorkerIInv == ASSUME IInv, NEW w \in Threads, Worker(w) PROVE IInv'
<1> USE DEF IInv, ControlTypeOK, HoldsForWork, AnsweredSoFar, Unlocked, Ready, Holding,
            callerVars, flags
<1>1. CASE Enter(w)        BY <1>1, SMT DEF Enter
<1>2. CASE TakeBegin(w)    BY <1>2, SMT DEF TakeBegin
<1>3. CASE Apply(w)        BY <1>3, SMT DEF Apply
<1>4. CASE Finish(w)       BY <1>4, SMT DEF Finish
<1>5. CASE Notify(w)       BY <1>5, SMT DEF Notify, CallerWoken
<1> QED BY <1>1, <1>2, <1>3, <1>4, <1>5 DEF Worker

(* The steps of run: it begins when every worker has answered, posts to one *)
(* worker after the other, and ends when each has answered again.           *)
LEMMA RunIInv == ASSUME IInv, CallRun \/ Run PROVE IInv'
<1> USE DEF IInv, ControlTypeOK, HoldsForWork, AnsweredSoFar, Unlocked, Ready, Holding,
            callerVars, flags
<1>1. CASE CallRun         BY <1>1, SMT DEF CallRun
<1>2. CASE AssignNumTasks  BY <1>2, SMT DEF AssignNumTasks
<1>3. CASE Post
  <2>1. /\ i' \in Threads
        /\ \/ i' = i + 1 /\ pc' = pc
           \/ i' = 0 /\ pc' = "signal" /\ \A t \in Threads : t <= i
    BY <1>3, AdvanceIndex DEF Post
  <2>2. \A t \in Threads : t \in Int  BY SizesAssumption DEF SizesAssumption, Threads
  <2> QED BY <1>3, <2>1, <2>2, SMT DEF Post, Posted
<1>4. CASE Signal
  <2>1. /\ i' \in Threads
        /\ \/ i' = i + 1 /\ pc' = pc
           \/ i' = 0 /\ pc' = "await" /\ \A t \in Threads : t <= i
    BY <1>4, AdvanceIndex DEF Signal
  <2>2. \A t \in Threads : t \in Int /\ t >= 0  BY SizesAssumption DEF SizesAssumption, Threads
  <2> QED BY <1>4, <2>1, <2>2, SMT DEF Signal, WorkerWoken
<1>5. CASE Await
  <2>1. CASE Answered(i)
    <3>1. /\ i' \in Threads
          /\ \/ i' = i + 1 /\ pc' = pc
             \/ i' = 0 /\ pc' = "idle" /\ \A t \in Threads : t <= i
      BY <1>5, <2>1, AdvanceIndex DEF Await
    <3>2. \A t \in Threads : t \in Int /\ t >= 0  BY SizesAssumption DEF SizesAssumption, Threads
    <3> QED BY <1>5, <2>1, <3>1, <3>2, SMT DEF Await, Answered
  <2>2. CASE ~Answered(i)  BY <1>5, <2>2, SMT DEF Await
  <2> QED BY <2>1, <2>2
<1> QED BY <1>1, <1>2, <1>3, <1>4, <1>5 DEF Run

(* The constructor, the destructor and wakeups without a notification post  *)
(* no work.                                                                 *)
LEMMA LifeIInv ==
  ASSUME IInv, Construct \/ CallDestructor \/ Destruct \/ WakeSpuriously
  PROVE  IInv'
<1> USE DEF IInv, ControlTypeOK, HoldsForWork, AnsweredSoFar, Unlocked, Ready, Holding,
            callerVars, flags
<1>0. \A t \in Threads : t \in Int  BY SizesAssumption DEF SizesAssumption, Threads
<1>1. CASE Construct
  <2>1. i' \in Threads  BY <1>1, SizesAssumption, SMT DEF SizesAssumption, Construct, Threads
  <2> QED BY <1>1, <2>1, SMT DEF Construct
<1>2. CASE CallDestructor  BY <1>2, SMT DEF CallDestructor
<1>3. CASE Mark
  <2>1. i' \in Threads /\ pc' \in {"mark", "wake"}  BY <1>3, AdvanceIndex DEF Mark
  <2> QED BY <1>3, <2>1, SMT DEF Mark
<1>4. CASE Wake
  <2>1. i' \in Threads /\ pc' \in {"wake", "join"}  BY <1>4, AdvanceIndex DEF Wake
  <2> QED BY <1>4, <2>1, SMT DEF Wake, WorkerWoken
<1>5. CASE JoinThread
  <2>1. i' \in Threads /\ pc' \in {"join", "destroyed"}  BY <1>5, AdvanceIndex DEF JoinThread
  <2> QED BY <1>5, <2>1, SMT DEF JoinThread
<1>6. CASE WakeSpuriously
  <2>1. CASE pc = "asleep" /\ pc' = "await" /\ UNCHANGED worker
    BY <1>6, <2>1, SMT DEF WakeSpuriously
  <2>2. CASE /\ \E t \in Threads : worker[t] = "asleep"
                                   /\ worker' = [worker EXCEPT ![t] = "lock"]
             /\ UNCHANGED pc
    BY <1>6, <2>2, SMT DEF WakeSpuriously
  <2> QED BY <1>6, <2>1, <2>2 DEF WakeSpuriously
<1> QED BY <1>1, <1>2, <1>3, <1>4, <1>5, <1>6 DEF Destruct

(* The invariant is inductive. *)
LEMMA NextIInv == IInv /\ [Next]_vars => IInv'
<1> SUFFICES ASSUME IInv, [Next]_vars PROVE IInv'
  OBVIOUS
<1>1. CASE UNCHANGED vars
  BY <1>1 DEF IInv, ControlTypeOK, HoldsForWork, AnsweredSoFar, Unlocked, Ready,
              vars, callerVars, flags
<1>2. CASE Next
  BY <1>1, <1>2, WorkerIInv, RunIInv, LifeIInv DEF Next, Destroyed
<1> QED BY <1>1, <1>2

(* run overwrites function and num_tasks, and the destructor ends their     *)
(* life, only while no worker of the pool reads them or is about to.        *)
THEOREM MembersNeverShared == Spec => []MembersNotShared
<1>1. IInv => MembersNotShared
  BY DEF IInv, HoldsForWork, AnsweredSoFar, MembersNotShared, Ready
<1> QED BY InitIInv, NextIInv, <1>1, PTL DEF Spec

-----------------------------------------------------------------------------
(* begin_idx cuts the tasks into one range per thread. *)
Cut(n, t) ==
  t * (n \div NumThreads) + IF t < n % NumThreads THEN t ELSE n % NumThreads

LEMMA CutSteps ==
  ASSUME NEW n \in Nat, NEW t \in Nat
  PROVE  /\ Cut(n, t) \in Nat
         /\ Cut(n, t + 1) = Cut(n, t) + (n \div NumThreads) + IF t < n % NumThreads THEN 1 ELSE 0
<1> DEFINE base == n \div NumThreads
           rem  == n % NumThreads
<1>1. base \in Nat /\ rem \in Nat
  BY DivMod, SizesAssumption DEF SizesAssumption
<1> HIDE DEF base, rem
<1>2. t * base \in Nat /\ (t + 1) * base = t * base + base
  BY <1>1, SMTT(30)
<1>3. /\ Cut(n, t) = t * base + IF t < rem THEN t ELSE rem
      /\ Cut(n, t + 1) = (t + 1) * base + IF t + 1 < rem THEN t + 1 ELSE rem
  BY DEF Cut, base, rem
<1>4. /\ Cut(n, t) \in Nat
      /\ Cut(n, t + 1) = Cut(n, t) + base + IF t < rem THEN 1 ELSE 0
  BY <1>1, <1>2, <1>3
<1> QED BY <1>4 DEF base, rem

LEMMA CutMonotonic ==
  ASSUME NEW n \in Nat, NEW t \in Nat, NEW u \in Nat, t <= u
  PROVE  Cut(n, t) <= Cut(n, u)
<1> DEFINE base == n \div NumThreads
           rem  == n % NumThreads
<1>1. base \in Nat /\ rem \in Nat
  BY DivMod, SizesAssumption DEF SizesAssumption
<1> HIDE DEF base, rem
<1>2. t * base <= u * base /\ t * base \in Nat /\ u * base \in Nat
  BY <1>1, TimesMonotonic, SMTT(30)
<1>3. /\ Cut(n, t) = t * base + IF t < rem THEN t ELSE rem
      /\ Cut(n, u) = u * base + IF u < rem THEN u ELSE rem
  BY DEF Cut, base, rem
<1> QED BY <1>1, <1>2, <1>3

LEMMA CutEnds ==
  ASSUME NEW n \in Nat
  PROVE  Cut(n, 0) = 0 /\ Cut(n, NumThreads) = n
<1> DEFINE base == n \div NumThreads
           rem  == n % NumThreads
<1>1. base \in Nat /\ rem \in Nat /\ rem < NumThreads /\ n = NumThreads * base + rem
  BY DivMod, SizesAssumption DEF SizesAssumption
<1>2. NumThreads \in Nat  BY SizesAssumption DEF SizesAssumption
<1> HIDE DEF base, rem
<1>3. /\ Cut(n, 0) = 0 * base + IF 0 < rem THEN 0 ELSE rem
      /\ Cut(n, NumThreads) = NumThreads * base + IF NumThreads < rem THEN NumThreads ELSE rem
  BY DEF Cut, base, rem
<1>4. 0 * base = 0 /\ NumThreads * base \in Nat  BY <1>1, <1>2, SMTT(30)
<1> QED BY <1>1, <1>2, <1>3, <1>4

(* Every task is in the range of a thread. *)
LEMMA CutCovers ==
  ASSUME NEW n \in Nat, NEW x \in 0 .. n - 1
  PROVE  \E t \in Threads : Cut(n, t) <= x /\ x < Cut(n, t + 1)
<1> DEFINE base == n \div NumThreads
           rem  == n % NumThreads
           long == rem * (base + 1)
<1>1. base \in Nat /\ rem \in Nat /\ rem < NumThreads /\ n = NumThreads * base + rem
  BY DivMod, SizesAssumption DEF SizesAssumption
<1>2. NumThreads \in Nat /\ x \in Nat /\ x < n  BY SizesAssumption DEF SizesAssumption
<1>3. \A t \in Nat : Cut(n, t) = t * base + IF t < rem THEN t ELSE rem
  BY DEF Cut
<1>4. \A t \in Nat : Cut(n, t) \in Nat /\ Cut(n, t + 1) = Cut(n, t) + base + IF t < rem THEN 1 ELSE 0
  BY CutSteps
<1> HIDE DEF base, rem, long
<1>5. long \in Nat  BY <1>1, SMTT(30) DEF long
<1>6. CASE x < long
  <2> DEFINE t == x \div (base + 1)
  <2>1. t \in Nat /\ (base + 1) * t <= x /\ x < (base + 1) * (t + 1)
    <3>1. base + 1 \in Nat \ {0}  BY <1>1
    <3> QED BY <1>2, <3>1, DivBounds
  <2> HIDE DEF t
  <2>2. t < rem
    <3>1. ASSUME rem <= t PROVE FALSE
      <4>1. rem * (base + 1) <= t * (base + 1)  BY <1>1, <2>1, <3>1, TimesMonotonic
      <4>2. t * (base + 1) = (base + 1) * t  BY <1>1, <2>1, SMTT(30)
      <4> QED BY <1>2, <1>5, <1>6, <2>1, <4>1, <4>2, <1>1, SMTT(30) DEF long
    <3> QED BY <1>1, <2>1, <3>1
  <2>3. (base + 1) * t = t * base + t /\ (base + 1) * (t + 1) = (t * base + t) + base + 1
    BY <1>1, <2>1, SMTT(30)
  <2>4. Cut(n, t) = t * base + t /\ Cut(n, t + 1) = (t * base + t) + base + 1
    BY <1>3, <1>4, <2>1, <2>2
  <2>5. t \in Threads  BY <1>1, <1>2, <2>1, <2>2 DEF Threads
  <2> QED BY <2>1, <2>3, <2>4, <2>5
<1>7. CASE long <= x
  <2> DEFINE u == (x - long) \div base
             t == rem + u
  <2>1. base # 0
    <3>1. ASSUME base = 0 PROVE FALSE
      <4>1. long = rem /\ n = rem  BY <1>1, <1>2, <3>1, SMTT(30) DEF long
      <4> QED BY <1>2, <1>7, <4>1, <1>1
    <3> QED BY <3>1
  <2>2. u \in Nat /\ base * u <= x - long /\ x - long < base * (u + 1)
    <3>1. x - long \in Nat  BY <1>2, <1>5, <1>7
    <3> QED BY <1>1, <2>1, <3>1, DivBounds
  <2> HIDE DEF u
  <2>3. t \in Nat /\ ~(t < rem)  BY <1>1, <2>2
  <2>4. t * base + rem = long + base * u /\ base * (u + 1) = base * u + base /\ base * u \in Nat
    BY <1>1, <2>2, SMTT(30) DEF long
  <2> HIDE DEF t
  <2>5. Cut(n, t) = long + base * u /\ Cut(n, t + 1) = (long + base * u) + base
    <3>1. Cut(n, t) = t * base + rem  BY <1>3, <2>3
    <3>2. Cut(n, t + 1) = Cut(n, t) + base + 0  BY <1>4, <2>3
    <3> QED BY <1>1, <1>5, <2>4, <3>1, <3>2
  <2>6. Cut(n, t) <= x /\ x < Cut(n, t + 1)
    BY <1>1, <1>2, <1>5, <2>2, <2>4, <2>5
  <2>7. t < NumThreads
    <3>1. ASSUME NumThreads <= t PROVE FALSE
      <4>1. Cut(n, NumThreads) <= Cut(n, t)  BY <1>2, <2>3, <3>1, CutMonotonic
      <4>2. Cut(n, NumThreads) = n  BY CutEnds
      <4>3. Cut(n, t) \in Nat  BY <1>4, <2>3
      <4> QED BY <1>2, <2>6, <4>1, <4>2, <4>3
    <3> QED BY <1>2, <2>3, <3>1
  <2>8. t \in Threads  BY <1>2, <2>3, <2>7 DEF Threads
  <2> QED BY <2>6, <2>8
<1> QED BY <1>2, <1>5, <1>6, <1>7

(* Once every thread has started, begin_idx cuts for all of them. *)
LEMMA AllBorn ==
  ASSUME NEW w, \A t \in Threads : w[t] # "unborn"
  PROVE  Cardinality({t \in Threads : w[t] # "unborn"}) = NumThreads
<1>1. {t \in Threads : w[t] # "unborn"} = 0 .. NumThreads - 1
  BY DEF Threads
<1>2. NumThreads \in Nat \ {0}  BY SizesAssumption DEF SizesAssumption
<1>3. \A n \in Nat \ {0} : Cardinality(0 .. n - 1) = n  BY FS_Interval
<1> QED BY <1>1, <1>2, <1>3

LEMMA BeginIsCut ==
  /\ (\A t \in Threads : worker[t] # "unborn") =>
       \A t : BeginIdx(t) = Cut(numTasks, t)
  /\ (\A t \in Threads : worker'[t] # "unborn") =>
       \A t : BeginIdx(t)' = Cut(numTasks', t)
<1>1. (\A t \in Threads : worker[t] # "unborn") => ThreadCount = NumThreads
  BY AllBorn DEF ThreadCount
<1>2. (\A t \in Threads : worker'[t] # "unborn") => ThreadCount' = NumThreads
  BY AllBorn DEF ThreadCount
<1> QED BY <1>1, <1>2 DEF BeginIdx, Cut

LEMMA CountsAreNat ==
  /\ \A n \in TaskCounts \cup {0} : n \in Nat
  /\ \A n \in TaskCounts : \A x \in 0 .. n - 1 : x \in AllTasks
  /\ AllTasks \subseteq Nat
  BY SizesAssumption DEF SizesAssumption, AllTasks

(* Where the first task of a range is. *)
LEMMA CutInTasks ==
  ASSUME NEW n \in Nat, NEW t \in Threads
  PROVE  Cut(n, t) \in 0 .. n /\ Cut(n, t + 1) \in 0 .. n
<1>1. t \in Nat /\ t + 1 \in Nat /\ t + 1 <= NumThreads /\ t <= NumThreads /\ NumThreads \in Nat
  BY SizesAssumption DEF SizesAssumption, Threads
<1>2. Cut(n, t) <= n /\ Cut(n, t + 1) <= n
  BY <1>1, CutMonotonic, CutEnds
<1> QED BY <1>1, <1>2, CutSteps

(* Steps that neither apply the function nor begin or end a call keep the   *)
(* count of applications exact.                                             *)
LEMMA Frame ==
  ASSUME ExactIInv, IInv', pc # "construct", pc' # "construct", Running' = Running,
         UNCHANGED <<numTasks, applied>>,
         runs' \in 0 .. MaxRuns, begin' \in [Threads -> Nat],
         pc' \in {"idle", "assign"} => i' = 0,
         \A t \in Threads :
           /\ worker'[t] # "unborn"
           /\ PostedTo(t)' => hasFunction'[t]
           /\ worker'[t] \in {"apply", "finish"} => begin'[t] = BeginIdx(t)
           /\ Running => HasApplied(t)' = HasApplied(t)
  PROVE  ExactIInv'
<1>1. \A t \in Threads : worker[t] # "unborn"
  BY DEF ExactIInv, TasksExact
<1>2. \A t : BeginIdx(t) = Cut(numTasks, t) /\ BeginIdx(t)' = Cut(numTasks, t)
  BY <1>1, BeginIsCut
<1>3. numTasks \in Nat  BY CountsAreNat DEF ExactIInv, TypeOK
<1>4. TypeOK'
  <2>1. \A t \in Threads : worker'[t] \in {"apply", "finish"} => begin'[t] \in 0 .. numTasks'
    BY <1>2, <1>3, CutInTasks
  <2> QED BY <2>1 DEF ExactIInv, TypeOK, IInv
<1>5. \A t : TasksOf(t)' = TasksOf(t)
  BY <1>2 DEF TasksOf
<1>6. TasksExact'
  <2>1. Running => \A x \in AllTasks :
          applied'[x] = IF \E t \in Threads : HasApplied(t)' /\ x \in TasksOf(t)' THEN 1 ELSE 0
    BY <1>5 DEF ExactIInv, TasksExact
  <2>2. ~Running => \A x \in AllTasks : applied'[x] = IF x < numTasks' THEN 1 ELSE 0
    BY DEF ExactIInv, TasksExact
  <2>3. \A t \in Threads : worker'[t] \in {"apply", "finish"} => begin'[t] = BeginIdx(t)'
    BY <1>2
  <2> QED BY <2>1, <2>2, <2>3 DEF TasksExact
<1> QED BY <1>4, <1>6 DEF ExactIInv

(* A worker works on a call that posted to it. *)
LEMMA WorkingIsPosted ==
  ASSUME IInv, NEW t \in Threads, worker[t] \in Holding
  PROVE  Running /\ PostedTo(t) /\ hasFunction[t] /\ ~finished[t] /\ pc # "construct"
<1>1. Ready(t)
  BY DEF IInv, HoldsForWork, Unlocked
<1>2. pc \notin {"construct", "idle", "assign", "mark", "wake", "join", "destroyed"}
  BY <1>1 DEF IInv, AnsweredSoFar
<1>3. pc = "post" => ~(t >= i)
  BY <1>1 DEF IInv, AnsweredSoFar
<1>4. t \in Int /\ i \in Int
  BY SizesAssumption DEF SizesAssumption, Threads, IInv, ControlTypeOK
<1> QED BY <1>1, <1>2, <1>3, <1>4 DEF IInv, ControlTypeOK, Running, PostedTo, Ready

(* While the constructor runs there are no calls. *)
LEMMA FrameConstruct ==
  ASSUME ExactIInv, IInv', pc = "construct", ~Running', UNCHANGED <<numTasks, applied>>,
         runs' \in 0 .. MaxRuns, begin' \in [Threads -> Nat],
         pc' \in {"construct", "idle"}, pc' = "idle" => i' = 0,
         \A t \in Threads : (pc' = "construct" => t < i') => worker'[t] # "unborn"
  PROVE  ExactIInv'
<1>1. \A t \in Threads : worker'[t] \notin {"apply", "finish"}
  BY DEF IInv, HoldsForWork, AnsweredSoFar, Unlocked, Holding, Ready
<1>2. ~Running  BY DEF Running
<1>3. TypeOK'
  BY <1>1 DEF ExactIInv, TypeOK, IInv
<1>4. TasksExact'
  BY <1>1, <1>2 DEF ExactIInv, TasksExact, PostedTo
<1> QED BY <1>3, <1>4 DEF ExactIInv

(* Ranges of different threads have no task in common. *)
LEMMA RangesDisjoint ==
  ASSUME NEW n \in Nat, NEW t \in Threads, NEW u \in Threads, t # u, NEW x \in Nat,
         Cut(n, t) <= x, x < Cut(n, t + 1), Cut(n, u) <= x, x < Cut(n, u + 1)
  PROVE  FALSE
<1>1. t \in Nat /\ u \in Nat  BY SizesAssumption DEF SizesAssumption, Threads
<1>2. /\ Cut(n, t) \in Nat /\ Cut(n, t + 1) \in Nat /\ Cut(n, u) \in Nat /\ Cut(n, u + 1) \in Nat
  BY <1>1, CutSteps
<1>3. CASE t < u
  <2>1. Cut(n, t + 1) <= Cut(n, u)  BY <1>1, <1>3, CutMonotonic
  <2> QED BY <1>2, <2>1
<1>4. CASE u < t
  <2>1. Cut(n, u + 1) <= Cut(n, t)  BY <1>1, <1>4, CutMonotonic
  <2> QED BY <1>2, <2>1
<1> QED BY <1>1, <1>3, <1>4

(* The function is applied to the range of the worker, to no task again. *)
LEMMA ApplyExact ==
  ASSUME ExactIInv, NEW w \in Threads, Apply(w)
  PROVE  /\ ExactIInv'
         /\ \A x \in AllTasks : applied'[x] = applied[x] + IF x \in TasksOf(w) THEN 1 ELSE 0
         /\ Running /\ \A x \in TasksOf(w) : x < numTasks /\ applied[x] = 0
<1>1. /\ worker[w] = "apply" /\ worker' = [worker EXCEPT ![w] = "finish"]
      /\ applied' = [x \in AllTasks |->
                   IF x >= begin[w] /\ x < BeginIdx(w + 1) THEN applied[x] + 1 ELSE applied[x]]
      /\ UNCHANGED <<pc, i, runs, numTasks, begin, hasFunction, finished, destructed>>
  BY DEF Apply, callerVars, flags
<1>2. IInv'
  BY WorkerIInv DEF ExactIInv, Worker
<1>3. Running /\ PostedTo(w) /\ hasFunction[w] /\ ~finished[w] /\ pc # "construct"
  BY <1>1, WorkingIsPosted DEF ExactIInv, Holding
<1>4. worker \in [Threads -> Holding \cup {"unborn", "lock", "asleep", "notify", "exited"}]
  BY DEF ExactIInv, TypeOK, ControlTypeOK
<1>5. /\ \A t \in Threads : worker[t] # "unborn" /\ worker'[t] # "unborn"
      /\ worker'[w] = "finish" /\ \A t \in Threads : t # w => worker'[t] = worker[t]
  BY <1>1, <1>3, <1>4 DEF ExactIInv, TasksExact
<1>6. \A t : BeginIdx(t) = Cut(numTasks, t) /\ BeginIdx(t)' = Cut(numTasks, t)
  BY <1>1, <1>5, BeginIsCut
<1>7. numTasks \in Nat /\ AllTasks \subseteq Nat
  BY CountsAreNat DEF ExactIInv, TypeOK
<1>8. \A t : /\ TasksOf(t)' = TasksOf(t)
             /\ TasksOf(t) = {x \in AllTasks : Cut(numTasks, t) <= x /\ x < Cut(numTasks, t + 1)}
  BY <1>6 DEF TasksOf
<1>9. /\ ~HasApplied(w) /\ HasApplied(w)'
      /\ \A t \in Threads : t # w => HasApplied(t)' = HasApplied(t)
      /\ \A t \in Threads : PostedTo(t)' = PostedTo(t)
  BY <1>1, <1>3, <1>5 DEF HasApplied, PostedTo, Running
<1>10. \A x \in TasksOf(w) : ~\E t \in Threads : HasApplied(t) /\ x \in TasksOf(t)
  BY <1>7, <1>8, <1>9, RangesDisjoint
<1>11. begin[w] = BeginIdx(w)
  BY <1>1 DEF ExactIInv, TasksExact
<1>12. \A t \in Threads : Cut(numTasks, t) \in 0 .. numTasks /\ Cut(numTasks, t + 1) \in 0 .. numTasks
  BY <1>7, CutInTasks
<1>13. /\ \A x \in AllTasks : applied[x] \in Nat
       /\ \A x \in AllTasks :
            applied[x] = IF \E t \in Threads : HasApplied(t) /\ x \in TasksOf(t) THEN 1 ELSE 0
  BY <1>3 DEF ExactIInv, TypeOK, TasksExact
<1>14. \A x \in AllTasks : applied'[x] = applied[x] + IF x \in TasksOf(w) THEN 1 ELSE 0
  <2>1. \A x \in AllTasks : x \in TasksOf(w) <=> x >= begin[w] /\ x < BeginIdx(w + 1)
    BY <1>6, <1>7, <1>8, <1>11, <1>12
  <2> QED BY <1>1, <1>13, <2>1
<1>15. \A x \in AllTasks :
         applied'[x] = IF \E t \in Threads : HasApplied(t)' /\ x \in TasksOf(t)' THEN 1 ELSE 0
  BY <1>8, <1>9, <1>10, <1>13, <1>14
<1>16. TypeOK'
  <2>1. applied' \in [AllTasks -> Nat]  BY <1>1, <1>13
  <2>2. \A t \in Threads : worker'[t] \in {"apply", "finish"} => worker[t] \in {"apply", "finish"}
    BY <1>1, <1>5
  <2> QED BY <1>1, <1>2, <2>1, <2>2 DEF TypeOK, ExactIInv, IInv
<1>17. TasksExact'
  <2>1. \A t \in Threads : worker'[t] \in {"apply", "finish"} => begin'[t] = BeginIdx(t)'
    BY <1>1, <1>5, <1>6, <1>11 DEF ExactIInv, TasksExact
  <2>2. Running' /\ \A t \in Threads : PostedTo(t)' => hasFunction'[t]
    BY <1>1, <1>3, <1>9 DEF ExactIInv, TasksExact, Running
  <2> QED BY <1>1, <1>5, <1>15, <2>1, <2>2 DEF TasksExact, ExactIInv
<1>18. \A x \in TasksOf(w) : x < numTasks /\ applied[x] = 0
  <2> SUFFICES ASSUME NEW x \in TasksOf(w) PROVE x < numTasks /\ applied[x] = 0
    OBVIOUS
  <2>1. x \in AllTasks /\ x \in Nat /\ x < Cut(numTasks, w + 1)  BY <1>7, <1>8
  <2>2. x < numTasks  BY <1>7, <1>12, <2>1
  <2>3. applied[x] = 0  BY <1>10, <1>13, <2>1
  <2> QED BY <2>2, <2>3
<1> QED BY <1>2, <1>3, <1>14, <1>16, <1>17, <1>18 DEF ExactIInv

(* The other steps of a worker. *)
LEMMA WorkerExact ==
  ASSUME ExactIInv, NEW w \in Threads, Enter(w) \/ TakeBegin(w) \/ Finish(w) \/ Notify(w)
  PROVE  ExactIInv' /\ Running' = Running /\ UNCHANGED <<numTasks, applied>>
<1>1. IInv'
  BY WorkerIInv DEF ExactIInv, Worker
<1>2. /\ worker \in [Threads -> Holding \cup {"unborn", "lock", "asleep", "notify", "exited"}]
      /\ begin \in [Threads -> Nat] /\ finished \in [Threads -> BOOLEAN]
      /\ runs \in 0 .. MaxRuns
  BY DEF ExactIInv, TypeOK, ControlTypeOK
<1>3. /\ UNCHANGED <<i, runs, numTasks, applied, hasFunction, destructed>>
      /\ Running' = Running /\ (pc' = "construct" <=> pc = "construct")
      /\ pc' = pc \/ (pc' = "await" /\ pc = "asleep")
  BY DEF Enter, TakeBegin, Finish, Notify, CallerWoken, callerVars, flags, Running
<1>4. \A t \in Threads : worker[t] # "unborn" => worker'[t] # "unborn"
  BY <1>2 DEF Enter, TakeBegin, Finish, Notify
<1>7. begin' \in [Threads -> Nat]
  <2>1. CASE TakeBegin(w)
    <3>1. pc # "construct"  BY <2>1, WorkingIsPosted DEF ExactIInv, TakeBegin, Holding
    <3>2. BeginIdx(w) = Cut(numTasks, w)
      BY <3>1, BeginIsCut DEF ExactIInv, TasksExact
    <3>3. numTasks \in Nat /\ w \in Nat
      BY CountsAreNat, SizesAssumption DEF ExactIInv, TypeOK, SizesAssumption, Threads
    <3>4. BeginIdx(w) \in Nat  BY <3>2, <3>3, CutSteps
    <3> QED BY <1>2, <2>1, <3>4 DEF TakeBegin
  <2>2. CASE Enter(w) \/ Finish(w) \/ Notify(w)
    BY <1>2, <2>2 DEF Enter, Finish, Notify
  <2> QED BY <2>1, <2>2
<1>5. CASE pc = "construct"
  <2>1. pc' = "construct" /\ ~Running'  BY <1>3, <1>5 DEF Running
  <2>2. \A t \in Threads : t < i => worker'[t] # "unborn"
    BY <1>4, <1>5 DEF ExactIInv, TasksExact
  <2> QED BY <1>1, <1>2, <1>3, <1>5, <1>7, <2>1, <2>2, FrameConstruct
<1>6. CASE pc # "construct"
  <2>1. \A t \in Threads : worker'[t] # "unborn"
    BY <1>4, <1>6 DEF ExactIInv, TasksExact
  <2>2. \A t \in Threads : PostedTo(t)' = PostedTo(t)
    BY <1>3 DEF PostedTo, Running
  <2>3. \A t \in Threads : HasApplied(t)' = HasApplied(t)
    <3>1. CASE Finish(w)
      BY <1>2, <2>2, <3>1 DEF Finish, HasApplied
    <3>2. CASE Enter(w)
      BY <1>2, <2>2, <3>2 DEF Enter, HasApplied, flags
    <3>3. CASE TakeBegin(w)
      BY <1>2, <2>2, <3>3 DEF TakeBegin, HasApplied, flags
    <3>4. CASE Notify(w)
      BY <1>2, <2>2, <3>4 DEF Notify, HasApplied, flags
    <3> QED BY <3>1, <3>2, <3>3, <3>4
  <2>4. \A t \in Threads : worker'[t] \in {"apply", "finish"} => begin'[t] = BeginIdx(t)
    <3>1. CASE TakeBegin(w)
      <4>1. \A t \in Threads : worker[t] \in {"apply", "finish"} => begin[t] = BeginIdx(t)
        BY DEF ExactIInv, TasksExact
      <4>2. begin'[w] = BeginIdx(w)  BY <3>1 DEF TakeBegin, ExactIInv, TypeOK
      <4> QED BY <1>2, <3>1, <4>1, <4>2 DEF TakeBegin
    <3>2. CASE Enter(w) \/ Finish(w) \/ Notify(w)
      <4>1. UNCHANGED begin /\ \A t \in Threads :
              worker'[t] \in {"apply", "finish"} => worker[t] \in {"apply", "finish"}
        BY <1>2, <3>2 DEF Enter, Finish, Notify
      <4> QED BY <4>1 DEF ExactIInv, TasksExact
    <3> QED BY <3>1, <3>2
  <2>5. \A t \in Threads : PostedTo(t)' => hasFunction'[t]
    BY <1>3, <2>2 DEF ExactIInv, TasksExact
  <2>6. pc' \in {"idle", "assign"} => i' = 0
    BY <1>3 DEF ExactIInv, TasksExact
  <2>7. pc' # "construct"  BY <1>3, <1>6
  <2> QED BY <1>1, <1>2, <1>3, <1>6, <1>7, <2>1, <2>3, <2>4, <2>5, <2>6, <2>7, Frame
<1> QED BY <1>3, <1>5, <1>6

(* A call of run that has posted to a worker is the same call until it      *)
(* returns; a worker it posts to has not applied the function yet.          *)
LEMMA RunExact ==
  ASSUME ExactIInv, CallRun \/ Post \/ Signal \/ (Await /\ (Answered(i) => i + 1 < NumThreads))
  PROVE  ExactIInv' /\ Running' = Running /\ UNCHANGED <<numTasks, applied>>
<1>1. IInv'
  <2>1. CallRun \/ Run  BY DEF Run
  <2> QED BY <2>1, RunIInv DEF ExactIInv
<1>2. /\ worker \in [Threads -> Holding \cup {"unborn", "lock", "asleep", "notify", "exited"}]
      /\ begin \in [Threads -> Nat] /\ finished \in [Threads -> BOOLEAN]
      /\ hasFunction \in [Threads -> BOOLEAN]
      /\ runs \in 0 .. MaxRuns /\ i \in Threads /\ \A t \in Threads : t \in Int
  BY SizesAssumption DEF ExactIInv, TypeOK, ControlTypeOK, SizesAssumption, Threads
<1>3. /\ UNCHANGED <<numTasks, applied, begin>> /\ runs' \in 0 .. MaxRuns
      /\ Running' = Running /\ pc # "construct" /\ pc' # "construct"
      /\ pc' \in {"idle", "assign"} => pc = "idle" /\ i' = i
  <2>1. CASE CallRun
    <3>1. runs + 1 \in 0 .. MaxRuns  BY <1>2, <2>1, SizesAssumption DEF CallRun, SizesAssumption
    <3> QED BY <2>1, <3>1 DEF CallRun, Running
  <2>2. CASE Post \/ Signal  BY <1>2, <2>2 DEF Post, Signal, Advance, flags, Running
  <2>3. CASE Await /\ (Answered(i) => i + 1 < NumThreads)
    BY <1>2, <2>3 DEF Await, Advance, flags, Running
  <2> QED BY <2>1, <2>2, <2>3
<1>4. \A t \in Threads : /\ worker[t] # "unborn" /\ worker'[t] # "unborn"
                         /\ worker'[t] \in {"apply", "finish"} <=> worker[t] \in {"apply", "finish"}
                         /\ worker'[t] = "finish" <=> worker[t] = "finish"
  <2>1. \A t \in Threads : worker[t] # "unborn"  BY <1>3 DEF ExactIInv, TasksExact
  <2>2. CASE Signal  BY <1>2, <2>1, <2>2 DEF Signal, WorkerWoken
  <2>3. CASE CallRun \/ Post \/ Await  BY <2>1, <2>3 DEF CallRun, Post, Await
  <2> QED BY <2>1, <2>2, <2>3
<1>5. \A t \in Threads : /\ PostedTo(t)' => hasFunction'[t]
                         /\ HasApplied(t)' = HasApplied(t)
  <2>1. \A t \in Threads : PostedTo(t) => hasFunction[t]  BY DEF ExactIInv, TasksExact
  <2>2. CASE CallRun
    BY <2>1, <2>2 DEF CallRun, flags, PostedTo, HasApplied, Running
  <2>3. CASE Post
    <3>1. /\ pc = "post" /\ worker[i] \notin Holding /\ UNCHANGED worker
          /\ hasFunction' = [hasFunction EXCEPT ![i] = TRUE]
          /\ finished' = [finished EXCEPT ![i] = FALSE]
      BY <2>3 DEF Post, Posted, Unlocked
    <3>2. \/ pc' = "post" /\ i' = i + 1
          \/ pc' = "signal" /\ \A t \in Threads : t <= i
      BY <2>3, AdvanceIndex DEF Post, ExactIInv, TypeOK
    <3>3. \A t \in Threads : PostedTo(t)' <=> t <= i
      BY <1>2, <3>1, <3>2 DEF PostedTo, Running
    <3>4. \A t \in Threads : PostedTo(t) <=> t < i
      BY <3>1 DEF PostedTo, Running
    <3>5. \A t \in Threads : t <= i <=> t < i \/ t = i
      BY <1>2
    <3>6. \A t \in Threads : PostedTo(t)' => hasFunction'[t]
      BY <1>2, <2>1, <3>1, <3>3, <3>4, <3>5
    <3>7. \A t \in Threads : t = i => ~HasApplied(t) /\ ~HasApplied(t)'
      <4> SUFFICES ASSUME NEW t \in Threads, t = i PROVE ~HasApplied(t) /\ ~HasApplied(t)'
        OBVIOUS
      <4>1. ~PostedTo(t)  BY <1>2, <3>4
      <4>2. finished'[t] = FALSE /\ worker'[t] # "finish"
        BY <1>2, <3>1 DEF Holding
      <4> QED BY <4>1, <4>2 DEF HasApplied
    <3>8. \A t \in Threads : t # i => HasApplied(t)' = HasApplied(t)
      BY <1>2, <3>1, <3>3, <3>4, <3>5 DEF HasApplied
    <3>9. \A t \in Threads : HasApplied(t)' = HasApplied(t)
      <4> SUFFICES ASSUME NEW t \in Threads PROVE HasApplied(t)' = HasApplied(t)
        OBVIOUS
      <4>1. HasApplied(t) \in BOOLEAN /\ HasApplied(t)' \in BOOLEAN  BY DEF HasApplied
      <4>2. CASE t = i
        <5>1. ~HasApplied(t) /\ ~HasApplied(t)'  BY <3>7, <4>2
        <5> QED BY <4>1, <5>1
      <4>3. CASE t # i  BY <3>8, <4>3
      <4> QED BY <4>2, <4>3
    <3> QED BY <3>6, <3>9
  <2>4. CASE Signal
    <3>1. \A t \in Threads : PostedTo(t)' = PostedTo(t)
      BY <2>4 DEF Signal, Advance, PostedTo, Running
    <3>2. UNCHANGED <<finished, hasFunction>>  BY <2>4 DEF Signal, flags
    <3> QED BY <1>4, <2>1, <3>1, <3>2 DEF HasApplied
  <2>5. CASE Await /\ (Answered(i) => i + 1 < NumThreads)
    <3>1. \A t \in Threads : PostedTo(t)' = PostedTo(t)
      BY <2>5 DEF Await, Advance, PostedTo, Running
    <3>2. UNCHANGED <<finished, hasFunction>>  BY <2>5 DEF Await, flags
    <3> QED BY <1>4, <2>1, <3>1, <3>2 DEF HasApplied
  <2> QED BY <2>2, <2>3, <2>4, <2>5
<1>6. \A t \in Threads : worker'[t] \in {"apply", "finish"} => begin'[t] = BeginIdx(t)
  BY <1>3, <1>4 DEF ExactIInv, TasksExact
<1>7. pc' \in {"idle", "assign"} => i' = 0
  BY <1>3 DEF ExactIInv, TasksExact
<1> QED BY <1>1, <1>2, <1>3, <1>4, <1>5, <1>6, <1>7, Frame

(* The constructor, the destructor and wakeups without a notification. *)
LEMMA LifeExact ==
  ASSUME ExactIInv, Construct \/ CallDestructor \/ Destruct \/ WakeSpuriously
  PROVE  ExactIInv' /\ Running' = Running /\ UNCHANGED <<numTasks, applied>>
<1>1. IInv'
  BY LifeIInv DEF ExactIInv
<1>2. /\ worker \in [Threads -> Holding \cup {"unborn", "lock", "asleep", "notify", "exited"}]
      /\ begin \in [Threads -> Nat]
      /\ runs \in 0 .. MaxRuns /\ i \in Threads /\ \A t \in Threads : t \in Int
  BY SizesAssumption DEF ExactIInv, TypeOK, ControlTypeOK, SizesAssumption, Threads
<1>3. UNCHANGED <<numTasks, applied, begin, runs, finished, hasFunction>>
  BY DEF Construct, CallDestructor, Destruct, Mark, Wake, JoinThread, WakeSpuriously, flags
<1>4. \A t \in Threads : (pc = "construct" => t < i) => worker[t] # "unborn"
  BY DEF ExactIInv, TasksExact
<1>5. CASE Construct
  <2>1. /\ pc = "construct" /\ worker' = [worker EXCEPT ![i] = "lock"]
        /\ \/ pc' = "construct" /\ i' = i + 1
           \/ pc' = "idle" /\ i' = 0 /\ \A t \in Threads : t <= i
    BY <1>2, <1>5, SizesAssumption DEF Construct, Threads, SizesAssumption
  <2>2. \A t \in Threads : t <= i => worker'[t] # "unborn"
    BY <1>2, <1>4, <2>1
  <2>3. \A t \in Threads : (pc' = "construct" => t < i') => worker'[t] # "unborn"
    BY <1>2, <2>1, <2>2
  <2>4. ~Running /\ ~Running' /\ Running' = Running  BY <2>1 DEF Running
  <2>5. ExactIInv'
    <3>1. pc = "construct" /\ pc' \in {"construct", "idle"} /\ (pc' = "idle" => i' = 0)
      BY <2>1
    <3>2. runs' \in 0 .. MaxRuns /\ begin' \in [Threads -> Nat]  BY <1>2, <1>3
    <3> QED BY <1>1, <1>3, <2>3, <2>4, <3>1, <3>2, FrameConstruct
  <2> QED BY <1>3, <2>4, <2>5
<1>6. CASE CallDestructor \/ Destruct \/ WakeSpuriously
  <2>1. /\ Running' = Running /\ (pc' = "construct" <=> pc = "construct")
        /\ pc = "construct" => i' = i
        /\ pc' \in {"idle", "assign"} => pc' = pc /\ i' = i
    <3>1. CASE CallDestructor  BY <3>1 DEF CallDestructor, Running
    <3>2. CASE Destruct  BY <3>2 DEF Destruct, Mark, Wake, JoinThread, Advance, Running
    <3>3. CASE WakeSpuriously  BY <3>3 DEF WakeSpuriously, Running
    <3> QED BY <1>6, <3>1, <3>2, <3>3
  <2>2. \A t \in Threads : PostedTo(t)' = PostedTo(t)
    <3>1. CASE CallDestructor  BY <3>1 DEF CallDestructor, Running, PostedTo
    <3>2. CASE Destruct  BY <3>2 DEF Destruct, Mark, Wake, JoinThread, Advance, Running, PostedTo
    <3>3. CASE WakeSpuriously  BY <3>3 DEF WakeSpuriously, Running, PostedTo
    <3> QED BY <1>6, <3>1, <3>2, <3>3
  <2>3. \A t \in Threads : /\ worker[t] # "unborn" => worker'[t] # "unborn"
                           /\ worker'[t] \in {"apply", "finish"} => worker[t] \in {"apply", "finish"}
                           /\ worker'[t] = "finish" <=> worker[t] = "finish"
    <3>1. CASE CallDestructor  BY <3>1 DEF CallDestructor
    <3>2. CASE Mark \/ JoinThread  BY <3>2 DEF Mark, JoinThread
    <3>3. CASE Wake  BY <1>2, <3>3 DEF Wake, WorkerWoken
    <3>4. CASE WakeSpuriously  BY <1>2, <3>4 DEF WakeSpuriously
    <3> QED BY <1>6, <3>1, <3>2, <3>3, <3>4 DEF Destruct
  <2>4. CASE pc = "construct"
    <3>1. pc' = "construct" /\ i' = i /\ ~Running'  BY <2>1, <2>4 DEF Running
    <3>2. \A t \in Threads : t < i => worker'[t] # "unborn"  BY <1>4, <2>3, <2>4
    <3> QED BY <1>1, <1>2, <1>3, <2>1, <2>4, <3>1, <3>2, FrameConstruct
  <2>5. CASE pc # "construct"
    <3>1. \A t \in Threads :
            /\ worker'[t] # "unborn"
            /\ PostedTo(t)' => hasFunction'[t]
            /\ worker'[t] \in {"apply", "finish"} => begin'[t] = BeginIdx(t)
            /\ HasApplied(t)' = HasApplied(t)
      BY <1>3, <1>4, <2>2, <2>3, <2>5 DEF ExactIInv, TasksExact, HasApplied
    <3>2. pc' \in {"idle", "assign"} => i' = 0
      BY <2>1 DEF ExactIInv, TasksExact
    <3> QED BY <1>1, <1>2, <1>3, <2>1, <2>5, <3>1, <3>2, Frame
  <2> QED BY <1>3, <2>1, <2>4, <2>5
<1> QED BY <1>5, <1>6

(* A call begins with nothing applied. *)
LEMMA AssignExact ==
  ASSUME ExactIInv, AssignNumTasks
  PROVE  ExactIInv' /\ ~Running /\ Running' /\ numTasks' \in TaskCounts
         /\ \A x \in AllTasks : applied'[x] = 0
<1>1. /\ pc = "assign" /\ pc' = "post" /\ numTasks' \in TaskCounts
      /\ applied' = [x \in AllTasks |-> 0]
      /\ UNCHANGED <<i, runs, worker, begin, hasFunction, finished, destructed>>
  BY DEF AssignNumTasks, flags
<1>2. IInv'  BY RunIInv DEF ExactIInv, Run
<1>3. \A t \in Threads : worker[t] \notin {"apply", "finish"}
  BY <1>1, WorkingIsPosted DEF ExactIInv, Holding, Running
<1>4. TypeOK'
  BY <1>1, <1>2, <1>3 DEF ExactIInv, TypeOK, IInv
<1>5. i = 0 /\ \A t \in Threads : t \in Nat
  BY <1>1, SizesAssumption DEF ExactIInv, TasksExact, Threads, SizesAssumption
<1>6. \A t \in Threads : ~PostedTo(t)' /\ ~HasApplied(t)'
  BY <1>1, <1>5 DEF PostedTo, HasApplied
<1>7. TasksExact'
  BY <1>1, <1>3, <1>6 DEF ExactIInv, TasksExact, Running
<1> QED BY <1>1, <1>2, <1>4, <1>7 DEF ExactIInv, Running

(* A call returns when every worker has applied the function to its range: *)
(* that is every task, each once.                                          *)
LEMMA ReturnExact ==
  ASSUME ExactIInv, Await, Answered(i), ~(i + 1 < NumThreads)
  PROVE  ExactIInv' /\ Running /\ ~Running' /\ UNCHANGED <<numTasks, applied>>
         /\ \A x \in AllTasks : applied[x] = IF x < numTasks THEN 1 ELSE 0
<1>1. /\ pc = "await" /\ pc' = "idle" /\ i' = 0 /\ finished[i]
      /\ UNCHANGED <<runs, numTasks, worker, begin, hasFunction, finished, destructed, applied>>
  BY DEF Await, Answered, Advance, flags
<1>2. IInv'  BY RunIInv DEF ExactIInv, Run
<1>3. Running /\ ~Running'  BY <1>1 DEF Running
<1>4. i \in Threads /\ \A t \in Threads : t \in Int /\ (t < i \/ t = i)
  BY SizesAssumption DEF ExactIInv, TypeOK, ControlTypeOK, Threads, SizesAssumption
<1>5. \A t \in Threads : HasApplied(t)
  <2>1. \A t \in Threads : PostedTo(t) /\ hasFunction[t]
    BY <1>1, <1>3 DEF ExactIInv, TasksExact, PostedTo
  <2>2. \A t \in Threads : finished[t]
    BY <1>1, <1>4, <2>1 DEF ExactIInv, IInv, AnsweredSoFar, Ready
  <2> QED BY <2>1, <2>2 DEF HasApplied
<1>6. \A t : BeginIdx(t) = Cut(numTasks, t)
  BY <1>1, BeginIsCut DEF ExactIInv, TasksExact
<1>7. numTasks \in Nat /\ AllTasks \subseteq Nat
  BY CountsAreNat DEF ExactIInv, TypeOK
<1>8. \A t \in Threads : Cut(numTasks, t) \in 0 .. numTasks /\ Cut(numTasks, t + 1) \in 0 .. numTasks
  BY <1>7, CutInTasks
<1>9. \A x \in AllTasks : x < numTasks <=> \E t \in Threads : x \in TasksOf(t)
  <2> SUFFICES ASSUME NEW x \in AllTasks
               PROVE  x < numTasks <=> \E t \in Threads : x \in TasksOf(t)
    OBVIOUS
  <2>1. x \in Nat  BY <1>7
  <2>2. \A t : x \in TasksOf(t) <=> Cut(numTasks, t) <= x /\ x < Cut(numTasks, t + 1)
    BY <1>6 DEF TasksOf
  <2>3. ASSUME x < numTasks PROVE \E t \in Threads : x \in TasksOf(t)
    <3>1. x \in 0 .. numTasks - 1  BY <1>7, <2>1, <2>3
    <3> QED BY <1>7, <2>2, <3>1, CutCovers
  <2>4. ASSUME NEW t \in Threads, x \in TasksOf(t) PROVE x < numTasks
    BY <1>7, <1>8, <2>1, <2>2, <2>4
  <2> QED BY <2>3, <2>4
<1>10. \A x \in AllTasks : applied[x] = IF x < numTasks THEN 1 ELSE 0
  BY <1>3, <1>5, <1>9 DEF ExactIInv, TasksExact
<1>11. TypeOK'
  BY <1>1, <1>2 DEF ExactIInv, TypeOK, IInv
<1>12. \A t : BeginIdx(t)' = BeginIdx(t)
  BY <1>1 DEF BeginIdx, ThreadCount
<1>13. TasksExact'
  BY <1>1, <1>3, <1>10, <1>12 DEF ExactIInv, TasksExact, PostedTo
<1> QED BY <1>1, <1>2, <1>3, <1>10, <1>11, <1>13 DEF ExactIInv

LEMMA InitExact == Init => ExactIInv
<1> SUFFICES ASSUME Init PROVE ExactIInv
  OBVIOUS
<1>1. IInv  BY InitIInv
<1>2. TypeOK  BY <1>1, SizesAssumption DEF Init, TypeOK, IInv, SizesAssumption
<1>3. TasksExact
  <2>1. \A x \in AllTasks : x \in Nat  BY CountsAreNat
  <2>2. \A t \in Threads : t \in Nat  BY SizesAssumption DEF SizesAssumption, Threads
  <2> QED BY <2>1, <2>2 DEF Init, TasksExact, Running, PostedTo
<1> QED BY <1>1, <1>2, <1>3 DEF ExactIInv

-----------------------------------------------------------------------------
(* No task is done twice, and nothing beyond the tasks of the call. *)
LEMMA NotTooOften ==
  ASSUME ExactIInv
  PROVE  \A x \in AllTasks : /\ applied[x] \in {0, 1}
                             /\ applied[x] = 1 => x < numTasks
<1> SUFFICES ASSUME NEW x \in AllTasks
             PROVE  applied[x] \in {0, 1} /\ (applied[x] = 1 => x < numTasks)
  OBVIOUS
<1>1. numTasks \in Nat /\ x \in Nat  BY CountsAreNat DEF ExactIInv, TypeOK
<1>2. CASE ~Running  BY <1>2 DEF ExactIInv, TasksExact
<1>3. CASE Running
  <2>1. \A t : BeginIdx(t) = Cut(numTasks, t)
    BY <1>3, BeginIsCut DEF ExactIInv, TasksExact, Running
  <2>2. applied[x] = IF \E t \in Threads : HasApplied(t) /\ x \in TasksOf(t) THEN 1 ELSE 0
    BY <1>3 DEF ExactIInv, TasksExact
  <2>3. ASSUME NEW t \in Threads, x \in TasksOf(t) PROVE x < numTasks
    <3>1. x < Cut(numTasks, t + 1)  BY <2>1, <2>3 DEF TasksOf
    <3>2. Cut(numTasks, t + 1) \in 0 .. numTasks  BY <1>1, CutInTasks
    <3> QED BY <1>1, <3>1, <3>2
  <2> QED BY <2>2, <2>3
<1> QED BY <1>2, <1>3

LEMMA RemainingIs ==
  ASSUME ExactIInv PROVE Remaining = {x \in 0 .. numTasks - 1 : applied[x] = 0}
<1>1. \A x \in AllTasks : ~(applied[x] > IF x < numTasks THEN 1 ELSE 0)
  <2> SUFFICES ASSUME NEW x \in AllTasks PROVE ~(applied[x] > IF x < numTasks THEN 1 ELSE 0)
    OBVIOUS
  <2> QED BY NotTooOften
<1> QED BY <1>1 DEF Remaining

(* The start of a call is the Start of ParallelFor. *)
LEMMA AssignStarts ==
  ASSUME ExactIInv, AssignNumTasks PROVE ExactIInv' /\ For!Start
<1>1. /\ ExactIInv' /\ ~Running /\ Running' /\ numTasks' \in TaskCounts
      /\ \A x \in AllTasks : applied'[x] = 0
  BY AssignExact
<1>2. \A x \in 0 .. numTasks' - 1 : x \in AllTasks
  BY <1>1, CountsAreNat
<1>3. \A x \in AllTasks : ~(applied'[x] > IF x < numTasks' THEN 1 ELSE 0)
  <2> SUFFICES ASSUME NEW x \in AllTasks PROVE ~(applied'[x] > IF x < numTasks' THEN 1 ELSE 0)
    OBVIOUS
  <2> QED BY <1>1
<1>4. Remaining' = {x \in 0 .. numTasks' - 1 : applied'[x] = 0}
  BY <1>3 DEF Remaining
<1>5. Remaining' = 0 .. numTasks' - 1
  BY <1>1, <1>2, <1>4
<1>6. Running' = TRUE  BY <1>1 DEF Running
<1> QED BY <1>1, <1>5, <1>6 DEF For!Start

(* A worker that applies the function does the tasks of its range. *)
LEMMA ApplyExecutes ==
  ASSUME ExactIInv, NEW w \in Threads, Apply(w) PROVE ExactIInv' /\ For!Execute
<1>1. /\ ExactIInv'
      /\ \A x \in AllTasks : applied'[x] = applied[x] + IF x \in TasksOf(w) THEN 1 ELSE 0
      /\ Running /\ \A x \in TasksOf(w) : x < numTasks /\ applied[x] = 0
  BY ApplyExact
<1>2. UNCHANGED <<pc, numTasks>>  BY DEF Apply, callerVars
<1>3. \A x \in AllTasks : applied[x] \in {0, 1} /\ (applied[x] = 1 => x < numTasks)
  BY NotTooOften
<1>4. \A x \in AllTasks : ~(applied'[x] > IF x < numTasks' THEN 1 ELSE 0)
  <2> SUFFICES ASSUME NEW x \in AllTasks PROVE ~(applied'[x] > IF x < numTasks' THEN 1 ELSE 0)
    OBVIOUS
  <2>1. CASE x \in TasksOf(w)  BY <1>1, <1>2, <2>1
  <2>2. CASE x \notin TasksOf(w)  BY <1>1, <1>2, <1>3, <2>2
  <2> QED BY <2>1, <2>2
<1>5. Remaining' = {x \in 0 .. numTasks - 1 : applied'[x] = 0}
  BY <1>2, <1>4 DEF Remaining
<1>6. Remaining = {x \in 0 .. numTasks - 1 : applied[x] = 0}
  BY RemainingIs
<1>7. \A x \in 0 .. numTasks - 1 : x \in AllTasks
  BY CountsAreNat DEF ExactIInv, TypeOK
<1>8. Remaining' = Remaining \ (TasksOf(w) \cap Remaining)
  <2>1. \A x \in 0 .. numTasks - 1 : applied'[x] = 0 <=> applied[x] = 0 /\ x \notin TasksOf(w)
    BY <1>1, <1>3, <1>7
  <2> QED BY <1>5, <1>6, <2>1
<1>9. UNCHANGED Running  BY <1>2 DEF Running
<1> QED BY <1>1, <1>8, <1>9 DEF For!Execute

(* run returns only when no task remains. *)
LEMMA AwaitReturns ==
  ASSUME ExactIInv, Await, Answered(i), ~(i + 1 < NumThreads) PROVE ExactIInv' /\ For!Return
<1>1. /\ ExactIInv' /\ Running /\ ~Running' /\ UNCHANGED <<numTasks, applied>>
      /\ \A x \in AllTasks : applied[x] = IF x < numTasks THEN 1 ELSE 0
  BY ReturnExact
<1>2. numTasks \in Nat /\ \A x \in 0 .. numTasks - 1 : x \in AllTasks
  BY CountsAreNat DEF ExactIInv, TypeOK
<1>3. \A x \in 0 .. numTasks - 1 : applied[x] # 0
  BY <1>1, <1>2
<1>4. Remaining = {}  BY <1>3, RemainingIs
<1>5. UNCHANGED Remaining  BY <1>1 DEF Remaining
<1>6. Running' = FALSE  BY <1>1 DEF Running
<1> QED BY <1>1, <1>4, <1>5, <1>6 DEF For!Return

(* Every step keeps the invariant, and is a step of ParallelFor or none. *)
LEMMA StepRefines == ExactIInv /\ [Next]_vars => ExactIInv' /\ [For!Next]_For!vars
<1> SUFFICES ASSUME ExactIInv, [Next]_vars PROVE ExactIInv' /\ [For!Next]_For!vars
  OBVIOUS
<1>1. ASSUME ExactIInv', Running' = Running, UNCHANGED <<numTasks, applied>>
      PROVE  ExactIInv' /\ [For!Next]_For!vars
  BY <1>1 DEF For!vars, Remaining
<1>2. CASE UNCHANGED vars
  <2>1. ExactIInv'
    BY <1>2 DEF vars, callerVars, flags, ExactIInv, IInv, TypeOK, TasksExact, ControlTypeOK,
                HoldsForWork, AnsweredSoFar, Unlocked, Ready, Running, PostedTo, HasApplied,
                TasksOf, BeginIdx, ThreadCount
  <2> QED BY <1>1, <1>2, <2>1 DEF vars, callerVars, Running
<1>3. CASE CallRun \/ Run
  <2>1. CASE AssignNumTasks  BY <2>1, AssignStarts DEF For!Next
  <2>2. CASE CallRun \/ Post \/ Signal \/ (Await /\ (Answered(i) => i + 1 < NumThreads))
    BY <1>1, <2>2, RunExact
  <2>3. CASE Await /\ Answered(i) /\ ~(i + 1 < NumThreads)
    BY <2>3, AwaitReturns DEF For!Next
  <2> QED BY <1>3, <2>1, <2>2, <2>3 DEF Run
<1>4. CASE Construct \/ CallDestructor \/ Destruct \/ WakeSpuriously
  BY <1>1, <1>4, LifeExact
<1>5. ASSUME NEW w \in Threads, Worker(w) PROVE ExactIInv' /\ [For!Next]_For!vars
  <2>1. CASE Apply(w)  BY <2>1, ApplyExecutes DEF For!Next
  <2>2. CASE Enter(w) \/ TakeBegin(w) \/ Finish(w) \/ Notify(w)
    BY <1>1, <2>2, WorkerExact
  <2> QED BY <1>5, <2>1, <2>2 DEF Worker
<1> QED BY <1>2, <1>3, <1>4, <1>5 DEF Next, Destroyed

(* Every variable has its type, and every worker begins inside the call. *)
THEOREM TypeCorrect == Spec => []TypeOK
<1>1. ExactIInv => TypeOK  BY DEF ExactIInv
<1> QED BY InitExact, StepRefines, <1>1, PTL DEF Spec

(* For every number of threads and of tasks: run applies the function to    *)
(* every task once, to nothing else, and returns only after all of them.    *)
THEOREM CallsCorrect == Spec => ImplementsParallelFor
<1>1. Init => For!Init
  <2> SUFFICES ASSUME Init PROVE For!Init
    OBVIOUS
  <2>1. Running = FALSE  BY DEF Init, Running
  <2>2. Remaining = {x \in 0 .. numTasks - 1 : applied[x] = 0} /\ numTasks = 0
    BY InitExact, RemainingIs DEF Init
  <2> QED BY <2>1, <2>2 DEF For!Init
<1> QED BY InitExact, StepRefines, <1>1, PTL DEF Spec, ImplementsParallelFor, For!Spec
=============================================================================
