------------------------------- MODULE CSVParser -------------------------------
(***************************************************************************)
(* CSVParser::execute and finish, fed by Table::from_csv with whatever     *)
(* chunks fread returns, and TableParser::on_field, which makes records of *)
(* its fields.  A chunk may end anywhere, also between a backslash or a    *)
(* carriage return and the character that decides what it means; the       *)
(* parser then remembers it (escaping, newlining) for the next chunk.      *)
(*                                                                         *)
(* Characters are members of small sets.  A number is the digits its text  *)
(* begins with.                                                            *)
(***************************************************************************)
EXTENDS Integers, Sequences

CONSTANTS
  Comma, LF, CR, Quote, Backslash,   (* the characters the parser knows              *)
  Digits, Letters,                   (* others                                       *)
  Null,                              (* the monostate of a Data                      *)
  Types,                             (* attributes: "int" or "text"                  *)
  Files,                             (* texts, whatever they contain                 *)
  Tables                             (* records, written as text in every known way  *)

Characters == {Comma, LF, CR, Quote, Backslash} \cup Digits \cup Letters
ParserAssumption ==
  /\ Comma \notin {LF, CR, Quote, Backslash} /\ LF \notin {CR, Quote, Backslash}
  /\ CR \notin {Quote, Backslash} /\ Quote # Backslash
  /\ Files \subseteq Seq(Characters)
  /\ Tables \subseteq Seq(Seq({Null} \cup Seq(Characters)))
  /\ Letters # {} /\ Types \in Seq({"int", "text"}) /\ Null \notin Seq(Characters)
ASSUME ParserAssumption

(* A record has a value for every attribute, and it is not a lone NULL: its *)
(* line would be empty, and at the end of a file that is no line.  No text  *)
(* is written of a file without records: the parser reads it as one field.  *)
RecordOK(record) ==
  /\ Len(record) = Len(Types) /\ record \notin {<<>>, <<Null>>}
  /\ \A k \in 1 .. Len(record) :
       record[k] # Null => record[k] # <<>> /\ (Types[k] = "int" => record[k] \in Seq(Digits))
TablesAssumption ==
  /\ (Digits \cup Letters) \cap {Comma, LF, CR, Quote, Backslash} = {}
  /\ \A table \in Tables : table # <<>> /\ \A n \in 1 .. Len(table) : RecordOK(table[n])
ASSUME TablesAssumption

VARIABLES
  escape,     (* escape_: a backslash, or another quote  *)
  header,     (* the first line has names                *)
  file,       (* the text of the file                    *)
  given,      (* the records it was written from, or Null *)
  position,   (* characters read                         *)
  parser,     (* the state of the parser                 *)
  ended       (* from_csv is done, or threw              *)

parserVars == <<escape, header, file, given, position, parser, ended>>

(* The members of CSVParser, the position i in the chunk, what execute      *)
(* returns, and the fields given to on_field.                               *)
NewParser ==
  [field |-> <<>>, col |-> 0, row |-> 0, numCols |-> 0, afterFirstRow |-> FALSE, quoted |-> FALSE,
   afterRecordSep |-> FALSE, escaping |-> FALSE, newlining |-> FALSE, i |-> 1, error |-> "Ok", fields |-> <<>>]

-----------------------------------------------------------------------------
Push(p, c) == [p EXCEPT !.field = Append(@, c)]
OnField(p) == [p EXCEPT !.fields = Append(@, <<p.col, p.row, p.field>>), !.field = <<>>]

(* The end of a record: as many fields as the first one had. *)
EndRecord(p) ==
  IF p.afterFirstRow /\ p.col + 1 # p.numCols
  THEN [p EXCEPT !.error = "InconsistentColumns"]
  ELSE [OnField(p) EXCEPT !.afterFirstRow = TRUE, !.numCols = p.col + 1, !.col = 0, !.row = @ + 1]

(* What an escape character makes of the next character, c. *)
EscapeThen(p, c) ==
  IF escape = Quote
  THEN IF c = Quote THEN [Push(p, Quote) EXCEPT !.i = @ + 1] ELSE [p EXCEPT !.quoted = FALSE]
  ELSE IF c \in {Quote, escape} THEN [Push(p, c) EXCEPT !.i = @ + 1] ELSE Push(p, escape)

(* The start of a chunk that follows an escape character or a CR. *)
ResumeEscape(p, chunk) == IF p.escaping THEN [EscapeThen(p, chunk[1]) EXCEPT !.escaping = FALSE] ELSE p
NoSkip(p, chunk) == p   \* mutant: the LF of a divided CR LF ends a record of its own
SkipLF(p, chunk) == IF chunk # <<>> /\ chunk[1] = LF THEN [p EXCEPT !.i = @ + 1] ELSE p
ResumeNewline(p, chunk) ==
  IF p.newlining
  THEN [EndRecord(SkipLF(p, chunk)) EXCEPT !.newlining = FALSE, !.afterRecordSep = TRUE]
  ELSE p

(* One round of the loop: character i, and the next one if it is needed to  *)
(* tell what i means and the chunk has it.                                  *)
CharAt(p, chunk) ==
  LET c == chunk[p.i]
      q == [p EXCEPT !.i = @ + 1, !.afterRecordSep = FALSE]   \* where the next round starts
      last == p.i = Len(chunk)
      next == chunk[p.i + 1]
  IN  CASE c = Comma ->
             IF p.quoted THEN Push(q, c) ELSE [OnField(q) EXCEPT !.col = @ + 1]
        [] c \in {LF, CR} ->
             IF p.quoted THEN Push(q, c)
             ELSE IF c = CR /\ last
             THEN [p EXCEPT !.i = @ + 1, !.newlining = TRUE]
             ELSE LET after == IF c = CR /\ next = LF THEN [q EXCEPT !.i = @ + 1] ELSE q
                  IN  [EndRecord(after) EXCEPT !.afterRecordSep = TRUE]
        [] c = Quote /\ (escape # Quote \/ ~p.quoted) -> [q EXCEPT !.quoted = ~@]
        [] c = escape /\ p.quoted ->
             IF last THEN [p EXCEPT !.i = @ + 1, !.escaping = TRUE] ELSE EscapeThen(q, next)
        [] OTHER -> Push(q, c)

(* execute *)
Resume(p, chunk) == ResumeNewline(ResumeEscape([p EXCEPT !.i = 1], chunk), chunk)
Round(p, chunk, n) == IF p.error = "Ok" /\ p.i = n THEN CharAt(p, chunk) ELSE p
Execute(p, chunk) ==
  LET read[n \in 0 .. Len(chunk)] ==   \* the parser after n characters
        IF n = 0 THEN Resume(p, chunk) ELSE Round(read[n - 1], chunk, n)
  IN  read[Len(chunk)]

(* finish: a file that does not end with a record separator gets one. *)
FinishAlways(p) == Execute(p, <<LF>>)   \* mutant: whether the last record was ended or not
FinishOpen(p) ==
  IF p.newlining THEN Execute(p, <<>>)
  ELSE IF ~p.afterRecordSep THEN Execute(p, <<LF>>)
  ELSE p
FinishParser(p) == IF p.quoted THEN [p EXCEPT !.error = "QuoteNotClosed"] ELSE FinishOpen(p)

-----------------------------------------------------------------------------
(* TableParser::on_field for every field: records of values.  No text is    *)
(* NULL, a line of names is passed.                                         *)
LeadingDigits(text) ==
  LET digits == {n \in 0 .. Len(text) : \A m \in 1 .. n : text[m] \in Digits}
  IN  SubSeq(text, 1, CHOOSE n \in digits : \A m \in digits : m <= n)
ValueOf(type, text) ==
  IF text = <<>> THEN Null ELSE IF type = "int" THEN LeadingDigits(text) ELSE text
AddField(state, event) ==
  LET col == event[1]  row == event[2]  text == event[3]
      record == Append(state.record, ValueOf(Types[col + 1], text))
  IN  IF header /\ row = 0 THEN state
      ELSE IF col + 1 = Len(Types)
      THEN [record |-> <<>>, table |-> Append(state.table, record)]
      ELSE [state EXCEPT !.record = record]
AddFields(fields) ==
  LET added[n \in 0 .. Len(fields)] ==
        IF n = 0 THEN [record |-> <<>>, table |-> <<>>] ELSE AddField(added[n - 1], fields[n])
  IN  added[Len(fields)]
Records(fields) == AddFields(fields).table

(* Text that stands for records: a field is quoted if it has to be, and     *)
(* quotes and backslashes inside it are escaped.                            *)
Joined(s) ==
  LET first[n \in 0 .. Len(s)] == IF n = 0 THEN <<>> ELSE first[n - 1] \o s[n]
  IN  first[Len(s)]
Escaped(text) ==
  Joined([n \in 1 .. Len(text) |-> IF text[n] \in {Quote, Backslash} THEN <<Backslash, text[n]>> ELSE <<text[n]>>])
FieldText(value) ==
  IF value = Null THEN <<>>
  ELSE IF \A n \in 1 .. Len(value) : value[n] \in Digits \cup Letters THEN value
  ELSE <<Quote>> \o Escaped(value) \o <<Quote>>
LineText(record) ==
  Joined([n \in 1 .. Len(record) |-> (IF n = 1 THEN <<>> ELSE <<Comma>>) \o FieldText(record[n])])
TableText(table, eol, end) ==
  Joined([n \in 1 .. Len(table) |-> LineText(table[n]) \o (IF n = Len(table) THEN end ELSE eol)])

-----------------------------------------------------------------------------
ParserInit ==
  /\ \/ /\ file \in Files /\ given = Null
        /\ escape \in {Quote, Backslash}
        /\ header = FALSE
     \/ /\ escape = Backslash /\ header \in BOOLEAN
        /\ given \in Tables
        /\ \E eol \in {<<LF>>, <<CR>>, <<CR, LF>>} : \E end \in {eol, <<>>} :
             file = TableText(IF header THEN <<[n \in DOMAIN Types |-> <<CHOOSE c \in Letters : TRUE>>]>> \o given
                                        ELSE given, eol, end)
  /\ position = 0
  /\ parser = NewParser
  /\ ended = FALSE

(* fread, and execute of what it read. *)
ReadChunk ==
  /\ ~ended /\ position < Len(file)
  /\ \E n \in 1 .. Len(file) - position :
       /\ parser' = Execute(parser, SubSeq(file, position + 1, position + n))
       /\ position' = position + n
  /\ ended' = (parser'.error # "Ok")
  /\ UNCHANGED <<escape, header, file, given>>

FinishFile ==
  /\ ~ended /\ position = Len(file)
  /\ parser' = FinishParser(parser)
  /\ ended' = TRUE
  /\ UNCHANGED <<escape, header, file, given, position>>

ParserDone == ended /\ UNCHANGED parserVars

ParserNext == ReadChunk \/ FinishFile \/ ParserDone
ParserSpec == ParserInit /\ [][ParserNext]_parserVars

-----------------------------------------------------------------------------
(* Wherever chunks end, the fields and the error are those of the whole      *)
(* text in one chunk.                                                        *)
ChunksDoNotMatter ==
  ended =>
    LET read == Execute(NewParser, file)
        whole == IF read.error = "Ok" THEN FinishParser(read) ELSE read
    IN  parser.fields = whole.fields /\ parser.error = whole.error

(* Records written as text are read back: fields with separators, quotes     *)
(* and backslashes in them, NULLs, every line ending, with or without one    *)
(* at the end of the file.                                                   *)
RecordsReadBack ==
  ended /\ given # Null => parser.error = "Ok" /\ Records(parser.fields) = given
=============================================================================
