------------------------------- MODULE FilterEval -------------------------------
(***************************************************************************)
(* Table::from_csv behind its parser: records are pushed to inner columns  *)
(* (values, and a bitmap that grows by bytes), a filter is evaluated on    *)
(* whole columns, bitmap by bitmap and in parallel over the bytes, and the *)
(* rows whose bit is set go to the pages of a ColumnInserter, in parallel  *)
(* over the columns.                                                       *)
(*                                                                         *)
(* A statement is the sequence of its nodes, children first, which is the  *)
(* order in which they are evaluated.  A byte of a bitmap has BitsPerByte  *)
(* rows.  Texts are compared by a given order, and LIKE is a given         *)
(* relation: RE2 decides it.                                               *)
(***************************************************************************)
EXTENDS TypedColumns

CONSTANTS
  Workers,      (* threads of filter_tp                                      *)
  Default,      (* Default[t]: what a column of type t stores for NULL       *)
  Likes,        (* pairs of a text and a pattern it is like                  *)
  Statements,   (* statements a caller may pass                              *)
  NoFilter      (* the null pointer of a caller that wants every row         *)

FilterAssumption == Workers \in Nat \ {0} /\ Types # <<>>
ASSUME FilterAssumption

(* A statement is a tree: a Comparison with a column, a LogicalOperation    *)
(* with the one or two children that makeNot, makeAnd and makeOr give it.   *)
Operands(node) == IF node.op \in {"AND", "OR"} THEN 2 ELSE IF node.op = "NOT" THEN 1 ELSE 0
IsComparison(node) == Operands(node) = 0
Operations ==
  {"EQ", "NEQ", "LT", "GT", "LEQ", "GEQ", "LIKE", "NOT_LIKE", "IS_NULL", "IS_NOT_NULL", "AND", "OR", "NOT"}

(* Read in post-order, depth[n] results wait for their parent after n nodes. *)
PostOrder(s, depth) ==
  /\ depth[0] = 0 /\ depth[Len(s)] = 1
  /\ \A n \in DOMAIN s :
       depth[n - 1] >= Operands(s[n]) /\ depth[n] = depth[n - 1] - Operands(s[n]) + 1
IsStatement(s) ==
  /\ s \in Seq({s[n] : n \in DOMAIN s})
  /\ \A n \in DOMAIN s : s[n].op \in Operations /\ (IsComparison(s[n]) => s[n].column \in Columns)
  /\ \E depth \in [0 .. Len(s) -> 0 .. Len(s)] : PostOrder(s, depth)
StatementsAssumption == NoFilter \notin Statements /\ \A s \in Statements : IsStatement(s)
ASSUME StatementsAssumption

VARIABLES
  phase,      (* load, eval, operation, scan, returned                    *)
  records,    (* the records of the file                                  *)
  data,       (* data[c]: the values of column c, Default for NULL        *)
  bitmap,     (* bitmap[c]: its bits                                      *)
  statement,  (* the filter                                               *)
  todo,       (* its nodes that are to be evaluated                       *)
  stack,      (* the bitmaps of nodes whose parent is to be evaluated     *)
  ret,        (* the bitmap that the current operation fills              *)
  range,      (* range[w]: the tasks that worker w still has, from, to    *)
  writers,    (* writers[c]: the pages of column c of the result          *)
  retRows     (* the atomic ret_rows                                      *)

tableVars == <<records, data, bitmap>>
evalVars  == <<statement, todo, stack, ret>>
scanVars  == <<writers, retRows>>
vars == <<phase, tableVars, evalVars, range, scanVars>>

Rows == Len(records)
NoRange == [w \in 1 .. Workers |-> <<0, 0>>]

Init ==
  /\ phase = "load"
  /\ records = <<>>
  /\ data = [c \in Columns |-> <<>>]
  /\ bitmap = [c \in Columns |-> <<>>]
  /\ statement = NoFilter /\ todo = <<>> /\ stack = <<>> /\ ret = <<>>
  /\ range = NoRange
  /\ writers = [c \in Columns |-> NewWriter]
  /\ retRows = 0

-----------------------------------------------------------------------------
(* bitmap_push_back: a new byte, or a bit of the last one.  A column of     *)
(* numbers counts the row that was just added, one of texts counts in row.  *)
Bytes(rows) == (rows + BitsPerByte - 1) \div BitsPerByte
NewByte(bits, notNull) == bits \o [n \in 1 .. BitsPerByte |-> n = 1 /\ notNull]
PushBit(type, bits, size, notNull) ==
  IF (IF type = "int" THEN Bytes(size + 1) ELSE size \div BitsPerByte + 1) > Len(bits) \div BitsPerByte
  THEN NewByte(bits, notNull)
  ELSE [bits EXCEPT ![size + 1] = notNull]

(* add_record: push_back or push_back_null for every field. *)
AddRecord ==
  /\ phase = "load" /\ Rows < MaxRows
  /\ \E record \in [Columns -> Values] :
       /\ \A c \in Columns : record[c] \in ColumnValues[c] \cup {Null}
       /\ records' = Append(records, record)
       /\ data' = [c \in Columns |->
            Append(data[c], IF record[c] = Null THEN Default[Types[c]] ELSE record[c])]
       /\ bitmap' = [c \in Columns |-> PushBit(Types[c], bitmap[c], Len(data[c]), record[c] # Null)]
  /\ UNCHANGED <<phase, evalVars, range, scanVars>>

(* The table is loaded; without a filter every row is wanted. *)
StartEval ==
  /\ phase = "load"
  /\ \E s \in Statements \cup {NoFilter} :
       /\ statement' = s
       /\ IF s = NoFilter
          THEN todo' = <<>> /\ stack' = <<[n \in 1 .. Bytes(Rows) * BitsPerByte |-> TRUE]>>
          ELSE todo' = s /\ stack' = <<>>
  /\ phase' = "eval"
  /\ UNCHANGED <<tableVars, ret, range, scanVars>>

-----------------------------------------------------------------------------
(* begin_idx: the tasks of a call, in nearly equal ranges. *)
BeginIdx(w, tasks) ==
  LET base == tasks \div Workers  rem == tasks % Workers
  IN  (w - 1) * base + (IF w - 1 < rem THEN w - 1 ELSE rem)
Ranges(tasks) == [w \in 1 .. Workers |-> <<BeginIdx(w, tasks), BeginIdx(w + 1, tasks)>>]
RunDone == \A w \in 1 .. Workers : range[w][1] = range[w][2]

Node == Head(todo)
Top(n) == stack[Len(stack) - n]

(* A node whose operation runs on the pool: a comparison, by the bytes of   *)
(* its column, or a bitwise operation by the bytes of its operand.          *)
StartOperation ==
  /\ phase = "eval" /\ todo # <<>> /\ Node.op # "IS_NOT_NULL"
  /\ LET size == IF IsComparison(Node) THEN Len(bitmap[Node.column]) ELSE Len(Top(0))
         tasks == IF IsComparison(Node) /\ Node.op # "IS_NULL" THEN Bytes(Rows) ELSE size \div BitsPerByte
     IN  /\ ret' = [n \in 1 .. size |-> FALSE]
         /\ range' = Ranges(tasks)
  /\ phase' = "operation"
  /\ UNCHANGED <<tableVars, statement, todo, stack, scanVars>>

(* IS NOT NULL is the bitmap of the column. *)
CopyBitmap ==
  /\ phase = "eval" /\ todo # <<>> /\ Node.op = "IS_NOT_NULL"
  /\ stack' = Append(stack, bitmap[Node.column])
  /\ todo' = Tail(todo)
  /\ UNCHANGED <<phase, tableVars, statement, ret, range, scanVars>>

(* One row of a comparison: the literal of an INT32 column is cut to 32     *)
(* bits, which keeps the literals of this model.                            *)
Holds(op, value, literal) ==
  CASE op = "EQ" -> value = literal [] op = "NEQ" -> value # literal
    [] op = "LT" -> value < literal [] op = "GT" -> value > literal
    [] op = "LEQ" -> value <= literal [] op = "GEQ" -> value >= literal
    [] op = "LIKE" -> <<value, literal>> \in Likes
    [] op = "NOT_LIKE" -> <<value, literal>> \notin Likes
Unmasked(node, n) ==   \* mutant: a NULL is compared as the value stored for it
  n <= Rows /\ Holds(node.op, data[node.column][n], node.value)
Compared(node, n) ==
  n <= Rows /\ bitmap[node.column][n] /\ Holds(node.op, data[node.column][n], node.value)

(* One bit of what the operation returns. *)
BitOf(node, n) ==
  CASE node.op = "AND" -> Top(1)[n] /\ Top(0)[n]
    [] node.op = "OR"  -> Top(1)[n] \/ Top(0)[n]
    [] node.op = "NOT" -> ~Top(0)[n]
    [] node.op = "IS_NULL" -> ~bitmap[node.column][n]
    [] OTHER -> Compared(node, n)

(* A worker's next byte. *)
FillByte(w) ==
  /\ phase = "operation" /\ range[w][1] < range[w][2]
  /\ ret' = [n \in DOMAIN ret |->
       IF (n - 1) \div BitsPerByte = range[w][1] THEN BitOf(Node, n) ELSE ret[n]]
  /\ range' = [range EXCEPT ![w][1] = @ + 1]
  /\ UNCHANGED <<phase, tableVars, statement, todo, stack, scanVars>>

(* run() returns; the operands are gone. *)
EndOperation ==
  /\ phase = "operation" /\ RunDone
  /\ stack' = Append(SubSeq(stack, 1, Len(stack) - Operands(Node)), ret)
  /\ todo' = Tail(todo)
  /\ phase' = "eval"
  /\ UNCHANGED <<tableVars, statement, ret, range, scanVars>>

-----------------------------------------------------------------------------
(* from_inner_to_column for every column, in parallel. *)
StartScan ==
  /\ phase = "eval" /\ todo = <<>>
  /\ range' = Ranges(Len(Types))
  /\ phase' = "scan"
  /\ UNCHANGED <<tableVars, evalVars, scanVars>>

Results == stack[1]
NullAsDefault(c, n) == data[c][n]   \* mutant: is_not_null is not asked
ScannedValue(c, n) == IF bitmap[c][n] THEN data[c][n] ELSE Null

(* The loop over the rows. *)
InsertedRows(c) ==
  LET writer[n \in 0 .. Rows] ==
        IF n = 0 THEN NewWriter
        ELSE IF Results[n] THEN InserterValue(writer[n - 1], ScannedValue(c, n)) ELSE writer[n - 1]
  IN  writer[Rows]
ScanColumn(w) ==
  /\ phase = "scan" /\ range[w][1] < range[w][2]
  /\ LET c == range[w][1] + 1
     IN  writers' = [writers EXCEPT ![c] = InserterFlush(InsertedRows(c))]
  /\ retRows' = Cardinality({n \in 1 .. Rows : Results[n]})
  /\ range' = [range EXCEPT ![w][1] = @ + 1]
  /\ UNCHANGED <<phase, tableVars, evalVars>>

Return ==
  /\ phase = "scan" /\ RunDone
  /\ phase' = "returned"
  /\ UNCHANGED <<tableVars, evalVars, range, scanVars>>

Returned == phase = "returned" /\ UNCHANGED vars

Worker(w) == FillByte(w) \/ ScanColumn(w)
Caller ==
  \/ AddRecord \/ StartEval \/ StartOperation \/ CopyBitmap \/ EndOperation
  \/ StartScan \/ Return
Next == Caller \/ (\E w \in 1 .. Workers : Worker(w)) \/ Returned
Spec == Init /\ [][Next]_vars

-----------------------------------------------------------------------------
(* The other eval of a statement: of one record, node by node. *)
RecordHolds(node, record) ==
  LET value == record[node.column]
  IN  CASE node.op = "IS_NULL" -> value = Null
        [] node.op = "IS_NOT_NULL" -> value # Null
        [] OTHER -> value # Null /\ Holds(node.op, value, node.value)
RecordStep(truths, node, record) ==
  LET last == truths[Len(truths)]
  IN  CASE node.op = "NOT" -> Append(Front(truths), ~last)
        [] node.op = "AND" -> Append(Front(Front(truths)), truths[Len(truths) - 1] /\ last)
        [] node.op = "OR"  -> Append(Front(Front(truths)), truths[Len(truths) - 1] \/ last)
        [] OTHER -> Append(truths, RecordHolds(node, record))
Truths(s, record) ==   \* the results that wait after each node
  LET truths[n \in 0 .. Len(s)] == IF n = 0 THEN <<>> ELSE RecordStep(truths[n - 1], s[n], record)
  IN  truths
RecordEval(s, record) == s = NoFilter \/ Truths(s, record)[Len(s)][1]

(* The bitmap of a filter has the bit of a row exactly if the filter holds  *)
(* of the row as a record, whichever worker filled the byte, for NULLs, and *)
(* for the rows of the last byte.                                           *)
VectorsMatchRecords ==
  phase \in {"scan", "returned"} =>
    \A n \in 1 .. Rows : Results[n] = RecordEval(statement, records[n])

(* The table returned: every column has the wanted rows, in the order of    *)
(* the file, as its pages read back, and num_rows of them.                  *)
Wanted ==   \* the first n records, filtered
  LET wanted[n \in 0 .. Rows] ==
        IF n = 0 THEN <<>>
        ELSE IF RecordEval(statement, records[n]) THEN Append(wanted[n - 1], records[n]) ELSE wanted[n - 1]
  IN  wanted
ScanExact ==
  phase = "returned" =>
    /\ retRows = Len(Wanted[Rows])
    /\ \A c \in Columns :
         ReadColumn(writers[c].pages) = [n \in 1 .. Len(Wanted[Rows]) |-> Wanted[Rows][n][c]]
=============================================================================
