------------------------------ MODULE MCFilterEval ------------------------------
(* Small instances of FilterEval: values for its constants. *)
EXTENDS FilterEval

(* Numbers 1 and 2; the texts 100, which is empty, and 101. *)
MCTypes == <<"int", "text">>
MCColumnValues == <<{1, 2}, {100, 101}>>
MCDefault == [t \in {"int", "text"} |-> IF t = "int" THEN 0 ELSE 100]
MCLength == [s \in Strings |-> IF s = 100 THEN 0 ELSE 3]
MCLikes == {<<101, 101>>, <<100, 7>>, <<101, 7>>}   \* 7 is %

Leaf(c, op, v) == [op |-> op, column |-> c, value |-> v]
Order == {"EQ", "NEQ", "LT", "GT", "LEQ", "GEQ"}
MCLeaves ==
  {Leaf(1, op, 1) : op \in Order \cup {"IS_NULL", "IS_NOT_NULL"}} \cup
  {Leaf(2, op, 101) : op \in {"EQ", "LT", "LIKE", "NOT_LIKE", "IS_NULL", "IS_NOT_NULL"}}
Logic(op) == [op |-> op]
MCPairs == {<<Leaf(1, "GT", 1), Leaf(2, "NOT_LIKE", 101)>>, <<Leaf(2, "IS_NULL", 0), Leaf(1, "NEQ", 1)>>}
MCStatements ==
  {<<l>> : l \in MCLeaves} \cup {<<l, Logic("NOT")>> : l \in MCLeaves} \cup
  {p \o <<Logic(op)>> : p \in MCPairs, op \in {"AND", "OR"}} \cup
  {<<p[1], Logic("NOT"), p[2], Logic("OR"), Logic("NOT")>> : p \in MCPairs}
=============================================================================
