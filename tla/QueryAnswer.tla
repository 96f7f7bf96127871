----------------------------- MODULE QueryAnswer -----------------------------
(***************************************************************************)
(* What executing a query promises: the answer has, for every combination  *)
(* of one row of each table of FROM that satisfies WHERE, one row with the *)
(* attributes of the select list, and no other row.  The order of the rows *)
(* is not promised (the driver sorts before it compares).  WHERE has two    *)
(* truth values, as the filters of the code have: a comparison with NULL is *)
(* false, and its negation true.                                           *)
(*                                                                         *)
(* A query is [from, where, select] as in QueryPlan; a request is a query  *)
(* with the rows of its entities.                                          *)
(***************************************************************************)
EXTENDS Naturals, Sequences, FiniteSets

CONSTANTS
  Attributes,   (* the schema: [entities -> Seq(columns)] *)
  Null,         (* SQL's NULL                             *)
  None          (* there is no answer yet                 *)

VARIABLES
  request,      (* [query, tables]: tables[e] is a sequence of rows *)
  answer        (* how often each row is in the answer              *)

Entities == {request.query.from[i] : i \in DOMAIN request.query.from}

(* The combinations, by the numbers of their rows. *)
Combinations ==
  {m \in [Entities -> UNION {DOMAIN request.tables[e] : e \in Entities}] :
     \A e \in Entities : m[e] \in DOMAIN request.tables[e]}

Value(m, a) ==
  request.tables[a.entity][m[a.entity]]
    [CHOOSE i \in DOMAIN Attributes[a.entity] : Attributes[a.entity][i] = a.column]

RECURSIVE Satisfies(_, _)
Satisfies(m, x) ==
  CASE x.op = "and"     -> Satisfies(m, x.left) /\ Satisfies(m, x.right)
    [] x.op = "or"      -> Satisfies(m, x.left) \/ Satisfies(m, x.right)
    [] x.op = "not"     -> ~Satisfies(m, x.child)
    [] x.op = "compare" -> Value(m, x.column) \in x.accepts
    [] x.op = "between" -> Value(m, x.column) \in x.fromLower \cap x.toUpper
    [] x.op = "in"      -> Value(m, x.column) \in {x.list[i] : i \in DOMAIN x.list}
    [] x.op = "equal"   -> /\ Value(m, x.columns[1]) = Value(m, x.columns[2])
                           /\ Value(m, x.columns[1]) # Null

SelectedRow(m) == [i \in DOMAIN request.query.select |-> Value(m, request.query.select[i])]

Init == answer = None

Evaluate ==
  /\ answer = None /\ answer' # None
  /\ LET selected == {m \in Combinations : Satisfies(m, request.query.where)} IN
       answer' = [r \in {SelectedRow(m) : m \in selected} |->
                    Cardinality({m \in selected : SelectedRow(m) = r})]
  /\ UNCHANGED request

Spec == Init /\ [][Evaluate]_<<request, answer>>
=============================================================================
