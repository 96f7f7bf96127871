------------------------------ MODULE QueryPlan ------------------------------
(***************************************************************************)
(* The driver's way from a query to the plan that is executed              *)
(* (archives/read_sql_moreinfo.cpp, a copy of the tests' read_sql.cpp with *)
(* longer messages): the WHERE clause is split into filters, one per table *)
(* entity, and equalities between columns; the equalities are closed       *)
(* under transitivity by a union-find; and the optimizer's tree becomes a  *)
(* list of scan and join nodes that keep the required columns only.        *)
(*                                                                         *)
(* A query is [from, where, select]: the entities of FROM in order, an     *)
(* expression tree, and the attributes of the select list.  An attribute   *)
(* is [entity, column].  Names are resolved already (aliases, unqualified  *)
(* columns), and the attributes' types, only carried along, are left out.  *)
(* What the driver answers by an exception has no filter, no join graph or *)
(* no plan here: the query does not run.                                   *)
(***************************************************************************)
EXTENDS Naturals, Sequences, FiniteSets, SequencesExt

CONSTANTS
  Attributes,   (* the schema: [entities -> Seq(columns)] *)
  None          (* no statement, no entity                *)

Attribute(e, c) == [entity |-> e, column |-> c]

Position(x, s) == CHOOSE i \in DOMAIN s : s[i] = x /\ \A j \in 1..i - 1 : s[j] # x

-----------------------------------------------------------------------------
(* The WHERE clause.                                                       *)

(* What parsing an expression gives: the filters inserted so far as        *)
(* <<entity, statement>>, the pairs of columns united, the statement       *)
(* handed up with its entity, or thrown.                                   *)
Parsed(filters, united, entity, statement) ==
  [thrown |-> FALSE, filters |-> filters, united |-> united,
   entity |-> entity, statement |-> statement]

Thrown == [thrown |-> TRUE]

Inserted(p) == p.filters \cup (IF p.statement = None THEN {} ELSE {<<p.entity, p.statement>>})

RECURSIVE ParseExpr(_, _)

(* AND and OR.  Under the AND at the top both sides are filters of their   *)
(* own entities; elsewhere the two sides have to be statements about the   *)
(* same entity, and stay together.                                         *)
ParseLogical(x, level) ==
  LET below == IF x.op = "or" THEN level + 1 ELSE level
      l == ParseExpr(x.left, below)
      r == ParseExpr(x.right, below)
  IN IF l.thrown \/ r.thrown THEN Thrown
     ELSE IF level = 0 /\ x.op = "and"
     THEN Parsed(Inserted(l) \cup Inserted(r), l.united \o r.united, None, None)
     ELSE IF l.statement = None \/ r.statement = None \/ l.entity # r.entity THEN Thrown
     ELSE Parsed(l.filters \cup r.filters, l.united \o r.united, l.entity,
                 [op |-> x.op, left |-> l.statement, right |-> r.statement])

(* A statement about one column of an entity, handed up. *)
About(x, statement) == Parsed({}, <<>>, x.column.entity, statement)

(* A comparison: `accepts' is the set of values that satisfy it. *)
Comparison(x, accepts) == [op |-> "compare", column |-> x.column.column, accepts |-> accepts]

(* NOT hands its child's statement up negated; above an equality of      *)
(* columns that statement is null and belongs to no entity.                *)
ParseNot(x, level) ==
  LET p == ParseExpr(x.child, level + 1) IN
    IF p.thrown THEN Thrown
    ELSE Parsed(p.filters, p.united, p.entity, [op |-> "not", child |-> p.statement])

(* BETWEEN: at least the lower and at most the upper bound. *)
ParseBetween(x) ==
  About(x, [op |-> "and", left  |-> Comparison(x, x.fromLower),
                          right |-> Comparison(x, x.toUpper)])

(* IN: equal to the first value, or to the second, ... *)
ParseIn(x) ==
  LET equal(v) == Comparison(x, {v}) IN
    About(x, FoldLeft(LAMBDA stmt, v : [op |-> "or", left |-> stmt, right |-> equal(v)],
                      equal(Head(x.list)), Tail(x.list)))

(* parse_expr_impl; "compare" is also LIKE and IS NULL, "equal" an equality *)
(* of two columns.                                                         *)
ParseExpr(x, level) ==
  CASE x.op \in {"and", "or"} -> ParseLogical(x, level)
    [] x.op = "not"     -> ParseNot(x, level)
    [] x.op = "equal"   -> Parsed({}, <<x.columns>>, None, None)
    [] x.op = "compare" -> About(x, Comparison(x, x.accepts))
    [] x.op = "between" -> ParseBetween(x)
    [] x.op = "in"      -> ParseIn(x)

(* parse_expr: a statement handed up to the top is a filter as well. *)
ParseWhere(q) ==
  LET p == ParseExpr(q.where, 0) IN
    IF p.thrown THEN Thrown ELSE [p EXCEPT !.filters = Inserted(p)]

\* mutant: a filter of the entity takes the place of an earlier one
FilterReplaces(q, e) ==
  LET all == {f[2] : f \in {g \in ParseWhere(q).filters : g[1] = e}} IN
    IF all = {} THEN {} ELSE {CHOOSE s \in all : TRUE}

(* The filter of an entity: insert_filter joins all its statements by AND. *)
Filter(q, e) == {f[2] : f \in {g \in ParseWhere(q).filters : g[1] = e}}

RECURSIVE Accepts(_, _, _)
Accepts(stmt, e, row) ==
  CASE stmt.op = "and" -> Accepts(stmt.left, e, row) /\ Accepts(stmt.right, e, row)
    [] stmt.op = "or"  -> Accepts(stmt.left, e, row) \/ Accepts(stmt.right, e, row)
    [] stmt.op = "not" -> ~Accepts(stmt.child, e, row)
    [] stmt.op = "compare" -> row[Position(stmt.column, Attributes[e])] \in stmt.accepts

-----------------------------------------------------------------------------
(* The join graph.                                                         *)

(* column_vec: the attributes of all entities in the order of FROM. *)
ColumnVec(q) ==
  FoldLeft(LAMBDA v, e : v \o [i \in DOMAIN Attributes[e] |-> Attribute(e, Attributes[e][i])],
           <<>>, q.from)

(* The union-find: the representative of every attribute. *)
Unite(find, pair) ==
  [a \in DOMAIN find |-> IF find[a] = find[pair[1]] THEN find[pair[2]] ELSE find[a]]

JoinUnion(q) == FoldLeft(Unite, [a \in ToSet(ColumnVec(q)) |-> a], ParseWhere(q).united)

(* The pairs of different attributes of a set, the earlier one first. *)
JoinedPairs(q) ==
  LET v == ColumnVec(q) find == JoinUnion(q) IN
    {p \in ToSet(v) \X ToSet(v) : Position(p[1], v) < Position(p[2], v) /\ find[p[1]] = find[p[2]]}

(* "At least two conditions between a same pair of tables." *)
TwoConditions(q) ==
  \E p, r \in JoinedPairs(q) :
    p # r /\ p[1].entity = r[1].entity /\ p[2].entity = r[2].entity

(* parse_sql: the join graph holds every condition in both directions. *)
JoinGraph(q) == JoinedPairs(q) \cup {<<p[2], p[1]>> : p \in JoinedPairs(q)}

-----------------------------------------------------------------------------
(* The tree of the optimizer.  A scan names its entity; a join has two     *)
(* children, one of them under a Hash node; "other" operators (Aggregate,  *)
(* Gather) pass their child on.                                            *)

RECURSIVE ExtractEntities(_)
ExtractEntities(t) ==
  CASE t.op = "other" -> ExtractEntities(t.child)
    [] t.op = "scan"  -> {t.entity}
    [] t.op = "join"  -> ExtractEntities(t.left) \cup ExtractEntities(t.right)

(* The join conditions a join may be given: the code iterates over hash    *)
(* sets and keeps the last condition it meets.                             *)
Conditions(q, t) ==
  {p \in JoinGraph(q) : /\ p[1].entity \in ExtractEntities(t.left)
                        /\ p[2].entity \in ExtractEntities(t.right)}

(* The attributes required of a child: those of the node that are the      *)
(* child's, and the attribute it is joined on.                             *)
ChildRequired(t, required, attr) ==
  LET own == SelectSeq(required, LAMBDA a : a.entity \in ExtractEntities(t)) IN
    IF attr \in ToSet(own) THEN own ELSE Append(own, attr)

(* new_input and new_scan_node: the input of a scan is its entity's table, *)
(* filtered; its output, the positions of the required attributes.         *)
LoadScan(q, t, required, nodes) ==
  IF \E a \in ToSet(required) : a.entity # t.entity \/ a.column \notin ToSet(Attributes[t.entity])
  THEN {}
  ELSE {[nodes   |-> Append(nodes, [op     |-> "scan",
                                    entity |-> t.entity,
                                    filter |-> Filter(q, t.entity),
                                    attrs  |-> [i \in DOMAIN required |->
                                                  Position(required[i].column, Attributes[t.entity])]]),
         columns |-> required]}

(* new_join_node on two loaded children.  Positions count from 1, those of *)
(* the right child after those of the left.                                *)
JoinNode(t, required, condition, l, r) ==
  LET columns == l.columns \o r.columns IN
    [nodes   |-> Append(r.nodes, [op        |-> "join",
                                  buildLeft |-> t.hash = "left",
                                  left      |-> Len(l.nodes),
                                  right     |-> Len(r.nodes),
                                  leftAttr  |-> Position(condition[1], l.columns),
                                  rightAttr |-> Position(condition[2], r.columns),
                                  attrs     |-> [i \in DOMAIN required |->
                                                   Position(required[i], columns)]]),
     columns |-> required]

RECURSIVE Load(_, _, _, _)

LoadJoin(q, t, required, nodes, condition) ==
  IF \E a \in ToSet(required) : a.entity \notin ExtractEntities(t) THEN {}
  ELSE UNION {{JoinNode(t, required, condition, l, r) :
                 r \in Load(q, t.right, ChildRequired(t.right, required, condition[2]), l.nodes)} :
                 l \in Load(q, t.left, ChildRequired(t.left, required, condition[1]), nodes)}

(* recurse: every result the iteration orders of the hash sets can give.   *)
Load(q, t, required, nodes) ==
  CASE t.op = "other" -> Load(q, t.child, required, nodes)
    [] t.op = "scan"  -> LoadScan(q, t, required, nodes)
    [] t.op = "join"  -> UNION {LoadJoin(q, t, required, nodes, c) : c \in Conditions(q, t)}

(* load_join_pipeline: the nodes of the plan, the root last. *)
Plans(q, t) ==
  IF ParseWhere(q).thrown THEN {}
  ELSE IF TwoConditions(q) THEN {}
  ELSE {p.nodes : p \in Load(q, t, q.select, <<>>)}
=============================================================================
