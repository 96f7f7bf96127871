---------------------------- MODULE MCPlanExecutor ----------------------------
(***************************************************************************)
(* Requests of two kinds.                                                  *)
(*  - Tables: one join of a and b, where a's join column holds five of     *)
(*    seven keys in some order, or two keys with repetitions and NULLs.    *)
(*    In the sixteen slots of a table for five rows four keys have home 0, *)
(*    one home 1 and two home 15, so chains wrap around the end; the four  *)
(*    still share their home when the table has been doubled once, so that *)
(*    a rehash may rehash.  Or it holds texts, whose two hashes in the     *)
(*    cuckoo table are the same, so that three of them need one.           *)
(*  - Plans: three tables, every tree over them and every choice of the    *)
(*    Hash child, for a star and a chain of equalities, with filters.      *)
(***************************************************************************)
EXTENDS QueryExecution

MCTexts == {"t0", "t32", "t64", "t1", "t16"}
MCKeys == {"k0", "k32", "k64", "k96", "k1", "k15", "k31"} \cup MCTexts

MCHash1 == [k \in MCKeys |-> CASE k = "t0" -> 0 [] k = "t32" -> 32 [] k = "t64" -> 64
                               [] k = "t1" -> 1 [] k = "t16" -> 16
                               [] k = "k0" -> 0 [] k = "k32" -> 32 [] k = "k64" -> 64
                               [] k = "k96" -> 96 [] k = "k1" -> 1 [] k = "k15" -> 15
                               [] k = "k31" -> 31]

MCHash2 == [k \in MCKeys |-> CASE k \in MCTexts -> MCHash1[k]
                               [] k = "k0" -> 3 [] k = "k32" -> 3 [] k = "k64" -> 19
                               [] k = "k96" -> 4 [] k = "k1" -> 4 [] k = "k15" -> 3
                               [] k = "k31" -> 35]

MCAttributes == [e \in {"a", "b", "c"} |-> <<"key", "val">>]

Attr(e, c) == [entity |-> e, column |-> c]
Equal(x, y) == [op |-> "equal", columns |-> <<x, y>>]
Compare(x, v) == [op |-> "compare", column |-> x, accepts |-> {v}]
IsNull(x) == Compare(x, Null)
Between(x, low, high) == [op |-> "between", column |-> x, fromLower |-> low, toUpper |-> high]
In(x, list) == [op |-> "in", column |-> x, list |-> list]
Both(x, y) == [op |-> "and", left |-> x, right |-> y]
OneOf(x, y) == [op |-> "or", left |-> x, right |-> y]
Not(x) == [op |-> "not", child |-> x]
ScanOf(e) == [op |-> "scan", entity |-> e]
JoinOf(h, l, r) == [op |-> "join", hash |-> h, left |-> l, right |-> r]
Gather(t) == [op |-> "other", child |-> t]

-----------------------------------------------------------------------------
TwoTables ==
  [from   |-> <<"a", "b">>,
   where  |-> Equal(Attr("a", "key"), Attr("b", "key")),
   select |-> <<Attr("b", "val"), Attr("a", "val")>>]

(* The keys of a's rows; the val of row i is its number. *)
FiveKeys  == {s \in [1..5 -> MCKeys \ MCTexts] : s[1] \in {"k0", "k15"} /\ IsInjective(s)}
FourKeys  == [1..4 -> {"k0", "k32", "k15"}]
FiveTexts == {s \in [1..5 -> MCTexts] : s[1] = "t0" /\ IsInjective(s)}
Numbered(s) == [i \in DOMAIN s |-> <<s[i], <<"k0", "k1", "k15", "k32", "k31">>[i]>>]

TableRequests ==
  {[query |-> TwoTables, tree |-> Gather(JoinOf("left", ScanOf("a"), ScanOf("b"))),
    tables |-> [e \in {"a", "b"} |-> IF e = "a" THEN Numbered(s)
                                     ELSE <<<<"k0", "k1">>, <<Null, "k0">>, <<"k31", "k1">>>>]] :
     s \in FiveKeys \cup FourKeys \cup FiveTexts}

-----------------------------------------------------------------------------
(* a.key = b.key and b.key = c.key, two filters on c, one on b, and an      *)
(* attribute selected twice                                                *)
Star ==
  [from   |-> <<"a", "b", "c">>,
   where  |-> Both(Both(Equal(Attr("a", "key"), Attr("b", "key")),
                        In(Attr("c", "val"), <<"k1", "k15">>)),
                   Both(Both(Equal(Attr("b", "key"), Attr("c", "key")),
                             Not(Compare(Attr("c", "key"), "k1"))),
                        OneOf(Compare(Attr("b", "val"), "k0"), Not(Compare(Attr("b", "key"), "k0"))))),
   select |-> <<Attr("a", "val"), Attr("c", "key"), Attr("a", "val")>>]

(* a.key = b.key and b.val = c.key, one filter on a and one on c *)
Chain ==
  [from   |-> <<"c", "a", "b">>,
   where  |-> Both(Both(Equal(Attr("b", "key"), Attr("a", "key")),
                        Between(Attr("c", "val"), {"k0", "k1"}, {"k1", "k15"})),
                   Both(Equal(Attr("b", "val"), Attr("c", "key")),
                        Not(Both(Compare(Attr("a", "val"), "k0"),
                                 OneOf(Compare(Attr("a", "key"), "k1"), IsNull(Attr("a", "key"))))))),
   select |-> <<Attr("c", "val"), Attr("b", "key"), Attr("a", "val")>>]

Trees ==
  {JoinOf(h1, JoinOf(h2, ScanOf(o[1]), ScanOf(o[2])), ScanOf(o[3])) :
     h1, h2 \in {"left", "right"}, o \in {s \in [1..3 -> {"a", "b", "c"}] : IsInjective(s)}}
  \cup
  {JoinOf(h1, ScanOf(o[1]), JoinOf(h2, ScanOf(o[2]), ScanOf(o[3]))) :
     h1, h2 \in {"left", "right"}, o \in {s \in [1..3 -> {"a", "b", "c"}] : IsInjective(s)}}

Contents ==
  {[a |-> <<<<"k0", "k0">>, <<"k1", "k0">>, <<"k0", "k1">>>>,
    b |-> <<<<"k0", "k0">>, <<"k1", "k1">>, <<"k0", "k1">>>>,
    c |-> <<<<"k0", "k1">>, <<"k1", "k1">>, <<"k0", "k0">>, <<Null, "k1">>>>],
   [a |-> <<<<Null, "k0">>, <<"k1", "k1">>>>,
    b |-> <<<<"k1", "k0">>, <<Null, "k1">>, <<"k1", "k1">>>>,
    c |-> <<<<"k1", "k1">>>>],
   [a |-> <<>>,
    b |-> <<<<"k0", "k0">>>>,
    c |-> <<<<"k0", "k1">>>>]}

PlanRequests ==
  {[query |-> q, tree |-> t, tables |-> c] : q \in {Star, Chain}, t \in Trees, c \in Contents}

MCRequests == TableRequests \cup PlanRequests
=============================================================================
