------------------------------- MODULE HashJoin -------------------------------
(***************************************************************************)
(* What a hash join promises, as Instructions.md words it: the result has  *)
(* one row for every pair of a build row and a probe row with equal keys,  *)
(* no other row, and every output column of a result row comes from that   *)
(* same pair.  The order of the rows is not promised.                      *)
(*                                                                         *)
(* A key that holds the NULL sentinel joins with nothing.                  *)
(***************************************************************************)
EXTENDS Naturals, FiniteSets

CONSTANTS
  BuildKey,    (* the key of every build row that is in the table: [BuildRows -> Keys] *)
  ProbeRows,   (* rows of the probe column                                             *)
  Keys, Null,  (* int32 keys, and the sentinel                                         *)
  FromLeft,    (* output columns: FromLeft[c] says if c is a column of the left child  *)
  Cell,        (* Cell[c][r]: the value of row r of the side that column c comes from  *)
  NotJoined    (* the result while the join runs                                       *)

BuildRows == DOMAIN BuildKey
Columns   == DOMAIN FromLeft
Cells     == UNION {{Cell[c][r] : r \in BuildRows \cup ProbeRows} : c \in Columns}

VARIABLES
  probeColumn,   (* the probe column                                    *)
  buildLeft,     (* the table is built on the left child                *)
  result         (* how often each row is in the result                 *)

vars == <<probeColumn, buildLeft, result>>

(* The pairs <<build row, probe row>> that join. *)
Matches == {m \in BuildRows \X ProbeRows : BuildKey[m[1]] = probeColumn[m[2]]}

(* The result row of a pair: where each of its columns is copied from. *)
ResultRow(m) == [c \in Columns |-> Cell[c][IF FromLeft[c] = buildLeft THEN m[1] ELSE m[2]]]

Init ==
  /\ probeColumn \in [ProbeRows -> Keys \cup {Null}]
  /\ buildLeft \in BOOLEAN
  /\ result = NotJoined

Join ==
  /\ result = NotJoined
  /\ result' = [v \in [Columns -> Cells] |->
                  Cardinality({m \in Matches : ResultRow(m) = v})]
  /\ UNCHANGED <<probeColumn, buildLeft>>

Spec == Init /\ [][Join]_vars
=============================================================================
