------------------------------ MODULE JoinIndex ------------------------------
(***************************************************************************)
(* What a hash join asks of the table built on its build column: nothing   *)
(* can be looked up until the build is over, and from then on a lookup of  *)
(* a key finds every row that holds it, once, and no other row.  Rows that *)
(* hold the NULL sentinel are found under no key.                          *)
(*                                                                         *)
(* Both tables of the program (threaded::FinalTable, UnchainedHashTable)   *)
(* are shown to implement this specification.                              *)
(***************************************************************************)
EXTENDS Naturals

CONSTANTS
  Rows,      (* row indices of the build column          *)
  Keys,      (* the int32 keys that are not the sentinel *)
  Null,      (* the NULL sentinel of value_t             *)
  NotBuilt   (* the index before the build is over       *)

VARIABLES
  column,    (* the build column: a key or Null per row           *)
  index      (* index[k][r]: how often a lookup of k returns row r *)

vars == <<column, index>>

Init ==
  /\ column \in [Rows -> Keys \cup {Null}]
  /\ index = NotBuilt

(* The table becomes readable, complete. *)
Build ==
  /\ index = NotBuilt
  /\ index' = [k \in Keys |-> [r \in Rows |-> IF column[r] = k THEN 1 ELSE 0]]
  /\ UNCHANGED column

Spec == Init /\ [][Build]_vars
=============================================================================
