------------------------------ MODULE TypedColumns ------------------------------
(***************************************************************************)
(* The columns of a table that is read from a file: an INT32 or a VARCHAR  *)
(* column each, with its values.  FilterEval loads such a table and        *)
(* filters it; CopyScan scans what is returned.                            *)
(***************************************************************************)
EXTENDS ColumnInserter

CONSTANTS
  Types,        (* types of the columns: "int" or "text"                     *)
  ColumnValues, (* ColumnValues[c]: the values of column c that are not NULL *)
  MaxRows       (* bound: records of the file                                *)

Columns == DOMAIN Types
Values  == (UNION {ColumnValues[c] : c \in Columns}) \cup {Null}

ColumnsAssumption ==
  /\ MaxRows \in Nat
  /\ Types \in Seq({"int", "text"})
  /\ \A c \in Columns : Null \notin ColumnValues[c] /\ ColumnValues[c] \cap WideValues = {}
  /\ Broken \notin Values \X Int
ASSUME ColumnsAssumption
=============================================================================
