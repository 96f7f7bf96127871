--------------------------- MODULE MCUnchainedTable ---------------------------
(* Small instances of UnchainedTable: values for its constants. *)
EXTENDS UnchainedTable, TLC

CONSTANTS k1, k2, k3

(* k1 and k2 share a slot of a four-slot directory.  The tag of k1 covers  *)
(* that of k2, so a lookup of an absent k2 passes the filter of a slot that *)
(* holds k1, and a lookup of an absent k1 is stopped by it.                 *)
MCHash == k1 :> 2 @@ k2 :> 3 @@ k3 :> 7
MCTag  == [h \in 0 .. HashSize - 1 |-> IF h = 2 THEN {1, 2} ELSE IF h = 3 THEN {2} ELSE {3}]
=============================================================================
