--------------------------- MODULE MCThreadedTable ---------------------------
(* Small instances of ThreadedTable: values for its constants. *)
EXTENDS ThreadedTable, TLC

CONSTANTS k1, k2, k3, k4

(* Two partitions of four hashes.  k1 and k2 share a slot of the directory  *)
(* with four slots, k4 shares their partition; k2's bloom bits cover k1's,  *)
(* so a lookup of k1 passes the filter of a slot that only holds k2.        *)
MCHash2 == [k \in Keys |-> (k1 :> 0 @@ k2 :> 1 @@ k4 :> 2 @@ k3 :> 7)[k]]

(* Four partitions: k1 and k2 in the first, k3 in the last.                 *)
MCHash4 == [k \in Keys |-> (k1 :> 0 @@ k2 :> 1 @@ k3 :> 7)[k]]

MCTag == [h \in 0 .. HashSize - 1 |-> IF h = 1 THEN {"b1", "b2"}
                                      ELSE IF h = 7 THEN {"b2"} ELSE {"b1"}]
=============================================================================
