------------------------------ MODULE MCRootJoin ------------------------------
(* Small instances of RootJoin: values for its constants. *)
EXTENDS RootJoin

CONSTANTS k1, k2

(* Three rows of the table share a slot: 10 and 12 have key k1, 11 has k2.  *)
MCBuildKey == 10 :> k1 @@ 11 :> k2 @@ 12 :> k1
MCEntries  == [k \in Keys |-> <<11, 10, 12>>]

(* An INT32 column of the left child and a VARCHAR column of the right one. *)
(* Row 12 holds NULL in the first, unless that is dense, and row 1 in the   *)
(* second; row 11 is a string longer than a page.                           *)
MCRows == ProbeRows \cup {10, 11, 12}
MCFromLeft == <<TRUE, FALSE>>
MCCell == <<[r \in MCRows |-> IF r = 12 /\ 1 \notin DenseOut THEN Null ELSE r],
            [r \in MCRows |-> IF r = 1 THEN Null ELSE 100 + r]>>
MCStrings == {100 + r : r \in MCRows}
MCLength == [s \in MCStrings |-> IF s = 111 THEN PageSize ELSE IF s = 100 THEN 0 ELSE 3]

(* Two threads, from the hardware or by default, or one forced; and a low   *)
(* threshold of the threaded build, which the three build rows reach.       *)
MCSettings == [hardware : {0, 2}, forced : {0, 1}, minBuild : {0, 2}]
=============================================================================
