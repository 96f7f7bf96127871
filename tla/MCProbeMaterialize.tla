------------------------- MODULE MCProbeMaterialize -------------------------
(* Small instances of ProbeMaterialize: values for its constants. *)
EXTENDS ProbeMaterialize, TLC

CONSTANTS k1, k2

(* Three rows of the table share one slot: rows 10 and 12 have key k1, row  *)
(* 11 has key k2.  Build rows are told from probe rows by their numbers.    *)
MCBuildKey == 10 :> k1 @@ 11 :> k2 @@ 12 :> k1
MCEntries  == [k \in Keys |-> <<11, 10, 12>>]

(* Output columns: two of the left child, one of the right. *)
MCFromLeft == <<TRUE, FALSE, TRUE>>

(* Two threads, from the hardware or by default, or one forced; and a low   *)
(* threshold of the threaded build, which the three build rows reach.       *)
MCSettings == [hardware : {0, 2}, forced : {0, 1}, minBuild : {0, 2}]
=============================================================================
