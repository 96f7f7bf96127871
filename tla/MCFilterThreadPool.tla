-------------------------- MODULE MCFilterThreadPool --------------------------
(* Small instances of FilterThreadPool: the configurations give its constants. *)
EXTENDS FilterThreadPool, TLC

(* Fewer tasks than threads, as many, and a number that leaves a remainder. *)
MCTaskCounts == {0, 1, 3, 4}
=============================================================================
