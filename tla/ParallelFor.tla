----------------------------- MODULE ParallelFor -----------------------------
(***************************************************************************)
(* What FilterThreadPool::run promises its caller: the function is applied *)
(* to every task of the call, to each one once, and to nothing after the   *)
(* call has returned.                                                      *)
(***************************************************************************)
EXTENDS Integers

CONSTANT TaskCounts      (* the num_tasks a caller may pass *)

VARIABLES
  running,    (* a call of run is in progress                  *)
  remaining   (* its tasks the function was not yet applied to *)

vars == <<running, remaining>>

Init == running = FALSE /\ remaining = {}

Start ==
  /\ ~running /\ running' = TRUE
  /\ \E n \in TaskCounts : remaining' = 0 .. n - 1

(* One thread applies the function to a range of tasks. *)
Execute ==
  /\ running /\ UNCHANGED running
  /\ \E tasks \in SUBSET remaining : remaining' = remaining \ tasks

Return ==
  /\ running /\ remaining = {}
  /\ running' = FALSE /\ UNCHANGED remaining

Next == Start \/ Execute \/ Return
Spec == Init /\ [][Next]_vars
=============================================================================
