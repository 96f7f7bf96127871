----------------------------- MODULE ThreadChoice -----------------------------
(***************************************************************************)
(* How a join chooses its number of threads and its kind of table, from    *)
(* the hardware and from two environment variables.  A setting is a record *)
(*   hardware   SPC__THREAD_COUNT                                          *)
(*   forced     SPC_FORCE_THREADS, 0 when it is unset or no number         *)
(*   minBuild   SPC_THREADED_MIN_BUILD, in the same way                    *)
(* The rows of the build side are the other input.                         *)
(***************************************************************************)
EXTENDS Integers

CONSTANTS
  Settings,          (* the settings considered                              *)
  DefaultThreads,    (* threads when the hardware does not say, 4            *)
  SmallBuild,        (* rows below which a table is built by one thread,     *)
                     (* 200000                                               *)
  ThreadedMinBuild   (* rows from which a table is built by threads, 600000  *)

SettingsAssumption ==
  /\ Settings \subseteq [hardware : Nat, forced : Nat, minBuild : Nat]
  /\ DefaultThreads \in Nat \ {0} /\ SmallBuild \in Nat /\ ThreadedMinBuild \in Nat \ {0}
ASSUME SettingsAssumption

Wanted(s) ==
  IF s.forced > 0 THEN s.forced ELSE IF s.hardware = 0 THEN DefaultThreads ELSE s.hardware

(* The smallest power of two that is no less: partitions are told by bits. *)
(* The loop of doublings ends up to 2^63.                                  *)
RoundUp(n) ==
  LET doubled[k \in 0 .. n] == IF k = 0 THEN 1 ELSE 2 * doubled[k - 1]
  IN  doubled[CHOOSE k \in 0 .. n : doubled[k] >= n /\ (k = 0 \/ doubled[k - 1] < n)]

UseThreaded(s, rows) ==
  rows >= IF s.minBuild > 0 THEN s.minBuild ELSE ThreadedMinBuild

(* The threads of the probe.  An inner join whose table is built by threads *)
(* probes with as many, and a small table is built by one; any other join   *)
(* asks the setting only.                                                   *)
InnerThreads(s, rows) ==
  RoundUp(IF UseThreaded(s, rows) /\ rows < SmallBuild THEN 1 ELSE Wanted(s))
RootThreads(s) == RoundUp(Wanted(s))
=============================================================================
