------------------------------ MODULE SlotArrays ------------------------------
(***************************************************************************)
(* What the hash tables of include/robinhood.h, cuckoo.h and hopscotch.h   *)
(* have in common: sizes that are powers of two, and walks over the slots. *)
(***************************************************************************)
EXTENDS Integers, Sequences, FiniteSetsExt

(* The smallest power of two that is not below n. *)
NextPow2(n) ==
  LET doubled[i \in 0..n] == IF i = 0 THEN 1 ELSE 2 * doubled[i - 1]
  IN Min({p \in {doubled[i] : i \in 0..n} : p >= n})

(* The numbers of 1..n that are in S, in their order. *)
Positions(n, S) ==
  LET upTo[i \in 0..n] == IF i = 0 THEN <<>>
                          ELSE IF i \in S THEN Append(upTo[i - 1], i) ELSE upTo[i - 1]
  IN upTo[n]

(* The elements of a sequence at the places in S, in their order. *)
Picked(s, S) == LET places == Positions(Len(s), S) IN [i \in DOMAIN places |-> s[places[i]]]

(* The entries of slots 0..n-1, in the order of the slots. *)
Occupied(slots, n, none) ==
  Picked([i \in 1..n |-> slots[i - 1]], {i \in 1..n : slots[i - 1] # none})
=============================================================================
