------------------------------ MODULE RobinHood ------------------------------
(***************************************************************************)
(* include/robinhood.h: linear probing in which an entry that is far from  *)
(* its home slot takes the place of one that is closer, and the displaced  *)
(* entry is carried on.  Each iteration of insert's loop is a step.        *)
(*                                                                         *)
(* The table, the insertion in progress and the calls still to be made are *)
(* variables of the executor that uses the table; `pending' stays empty    *)
(* here (this table never reinserts anything).                             *)
(***************************************************************************)
EXTENDS Integers, Sequences, FiniteSets, FiniteSetsExt, SlotArrays

CONSTANTS
  Keys,
  Hash1,   (* [Keys -> Nat]: the hash before it is masked *)
  None     (* a vacant slot, no insertion in progress     *)

VARIABLES
  table,   (* [N, slots]: slots[i] is None or an entry [key, values, psl] *)
  call,    (* the running insert: its key and values, the entry it        *)
           (* carries, the position it has reached                        *)
  pending

EntrySet == [key : Keys, values : Seq(Nat), psl : Nat]
CallSet  == [key : Keys, values : Seq(Nat), pos : Nat, current : EntrySet]

Home(k) == Hash1[k] % table.N

\* mutant: no doubling
NewUndoubled(size) == [N |-> NextPow2(size), slots |-> [i \in 0..NextPow2(size) - 1 |-> None]]

(* Hashalgorithm(size) *)
New(size) == LET n == 2 * NextPow2(size) IN [N |-> n, slots |-> [i \in 0..n - 1 |-> None]]

Insert(k, vs) ==
  /\ call = None
  /\ call' = [key |-> k, values |-> vs, pos |-> Home(k),
              current |-> [key |-> k, values |-> vs, psl |-> 0]]
  /\ UNCHANGED <<table, pending>>

Here == table.slots[call.pos]

Settle ==
  /\ call # None /\ Here = None
  /\ table' = [table EXCEPT !.slots[call.pos] = call.current]
  /\ call' = None
  /\ UNCHANGED pending

(* The key is already there: its new values are appended.  The key compared *)
(* is the one of the call, also when another entry is being carried.        *)
AppendValues ==
  /\ call # None /\ Here # None /\ Here.key = call.key
  /\ table' = [table EXCEPT !.slots[call.pos].values = @ \o call.values]
  /\ call' = None
  /\ UNCHANGED pending

\* mutant: the position runs past the end of the table
CarryOnUnwrapped ==
  /\ call # None /\ Here # None /\ Here.key # call.key
  /\ LET takes == call.current.psl > Here.psl
         next  == IF takes THEN Here ELSE call.current
     IN /\ table' = IF takes THEN [table EXCEPT !.slots[call.pos] = call.current] ELSE table
        /\ call' = [call EXCEPT !.current = [next EXCEPT !.psl = @ + 1],
                                !.pos = call.pos + 1]
  /\ UNCHANGED pending

CarryOn ==
  /\ call # None /\ Here # None /\ Here.key # call.key
  /\ LET takes == call.current.psl > Here.psl
         next  == IF takes THEN Here ELSE call.current
     IN /\ table' = IF takes THEN [table EXCEPT !.slots[call.pos] = call.current] ELSE table
        /\ call' = [call EXCEPT !.current = [next EXCEPT !.psl = @ + 1],
                                !.pos = (call.pos + 1) % table.N]
  /\ UNCHANGED pending

Step == Settle \/ AppendValues \/ CarryOn

-----------------------------------------------------------------------------
At(k, d) == table.slots[(Home(k) + d) % table.N]

\* mutant: gives up one entry early, at an equal distance
FindEarly(k) ==
  LET stops == {d \in 0..table.N - 1 : \/ At(k, d) = None
                                       \/ At(k, d) # None /\ (At(k, d).key = k \/ d >= At(k, d).psl)}
      d == IF stops = {} THEN 0 ELSE Min(stops)
  IN IF At(k, d) # None /\ At(k, d).key = k THEN At(k, d).values ELSE <<>>

(* find_values: the walk from the home slot stops at a vacant slot, at the *)
(* key, or at an entry closer to its home than the walk is to its start.   *)
Find(k) ==
  LET stops == {d \in 0..table.N - 1 :
                  At(k, d) # None => At(k, d).key = k \/ d > At(k, d).psl}
      d == Min(stops)
  IN IF At(k, d) # None /\ At(k, d).key = k THEN At(k, d).values ELSE <<>>

-----------------------------------------------------------------------------
(* For the properties: every entry, wherever it is. *)
Stored == {i \in 0..table.N - 1 : table.slots[i] # None}

Entries ==
  {<<"slot", i, table.slots[i]>> : i \in Stored}
    \cup (IF call = None THEN {} ELSE {<<"call", 0, call.current>>})

TableType ==
  /\ table.slots \in [0..table.N - 1 -> EntrySet \cup {None}]
  /\ \A i \in Stored : table.slots[i].psl \in 0..table.N - 1
CallType ==
  call # None =>
    call \in CallSet /\ call.pos \in 0..table.N - 1 /\ call.current.psl \in 0..table.N - 1

(* An entry stands as far from its home as it says, and no entry on the way *)
(* is closer to its own home than the walk is to its start.                 *)
Placed ==
  \A i \in Stored :
    LET e == table.slots[i] IN
      /\ i = (Home(e.key) + e.psl) % table.N
      /\ \A d \in 0..e.psl : At(e.key, d) # None /\ At(e.key, d).psl >= d
=============================================================================
