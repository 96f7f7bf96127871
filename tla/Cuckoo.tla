-------------------------------- MODULE Cuckoo --------------------------------
(***************************************************************************)
(* include/cuckoo.h: two tables, one home slot in each.  A new entry takes *)
(* its slot and the evicted one moves to its slot in the other table; when *)
(* there have been as many kicks as the tables hold entries, both tables   *)
(* are doubled and everything is inserted again.                           *)
(*                                                                         *)
(* rehash calls insert, and an insert of a rehash may rehash: what the     *)
(* nested calls still have to insert is `pending', the innermost call's    *)
(* entries first.  An iteration of insert's loop is a step.                *)
(***************************************************************************)
EXTENDS Integers, Sequences, FiniteSets, FiniteSetsExt, SlotArrays

CONSTANTS
  Keys,
  Hash1, Hash2,   (* [Keys -> Nat]: the two hashes before they are masked  *)
  MinSlots,       (* the smallest table: 16                                *)
  None            (* a vacant slot, no insertion in progress               *)

VARIABLES
  table,     (* [N, inserted, one, two]: a slot is None or an entry [key, values] *)
  call,      (* the running insert: the entry it carries, the table it turns to,  *)
             (* the kicks so far                                                  *)
  pending    (* entries the nested calls still have to insert                     *)

EntrySet == [key : Keys, values : Seq(Nat)]
CallSet  == [current : EntrySet, side : {1, 2}, kicks : Nat]

Home1(k) == Hash1[k] % table.N
Home2(k) == Hash2[k] % table.N

Vacated(n) == [N |-> n, inserted |-> 0, one |-> [i \in 0..n - 1 |-> None],
                                        two |-> [i \in 0..n - 1 |-> None]]

(* Hashalgorithm(size) *)
New(size) == Vacated(Max({MinSlots, 2 * NextPow2(size)}))

Holds(slot, k) == slot # None /\ slot.key = k

-----------------------------------------------------------------------------
(* insert(e.key, e.values), up to its loop; `rest' is what remains to be   *)
(* inserted after it.                                                      *)
Begin(e, rest) ==
  /\ call = None
  /\ pending' = rest
  /\ \/ /\ Holds(table.one[Home1(e.key)], e.key)
        /\ table' = [table EXCEPT !.one[Home1(e.key)].values = @ \o e.values]
        /\ UNCHANGED call
     \/ /\ ~Holds(table.one[Home1(e.key)], e.key)
        /\ Holds(table.two[Home2(e.key)], e.key)
        /\ table' = [table EXCEPT !.two[Home2(e.key)].values = @ \o e.values]
        /\ UNCHANGED call
     \/ /\ ~Holds(table.one[Home1(e.key)], e.key)
        /\ ~Holds(table.two[Home2(e.key)], e.key)
        /\ call' = [current |-> e, side |-> 1, kicks |-> 0]
        /\ UNCHANGED table

Insert(k, vs) == pending = <<>> /\ Begin([key |-> k, values |-> vs], <<>>)

(* The next insert of the loops of rehash, or the one that follows rehash. *)
Reinsert == pending # <<>> /\ Begin(Head(pending), Tail(pending))

Slot == IF call.side = 1 THEN table.one[Home1(call.current.key)]
                         ELSE table.two[Home2(call.current.key)]

(* The table with the carried entry in its slot. *)
WithCurrent ==
  IF call.side = 1 THEN [table EXCEPT !.one[Home1(call.current.key)] = call.current]
                   ELSE [table EXCEPT !.two[Home2(call.current.key)] = call.current]

Settle ==
  /\ call # None /\ Slot = None
  /\ table' = [WithCurrent EXCEPT !.inserted = @ + 1]
  /\ call' = None
  /\ UNCHANGED pending

Kick ==
  /\ call # None /\ Slot # None
  /\ call.kicks + 1 < table.inserted
  /\ table' = WithCurrent
  /\ call' = [current |-> Slot, side |-> 3 - call.side, kicks |-> call.kicks + 1]
  /\ UNCHANGED pending

\* mutant: the entry in hand is not inserted again
RehashLosesCurrent ==
  /\ call # None /\ Slot # None
  /\ call.kicks + 1 >= table.inserted
  /\ table' = Vacated(2 * table.N)
  /\ pending' = Occupied(WithCurrent.one, table.N, None) \o Occupied(WithCurrent.two, table.N, None) \o pending
  /\ call' = None

\* mutant: the tables keep their size
RehashSameSize ==
  /\ call # None /\ Slot # None
  /\ call.kicks + 1 >= table.inserted
  /\ table' = Vacated(table.N)
  /\ pending' = Occupied(WithCurrent.one, table.N, None) \o Occupied(WithCurrent.two, table.N, None)
                  \o <<Slot>> \o pending
  /\ call' = None

(* The last kick: rehash, then the evicted entry is inserted from the start. *)
Rehash ==
  /\ call # None /\ Slot # None
  /\ call.kicks + 1 >= table.inserted
  /\ table' = Vacated(2 * table.N)
  /\ pending' = Occupied(WithCurrent.one, table.N, None) \o Occupied(WithCurrent.two, table.N, None)
                  \o <<Slot>> \o pending
  /\ call' = None

Step == Reinsert \/ Settle \/ Kick \/ Rehash

(* find_values *)
Find(k) ==
  IF Holds(table.one[Home1(k)], k) THEN table.one[Home1(k)].values
  ELSE IF Holds(table.two[Home2(k)], k) THEN table.two[Home2(k)].values
  ELSE <<>>

-----------------------------------------------------------------------------
(* For the properties: every entry, wherever it is. *)
Stored == {<<"one", i, table.one[i]>> : i \in {j \in 0..table.N - 1 : table.one[j] # None}}
            \cup {<<"two", i, table.two[i]>> : i \in {j \in 0..table.N - 1 : table.two[j] # None}}

Entries == Stored \cup {<<"pending", i, pending[i]>> : i \in DOMAIN pending}
             \cup (IF call = None THEN {} ELSE {<<"call", 0, call.current>>})

TableType ==
  /\ table.N >= MinSlots /\ table.inserted \in 0..2 * table.N
  /\ {table.one, table.two} \subseteq [0..table.N - 1 -> EntrySet \cup {None}]
CallType  == call # None => call \in CallSet /\ call.kicks \in 0..2 * table.N

(* An entry stands in its home slot of one of the tables, no key has two   *)
(* entries, and `inserted' is the number of entries.                       *)
Placed ==
  /\ \A s \in Stored : s[2] = IF s[1] = "one" THEN Home1(s[3].key) ELSE Home2(s[3].key)
  /\ \A s, t \in Stored : s[3].key = t[3].key => s = t
  /\ table.inserted = Cardinality(Stored)
=============================================================================
