------------------------------ MODULE Hopscotch ------------------------------
(***************************************************************************)
(* include/hopscotch.h: an entry stands at most H - 1 slots after its home *)
(* slot, whose bitmap says where.  insert looks for a free slot and, while *)
(* that is too far, moves an entry of another home into it; when no entry  *)
(* can move, or the home's bitmap is full, the table is doubled and        *)
(* everything is inserted again.                                           *)
(*                                                                         *)
(* rehash calls insert, and an insert of a rehash may rehash: what the     *)
(* nested calls still have to insert is `pending', the innermost call's    *)
(* entries first.  An iteration of insert's loops is a step.               *)
(***************************************************************************)
EXTENDS Integers, Sequences, FiniteSets, FiniteSetsExt, SlotArrays

CONSTANTS
  Keys,
  Hash1,   (* [Keys -> Nat]: the hash before it is masked *)
  H,       (* the size of a neighbourhood: 32             *)
  None     (* a vacant slot, no insertion in progress     *)

VARIABLES
  table,     (* [N, slots, bitmap]: a slot is None or an entry [key, values];    *)
             (* bitmap[i] is the set of offsets at which entries of home i stand *)
  call,      (* the running insert: its entry and the slot j it has reached      *)
  pending    (* entries the nested calls still have to insert                    *)

EntrySet == [key : Keys, values : Seq(Nat)]
CallSet  == [entry : EntrySet, j : Nat]

Home(k) == Hash1[k] % table.N
Distance(from, to) == (to - from + table.N) % table.N
Ahead(i, d) == (i + d) % table.N

Vacated(n) == [N |-> n, slots |-> [i \in 0..n - 1 |-> None], bitmap |-> [i \in 0..n - 1 |-> {}]]

(* Hashalgorithm(size) *)
New(size) == Vacated(2 * NextPow2(size))

(* rehash, then insert(e.key, e.values), then what was still to be inserted. *)
Rehash(e, rest) ==
  /\ table' = Vacated(2 * table.N)
  /\ pending' = Occupied(table.slots, table.N, None) \o <<e>> \o rest
  /\ call' = None

-----------------------------------------------------------------------------
(* Where the entries of k's home that have key k stand. *)
Matching(k) == {p \in {Ahead(Home(k), d) : d \in table.bitmap[Home(k)]} :
                  table.slots[p] # None /\ table.slots[p].key = k}

(* insert(e.key, e.values), up to the search; `rest' is what remains to be *)
(* inserted after it.                                                      *)
Begin(e, rest) ==
  /\ call = None
  /\ \/ \E p \in Matching(e.key) :
          /\ table' = [table EXCEPT !.slots[p].values = @ \o e.values]
          /\ pending' = rest
          /\ UNCHANGED call
     \/ /\ Matching(e.key) = {} /\ table.bitmap[Home(e.key)] = 0..H - 1
        /\ Rehash(e, rest)
     \/ /\ Matching(e.key) = {} /\ table.bitmap[Home(e.key)] # 0..H - 1
        /\ call' = [entry |-> e, j |-> Home(e.key)]
        /\ pending' = rest
        /\ UNCHANGED table

Insert(k, vs) == pending = <<>> /\ Begin([key |-> k, values |-> vs], <<>>)

(* The next insert of the loop of rehash, or the one that follows rehash. *)
Reinsert == pending # <<>> /\ Begin(Head(pending), Tail(pending))

SearchOn ==
  /\ call # None /\ table.slots[call.j] # None
  /\ call' = [call EXCEPT !.j = Ahead(@, 1)]
  /\ UNCHANGED <<table, pending>>

(* The offsets back from the free slot j of the entries that may move to it. *)
Movable ==
  {o \in 1..H - 1 :
     LET k == Ahead(call.j, table.N - (o % table.N)) e == table.slots[k] IN
       /\ e # None
       /\ Distance(Home(e.key), k) \in table.bitmap[Home(e.key)]
       /\ Distance(Home(e.key), call.j) < H}

TooFar == Distance(Home(call.entry.key), call.j) >= H

\* mutant: the bitmap keeps the offset the entry has left
MoveKeepsBit ==
  /\ call # None /\ table.slots[call.j] = None /\ TooFar /\ Movable # {}
  /\ LET y == Ahead(call.j, table.N - Max(Movable))
         e == table.slots[y]
         h == Home(e.key)
     IN /\ table' = [table EXCEPT !.slots[call.j] = e, !.slots[y] = None,
                                  !.bitmap[h] = @ \cup {Distance(h, call.j)}]
        /\ call' = [call EXCEPT !.j = y]
  /\ UNCHANGED pending

(* The farthest entry that may move does; its slot is the free one now. *)
Move ==
  /\ call # None /\ table.slots[call.j] = None /\ TooFar /\ Movable # {}
  /\ LET y == Ahead(call.j, table.N - Max(Movable))
         e == table.slots[y]
         h == Home(e.key)
     IN /\ table' = [table EXCEPT !.slots[call.j] = e, !.slots[y] = None,
                                  !.bitmap[h] = (@ \ {Distance(h, y)}) \cup {Distance(h, call.j)}]
        /\ call' = [call EXCEPT !.j = y]
  /\ UNCHANGED pending

NothingMoves ==
  /\ call # None /\ table.slots[call.j] = None /\ TooFar /\ Movable = {}
  /\ Rehash(call.entry, pending)

Settle ==
  /\ call # None /\ table.slots[call.j] = None /\ ~TooFar
  /\ LET h == Home(call.entry.key) IN
       table' = [table EXCEPT !.slots[call.j] = call.entry,
                              !.bitmap[h] = @ \cup {Distance(h, call.j)}]
  /\ call' = None
  /\ UNCHANGED pending

Step == Reinsert \/ SearchOn \/ Move \/ NothingMoves \/ Settle

(* find_values *)
Find(k) == IF Matching(k) = {} THEN <<>> ELSE table.slots[CHOOSE p \in Matching(k) : TRUE].values

-----------------------------------------------------------------------------
(* For the properties: every entry, wherever it is. *)
Stored == {i \in 0..table.N - 1 : table.slots[i] # None}

Entries == {<<"slot", i, table.slots[i]>> : i \in Stored}
             \cup {<<"pending", i, pending[i]>> : i \in DOMAIN pending}
             \cup (IF call = None THEN {} ELSE {<<"call", 0, call.entry>>})

TableType ==
  /\ table.slots \in [0..table.N - 1 -> EntrySet \cup {None}]
  /\ \A i \in 0..table.N - 1 : table.bitmap[i] \subseteq 0..H - 1
CallType  == call # None => call \in CallSet /\ call.j \in 0..table.N - 1

(* The bitmaps say exactly where the entries are: the entry in a slot is   *)
(* within the neighbourhood of its home, at an offset its home's bitmap    *)
(* has, and an offset of a bitmap leads to an entry of that home.          *)
Placed ==
  /\ \A i \in Stored : LET h == Home(table.slots[i].key) IN Distance(h, i) \in table.bitmap[h]
  /\ \A h \in 0..table.N - 1 : \A d \in table.bitmap[h] :
       table.slots[Ahead(h, d)] # None /\ Home(table.slots[Ahead(h, d)].key) = h
=============================================================================
