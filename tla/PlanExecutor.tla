----------------------------- MODULE PlanExecutor -----------------------------
(***************************************************************************)
(* Executing a plan: execute_impl descends into the children of a join,    *)
(* left before right, and joins their results.  The repository has the     *)
(* same recursion six times, over different join indexes, and so has this  *)
(* module:                                                                 *)
(*   "columnar"   src/execute.cpp, where the sizes of the children choose  *)
(*                the build side (its tables, their threads and the root's *)
(*                own join are the other modules of this project);         *)
(*   "initial"    archives/execute_initial.cpp, over std::unordered_map;   *)
(*   "robinhood"  archives/execute_rob.cpp and archives/execute_d1.cpp;    *)
(*   "cuckoo"     archives/execute_cuc.cpp (the two hashes of a VARCHAR    *)
(*                key are the same, std::hash);                            *)
(*   "hopscotch"  archives/execute_hop.cpp.                                *)
(* In all but the first the plan's build_left chooses the build side.      *)
(*                                                                         *)
(* A row of a join's input is inserted into the index or looked up there   *)
(* as one call; the calls of the three hash tables take the steps of their *)
(* own modules.                                                            *)
(***************************************************************************)
EXTENDS Integers, Sequences, FiniteSets, SequencesExt, FiniteSetsExt, SlotArrays

CONSTANTS
  Keys, Null,      (* values, and std::monostate or the NULL sentinel         *)
  Hash1, Hash2,    (* [Keys -> Nat]: the hash functions before they are masked *)
  MinSlots, H,     (* the smallest cuckoo table, the hopscotch neighbourhood  *)
  Requests,        (* [query, tree, tables]: what the program may be run on   *)
  Width,           (* Width[e]: the number of columns of entity e             *)
  PlansFor(_, _),  (* the plans a query and an optimizer's tree may give      *)
  Passes(_, _, _), (* whether a filter of an entity accepts a row             *)
  Variants,        (* the executors that are run                              *)
  None             (* nothing there (yet)                                     *)

Values  == Keys \cup {Null}
Records == Seq(Values)

ASSUME HashAssumption == Hash1 \in [Keys -> Nat] /\ Hash2 \in [Keys -> Nat]
ASSUME NullAssumption == Null \notin Keys
ASSUME SizesAssumption ==
  H \in Nat \ {0} /\ MinSlots \in Nat \ {0} /\ \E i \in 0..MinSlots : MinSlots = 2^i

(* What the loader of a plan gives: children before their parent, and       *)
(* attributes that the input of a node has.                                *)
IsNode(p, n, tables) ==
  \/ /\ p[n].op = "scan" /\ p[n].entity \in DOMAIN tables
     /\ p[n].attrs \in Seq(1..Width[p[n].entity])
  \/ /\ p[n].op = "join" /\ p[n].buildLeft \in BOOLEAN
     /\ p[n].left \in 1..n - 1 /\ p[n].leftAttr \in DOMAIN p[p[n].left].attrs
     /\ p[n].right \in 1..n - 1 /\ p[n].rightAttr \in DOMAIN p[p[n].right].attrs
     /\ p[n].attrs \in Seq(1..Len(p[p[n].left].attrs) + Len(p[p[n].right].attrs))

ASSUME RequestsAssumption ==
  \A r \in Requests :
    /\ \A e \in DOMAIN r.tables : r.tables[e] \in Seq([1..Width[e] -> Values])
    /\ \A e \in DOMAIN r.tables : Width[e] \in Nat
    /\ \A p \in PlansFor(r.query, r.tree) :
         /\ Len(p) \in Nat \ {0} /\ DOMAIN p = 1..Len(p)
         /\ \A n \in DOMAIN p : IsNode(p, n, r.tables)

VARIABLES
  variant,   (* the executor                                              *)
  request,   (* the query, the optimizer's tree, the rows of the entities *)
  plan,      (* the plan's nodes, the root last                           *)
  frames,    (* the calls of execute_impl that have not returned          *)
  done,      (* the records of the nodes whose call has returned          *)
  join,      (* the join that runs: the build side, the rows built and    *)
             (* probed so far, the records it has emitted                 *)
  table,     (* its index                                                 *)
  call,      (* the insert that runs in it                                *)
  pending    (* the inserts that are to follow it                         *)

vars == <<variant, request, plan, frames, done, join, table, call, pending>>
given == <<variant, request, plan>>
index == <<table, call, pending>>

RH == INSTANCE RobinHood
CK == INSTANCE Cuckoo
HS == INSTANCE Hopscotch

(* What a join has built, probed and emitted. *)
Joins == [buildLeft : BOOLEAN, built : Nat, probed : Nat, out : Seq(Records)]

(* Nothing is none of the things there may be. *)
ASSUME NoneAssumption ==
  None \notin Joins \cup RH!EntrySet \cup RH!CallSet \cup CK!EntrySet \cup CK!CallSet
                   \cup HS!EntrySet \cup HS!CallSet

Init ==
  /\ variant \in Variants
  /\ request \in Requests
  /\ plan \in PlansFor(request.query, request.tree)
  /\ frames = <<Len(plan)>>
  /\ done = [n \in DOMAIN plan |-> None]
  /\ join = None
  /\ table = None /\ call = None /\ pending = <<>>

Top  == frames[Len(frames)]
Node == plan[Top]

-----------------------------------------------------------------------------
(* execute_impl and execute_hash_join: the children, left first.           *)

CallChild ==
  /\ frames # <<>> /\ Node.op = "join" /\ join = None
  /\ \/ /\ done[Node.left] = None
        /\ frames' = Append(frames, Node.left)
     \/ /\ done[Node.left] # None /\ done[Node.right] = None
        /\ frames' = Append(frames, Node.right)
  /\ UNCHANGED <<given, done, join, index>>

(* execute_scan: the required columns of the input (the filter has been    *)
(* applied when the input was loaded).                                     *)
Scan ==
  /\ frames # <<>> /\ Node.op = "scan"
  /\ LET rows == request.tables[Node.entity]
         input == Picked(rows, {i \in DOMAIN rows :
                                  \A f \in Node.filter : Passes(f, Node.entity, rows[i])})
     IN done' = [done EXCEPT ![Top] = [i \in DOMAIN input |->
                                         [c \in DOMAIN Node.attrs |-> input[i][Node.attrs[c]]]]]
  /\ frames' = Front(frames)
  /\ UNCHANGED <<given, join, index>>

-----------------------------------------------------------------------------
(* JoinAlgorithm::run.                                                     *)

(* An index for `size' rows.  unordered_map and the index of the columnar  *)
(* executor are functions from the keys to their rows.                     *)
NewIndex(size) ==
  CASE variant = "robinhood" -> RH!New(size)
    [] variant = "cuckoo"    -> CK!New(size)
    [] variant = "hopscotch" -> HS!New(size)
    [] OTHER                 -> [k \in Keys |-> <<>>]

(* The side the index is built on. *)
BuildLeft ==
  IF variant = "columnar" THEN Len(done[Node.left]) <= Len(done[Node.right])
                          ELSE Node.buildLeft

StartJoin ==
  /\ frames # <<>> /\ Node.op = "join" /\ join = None
  /\ done[Node.left] # None /\ done[Node.right] # None
  /\ join' = [buildLeft |-> BuildLeft, built |-> 0, probed |-> 0, out |-> <<>>]
  /\ table' = NewIndex(Len(done[IF BuildLeft THEN Node.left ELSE Node.right]))
  /\ UNCHANGED <<given, frames, done, call, pending>>

BuildRows == done[IF join.buildLeft THEN Node.left ELSE Node.right]
ProbeRows == done[IF join.buildLeft THEN Node.right ELSE Node.left]
BuildAttr == IF join.buildLeft THEN Node.leftAttr ELSE Node.rightAttr
ProbeAttr == IF join.buildLeft THEN Node.rightAttr ELSE Node.leftAttr

(* No insert is running: the loops of run are at their next row. *)
Idle == join # None /\ call = None /\ pending = <<>>

BuildKey == BuildRows[join.built + 1][BuildAttr]
ProbeKey == ProbeRows[join.probed + 1][ProbeAttr]

(* The next row of the build side; a key that is not NULL is inserted. *)
BuildRow ==
  /\ Idle /\ join.built < Len(BuildRows)
  /\ join' = [join EXCEPT !.built = @ + 1]
  /\ UNCHANGED <<given, frames, done>>

BuildNull == BuildRow /\ BuildKey = Null /\ UNCHANGED index

(* The record of a left and a right record: an output column below the     *)
(* width of the left records is theirs, the others are the right record's. *)
Emit(l, r, width) ==
  [c \in DOMAIN Node.attrs |->
     IF Node.attrs[c] <= width THEN l[Node.attrs[c]] ELSE r[Node.attrs[c] - width]]

(* The next row of the probe side, with the rows of the build side that    *)
(* the index has for its key.                                              *)
ProbeRow(found) ==
  /\ Idle /\ join.built = Len(BuildRows) /\ join.probed < Len(ProbeRows)
  /\ LET rows == IF ProbeKey = Null THEN <<>> ELSE found
         p    == ProbeRows[join.probed + 1]
         width == Len(plan[Node.left].attrs)
         emitted == [i \in DOMAIN rows |->
                       IF join.buildLeft THEN Emit(BuildRows[rows[i]], p, width)
                                         ELSE Emit(p, BuildRows[rows[i]], width)]
     IN join' = [join EXCEPT !.probed = @ + 1, !.out = @ \o emitted]
  /\ UNCHANGED <<given, frames, done, index>>

(* One step of run, per executor. *)
RunMap ==
  \/ BuildNull
  \/ /\ BuildRow /\ BuildKey # Null
     /\ table' = [table EXCEPT ![BuildKey] = Append(@, join.built + 1)]
     /\ UNCHANGED <<call, pending>>
  \/ ProbeRow(table[ProbeKey])

RunInitial  == variant = "initial" /\ RunMap
RunColumnar == variant = "columnar" /\ RunMap

RunRobinHood ==
  /\ variant = "robinhood"
  /\ \/ BuildNull
     \/ BuildRow /\ BuildKey # Null /\ RH!Insert(BuildKey, <<join.built + 1>>)
     \/ RH!Step /\ UNCHANGED <<given, frames, done, join>>
     \/ ProbeRow(RH!Find(ProbeKey))

RunCuckoo ==
  /\ variant = "cuckoo"
  /\ \/ BuildNull
     \/ BuildRow /\ BuildKey # Null /\ CK!Insert(BuildKey, <<join.built + 1>>)
     \/ CK!Step /\ UNCHANGED <<given, frames, done, join>>
     \/ ProbeRow(CK!Find(ProbeKey))

RunHopscotch ==
  /\ variant = "hopscotch"
  /\ \/ BuildNull
     \/ BuildRow /\ BuildKey # Null /\ HS!Insert(BuildKey, <<join.built + 1>>)
     \/ HS!Step /\ UNCHANGED <<given, frames, done, join>>
     \/ ProbeRow(HS!Find(ProbeKey))

(* run returns, and execute_impl with the records. *)
Return ==
  /\ Idle /\ join.built = Len(BuildRows) /\ join.probed = Len(ProbeRows)
  /\ done' = [done EXCEPT ![Top] = join.out]
  /\ frames' = Front(frames)
  /\ join' = None /\ table' = None
  /\ UNCHANGED <<given, call, pending>>

(* execute has its records: it converts them and returns. *)
Finished == frames = <<>> /\ UNCHANGED vars

Run == RunInitial \/ RunColumnar \/ RunRobinHood \/ RunCuckoo \/ RunHopscotch

Next == CallChild \/ Scan \/ StartJoin \/ Run \/ Return \/ Finished

(* One thread executes the plan; it is scheduled while it can go on. *)
Spec == Init /\ [][Next]_vars /\ WF_vars(Next)

-----------------------------------------------------------------------------
(* Positions stay inside the tables, distances and kicks below their       *)
(* bounds, and there is an index only while a join runs.                   *)
TypeOK ==
  /\ variant \in Variants
  /\ \A n \in DOMAIN done : done[n] # None =>
       \A i \in DOMAIN done[n] : DOMAIN done[n][i] = DOMAIN plan[n].attrs
  /\ \A i \in DOMAIN frames : frames[i] \in DOMAIN plan
  /\ join # None =>
       /\ join.built \in 0..Len(BuildRows) /\ join.probed \in 0..Len(ProbeRows)
       /\ CASE variant = "robinhood" -> RH!TableType /\ RH!CallType
            [] variant = "cuckoo"    -> CK!TableType /\ CK!CallType
            [] variant = "hopscotch" -> HS!TableType /\ HS!CallType
            [] OTHER                 -> call = None
  /\ join = None => table = None /\ call = None /\ pending = <<>>

(* At every step, in the middle of displacements, evictions and rehashes   *)
(* too, each entry is where a lookup will look for it: robin-hood entries  *)
(* at the distance they record, cuckoo entries in a home slot and none     *)
(* twice, hopscotch entries exactly where the bitmaps say.                 *)
EntriesPlaced ==
  join # None =>
    CASE variant = "robinhood" -> RH!Placed
      [] variant = "cuckoo"    -> CK!Placed
      [] variant = "hopscotch" -> HS!Placed
      [] OTHER                 -> TRUE

Entries ==
  CASE variant = "robinhood" -> RH!Entries
    [] variant = "cuckoo"    -> CK!Entries
    [] variant = "hopscotch" -> HS!Entries
    [] OTHER                 -> {<<"map", k, [key |-> k, values |-> table[k]]>> : k \in Keys}

(* The build rows with key k that have been inserted, in order. *)
RowsOf(k) == Positions(join.built, {i \in 1..join.built : BuildRows[i][BuildAttr] = k})

(* No build row is lost or doubled: at every step each row that has been   *)
(* handed to insert is in exactly one entry, of its key, in the table, in  *)
(* the hand of insert or among those a rehash has yet to reinsert.         *)
EveryRowOnce ==
  join # None =>
    /\ \A e \in Entries : \A p \in DOMAIN e[3].values :
         /\ e[3].values[p] \in 1..join.built
         /\ BuildRows[e[3].values[p]][BuildAttr] = e[3].key
    /\ \A i \in 1..join.built : BuildRows[i][BuildAttr] # Null =>
         \E e \in Entries : \E p \in DOMAIN e[3].values :
           /\ e[3].values[p] = i
           /\ \A f \in Entries : \A q \in DOMAIN f[3].values :
                f[3].values[q] = i => f = e /\ q = p

Lookup(k) ==
  CASE variant = "robinhood" -> RH!Find(k)
    [] variant = "cuckoo"    -> CK!Find(k)
    [] variant = "hopscotch" -> HS!Find(k)
    [] OTHER                 -> table[k]

(* Between two inserts a lookup of any key, there or not, returns the rows *)
(* inserted with it, in the order of their insertion.                      *)
LookupsExact == Idle => \A k \in Keys : Lookup(k) = RowsOf(k)

(* robinhood.h has no rehash and hopscotch.h looks for a free slot without *)
(* a bound ("Full table - Will never happen"): it does not, because the    *)
(* table of a join is never more than half full.                           *)
HalfEmpty ==
  join # None =>
    /\ variant = "robinhood" => 2 * Cardinality(RH!Stored) <= table.N
    /\ variant = "hopscotch" => 2 * Cardinality(HS!Stored) <= table.N

(* The plan is executed to its end: every chain of displacements,          *)
(* evictions and rehashes ends.                                            *)
Terminates == <>(frames = <<>>)
=============================================================================
