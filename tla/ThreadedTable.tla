---------------------------- MODULE ThreadedTable ----------------------------
(***************************************************************************)
(* The parallel hash-table build of JoinAlgorithm::run: worker threads     *)
(* partition the build column by the top bits of the hash into private     *)
(* chains of blocks, the main thread links the chains of each partition,   *)
(* and one builder per partition counts, prefix-sums and copies its tuples *)
(* into one directory and one storage array shared without locks.          *)
(*                                                                         *)
(* A tuple (HashEntry) is named by its row: key and hash follow from it.   *)
(* A block is named by the row whose tuple opened it.  Addresses are       *)
(* counted in HashEntry units from Base.                                   *)
(***************************************************************************)
EXTENDS Integers, Sequences, FiniteSets

CONSTANTS
  BuildSize,       (* rows of the build column                                *)
  NumPartitions,   (* partitions = worker threads, a power of two             *)
  Keys, Null,      (* int32 keys, and the sentinel that stands for NULL       *)
  HashSize,        (* hashes are 0 .. HashSize-1 (2^64 in the code)           *)
  Hash,            (* compute_hash: [Keys -> 0 .. HashSize-1]                 *)
  TagBits, Tag,    (* bloom bits, and computeTag: the bits of a hash          *)
  DirectorySizes,  (* powers of two a directory may have, 2^10 the smallest   *)
  TuplesPerBlock,  (* entries that fit a 64KB chunk after its header          *)
  Base,            (* address of tupleStorage                                 *)
  Nil, Uninit      (* null pointer; malloc'ed cell nobody wrote               *)

Rows       == 0 .. BuildSize - 1
Partitions == 0 .. NumPartitions - 1
Hashes     == 0 .. HashSize - 1

(* Every partition owns the same whole number of directory slots, every    *)
(* slot the same whole number of hashes.  In the code all three numbers    *)
(* are powers of two and there are no more partitions than slots.          *)
SizesAssumption ==
  /\ BuildSize \in Nat /\ NumPartitions \in Nat \ {0} /\ HashSize \in Nat
  /\ TuplesPerBlock \in Nat \ {0} /\ Base \in Nat
  /\ DirectorySizes \subseteq Nat
  /\ \A c \in DirectorySizes :
       \E s \in 1 .. c, l \in 1 .. HashSize : c = s * NumPartitions /\ HashSize = l * c
  /\ \E c \in DirectorySizes : c >= BuildSize
ASSUME SizesAssumption

KeysAssumption ==
  /\ Hash \in [Keys -> Hashes]
  /\ Tag \in [Hashes -> SUBSET TagBits]
  /\ Null \notin Keys /\ Nil \notin Rows /\ Uninit \notin Rows
ASSUME KeysAssumption

VARIABLES
  column,      (* the build column                                          *)
  phase,       (* where the main thread of run() is                         *)
  row,         (* row[t]: next row collector t consumes                     *)
  head,        (* head[t][p]: newest block of collector t for partition p   *)
  next,        (* next[b]: the block after b in its chain                   *)
  tuples,      (* tuples[b]: entries between b's header and end_of_tuples   *)
  counts,      (* counts[t][p]: tuples collector t put in partition p       *)
  cursor,      (* <<p, t>> of the loops over partitions and collectors      *)
  tail,        (* tail of the chain merge_partitions is linking             *)
  heads,       (* partition_heads                                           *)
  offsets,     (* partition_offsets                                         *)
  running,     (* running_count; at the end of its loop, total_tuples       *)
  capacity,    (* directory slots, 0 before FinalTable exists               *)
  dir,         (* directory: entry pointer (or count) and bloom bits        *)
  storage,     (* tupleStorage                                              *)
  bpc,         (* bpc[p]: phase of the builder of partition p               *)
  at,          (* at[p]: <<block, position>> of its walk over the chain     *)
  slot,        (* slot[p]: i of its prefix-sum loop                         *)
  cur          (* cur[p]: address its prefix sum has reached                *)

collectVars == <<row, head, counts>>
chainVars   == <<next, tuples>>
mergeVars   == <<cursor, tail, heads, offsets, running>>
tableVars   == <<capacity, dir, storage>>
buildVars   == <<bpc, at, slot, cur>>
vars == <<column, phase, collectVars, chainVars, mergeVars, tableVars, buildVars>>

-----------------------------------------------------------------------------
(* Which partition and which slot a hash belongs to: its top bits. *)
PartByLowBits(h) == h % NumPartitions   \* mutant: the other end of the hash
Part(h)    == h \div (HashSize \div NumPartitions)
SlotOf(h)  == h \div (HashSize \div capacity)
RowPart(r) == Part(Hash[column[r]])
RowSlot(r) == SlotOf(Hash[column[r]])

(* The rows of collector t: a ceiling division, so the last collectors may *)
(* get fewer rows, or start beyond the column and get none.                *)
RowsPerThreadFloor == BuildSize \div NumPartitions   \* mutant: rounds down
RowsPerThread == (BuildSize + NumPartitions - 1) \div NumPartitions
FirstRow(t)   == t * RowsPerThread
EndRow(t)     == IF FirstRow(t) + RowsPerThread < BuildSize
                 THEN FirstRow(t) + RowsPerThread ELSE BuildSize

(* The directory slots of partition p. *)
FirstSlot(p) == (p * capacity) \div NumPartitions
EndSlotPast(p) == ((p + 1) * capacity) \div NumPartitions + 1   \* mutant: i <= end
EndSlot(p)   == ((p + 1) * capacity) \div NumPartitions

(* c is the smallest directory that has a slot per tuple. *)
DirectorySize(c, total) ==
  c >= total /\ \A d \in DirectorySizes : d >= total => c <= d

-----------------------------------------------------------------------------
Init ==
  /\ column \in [Rows -> Keys \cup {Null}]
  /\ phase = "collect"
  /\ row = [t \in Partitions |-> FirstRow(t)]
  /\ head = [t \in Partitions |-> [p \in Partitions |-> Nil]]
  /\ counts = [t \in Partitions |-> [p \in Partitions |-> 0]]
  /\ next = [b \in Rows |-> Nil]
  /\ tuples = [b \in Rows |-> <<>>]
  /\ cursor = <<0, 0>>
  /\ tail = Nil
  /\ heads = [p \in Partitions |-> Nil]
  /\ offsets = [p \in Partitions |-> 0]
  /\ running = 0
  /\ capacity = 0
  /\ dir = [s \in -1 .. -1 |-> [ptr |-> 0, bloom |-> {}]]
  /\ storage = [c \in 0 .. -1 |-> Uninit]
  /\ bpc = [p \in Partitions |-> "count"]
  /\ at = [p \in Partitions |-> <<Nil, 1>>]
  /\ slot = [p \in Partitions |-> 0]
  /\ cur = [p \in Partitions |-> 0]

-----------------------------------------------------------------------------
(* Collector t skips a NULL key. *)
SkipNull(t) ==
  /\ phase = "collect"
  /\ row[t] < EndRow(t)
  /\ column[row[t]] = Null
  /\ row' = [row EXCEPT ![t] = @ + 1]
  /\ UNCHANGED <<column, phase, head, counts, chainVars, mergeVars, tableVars, buildVars>>

(* Collector t consumes a tuple: into the newest block of its partition,   *)
(* or into a new block in front of it when that one is full or missing.    *)
Consume(t) ==
  /\ phase = "collect"
  /\ row[t] < EndRow(t)
  /\ column[row[t]] # Null
  /\ LET r == row[t]
         p == RowPart(r)
         b == head[t][p]
     IN  /\ IF b = Nil \/ Len(tuples[b]) = TuplesPerBlock
            THEN /\ head' = [head EXCEPT ![t][p] = r]
                 /\ next' = [next EXCEPT ![r] = b]
                 /\ tuples' = [tuples EXCEPT ![r] = <<r>>]
            ELSE /\ tuples' = [tuples EXCEPT ![b] = Append(@, r)]
                 /\ UNCHANGED <<head, next>>
         /\ counts' = [counts EXCEPT ![t][p] = @ + 1]
         /\ row' = [row EXCEPT ![t] = @ + 1]
  /\ UNCHANGED <<column, phase, mergeVars, tableVars, buildVars>>

(* join() of the collectors. *)
JoinCollectors ==
  /\ phase = "collect"
  /\ \A t \in Partitions : row[t] >= EndRow(t)
  /\ phase' = "merge"
  /\ UNCHANGED <<column, collectVars, chainVars, mergeVars, tableVars, buildVars>>

-----------------------------------------------------------------------------
(* The loops "for each partition, for each collector". *)
NextCursorPast == IF cursor[2] + 1 <= NumPartitions   \* mutant: one collector too many
                  THEN <<cursor[1], cursor[2] + 1>> ELSE <<cursor[1] + 1, 0>>
NextCursor == IF cursor[2] + 1 < NumPartitions
              THEN <<cursor[1], cursor[2] + 1>> ELSE <<cursor[1] + 1, 0>>
CursorDone == cursor[1] = NumPartitions

(* merge_partitions: walk to the end of the chain linked so far.  The code *)
(* walks after linking; here the walk waits for the next collector's turn. *)
AtChainEndAlways == TRUE   \* mutant: links without having walked to the end
AtChainEnd == tail # Nil => next[tail] = Nil
TailStays == tail   \* mutant: the walk does not advance
TailNext == next[tail]

MergeWalk ==
  /\ phase = "merge" /\ ~CursorDone
  /\ ~AtChainEnd
  /\ tail' = TailNext
  /\ UNCHANGED <<column, phase, collectVars, chainVars, cursor, heads, offsets, running,
                 tableVars, buildVars>>

(* merge_partitions: hang the next collector's chain, if it has one, after *)
(* that end; the first chain of a partition becomes its head.              *)
MergeLink ==
  /\ phase = "merge" /\ ~CursorDone
  /\ AtChainEnd
  /\ LET p == cursor[1]
         current == head[cursor[2]][p]
         linked == IF current = Nil THEN tail
                   ELSE IF tail = Nil THEN current ELSE tail
     IN  /\ heads' = IF current # Nil /\ tail = Nil
                     THEN [heads EXCEPT ![p] = current] ELSE heads
         /\ next' = IF current # Nil /\ tail # Nil
                    THEN [next EXCEPT ![tail] = current] ELSE next
         /\ cursor' = NextCursor
         /\ tail' = IF NextCursor[1] = p THEN linked ELSE Nil
  /\ UNCHANGED <<column, phase, collectVars, tuples, offsets, running, tableVars, buildVars>>

MergeDone ==
  /\ phase = "merge" /\ CursorDone
  /\ phase' = "offsets"
  /\ cursor' = <<0, 0>>
  /\ UNCHANGED <<column, collectVars, chainVars, tail, heads, offsets, running,
                 tableVars, buildVars>>

(* The sum of the collectors' counts, partition by partition: the offset   *)
(* of a partition is the sum when the loop reaches it.                     *)
SumWithOwn(p, t) == running + counts[t][p]   \* mutant: running_count is added to first
SumBefore(p, t) == running

AddCount ==
  /\ phase = "offsets" /\ ~CursorDone
  /\ LET p == cursor[1]
         t == cursor[2]
     IN  /\ offsets' = IF t = 0 THEN [offsets EXCEPT ![p] = SumBefore(p, t)] ELSE offsets
         /\ running' = running + counts[t][p]
  /\ cursor' = NextCursor
  /\ UNCHANGED <<column, phase, collectVars, chainVars, tail, heads, tableVars, buildVars>>

(* FinalTable(total): storage is not initialised, the directory is zeroed  *)
(* but for the entry before slot 0; then the builders are started.         *)
MakeTable ==
  /\ phase = "offsets" /\ CursorDone
  /\ capacity' \in {c \in DirectorySizes : DirectorySize(c, running)}
  /\ dir' = [s \in -1 .. capacity' - 1 |->
               [ptr |-> IF s = -1 THEN Base ELSE 0, bloom |-> {}]]
  /\ storage' = [c \in 0 .. running - 1 |-> Uninit]
  /\ at' = [p \in Partitions |-> <<heads[p], 1>>]
  /\ phase' = "build"
  /\ UNCHANGED <<column, collectVars, chainVars, mergeVars, bpc, slot, cur>>

-----------------------------------------------------------------------------
(* The position of the chain after <<block, position>>. *)
After(a) == IF a[2] < Len(tuples[a[1]]) THEN <<a[1], a[2] + 1>> ELSE <<next[a[1]], 1>>
TupleAt(p) == tuples[at[p][1]][at[p][2]]

(* postProcessBuild, first walk: count the tuple in its slot and add its   *)
(* bloom bits.                                                             *)
CountTuple(p) ==
  /\ phase = "build" /\ bpc[p] = "count" /\ at[p][1] # Nil
  /\ LET r == TupleAt(p)
     IN  dir' = [dir EXCEPT ![RowSlot(r)] =
                   [ptr |-> @.ptr + 1, bloom |-> @.bloom \cup Tag[Hash[column[r]]]]]
  /\ at' = [at EXCEPT ![p] = After(@)]
  /\ UNCHANGED <<column, phase, collectVars, chainVars, mergeVars, capacity, storage,
                 bpc, slot, cur>>

StartNoOffset(p) == Base   \* mutant: prevCount is forgotten
StartAddress(p) == Base + offsets[p]

CountDone(p) ==
  /\ phase = "build" /\ bpc[p] = "count" /\ at[p][1] = Nil
  /\ bpc' = [bpc EXCEPT ![p] = "prefix"]
  /\ slot' = [slot EXCEPT ![p] = FirstSlot(p)]
  /\ cur' = [cur EXCEPT ![p] = StartAddress(p)]
  /\ UNCHANGED <<column, phase, collectVars, chainVars, mergeVars, tableVars, at>>

(* Turn the slot's count into the address where its tuples start, keeping  *)
(* its bloom bits.                                                         *)
PointToOnly(entry, address) == [ptr |-> address, bloom |-> {}]   \* mutant: low 16 bits lost
PointTo(entry, address) == [entry EXCEPT !.ptr = address]

PrefixSlot(p) ==
  /\ phase = "build" /\ bpc[p] = "prefix" /\ slot[p] < EndSlot(p)
  /\ dir' = [dir EXCEPT ![slot[p]] = PointTo(@, cur[p])]
  /\ cur' = [cur EXCEPT ![p] = @ + dir[slot[p]].ptr]
  /\ slot' = [slot EXCEPT ![p] = @ + 1]
  /\ UNCHANGED <<column, phase, collectVars, chainVars, mergeVars, capacity, storage, bpc, at>>

PrefixDone(p) ==
  /\ phase = "build" /\ bpc[p] = "prefix" /\ slot[p] >= EndSlot(p)
  /\ bpc' = [bpc EXCEPT ![p] = "copy"]
  /\ at' = [at EXCEPT ![p] = <<heads[p], 1>>]
  /\ UNCHANGED <<column, phase, collectVars, chainVars, mergeVars, tableVars, slot, cur>>

(* Second walk: copy the tuple to its slot's address and advance that. *)
CopyTuple(p) ==
  /\ phase = "build" /\ bpc[p] = "copy" /\ at[p][1] # Nil
  /\ LET r == TupleAt(p)
         s == RowSlot(r)
     IN  /\ storage' = [storage EXCEPT ![dir[s].ptr - Base] = r]
         /\ dir' = [dir EXCEPT ![s].ptr = @ + 1]
  /\ at' = [at EXCEPT ![p] = After(@)]
  /\ UNCHANGED <<column, phase, collectVars, chainVars, mergeVars, capacity, bpc, slot, cur>>

CopyDone(p) ==
  /\ phase = "build" /\ bpc[p] = "copy" /\ at[p][1] = Nil
  /\ bpc' = [bpc EXCEPT ![p] = "done"]
  /\ UNCHANGED <<column, phase, collectVars, chainVars, mergeVars, tableVars, at, slot, cur>>

SomeBuilderDone == \E p \in Partitions : bpc[p] = "done"   \* mutant: joins one thread
BuildersDone == \A p \in Partitions : bpc[p] = "done"

(* join() of the builders: from here on the table is only read. *)
JoinBuilders ==
  /\ phase = "build"
  /\ BuildersDone
  /\ phase' = "built"
  /\ UNCHANGED <<column, collectVars, chainVars, mergeVars, tableVars, buildVars>>

-----------------------------------------------------------------------------
Collector(t) == SkipNull(t) \/ Consume(t)
Builder(p)   == CountTuple(p) \/ CountDone(p) \/ PrefixSlot(p) \/ PrefixDone(p)
                  \/ CopyTuple(p) \/ CopyDone(p)
Main         == JoinCollectors \/ MergeWalk \/ MergeLink \/ MergeDone \/ AddCount
                  \/ MakeTable \/ JoinBuilders

(* The table is built; run() goes on to probe it. *)
Done == phase = "built" /\ UNCHANGED vars

Next == Main \/ (\E t \in Partitions : Collector(t)) \/ (\E p \in Partitions : Builder(p)) \/ Done

Spec == Init /\ [][Next]_vars

(* Every std::thread is scheduled and no step of any of them can block. *)
FairSpec == Spec /\ WF_vars(Main)
                 /\ \A t \in Partitions : WF_vars(Collector(t)) /\ WF_vars(Builder(t))

-----------------------------------------------------------------------------
(* find_range: the addresses between the end of the previous slot, which   *)
(* another builder may have written, and the end of the key's own.         *)
CouldContain(k) == Tag[Hash[k]] \subseteq dir[SlotOf(Hash[k])].bloom
FindRange(k) ==
  IF CouldContain(k)
  THEN dir[SlotOf(Hash[k]) - 1].ptr .. dir[SlotOf(Hash[k])].ptr - 1
  ELSE {}

-----------------------------------------------------------------------------
(* Every variable keeps its shape: cursors, chains, directory and storage   *)
(* as JoinAlgorithm::run and FinalTable use them.                           *)
CollectTypeOK ==
  /\ row \in [Partitions -> Nat]
  /\ head \in [Partitions -> [Partitions -> Rows \cup {Nil}]]
  /\ counts \in [Partitions -> [Partitions -> Nat]]
ChainTypeOK ==
  /\ next \in [Rows -> Rows \cup {Nil}]
  /\ tuples \in [Rows -> Seq(Rows)]
MergeTypeOK ==
  /\ cursor \in (0 .. NumPartitions) \X Partitions
  /\ tail \in Rows \cup {Nil}
  /\ heads \in [Partitions -> Rows \cup {Nil}]
  /\ offsets \in [Partitions -> Nat]
  /\ running \in Nat
TableTypeOK ==
  /\ capacity \in DirectorySizes \cup {0}
  /\ dir \in [-1 .. capacity - 1 -> [ptr : Nat, bloom : SUBSET TagBits]]
  /\ DOMAIN storage \subseteq Nat
  /\ \A c \in DOMAIN storage : storage[c] \in Rows \cup {Uninit}
BuildTypeOK ==
  /\ bpc \in [Partitions -> {"count", "prefix", "copy", "done"}]
  /\ at \in [Partitions -> (Rows \cup {Nil}) \X (Nat \ {0})]
  /\ slot \in [Partitions -> Nat]
  /\ cur \in [Partitions -> Nat]
TypeOK ==
  /\ column \in [Rows -> Keys \cup {Null}]
  /\ phase \in {"collect", "merge", "offsets", "build", "built"}
  /\ CollectTypeOK /\ ChainTypeOK /\ MergeTypeOK /\ TableTypeOK /\ BuildTypeOK

(* The directory entries and storage cells builder p accesses next. *)
Walking(p)   == bpc[p] \in {"count", "copy"} /\ at[p][1] # Nil
DirAccess(p) ==
  IF Walking(p) THEN {RowSlot(TupleAt(p))}
  ELSE IF bpc[p] = "prefix" /\ slot[p] < EndSlot(p) THEN {slot[p]} ELSE {}
StorageAccess(p) ==
  IF bpc[p] = "copy" /\ Walking(p) THEN {dir[RowSlot(TupleAt(p))].ptr - Base} ELSE {}

(* The builders of postProcessBuild share the directory without a lock: no  *)
(* two of them are ever about to access the same directory entry, although  *)
(* one walks tuples by hash and another runs over a range of slot numbers.  *)
DirectoryRaceFree ==
  phase = "build" =>
    \A p, q \in Partitions : p # q => DirAccess(p) \cap DirAccess(q) = {}

(* They share the storage as well: a copy goes to a cell of the allocated   *)
(* array that nobody has written, and no two builders write the same one.   *)
CopiesDisjoint ==
  phase = "build" =>
    /\ \A p \in Partitions : \A c \in StorageAccess(p) :
         c \in DOMAIN storage /\ storage[c] = Uninit
    /\ \A p, q \in Partitions : p # q => StorageAccess(p) \cap StorageAccess(q) = {}

(* The block reached by n links from the head of partition p. *)
ChainBlock(p) ==
  LET block[n \in 0 .. BuildSize] ==
        IF n = 0 THEN heads[p]
        ELSE IF block[n - 1] = Nil THEN Nil ELSE next[block[n - 1]]
  IN  block

(* The places of row r in the chain of partition p. *)
Places(p, r) ==
  {place \in (0 .. BuildSize) \X (1 .. TuplesPerBlock) :
     LET b == ChainBlock(p)[place[1]]
         i == place[2]
     IN  b # Nil /\ i <= Len(tuples[b]) /\ tuples[b][i] = r}

(* merge_partitions and the collectors before it lose, duplicate or         *)
(* misplace no row: each linked chain ends, and holds every row whose key   *)
(* hashes to its partition once, and nothing else; the offset of a          *)
(* partition counts the tuples of those before it.                          *)
MergeExact ==
  phase \in {"build", "built"} =>
    \A p \in Partitions :
      /\ ChainBlock(p)[BuildSize] = Nil
      /\ \A r \in Rows :
           Cardinality(Places(p, r)) =
             IF column[r] # Null /\ RowPart(r) = p THEN 1 ELSE 0
      /\ offsets[p] = Cardinality({r \in Rows : column[r] # Null /\ RowPart(r) < p})

(* What a probe for every key finds in the finished table: how often it     *)
(* meets each row among the entries of find_range whose key is the probed   *)
(* one.  A range that holds a cell nobody wrote is no index at all.         *)
Lookups ==
  IF \E k \in Keys : \E a \in FindRange(k) :
       a - Base \notin DOMAIN storage \/ storage[a - Base] = Uninit
  THEN Uninit
  ELSE [k \in Keys |-> [r \in Rows |->
          Cardinality({a \in FindRange(k) : storage[a - Base] = r /\ column[r] = k})]]

Index == INSTANCE JoinIndex WITH
           NotBuilt <- Nil, index <- IF phase = "built" THEN Lookups ELSE Nil

(* The finished table answers every lookup, of present and of absent keys,  *)
(* exactly as the abstract index does: no false negative of the bloom bits, *)
(* no wrong slot boundary between partitions, no row twice.                 *)
ImplementsIndex == Index!Spec

(* Every build ends: no chain is cyclic, no loop misses its bound.          *)
EventuallyBuilt == <>(phase = "built")
-----------------------------------------------------------------------------
(* Why builders cannot meet in the directory.  A block in use for partition *)
(* p holds tuples, and only tuples of that partition; so does every block   *)
(* linked to it, hence every block a builder's walk reaches.                *)
BlockOf(b, p) ==
  b # Nil => b \in Rows /\ tuples[b] # <<>> /\ column[b] # Null /\ RowPart(b) = p

BlocksPure ==
  \A b \in Rows : tuples[b] # <<>> =>
    /\ BlockOf(next[b], RowPart(b))
    /\ \A i \in 1 .. Len(tuples[b]) :
         LET r == tuples[b][i] IN column[r] # Null /\ RowPart(r) = RowPart(b)

PointersPure ==
  /\ \A t, p \in Partitions : BlockOf(head[t][p], p)
  /\ \A p \in Partitions : BlockOf(heads[p], p)
  /\ BlockOf(tail, cursor[1])
  /\ phase # "merge" => tail = Nil

BuilderSound ==
  /\ phase \in {"build", "built"} => capacity \in DirectorySizes
  /\ \A p \in Partitions :
       /\ BlockOf(at[p][1], p)
       /\ at[p][1] # Nil => at[p][2] \in 1 .. Len(tuples[at[p][1]])
       /\ phase # "build" /\ phase # "built" => at[p][1] = Nil
       /\ bpc[p] = "prefix" => phase \in {"build", "built"} /\ FirstSlot(p) <= slot[p]

IInv == TypeOK /\ BlocksPure /\ PointersPure /\ BuilderSound
-----------------------------------------------------------------------------
(* Why merging is exact.  Collector t consumes an interval of rows.        *)
Owner(r)    == r \div RowsPerThread
Consumed(r) == r < row[Owner(r)] /\ column[r] # Null

(* Collectors consume their rows in order, and count them by partition.     *)
CountsExact ==
  /\ phase = "collect" => cursor = <<0, 0>>
  /\ phase \in {"collect", "merge"} => running = 0
  /\ \A t \in Partitions : FirstRow(t) <= row[t]
  /\ phase # "collect" => \A r \in Rows : r < row[Owner(r)]
  /\ \A t, p \in Partitions :
       counts[t][p] = Cardinality({r \in Rows : Consumed(r) /\ Owner(r) = t /\ RowPart(r) = p})

(* Every consumed row is in one place of one block of its own collector.    *)
TuplesExact ==
  /\ \A b \in Rows : \A i \in 1 .. Len(tuples[b]) :
       Consumed(tuples[b][i]) /\ Owner(tuples[b][i]) = Owner(b)
  /\ \A b \in Rows : Len(tuples[b]) <= TuplesPerBlock /\ (tuples[b] # <<>> => tuples[b][1] = b)
  /\ \A b, c \in Rows : \A i \in 1 .. Len(tuples[b]), j \in 1 .. Len(tuples[c]) :
       tuples[b][i] = tuples[c][j] => b = c /\ i = j
  /\ \A r \in Rows : Consumed(r) => \E b \in Rows : \E i \in 1 .. Len(tuples[b]) : tuples[b][i] = r

(* The order of the blocks of a partition: by collector, newest block of a  *)
(* collector first.  Chains follow it; c is Nil or the first block of S.    *)
Before(b, c) == Owner(b) < Owner(c) \/ (Owner(b) = Owner(c) /\ c < b)
First(c, S)  == IF S = {} THEN c = Nil ELSE c \in S /\ \A d \in S : d = c \/ Before(c, d)
Blocks(p)    == {b \in Rows : tuples[b] # <<>> /\ RowPart(b) = p}

(* The collectors' chains merge_partitions has linked so far: those before  *)
(* its cursor.                                                              *)
Passed(p, t) == p < cursor[1] \/ (p = cursor[1] /\ t < cursor[2])
Merged(p, t) == phase # "collect" /\ (phase = "merge" => Passed(p, t))
SameChain(p, t, u) == t = u \/ (Merged(p, t) /\ Merged(p, u))
Successors(p, b) == {c \in Blocks(p) : Before(b, c) /\ SameChain(p, Owner(b), Owner(c))}

ChainsExact ==
  /\ \A p \in Partitions :
       /\ \A b \in Blocks(p) : First(next[b], Successors(p, b))
       /\ \A t \in Partitions : First(head[t][p], {b \in Blocks(p) : Owner(b) = t})
       /\ First(heads[p], {b \in Blocks(p) : Merged(p, Owner(b))})
  /\ phase = "merge" /\ ~CursorDone =>
       IF tail = Nil THEN \A b \in Blocks(cursor[1]) : ~Merged(cursor[1], Owner(b))
       ELSE tail \in Blocks(cursor[1]) /\ Merged(cursor[1], Owner(tail))

(* The sums of the counts.                                                  *)
Tuples     == {r \in Rows : column[r] # Null}
OffsetsExact ==
  /\ phase = "offsets" =>
       running = Cardinality({r \in Tuples : Passed(RowPart(r), Owner(r))})
  /\ phase \in {"build", "built"} => running = Cardinality(Tuples)
  /\ \A p \in Partitions :
       phase \in {"build", "built"} \/ (phase = "offsets" /\ (Passed(p, 0))) =>
         offsets[p] = Cardinality({r \in Tuples : RowPart(r) < p})

ChainInv == CountsExact /\ TuplesExact /\ ChainsExact /\ OffsetsExact
-----------------------------------------------------------------------------
(* Why copies are disjoint and lookups exact.  The rows builder p has       *)
(* walked over: those placed before <<block, position>> in its chain.       *)
Past(b, i, a) == a[1] = Nil \/ Before(b, a[1]) \/ (b = a[1] /\ i < a[2])
WalkedTo(p, a) == {r \in Tuples : \E b \in Blocks(p) : \E i \in 1 .. Len(tuples[b]) :
                     tuples[b][i] = r /\ Past(b, i, a)}
Walked(p) == WalkedTo(p, at[p])

(* Where a slot's tuples start, and how many of them have been walked over. *)
SlotTuples(S) == {r \in Tuples : RowSlot(r) \in S}
Start(s)      == Base + Cardinality(SlotTuples(0 .. s - 1))
Seen(p, s)    == Cardinality(SlotTuples({s}) \cap Walked(p))
SlotsOf(p)    == FirstSlot(p) .. EndSlot(p) - 1
Building      == phase \in {"build", "built"}
Copying(p)    == bpc[p] \in {"copy", "done"}

(* The directory entries of a builder: counts, start addresses as far as    *)
(* its prefix sum has come, and addresses that advance with its copies.     *)
SlotsExact(p) ==
  /\ bpc[p] \in {"prefix", "done"} => at[p][1] = Nil
  /\ bpc[p] = "prefix" => slot[p] <= EndSlot(p) /\ cur[p] = Start(slot[p])
  /\ \A s \in SlotsOf(p) :
       dir[s].ptr = IF Copying(p) THEN Start(s) + Seen(p, s)
                    ELSE IF bpc[p] = "prefix" /\ s < slot[p] THEN Start(s) ELSE Seen(p, s)

(* The bloom bits of a slot cover the tags of the tuples counted in it.     *)
BloomsCover(p) ==
  \A r \in Tuples : RowPart(r) = p /\ (bpc[p] = "count" => r \in Walked(p)) =>
    Tag[Hash[column[r]]] \subseteq dir[RowSlot(r)].bloom

(* The cells of a slot: its tuples copied so far, one each, then free ones. *)
FilledTo(p, s) == IF Copying(p) THEN dir[s].ptr ELSE Start(s)
Filled(p, s)   == Start(s) .. FilledTo(p, s) - 1
SlotCells(p, s) ==
  /\ \A a \in Filled(p, s) : storage[a - Base] \in SlotTuples({s}) \cap Walked(p)
  /\ \A a, b \in Filled(p, s) : storage[a - Base] = storage[b - Base] => a = b
  /\ Copying(p) => \A r \in SlotTuples({s}) \cap Walked(p) :
                     \E a \in Filled(p, s) : storage[a - Base] = r
  /\ \A a \in FilledTo(p, s) .. Start(s + 1) - 1 : storage[a - Base] = Uninit
CellsExact(p) == \A s \in SlotsOf(p) : SlotCells(p, s)

TableInv ==
  /\ ~Building => \A p \in Partitions : bpc[p] = "count"
  /\ phase = "built" => \A p \in Partitions : bpc[p] = "done"
  /\ Building =>
       /\ dir[-1].ptr = Base /\ DOMAIN storage = 0 .. Cardinality(Tuples) - 1
       /\ \A p \in Partitions : SlotsExact(p) /\ BloomsCover(p) /\ CellsExact(p)
=============================================================================
